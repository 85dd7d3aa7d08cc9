------------------------------- MODULE JobLife -------------------------------
(***************************************************************************)
(* What the job queue promises about one job, seen from outside: it is     *)
(* submitted once, it is handled by one worker at a time, it is tried at   *)
(* most MaxTries times, a success is final, and it is buried only after    *)
(* MaxTries tries.  A job may also vanish: the code leaves that to a       *)
(* reconciler the repository does not have.                                *)
(***************************************************************************)
EXTENDS Naturals

CONSTANTS Jobs, MaxTries

VARIABLES life, tries

lifeVars == <<life, tries>>

LifeStates == {"absent", "waiting", "active", "done", "dead", "gone"}

LifeInit ==
  /\ life = [j \in Jobs |-> "absent"]
  /\ tries = [j \in Jobs |-> 0]

Becomes(j, from, to) ==
  /\ life[j] = from
  /\ life' = [life EXCEPT ![j] = to]

\* The job reaches the ready queue.
Submit(j) == Becomes(j, "absent", "waiting") /\ UNCHANGED tries

\* A worker starts the handler.
Start(j) ==
  /\ Becomes(j, "waiting", "active")
  /\ tries[j] < MaxTries
  /\ tries' = [tries EXCEPT ![j] = @ + 1]

Finish(j) == Becomes(j, "active", "done") /\ UNCHANGED tries

Retry(j) ==
  /\ Becomes(j, "active", "waiting")
  /\ tries[j] < MaxTries
  /\ UNCHANGED tries

Bury(j) ==
  /\ Becomes(j, "active", "dead")
  /\ tries[j] = MaxTries
  /\ UNCHANGED tries

\* Some unfinished jobs are lost in one step (a failed push, a crash).
Lose(S) ==
  /\ \A j \in S : life[j] \in {"absent", "waiting", "active"}
  /\ life' = [j \in Jobs |-> IF j \in S THEN "gone" ELSE life[j]]
  /\ UNCHANGED tries

LifeNext ==
  \/ \E j \in Jobs : Submit(j) \/ Start(j) \/ Finish(j) \/ Retry(j) \/ Bury(j)
  \/ \E S \in SUBSET Jobs : Lose(S)

LifeSpec == LifeInit /\ [][LifeNext]_lifeVars
=============================================================================
