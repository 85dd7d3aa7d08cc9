------------------------------ MODULE JobQueue ------------------------------
(***************************************************************************)
(* The background job queue, internals/jobs: the Postgres table job_queue, *)
(* the Redis ready lists, delayed set and dead-letter list, the producers' *)
(* transactions, the worker goroutines and the delayed-job scheduler.      *)
(*                                                                         *)
(* One step is one command to Postgres or Redis.  Each behaviour has its   *)
(* own set of failures that may happen in it, and the properties say under *)
(* which failures they hold; the code's reaction to a failure is what the  *)
(* action does.                                                            *)
(***************************************************************************)
EXTENDS Naturals, Sequences, FiniteSets

CONSTANTS
  Jobs,        \* job ids; an id is generated once and used by one transaction
  JobTypes,    \* "transcribe", "summarize"
  TypeOf,      \* the type of each job
  Instances,   \* running server processes, each with one delayed scheduler
  Workers,     \* worker goroutines
  Home,        \* the process a worker runs in
  Serves,      \* the job type a worker serves
  MaxRetries,  \* jobs.Job.MaxRetries, 5 in the code
  FaultSets    \* the sets of failures a behaviour may be exposed to

FaultKinds ==
  { "rollback",  \* the producer's transaction is rolled back
    "push",      \* an LPUSH to a ready list fails
    "zadd",      \* the ZADD of a retry fails
    "dlq",       \* the LPUSH to the dead-letter list fails
    "status",    \* the UPDATE of a job row fails or times out
    "reply",     \* Redis removes an element but the reply is lost
    "crash",     \* a process dies, or exits at shutdown, between two commands
    "slow" }     \* a backoff elapses before the worker's own status write

ASSUME MaxRetriesAssumption == MaxRetries \in Nat \ {0}
ASSUME TypeOfAssumption == TypeOf \in [Jobs -> JobTypes]
ASSUME WorkersAssumption ==
  /\ Home \in [Workers -> Instances]
  /\ Serves \in [Workers -> JobTypes]
ASSUME FaultsAssumption == FaultSets \subseteq SUBSET FaultKinds

VARIABLES
  faults,    \* the failures that may happen in this behaviour
  tx,        \* producer transaction of each job
  row,       \* job_queue row as other transactions see it
  ready,     \* Redis LIST per type: pushed at the end, popped at the head
  delayed,   \* Redis ZSET of jobs waiting for their backoff
  due,       \* the members of delayed whose score has passed
  dlq,       \* Redis LIST of exhausted jobs, only ever pushed to
  pc,        \* control state of each worker
  held,      \* the envelope a worker has in hand, as a set of at most one
  todo,      \* members a scheduler still has to go through in this tick
  claimed,   \* the member a scheduler has removed but not yet pushed
  runs,      \* history: handler starts per job
  done       \* history: jobs whose handler has returned nil

redisVars  == <<ready, delayed, due, dlq>>
workerVars == <<pc, held>>
drainVars  == <<todo, claimed>>
history    == <<runs, done>>
vars == <<faults, tx, row, redisVars, workerVars, drainVars, history>>

Envelope == [id : Jobs, attempts : 0 .. MaxRetries]
TxStates == {"none", "inserted", "pushed", "committed", "rolled_back"}
RowStates == {"absent", "pending", "running", "completed", "failed"}
WorkerStates ==
  {"idle", "popped", "handling", "succeeded", "failing", "retrying", "dead"}

\* Every variable holds a value of its kind; an idle worker has nothing in hand.
TypeOK ==
  /\ faults \in FaultSets
  /\ tx \in [Jobs -> TxStates]
  /\ row \in [Jobs -> [status : RowStates, attempts : 0 .. MaxRetries]]
  /\ ready \in [JobTypes -> Seq(Envelope)]
  /\ \A t \in JobTypes : \A k \in DOMAIN ready[t] : TypeOf[ready[t][k].id] = t
  /\ delayed \in SUBSET Envelope
  /\ due \in SUBSET delayed
  /\ dlq \in SUBSET Envelope
  /\ pc \in [Workers -> WorkerStates]
  /\ held \in [Workers -> SUBSET Envelope]
  /\ \A w \in Workers : pc[w] = "idle" <=> held[w] = {}
  /\ todo \in [Instances -> SUBSET Envelope]
  /\ claimed \in [Instances -> SUBSET Envelope]
  /\ runs \in [Jobs -> Nat]
  /\ done \in SUBSET Jobs

Init ==
  /\ faults \in FaultSets
  /\ tx = [j \in Jobs |-> "none"]
  /\ row = [j \in Jobs |-> [status |-> "absent", attempts |-> 0]]
  /\ ready = [t \in JobTypes |-> <<>>]
  /\ delayed = {}
  /\ due = {}
  /\ dlq = {}
  /\ pc = [w \in Workers |-> "idle"]
  /\ held = [w \in Workers |-> {}]
  /\ todo = [i \in Instances |-> {}]
  /\ claimed = [i \in Instances |-> {}]
  /\ runs = [j \in Jobs |-> 0]
  /\ done = {}

-----------------------------------------------------------------------------
(* Producers: EnqueueTx inside the caller's transaction.                   *)

LPush(e) == ready' = [ready EXCEPT ![TypeOf[e.id]] = Append(@, e)]

InsertJob(j) ==
  /\ tx[j] = "none"
  /\ tx' = [tx EXCEPT ![j] = "inserted"]
  /\ UNCHANGED <<faults, row, redisVars, workerVars, drainVars, history>>

\* The push comes before the commit, and its failure is swallowed.
PushReady(j) ==
  /\ tx[j] = "inserted"
  /\ tx' = [tx EXCEPT ![j] = "pushed"]
  /\ \/ LPush([id |-> j, attempts |-> 0])
     \/ "push" \in faults /\ UNCHANGED ready
  /\ UNCHANGED <<faults, row, delayed, due, dlq, workerVars, drainVars, history>>

\* Only now does another transaction see the row.
Commit(j) ==
  /\ tx[j] = "pushed"
  /\ tx' = [tx EXCEPT ![j] = "committed"]
  /\ row' = [row EXCEPT ![j] = [status |-> "pending", attempts |-> 0]]
  /\ UNCHANGED <<faults, redisVars, workerVars, drainVars, history>>

\* An error, a cancelled request or a dead process ends the transaction.
Rollback(j) ==
  /\ "rollback" \in faults
  /\ tx[j] \in {"inserted", "pushed"}
  /\ tx' = [tx EXCEPT ![j] = "rolled_back"]
  /\ UNCHANGED <<faults, row, redisVars, workerVars, drainVars, history>>

-----------------------------------------------------------------------------
(* Workers.                                                                *)

Goto(w, from, to) ==
  /\ pc[w] = from
  /\ pc' = [pc EXCEPT ![w] = to]

\* UPDATE ... WHERE id: no row is hit before the producer commits, and an
\* error is only logged.
SetStatus(j, status, attempts) ==
  \/ row' = IF row[j].status = "absent" THEN row
            ELSE [row EXCEPT ![j] = [status |-> status, attempts |-> attempts]]
  \/ "status" \in faults /\ UNCHANGED row

Pop(w) ==
  /\ ready[Serves[w]] # <<>>
  /\ ready' = [ready EXCEPT ![Serves[w]] = Tail(@)]
  /\ \/ /\ Goto(w, "idle", "popped")
        /\ held' = [held EXCEPT ![w] = {Head(ready[Serves[w]])}]
     \/ /\ "reply" \in faults
        /\ pc[w] = "idle"
        /\ UNCHANGED workerVars
  /\ UNCHANGED <<faults, tx, row, delayed, due, dlq, drainVars, history>>

\* The handler is entered; the row is marked running with attempts 0.
MarkRunning(w) == \E e \in held[w] :
  /\ Goto(w, "popped", "handling")
  /\ SetStatus(e.id, "running", 0)
  /\ runs' = [runs EXCEPT ![e.id] = @ + 1]
  /\ UNCHANGED <<faults, tx, redisVars, held, drainVars, done>>

HandlerSucceeds(w) == \E e \in held[w] :
  /\ Goto(w, "handling", "succeeded")
  /\ done' = done \union {e.id}
  /\ UNCHANGED <<faults, tx, row, redisVars, held, drainVars, runs>>

\* job.Attempts++ on the worker's own copy.
HandlerFails(w) == \E e \in held[w] :
  /\ Goto(w, "handling", "failing")
  /\ held' = [held EXCEPT ![w] = {[e EXCEPT !.attempts = @ + 1]}]
  /\ UNCHANGED <<faults, tx, row, redisVars, drainVars, history>>

\* One attempt too many.
ExhaustedLate(e) == e.attempts > MaxRetries

Exhausted(e) == e.attempts >= MaxRetries

\* A retry recorded in Postgres only.
ScheduleRetryRowOnly(w) == \E e \in held[w] :
  /\ ~Exhausted(e)
  /\ Goto(w, "failing", "retrying")
  /\ UNCHANGED <<faults, tx, row, redisVars, held, drainVars, history>>

ScheduleRetry(w) == \E e \in held[w] :
  /\ ~Exhausted(e)
  /\ Goto(w, "failing", "retrying")
  /\ \/ delayed' = delayed \union {e}
     \/ "zadd" \in faults /\ UNCHANGED delayed
  /\ UNCHANGED <<faults, tx, row, ready, due, dlq, held, drainVars, history>>

PushDLQ(w) == \E e \in held[w] :
  /\ Exhausted(e)
  /\ Goto(w, "failing", "dead")
  /\ \/ dlq' = dlq \union {e}
     \/ "dlq" \in faults /\ UNCHANGED dlq
  /\ UNCHANGED <<faults, tx, row, ready, delayed, due, held, drainVars, history>>

\* The last status write of a job's turn; the worker is free afterwards.
Settle(w, from, status) == \E e \in held[w] :
  /\ Goto(w, from, "idle")
  /\ held' = [held EXCEPT ![w] = {}]
  /\ SetStatus(e.id, status, e.attempts)
  /\ UNCHANGED <<faults, tx, redisVars, drainVars, history>>

\* A failure whose branch does not return, and one whose status is not written.
MarkPendingFallsThrough(w) == Settle(w, "retrying", "completed")
MarkPendingSkipped(w) ==
  /\ Goto(w, "retrying", "idle")
  /\ held' = [held EXCEPT ![w] = {}]
  /\ UNCHANGED <<faults, tx, row, redisVars, drainVars, history>>

MarkCompleted(w) == Settle(w, "succeeded", "completed")
MarkPending(w)   == Settle(w, "retrying", "pending")
MarkFailed(w)    == Settle(w, "dead", "failed")

-----------------------------------------------------------------------------
(* Delayed scheduler.                                                      *)

\* A backoff is at least 4s and a status write is given up after 3s, so only
\* a slow ZADD lets it elapse while the worker still has its write to do.
BackoffElapses(e) ==
  /\ e \in delayed \ due
  /\ \/ "slow" \in faults
     \/ \A w \in Workers : ~(pc[w] = "retrying" /\ e \in held[w])
  /\ due' = due \union {e}
  /\ UNCHANGED <<faults, tx, row, ready, delayed, dlq, workerVars, drainVars, history>>

\* ZRANGEBYSCORE up to now.
DrainSnapshot(i) ==
  /\ todo[i] = {} /\ claimed[i] = {}
  /\ due # {}
  /\ todo' = [todo EXCEPT ![i] = due]
  /\ UNCHANGED <<faults, tx, row, redisVars, workerVars, claimed, history>>

\* A claim that ignores what ZREM returns.
DrainClaimUnchecked(i) == \E e \in todo[i] :
  /\ claimed[i] = {}
  /\ todo' = [todo EXCEPT ![i] = @ \ {e}]
  /\ delayed' = delayed \ {e}
  /\ due' = due \ {e}
  /\ claimed' = [claimed EXCEPT ![i] = {e}]
  /\ UNCHANGED <<faults, tx, row, ready, dlq, workerVars, history>>

\* ZREM of one member; when another scheduler was first there is nothing to do.
DrainClaim(i) == \E e \in todo[i] :
  /\ claimed[i] = {}
  /\ todo' = [todo EXCEPT ![i] = @ \ {e}]
  /\ delayed' = delayed \ {e}
  /\ due' = due \ {e}
  /\ \/ e \in delayed /\ claimed' = [claimed EXCEPT ![i] = {e}]
     \/ (e \notin delayed \/ "reply" \in faults) /\ UNCHANGED claimed
  /\ UNCHANGED <<faults, tx, row, ready, dlq, workerVars, history>>

\* LPUSH of the claimed member; its error is ignored.
DrainPush(i) == \E e \in claimed[i] :
  /\ claimed' = [claimed EXCEPT ![i] = {}]
  /\ \/ LPush(e)
     \/ "push" \in faults /\ UNCHANGED ready
  /\ UNCHANGED <<faults, tx, row, delayed, due, dlq, workerVars, todo, history>>

\* Everything the process had in memory is gone; nothing re-reads job_queue.
Crash(i) ==
  /\ "crash" \in faults
  /\ pc' = [w \in Workers |-> IF Home[w] = i THEN "idle" ELSE pc[w]]
  /\ held' = [w \in Workers |-> IF Home[w] = i THEN {} ELSE held[w]]
  /\ todo' = [todo EXCEPT ![i] = {}]
  /\ claimed' = [claimed EXCEPT ![i] = {}]
  /\ UNCHANGED <<faults, tx, row, redisVars, history>>

-----------------------------------------------------------------------------
Producer(j) == InsertJob(j) \/ PushReady(j) \/ Commit(j)

WorkerStep(w) ==
  \/ Pop(w)
  \/ MarkRunning(w)
  \/ HandlerSucceeds(w)
  \/ HandlerFails(w)
  \/ ScheduleRetry(w)
  \/ PushDLQ(w)
  \/ MarkCompleted(w)
  \/ MarkPending(w)
  \/ MarkFailed(w)

SchedulerStep(i) == DrainSnapshot(i) \/ DrainClaim(i) \/ DrainPush(i)

Next ==
  \/ \E j \in Jobs : Producer(j) \/ Rollback(j)
  \/ \E w \in Workers : WorkerStep(w)
  \/ \E e \in Envelope : BackoffElapses(e)
  \/ \E i \in Instances : SchedulerStep(i) \/ Crash(i)

Spec == Init /\ [][Next]_vars

\* Goroutines keep running, a backoff passes, a begun transaction ends.
Fairness ==
  /\ \A j \in Jobs : WF_vars(PushReady(j)) /\ WF_vars(Commit(j))
  /\ \A w \in Workers : WF_vars(WorkerStep(w))
  /\ \A e \in Envelope : WF_vars(BackoffElapses(e))
  /\ \A i \in Instances : WF_vars(SchedulerStep(i))

FairSpec == Spec /\ Fairness

-----------------------------------------------------------------------------
(* Where the copies of a job are.  A worker's copy counts until the worker *)
(* has handed the job on.                                                  *)

Carrying == {"popped", "handling", "failing"}

Holds(w, j)  == \E e \in held[w] : e.id = j
InReady(j)   == \E k \in DOMAIN ready[TypeOf[j]] : ready[TypeOf[j]][k].id = j
InDelayed(j) == \E e \in delayed : e.id = j
InDLQ(j)     == \E e \in dlq : e.id = j
InWorker(j)  == \E w \in Workers : pc[w] \in Carrying /\ Holds(w, j)
InDrain(j)   == \E i \in Instances : \E e \in claimed[i] : e.id = j

HasLiveCopy(j) == InReady(j) \/ InDelayed(j) \/ InWorker(j) \/ InDrain(j)

\* The copies one by one, each tagged with its place.
Copies(j) ==
  LET queue == ready[TypeOf[j]]
  IN { <<"ready", k>> : k \in {n \in DOMAIN queue : queue[n].id = j} }
     \union { <<"delayed", e.attempts>> : e \in {x \in delayed : x.id = j} }
     \union { <<"dlq", e.attempts>> : e \in {x \in dlq : x.id = j} }
     \union { <<"worker", w>> : w \in {x \in Workers : pc[x] \in Carrying /\ Holds(x, j)} }
     \union { <<"drain", i>> : i \in {x \in Instances : \E e \in claimed[x] : e.id = j} }

-----------------------------------------------------------------------------
(* Properties *)

\* A job is never in two places at once, and nowhere once it has succeeded:
\* BRPOP, ZADD, ZREM and LPUSH only move it, also with several schedulers.
OneCopy ==
  \A j \in Jobs :
    /\ Cardinality(Copies(j)) <= 1
    /\ j \in done => Copies(j) = {}

\* The attempts of a live envelope are the number of failed runs, so that a
\* handler runs at most MaxRetries times and only exhausted jobs are buried,
\* whatever is lost on the way.
AttemptsCountRuns ==
  /\ \A j \in Jobs : runs[j] <= MaxRetries
  /\ \A t \in JobTypes : \A k \in DOMAIN ready[t] :
       ready[t][k].attempts = runs[ready[t][k].id]
  /\ \A e \in delayed : e.attempts = runs[e.id] /\ e.attempts \in 1 .. MaxRetries - 1
  /\ \A e \in dlq : e.attempts = MaxRetries /\ runs[e.id] = MaxRetries
  /\ \A w \in Workers : \A e \in held[w] :
       /\ pc[w] \in {"popped", "failing", "dead"} => e.attempts = runs[e.id]
       /\ pc[w] \in {"handling", "succeeded"} => e.attempts + 1 = runs[e.id]

\* A final row tells the truth: completed only after a success, failed only
\* when every attempt was used and no copy is left to run.
FinalRowsTrue ==
  \A j \in Jobs :
    /\ row[j].status = "completed" => j \in done
    /\ row[j].status = "failed" =>
         j \notin done /\ runs[j] = MaxRetries /\ ~HasLiveCopy(j)

\* A row marked running has a worker that will write its next status, unless a
\* status write or a process was lost.
RunningHasWorker ==
  \A j \in Jobs : row[j].status = "running" /\ faults \intersect {"status", "crash"} = {} =>
    \E w \in Workers : Holds(w, j) /\ pc[w] # "popped"

\* The failures that lose a job.  Nothing re-reads job_queue, so they are final.
LosingFaults == {"push", "zadd", "dlq", "reply", "crash"}

\* A job once pushed is queued, in hand, finished or in the dead-letter list:
\* rolled-back producers, lost status writes and late workers lose none.
NoLostJob ==
  \A j \in Jobs :
    tx[j] \in {"pushed", "committed"} /\ faults \intersect LosingFaults = {} =>
    HasLiveCopy(j) \/ j \in done \/ InDLQ(j)

\* A final status is never overwritten by the late write of an earlier turn, as
\* long as a backoff outlasts the write that announces it.
FinalRowsStay ==
  [][\A j \in Jobs :
       row[j].status \in {"completed", "failed"} /\ "slow" \notin faults
         => row'[j] = row[j]]_vars

\* Every committed job ends: its handler succeeds or it is buried.
Settles ==
  \A j \in Jobs :
    (tx[j] = "committed" /\ faults \intersect LosingFaults = {}) ~> (j \in done \/ InDLQ(j))

\* The queue implements the life of a job.
LifeOf(j) ==
  IF j \in done THEN "done"
  ELSE IF InDLQ(j) THEN "dead"
  ELSE IF \E w \in Workers : pc[w] \in {"handling", "failing"} /\ Holds(w, j) THEN "active"
  ELSE IF HasLiveCopy(j) THEN "waiting"
  ELSE IF tx[j] \in {"none", "inserted"} THEN "absent"
  ELSE "gone"

Life == INSTANCE JobLife WITH
  MaxTries <- MaxRetries,
  life <- [j \in Jobs |-> LifeOf(j)], tries <- runs

\* Seen from outside, a job is submitted once, handled by one worker at a
\* time, tried at most MaxRetries times, and a success or burial is final.
ImplementsJobLife == Life!LifeSpec
=============================================================================
