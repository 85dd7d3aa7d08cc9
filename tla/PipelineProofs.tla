--------------------------- MODULE PipelineProofs ----------------------------
(***************************************************************************)
(* From a recording to its insights, for any number of recordings, any     *)
(* retry limit, any order and repetition of the events and every set of    *)
(* failures.  What each step leaves behind is said of one egress or of one *)
(* job; the properties follow from what is said of all of them.            *)
(***************************************************************************)
EXTENDS Pipeline, FiniteSetTheorems, TLAPS

Job(kind, e, n) == [kind |-> kind, egress |-> e, n |-> n]

\* A transcribe job is enqueued at most once, by the transaction that stored the
\* end of its egress; only then does the recording become completed.
EgressInv(e) ==
  /\ enqueued[e] <= 1
  /\ enqueued[e] = 1 => /\ <<e, "ended">> \in handled /\ egress[e] = "complete"
                        /\ life[Job("transcribe", e, 1)] # "absent"
  /\ ending[e] # "no" => egress[e] = "complete"
  /\ rec[e] = "completed" => egress[e] = "complete"
  /\ latest = e => rec[e] # "absent"

\* A transcribe job that has a link works on a completed recording; one that has
\* pushed its summarize job has something to store.
TranscribeInv(j) ==
  /\ life[j] # "absent" => j.n <= enqueued[j.egress]
  /\ stage[j] = "fetched" => rec[j.egress] = "completed"
  /\ stage[j] \in {"heard", "persisting"} => heard[j.egress] # "none"
  /\ stage[j] = "persisting" => life[FollowUp(j)] # "absent"
  /\ life[j] = "done" => \E s \in Jobs : s.kind = "summarize" /\ s.egress = j.egress /\ life[s] # "absent"

\* A summarize job that got hold of the row named in its payload keeps it: no
\* upsert changes the row's id.  It goes on only with a text.
SummarizeInv(j) ==
  /\ stage[j] # "persisting"
  /\ stage[j] # "none" => rec[j.egress] = "completed"
  /\ stage[j] # "none" \/ life[j] = "done" =>
       HasTranscript(j.egress) /\ target[j] = transcript[j.egress].id
  /\ life[j] = "done" => j.egress \in summary \/ faults \intersect {"silent", "deaf"} # {}

JobInv(j) ==
  /\ life[j] = "active" => tries[j] # 0
  /\ j.kind = "transcribe" => TranscribeInv(j)
  /\ j.kind = "summarize" => SummarizeInv(j)

\* A text comes of a completed recording, and so does silence, unless Deepgram
\* takes the link that leads nowhere.
FoundedOn(e, text) ==
  /\ text = "text" => rec[e] = "completed"
  /\ text = "empty" => "deaf" \in faults \/ ("silent" \in faults /\ rec[e] = "completed")

RowInv(e) ==
  /\ HasTranscript(e) => egress[e] = "complete"
  /\ e \in summary => HasTranscript(e) /\ rec[e] = "completed"
  /\ FoundedOn(e, heard[e]) /\ FoundedOn(e, transcript[e].text)

PipelineInv ==
  /\ TypeOK
  /\ \A e \in Egresses : EgressInv(e) /\ RowInv(e)
  /\ \A j \in Jobs : JobInv(j)

-----------------------------------------------------------------------------
(* Jobs.                                                                   *)

LEMMA JobKinds == ASSUME NEW j \in Jobs
  PROVE /\ j.kind \in {"transcribe", "summarize"} /\ j.egress \in Egresses
        /\ j.n \in Nat /\ 0 < j.n
        /\ j.kind = "transcribe" => j.n \in 1..EnqueueCap
        /\ j = Job(j.kind, j.egress, j.n)
  BY PipelineAssumption DEF Jobs, Job

LEMMA TranscribeJob == ASSUME NEW e \in Egresses, NEW n \in 1..EnqueueCap
  PROVE /\ Job("transcribe", e, n) \in Jobs
        /\ Job("transcribe", e, n).kind = "transcribe"
        /\ Job("transcribe", e, n).egress = e /\ Job("transcribe", e, n).n = n
  BY DEF Jobs, Job

\* A product grows with its first factor.
LEMMA ProductGrows ==
  ASSUME NEW a \in Nat, NEW b \in Nat, NEW c \in Nat, a <= b PROVE a * c <= b * c
  BY SMT

\* Every run of a transcribe job has a number, and so a summarize job to push.
LEMMA FollowUpFacts ==
  ASSUME NEW j \in Jobs, j.kind = "transcribe", tries[j] \in 1..MaxTries
  PROVE /\ RunNumber(j) \in TranscriptIds
        /\ FollowUp(j) \in Jobs /\ FollowUp(j).kind = "summarize" /\ FollowUp(j).egress = j.egress
<1> DEFINE n == j.n
           t == tries[j]
<1>1. /\ n \in 1..EnqueueCap /\ MaxTries \in Nat /\ EnqueueCap \in Nat /\ t \in 1..MaxTries
      /\ j.egress \in Egresses
  BY JobKinds, PipelineAssumption
<1> HIDE DEF n, t
<1>2. RunNumber(j) = (n - 1) * MaxTries + t BY DEF RunNumber, n, t
<1>3. (n - 1) * MaxTries \in Nat /\ EnqueueCap * MaxTries \in Nat
  <2>1. n - 1 \in Nat BY <1>1
  <2>q. QED BY <1>1, <2>1, SMT
<1>4. (n - 1) * MaxTries + MaxTries <= EnqueueCap * MaxTries
  <2>1. n - 1 \in Nat /\ n \in Nat /\ n <= EnqueueCap BY <1>1
  <2>2. n * MaxTries <= EnqueueCap * MaxTries BY <1>1, <2>1, ProductGrows
  <2>3. (n - 1) * MaxTries + MaxTries = n * MaxTries BY <1>1, <2>1, SMT
  <2>q. QED BY <2>2, <2>3
<1>5. RunNumber(j) \in 1 .. EnqueueCap * MaxTries
  <2> DEFINE a == (n - 1) * MaxTries
             b == EnqueueCap * MaxTries
  <2>1. a \in Nat /\ b \in Nat /\ a + MaxTries <= b /\ RunNumber(j) = a + t
    BY <1>2, <1>3, <1>4
  <2> HIDE DEF a, b
  <2>2. RunNumber(j) \in 1..b BY <1>1, <2>1
  <2>q. QED BY <2>2 DEF b
<1>6. FollowUp(j) = [kind |-> "summarize", egress |-> j.egress, n |-> RunNumber(j)]
  BY DEF FollowUp
<1>q. QED BY <1>1, <1>5, <1>6 DEF TranscriptIds, Jobs

-----------------------------------------------------------------------------
(* Steps that leave the jobs alone.                                        *)

\* Once an egress has ended it has, and a completed recording stays completed.
LEMMA JobsUndisturbed ==
  ASSUME PipelineInv, TypeOK', \A e \in Egresses : EgressInv(e)',
         UNCHANGED <<faults, enqueued, jobVars, resultVars>>,
         \A e \in Egresses : /\ rec[e] = "completed" => rec'[e] = "completed"
                             /\ egress[e] = "complete" => egress'[e] = "complete"
  PROVE  PipelineInv'
<1>0. /\ faults' = faults /\ enqueued' = enqueued
      /\ life' = life /\ tries' = tries /\ stage' = stage
      /\ heard' = heard /\ transcript' = transcript /\ target' = target /\ summary' = summary
  BY DEF jobVars, resultVars
<1>1. ASSUME NEW j \in Jobs PROVE JobInv(j)'
  <2>1. JobInv(j) /\ j.egress \in Egresses BY JobKinds DEF PipelineInv
  <2>2. rec[j.egress] = "completed" => rec'[j.egress] = "completed" BY <2>1
  <2>3. j.kind = "transcribe" => TranscribeInv(j)'
    BY <1>0, <2>1, <2>2 DEF JobInv, TranscribeInv, FollowUp, RunNumber
  <2>4. j.kind = "summarize" => SummarizeInv(j)'
    BY <1>0, <2>1, <2>2 DEF JobInv, SummarizeInv, HasTranscript
  <2>q. QED BY <1>0, <2>1, <2>3, <2>4 DEF JobInv
<1>2. ASSUME NEW e \in Egresses PROVE RowInv(e)'
  <2>1. RowInv(e) BY DEF PipelineInv
  <2>2. /\ rec[e] = "completed" => rec'[e] = "completed"
        /\ egress[e] = "complete" => egress'[e] = "complete"
    BY <1>2
  <2>q. QED BY <1>0, <2>1, <2>2 DEF RowInv, FoundedOn, HasTranscript
<1>q. QED BY <1>1, <1>2 DEF PipelineInv

LEMMA LiveKitInv == ASSUME PipelineInv, LiveKit PROVE PipelineInv'
<1>0. TypeOK /\ \A e \in Egresses : EgressInv(e) BY DEF PipelineInv
<1>1. ASSUME NEW e \in Egresses, StartEgress(e) PROVE PipelineInv'
  <2>1. TypeOK'
    BY <1>0, <1>1 DEF TypeOK, StartEgress, Events, webhookVars, jobVars, resultVars, Queue!LifeStates
  <2>2. \A f \in Egresses : EgressInv(f)'
    BY <1>0, <1>1 DEF TypeOK, StartEgress, EgressInv, webhookVars, jobVars
  <2>3. \A f \in Egresses : egress[f] = "complete" => egress'[f] = "complete"
    BY <1>0, <1>1 DEF TypeOK, StartEgress
  <2>q. QED BY <1>1, <2>1, <2>2, <2>3, JobsUndisturbed DEF StartEgress, webhookVars
<1>2. ASSUME NEW e \in Egresses, EndEgress(e) PROVE PipelineInv'
  <2>1. TypeOK'
    BY <1>0, <1>2 DEF TypeOK, EndEgress, Events, webhookVars, jobVars, resultVars, Queue!LifeStates
  <2>2. \A f \in Egresses : egress[f] = "complete" => egress'[f] = "complete"
    BY <1>0, <1>2 DEF TypeOK, EndEgress
  <2>3. \A f \in Egresses : EgressInv(f)'
    BY <1>0, <1>2, <2>2 DEF EndEgress, EgressInv, webhookVars, jobVars
  <2>q. QED BY <1>2, <2>1, <2>2, <2>3, JobsUndisturbed DEF EndEgress, webhookVars
<1>3. CASE EndRoom
  <2>1. TypeOK'
    BY <1>0, <1>3 DEF TypeOK, EndRoom, webhookVars, jobVars, resultVars, Queue!LifeStates
  <2>2. \A f \in Egresses : EgressInv(f)'
    BY <1>0, <1>3 DEF EndRoom, EgressInv, webhookVars, jobVars
  <2>q. QED BY <1>3, <2>1, <2>2, JobsUndisturbed DEF EndRoom, webhookVars
<1>q. QED BY <1>1, <1>2, <1>3 DEF LiveKit

LEMMA EgressStartedInv == ASSUME PipelineInv, NEW e \in Egresses, EgressStarted(e) PROVE PipelineInv'
<1>0. TypeOK /\ \A f \in Egresses : EgressInv(f) BY DEF PipelineInv
<1>1. /\ handled' = handled \cup {<<e, "started">>} /\ <<e, "started">> \in sent
      /\ UNCHANGED <<faults, egressVars, ending, enqueued, jobVars, resultVars>>
  BY DEF EgressStarted, Receive
<1>2. /\ rec' \in [Egresses -> {"absent", "recording", "completed"}]
      /\ latest' \in Egresses \cup {NoEgress}
      /\ \A f \in Egresses : /\ rec[f] = "completed" <=> rec'[f] = "completed"
                             /\ rec[f] # "absent" => rec'[f] # "absent"
      /\ latest' # latest => latest' = e /\ rec'[e] # "absent"
  <2>1. CASE rec[e] = "absent" /\ rec' = [rec EXCEPT ![e] = "recording"] /\ latest' = e
    BY <1>0, <2>1 DEF TypeOK
  <2>2. CASE UNCHANGED <<rec, latest>>
    BY <1>0, <2>2 DEF TypeOK
  <2>q. QED BY <2>1, <2>2 DEF EgressStarted
<1>3. TypeOK'
  BY <1>0, <1>1, <1>2 DEF TypeOK, egressVars, jobVars, resultVars, Queue!LifeStates
<1>4. \A f \in Egresses : EgressInv(f)'
  BY <1>0, <1>1, <1>2 DEF EgressInv, egressVars, jobVars
<1>q. QED BY <1>1, <1>2, <1>3, <1>4, JobsUndisturbed DEF egressVars

LEMMA EgressEndedIgnoredInv ==
  ASSUME PipelineInv, NEW e \in Egresses, EgressEndedIgnored(e) PROVE PipelineInv'
<1>0. TypeOK /\ \A f \in Egresses : EgressInv(f) BY DEF PipelineInv
<1>1. TypeOK'
  BY <1>0 DEF EgressEndedIgnored, Receive, TypeOK, egressVars, jobVars, resultVars, Queue!LifeStates
<1>2. \A f \in Egresses : EgressInv(f)'
  BY <1>0 DEF EgressEndedIgnored, Receive, EgressInv, egressVars, jobVars
<1>q. QED BY <1>1, <1>2, JobsUndisturbed DEF EgressEndedIgnored, egressVars

LEMMA CommitEndedInv == ASSUME PipelineInv, NEW e \in Egresses, CommitEnded(e) PROVE PipelineInv'
<1>0. TypeOK /\ \A f \in Egresses : EgressInv(f) BY DEF PipelineInv
<1>1. /\ ending[e] # "no" /\ ending' = [ending EXCEPT ![e] = "no"]
      /\ rec' = rec \/ rec' = [rec EXCEPT ![e] = "completed"]
      /\ UNCHANGED <<faults, egressVars, handled, latest, enqueued, jobVars, resultVars>>
  BY DEF CommitEnded
<1>2. /\ rec' \in [Egresses -> {"absent", "recording", "completed"}]
      /\ \A f \in Egresses : rec'[f] = rec[f] \/ (f = e /\ rec'[f] = "completed")
  <2>1. CASE rec' = rec BY <1>0, <2>1 DEF TypeOK
  <2>2. CASE rec' = [rec EXCEPT ![e] = "completed"] BY <1>0, <2>2 DEF TypeOK
  <2>q. QED BY <1>1, <2>1, <2>2
<1>3. /\ ending' \in [Egresses -> {"no", "hit", "miss"}]
      /\ \A f \in Egresses : ending'[f] # "no" => ending[f] # "no"
  BY <1>0, <1>1 DEF TypeOK
<1>4. TypeOK'
  BY <1>0, <1>1, <1>2, <1>3 DEF TypeOK, egressVars, jobVars, resultVars, Queue!LifeStates
<1>5. egress[e] = "complete" BY <1>0, <1>1 DEF EgressInv
<1>6. \A f \in Egresses : EgressInv(f)'
  BY <1>0, <1>1, <1>2, <1>3, <1>5 DEF EgressInv, egressVars, jobVars
<1>q. QED BY <1>1, <1>2, <1>4, <1>6, JobsUndisturbed DEF egressVars

\* The one transcribe job of an egress is submitted.
LEMMA EgressEndedInv == ASSUME PipelineInv, NEW e \in Egresses, EgressEnded(e) PROVE PipelineInv'
<1> DEFINE job == Job("transcribe", e, 1)
<1>0. /\ TypeOK /\ \A f \in Egresses : EgressInv(f) /\ RowInv(f)
      /\ \A j \in Jobs : JobInv(j)
  BY DEF PipelineInv
<1>1. /\ <<e, "ended">> \in sent \ handled /\ handled' = handled \cup {<<e, "ended">>}
      /\ egress[e] = "complete" /\ ending[e] = "no" /\ enqueued[e] < EnqueueCap
      /\ ending' = [ending EXCEPT ![e] = IF rec[e] = "recording" THEN "hit" ELSE "miss"]
      /\ enqueued' = [enqueued EXCEPT ![e] = @ + 1]
      /\ UNCHANGED <<faults, egressVars, rec, latest, stage, resultVars>>
  BY DEF EgressEnded, Receive
<1>2. enqueued[e] = 0 /\ 1 \in 1..EnqueueCap
  <2>1. enqueued[e] # 1 BY <1>0, <1>1 DEF EgressInv
  <2>2. enqueued[e] \in Nat /\ EnqueueCap \in Nat \ {0} BY <1>0, PipelineAssumption DEF TypeOK
  <2>3. enqueued[e] <= 1 BY <1>0 DEF EgressInv
  <2>q. QED BY <2>1, <2>2, <2>3
<1>3. /\ job \in Jobs /\ job.kind = "transcribe" /\ job.egress = e /\ job.n = 1
  BY <1>2, TranscribeJob
<1>4. job = [kind |-> "transcribe", egress |-> e, n |-> enqueued[e] + 1]
  BY <1>2 DEF Job
<1>5. /\ life[job] = "absent" /\ life' = [life EXCEPT ![job] = "waiting"] /\ tries' = tries
  BY <1>4 DEF EgressEnded, Queue!Submit, Queue!Becomes
<1> HIDE DEF job
<1>6. /\ life'[job] = "waiting" /\ \A j \in Jobs \ {job} : life'[j] = life[j]
      /\ life' \in [Jobs -> Queue!LifeStates]
  BY <1>0, <1>3, <1>5 DEF TypeOK, Queue!LifeStates
<1>7. /\ enqueued'[e] = 1 /\ \A f \in Egresses \ {e} : enqueued'[f] = enqueued[f]
      /\ enqueued' \in [Egresses -> 0..EnqueueCap]
  BY <1>0, <1>1, <1>2 DEF TypeOK
<1>8. /\ ending' \in [Egresses -> {"no", "hit", "miss"}]
      /\ \A f \in Egresses \ {e} : ending'[f] = ending[f]
  BY <1>0, <1>1 DEF TypeOK
<1>9. TypeOK'
  <2>1. \A j \in Jobs : stage'[j] # "none" => life'[j] = "active"
    BY <1>0, <1>1, <1>5, <1>6 DEF TypeOK
  <2>q. QED BY <1>0, <1>1, <1>5, <1>6, <1>7, <1>8, <2>1 DEF TypeOK, egressVars, resultVars
<1>10. \A f \in Egresses : EgressInv(f)'
  <2>1. EgressInv(e)'
    BY <1>0, <1>1, <1>6, <1>7 DEF EgressInv, egressVars, job
  <2>2. ASSUME NEW f \in Egresses, f # e PROVE EgressInv(f)'
    <3>1. Job("transcribe", f, 1) \in Jobs \ {job} BY <1>2, <1>3, <2>2, TranscribeJob
    <3>q. QED BY <1>0, <1>1, <1>6, <1>7, <1>8, <2>2, <3>1 DEF EgressInv, egressVars
  <2>q. QED BY <2>1, <2>2
<1>11. \A f \in Egresses : RowInv(f)'
  BY <1>0, <1>1 DEF RowInv, FoundedOn, HasTranscript, egressVars, resultVars
<1>12. ASSUME NEW j \in Jobs PROVE JobInv(j)'
  <2>0. /\ JobInv(j) /\ j.egress \in Egresses /\ j.n \in Nat
        /\ \A s \in Jobs : life[s] # "absent" => life'[s] # "absent"
    BY <1>0, <1>6, JobKinds
  <2>1. j.kind = "transcribe" => TranscribeInv(j)'
    <3> SUFFICES ASSUME j.kind = "transcribe" PROVE TranscribeInv(j)'
      OBVIOUS
    <3>1. life'[j] # "absent" => j.n <= enqueued'[j.egress]
      <4>1. CASE j = job BY <1>3, <1>7, <4>1
      <4>2. CASE j # job
        <5>1. life[j] # "absent" => j.n <= enqueued[j.egress] BY <2>0 DEF JobInv, TranscribeInv
        <5>2. life'[j] = life[j] BY <1>6, <4>2
        <5>3. enqueued[j.egress] <= enqueued'[j.egress]
              /\ enqueued[j.egress] \in Nat /\ enqueued'[j.egress] \in Nat
          <6>1. enqueued[j.egress] \in 0..EnqueueCap /\ EnqueueCap \in Nat
            BY <1>0, <2>0, PipelineAssumption DEF TypeOK
          <6>2. enqueued'[j.egress] = enqueued[j.egress] \/ (enqueued[j.egress] = 0 /\ enqueued'[j.egress] = 1)
            BY <1>2, <1>7, <2>0
          <6>q. QED BY <6>1, <6>2
        <5>q. QED BY <2>0, <5>1, <5>2, <5>3
      <4>q. QED BY <4>1, <4>2
    <3>2. CASE j = job
      <4>1. stage'[j] = "none" /\ life'[j] = "waiting"
        BY <1>0, <1>1, <1>3, <1>5, <1>6, <3>2 DEF TypeOK
      <4>q. QED BY <3>1, <4>1 DEF TranscribeInv
    <3>3. CASE j # job
      <4>1. life'[j] = life[j] BY <1>6, <3>3
      <4>2. stage[j] = "persisting" => life'[FollowUp(j)'] # "absent"
        <5> SUFFICES ASSUME stage[j] = "persisting" PROVE life'[FollowUp(j)'] # "absent"
          OBVIOUS
        <5>1. FollowUp(j)' = FollowUp(j) BY <1>5 DEF FollowUp, RunNumber
        <5>2. FollowUp(j).kind = "summarize" BY DEF FollowUp
        <5>3. life[FollowUp(j)] # "absent" BY <2>0 DEF JobInv, TranscribeInv
        <5>4. FollowUp(j) # job BY <1>3, <5>2
        <5>q. QED BY <1>0, <1>3, <1>5, <5>1, <5>3, <5>4 DEF TypeOK
      <4>q. QED BY <1>1, <2>0, <3>1, <4>1, <4>2 DEF JobInv, TranscribeInv, resultVars
    <3>q. QED BY <3>2, <3>3
  <2>2. j.kind = "summarize" => SummarizeInv(j)'
    BY <1>1, <1>3, <1>6, <2>0 DEF JobInv, SummarizeInv, HasTranscript, resultVars
  <2>3. life'[j] = "active" => tries'[j] # 0
    BY <1>5, <1>6, <2>0 DEF JobInv
  <2>q. QED BY <2>1, <2>2, <2>3 DEF JobInv
<1>q. QED BY <1>9, <1>10, <1>11, <1>12 DEF PipelineInv

-----------------------------------------------------------------------------
(* Steps of a worker.                                                      *)

\* A job moves on; the others stay where they are.
Moved(j, lives, where) ==
  /\ tries' = tries
  /\ life' \in [Jobs -> Queue!LifeStates] /\ life'[j] \in lives
  /\ stage' \in [Jobs -> {"none", "fetched", "unlinked", "heard", "persisting"}] /\ stage'[j] = where
  /\ \A s \in Jobs \ {j} : life'[s] = life[s] /\ stage'[s] = stage[s]

\* The tables only grow, and a transcript keeps its id.
RowsGrow ==
  /\ heard' \in [Egresses -> Texts] /\ summary' \in SUBSET Egresses
  /\ transcript' \in [Egresses -> [id : TranscriptIds \union {0}, text : Texts]]
  /\ \A e \in Egresses : HasTranscript(e) => HasTranscript(e)' /\ transcript'[e].id = transcript[e].id
  /\ \A e \in Egresses : heard'[e] = heard[e] \/ heard'[e] # "none"
  /\ summary \subseteq summary'
  /\ \A e \in Egresses : RowInv(e)'

LEMMA FailMoves == ASSUME TypeOK, NEW j \in Jobs, Fail(j)
  PROVE life[j] = "active" /\ Moved(j, {"waiting", "dead"}, "none")
  BY DEF TypeOK, Fail, Moved, Queue!Retry, Queue!Bury, Queue!Becomes, Queue!LifeStates

LEMMA SucceedMoves == ASSUME TypeOK, NEW j \in Jobs, Succeed(j)
  PROVE life[j] = "active" /\ Moved(j, {"done"}, "none")
  BY DEF TypeOK, Succeed, Moved, Queue!Finish, Queue!Becomes, Queue!LifeStates

LEMMA ContinueMoves ==
  ASSUME TypeOK, NEW j \in Jobs, life[j] = "active",
         NEW where \in {"fetched", "unlinked", "heard"}, Continue(j, where)
  PROVE  Moved(j, {"active"}, where)
  BY DEF TypeOK, Continue, Moved, Queue!LifeStates

LEMMA LoseMoves == ASSUME TypeOK, NEW j \in Jobs, LoseJob(j)
  PROVE life[j] # "absent" /\ Moved(j, {"gone"}, "none")
  BY DEF TypeOK, LoseJob, Moved, Queue!Lose, Queue!LifeStates

LEMMA RowsStay == ASSUME PipelineInv, UNCHANGED <<faults, egress, rec, heard, transcript, summary>>
  PROVE RowsGrow
<1>1. \A e \in Egresses : RowInv(e) BY DEF PipelineInv
<1>2. TypeOK BY DEF PipelineInv
<1>3. \A e \in Egresses : RowInv(e)' BY <1>1 DEF RowInv, FoundedOn, HasTranscript
<1>q. QED BY <1>2, <1>3 DEF RowsGrow, TypeOK, HasTranscript

\* What is true of the others stays true when one job moves on.
LEMMA MoveInv ==
  ASSUME PipelineInv, NEW j \in Jobs, NEW lives \in SUBSET Queue!LifeStates,
         NEW where \in {"none", "fetched", "unlinked", "heard", "persisting"},
         life[j] # "absent", "absent" \notin lives, Moved(j, lives, where),
         where # "none" => lives = {"active"},
         UNCHANGED <<faults, egressVars, webhookVars, target>>, RowsGrow, JobInv(j)'
  PROVE  PipelineInv'
<1>0. /\ TypeOK /\ \A e \in Egresses : EgressInv(e) /\ \A s \in Jobs : JobInv(s)
  BY DEF PipelineInv
<1>1. TypeOK'
  <2>1. \A s \in Jobs : stage'[s] # "none" => life'[s] = "active"
    BY <1>0 DEF TypeOK, Moved
  <2>q. QED BY <1>0, <2>1 DEF TypeOK, Moved, RowsGrow, egressVars, webhookVars
<1>2. \A s \in Jobs : life[s] # "absent" => life'[s] # "absent"
  BY <1>0 DEF Moved
<1>3. \A e \in Egresses : EgressInv(e)'
  <2> SUFFICES ASSUME NEW e \in Egresses PROVE EgressInv(e)'
    OBVIOUS
  <2>1. EgressInv(e) BY <1>0
  <2>2. 1 \in 1..EnqueueCap BY PipelineAssumption
  <2>3. Job("transcribe", e, 1) \in Jobs BY <2>2, TranscribeJob
  <2>q. QED BY <1>2, <2>1, <2>3 DEF EgressInv, egressVars, webhookVars
<1>4. ASSUME NEW s \in Jobs, s # j PROVE JobInv(s)'
  <2>1. /\ JobInv(s) /\ s.egress \in Egresses
        /\ life'[s] = life[s] /\ stage'[s] = stage[s] /\ tries' = tries
    BY <1>0, <1>4, JobKinds DEF Moved
  <2>2. s.kind = "transcribe" => TranscribeInv(s)'
    <3> SUFFICES ASSUME s.kind = "transcribe" PROVE TranscribeInv(s)'
      OBVIOUS
    <3>1. TranscribeInv(s) BY <2>1 DEF JobInv
    <3>2. FollowUp(s)' = FollowUp(s) BY <2>1 DEF FollowUp, RunNumber
    <3>3. stage[s] = "persisting" => life'[FollowUp(s)] # "absent"
      <4> SUFFICES ASSUME stage[s] = "persisting" PROVE life'[FollowUp(s)] # "absent"
        OBVIOUS
      <4>1. tries[s] \in 1..MaxTries
        BY <1>0, <2>1, PipelineAssumption DEF TypeOK, JobInv
      <4>2. FollowUp(s) \in Jobs BY <4>1, FollowUpFacts
      <4>q. QED BY <1>2, <3>1, <4>2 DEF TranscribeInv
    <3>q. QED BY <1>2, <2>1, <3>1, <3>2, <3>3 DEF TranscribeInv, RowsGrow, webhookVars
  <2>3. s.kind = "summarize" => SummarizeInv(s)'
    BY <2>1 DEF JobInv, SummarizeInv, RowsGrow, webhookVars
  <2>q. QED BY <2>1, <2>2, <2>3 DEF JobInv
<1>q. QED BY <1>1, <1>3, <1>4 DEF PipelineInv, RowsGrow

\* A failed run, or a lost job, leaves nothing to be said of its job.
LEMMA RestInv ==
  ASSUME PipelineInv, NEW j \in Jobs, NEW lives \in SUBSET {"waiting", "dead", "gone"},
         life[j] # "absent", Moved(j, lives, "none"),
         UNCHANGED <<faults, egressVars, webhookVars, target>>, RowsGrow
  PROVE  PipelineInv'
<1>1. JobInv(j)'
  <2>1. JobInv(j) BY DEF PipelineInv
  <2>q. QED BY <2>1 DEF JobInv, TranscribeInv, SummarizeInv, Moved, webhookVars
<1>2. lives \in SUBSET Queue!LifeStates BY DEF Queue!LifeStates
<1>q. QED BY <1>1, <1>2, MoveInv

LEMMA FailInv ==
  ASSUME PipelineInv, NEW j \in Jobs, Fail(j),
         UNCHANGED <<faults, egressVars, webhookVars, target>>, RowsGrow
  PROVE  PipelineInv'
<1>1. TypeOK BY DEF PipelineInv
<1>q. QED BY <1>1, FailMoves, RestInv

LEMMA LoseInv == ASSUME PipelineInv, NEW j \in Jobs, LoseJob(j) PROVE PipelineInv'
<1>1. TypeOK BY DEF PipelineInv
<1>2. UNCHANGED <<faults, egressVars, webhookVars, resultVars>> BY DEF LoseJob
<1>3. RowsGrow BY <1>2, RowsStay DEF egressVars, webhookVars, resultVars
<1>q. QED BY <1>1, <1>2, <1>3, LoseMoves, RestInv DEF resultVars

LEMMA BeginInv == ASSUME PipelineInv, NEW j \in Jobs, Begin(j) PROVE PipelineInv'
<1>0. /\ TypeOK /\ \A e \in Egresses : EgressInv(e) /\ RowInv(e)
      /\ \A s \in Jobs : JobInv(s) /\ s.egress \in Egresses
  BY JobKinds DEF PipelineInv
<1>1. /\ life[j] = "waiting" /\ life' = [life EXCEPT ![j] = "active"]
      /\ tries[j] < MaxTries /\ tries' = [tries EXCEPT ![j] = @ + 1]
      /\ UNCHANGED <<faults, egressVars, webhookVars, stage, resultVars>>
  BY DEF Begin, Queue!Start, Queue!Becomes
<1>2. /\ life'[j] = "active" /\ tries'[j] # 0 /\ stage[j] = "none"
      /\ \A s \in Jobs \ {j} : life'[s] = life[s] /\ tries'[s] = tries[s]
      /\ \A s \in Jobs : life[s] # "absent" <=> life'[s] # "absent"
      /\ tries' \in [Jobs -> 0..MaxTries] /\ life' \in [Jobs -> Queue!LifeStates]
  BY <1>0, <1>1, PipelineAssumption DEF TypeOK, Queue!LifeStates
<1>3. TypeOK'
  BY <1>0, <1>1, <1>2 DEF TypeOK, egressVars, webhookVars, resultVars
<1>4. \A e \in Egresses : RowInv(e)'
  BY <1>0, <1>1 DEF RowInv, FoundedOn, HasTranscript, egressVars, webhookVars, resultVars
<1>5. ASSUME NEW e \in Egresses PROVE EgressInv(e)'
  <2>1. 1 \in 1..EnqueueCap BY PipelineAssumption
  <2>2. Job("transcribe", e, 1) \in Jobs BY <2>1, TranscribeJob
  <2>q. QED BY <1>0, <1>1, <1>2, <2>2 DEF EgressInv, egressVars, webhookVars
<1>6. ASSUME NEW s \in Jobs PROVE JobInv(s)'
  <2>1. CASE s = j
    BY <1>0, <1>1, <1>2, <2>1 DEF JobInv, TranscribeInv, SummarizeInv, webhookVars
  <2>2. CASE s # j
    <3>1. s.kind = "transcribe" => TranscribeInv(s)'
      <4> SUFFICES ASSUME s.kind = "transcribe" PROVE TranscribeInv(s)'
        OBVIOUS
      <4>1. TranscribeInv(s) BY <1>0 DEF JobInv
      <4>2. FollowUp(s)' = FollowUp(s) BY <1>2, <2>2 DEF FollowUp, RunNumber
      <4>3. stage[s] = "persisting" => life'[FollowUp(s)] # "absent"
        <5> SUFFICES ASSUME stage[s] = "persisting" PROVE life'[FollowUp(s)] # "absent"
          OBVIOUS
        <5>1. tries[s] \in 1..MaxTries
          BY <1>0, PipelineAssumption DEF TypeOK, JobInv
        <5>2. FollowUp(s) \in Jobs BY <5>1, FollowUpFacts
        <5>q. QED BY <1>2, <4>1, <5>2 DEF TranscribeInv
      <4>q. QED BY <1>1, <1>2, <2>2, <4>1, <4>2, <4>3 DEF TranscribeInv, webhookVars, resultVars
    <3>2. s.kind = "summarize" => SummarizeInv(s)'
      BY <1>0, <1>1, <1>2, <2>2 DEF JobInv, SummarizeInv, HasTranscript, webhookVars, resultVars
    <3>q. QED BY <1>0, <1>2, <2>2, <3>1, <3>2 DEF JobInv
  <2>q. QED BY <2>1, <2>2
<1>q. QED BY <1>3, <1>4, <1>5, <1>6 DEF PipelineInv

-----------------------------------------------------------------------------
(* The handler of transcribe jobs.                                         *)

LEMMA FetchRecordingInv == ASSUME PipelineInv, NEW j \in Jobs, FetchRecording(j) PROVE PipelineInv'
<1>0. TypeOK /\ JobInv(j) BY DEF PipelineInv
<1>1. /\ j.kind = "transcribe" /\ life[j] = "active"
      /\ UNCHANGED <<faults, egressVars, webhookVars, resultVars>>
  BY DEF FetchRecording, At
<1>2. RowsGrow BY <1>1, RowsStay DEF egressVars, webhookVars, resultVars
<1>3. CASE rec[j.egress] = "completed" /\ Continue(j, "fetched")
  <2>1. Moved(j, {"active"}, "fetched") BY <1>0, <1>1, <1>3, ContinueMoves
  <2>2. JobInv(j)'
    BY <1>0, <1>1, <1>3, <2>1 DEF JobInv, TranscribeInv, Moved, webhookVars
  <2>q. QED BY <1>1, <1>2, <2>1, <2>2, MoveInv DEF Queue!LifeStates, resultVars
<1>4. CASE Continue(j, "unlinked")
  <2>1. Moved(j, {"active"}, "unlinked") BY <1>0, <1>1, <1>4, ContinueMoves
  <2>2. JobInv(j)'
    BY <1>0, <1>1, <2>1 DEF JobInv, TranscribeInv, Moved, webhookVars
  <2>q. QED BY <1>1, <1>2, <2>1, <2>2, MoveInv DEF Queue!LifeStates, resultVars
<1>5. CASE Fail(j) BY <1>1, <1>2, <1>5, FailInv DEF resultVars
<1>q. QED BY <1>3, <1>4, <1>5 DEF FetchRecording

LEMMA DeepgramInv == ASSUME PipelineInv, NEW j \in Jobs, Deepgram(j) PROVE PipelineInv'
<1>0. /\ TypeOK /\ JobInv(j) /\ j.egress \in Egresses /\ \A e \in Egresses : RowInv(e)
  BY JobKinds DEF PipelineInv
<1>1. /\ j.kind = "transcribe" /\ life[j] = "active"
      /\ UNCHANGED <<faults, egressVars, webhookVars, transcript, target, summary>>
  BY DEF Deepgram, At
<1>2. ASSUME Continue(j, "heard"), NEW text \in {"text", "empty"}, FoundedOn(j.egress, text),
             heard' = [heard EXCEPT ![j.egress] = text]
      PROVE  PipelineInv'
  <2>1. Moved(j, {"active"}, "heard") BY <1>0, <1>1, <1>2, ContinueMoves
  <2>2. /\ heard' \in [Egresses -> Texts] /\ heard'[j.egress] = text
        /\ \A e \in Egresses \ {j.egress} : heard'[e] = heard[e]
    BY <1>0, <1>2 DEF TypeOK, Texts
  <2>3. RowsGrow
    BY <1>0, <1>1, <1>2, <2>2
    DEF RowsGrow, TypeOK, RowInv, FoundedOn, HasTranscript, egressVars, webhookVars
  <2>4. JobInv(j)'
    BY <1>0, <1>1, <2>1, <2>2 DEF JobInv, TranscribeInv, Moved, webhookVars
  <2>q. QED BY <1>1, <2>1, <2>3, <2>4, MoveInv DEF Queue!LifeStates
<1>3. CASE At(j, "transcribe", "fetched") /\ Continue(j, "heard")
  <2>0. ~Fail(j) BY <1>0, <1>3, FailMoves DEF Continue, Moved
  <2>1. rec[j.egress] = "completed" BY <1>0, <1>1, <1>3 DEF JobInv, TranscribeInv, At
  <2>2. PICK text \in {"text", "empty"} :
          /\ heard' = [heard EXCEPT ![j.egress] = text]
          /\ text = "empty" => "silent" \in faults \/ "deaf" \in faults
    BY <1>3, <2>0 DEF Deepgram, At
  <2>q. QED BY <1>2, <1>3, <2>1, <2>2 DEF FoundedOn
<1>4. CASE At(j, "transcribe", "unlinked") /\ Continue(j, "heard")
  <2>0. ~Fail(j) BY <1>0, <1>4, FailMoves DEF Continue, Moved
  <2>1. /\ "deaf" \in faults /\ heard' = [heard EXCEPT ![j.egress] = "empty"]
    BY <1>4, <2>0 DEF Deepgram, At
  <2>q. QED BY <1>2, <1>4, <2>1 DEF FoundedOn
<1>5. CASE Fail(j) /\ UNCHANGED heard
  <2>1. RowsGrow BY <1>1, <1>5, RowsStay DEF egressVars, webhookVars
  <2>q. QED BY <1>1, <1>5, <2>1, FailInv
<1>q. QED BY <1>3, <1>4, <1>5 DEF Deepgram

\* What the transcript becomes: the upsert keeps the id of the row there is.
LEMMA UpsertGrows ==
  ASSUME PipelineInv, NEW j \in Jobs, j.kind = "transcribe", stage[j] = "persisting",
         transcript' = [transcript EXCEPT ![j.egress] = [id |-> UpsertedId(j), text |-> heard[j.egress]]],
         UNCHANGED <<faults, egress, rec, heard, summary>>
  PROVE  RowsGrow
<1> DEFINE e == j.egress
<1>0. /\ TypeOK /\ JobInv(j) /\ TranscribeInv(j) /\ e \in Egresses /\ \A f \in Egresses : RowInv(f)
  BY JobKinds DEF PipelineInv, JobInv
<1>1. /\ life[j] = "active" /\ heard[e] # "none" /\ heard[e] \in Texts
      /\ egress[e] = "complete"
  <2>1. EgressInv(e) BY <1>0 DEF PipelineInv
  <2>2. /\ life[j] = "active" /\ heard[e] # "none" /\ heard[e] \in Texts
        /\ j.n <= enqueued[e] /\ enqueued[e] \in Nat
    BY <1>0, PipelineAssumption DEF TypeOK, TranscribeInv
  <2>3. j.n \in Nat /\ 0 < j.n BY JobKinds
  <2>4. enqueued[e] = 1 BY <2>1, <2>2, <2>3 DEF EgressInv
  <2>q. QED BY <2>1, <2>2, <2>4 DEF EgressInv
<1>2. tries[j] \in 1..MaxTries BY <1>0, <1>1, PipelineAssumption DEF TypeOK, JobInv
<1>3. /\ UpsertedId(j) \in TranscriptIds \cup {0}
      /\ HasTranscript(e) => UpsertedId(j) = transcript[e].id
  BY <1>0, <1>2, FollowUpFacts DEF UpsertedId, TypeOK
<1>4. /\ transcript'[e].id = UpsertedId(j) /\ transcript'[e].text = heard[e]
      /\ transcript' \in [Egresses -> [id : TranscriptIds \union {0}, text : Texts]]
      /\ \A f \in Egresses \ {e} : transcript'[f] = transcript[f]
  BY <1>0, <1>1, <1>3 DEF TypeOK
<1>5. \A f \in Egresses : RowInv(f)'
  BY <1>0, <1>1, <1>4 DEF RowInv, FoundedOn, HasTranscript
<1>q. QED BY <1>0, <1>1, <1>3, <1>4, <1>5 DEF RowsGrow, HasTranscript, TypeOK

LEMMA PersistTranscriptInv ==
  ASSUME PipelineInv, NEW j \in Jobs, PersistTranscript(j) PROVE PipelineInv'
<1> DEFINE f == FollowUp(j)
<1>0. /\ TypeOK /\ JobInv(j) /\ TranscribeInv(j) /\ j.kind = "transcribe"
      /\ \A e \in Egresses : EgressInv(e) /\ RowInv(e)
      /\ \A s \in Jobs : JobInv(s) /\ s.egress \in Egresses
  BY JobKinds DEF PipelineInv, JobInv, PersistTranscript, At
<1>1. /\ life[j] = "active" /\ stage[j] = "heard"
      /\ life[f] = "absent" /\ life' = [life EXCEPT ![f] = "waiting"] /\ tries' = tries
      /\ target' = [target EXCEPT ![f] = UpsertedId(j)]
      /\ stage' = [stage EXCEPT ![j] = "persisting"]
      /\ UNCHANGED <<faults, egressVars, webhookVars, heard, transcript, summary>>
  BY DEF PersistTranscript, At, Queue!Submit, Queue!Becomes
<1>2. tries[j] \in 1..MaxTries BY <1>0, <1>1, PipelineAssumption DEF TypeOK, JobInv
<1>3. f \in Jobs /\ f.kind = "summarize" /\ f.egress = j.egress /\ RunNumber(j) \in TranscriptIds
  BY <1>0, <1>2, FollowUpFacts
<1>4. UpsertedId(j) \in TranscriptIds \cup {0}
  BY <1>0, <1>3 DEF UpsertedId, TypeOK
<1>5. \A s \in Jobs : FollowUp(s)' = FollowUp(s) BY <1>1 DEF FollowUp, RunNumber
<1> HIDE DEF f
<1>6. /\ life'[f] = "waiting" /\ life' \in [Jobs -> Queue!LifeStates] /\ f # j
      /\ \A s \in Jobs \ {f} : life'[s] = life[s] /\ target'[s] = target[s]
      /\ target' \in [Jobs -> TranscriptIds \cup {0}]
      /\ stage'[j] = "persisting" /\ stage[f] = "none"
      /\ stage' \in [Jobs -> {"none", "fetched", "unlinked", "heard", "persisting"}]
      /\ \A s \in Jobs \ {j} : stage'[s] = stage[s]
  BY <1>0, <1>1, <1>3, <1>4 DEF TypeOK, Queue!LifeStates
<1>7. TypeOK'
  <2>1. \A s \in Jobs : stage'[s] # "none" => life'[s] = "active"
    BY <1>0, <1>1, <1>6 DEF TypeOK
  <2>q. QED BY <1>0, <1>1, <1>6, <2>1 DEF TypeOK, egressVars, webhookVars
<1>8. \A e \in Egresses : RowInv(e)'
  BY <1>0, <1>1 DEF RowInv, FoundedOn, HasTranscript, egressVars, webhookVars
<1>9. ASSUME NEW e \in Egresses PROVE EgressInv(e)'
  <2>1. 1 \in 1..EnqueueCap BY PipelineAssumption
  <2>2. Job("transcribe", e, 1) \in Jobs BY <2>1, TranscribeJob
  <2>q. QED BY <1>0, <1>1, <1>6, <2>2 DEF EgressInv, egressVars, webhookVars
<1>10. ASSUME NEW s \in Jobs PROVE JobInv(s)'
  <2>1. s.kind = "transcribe" => TranscribeInv(s)'
    <3> SUFFICES ASSUME s.kind = "transcribe" PROVE TranscribeInv(s)'
      OBVIOUS
    <3>1. TranscribeInv(s) /\ s # f /\ life'[s] = life[s] BY <1>0, <1>3, <1>6 DEF JobInv
    <3>2. CASE s = j
      BY <1>0, <1>1, <1>5, <1>6, <3>1, <3>2 DEF TranscribeInv, f, webhookVars
    <3>3. CASE s # j
      <4>1. stage[s] = "persisting" => life'[FollowUp(s)] # "absent"
        <5> SUFFICES ASSUME stage[s] = "persisting" PROVE life'[FollowUp(s)] # "absent"
          OBVIOUS
        <5>1. tries[s] \in 1..MaxTries
          BY <1>0, PipelineAssumption DEF TypeOK, JobInv
        <5>2. FollowUp(s) \in Jobs BY <5>1, FollowUpFacts
        <5>q. QED BY <1>6, <3>1, <5>2 DEF TranscribeInv
      <4>2. \A r \in Jobs : life[r] # "absent" => life'[r] # "absent" BY <1>6
      <4>q. QED BY <1>1, <1>5, <1>6, <3>1, <3>3, <4>1, <4>2 DEF TranscribeInv, webhookVars
    <3>q. QED BY <3>2, <3>3
  <2>2. s.kind = "summarize" => SummarizeInv(s)'
    <3> SUFFICES ASSUME s.kind = "summarize" PROVE SummarizeInv(s)'
      OBVIOUS
    <3>1. SummarizeInv(s) /\ s # j BY <1>0 DEF JobInv
    <3>2. CASE s = f BY <1>6, <3>1, <3>2 DEF SummarizeInv
    <3>3. CASE s # f BY <1>1, <1>6, <3>1, <3>3 DEF SummarizeInv, HasTranscript, webhookVars
    <3>q. QED BY <3>2, <3>3
  <2>3. life'[s] = "active" => tries'[s] # 0
    BY <1>0, <1>1, <1>6 DEF JobInv
  <2>q. QED BY <2>1, <2>2, <2>3 DEF JobInv
<1>q. QED BY <1>7, <1>8, <1>9, <1>10 DEF PipelineInv

LEMMA CommitTranscriptInv ==
  ASSUME PipelineInv, NEW j \in Jobs, CommitTranscript(j) PROVE PipelineInv'
<1>0. /\ TypeOK /\ JobInv(j) /\ TranscribeInv(j)
      /\ j.kind = "transcribe" /\ life[j] = "active" /\ stage[j] = "persisting"
      /\ UNCHANGED <<faults, egressVars, webhookVars, heard, target, summary>>
  BY DEF PipelineInv, JobInv, CommitTranscript, At
<1>1. RowsGrow
  <2>1. CASE transcript' = [transcript EXCEPT ![j.egress] =
                              [id |-> UpsertedId(j), text |-> heard[j.egress]]]
    BY <1>0, <2>1, UpsertGrows DEF egressVars, webhookVars
  <2>2. CASE transcript' = transcript
    BY <1>0, <2>2, RowsStay DEF egressVars, webhookVars
  <2>q. QED BY <2>1, <2>2 DEF CommitTranscript
<1>2. CASE Fail(j) BY <1>0, <1>1, <1>2, FailInv
<1>3. CASE Succeed(j)
  <2>1. Moved(j, {"done"}, "none") BY <1>0, <1>3, SucceedMoves
  <2>2. FollowUp(j) \in Jobs /\ FollowUp(j).kind = "summarize" /\ FollowUp(j).egress = j.egress
    <3>1. tries[j] \in 1..MaxTries BY <1>0, PipelineAssumption DEF TypeOK, JobInv
    <3>q. QED BY <1>0, <3>1, FollowUpFacts
  <2>3. life'[FollowUp(j)] # "absent"
    BY <1>0, <2>1, <2>2 DEF TranscribeInv, Moved
  <2>4. JobInv(j)'
    BY <1>0, <2>1, <2>2, <2>3 DEF JobInv, TranscribeInv, Moved, webhookVars
  <2>q. QED BY <1>0, <1>1, <2>1, <2>4, MoveInv DEF Queue!LifeStates
<1>q. QED BY <1>2, <1>3 DEF CommitTranscript

-----------------------------------------------------------------------------
(* The handler of summarize jobs.                                          *)

LEMMA FetchTranscriptInv == ASSUME PipelineInv, NEW j \in Jobs, FetchTranscript(j) PROVE PipelineInv'
<1> DEFINE row == transcript[j.egress]
<1>0. /\ TypeOK /\ JobInv(j) /\ j.egress \in Egresses /\ RowInv(j.egress)
      /\ j.kind = "summarize" /\ life[j] = "active"
      /\ UNCHANGED <<faults, egressVars, webhookVars, resultVars>>
  BY JobKinds DEF PipelineInv, FetchTranscript, At
<1>1. RowsGrow BY <1>0, RowsStay DEF egressVars, webhookVars, resultVars
<1>2. CASE Fail(j) BY <1>0, <1>1, <1>2, FailInv DEF resultVars
<1>3. CASE row.text = "empty" /\ row.id = target[j] /\ Succeed(j)
  <2>1. Moved(j, {"done"}, "none") BY <1>0, <1>3, SucceedMoves
  <2>2. JobInv(j)'
    BY <1>0, <1>3, <2>1 DEF JobInv, SummarizeInv, Moved, RowInv, FoundedOn, HasTranscript, webhookVars, resultVars
  <2>q. QED BY <1>0, <1>1, <2>1, <2>2, MoveInv DEF Queue!LifeStates, resultVars
<1>4. CASE row.text = "text" /\ row.id = target[j] /\ Continue(j, "fetched")
  <2>1. Moved(j, {"active"}, "fetched") BY <1>0, <1>4, ContinueMoves
  <2>2. JobInv(j)'
    BY <1>0, <1>4, <2>1 DEF JobInv, SummarizeInv, Moved, RowInv, FoundedOn, HasTranscript, webhookVars, resultVars
  <2>q. QED BY <1>0, <1>1, <2>1, <2>2, MoveInv DEF Queue!LifeStates, resultVars
<1>q. QED BY <1>2, <1>3, <1>4 DEF FetchTranscript

LEMMA GrokInv == ASSUME PipelineInv, NEW j \in Jobs, Grok(j) PROVE PipelineInv'
<1>0. /\ TypeOK /\ JobInv(j) /\ j.kind = "summarize" /\ life[j] = "active" /\ stage[j] = "fetched"
      /\ UNCHANGED <<faults, egressVars, webhookVars, resultVars>>
  BY DEF PipelineInv, Grok, At
<1>1. RowsGrow BY <1>0, RowsStay DEF egressVars, webhookVars, resultVars
<1>2. CASE Fail(j) BY <1>0, <1>1, <1>2, FailInv DEF resultVars
<1>3. CASE Continue(j, "heard")
  <2>1. Moved(j, {"active"}, "heard") BY <1>0, <1>3, ContinueMoves
  <2>2. JobInv(j)'
    BY <1>0, <2>1 DEF JobInv, SummarizeInv, Moved, HasTranscript, webhookVars, resultVars
  <2>q. QED BY <1>0, <1>1, <2>1, <2>2, MoveInv DEF Queue!LifeStates, resultVars
<1>q. QED BY <1>2, <1>3 DEF Grok

LEMMA PersistSummaryInv == ASSUME PipelineInv, NEW j \in Jobs, PersistSummary(j) PROVE PipelineInv'
<1>0. /\ TypeOK /\ JobInv(j) /\ SummarizeInv(j) /\ j.egress \in Egresses
      /\ j.kind = "summarize" /\ life[j] = "active" /\ stage[j] = "heard"
      /\ UNCHANGED <<faults, egressVars, webhookVars, heard, transcript, target>>
      /\ \A e \in Egresses : RowInv(e)
  BY JobKinds DEF PipelineInv, JobInv, PersistSummary, At
<1>1. RowsGrow
  <2>1. CASE summary' = summary \union {j.egress}
    BY <1>0, <2>1
    DEF RowsGrow, TypeOK, RowInv, FoundedOn, HasTranscript, SummarizeInv, egressVars, webhookVars
  <2>2. CASE summary' = summary
    BY <1>0, <2>2, RowsStay DEF egressVars, webhookVars
  <2>q. QED BY <2>1, <2>2 DEF PersistSummary
<1>2. CASE Fail(j) BY <1>0, <1>1, <1>2, FailInv
<1>3. CASE summary' = summary \union {j.egress} /\ Succeed(j)
  <2>1. Moved(j, {"done"}, "none") BY <1>0, <1>3, SucceedMoves
  <2>2. JobInv(j)'
    BY <1>0, <1>3, <2>1 DEF JobInv, SummarizeInv, Moved, HasTranscript
  <2>q. QED BY <1>0, <1>1, <2>1, <2>2, MoveInv DEF Queue!LifeStates
<1>q. QED BY <1>2, <1>3 DEF PersistSummary

-----------------------------------------------------------------------------
(* The invariant.                                                          *)

LEMMA PipelineInitInv == Init => PipelineInv
<1> SUFFICES ASSUME Init PROVE PipelineInv
  OBVIOUS
<1>1. /\ EnqueueCap \in Nat /\ MaxTries \in Nat BY PipelineAssumption
<1>2. /\ life = [j \in Jobs |-> "absent"] /\ tries = [j \in Jobs |-> 0]
  BY DEF Init, Queue!LifeInit
<1>3. TypeOK
  <2>1. 0 \in 0..EnqueueCap /\ 0 \in 0..MaxTries BY <1>1
  <2>2. life \in [Jobs -> Queue!LifeStates] /\ tries \in [Jobs -> 0..MaxTries]
    BY <1>2, <2>1 DEF Queue!LifeStates
  <2>3. enqueued \in [Egresses -> 0..EnqueueCap] BY <2>1 DEF Init
  <2>4. /\ heard \in [Egresses -> Texts] /\ target \in [Jobs -> TranscriptIds \union {0}]
        /\ transcript \in [Egresses -> [id : TranscriptIds \union {0}, text : Texts]]
    BY DEF Init, Texts
  <2>q. QED BY <2>2, <2>3, <2>4 DEF Init, TypeOK
<1>4. \A e \in Egresses : EgressInv(e) /\ RowInv(e)
  BY <1>1, PipelineAssumption DEF Init, EgressInv, RowInv, FoundedOn, HasTranscript
<1>5. \A j \in Jobs : JobInv(j)
  BY <1>2 DEF Init, JobInv, TranscribeInv, SummarizeInv
<1>q. QED BY <1>3, <1>4, <1>5 DEF PipelineInv

LEMMA PipelineNextInv == PipelineInv /\ [Next]_vars => PipelineInv'
<1> SUFFICES ASSUME PipelineInv, [Next]_vars PROVE PipelineInv'
  OBVIOUS
<1>1. CASE LiveKit BY <1>1, LiveKitInv
<1>2. ASSUME NEW e \in Egresses, Webhook(e) PROVE PipelineInv'
  BY <1>2, EgressStartedInv, EgressEndedInv, EgressEndedIgnoredInv, CommitEndedInv DEF Webhook
<1>3. ASSUME NEW j \in Jobs, Worker(j) PROVE PipelineInv'
  BY <1>3, BeginInv, FetchRecordingInv, DeepgramInv, PersistTranscriptInv, CommitTranscriptInv,
     FetchTranscriptInv, GrokInv, PersistSummaryInv DEF Worker, Transcribe, Summarize
<1>4. ASSUME NEW j \in Jobs, LoseJob(j) PROVE PipelineInv'
  BY <1>4, LoseInv
<1>5. CASE UNCHANGED vars
  <2>1. TypeOK' BY <1>5 DEF PipelineInv, TypeOK, vars, egressVars, webhookVars, jobVars, resultVars
  <2>2. \A e \in Egresses : EgressInv(e)' /\ RowInv(e)'
    BY <1>5 DEF PipelineInv, EgressInv, RowInv, FoundedOn, HasTranscript,
                vars, egressVars, webhookVars, jobVars, resultVars
  <2>3. \A j \in Jobs : JobInv(j)'
    BY <1>5 DEF PipelineInv, JobInv, TranscribeInv, SummarizeInv, FollowUp, RunNumber, HasTranscript,
                vars, egressVars, webhookVars, jobVars, resultVars
  <2>q. QED BY <2>1, <2>2, <2>3 DEF PipelineInv
<1>q. QED BY <1>1, <1>2, <1>3, <1>4, <1>5 DEF Next

LEMMA PipelineInvariant == Spec => []PipelineInv
<1>q. QED BY PipelineInitInv, PipelineNextInv, PTL DEF Spec

\* The values of the pipeline keep their types.
THEOREM TypeCorrect == Spec => []TypeOK
<1>1. PipelineInv => TypeOK BY DEF PipelineInv
<1>q. QED BY <1>1, PipelineInvariant, PTL

\* A summary, and every text that was heard, rests on a completed recording of a
\* completed egress, whatever persistTranscript and persistSummary repeat.
THEOREM ProvenanceHolds == Spec => []Provenance
<1>1. PipelineInv => Provenance 
  <2> SUFFICES ASSUME PipelineInv, NEW e \in Egresses
               PROVE  /\ e \in summary => HasTranscript(e) /\ rec[e] = "completed"
                      /\ HasTranscript(e) => egress[e] = "complete"
                      /\ transcript[e].text = "text" \/ (HasTranscript(e) /\ "deaf" \notin faults)
                           => rec[e] = "completed"
    BY DEF Provenance
  <2>1. RowInv(e) /\ transcript[e].text \in Texts BY DEF PipelineInv, TypeOK
  <2>q. QED BY <2>1 DEF RowInv, FoundedOn, HasTranscript, Texts
<1>q. QED BY <1>1, PipelineInvariant, PTL

\* A summarize job whose transaction was rolled back never ends in success.
THEOREM PhantomsFail == Spec => []PhantomsNeverSucceed
<1>1. PipelineInv => PhantomsNeverSucceed
  BY DEF PipelineInv, JobInv, SummarizeInv, PhantomsNeverSucceed
<1>q. QED BY <1>1, PipelineInvariant, PTL

\* handleEgressEnded enqueues one transcribe job, however often it is called.
THEOREM TranscribedOnce == Spec => []OneTranscription
<1>1. PipelineInv => OneTranscription
  <2> SUFFICES ASSUME PipelineInv, NEW e \in Egresses
               PROVE  Cardinality({j \in Jobs : j.kind = "transcribe" /\ j.egress = e
                                                /\ life[j] # "absent"}) <= 1
    BY DEF OneTranscription
  <2> DEFINE S == {j \in Jobs : j.kind = "transcribe" /\ j.egress = e /\ life[j] # "absent"}
             only == Job("transcribe", e, 1)
  <2>1. ASSUME NEW j \in S PROVE j = only
    <3>1. TranscribeInv(j) /\ EgressInv(e) BY DEF PipelineInv, JobInv
    <3>2. j.n <= enqueued[e] /\ enqueued[e] <= 1 /\ enqueued[e] \in Nat
      BY <3>1, PipelineAssumption DEF TranscribeInv, EgressInv, PipelineInv, TypeOK
    <3>3. j.n \in Nat /\ 0 < j.n /\ j = Job("transcribe", e, j.n) BY JobKinds
    <3>4. j.n = 1 BY <3>2, <3>3
    <3>q. QED BY <3>3, <3>4
  <2>2. S \in SUBSET {only} BY <2>1
  <2> HIDE DEF S, only
  <2>3. Cardinality(S) <= Cardinality({only}) /\ IsFiniteSet(S)
    BY <2>2, FS_Singleton, FS_Subset
  <2>4. Cardinality(S) <= 1 BY <2>3, FS_Singleton
  <2>q. QED BY <2>4 DEF S
<1>q. QED BY <1>1, PipelineInvariant, PTL

\* A room that is shown as processing for ever has one of the listed reasons:
\* no step of the handlers forgets a recording without one.
THEOREM StuckAlwaysExplained == Spec => []StuckExplained
<1>1. PipelineInv => StuckExplained
  <2> SUFFICES ASSUME PipelineInv, Quiet, InsightsStatus = "processing",
                      NEW e \in Egresses, egress[e] # "none"
               PROVE  \/ egress[e] = "failed" \/ Dead(e)
                      \/ egress[e] = "complete" /\ enqueued[e] = 0
                      \/ \E j \in Jobs : j.egress = e /\ life[j] = "gone"
                      \/ /\ faults \intersect {"silent", "deaf"} # {}
                         /\ \E j \in Jobs : j.kind = "summarize" /\ j.egress = e /\ life[j] = "done"
    BY DEF StuckExplained
  <2>1. TypeOK /\ EgressInv(e) /\ \A j \in Jobs : JobInv(j) BY DEF PipelineInv
  <2>2. summary = {} BY DEF InsightsStatus, InsightsStep
  <2>3. egress[e] \in {"complete", "failed"} BY <2>1 DEF TypeOK, Quiet
  <2>4. \A j \in Jobs : life[j] \in {"absent", "done", "dead", "gone"}
    BY <2>1 DEF TypeOK, Quiet, Queue!LifeStates
  <2>5. ASSUME enqueued[e] # 0, ~Dead(e), \A j \in Jobs : j.egress = e => life[j] # "gone"
        PROVE  /\ faults \intersect {"silent", "deaf"} # {}
               /\ \E j \in Jobs : j.kind = "summarize" /\ j.egress = e /\ life[j] = "done"
    <3>1. \A j \in Jobs : j.egress = e => life[j] \in {"absent", "done"}
      BY <2>4, <2>5 DEF Dead
    <3>2. enqueued[e] = 1
      <4>1. enqueued[e] \in Nat /\ enqueued[e] <= 1 BY <2>1, PipelineAssumption DEF TypeOK, EgressInv
      <4>q. QED BY <2>5, <4>1
    <3>3. Job("transcribe", e, 1) \in Jobs /\ life[Job("transcribe", e, 1)] = "done"
      <4>1. 1 \in 1..EnqueueCap BY PipelineAssumption
      <4>q. QED BY <2>1, <3>1, <3>2, <4>1, TranscribeJob DEF EgressInv
    <3>4. PICK s \in Jobs : s.kind = "summarize" /\ s.egress = e /\ life[s] # "absent"
      <4>1. 1 \in 1..EnqueueCap BY PipelineAssumption
      <4>q. QED BY <2>1, <3>3, <4>1, TranscribeJob DEF JobInv, TranscribeInv
    <3>5. life[s] = "done" BY <3>1, <3>4
    <3>q. QED BY <2>1, <2>2, <3>4, <3>5 DEF JobInv, SummarizeInv
  <2>q. QED BY <2>3, <2>5
<1>q. QED BY <1>1, PipelineInvariant, PTL

-----------------------------------------------------------------------------
(* The step shown to a client.                                             *)

\* What a step never takes back.
LEMMA NothingTakenBack == ASSUME PipelineInv, [Next]_vars
  PROVE /\ summary \subseteq summary' /\ (ended => ended')
        /\ \A e \in Egresses : HasTranscript(e) => HasTranscript(e)'
        /\ \A e \in Egresses : rec[e] = "completed" => rec'[e] = "completed"
        /\ latest' = latest \/ (latest' \in Egresses /\ rec[latest'] = "absent" /\ rec'[latest'] # "absent")
<1>0. TypeOK /\ PipelineInv' BY PipelineNextInv DEF PipelineInv
<1>1. ended => ended'
  BY DEF Next, LiveKit, StartEgress, EndEgress, EndRoom, Webhook, EgressStarted, EgressEnded,
         EgressEndedIgnored, CommitEnded, Worker, Begin, Transcribe, FetchRecording, Deepgram,
         PersistTranscript, CommitTranscript, Summarize, FetchTranscript, Grok, PersistSummary,
         LoseJob, vars, egressVars
<1>2. summary \subseteq summary'
  BY DEF Next, LiveKit, StartEgress, EndEgress, EndRoom, Webhook, EgressStarted, EgressEnded,
         EgressEndedIgnored, CommitEnded, Worker, Begin, Transcribe, FetchRecording, Deepgram,
         PersistTranscript, CommitTranscript, Summarize, FetchTranscript, Grok, PersistSummary,
         LoseJob, vars, resultVars
<1>3. \A e \in Egresses : HasTranscript(e) => HasTranscript(e)'
  <2>1. CASE UNCHANGED transcript BY <2>1 DEF HasTranscript
  <2>2. ASSUME NEW j \in Jobs, CommitTranscript(j) PROVE RowsGrow
    <3>1. /\ j.kind = "transcribe" /\ stage[j] = "persisting" /\ UNCHANGED <<faults, egress, rec, heard, summary>>
      BY <2>2 DEF CommitTranscript, At, egressVars, webhookVars
    <3>q. QED BY <2>2, <3>1, UpsertGrows, RowsStay DEF CommitTranscript
  <2>q. QED BY <2>1, <2>2
    DEF RowsGrow, Next, LiveKit, StartEgress, EndEgress, EndRoom, Webhook, EgressStarted, EgressEnded,
         EgressEndedIgnored, CommitEnded, Worker, Begin, Transcribe, FetchRecording, Deepgram,
         PersistTranscript, Summarize, FetchTranscript, Grok, PersistSummary,
         LoseJob, vars, resultVars
<1>4. /\ \A e \in Egresses : rec[e] = "completed" => rec'[e] = "completed"
      /\ latest' = latest \/ (latest' \in Egresses /\ rec[latest'] = "absent" /\ rec'[latest'] # "absent")
  <2>1. CASE UNCHANGED <<rec, latest>> BY <2>1
  <2>2. ASSUME NEW e \in Egresses, EgressStarted(e) PROVE <1>4
    BY <1>0, <2>2 DEF EgressStarted, TypeOK
  <2>3. ASSUME NEW e \in Egresses, CommitEnded(e) PROVE <1>4
    <3>1. latest' = latest /\ (rec' = rec \/ rec' = [rec EXCEPT ![e] = "completed"])
      BY <2>3 DEF CommitEnded
    <3>q. QED BY <1>0, <3>1 DEF TypeOK
  <2>q. QED BY <2>1, <2>2, <2>3
    DEF Next, LiveKit, StartEgress, EndEgress, EndRoom, Webhook, EgressEnded,
         EgressEndedIgnored, Worker, Begin, Transcribe, FetchRecording, Deepgram,
         PersistTranscript, CommitTranscript, Summarize, FetchTranscript, Grok, PersistSummary,
         LoseJob, vars, webhookVars
<1>q. QED BY <1>1, <1>2, <1>3, <1>4

Advance == Rank[InsightsStep] <= Rank[InsightsStep']

\* The one recording of a room is its latest as soon as it has a row.
LEMMA StepAdvances ==
  ASSUME \A e, f \in Egresses : e = f, PipelineInv, [Next]_vars PROVE Advance
<1>1. /\ summary \subseteq summary' /\ (ended => ended')
      /\ \A e \in Egresses : HasTranscript(e) => HasTranscript(e)'
      /\ \A e \in Egresses : rec[e] = "completed" => rec'[e] = "completed"
      /\ latest' = latest \/ (latest' \in Egresses /\ rec[latest'] = "absent" /\ rec'[latest'] # "absent")
  BY NothingTakenBack
<1>2. latest \in Egresses \cup {NoEgress} /\ NoEgress \notin Egresses
      /\ \A e \in Egresses : latest = e => rec[e] # "absent"
  BY PipelineAssumption DEF PipelineInv, TypeOK, EgressInv
<1>3. latest # NoEgress => latest' = latest /\ latest \in Egresses
  BY <1>1, <1>2
<1>4. /\ Rank["live"] = 0 /\ Rank["finalizing"] = 1 /\ Rank["recording"] = 2
      /\ Rank["transcribing"] = 3 /\ Rank["summarizing"] = 4 /\ Rank["completed"] = 5
  BY DEF Rank
<1>5. /\ InsightsStep \in {"live", "finalizing", "recording", "transcribing", "summarizing", "completed"}
      /\ InsightsStep' \in {"live", "finalizing", "recording", "transcribing", "summarizing", "completed"}
  BY DEF InsightsStep
<1>6. InsightsStep = "completed" => InsightsStep' = "completed"
  BY <1>1 DEF InsightsStep
<1>7. InsightsStep = "summarizing" => InsightsStep' \in {"summarizing", "completed"}
  BY <1>1 DEF InsightsStep
<1>8. InsightsStep = "transcribing" => InsightsStep' \in {"transcribing", "summarizing", "completed"}
  BY <1>1, <1>3 DEF InsightsStep
<1>9. InsightsStep = "recording" => InsightsStep' \notin {"live", "finalizing"}
  BY <1>1, <1>3 DEF InsightsStep
<1>10. InsightsStep = "finalizing" => InsightsStep' # "live"
  BY <1>1 DEF InsightsStep
<1>q. QED BY <1>4, <1>5, <1>6, <1>7, <1>8, <1>9, <1>10 DEF Advance

\* In a room with one recording the step shown never goes back.
THEOREM InsightsAlwaysAdvance == (\A e, f \in Egresses : e = f) => (Spec => InsightsAdvance)
<1> SUFFICES ASSUME \A e, f \in Egresses : e = f PROVE Spec => InsightsAdvance
  OBVIOUS
<1>1. PipelineInv /\ [Next]_vars => [Advance]_vars BY StepAdvances
<1>2. InsightsAdvance <=> [][Advance]_vars BY PTL DEF InsightsAdvance, Advance
<1>q. QED BY <1>1, <1>2, PipelineInvariant, PTL DEF Spec

-----------------------------------------------------------------------------
(* The job queue as the pipeline uses it.                                  *)

LEMMA QueueStep == ASSUME PipelineInv, [Next]_vars PROVE [Queue!LifeNext]_(Queue!lifeVars)
<1>0. TypeOK /\ \A j \in Jobs : JobInv(j) /\ j.egress \in Egresses BY JobKinds DEF PipelineInv
<1>1. CASE UNCHANGED <<life, tries>> BY <1>1 DEF Queue!lifeVars
<1>2. ASSUME NEW e \in Egresses, EgressEnded(e) PROVE Queue!LifeNext
  <2>1. enqueued[e] + 1 \in 1..EnqueueCap
    <3>1. enqueued[e] \in Nat /\ enqueued[e] < EnqueueCap /\ EnqueueCap \in Nat
      BY <1>0, <1>2, PipelineAssumption DEF EgressEnded, TypeOK
    <3>q. QED BY <3>1
  <2>2. [kind |-> "transcribe", egress |-> e, n |-> enqueued[e] + 1] \in Jobs
    BY <2>1, TranscribeJob DEF Job
  <2>q. QED BY <1>2, <2>2 DEF EgressEnded, Queue!LifeNext
<1>3. ASSUME NEW j \in Jobs, Begin(j) PROVE Queue!LifeNext
  BY <1>3 DEF Begin, Queue!LifeNext
<1>4. ASSUME NEW j \in Jobs, Fail(j) \/ Succeed(j) PROVE Queue!LifeNext
  BY <1>4 DEF Fail, Succeed, Queue!LifeNext
<1>5. ASSUME NEW j \in Jobs, PersistTranscript(j) PROVE Queue!LifeNext
  <2>1. j.kind = "transcribe" /\ life[j] = "active" /\ Queue!Submit(FollowUp(j))
    BY <1>5 DEF PersistTranscript, At
  <2>2. tries[j] \in 1..MaxTries BY <1>0, <2>1, PipelineAssumption DEF TypeOK, JobInv
  <2>3. FollowUp(j) \in Jobs BY <2>1, <2>2, FollowUpFacts
  <2>q. QED BY <2>1, <2>3 DEF Queue!LifeNext
<1>6. ASSUME NEW j \in Jobs, LoseJob(j) PROVE Queue!LifeNext
  <2>1. {j} \in SUBSET Jobs /\ Queue!Lose({j}) BY <1>6 DEF LoseJob
  <2>q. QED BY <2>1 DEF Queue!LifeNext
<1>7. ASSUME NEW j \in Jobs, Transcribe(j) \/ Summarize(j), ~PersistTranscript(j)
      PROVE  UNCHANGED <<life, tries>> \/ Fail(j) \/ Succeed(j)
  BY <1>7 DEF Transcribe, FetchRecording, Deepgram, CommitTranscript, Summarize, FetchTranscript,
              Grok, PersistSummary, Continue
<1>8. ASSUME NEW e \in Egresses, Webhook(e), ~EgressEnded(e) PROVE UNCHANGED <<life, tries>>
  BY <1>8 DEF Webhook, EgressStarted, EgressEndedIgnored, CommitEnded, jobVars
<1>9. LiveKit \/ UNCHANGED vars => UNCHANGED <<life, tries>>
  BY DEF LiveKit, StartEgress, EndEgress, EndRoom, vars, jobVars
<1>q. QED BY <1>1, <1>2, <1>3, <1>4, <1>5, <1>6, <1>7, <1>8, <1>9 DEF Next, Worker

\* The handlers and webhooks of the pipeline make no job do what the queue does
\* not promise: its jobs live as JobQueue's envelopes do.
THEOREM JobsLiveAsPromised == Spec => Queue!LifeSpec
<1>1. Init => Queue!LifeInit BY DEF Init
<1>q. QED BY <1>1, QueueStep, PipelineInvariant, PTL DEF Spec, Queue!LifeSpec
=============================================================================
