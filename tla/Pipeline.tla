------------------------------ MODULE Pipeline ------------------------------
(***************************************************************************)
(* From a recording to its insights: the egress webhooks, the transcribe   *)
(* and summarize job handlers, the tables recordings, transcripts and      *)
(* summaries of one room, and the status that insights derives from them.  *)
(*                                                                         *)
(* The job queue is used through what it promises, JobLife, which JobQueue *)
(* implements: a handler runs inside the "active" life of its job, and a   *)
(* returned error is a Retry or, at the last try, a Bury.                  *)
(***************************************************************************)
EXTENDS Naturals, FiniteSets

CONSTANTS
  Egresses,     \* egress ids of one room
  NoEgress,     \* a value that is no egress id
  MaxTries,     \* jobs.Job.MaxRetries
  EnqueueCap,   \* bound: transcribe jobs one egress can have
  FaultSets     \* the sets of failures a behaviour may be exposed to

FaultKinds ==
  { "egress",    \* an egress ends with a status other than EGRESS_COMPLETE
    "dispatch",  \* an egress handler fails after its event was stored
    "rollback",  \* a transaction is rolled back after its Redis push
    "unsure",    \* a commit succeeds and its answer is lost
    "provider",  \* Deepgram or Grok answers with an error
    "silent",    \* Deepgram hears nothing in a recording
    "deaf",      \* Deepgram answers a link that leads nowhere with an empty text
    "lose",      \* the queue loses a job
    "slow" }     \* a transaction stays open longer than a backoff

ASSUME PipelineAssumption ==
  /\ MaxTries \in Nat \ {0}
  /\ EnqueueCap \in Nat \ {0}
  /\ NoEgress \notin Egresses
  /\ FaultSets \subseteq SUBSET FaultKinds

\* The n-th transcribe job of an egress, and the summarize job enqueued by one
\* run of one of them.
Jobs ==
  [kind : {"transcribe"}, egress : Egresses, n : 1 .. EnqueueCap]
    \union [kind : {"summarize"}, egress : Egresses, n : 1 .. EnqueueCap * MaxTries]

TranscriptIds == 1 .. EnqueueCap * MaxTries
Events == Egresses \X {"started", "ended"}
Texts == {"none", "empty", "text"}

VARIABLES
  faults,      \* the failures that may happen in this behaviour
  ended,       \* the room's row says ended
  egress,      \* LiveKit's view of each egress
  sent,        \* egress events that may be delivered, in any order, again and again
  handled,     \* webhook_events table
  rec,         \* recordings: completed with a file_url, a complete egress has a file
  latest,      \* the recording with the greatest created_at
  ending,      \* open transaction of handleEgressEnded: did its UPDATE hit a row
  enqueued,    \* transcribe jobs enqueued per egress
  life, tries, \* the job queue, as JobLife
  stage,       \* how far the handler of an active job is
  heard,       \* the text the last Deepgram call for an egress returned
  transcript,  \* transcripts, with the row's id; text "none" is no row
  target,      \* transcript_id in the payload of a summarize job
  summary      \* egresses whose transcript has a summaries row

Queue == INSTANCE JobLife

egressVars  == <<ended, egress, sent>>
webhookVars == <<handled, rec, latest, ending, enqueued>>
jobVars     == <<life, tries, stage>>
resultVars  == <<heard, transcript, target, summary>>
vars == <<faults, egressVars, webhookVars, jobVars, resultVars>>

\* Every variable holds a value of its kind, and only an active job is inside
\* its handler.
TypeOK ==
  /\ faults \in FaultSets
  /\ ended \in BOOLEAN
  /\ egress \in [Egresses -> {"none", "active", "complete", "failed"}]
  /\ sent \in SUBSET Events
  /\ handled \in SUBSET sent
  /\ rec \in [Egresses -> {"absent", "recording", "completed"}]
  /\ latest \in Egresses \union {NoEgress}
  /\ ending \in [Egresses -> {"no", "hit", "miss"}]
  /\ enqueued \in [Egresses -> 0 .. EnqueueCap]
  /\ life \in [Jobs -> Queue!LifeStates]
  /\ tries \in [Jobs -> 0 .. MaxTries]
  /\ stage \in [Jobs -> {"none", "fetched", "unlinked", "heard", "persisting"}]
  /\ \A j \in Jobs : stage[j] # "none" => life[j] = "active"
  /\ heard \in [Egresses -> Texts]
  /\ transcript \in [Egresses -> [id : TranscriptIds \union {0}, text : Texts]]
  /\ target \in [Jobs -> TranscriptIds \union {0}]
  /\ summary \in SUBSET Egresses

Init ==
  /\ faults \in FaultSets
  /\ ended = FALSE
  /\ egress = [e \in Egresses |-> "none"]
  /\ sent = {}
  /\ handled = {}
  /\ rec = [e \in Egresses |-> "absent"]
  /\ latest = NoEgress
  /\ ending = [e \in Egresses |-> "no"]
  /\ enqueued = [e \in Egresses |-> 0]
  /\ Queue!LifeInit
  /\ stage = [j \in Jobs |-> "none"]
  /\ heard = [e \in Egresses |-> "none"]
  /\ transcript = [e \in Egresses |-> [id |-> 0, text |-> "none"]]
  /\ target = [j \in Jobs |-> 0]
  /\ summary = {}

-----------------------------------------------------------------------------
(* LiveKit.                                                                *)

StartEgress(e) ==
  /\ egress[e] = "none" /\ ~ended
  /\ egress' = [egress EXCEPT ![e] = "active"]
  /\ sent' = sent \union {<<e, "started">>}
  /\ UNCHANGED <<faults, ended, webhookVars, jobVars, resultVars>>

EndEgress(e) ==
  /\ egress[e] = "active"
  /\ \E end \in {"complete"} \union (IF "egress" \in faults THEN {"failed"} ELSE {}) :
       egress' = [egress EXCEPT ![e] = end]
  /\ sent' = sent \union {<<e, "ended">>}
  /\ UNCHANGED <<faults, ended, webhookVars, jobVars, resultVars>>

\* handleRoomFinished, see RoomLifecycle; an egress may outlive its room.
EndRoom ==
  /\ ~ended
  /\ ended' = TRUE
  /\ UNCHANGED <<faults, egress, sent, webhookVars, jobVars, resultVars>>

-----------------------------------------------------------------------------
(* Egress webhooks.  An event is stored first; a stored one is not handled *)
(* again.                                                                  *)

\* An event that is handled at every delivery.
ReceiveAgain(event) ==
  /\ event \in sent
  /\ handled' = handled \union {event}

Receive(event) ==
  /\ event \in sent \ handled
  /\ handled' = handled \union {event}

\* INSERT ... ON CONFLICT DO NOTHING.
EgressStarted(e) ==
  /\ Receive(<<e, "started">>)
  /\ \/ /\ rec[e] = "absent"
        /\ rec' = [rec EXCEPT ![e] = "recording"]
        /\ latest' = e
     \/ /\ rec[e] # "absent" \/ "dispatch" \in faults
        /\ UNCHANGED <<rec, latest>>
  /\ UNCHANGED <<faults, egressVars, ending, enqueued, jobVars, resultVars>>

\* The transaction up to its Redis push: the UPDATE hits the row only if it is
\* there, the job is enqueued either way, and a worker can have it before the
\* commit.
EgressEnded(e) ==
  /\ Receive(<<e, "ended">>)
  /\ egress[e] = "complete"
  /\ ending[e] = "no" /\ enqueued[e] < EnqueueCap
  /\ ending' = [ending EXCEPT ![e] = IF rec[e] = "recording" THEN "hit" ELSE "miss"]
  /\ enqueued' = [enqueued EXCEPT ![e] = @ + 1]
  /\ Queue!Submit([kind |-> "transcribe", egress |-> e, n |-> enqueued[e] + 1])
  /\ UNCHANGED <<faults, egressVars, rec, latest, stage, resultVars>>

\* An egress that is not complete is left to a reconciler.
EgressEndedIgnored(e) ==
  /\ Receive(<<e, "ended">>)
  /\ egress[e] = "failed" \/ "dispatch" \in faults
  /\ UNCHANGED <<faults, egressVars, rec, latest, ending, enqueued, jobVars, resultVars>>

CommitEnded(e) ==
  /\ ending[e] # "no"
  /\ ending' = [ending EXCEPT ![e] = "no"]
  /\ \/ rec' = IF ending[e] = "hit" THEN [rec EXCEPT ![e] = "completed"] ELSE rec
     \/ "rollback" \in faults /\ UNCHANGED rec
  /\ UNCHANGED <<faults, egressVars, handled, latest, enqueued, jobVars, resultVars>>

-----------------------------------------------------------------------------
(* The worker around a handler.                                            *)

\* The transaction that enqueued a job has pushed it and not yet ended.
Uncommitted(j) ==
  IF j.kind = "transcribe" THEN ending[j.egress] # "no"
  ELSE \E t \in Jobs :
         /\ t.kind = "transcribe" /\ t.egress = j.egress
         /\ stage[t] = "persisting"
         /\ j.n = (t.n - 1) * MaxTries + tries[t]

\* A retry comes at least 4s later; no sane transaction is open that long.
Begin(j) ==
  /\ Queue!Start(j)
  /\ tries[j] > 0 /\ "slow" \notin faults => ~Uncommitted(j)
  /\ UNCHANGED <<faults, egressVars, webhookVars, stage, resultVars>>

At(j, kind, where) ==
  /\ j.kind = kind
  /\ life[j] = "active"
  /\ stage[j] = where

Continue(j, where) ==
  /\ stage' = [stage EXCEPT ![j] = where]
  /\ UNCHANGED <<life, tries>>

\* The handler returns nil, or an error.
Succeed(j) ==
  /\ Queue!Finish(j)
  /\ stage' = [stage EXCEPT ![j] = "none"]

\* A handler that does not return after an error.
FailFallsThrough(j) ==
  /\ Queue!Retry(j) \/ Queue!Bury(j)
  /\ UNCHANGED stage

Fail(j) ==
  /\ Queue!Retry(j) \/ Queue!Bury(j)
  /\ stage' = [stage EXCEPT ![j] = "none"]

\* A crash or a failed push takes the job and the handler's open transaction.
LoseJob(j) ==
  /\ "lose" \in faults
  /\ Queue!Lose({j})
  /\ life[j] # "absent"
  /\ stage' = [stage EXCEPT ![j] = "none"]
  /\ UNCHANGED <<faults, egressVars, webhookVars, resultVars>>

-----------------------------------------------------------------------------
(* transcripts.Service.Handle.                                             *)

\* Without the row there is an error.  Neither its status nor its file_url is
\* looked at: of a recording that is not completed the empty key is presigned.
FetchRecording(j) ==
  /\ At(j, "transcribe", "none")
  /\ \/ rec[j.egress] = "absent" /\ Fail(j)
     \/ rec[j.egress] = "recording" /\ Continue(j, "unlinked")
     \/ rec[j.egress] = "completed" /\ Continue(j, "fetched")
  /\ UNCHANGED <<faults, egressVars, webhookVars, resultVars>>

\* (a mistake: the status of the answer is not looked at, and the body of an
\* error is parsed as a result without text)
DeepgramUnchecked(j) ==
  /\ \/ /\ At(j, "transcribe", "fetched")
        /\ heard' = [heard EXCEPT ![j.egress] = "text"]
     \/ /\ At(j, "transcribe", "unlinked")
        /\ heard' = [heard EXCEPT ![j.egress] = "empty"]
  /\ Continue(j, "heard")
  /\ UNCHANGED <<faults, egressVars, webhookVars, transcript, target, summary>>

\* An error is any answer but 200, or no link because Spaces is not configured.
\* An empty text is a result like another.
Deepgram(j) ==
  /\ \/ /\ At(j, "transcribe", "fetched")
        /\ \E text \in {"text"} \union (IF "silent" \in faults THEN {"empty"} ELSE {}) :
             heard' = [heard EXCEPT ![j.egress] = text]
        /\ Continue(j, "heard")
     \/ /\ At(j, "transcribe", "unlinked") /\ "deaf" \in faults
        /\ heard' = [heard EXCEPT ![j.egress] = "empty"]
        /\ Continue(j, "heard")
     \/ /\ \/ At(j, "transcribe", "unlinked")
           \/ At(j, "transcribe", "fetched") /\ "provider" \in faults
        /\ Fail(j)
        /\ UNCHANGED heard
  /\ UNCHANGED <<faults, egressVars, webhookVars, transcript, target, summary>>

RunNumber(j) == (j.n - 1) * MaxTries + tries[j]

\* The summarize job this run of a transcribe job enqueues.
FollowUp(j) == [kind |-> "summarize", egress |-> j.egress, n |-> RunNumber(j)]

HasTranscript(e) == transcript[e].text # "none"

\* The upsert returns the id of the row there is, or a new one.
UpsertedId(j) ==
  IF HasTranscript(j.egress) THEN transcript[j.egress].id ELSE RunNumber(j)

\* persistTranscript up to the push of the summarize job.
PersistTranscript(j) ==
  /\ At(j, "transcribe", "heard")
  /\ Queue!Submit(FollowUp(j))
  /\ target' = [target EXCEPT ![FollowUp(j)] = UpsertedId(j)]
  /\ stage' = [stage EXCEPT ![j] = "persisting"]
  /\ UNCHANGED <<faults, egressVars, webhookVars, heard, transcript, summary>>

\* A run that cannot tell whether it committed fails, and runs again.
CommitTranscript(j) ==
  /\ At(j, "transcribe", "persisting")
  /\ \/ /\ transcript' = [transcript EXCEPT ![j.egress] =
                            [id |-> UpsertedId(j), text |-> heard[j.egress]]]
        /\ Succeed(j) \/ ("unsure" \in faults /\ Fail(j))
     \/ /\ "rollback" \in faults
        /\ Fail(j)
        /\ UNCHANGED transcript
  /\ UNCHANGED <<faults, egressVars, webhookVars, heard, target, summary>>

-----------------------------------------------------------------------------
(* summaries.Service.Handle.                                               *)

\* A missing transcript is given up, without a retry.
FetchTranscriptGivesUp(j) ==
  /\ At(j, "summarize", "none")
  /\ IF transcript[j.egress].text = "text" /\ transcript[j.egress].id = target[j]
     THEN Continue(j, "fetched") ELSE Succeed(j)
  /\ UNCHANGED <<faults, egressVars, webhookVars, resultVars>>

\* No row of that id is an error, an empty text is the end of it.
FetchTranscript(j) ==
  /\ At(j, "summarize", "none")
  /\ LET row == transcript[j.egress]
     IN \/ (row.text = "none" \/ row.id # target[j]) /\ Fail(j)
        \/ row.text = "empty" /\ row.id = target[j] /\ Succeed(j)
        \/ row.text = "text" /\ row.id = target[j] /\ Continue(j, "fetched")
  /\ UNCHANGED <<faults, egressVars, webhookVars, resultVars>>

Grok(j) ==
  /\ At(j, "summarize", "fetched")
  /\ Continue(j, "heard") \/ ("provider" \in faults /\ Fail(j))
  /\ UNCHANGED <<faults, egressVars, webhookVars, resultVars>>

\* persistSummary upserts by transcript id in a transaction of its own.
PersistSummary(j) ==
  /\ At(j, "summarize", "heard")
  /\ \/ /\ summary' = summary \union {j.egress}
        /\ Succeed(j) \/ ("unsure" \in faults /\ Fail(j))
     \/ /\ "rollback" \in faults
        /\ Fail(j)
        /\ UNCHANGED summary
  /\ UNCHANGED <<faults, egressVars, webhookVars, heard, transcript, target>>

-----------------------------------------------------------------------------
(* insights: the step shown to a client, from the latest rows of the room. *)

Rank == [live |-> 0, finalizing |-> 1, recording |-> 2, transcribing |-> 3,
         summarizing |-> 4, completed |-> 5]

\* The room's end looked at before the recording.
InsightsStepRoomFirst ==
  IF summary # {} THEN "completed"
  ELSE IF \E e \in Egresses : HasTranscript(e) THEN "summarizing"
  ELSE IF ended THEN "finalizing"
  ELSE IF latest = NoEgress THEN "live"
  ELSE IF rec[latest] = "completed" THEN "transcribing" ELSE "recording"

InsightsStep ==
  IF summary # {} THEN "completed"
  ELSE IF \E e \in Egresses : HasTranscript(e) THEN "summarizing"
  ELSE IF latest # NoEgress
       THEN IF rec[latest] = "completed" THEN "transcribing" ELSE "recording"
  ELSE IF ended THEN "finalizing" ELSE "live"

InsightsStatus ==
  CASE InsightsStep = "completed" -> "completed"
    [] InsightsStep = "live" -> "live"
    [] OTHER -> "processing"

-----------------------------------------------------------------------------
LiveKit == EndRoom \/ \E e \in Egresses : StartEgress(e) \/ EndEgress(e)

Webhook(e) ==
  EgressStarted(e) \/ EgressEnded(e) \/ EgressEndedIgnored(e) \/ CommitEnded(e)

Transcribe(j) ==
  FetchRecording(j) \/ Deepgram(j) \/ PersistTranscript(j) \/ CommitTranscript(j)

Summarize(j) == FetchTranscript(j) \/ Grok(j) \/ PersistSummary(j)

Worker(j) == Begin(j) \/ Transcribe(j) \/ Summarize(j)

Next ==
  \/ LiveKit
  \/ \E e \in Egresses : Webhook(e)
  \/ \E j \in Jobs : Worker(j) \/ LoseJob(j)

Spec == Init /\ [][Next]_vars

\* Events are delivered in the end, transactions end, workers go on.
Fairness ==
  /\ \A e \in Egresses :
       /\ WF_vars(EgressStarted(e)) /\ WF_vars(CommitEnded(e))
       /\ WF_vars(EgressEnded(e) \/ EgressEndedIgnored(e))
  /\ \A j \in Jobs : WF_vars(Worker(j))

FairSpec == Spec /\ Fairness

-----------------------------------------------------------------------------
(* Properties *)

\* What is shown rests on what it was made from: a summary, and every text that
\* was heard, on a completed recording of a complete egress, whatever was retried
\* or rolled back.  The transcribe handler itself does not ask for a completed
\* recording; only an empty transcript can come of that, and only if Deepgram
\* answers a request for nothing with a result.
Provenance ==
  \A e \in Egresses :
    /\ e \in summary => HasTranscript(e) /\ rec[e] = "completed"
    /\ HasTranscript(e) => egress[e] = "complete"
    /\ transcript[e].text = "text" \/ (HasTranscript(e) /\ "deaf" \notin faults)
         => rec[e] = "completed"

\* A summarize job of a rolled-back transcript never succeeds: it works on the
\* one transcript its egress has, or ends in the dead-letter list.
PhantomsNeverSucceed ==
  \A j \in Jobs : j.kind = "summarize" /\ life[j] = "done" =>
    HasTranscript(j.egress) /\ target[j] = transcript[j.egress].id

\* However often its event is delivered, a recording is transcribed by one job.
OneTranscription ==
  \A e \in Egresses :
    Cardinality({j \in Jobs : j.kind = "transcribe" /\ j.egress = e
                              /\ life[j] # "absent"}) <= 1

\* The step shown to a client never goes back, when the room has one recording.
InsightsAdvance == [][Rank[InsightsStep] <= Rank[InsightsStep']]_vars

\* A worker that is faster than the commit only costs an attempt, as Deepgram
\* refuses the empty link: when the UPDATE of egress_ended hits the recording, a
\* summary comes of it.
EndsInSummary ==
  \A e \in Egresses : (ending[e] = "hit" /\ faults \subseteq {"egress"}) ~> e \in summary

\* A finished egress comes to a summary, or to a job that an operator finds in
\* the dead-letter list, when no text is empty and no job or event is lost.
Dead(e) == \E j \in Jobs : j.egress = e /\ life[j] = "dead"

Accounted ==
  \A e \in Egresses :
    (egress[e] = "complete" /\ faults \intersect {"dispatch", "lose", "silent", "deaf"} = {})
      ~> (e \in summary \/ Dead(e))

\* Nothing is going on any more.
Quiet ==
  /\ sent = handled
  /\ \A e \in Egresses : egress[e] # "active" /\ ending[e] = "no"
  /\ \A j \in Jobs : life[j] \notin {"waiting", "active"}

\* Every way to be shown as "processing" forever: the room had no recording, an
\* egress failed, its event's handler failed, a job was lost or is dead, or a
\* summarize job found an empty text.
StuckExplained ==
  Quiet /\ InsightsStatus = "processing" =>
    \/ \A e \in Egresses : egress[e] = "none"
    \/ \E e \in Egresses :
         \/ egress[e] = "failed" \/ Dead(e)
         \/ egress[e] = "complete" /\ enqueued[e] = 0
         \/ \E j \in Jobs : j.egress = e /\ life[j] = "gone"
         \/ /\ faults \intersect {"silent", "deaf"} # {}
            /\ \E j \in Jobs : j.kind = "summarize" /\ j.egress = e /\ life[j] = "done"

-----------------------------------------------------------------------------
(* What the repository says of the pipeline and the code does not do.      *)

\* integration_livekit.md:193-195 "egress_ended may arrive before
\* egress_started. Your handler must be defensive": a completed egress whose
\* events were all handled has its recording completed.
OrderDefended ==
  \A e \in Egresses :
    /\ {<<e, "started">>, <<e, "ended">>} \subseteq handled
    /\ egress[e] = "complete" /\ ending[e] = "no"
    => rec[e] = "completed"
=============================================================================
