---------------------------- MODULE RoomLifecycle ----------------------------
(***************************************************************************)
(* The life of a guest room: rooms.Service (create, token, end, extend),   *)
(* the session enforcer, the room_started and room_finished webhooks, and  *)
(* the LiveKit server the service drives and listens to.                   *)
(*                                                                         *)
(* The Postgres row and the LiveKit room are two representations that only *)
(* meet through API calls one way and webhooks the other.  A step is one   *)
(* statement or one API call; each behaviour has its own set of failures.  *)
(*                                                                         *)
(* Time is kept per room, as the minutes since started_at, and stops being *)
(* counted at AgeCap, beyond every window a room can have.                 *)
(***************************************************************************)
EXTENDS Naturals, FiniteSets

CONSTANTS
  Rooms,        \* LiveKit room names, each created by one request
  Callers,      \* concurrent HTTP requests that join, end or extend a room
  Enforcer,     \* the session enforcer, a caller of EndRoom too
  SessionMins,  \* GuestTier.SessionDurationMins of the configuration
  RowDefault,   \* the default of rooms.session_duration_mins in the schema
  TokenBuffer,  \* what a token may outlast the session, 60s in the code
  AgeCap,       \* bound: the age at which counting stops
  FaultSets     \* the sets of failures a behaviour may be exposed to

FaultKinds ==
  { "livekit",   \* an API call to LiveKit returns an error
    "insert",    \* the INSERT of a room fails
    "dispatch",  \* a webhook's UPDATE fails after its event was stored
    "lost",      \* LiveKit gives up delivering an event
    "crash" }    \* the process dies, or exits at shutdown, between two steps

ASSUME SessionAssumption ==
  /\ SessionMins \in Nat \ {0}
  /\ RowDefault \in Nat \ {0}
  /\ TokenBuffer \in Nat
  /\ AgeCap \in Nat
ASSUME EnforcerAssumption == Enforcer \notin Callers
ASSUME RoomFaultsAssumption == FaultSets \subseteq SUBSET FaultKinds

\* Half of the configured duration, in whole minutes.
Extension == SessionMins \div 2

EventKinds == {"room_started", "room_finished"}
Events == Rooms \X EventKinds

VARIABLES
  faults,      \* the failures that may happen in this behaviour
  row,         \* rooms table
  age,         \* minutes since started_at, once that is set
  lk,          \* the LiveKit room
  creating,    \* progress of the request that creates the room
  calls,       \* requests past their check of the row, and before their effect
  expired,     \* the enforcer's list of rooms still to end in this tick
  sent,        \* webhook events LiveKit has sent and may deliver again
  stored,      \* webhook_events table
  dispatching, \* events stored whose handler has not run yet
  token        \* minutes the longest-lived token of a room is still valid

requestVars == <<creating, calls, expired>>
webhookVars == <<sent, stored, dispatching>>
vars == <<faults, row, age, lk, requestVars, webhookVars, token>>

Statuses == {"absent", "draft", "live", "ended"}
MaxDuration == RowDefault + Extension * Cardinality(Callers)
Call == [who : Callers \union {Enforcer}, op : {"end", "extend", "join_draft", "join_live"},
         room : Rooms, late : BOOLEAN]

\* Every variable holds a value of its kind.
TypeOK ==
  /\ faults \in FaultSets
  /\ row \in [Rooms -> [status : Statuses, started : BOOLEAN,
                        duration : Nat, extendUsed : BOOLEAN]]
  /\ age \in [Rooms -> 0 .. AgeCap]
  /\ lk \in [Rooms -> {"none", "open", "closed"}]
  /\ creating \in [Rooms -> {"no", "opened", "failed", "done"}]
  /\ calls \in SUBSET Call
  /\ expired \in SUBSET Rooms
  /\ sent \in SUBSET Events
  /\ stored \in SUBSET sent
  /\ dispatching \in SUBSET stored
  /\ token \in [Rooms -> Nat]

Init ==
  /\ faults \in FaultSets
  /\ row = [r \in Rooms |-> [status |-> "absent", started |-> FALSE,
                             duration |-> 0, extendUsed |-> FALSE]]
  /\ age = [r \in Rooms |-> 0]
  /\ lk = [r \in Rooms |-> "none"]
  /\ creating = [r \in Rooms |-> "no"]
  /\ calls = {}
  /\ expired = {}
  /\ sent = {}
  /\ stored = {}
  /\ dispatching = {}
  /\ token = [r \in Rooms |-> 0]

Known(r) == row[r].status # "absent"

-----------------------------------------------------------------------------
(* LiveKit: a room is opened once, by its creation, and closed once; both  *)
(* are told by an event.                                                   *)

OpenLiveKit(r) ==
  /\ lk' = [lk EXCEPT ![r] = "open"]
  /\ sent' = sent \union {<<r, "room_started">>}

\* Deleting a room that is not there is an error without effect.
CloseLiveKit(r) ==
  IF lk[r] = "open"
  THEN /\ lk' = [lk EXCEPT ![r] = "closed"]
       /\ sent' = sent \union {<<r, "room_finished">>}
  ELSE UNCHANGED <<lk, sent>>

\* A DeleteRoom call: it closes the room or fails.
DeleteRoom(r) ==
  \/ CloseLiveKit(r)
  \/ "livekit" \in faults /\ UNCHANGED <<lk, sent>>

\* LiveKit closes a room that stays empty for empty_timeout, five minutes: the
\* insert that follows the creation takes less.
EmptyTimeout(r) ==
  /\ lk[r] = "open" /\ creating[r] # "opened"
  /\ CloseLiveKit(r)
  /\ UNCHANGED <<faults, row, age, requestVars, stored, dispatching, token>>

-----------------------------------------------------------------------------
(* CreateGuestRoom: LiveKit first, then the row, then a clean-up.          *)

\* The error return leaves a room behind when only the answer was lost.
CreateOpen(r) ==
  /\ creating[r] = "no"
  /\ \/ /\ OpenLiveKit(r)
        /\ creating' = [creating EXCEPT ![r] = "opened"]
     \/ /\ "livekit" \in faults
        /\ OpenLiveKit(r) \/ UNCHANGED <<lk, sent>>
        /\ creating' = [creating EXCEPT ![r] = "done"]
  /\ UNCHANGED <<faults, row, age, calls, expired, stored, dispatching, token>>

\* session_duration_mins is not among the inserted columns.
CreateInsert(r) ==
  /\ creating[r] = "opened"
  /\ \/ /\ row' = [row EXCEPT ![r].status = "draft", ![r].duration = RowDefault]
        /\ creating' = [creating EXCEPT ![r] = "done"]
     \/ /\ "insert" \in faults
        /\ creating' = [creating EXCEPT ![r] = "failed"]
        /\ UNCHANGED row
  /\ UNCHANGED <<faults, age, lk, calls, expired, webhookVars, token>>

\* An insert failure that does not undo the LiveKit room.
CreateCleanupForgotten(r) ==
  /\ creating[r] = "failed"
  /\ creating' = [creating EXCEPT ![r] = "done"]
  /\ UNCHANGED <<faults, row, age, lk, calls, expired, webhookVars, token>>

\* Best effort: the error of this DeleteRoom is dropped.
CreateCleanup(r) ==
  /\ creating[r] = "failed"
  /\ DeleteRoom(r)
  /\ creating' = [creating EXCEPT ![r] = "done"]
  /\ UNCHANGED <<faults, row, age, calls, expired, stored, dispatching, token>>

-----------------------------------------------------------------------------
(* Requests: the row is read and checked, and the effect comes later, on   *)
(* what the check no longer guards.                                        *)

Busy(who) == \E c \in calls : c.who = who
Joining(c) == c.op \in {"join_draft", "join_live"}

-----------------------------------------------------------------------------
(* IssueGuestToken: refused for an ended room and past the configured      *)
(* duration, whatever the row's own duration is.  The row is read first,   *)
(* then LiveKit counts the participants, and the lifetime follows from     *)
(* what the row said.                                                      *)

Remaining(r) == IF age[r] <= SessionMins THEN SessionMins - age[r] ELSE 0

\* For a room that was read as live.
TokenRefusedAsExpired(r) == age[r] >= SessionMins

CheckToken(who, r) ==
  /\ ~Busy(who)
  /\ row[r].status \in {"draft", "live"}
  /\ calls' = calls \union
       {[who |-> who, op |-> IF row[r].status = "live" THEN "join_live" ELSE "join_draft",
         room |-> r, late |-> FALSE]}
  /\ UNCHANGED <<faults, row, age, lk, creating, expired, webhookVars, token>>

\* A lifetime that ignores how long the session has been running.
TokenTTLFull(c) == SessionMins + TokenBuffer

TokenTTL(c) ==
  IF c.op = "join_live" THEN Remaining(c.room) + TokenBuffer
  ELSE SessionMins + TokenBuffer

\* The other outcome is a refusal: the session has expired or the room is full.
MintToken(c) ==
  /\ Joining(c)
  /\ calls' = calls \ {c}
  /\ \/ /\ c.op = "join_live" => ~TokenRefusedAsExpired(c.room)
        /\ token' = [token EXCEPT ![c.room] = IF @ > TokenTTL(c) THEN @ ELSE TokenTTL(c)]
     \/ UNCHANGED token
  /\ UNCHANGED <<faults, row, age, lk, creating, expired, webhookVars>>

-----------------------------------------------------------------------------
(* EndRoom and ExtendGuestSession.                                         *)

CheckEnd(who, r) ==
  /\ ~Busy(who)
  /\ row[r].status \in {"draft", "live"}
  /\ calls' = calls \union {[who |-> who, op |-> "end", room |-> r, late |-> FALSE]}
  /\ UNCHANGED <<faults, row, age, lk, creating, webhookVars, token>>

\* An EndRoom that marks the row itself, whatever DeleteRoom answers.
FinishEndMarks(c) ==
  /\ c.op = "end"
  /\ calls' = calls \ {c}
  /\ DeleteRoom(c.room)
  /\ row' = [row EXCEPT ![c.room].status = "ended"]
  /\ UNCHANGED <<faults, age, creating, expired, stored, dispatching, token>>

\* The row is not touched: its end comes from the webhook.
FinishEnd(c) ==
  /\ c.op = "end"
  /\ calls' = calls \ {c}
  /\ DeleteRoom(c.room)
  /\ UNCHANGED <<faults, row, age, creating, expired, stored, dispatching, token>>

CheckExtend(who, r) ==
  /\ ~Busy(who)
  /\ row[r].status \in {"draft", "live"}
  /\ ~row[r].extendUsed
  /\ calls' = calls \union {[who |-> who, op |-> "extend", room |-> r, late |-> FALSE]}
  /\ UNCHANGED <<faults, row, age, lk, creating, expired, webhookVars, token>>

\* An extension that forgets to use itself up.
FinishExtendUnmarked(c) ==
  /\ c.op = "extend"
  /\ calls' = calls \ {c}
  /\ row' = [row EXCEPT ![c.room].duration =
               IF @ < MaxDuration + 1 THEN @ + Extension ELSE @]
  /\ UNCHANGED <<faults, age, lk, creating, expired, webhookVars, token>>

Extended(r) ==
  [row EXCEPT ![r] = [@ EXCEPT !.extendUsed = TRUE,
                               !.duration = row[r].duration + Extension]]

\* UPDATE ... WHERE id: neither the status nor extend_used is checked again.
FinishExtend(c) ==
  /\ c.op = "extend"
  /\ calls' = calls \ {c}
  /\ row' = Extended(c.room)
  /\ UNCHANGED <<faults, age, lk, creating, expired, webhookVars, token>>

-----------------------------------------------------------------------------
(* Session enforcer: one query, then EndRoom for each room of its answer.  *)

\* A window that is closed a minute early.
ExpiredEarly(r) == row[r].status = "live" /\ age[r] + 1 >= row[r].duration

Expired(r) == row[r].status = "live" /\ age[r] >= row[r].duration

EnforcerFetch ==
  /\ expired = {} /\ ~Busy(Enforcer)
  /\ \E r \in Rooms : Expired(r)
  /\ expired' = {r \in Rooms : Expired(r)}
  /\ UNCHANGED <<faults, row, age, lk, creating, calls, webhookVars, token>>

EnforcerNext(r) ==
  /\ r \in expired
  /\ ~Busy(Enforcer)
  /\ expired' = expired \ {r}
  /\ \/ CheckEnd(Enforcer, r)
     \/ row[r].status = "ended" /\ UNCHANGED <<faults, row, age, lk, creating, calls, webhookVars, token>>

-----------------------------------------------------------------------------
(* Webhooks: an event is stored, in a statement of its own, before its     *)
(* handler runs; a delivery of a stored event is answered and ignored.     *)

\* A handler that runs without its event being recorded.
DeliverUnstored(e) ==
  /\ e \in sent
  /\ dispatching' = dispatching \union {e}
  /\ UNCHANGED <<faults, row, age, lk, requestVars, sent, stored, token>>

Deliver(e) ==
  /\ e \in sent
  /\ IF e \in stored THEN UNCHANGED <<stored, dispatching>>
     ELSE /\ stored' = stored \union {e}
          /\ dispatching' = dispatching \union {e}
  /\ UNCHANGED <<faults, row, age, lk, requestVars, sent, token>>

\* LiveKit stops retrying an event that was not stored.
Lose(e) ==
  /\ "lost" \in faults
  /\ e \in sent \ stored
  /\ sent' = sent \ {e}
  /\ UNCHANGED <<faults, row, age, lk, requestVars, stored, dispatching, token>>

\* A room_started without the condition on the row's status.
StartedUnguarded(r) ==
  [row EXCEPT ![r] = IF @.status = "absent" THEN @
                     ELSE [@ EXCEPT !.status = "live", !.started = TRUE]]

Started(r) ==
  [row EXCEPT ![r] = IF @.status # "draft" THEN @
                     ELSE [@ EXCEPT !.status = "live", !.started = TRUE]]

\* A room_finished that only knows live rooms.
FinishedLiveOnly(r) ==
  [row EXCEPT ![r] = IF @.status # "live" THEN @
                     ELSE [@ EXCEPT !.status = "ended"]]

Finished(r) ==
  [row EXCEPT ![r] = IF @.status \in {"absent", "ended"} THEN @
                     ELSE [@ EXCEPT !.status = "ended"]]

\* The answer is 200 also when the handler fails.
Dispatch(e) ==
  /\ e \in dispatching
  /\ dispatching' = dispatching \ {e}
  /\ \/ row' = IF e[2] = "room_started" THEN Started(e[1]) ELSE Finished(e[1])
     \/ "dispatch" \in faults /\ UNCHANGED row
  /\ UNCHANGED <<faults, age, lk, requestVars, sent, stored, token>>

-----------------------------------------------------------------------------
Monus1(n) == IF n = 0 THEN 0 ELSE n - 1

\* A minute passes for every room; a room's age counts from started_at.  LiveKit
\* answers a token request within 10s, so it sees at most one minute begin.
Tick ==
  /\ \A c \in calls : ~c.late
  /\ age' = [r \in Rooms |->
       IF row[r].started /\ age[r] < AgeCap THEN age[r] + 1 ELSE age[r]]
  /\ token' = [r \in Rooms |-> Monus1(token[r])]
  /\ calls' = {[c EXCEPT !.late = Joining(c)] : c \in calls}
  /\ UNCHANGED <<faults, row, lk, creating, expired, webhookVars>>

\* Requests, the enforcer's list and running webhook handlers are lost.
Crash ==
  /\ "crash" \in faults
  /\ creating' = [r \in Rooms |->
       IF creating[r] \in {"opened", "failed"} THEN "done" ELSE creating[r]]
  /\ calls' = {}
  /\ expired' = {}
  /\ dispatching' = {}
  /\ UNCHANGED <<faults, row, age, lk, sent, stored, token>>

Request ==
  \/ \E r \in Rooms : CreateOpen(r)
  \/ \E who \in Callers, r \in Rooms :
       \/ CheckEnd(who, r) /\ UNCHANGED expired
       \/ CheckExtend(who, r)
       \/ CheckToken(who, r)

Service ==
  \/ \E r \in Rooms : CreateInsert(r) \/ CreateCleanup(r)
  \/ \E c \in calls : MintToken(c) \/ FinishEnd(c) \/ FinishExtend(c)

EnforcerStep == EnforcerFetch \/ \E r \in Rooms : EnforcerNext(r)

Webhook == \E e \in Events : Deliver(e) \/ Dispatch(e)

Next ==
  \/ Request
  \/ Service
  \/ EnforcerStep
  \/ Webhook
  \/ \E r \in Rooms : EmptyTimeout(r)
  \/ \E e \in Events : Lose(e)
  \/ Tick
  \/ Crash

Spec == Init /\ [][Next]_vars

\* Begun requests end, the enforcer's ticker fires, LiveKit retries an event
\* until it is stored, the handler of a stored event runs, time passes.
Fairness ==
  /\ \A r \in Rooms : WF_vars(CreateInsert(r)) /\ WF_vars(CreateCleanup(r))
  /\ \A c \in Call : WF_vars(c \in calls /\ (MintToken(c) \/ FinishEnd(c) \/ FinishExtend(c)))
  /\ WF_vars(EnforcerStep)
  /\ \A e \in Events : WF_vars(Deliver(e)) /\ WF_vars(Dispatch(e))
  /\ WF_vars(Tick)

FairSpec == Spec /\ Fairness

-----------------------------------------------------------------------------
(* Properties *)

Rank == [absent |-> 0, draft |-> 1, live |-> 2, ended |-> 3]

\* A room's status only advances and its started_at is set once, in whatever
\* order and however often the events arrive.
StatusAdvances ==
  [][\A r \in Rooms :
       /\ Rank[row[r].status] <= Rank[row'[r].status]
       /\ row[r].started => row'[r].started /\ age'[r] >= age[r]]_vars

\* The row follows LiveKit and never runs ahead of it: a room is live only
\* after LiveKit opened it, and ended only after LiveKit closed it.
RowFollowsLiveKit ==
  \A r \in Rooms :
    /\ row[r].status = "live" => lk[r] # "none" /\ row[r].started
    /\ row[r].status = "ended" => lk[r] = "closed"

\* A LiveKit room without a row belongs to a request that is still creating it,
\* also when its insert fails.
NoOrphanRoom ==
  \A r \in Rooms :
    lk[r] = "open" /\ ~Known(r) /\ faults \intersect {"livekit", "crash"} = {} => creating[r] \in {"opened", "failed"}

\* No token of a live room outlasts the room's own window by more than the
\* buffer, be it issued before the room started or while it ran.  A request that
\* still saw a draft may add the minute it waited for LiveKit.
TokenWithinSession ==
  \A r \in Rooms : row[r].status = "live" =>
    token[r] <= TokenBuffer + 1 + (IF age[r] <= row[r].duration THEN row[r].duration - age[r] ELSE 0)

\* Racing requests may extend a room more often than once (ExtendedOnce, below):
\* each is one that had passed the check before the first write, so that there
\* is one extension per caller at most; the mark and the window agree.
ExtensionsBounded ==
  \A r \in Rooms : Known(r) =>
    /\ row[r].duration <= MaxDuration
    /\ row[r].extendUsed <=> row[r].duration > RowDefault

\* Ending through the enforcer: its call on r takes effect in this step.
EnforcerEnds(r) ==
  \E c \in calls : c.who = Enforcer /\ c.room = r /\ c \notin calls'

\* The enforcer acts on a list that may be stale by then, an extension may have
\* come in between; it still never ends a room before its unextended window.
EnforcerNotEarly ==
  [][\A r \in Rooms : EnforcerEnds(r) => row[r].started /\ age[r] >= RowDefault]_vars

\* A live room ends: by its host, by being empty, or by the enforcer.
LiveEnds ==
  \A r \in Rooms :
    (row[r].status = "live" /\ faults \subseteq {"insert"}) ~> row[r].status = "ended"

-----------------------------------------------------------------------------
(* What the repository says of a room and the code does not do.            *)

\* service.go:35 "The room transitions to 'live' when the room_started webhook
\* arrives": a room whose event was handled is not a draft any more.
StartedIsLive ==
  \A r \in Rooms : LET e == <<r, "room_started">>
    IN e \in stored /\ e \notin dispatching => row[r].status # "draft"

\* service.go:243-244 the extension "may only be used once per room. Additional
\* calls return ErrExtendOnce", rooms/handler.go:182 "Single-use per room": the
\* window of a room grows by one extension at most, whoever races for it.
ExtendedOnce == \A r \in Rooms : row[r].duration <= RowDefault + Extension

\* service.go:454 the extension "bumps the effective session duration": within
\* it nobody is told that the session has expired.
ExtendedTokenIssued ==
  \A r \in Rooms : row[r].status = "live" /\ age[r] < row[r].duration
    => ~TokenRefusedAsExpired(r)
=============================================================================
