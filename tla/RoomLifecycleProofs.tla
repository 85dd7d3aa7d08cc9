-------------------------- MODULE RoomLifecycleProofs --------------------------
(* Theorems about RoomLifecycle, for any rooms, callers and durations, and  *)
(* under any failures.                                                     *)
EXTENDS RoomLifecycle, FiniteSetTheorems, TLAPS

-----------------------------------------------------------------------------
(* Type correctness, by parts.                                             *)

RowOK ==
  /\ faults \in FaultSets
  /\ row \in [Rooms -> [status : Statuses, started : BOOLEAN,
                        duration : Nat, extendUsed : BOOLEAN]]

ClockOK == age \in [Rooms -> 0 .. AgeCap] /\ token \in [Rooms -> Nat]

RequestsOK ==
  /\ creating \in [Rooms -> {"no", "opened", "failed", "done"}]
  /\ calls \in SUBSET Call
  /\ expired \in SUBSET Rooms

LiveKitOK ==
  /\ lk \in [Rooms -> {"none", "open", "closed"}]
  /\ sent \in SUBSET Events
  /\ stored \in SUBSET sent
  /\ dispatching \in SUBSET stored

\* The four parts are TypeOK.
LEMMA TypeParts == TypeOK <=> RowOK /\ ClockOK /\ RequestsOK /\ LiveKitOK
  BY DEF TypeOK, RowOK, ClockOK, RequestsOK, LiveKitOK

\* Half of the configured duration is a number of minutes.
LEMMA ExtensionIsNat == Extension \in Nat
  BY SessionAssumption DEF Extension

\* The events of LiveKit's own steps are events.
LEMMA CloseKeepsLiveKit ==
  ASSUME NEW r \in Rooms, LiveKitOK, CloseLiveKit(r), UNCHANGED <<stored, dispatching>>
  PROVE  LiveKitOK'
  BY DEF LiveKitOK, CloseLiveKit, Events, EventKinds

\* And so are those of a DeleteRoom call, whether it succeeds or fails.
LEMMA DeleteKeepsLiveKit ==
  ASSUME NEW r \in Rooms, LiveKitOK, DeleteRoom(r), UNCHANGED <<stored, dispatching>>
  PROVE  LiveKitOK'
  BY CloseKeepsLiveKit DEF LiveKitOK, DeleteRoom

\* A handled event only rewrites the row of its room.
LEMMA EventsKeepRow ==
  ASSUME RowOK, NEW r \in Rooms
  PROVE  /\ Started(r) \in [Rooms -> [status : Statuses, started : BOOLEAN,
                                      duration : Nat, extendUsed : BOOLEAN]]
         /\ Finished(r) \in [Rooms -> [status : Statuses, started : BOOLEAN,
                                       duration : Nat, extendUsed : BOOLEAN]]
  BY DEF RowOK, Started, Finished, Statuses

\* And so does an extension.
LEMMA ExtendKeepsRow ==
  ASSUME RowOK, NEW r \in Rooms
  PROVE  Extended(r) \in [Rooms -> [status : Statuses, started : BOOLEAN,
                                    duration : Nat, extendUsed : BOOLEAN]]
<1> DEFINE d == row[r].duration + Extension
<1>1. d \in Nat
  BY ExtensionIsNat DEF RowOK
<1>2. Extended(r) = [row EXCEPT ![r] = [@ EXCEPT !.extendUsed = TRUE, !.duration = d]]
  BY Zenon DEF Extended
<1> HIDE DEF d
<1> QED
  BY <1>1, <1>2 DEF RowOK

\* A request that passed its check is a call.
LEMMA NewCallIsCall ==
  ASSUME NEW who \in Callers \union {Enforcer}, NEW r \in Rooms,
         NEW op \in {"end", "extend", "join_draft", "join_live"}
  PROVE  [who |-> who, op |-> op, room |-> r, late |-> FALSE] \in Call
  BY DEF Call

\* And it stays one when a minute begins.
LEMMA LateCallIsCall ==
  ASSUME NEW c \in Call, NEW b \in BOOLEAN
  PROVE  [c EXCEPT !.late = b] \in Call
  BY DEF Call

\* Before the first request there is no room, no event and no token.
LEMMA TypeInit == Init => TypeOK
  BY SessionAssumption DEF Init, TypeOK, Statuses

\* One step of a room, a request, LiveKit or the clock keeps it.
LEMMA TypeNext == TypeOK /\ [Next]_vars => TypeOK'
<1> SUFFICES ASSUME TypeOK, [Next]_vars PROVE TypeOK'
  OBVIOUS
<1> USE DEF requestVars, webhookVars
<1>a. RowOK /\ ClockOK /\ RequestsOK /\ LiveKitOK
  BY TypeParts
<1>b. ASSUME RowOK', ClockOK', RequestsOK', LiveKitOK' PROVE TypeOK'
  BY <1>b DEF TypeOK, RowOK, ClockOK, RequestsOK, LiveKitOK
<1>1. ASSUME NEW r \in Rooms, CreateOpen(r) PROVE TypeOK'
  <2>1. RowOK' /\ ClockOK'
    BY <1>a, <1>1 DEF CreateOpen, RowOK, ClockOK
  <2>2. RequestsOK'
    BY <1>a, <1>1 DEF CreateOpen, RequestsOK
  <2>3. LiveKitOK'
    BY <1>a, <1>1 DEF CreateOpen, OpenLiveKit, LiveKitOK, Events, EventKinds
  <2> QED
    BY <2>1, <2>2, <2>3, <1>b
<1>2. ASSUME NEW r \in Rooms, CreateInsert(r) PROVE TypeOK'
  <2>1. ClockOK' /\ LiveKitOK'
    BY <1>a, <1>2 DEF CreateInsert, ClockOK, LiveKitOK
  <2>2. RowOK'
    BY <1>a, <1>2, SessionAssumption DEF CreateInsert, RowOK, Statuses
  <2>3. RequestsOK'
    BY <1>a, <1>2 DEF CreateInsert, RequestsOK
  <2> QED
    BY <2>1, <2>2, <2>3, <1>b
<1>3. ASSUME NEW r \in Rooms, CreateCleanup(r) PROVE TypeOK'
  <2>1. RowOK' /\ ClockOK'
    BY <1>a, <1>3 DEF CreateCleanup, RowOK, ClockOK
  <2>2. RequestsOK'
    BY <1>a, <1>3 DEF CreateCleanup, RequestsOK
  <2>3. LiveKitOK'
    BY <1>a, <1>3, DeleteKeepsLiveKit DEF CreateCleanup
  <2> QED
    BY <2>1, <2>2, <2>3, <1>b
<1>4. ASSUME NEW c \in calls, MintToken(c) PROVE TypeOK'
  <2>1. RowOK' /\ LiveKitOK'
    BY <1>a, <1>4 DEF MintToken, RowOK, LiveKitOK
  <2>2. ClockOK'
    <3>1. TokenTTL(c) \in Nat
      BY <1>a, SessionAssumption DEF TokenTTL, Remaining, ClockOK, RequestsOK, Call
    <3> QED
      BY <1>a, <1>4, <3>1 DEF MintToken, ClockOK
  <2>3. RequestsOK'
    BY <1>a, <1>4 DEF MintToken, RequestsOK
  <2> QED
    BY <2>1, <2>2, <2>3, <1>b
<1>5. ASSUME NEW r \in Rooms, EmptyTimeout(r) PROVE TypeOK'
  <2>1. RowOK' /\ ClockOK' /\ RequestsOK'
    BY <1>a, <1>5 DEF EmptyTimeout, RowOK, ClockOK, RequestsOK
  <2>2. LiveKitOK'
    BY <1>a, <1>5, CloseKeepsLiveKit DEF EmptyTimeout
  <2> QED
    BY <2>1, <2>2, <1>b
<1>6. ASSUME NEW who \in Callers \union {Enforcer}, NEW r \in Rooms, expired' \in SUBSET Rooms, CheckEnd(who, r) PROVE TypeOK'
  <2>1. RowOK' /\ ClockOK' /\ LiveKitOK'
    BY <1>a, <1>6 DEF CheckEnd, RowOK, ClockOK, LiveKitOK
  <2>2. RequestsOK'
    BY <1>a, <1>6, NewCallIsCall DEF CheckEnd, RequestsOK
  <2> QED
    BY <2>1, <2>2, <1>b
<1>7. ASSUME NEW who \in Callers, NEW r \in Rooms, CheckExtend(who, r) PROVE TypeOK'
  <2>1. RowOK' /\ ClockOK' /\ LiveKitOK'
    BY <1>a, <1>7 DEF CheckExtend, RowOK, ClockOK, LiveKitOK
  <2>2. RequestsOK'
    BY <1>a, <1>7, NewCallIsCall DEF CheckExtend, RequestsOK
  <2> QED
    BY <2>1, <2>2, <1>b
<1>0. ASSUME NEW who \in Callers, NEW r \in Rooms, CheckToken(who, r) PROVE TypeOK'
  <2>1. RowOK' /\ ClockOK' /\ LiveKitOK'
    BY <1>a, <1>0 DEF CheckToken, RowOK, ClockOK, LiveKitOK
  <2>2. RequestsOK'
    <3> DEFINE op == IF row[r].status = "live" THEN "join_live" ELSE "join_draft"
    <3>1. [who |-> who, op |-> op, room |-> r, late |-> FALSE] \in Call
      BY NewCallIsCall
    <3> QED
      BY <1>a, <1>0, <3>1 DEF CheckToken, RequestsOK
  <2> QED
    BY <2>1, <2>2, <1>b
<1>8. ASSUME NEW c \in calls, FinishEnd(c) PROVE TypeOK'
  <2>1. RowOK' /\ ClockOK'
    BY <1>a, <1>8 DEF FinishEnd, RowOK, ClockOK
  <2>2. RequestsOK'
    BY <1>a, <1>8 DEF FinishEnd, RequestsOK
  <2>3. LiveKitOK'
    <3>1. c.room \in Rooms
      BY <1>a DEF RequestsOK, Call
    <3> QED
      BY <1>a, <1>8, <3>1, DeleteKeepsLiveKit DEF FinishEnd
  <2> QED
    BY <2>1, <2>2, <2>3, <1>b
<1>9. ASSUME NEW c \in calls, FinishExtend(c) PROVE TypeOK'
  <2>1. ClockOK' /\ LiveKitOK'
    BY <1>a, <1>9 DEF FinishExtend, ClockOK, LiveKitOK
  <2>2. RowOK'
    <3>1. c.room \in Rooms
      BY <1>a DEF RequestsOK, Call
    <3> QED
      BY <1>a, <1>9, <3>1, ExtendKeepsRow DEF FinishExtend, RowOK
  <2>3. RequestsOK'
    BY <1>a, <1>9 DEF FinishExtend, RequestsOK
  <2> QED
    BY <2>1, <2>2, <2>3, <1>b
<1>10. CASE EnforcerFetch
  <2>1. RowOK' /\ ClockOK' /\ LiveKitOK'
    BY <1>a, <1>10 DEF EnforcerFetch, RowOK, ClockOK, LiveKitOK
  <2>2. RequestsOK'
    BY <1>a, <1>10 DEF EnforcerFetch, RequestsOK
  <2> QED
    BY <2>1, <2>2, <1>b
<1>11. ASSUME NEW e \in Events, Deliver(e) PROVE TypeOK'
  <2>1. RowOK' /\ ClockOK' /\ RequestsOK'
    BY <1>a, <1>11 DEF Deliver, RowOK, ClockOK, RequestsOK
  <2>2. LiveKitOK'
    BY <1>a, <1>11 DEF Deliver, LiveKitOK
  <2> QED
    BY <2>1, <2>2, <1>b
<1>12. ASSUME NEW e \in Events, Lose(e) PROVE TypeOK'
  <2>1. RowOK' /\ ClockOK' /\ RequestsOK'
    BY <1>a, <1>12 DEF Lose, RowOK, ClockOK, RequestsOK
  <2>2. LiveKitOK'
    BY <1>a, <1>12 DEF Lose, LiveKitOK
  <2> QED
    BY <2>1, <2>2, <1>b
<1>13. ASSUME NEW e \in Events, Dispatch(e) PROVE TypeOK'
  <2>1. ClockOK' /\ RequestsOK'
    BY <1>a, <1>13 DEF Dispatch, ClockOK, RequestsOK
  <2>2. RowOK'
    <3>1. e[1] \in Rooms
      BY DEF Events
    <3> QED
      BY <1>a, <1>13, <3>1, EventsKeepRow DEF Dispatch, RowOK
  <2>3. LiveKitOK'
    BY <1>a, <1>13 DEF Dispatch, LiveKitOK
  <2> QED
    BY <2>1, <2>2, <2>3, <1>b
<1>14. CASE Tick
  <2>1. RowOK' /\ LiveKitOK'
    BY <1>a, <1>14 DEF Tick, RowOK, LiveKitOK
  <2>3. RequestsOK'
    <3>1. \A c \in calls : [c EXCEPT !.late = Joining(c)] \in Call
      <4>1. \A c \in calls : Joining(c) \in BOOLEAN /\ c \in Call
        BY <1>a DEF Joining, RequestsOK
      <4> QED
        BY <4>1, LateCallIsCall
    <3> QED
      BY <1>a, <1>14, <3>1 DEF Tick, RequestsOK
  <2>2. ClockOK'
    BY <1>a, <1>14, SessionAssumption DEF Tick, ClockOK, Monus1
  <2> QED
    BY <2>1, <2>2, <2>3, <1>b
<1>15. CASE Crash
  <2>1. RowOK' /\ ClockOK'
    BY <1>a, <1>15 DEF Crash, RowOK, ClockOK
  <2>2. RequestsOK'
    BY <1>a, <1>15 DEF Crash, RequestsOK
  <2>3. LiveKitOK'
    BY <1>a, <1>15 DEF Crash, LiveKitOK
  <2> QED
    BY <2>1, <2>2, <2>3, <1>b
<1>16. ASSUME NEW r \in Rooms, EnforcerNext(r) PROVE TypeOK'
  <2>1. expired' \in SUBSET Rooms
    BY <1>a, <1>16 DEF EnforcerNext, RequestsOK
  <2>2. CASE CheckEnd(Enforcer, r)
    BY <1>6, <2>1, <2>2
  <2>3. CASE UNCHANGED <<faults, row, age, lk, creating, calls, webhookVars, token>>
    BY <1>a, <1>b, <2>1, <2>3 DEF RowOK, ClockOK, RequestsOK, LiveKitOK
  <2> QED
    BY <1>16, <2>2, <2>3 DEF EnforcerNext
<1>17. CASE UNCHANGED vars
  BY <1>a, <1>b, <1>17 DEF vars, RowOK, ClockOK, RequestsOK, LiveKitOK
<1>18. CASE Request
  BY <1>a, <1>0, <1>1, <1>6, <1>7, <1>18 DEF Request, RequestsOK
<1>19. CASE Service
  BY <1>2, <1>3, <1>4, <1>8, <1>9, <1>19 DEF Service
<1>20. CASE EnforcerStep
  BY <1>10, <1>16, <1>20 DEF EnforcerStep
<1>21. CASE Webhook
  BY <1>11, <1>13, <1>21 DEF Webhook
<1> QED
  BY <1>5, <1>12, <1>14, <1>15, <1>17, <1>18, <1>19, <1>20, <1>21 DEF Next

\* Whatever fails, every variable keeps to its kind, and only events that were
\* sent are stored, and only stored ones handled.
THEOREM TypeCorrect == Spec => []TypeOK
  BY TypeInit, TypeNext, PTL DEF Spec

-----------------------------------------------------------------------------
(* The row never runs ahead of LiveKit.  What a row may become is told by    *)
(* events, what events there are by LiveKit's room, and what that room may   *)
(* become by the request that creates it: the invariant ties the three.      *)

\* Until its creation answers there is no LiveKit room, until its insert no row.
CreationInv ==
  \A r \in Rooms :
    /\ creating[r] = "no" => lk[r] = "none"
    /\ creating[r] \in {"no", "opened", "failed"} => row[r].status = "absent"

\* LiveKit only tells of what has happened.
EventsInv ==
  \A r \in Rooms :
    /\ <<r, "room_started">> \in sent => lk[r] # "none"
    /\ <<r, "room_finished">> \in sent => lk[r] = "closed"

LinkInv == CreationInv /\ EventsInv /\ RowFollowsLiveKit

\* It holds before the first request.
LEMMA LinkInit == Init => LinkInv
  BY DEF Init, LinkInv, CreationInv, EventsInv, RowFollowsLiveKit

\* Closing a room, by whoever it is, keeps it.
LEMMA CloseKeepsLink ==
  ASSUME NEW r \in Rooms, TypeOK, LinkInv, CloseLiveKit(r), UNCHANGED row,
         \A q \in Rooms : creating'[q] = creating[q] \/ creating'[q] = "done"
  PROVE  LinkInv'
<1>1. CASE lk[r] = "open"
  <2>1. /\ lk' = [lk EXCEPT ![r] = "closed"]
        /\ sent' = sent \union {<<r, "room_finished">>}
    BY <1>1 DEF CloseLiveKit
  <2>2. \A q \in Rooms : lk'[q] = IF q = r THEN "closed" ELSE lk[q]
    BY <2>1 DEF TypeOK
  <2>3. CreationInv'
    BY <1>1, <2>2 DEF LinkInv, CreationInv
  <2>4. EventsInv'
    <3>1. ASSUME NEW q \in Rooms, <<q, "room_started">> \in sent' PROVE lk'[q] # "none"
      <4>1. "room_started" # "room_finished"
        OBVIOUS
      <4>2. <<q, "room_started">> \in sent
        BY <2>1, <3>1, <4>1, Zenon
      <4> QED
        BY <2>2, <4>2 DEF LinkInv, EventsInv
    <3>2. ASSUME NEW q \in Rooms, <<q, "room_finished">> \in sent' PROVE lk'[q] = "closed"
      <4>1. CASE q = r
        BY <2>2, <4>1
      <4>2. CASE q # r
        BY <2>1, <2>2, <3>2, <4>2 DEF LinkInv, EventsInv
      <4> QED
        BY <4>1, <4>2
    <3> QED
      BY <3>1, <3>2 DEF EventsInv
  <2>5. RowFollowsLiveKit'
    BY <2>2 DEF LinkInv, RowFollowsLiveKit
  <2> QED
    BY <2>3, <2>4, <2>5 DEF LinkInv
<1>2. CASE lk[r] # "open"
  BY <1>2 DEF CloseLiveKit, LinkInv, CreationInv, EventsInv, RowFollowsLiveKit
<1> QED
  BY <1>1, <1>2

\* A DeleteRoom call closes the room or fails without effect.
LEMMA DeleteKeepsLink ==
  ASSUME NEW r \in Rooms, TypeOK, LinkInv, DeleteRoom(r), UNCHANGED row,
         \A q \in Rooms : creating'[q] = creating[q] \/ creating'[q] = "done"
  PROVE  LinkInv'
<1>1. CASE CloseLiveKit(r)
  BY <1>1, CloseKeepsLink
<1>2. CASE UNCHANGED <<lk, sent>>
  BY <1>2 DEF LinkInv, CreationInv, EventsInv, RowFollowsLiveKit
<1> QED
  BY <1>1, <1>2 DEF DeleteRoom

\* Each step keeps it; only creation, the events and the closing of a room can
\* disturb it.
LEMMA LinkNext == TypeOK /\ LinkInv /\ [Next]_vars => LinkInv'
<1> SUFFICES ASSUME TypeOK, LinkInv, [Next]_vars PROVE LinkInv'
  OBVIOUS
<1> USE DEF requestVars, webhookVars
<1>q. ASSUME UNCHANGED <<row, lk, creating, sent>> PROVE LinkInv'
  BY <1>q DEF LinkInv, CreationInv, EventsInv, RowFollowsLiveKit
<1>1. ASSUME NEW r \in Rooms, CreateOpen(r) PROVE LinkInv'
  <2>1. /\ creating[r] = "no" /\ lk[r] = "none" /\ row[r].status = "absent"
        /\ <<r, "room_finished">> \notin sent
        /\ row' = row
    BY <1>1 DEF CreateOpen, LinkInv, CreationInv, EventsInv
  <2>2. /\ \A q \in Rooms : q # r => creating'[q] = creating[q]
        /\ creating'[r] \in {"opened", "done"}
    BY <1>1 DEF CreateOpen, TypeOK
  <2>3. CASE OpenLiveKit(r)
    <3>1. /\ \A q \in Rooms : lk'[q] = IF q = r THEN "open" ELSE lk[q]
          /\ sent' = sent \union {<<r, "room_started">>}
      BY <2>3 DEF OpenLiveKit, TypeOK
    <3> QED
      BY <2>1, <2>2, <3>1 DEF LinkInv, CreationInv, EventsInv, RowFollowsLiveKit
  <2>4. CASE UNCHANGED <<lk, sent>> /\ creating'[r] = "done"
    BY <2>1, <2>2, <2>4 DEF LinkInv, CreationInv, EventsInv, RowFollowsLiveKit
  <2> QED
    BY <1>1, <2>3, <2>4 DEF CreateOpen, TypeOK
<1>2. ASSUME NEW r \in Rooms, CreateInsert(r) PROVE LinkInv'
  <2>1. UNCHANGED <<lk, sent>> /\ creating[r] = "opened" /\ row[r].status = "absent"
    BY <1>2 DEF CreateInsert, LinkInv, CreationInv
  <2>2. \A q \in Rooms : q # r => creating'[q] = creating[q] /\ row'[q] = row[q]
    BY <1>2 DEF CreateInsert, TypeOK
  <2>3. \/ creating'[r] = "done" /\ row'[r].status = "draft"
        \/ creating'[r] = "failed" /\ row'[r] = row[r]
    BY <1>2 DEF CreateInsert, TypeOK
  <2> QED
    BY <2>1, <2>2, <2>3 DEF LinkInv, CreationInv, EventsInv, RowFollowsLiveKit
<1>3. ASSUME NEW r \in Rooms, CreateCleanup(r) PROVE LinkInv'
  <2>1. \A q \in Rooms : creating'[q] = creating[q] \/ creating'[q] = "done"
    BY <1>3 DEF CreateCleanup, TypeOK
  <2> QED
    BY <1>3, <2>1, DeleteKeepsLink DEF CreateCleanup
<1>4. ASSUME NEW r \in Rooms, EmptyTimeout(r) PROVE LinkInv'
  BY <1>4, CloseKeepsLink DEF EmptyTimeout
<1>5. ASSUME NEW c \in calls, FinishEnd(c) PROVE LinkInv'
  <2>1. c.room \in Rooms
    BY DEF TypeOK, Call
  <2> QED
    BY <1>5, <2>1, DeleteKeepsLink DEF FinishEnd
<1>6. ASSUME NEW c \in calls, FinishExtend(c) PROVE LinkInv'
  <2>1. c.room \in Rooms
    BY DEF TypeOK, Call
  <2>2. \A q \in Rooms : row'[q].status = row[q].status /\ row'[q].started = row[q].started
    BY <1>6, <2>1 DEF FinishExtend, Extended, TypeOK
  <2> QED
    BY <1>6, <2>2 DEF FinishExtend, LinkInv, CreationInv, EventsInv, RowFollowsLiveKit
<1>7. ASSUME NEW e \in Events, Lose(e) PROVE LinkInv'
  BY <1>7 DEF Lose, LinkInv, CreationInv, EventsInv, RowFollowsLiveKit
<1>8. ASSUME NEW e \in Events, Dispatch(e) PROVE LinkInv'
  <2>1. PICK r \in Rooms, k \in EventKinds : e = <<r, k>>
    BY DEF Events
  <2>2. <<r, k>> \in sent /\ UNCHANGED <<lk, creating, sent>>
    BY <1>8, <2>1 DEF Dispatch, TypeOK
  <2>3. CASE k = "room_started" /\ row' = Started(r)
    <3>1. lk[r] # "none"
      BY <2>2, <2>3 DEF LinkInv, EventsInv
    <3> QED
      BY <2>2, <2>3, <3>1 DEF Started, TypeOK, LinkInv, CreationInv, EventsInv, RowFollowsLiveKit
  <2>4. CASE k = "room_finished" /\ row' = Finished(r)
    <3>1. lk[r] = "closed"
      BY <2>2, <2>4 DEF LinkInv, EventsInv
    <3> QED
      BY <2>2, <2>4, <3>1 DEF Finished, TypeOK, LinkInv, CreationInv, EventsInv, RowFollowsLiveKit
  <2>5. CASE UNCHANGED row
    BY <1>q, <2>2, <2>5
  <2> QED
    BY <1>8, <2>1, <2>3, <2>4, <2>5 DEF Dispatch, EventKinds
<1>9. CASE Crash
  <2>1. \A q \in Rooms : creating'[q] = creating[q] \/ creating'[q] = "done"
    BY <1>9 DEF Crash
  <2> QED
    BY <1>9, <2>1 DEF Crash, LinkInv, CreationInv, EventsInv, RowFollowsLiveKit
<1>10. CASE Request
  BY <1>1, <1>10, <1>q DEF Request, CheckToken, CheckEnd, CheckExtend
<1>11. CASE Service
  BY <1>2, <1>3, <1>5, <1>6, <1>11, <1>q DEF Service, MintToken
<1>12. CASE EnforcerStep
  BY <1>12, <1>q DEF EnforcerStep, EnforcerFetch, EnforcerNext, CheckEnd
<1>13. CASE Webhook
  BY <1>8, <1>13, <1>q DEF Webhook, Deliver
<1>14. CASE Tick \/ UNCHANGED vars
  BY <1>14, <1>q DEF Tick, vars
<1> QED
  BY <1>4, <1>7, <1>9, <1>10, <1>11, <1>12, <1>13, <1>14 DEF Next

\* The row is live only after LiveKit opened the room, and ended only after
\* LiveKit closed it: whatever fails, is lost, repeated or reordered between
\* the two.
THEOREM RowNeverAhead == Spec => []RowFollowsLiveKit
<1>1. Init => TypeOK /\ LinkInv
  BY TypeInit, LinkInit
<1>2. TypeOK /\ LinkInv /\ [Next]_vars => (TypeOK /\ LinkInv)'
  BY TypeNext, LinkNext
<1>3. TypeOK /\ LinkInv => RowFollowsLiveKit
  BY DEF LinkInv
<1> QED
  BY <1>1, <1>2, <1>3, PTL DEF Spec

-----------------------------------------------------------------------------
(* A status never goes back.                                               *)

\* A step of a room's life, seen from its row.
Advance ==
  \A r \in Rooms :
    /\ Rank[row[r].status] <= Rank[row'[r].status]
    /\ row[r].started => row'[r].started /\ age'[r] >= age[r]

\* A step that leaves the statuses, the started_at and the ages alone is one.
LEMMA StandingIsAdvance ==
  ASSUME TypeOK, UNCHANGED age,
         \A r \in Rooms : row'[r].status = row[r].status /\ row'[r].started = row[r].started
  PROVE  Advance
<1>1. \A r \in Rooms : row[r].status \in {"absent", "draft", "live", "ended"} /\ age[r] \in Nat
  BY SessionAssumption DEF TypeOK, Statuses
<1> QED
  BY <1>1 DEF Advance, Rank

\* The room's own insert finds no row, and a handler checks what it rewrites.
LEMMA AdvanceNext == TypeOK /\ LinkInv /\ [Next]_vars => Advance
<1> SUFFICES ASSUME TypeOK, LinkInv, [Next]_vars PROVE Advance
  OBVIOUS
<1> USE DEF requestVars, webhookVars
<1>t. \A r \in Rooms : row[r].status \in {"absent", "draft", "live", "ended"} /\ age[r] \in Nat
  BY SessionAssumption DEF TypeOK, Statuses
<1>q. ASSUME UNCHANGED <<row, age>> PROVE Advance
  BY <1>q, StandingIsAdvance
<1>1. ASSUME NEW r \in Rooms, CreateInsert(r) PROVE Advance
  <2>1. row[r].status = "absent"
    BY <1>1 DEF CreateInsert, LinkInv, CreationInv
  <2>2. CASE row' = [row EXCEPT ![r].status = "draft", ![r].duration = RowDefault]
    <3>1. \A q \in Rooms : q # r => row'[q] = row[q]
      BY <2>2 DEF TypeOK
    <3>2. row'[r].status = "draft" /\ row'[r].started = row[r].started
      BY <2>2 DEF TypeOK
    <3> QED
      BY <1>1, <1>t, <2>1, <3>1, <3>2 DEF CreateInsert, Advance, Rank
  <2>3. CASE UNCHANGED row
    BY <1>1, <1>q, <2>3 DEF CreateInsert
  <2> QED
    BY <1>1, <2>2, <2>3 DEF CreateInsert
<1>2. ASSUME NEW c \in calls, FinishExtend(c) PROVE Advance
  <2>1. c.room \in Rooms
    BY DEF TypeOK, Call
  <2>2. \A q \in Rooms : row'[q].status = row[q].status /\ row'[q].started = row[q].started
    BY <1>2, <2>1 DEF FinishExtend, Extended, TypeOK
  <2> QED
    BY <1>2, <2>2, StandingIsAdvance DEF FinishExtend
<1>3. ASSUME NEW e \in Events, Dispatch(e) PROVE Advance
  <2>1. e[1] \in Rooms /\ UNCHANGED age
    BY <1>3 DEF Events, Dispatch
  <2>2. CASE row' = Started(e[1])
    <3>1. \A q \in Rooms : \/ row'[q] = row[q]
                           \/ row[q].status = "draft" /\ row'[q].status = "live" /\ row'[q].started
      BY <2>1, <2>2 DEF Started, TypeOK
    <3> QED
      BY <1>t, <2>1, <3>1 DEF Advance, Rank
  <2>3. CASE row' = Finished(e[1])
    <3>1. \A q \in Rooms : \/ row'[q] = row[q]
                           \/ row'[q].status = "ended" /\ row'[q].started = row[q].started
      BY <2>1, <2>3 DEF Finished, TypeOK
    <3> QED
      BY <1>t, <2>1, <3>1 DEF Advance, Rank
  <2>4. CASE UNCHANGED row
    BY <1>q, <2>1, <2>4
  <2> QED
    BY <1>3, <2>2, <2>3, <2>4 DEF Dispatch
<1>4. CASE Tick
  <2>1. UNCHANGED row /\ \A r \in Rooms : age'[r] >= age[r]
    BY <1>4, <1>t DEF Tick
  <2> QED
    BY <1>t, <2>1 DEF Advance, Rank
<1>5. CASE Request
  BY <1>5, <1>q DEF Request, CreateOpen, CheckToken, CheckEnd, CheckExtend
<1>6. CASE Service
  BY <1>1, <1>2, <1>6, <1>q DEF Service, CreateCleanup, MintToken, FinishEnd
<1>7. CASE EnforcerStep
  BY <1>7, <1>q DEF EnforcerStep, EnforcerFetch, EnforcerNext, CheckEnd
<1>8. CASE Webhook
  BY <1>3, <1>8, <1>q DEF Webhook, Deliver
<1>9. ASSUME NEW r \in Rooms, EmptyTimeout(r) PROVE Advance
  BY <1>9, <1>q DEF EmptyTimeout
<1>10. ASSUME NEW e \in Events, Lose(e) PROVE Advance
  BY <1>10, <1>q DEF Lose
<1>11. CASE Crash \/ UNCHANGED vars
  BY <1>11, <1>q DEF Crash, vars
<1> QED
  BY <1>4, <1>5, <1>6, <1>7, <1>8, <1>9, <1>10, <1>11 DEF Next

\* No event, repeated or late, no racing request and no crash takes a room's
\* status back or its started_at away.
THEOREM StatusNeverBack == Spec => StatusAdvances
<1>1. Init => TypeOK /\ LinkInv
  BY TypeInit, LinkInit
<1>2. TypeOK /\ LinkInv /\ [Next]_vars => (TypeOK /\ LinkInv)'
  BY TypeNext, LinkNext
<1>3. TypeOK /\ LinkInv /\ [Next]_vars => [Advance]_vars
  BY AdvanceNext
<1>4. StatusAdvances <=> [][Advance]_vars
  BY PTL DEF StatusAdvances, Advance
<1> QED
  BY <1>1, <1>2, <1>3, <1>4, PTL DEF Spec

-----------------------------------------------------------------------------
(* A room without a row is somebody's: the request that creates it.         *)

\* A row, once inserted, is there for good.
LEMMA KnownStays ==
  ASSUME TypeOK, TypeOK', Advance, NEW r \in Rooms, Known(r)
  PROVE  Known(r)'
<1>1. /\ row[r].status \in {"draft", "live", "ended"}
      /\ row'[r].status \in {"absent", "draft", "live", "ended"}
  BY DEF TypeOK, Statuses, Known
<1>2. Rank[row[r].status] >= 1 /\ Rank["absent"] = 0
  BY <1>1 DEF Rank
<1>3. Rank[row[r].status] <= Rank[row'[r].status]
  BY DEF Advance
<1> QED
  BY <1>1, <1>2, <1>3 DEF Rank, Known

\* The failures of a behaviour are chosen at its start.
LEMMA FaultsStay == [Next]_vars => UNCHANGED faults
  BY DEF Next, vars, Request, CreateOpen, CheckToken, CheckEnd, CheckExtend, Service,
     CreateInsert, CreateCleanup, MintToken, FinishEnd, FinishExtend, EnforcerStep,
     EnforcerFetch, EnforcerNext, Webhook, Deliver, Dispatch, EmptyTimeout, Lose, Tick, Crash

\* Closing a room opens none.
LEMMA CloseOpensNone ==
  ASSUME TypeOK, NEW r \in Rooms, CloseLiveKit(r)
  PROVE  lk'[r] # "open" /\ \A q \in Rooms : lk'[q] = "open" => lk[q] = "open"
  BY DEF TypeOK, CloseLiveKit

\* And neither does a call that may fail.
LEMMA DeleteOpensNone ==
  ASSUME TypeOK, NEW r \in Rooms, DeleteRoom(r)
  PROVE  /\ \A q \in Rooms : lk'[q] = "open" => lk[q] = "open"
         /\ "livekit" \notin faults => lk'[r] # "open"
  BY CloseOpensNone DEF DeleteRoom

\* Only the creation opens a room, and without a failure it goes on until there
\* is a row or the room is closed.
LEMMA OrphanNext == TypeOK /\ LinkInv /\ NoOrphanRoom /\ [Next]_vars => NoOrphanRoom'
<1> SUFFICES ASSUME TypeOK, LinkInv, NoOrphanRoom, [Next]_vars,
                    faults' \intersect {"livekit", "crash"} = {},
                    NEW r \in Rooms, lk'[r] = "open", ~Known(r)'
             PROVE  creating'[r] \in {"opened", "failed"}
  BY DEF NoOrphanRoom
<1> USE DEF requestVars, webhookVars
<1>t. TypeOK' /\ Advance
  BY TypeNext, AdvanceNext
<1>k. ~Known(r)
  BY <1>t, KnownStays
<1>f. "livekit" \notin faults /\ "crash" \notin faults
  BY FaultsStay
<1>q. ASSUME lk[r] = "open", creating'[r] = creating[r] PROVE creating'[r] \in {"opened", "failed"}
  BY <1>k, <1>f, <1>q DEF NoOrphanRoom
<1>1. ASSUME NEW q \in Rooms, CreateOpen(q) PROVE creating'[r] \in {"opened", "failed"}
  <2>1. creating' = [creating EXCEPT ![q] = "opened"] /\ OpenLiveKit(q)
    BY <1>1, <1>f DEF CreateOpen
  <2>2. CASE r = q
    BY <2>1, <2>2 DEF TypeOK
  <2>3. CASE r # q
    BY <2>1, <2>3, <1>q DEF TypeOK, OpenLiveKit
  <2> QED
    BY <2>2, <2>3
<1>2. ASSUME NEW q \in Rooms, CreateInsert(q) PROVE creating'[r] \in {"opened", "failed"}
  <2>1. CASE r # q
    BY <1>2, <2>1, <1>q DEF TypeOK, CreateInsert
  <2>2. CASE r = q
    BY <1>2, <2>2 DEF TypeOK, CreateInsert, Known
  <2> QED
    BY <2>1, <2>2
<1>3. ASSUME NEW q \in Rooms, CreateCleanup(q) PROVE creating'[r] \in {"opened", "failed"}
  <2>1. DeleteRoom(q) /\ creating' = [creating EXCEPT ![q] = "done"]
    BY <1>3 DEF CreateCleanup
  <2>2. r # q /\ lk[r] = "open"
    BY <2>1, <1>f, DeleteOpensNone
  <2> QED
    BY <2>1, <2>2, <1>q DEF TypeOK
<1>4. ASSUME NEW q \in Rooms, EmptyTimeout(q) PROVE creating'[r] \in {"opened", "failed"}
  BY <1>4, <1>q, CloseOpensNone DEF EmptyTimeout
<1>5. ASSUME NEW c \in calls, FinishEnd(c) PROVE creating'[r] \in {"opened", "failed"}
  <2>1. c.room \in Rooms
    BY DEF TypeOK, Call
  <2> QED
    BY <1>5, <2>1, <1>q, DeleteOpensNone DEF FinishEnd
<1>6. CASE UNCHANGED <<lk, creating>>
  BY <1>6, <1>q
<1>7. CASE Crash
  BY <1>7, <1>f DEF Crash
<1>8. CASE Request
  BY <1>1, <1>6, <1>8 DEF Request, CheckToken, CheckEnd, CheckExtend
<1>9. CASE Service
  BY <1>2, <1>3, <1>5, <1>6, <1>9 DEF Service, MintToken, FinishExtend
<1>10. CASE EnforcerStep
  BY <1>10, <1>6 DEF EnforcerStep, EnforcerFetch, EnforcerNext, CheckEnd
<1>11. CASE Webhook
  BY <1>11, <1>6 DEF Webhook, Deliver, Dispatch
<1>12. ASSUME NEW e \in Events, Lose(e) PROVE creating'[r] \in {"opened", "failed"}
  BY <1>12, <1>6 DEF Lose
<1>13. CASE Tick \/ UNCHANGED vars
  BY <1>13, <1>6 DEF Tick, vars
<1> QED
  BY <1>4, <1>7, <1>8, <1>9, <1>10, <1>11, <1>12, <1>13 DEF Next

\* Unless LiveKit's answers are lost or the process dies, a LiveKit room that
\* has no row belongs to a request still at work on it.
THEOREM RoomsHaveOwners == Spec => []NoOrphanRoom
<1>1. Init => TypeOK /\ LinkInv /\ NoOrphanRoom
  BY TypeInit, LinkInit DEF Init, NoOrphanRoom
<1>2. TypeOK /\ LinkInv /\ NoOrphanRoom /\ [Next]_vars => (TypeOK /\ LinkInv /\ NoOrphanRoom)'
  BY TypeNext, LinkNext, OrphanNext
<1> QED
  BY <1>1, <1>2, PTL DEF Spec

-----------------------------------------------------------------------------
(* What one step may do to a row, the clocks and the requests, whichever    *)
(* action it is: the invariants below are proved from these.                *)

Inserted(r) ==
  /\ row[r].status = "absent"
  /\ row'[r] = [row[r] EXCEPT !.status = "draft", !.duration = RowDefault]

Begun(r) ==
  /\ row[r].status = "draft"
  /\ row'[r] = [row[r] EXCEPT !.status = "live", !.started = TRUE]

Over(r) ==
  /\ row[r].status # "absent"
  /\ row'[r] = [row[r] EXCEPT !.status = "ended"]

Prolonged(r) ==
  \E c \in calls :
    /\ c.op = "extend" /\ c.room = r /\ calls' = calls \ {c}
    /\ row'[r] = [row[r] EXCEPT !.extendUsed = TRUE, !.duration = row[r].duration + Extension]

\* A row stays as it is or makes one of four moves.
LEMMA RowMoves ==
  ASSUME TypeOK, LinkInv, [Next]_vars, NEW r \in Rooms
  PROVE  row'[r] = row[r] \/ Inserted(r) \/ Begun(r) \/ Over(r) \/ Prolonged(r)
<1> DEFINE Goal == row'[r] = row[r] \/ Inserted(r) \/ Begun(r) \/ Over(r) \/ Prolonged(r)
<1> SUFFICES Goal
  OBVIOUS
<1>q. ASSUME UNCHANGED row PROVE Goal
  BY <1>q
<1>1. ASSUME NEW q \in Rooms, CreateInsert(q) PROVE Goal
  <2>1. row[q].status = "absent"
    BY <1>1 DEF CreateInsert, LinkInv, CreationInv
  <2>2. CASE row' = [row EXCEPT ![q].status = "draft", ![q].duration = RowDefault]
    <3>1. CASE q = r
      BY <2>1, <2>2, <3>1 DEF Inserted, TypeOK
    <3>2. CASE q # r
      BY <2>2, <3>2 DEF TypeOK
    <3> QED
      BY <3>1, <3>2
  <2> QED
    BY <1>1, <2>2, <1>q DEF CreateInsert
<1>2. ASSUME NEW c \in calls, FinishExtend(c) PROVE Goal
  <2>1. c.room \in Rooms /\ row' = Extended(c.room) /\ c.op = "extend" /\ calls' = calls \ {c}
    BY <1>2 DEF TypeOK, Call, FinishExtend
  <2>2. CASE c.room = r
    BY <2>1, <2>2 DEF Extended, Prolonged, TypeOK
  <2>3. CASE c.room # r
    BY <2>1, <2>3 DEF Extended, TypeOK
  <2> QED
    BY <2>2, <2>3
<1>3. ASSUME NEW e \in Events, Dispatch(e) PROVE Goal
  <2>1. e[1] \in Rooms
    BY DEF Events
  <2>2. CASE row' = Started(e[1])
    BY <2>1, <2>2 DEF Started, Begun, TypeOK
  <2>3. CASE row' = Finished(e[1])
    BY <2>1, <2>3 DEF Finished, Over, TypeOK
  <2> QED
    BY <1>3, <2>2, <2>3, <1>q DEF Dispatch
<1> HIDE DEF Goal
<1>4. CASE Request
  BY <1>4, <1>q DEF Request, CreateOpen, CheckToken, CheckEnd, CheckExtend
<1>5. CASE Service
  BY <1>1, <1>2, <1>5, <1>q DEF Service, CreateCleanup, MintToken, FinishEnd
<1>6. CASE EnforcerStep
  BY <1>6, <1>q DEF EnforcerStep, EnforcerFetch, EnforcerNext, CheckEnd
<1>7. CASE Webhook
  BY <1>3, <1>7, <1>q DEF Webhook, Deliver
<1>8. CASE Tick \/ Crash \/ UNCHANGED vars
  BY <1>8, <1>q DEF Tick, Crash, vars
<1>9. ASSUME NEW q \in Rooms, EmptyTimeout(q) PROVE Goal
  BY <1>9, <1>q DEF EmptyTimeout
<1>10. ASSUME NEW e \in Events, Lose(e) PROVE Goal
  BY <1>10, <1>q DEF Lose
<1> QED
  BY <1>4, <1>5, <1>6, <1>7, <1>8, <1>9, <1>10 DEF Next

\* A request is made by who is free, on a row it has just read.
NewCall(c) ==
  /\ ~Busy(c.who)
  /\ calls' = calls \union {c}
  /\ ~c.late /\ UNCHANGED <<row, age>>
  /\ row[c.room].status \in {"draft", "live"}
  /\ \/ c.who \in Callers /\ UNCHANGED expired
     \/ c.who = Enforcer /\ c.op = "end" /\ c.room \in expired
  /\ c.op = "join_draft" => row[c.room].status = "draft"
  /\ c.op = "extend" => ~row[c.room].extendUsed

\* Requests come one at a time, and between two minutes they only leave.
LEMMA CallMoves ==
  ASSUME TypeOK, [Next]_vars
  PROVE  \/ Tick
         \/ calls' \in SUBSET calls
         \/ \E c \in Call : NewCall(c)
<1> DEFINE Goal == calls' \in SUBSET calls \/ \E c \in Call : NewCall(c)
<1> SUFFICES ASSUME ~Tick PROVE Goal
  OBVIOUS
<1> USE DEF requestVars, webhookVars
<1>q. ASSUME calls' \in SUBSET calls PROVE Goal
  BY <1>q
<1>1. ASSUME NEW who \in Callers, NEW r \in Rooms, CheckEnd(who, r), UNCHANGED expired PROVE Goal
  <2> DEFINE c == [who |-> who, op |-> "end", room |-> r, late |-> FALSE]
  <2>1. c \in Call
    BY NewCallIsCall
  <2>2. NewCall(c)
    BY <1>1 DEF NewCall, CheckEnd
  <2> QED
    BY <2>1, <2>2
<1>2. ASSUME NEW who \in Callers, NEW r \in Rooms, CheckExtend(who, r) PROVE Goal
  <2> DEFINE c == [who |-> who, op |-> "extend", room |-> r, late |-> FALSE]
  <2>1. c \in Call
    BY NewCallIsCall
  <2>2. NewCall(c)
    BY <1>2 DEF NewCall, CheckExtend
  <2> QED
    BY <2>1, <2>2
<1>3. ASSUME NEW who \in Callers, NEW r \in Rooms, CheckToken(who, r) PROVE Goal
  <2> DEFINE op == IF row[r].status = "live" THEN "join_live" ELSE "join_draft"
             c == [who |-> who, op |-> op, room |-> r, late |-> FALSE]
  <2>1. c \in Call
    BY NewCallIsCall
  <2>2. NewCall(c)
    BY <1>3 DEF NewCall, CheckToken
  <2> QED
    BY <2>1, <2>2
<1>4. ASSUME NEW r \in Rooms, EnforcerNext(r) PROVE Goal
  <2> DEFINE c == [who |-> Enforcer, op |-> "end", room |-> r, late |-> FALSE]
  <2>1. CASE CheckEnd(Enforcer, r)
    <3>1. c \in Call
      BY NewCallIsCall
    <3>2. NewCall(c)
      BY <1>4, <2>1 DEF NewCall, CheckEnd, EnforcerNext
    <3> QED
      BY <3>1, <3>2
  <2>2. CASE UNCHANGED calls
    BY <2>2, <1>q
  <2> QED
    BY <1>4, <2>1, <2>2 DEF EnforcerNext
<1> HIDE DEF Goal
<1>5. CASE Request
  BY <1>1, <1>2, <1>3, <1>5, <1>q DEF Request, CreateOpen
<1>6. CASE Service
  BY <1>6, <1>q DEF Service, CreateInsert, CreateCleanup, MintToken, FinishEnd, FinishExtend
<1>7. CASE EnforcerStep
  BY <1>4, <1>7, <1>q DEF EnforcerStep, EnforcerFetch
<1>8. CASE Webhook
  BY <1>8, <1>q DEF Webhook, Deliver, Dispatch
<1>9. CASE Crash \/ UNCHANGED vars
  BY <1>9, <1>q DEF Crash, vars
<1>10. ASSUME NEW r \in Rooms, EmptyTimeout(r) PROVE Goal
  BY <1>10, <1>q DEF EmptyTimeout
<1>11. ASSUME NEW e \in Events, Lose(e) PROVE Goal
  BY <1>11, <1>q DEF Lose
<1> QED
  BY <1>5, <1>6, <1>7, <1>8, <1>9, <1>10, <1>11 DEF Next

\* Only a minute moves the clocks, only a request mints a token, and only the
\* enforcer's query lengthens its list.
LEMMA ClockMoves ==
  ASSUME TypeOK, [Next]_vars
  PROVE  /\ Tick \/ UNCHANGED age
         /\ Tick \/ UNCHANGED token \/ \E c \in calls : MintToken(c)
         /\ expired' \in SUBSET expired \/ EnforcerFetch
<1> USE DEF requestVars, webhookVars
<1>1. Tick \/ UNCHANGED age
  BY DEF Next, vars, Request, CreateOpen, CheckToken, CheckEnd, CheckExtend, Service,
     CreateInsert, CreateCleanup, MintToken, FinishEnd, FinishExtend, EnforcerStep,
     EnforcerFetch, EnforcerNext, Webhook, Deliver, Dispatch, EmptyTimeout, Lose, Crash
<1>2. Tick \/ UNCHANGED token \/ \E c \in calls : MintToken(c)
  BY DEF Next, vars, Request, CreateOpen, CheckToken, CheckEnd, CheckExtend, Service,
     CreateInsert, CreateCleanup, FinishEnd, FinishExtend, EnforcerStep,
     EnforcerFetch, EnforcerNext, Webhook, Deliver, Dispatch, EmptyTimeout, Lose, Crash
<1>3. expired' \in SUBSET expired \/ EnforcerFetch
  BY DEF Next, vars, Request, CreateOpen, CheckToken, CheckExtend, Service,
     CreateInsert, CreateCleanup, MintToken, FinishEnd, FinishExtend, EnforcerStep,
     EnforcerNext, Webhook, Deliver, Dispatch, EmptyTimeout, Lose, Tick, Crash
<1> QED
  BY <1>1, <1>2, <1>3

-----------------------------------------------------------------------------
(* A room and its clock.                                                   *)

Running(r) == row[r].started /\ age[r] >= RowDefault

\* A row has at least the schema's window, a room that has not started is of
\* age zero, and a request works on a row there is: one that read a draft is at
\* most a minute behind.
WindowInv ==
  \A r \in Rooms :
    /\ Known(r) => row[r].duration >= RowDefault
    /\ row[r].status \in {"absent", "draft"} => ~row[r].started
    /\ ~row[r].started => age[r] = 0

CallsInv ==
  \A c \in calls :
    /\ Known(c.room)
    /\ c.op = "join_draft" => age[c.room] <= (IF c.late THEN 1 ELSE 0)

\* What the enforcer is about to end has run for the unextended window.
EnforcerInv ==
  /\ \A r \in expired : Running(r)
  /\ \A c \in calls : c.who = Enforcer => c.op = "end" /\ Running(c.room)

\* A row keeps its window.
LEMMA WindowNext == TypeOK /\ LinkInv /\ WindowInv /\ [Next]_vars => WindowInv'
<1> SUFFICES ASSUME TypeOK, LinkInv, WindowInv, [Next]_vars, NEW r \in Rooms
             PROVE  /\ Known(r)' => row'[r].duration >= RowDefault
                    /\ row'[r].status \in {"absent", "draft"} => ~row'[r].started
                    /\ ~row'[r].started => age'[r] = 0
  BY DEF WindowInv
<1>1. row'[r] = row[r] \/ Inserted(r) \/ Begun(r) \/ Over(r) \/ Prolonged(r)
  BY RowMoves
<1>2. /\ row[r] \in [status : Statuses, started : BOOLEAN, duration : Nat, extendUsed : BOOLEAN]
      /\ Known(r) => row[r].duration >= RowDefault
      /\ row[r].status \in {"absent", "draft"} => ~row[r].started
      /\ ~row[r].started => age[r] = 0
      /\ RowDefault \in Nat /\ Extension \in Nat
  BY SessionAssumption, ExtensionIsNat DEF TypeOK, WindowInv
<1>3. CASE UNCHANGED age
  <2>1. CASE row'[r] = row[r]
    BY <1>2, <1>3, <2>1 DEF Known
  <2>2. CASE Inserted(r)
    BY <1>2, <1>3, <2>2 DEF Known, Inserted
  <2>3. CASE Begun(r)
    BY <1>2, <1>3, <2>3 DEF Known, Begun
  <2>4. CASE Over(r)
    BY <1>2, <1>3, <2>4 DEF Known, Over
  <2>5. CASE Prolonged(r)
    BY <1>2, <1>3, <2>5 DEF Known, Prolonged
  <2> QED
    BY <1>1, <2>1, <2>2, <2>3, <2>4, <2>5
<1>4. CASE Tick
  BY <1>2, <1>4 DEF Tick, Known
<1> QED
  BY <1>3, <1>4, ClockMoves

\* And requests keep behind it.
LEMMA CallsNext == TypeOK /\ LinkInv /\ WindowInv /\ CallsInv /\ [Next]_vars => CallsInv'
<1> SUFFICES ASSUME TypeOK, LinkInv, WindowInv, CallsInv, [Next]_vars PROVE CallsInv'
  OBVIOUS
<1>t. TypeOK' /\ Advance
  BY TypeNext, AdvanceNext
<1>c. \A c \in calls : c \in Call /\ c.room \in Rooms /\ age[c.room] \in Nat
  BY SessionAssumption DEF TypeOK, Call
<1>1. CASE UNCHANGED age /\ calls' \in SUBSET calls
  BY <1>1, <1>c, <1>t, KnownStays DEF CallsInv
<1>2. CASE Tick
  <2> SUFFICES ASSUME NEW d \in calls'
               PROVE  Known(d.room)' /\ (d.op = "join_draft" => age'[d.room] <= (IF d.late THEN 1 ELSE 0))
    BY DEF CallsInv
  <2>1. PICK c \in calls : d = [c EXCEPT !.late = Joining(c)]
    BY <1>2 DEF Tick
  <2>2. /\ d.room = c.room /\ d.op = c.op /\ d.late = Joining(c)
        /\ ~c.late
    BY <1>2, <1>c, <2>1 DEF Tick, Call
  <2>3. Known(d.room)'
    BY <1>c, <1>t, <2>2, KnownStays DEF CallsInv
  <2>4. ASSUME d.op = "join_draft" PROVE age'[d.room] <= (IF d.late THEN 1 ELSE 0)
    <3>0. age[c.room] <= (IF c.late THEN 1 ELSE 0)
      BY <2>2, <2>4 DEF CallsInv
    <3>1. age[c.room] = 0
      <4>1. (IF c.late THEN 1 ELSE 0) = 0
        BY <2>2
      <4> QED
        BY <1>c, <3>0, <4>1
    <3>2. age'[c.room] <= 1
      BY <1>2, <1>c, <3>1 DEF Tick
    <3> QED
      BY <2>2, <2>4, <3>2 DEF Joining
  <2> QED
    BY <2>3, <2>4
<1>3. CASE UNCHANGED age /\ \E c \in Call : NewCall(c)
  <2>1. PICK c \in Call : NewCall(c)
    BY <1>3
  <2>2. c.room \in Rooms /\ row[c.room].status \in {"draft", "live"}
    BY <2>1 DEF NewCall, Call
  <2>3. Known(c.room)' /\ (c.op = "join_draft" => age'[c.room] <= 0)
    BY <2>1, <2>2 DEF NewCall, Known, WindowInv
  <2>4. \A d \in calls' : d = c \/ d \in calls
    BY <2>1 DEF NewCall
  <2>5. UNCHANGED <<row, age>>
    BY <2>1 DEF NewCall
  <2> QED
    BY <2>1, <2>3, <2>4, <2>5 DEF CallsInv, NewCall, Known
<1> QED
  BY <1>1, <1>2, <1>3, CallMoves, ClockMoves

\* A room that runs goes on running.
LEMMA RunningStays ==
  ASSUME TypeOK, TypeOK', Advance, NEW r \in Rooms, Running(r)
  PROVE  Running(r)'
<1>1. age[r] \in Nat /\ age'[r] \in Nat /\ RowDefault \in Nat
  BY SessionAssumption DEF TypeOK
<1> QED
  BY <1>1 DEF Advance, Running

\* The enforcer's query only finds rooms past a window, and its calls follow
\* its list.
LEMMA EnforcerInvNext ==
  TypeOK /\ LinkInv /\ WindowInv /\ EnforcerInv /\ [Next]_vars => EnforcerInv'
<1> SUFFICES ASSUME TypeOK, LinkInv, WindowInv, EnforcerInv, [Next]_vars PROVE EnforcerInv'
  OBVIOUS
<1>t. TypeOK' /\ Advance
  BY TypeNext, AdvanceNext
<1>c. (\A c \in calls : c \in Call /\ c.room \in Rooms) /\ expired \in SUBSET Rooms
  BY DEF TypeOK, Call
<1>1. \A r \in expired : Running(r)'
  BY <1>c, <1>t, RunningStays DEF EnforcerInv
<1>2. \A r \in expired' : Running(r)'
  <2>1. CASE EnforcerFetch
    <3> SUFFICES ASSUME NEW r \in Rooms, Expired(r) PROVE Running(r)'
      BY <2>1 DEF EnforcerFetch
    <3>1. row[r].started /\ row[r].duration >= RowDefault
      BY DEF Expired, LinkInv, RowFollowsLiveKit, WindowInv, Known
    <3>2. age[r] \in Nat /\ row[r].duration \in Nat /\ RowDefault \in Nat
      BY SessionAssumption DEF TypeOK
    <3>3. Running(r)
      BY <3>1, <3>2 DEF Expired, Running
    <3> QED
      BY <1>t, <3>3, RunningStays
  <2> QED
    BY <1>1, <2>1, ClockMoves
<1>3. ASSUME NEW c \in calls, c.who = Enforcer PROVE c.op = "end" /\ Running(c.room)'
  BY <1>c, <1>t, <1>3, RunningStays DEF EnforcerInv
<1>4. ASSUME NEW c \in calls', c.who = Enforcer PROVE c.op = "end" /\ Running(c.room)'
  <2>1. CASE Tick
    <3>1. PICK d \in calls : c = [d EXCEPT !.late = Joining(d)]
      BY <2>1 DEF Tick
    <3>2. c.who = d.who /\ c.op = d.op /\ c.room = d.room
      BY <1>c, <3>1 DEF Call
    <3> QED
      BY <1>3, <1>4, <3>2
  <2>2. CASE calls' \in SUBSET calls
    BY <1>3, <1>4, <2>2
  <2>3. ASSUME NEW n \in Call, NewCall(n) PROVE c.op = "end" /\ Running(c.room)'
    <3>1. CASE c \in calls
      BY <1>3, <1>4, <3>1
    <3>2. CASE c \notin calls
      <4>1. c = n
        BY <2>3, <3>2 DEF NewCall
      <4> QED
        BY <1>1, <1>4, <2>3, <4>1, EnforcerAssumption DEF NewCall
    <3> QED
      BY <3>1, <3>2
  <2> QED
    BY <2>1, <2>2, <2>3, CallMoves
<1> QED
  BY <1>2, <1>4 DEF EnforcerInv

\* They hold before the first room.
LEMMA SessionInit == Init => WindowInv /\ CallsInv /\ EnforcerInv
  BY DEF Init, WindowInv, CallsInv, EnforcerInv, Known

\* An ending by the enforcer in this step, of a room that has run its window.
NotEarly == \A r \in Rooms : EnforcerEnds(r) => row[r].started /\ age[r] >= RowDefault

\* However old its list is when it acts, and whatever was extended, lost or
\* restarted in between, the enforcer ends no room before its unextended window.
THEOREM EnforcerWaits == Spec => EnforcerNotEarly
<1>1. Init => TypeOK /\ LinkInv /\ WindowInv /\ EnforcerInv
  BY TypeInit, LinkInit, SessionInit
<1>2. TypeOK /\ LinkInv /\ WindowInv /\ EnforcerInv /\ [Next]_vars
        => (TypeOK /\ LinkInv /\ WindowInv /\ EnforcerInv)'
  BY TypeNext, LinkNext, WindowNext, EnforcerInvNext
<1>3. TypeOK /\ LinkInv /\ WindowInv /\ EnforcerInv => NotEarly
  BY DEF NotEarly, EnforcerEnds, EnforcerInv, Running
<1>4. TypeOK /\ LinkInv /\ WindowInv /\ EnforcerInv /\ [Next]_vars => [NotEarly]_vars
  BY <1>3
<1>5. EnforcerNotEarly <=> [][NotEarly]_vars
  BY PTL DEF EnforcerNotEarly, NotEarly
<1> QED
  BY <1>1, <1>2, <1>4, <1>5, PTL DEF Spec

-----------------------------------------------------------------------------
(* Tokens.                                                                 *)

\* What is left of a room's own window.
Left(r) == IF age[r] <= row[r].duration THEN row[r].duration - age[r] ELSE 0

\* Nobody has a token for a room without a row; a draft's outlast a whole
\* session by the buffer at most, a live room's are the property.
TokenInv ==
  \A r \in Rooms :
    /\ ~Known(r) => token[r] = 0
    /\ row[r].status = "draft" => token[r] <= TokenBuffer + SessionMins
    /\ row[r].status = "live" => token[r] <= TokenBuffer + 1 + Left(r)

\* A new token keeps to the bound when the configured session is no longer than
\* the row's, whatever happened since its request read the row.
LEMMA MintBounded ==
  ASSUME SessionMins <= RowDefault, TypeOK, LinkInv, WindowInv, CallsInv, NEW c \in calls, Joining(c),
         c.op = "join_live" => ~TokenRefusedAsExpired(c.room)
  PROVE  /\ Known(c.room)
         /\ row[c.room].status = "draft" => TokenTTL(c) <= TokenBuffer + SessionMins
         /\ row[c.room].status = "live" => TokenTTL(c) <= TokenBuffer + 1 + Left(c.room)
<1> DEFINE r == c.room
<1>1. /\ r \in Rooms /\ c.op \in {"join_draft", "join_live"} /\ c.late \in BOOLEAN
      /\ age[r] \in Nat /\ row[r].duration \in Nat
      /\ SessionMins \in Nat /\ RowDefault \in Nat \ {0} /\ TokenBuffer \in Nat
  BY SessionAssumption DEF TypeOK, Call, Joining
<1>2. Known(r) /\ row[r].duration >= RowDefault
  BY <1>1 DEF CallsInv, WindowInv
<1>3. c.op = "join_draft" => age[r] <= 1
  <2>1. (IF c.late THEN 1 ELSE 0) <= 1 /\ (IF c.late THEN 1 ELSE 0) \in Nat
    OBVIOUS
  <2> QED
    BY <1>1, <2>1 DEF CallsInv
<1>4. c.op = "join_live" => age[r] < SessionMins /\ TokenTTL(c) = SessionMins - age[r] + TokenBuffer
  BY <1>1 DEF TokenRefusedAsExpired, TokenTTL, Remaining
<1>5. c.op = "join_draft" => TokenTTL(c) = SessionMins + TokenBuffer
  BY DEF TokenTTL
<1>6. TokenTTL(c) <= TokenBuffer + SessionMins
  BY <1>1, <1>4, <1>5
<1>7. TokenTTL(c) <= TokenBuffer + 1 + Left(r)
  BY <1>1, <1>2, <1>3, <1>4, <1>5 DEF Left
<1> QED
  BY <1>2, <1>6, <1>7

\* The bound on a room's tokens holds through a step.
LEMMA TokenNext ==
  ASSUME SessionMins <= RowDefault
  PROVE  TypeOK /\ LinkInv /\ WindowInv /\ CallsInv /\ TokenInv /\ [Next]_vars => TokenInv'
<1> SUFFICES ASSUME TypeOK, LinkInv, WindowInv, CallsInv, TokenInv, [Next]_vars, NEW r \in Rooms
             PROVE  /\ ~Known(r)' => token'[r] = 0
                    /\ row'[r].status = "draft" => token'[r] <= TokenBuffer + SessionMins
                    /\ row'[r].status = "live" => token'[r] <= TokenBuffer + 1 + Left(r)'
  BY DEF TokenInv
<1>0. /\ row[r] \in [status : Statuses, started : BOOLEAN, duration : Nat, extendUsed : BOOLEAN]
      /\ age[r] \in Nat /\ token[r] \in Nat /\ Extension \in Nat
      /\ SessionMins \in Nat /\ RowDefault \in Nat \ {0} /\ TokenBuffer \in Nat /\ AgeCap \in Nat
  BY SessionAssumption, ExtensionIsNat DEF TypeOK
<1>i. /\ ~Known(r) => token[r] = 0
      /\ row[r].status = "draft" => token[r] <= TokenBuffer + SessionMins
      /\ row[r].status = "live" => token[r] <= TokenBuffer + 1 + Left(r)
      /\ Known(r) => row[r].duration >= RowDefault
      /\ row[r].status \in {"absent", "draft"} => age[r] = 0
  BY DEF TokenInv, WindowInv
<1>1. CASE Tick
  <2>1. /\ row'[r] = row[r]
        /\ age'[r] = IF row[r].started /\ age[r] < AgeCap THEN age[r] + 1 ELSE age[r]
        /\ token'[r] = IF token[r] = 0 THEN 0 ELSE token[r] - 1
    BY <1>1 DEF Tick, Monus1
  <2>2. Left(r) \in Nat /\ Left(r)' \in Nat /\ Left(r)' + 1 >= Left(r)
    BY <1>0, <2>1 DEF Left
  <2> QED
    BY <1>0, <1>i, <2>1, <2>2 DEF Known
<1>2. ASSUME NEW c \in calls, MintToken(c), UNCHANGED token \/ c.room # r
      PROVE  UNCHANGED <<row, age>> /\ token'[r] = token[r]
  BY <1>2 DEF MintToken, TypeOK
<1>3. ASSUME NEW c \in calls, MintToken(c), c.room = r, ~UNCHANGED token
      PROVE  /\ Known(r) /\ UNCHANGED <<row, age>>
             /\ row[r].status = "draft" => token'[r] <= TokenBuffer + SessionMins
             /\ row[r].status = "live" => token'[r] <= TokenBuffer + 1 + Left(r)
  <2>1. /\ Joining(c) /\ (c.op = "join_live" => ~TokenRefusedAsExpired(c.room))
        /\ token'[r] = token[r] \/ token'[r] = TokenTTL(c)
        /\ UNCHANGED <<row, age>>
    BY <1>3 DEF MintToken, TypeOK
  <2>2. /\ Known(r)
        /\ row[r].status = "draft" => TokenTTL(c) <= TokenBuffer + SessionMins
        /\ row[r].status = "live" => TokenTTL(c) <= TokenBuffer + 1 + Left(r)
    BY <1>3, <2>1, MintBounded
  <2> QED
    BY <1>i, <2>1, <2>2
<1>4. ASSUME UNCHANGED age, token'[r] = token[r]
      PROVE  /\ ~Known(r)' => token'[r] = 0
             /\ row'[r].status = "draft" => token'[r] <= TokenBuffer + SessionMins
             /\ row'[r].status = "live" => token'[r] <= TokenBuffer + 1 + Left(r)'
  <2>1. CASE row'[r] = row[r]
    BY <1>4, <1>i, <2>1 DEF Known, Left
  <2>2. CASE Inserted(r)
    BY <1>0, <1>4, <1>i, <2>2 DEF Known, Inserted
  <2>3. CASE Begun(r)
    <3>1. /\ row'[r].status = "live" /\ row'[r].duration = row[r].duration /\ age'[r] = 0
          /\ token[r] <= TokenBuffer + SessionMins /\ row[r].duration >= RowDefault
      BY <1>0, <1>4, <1>i, <2>3 DEF Known, Begun
    <3>2. Left(r)' = row[r].duration
      BY <1>0, <3>1 DEF Left
    <3> QED
      BY <1>0, <1>4, <3>1, <3>2 DEF Known
  <2>4. CASE Over(r)
    BY <1>0, <2>4 DEF Known, Over
  <2>5. CASE Prolonged(r)
    <3>1. row'[r].status = row[r].status /\ row'[r].duration = row[r].duration + Extension
      BY <1>0, <2>5 DEF Prolonged
    <3>2. Left(r) \in Nat /\ Left(r)' \in Nat /\ Left(r)' >= Left(r)
      BY <1>0, <1>4, <3>1 DEF Left
    <3> QED
      BY <1>0, <1>4, <1>i, <3>1, <3>2 DEF Known
  <2> QED
    BY <2>1, <2>2, <2>3, <2>4, <2>5, RowMoves
<1>5. ASSUME NEW c \in calls, MintToken(c)
      PROVE  /\ ~Known(r)' => token'[r] = 0
             /\ row'[r].status = "draft" => token'[r] <= TokenBuffer + SessionMins
             /\ row'[r].status = "live" => token'[r] <= TokenBuffer + 1 + Left(r)'
  <2>1. CASE UNCHANGED token \/ c.room # r
    BY <1>2, <1>4, <1>5, <2>1
  <2>2. CASE ~UNCHANGED token /\ c.room = r
    BY <1>3, <1>5, <2>2 DEF Known, Left
  <2> QED
    BY <2>1, <2>2
<1> QED
  BY <1>1, <1>4, <1>5, ClockMoves

\* No token of a live room outlasts the room's own window by more than the
\* buffer and the minute its request took, as long as the configured session is
\* no longer than the schema's default.
THEOREM TokensKeepToSession ==
  ASSUME SessionMins <= RowDefault
  PROVE  Spec => []TokenWithinSession
<1> DEFINE Inv == TypeOK /\ LinkInv /\ WindowInv /\ CallsInv /\ TokenInv
<1>1. Init => Inv
  <2>1. Init => TokenInv
    BY SessionAssumption DEF Init, TokenInv, Known
  <2> QED
    BY <2>1, TypeInit, LinkInit, SessionInit
<1>2. Inv /\ [Next]_vars => Inv'
  BY TypeNext, LinkNext, WindowNext, CallsNext, TokenNext
<1>3. Inv => TokenWithinSession
  BY DEF TokenInv, TokenWithinSession, Left
<1> QED
  BY <1>1, <1>2, <1>3, PTL DEF Spec

-----------------------------------------------------------------------------
(* Extensions.  Every extension that is still to be written was checked     *)
(* before the first was, so that each is a different caller's.              *)

Pending(r) == {c \in calls : c.op = "extend" /\ c.room = r}

\* Who made a request makes no other until that one is over.
CallersInv ==
  /\ \A c, d \in calls : c.who = d.who => c = d
  /\ \A c \in calls : c.op = "extend" => c.who \in Callers

\* An extended row has room left for the extensions that are still to come.
PaidInv ==
  \A r \in Rooms :
    /\ row[r].extendUsed => /\ Known(r) /\ row[r].duration > RowDefault
                            /\ row[r].duration + Extension * Cardinality(Pending(r)) <= MaxDuration
    /\ Known(r) /\ ~row[r].extendUsed => row[r].duration = RowDefault

\* Products of numbers: one factor less, and a smaller factor.
LEMMA TimesStep ==
  ASSUME NEW e \in Nat, NEW n \in Nat \ {0}
  PROVE  e * n = e + e * (n - 1) /\ e * (n - 1) \in Nat
  OBVIOUS

LEMMA TimesMonotone ==
  ASSUME NEW e \in Nat, NEW m \in Nat, NEW n \in Nat, m <= n
  PROVE  e * m \in Nat /\ e * m <= e * n
<1>1. n = m + (n - m) /\ n - m \in Nat
  OBVIOUS
<1>2. e * n = e * m + e * (n - m) /\ e * (n - m) \in Nat /\ e * m \in Nat
  BY <1>1
<1> QED
  BY <1>2

\* A step keeps requests apart.
LEMMA CallersNext == TypeOK /\ EnforcerInv /\ CallersInv /\ [Next]_vars => CallersInv'
<1> SUFFICES ASSUME TypeOK, EnforcerInv, CallersInv, [Next]_vars PROVE CallersInv'
  OBVIOUS
<1>1. CASE calls' \in SUBSET calls
  BY <1>1 DEF CallersInv
<1>2. CASE Tick
  <2>1. ASSUME NEW c \in calls' PROVE \E d \in calls : c = [d EXCEPT !.late = Joining(d)] /\ c.who = d.who /\ c.op = d.op
    BY <1>2, <2>1 DEF Tick, TypeOK, Call
  <2> QED
    BY <2>1 DEF CallersInv
<1>3. ASSUME NEW n \in Call, NewCall(n) PROVE CallersInv'
  <2>1. calls' = calls \union {n} /\ \A d \in calls : d.who # n.who
    BY <1>3 DEF NewCall, Busy
  <2>2. n.op = "extend" => n.who \in Callers
    BY <1>3 DEF NewCall
  <2> QED
    BY <2>1, <2>2 DEF CallersInv
<1> QED
  BY <1>1, <1>2, <1>3, CallMoves

\* At most every caller has an extension to come.
LEMMA PendingBounded ==
  ASSUME IsFiniteSet(Callers), CallersInv, NEW r
  PROVE  /\ IsFiniteSet(Pending(r))
         /\ Cardinality(Pending(r)) \in Nat /\ Cardinality(Callers) \in Nat
         /\ Cardinality(Pending(r)) <= Cardinality(Callers)
<1> DEFINE f == [c \in Pending(r) |-> c.who]
<1>1. f \in Injection(Pending(r), Callers)
  BY DEF Injection, IsInjective, Pending, CallersInv
<1> HIDE DEF f
<1>2. IsFiniteSet(Pending(r)) /\ Cardinality(Pending(r)) <= Cardinality(Callers)
  BY <1>1, FS_Injection
<1> QED
  BY <1>2, FS_CardinalityType

\* And a step that writes none keeps what is paid.
LEMMA PaidStands ==
  ASSUME IsFiniteSet(Callers), TypeOK, CallersInv, PaidInv, NEW r \in Rooms,
         Pending(r)' \in SUBSET Pending(r), Known(r), Known(r)',
         row'[r].duration = row[r].duration, row'[r].extendUsed = row[r].extendUsed
  PROVE  /\ row'[r].extendUsed =>
              /\ Known(r)' /\ row'[r].duration > RowDefault
              /\ row'[r].duration + Extension * Cardinality(Pending(r)') <= MaxDuration
         /\ Known(r)' /\ ~row'[r].extendUsed => row'[r].duration = RowDefault
<1>1. IsFiniteSet(Pending(r)) /\ Cardinality(Pending(r)) \in Nat /\ Cardinality(Callers) \in Nat
  BY PendingBounded
<1>2. /\ IsFiniteSet(Pending(r)') /\ Cardinality(Pending(r)') \in Nat
      /\ Cardinality(Pending(r)') <= Cardinality(Pending(r))
  BY <1>1, FS_Subset, FS_CardinalityType
<1>3. Extension * Cardinality(Pending(r)') <= Extension * Cardinality(Pending(r))
  BY <1>1, <1>2, ExtensionIsNat, TimesMonotone
<1>4. /\ Extension * Cardinality(Pending(r)') \in Nat /\ Extension * Cardinality(Pending(r)) \in Nat
      /\ row[r].duration \in Nat
      /\ MaxDuration \in Nat
  <2>1. Extension * Cardinality(Callers) \in Nat
    BY <1>1, ExtensionIsNat, TimesMonotone
  <2> QED
    BY <1>1, <1>2, <2>1, ExtensionIsNat, TimesMonotone, SessionAssumption DEF TypeOK, MaxDuration
<1> QED
  BY <1>3, <1>4 DEF PaidInv

\* An extension is written: its own share goes from those to come to the row.
LEMMA ProlongedIsPaid ==
  ASSUME IsFiniteSet(Callers), SessionMins >= 2, TypeOK, CallsInv, CallersInv, PaidInv,
         NEW r \in Rooms, Prolonged(r)
  PROVE  /\ Known(r)' /\ row'[r].extendUsed /\ row'[r].duration > RowDefault
         /\ row'[r].duration + Extension * Cardinality(Pending(r)') <= MaxDuration
<1>1. PICK c \in calls :
        /\ c.op = "extend" /\ c.room = r /\ calls' = calls \ {c}
        /\ row'[r] = [row[r] EXCEPT !.extendUsed = TRUE, !.duration = row[r].duration + Extension]
  BY DEF Prolonged
<1>2. /\ row[r] \in [status : Statuses, started : BOOLEAN, duration : Nat, extendUsed : BOOLEAN]
      /\ RowDefault \in Nat /\ Extension \in Nat \ {0}
  BY SessionAssumption DEF TypeOK, Extension
<1>3. Known(r)' /\ row'[r].extendUsed /\ row'[r].duration = row[r].duration + Extension /\ Known(r)
  BY <1>1, <1>2 DEF CallsInv, Known
<1> DEFINE n == Cardinality(Pending(r))
           m == Cardinality(Pending(r)')
           k == Cardinality(Callers)
<1>4. IsFiniteSet(Pending(r)) /\ n \in Nat /\ k \in Nat /\ n <= k
  BY PendingBounded
<1>5. c \in Pending(r) /\ Pending(r)' = Pending(r) \ {c}
  BY <1>1 DEF Pending
<1>6. m = n - 1 /\ n # 0
  <2>1. n # 0
    BY <1>4, <1>5, FS_EmptySet
  <2> QED
    BY <1>4, <1>5, <2>1, FS_RemoveElement
<1>7. MaxDuration = RowDefault + Extension * k
  BY DEF MaxDuration
<1>u. row[r].extendUsed => row[r].duration > RowDefault /\ row[r].duration + Extension * n <= MaxDuration
  BY DEF PaidInv
<1>n. ~row[r].extendUsed => row[r].duration = RowDefault
  BY <1>3 DEF PaidInv
<1> HIDE DEF n, m, k
<1>8. Extension * n = Extension + Extension * m /\ Extension * m \in Nat
  BY <1>2, <1>4, <1>6, TimesStep
<1>9. Extension * n <= Extension * k /\ Extension * k \in Nat
  BY <1>2, <1>4, TimesMonotone
<1>10. row'[r].duration > RowDefault /\ row'[r].duration + Extension * m <= MaxDuration
  BY <1>2, <1>3, <1>7, <1>8, <1>9, <1>u, <1>n
<1> QED
  BY <1>3, <1>10 DEF m

\* Each step keeps what is paid.
LEMMA PaidNext ==
  ASSUME IsFiniteSet(Callers), SessionMins >= 2
  PROVE  TypeOK /\ LinkInv /\ CallsInv /\ CallersInv /\ PaidInv /\ [Next]_vars => PaidInv'
<1> SUFFICES ASSUME TypeOK, LinkInv, CallsInv, CallersInv, PaidInv, [Next]_vars, NEW r \in Rooms
             PROVE  /\ row'[r].extendUsed =>
                         /\ Known(r)' /\ row'[r].duration > RowDefault
                         /\ row'[r].duration + Extension * Cardinality(Pending(r)') <= MaxDuration
                    /\ Known(r)' /\ ~row'[r].extendUsed => row'[r].duration = RowDefault
  BY DEF PaidInv, MaxDuration, Extension
<1>0. row[r] \in [status : Statuses, started : BOOLEAN, duration : Nat, extendUsed : BOOLEAN]
  BY DEF TypeOK
<1>1. CASE row'[r] = row[r] /\ Pending(r)' \in SUBSET Pending(r)
  <2>1. CASE Known(r)
    BY <1>1, <2>1, PaidStands DEF Known
  <2>2. CASE ~Known(r)
    BY <1>1, <2>2 DEF PaidInv, Known
  <2> QED
    BY <2>1, <2>2
<1>2. CASE Tick
  <2>1. Pending(r)' \in SUBSET Pending(r)
    <3> SUFFICES ASSUME NEW d \in calls', d.op = "extend", d.room = r PROVE d \in Pending(r)
      BY DEF Pending
    <3>1. PICK c \in calls : d = [c EXCEPT !.late = Joining(c)]
      BY <1>2 DEF Tick
    <3>2. c \in Call /\ ~c.late /\ c.late \in BOOLEAN
      BY <1>2, <3>1 DEF Tick, TypeOK, Call
    <3>3. c.op = d.op /\ c.room = d.room
      BY <3>1, <3>2 DEF Call
    <3>4. ~Joining(c)
      BY <3>3 DEF Joining
    <3>5. d = c
      BY <3>1, <3>2, <3>4 DEF Call, Joining
    <3> QED
      BY <3>3, <3>5 DEF Pending
  <2> QED
    BY <1>1, <1>2, <2>1 DEF Tick
<1>3. ASSUME NEW c \in Call, NewCall(c)
      PROVE  /\ row'[r].extendUsed =>
                  /\ Known(r)' /\ row'[r].duration > RowDefault
                  /\ row'[r].duration + Extension * Cardinality(Pending(r)') <= MaxDuration
             /\ Known(r)' /\ ~row'[r].extendUsed => row'[r].duration = RowDefault
  <2>1. row' = row /\ calls' = calls \union {c} /\ (c.op = "extend" => ~row[c.room].extendUsed)
    BY <1>3 DEF NewCall
  <2>2. CASE c.op = "extend" /\ c.room = r
    BY <2>1, <2>2 DEF PaidInv, Known
  <2>3. CASE ~(c.op = "extend" /\ c.room = r)
    <3>1. Pending(r)' \in SUBSET Pending(r)
      BY <2>1, <2>3 DEF Pending
    <3> QED
      BY <1>1, <2>1, <3>1
  <2> QED
    BY <2>2, <2>3
<1>4. CASE calls' \in SUBSET calls
  <2>1. Pending(r)' \in SUBSET Pending(r)
    BY <1>4 DEF Pending
  <2>2. CASE Inserted(r)
    BY <1>0, <2>2 DEF Inserted, PaidInv, Known
  <2>3. CASE Begun(r) \/ Over(r)
    <3>1. /\ Known(r) /\ Known(r)'
          /\ row'[r].duration = row[r].duration /\ row'[r].extendUsed = row[r].extendUsed
      BY <1>0, <2>3 DEF Begun, Over, Known
    <3> QED
      BY <2>1, <3>1, PaidStands
  <2>4. CASE Prolonged(r)
    BY <2>4, ProlongedIsPaid
  <2> QED
    BY <1>1, <2>1, <2>2, <2>3, <2>4, RowMoves
<1> QED
  BY <1>2, <1>3, <1>4, CallMoves

\* However many requests race to extend a room, its window grows by what they
\* had each checked for and no more, and a row says it was extended exactly when
\* its window is longer: for any finite number of callers and a session of two
\* minutes at least, the half of which is not nothing.
THEOREM ExtensionsAreBounded ==
  ASSUME IsFiniteSet(Callers), SessionMins >= 2
  PROVE  Spec => []ExtensionsBounded
<1> DEFINE Inv == TypeOK /\ LinkInv /\ WindowInv /\ CallsInv /\ EnforcerInv /\ CallersInv /\ PaidInv
<1>1. Init => Inv
  <2>1. Init => CallersInv /\ PaidInv
    BY DEF Init, CallersInv, PaidInv, Known
  <2> QED
    BY <2>1, TypeInit, LinkInit, SessionInit
<1>2. Inv /\ [Next]_vars => Inv'
  BY TypeNext, LinkNext, WindowNext, CallsNext, EnforcerInvNext, CallersNext, PaidNext
<1>3. Inv => ExtensionsBounded
  <2> SUFFICES ASSUME Inv, NEW r \in Rooms, Known(r)
               PROVE  row[r].duration <= MaxDuration /\ (row[r].extendUsed <=> row[r].duration > RowDefault)
    BY DEF ExtensionsBounded
  <2>1. Cardinality(Pending(r)) \in Nat /\ Cardinality(Callers) \in Nat
    BY PendingBounded
  <2>2. Extension * Cardinality(Pending(r)) \in Nat /\ Extension * Cardinality(Callers) \in Nat
    BY <2>1, ExtensionIsNat, TimesMonotone
  <2>3. row[r].duration \in Nat /\ RowDefault \in Nat /\ MaxDuration \in Nat /\ RowDefault <= MaxDuration
    BY <2>2, SessionAssumption DEF TypeOK, MaxDuration
  <2> QED
    BY <2>2, <2>3 DEF PaidInv
<1> QED
  BY <1>1, <1>2, <1>3, PTL DEF Spec
=============================================================================
