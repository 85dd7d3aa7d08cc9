----------------------------- MODULE Attendance ------------------------------
(***************************************************************************)
(* Who is in a meeting: the participant_joined and participant_left        *)
(* webhooks and the room_participants table they write.  LiveKit knows who *)
(* is in the room; the table is written in the order events are handled.   *)
(***************************************************************************)
EXTENDS Naturals, FiniteSets

CONSTANTS
  People,      \* identities
  MaxMoves,    \* bound: joins and leaves in total
  RoomFaults   \* the sets of failures a behaviour may be exposed to

RoomFaultKinds ==
  { "reorder",    \* an event is handled before an older one of its participant
    "lost",       \* LiveKit gives up delivering an event
    "dispatch" }  \* the handler's statement fails after the event was stored

ASSUME PeopleAssumption == MaxMoves \in Nat /\ RoomFaults \subseteq SUBSET RoomFaultKinds

VARIABLES
  inRoom,    \* LiveKit's participants
  moves,     \* events sent so far; the number of an event is its id
  pending,   \* events not handled yet
  attended,  \* history: people who have joined
  attendance,\* room_participants: NULL or not of joined_at and left_at
  roomFaults

attendanceVars == <<inRoom, moves, pending, attended, attendance, roomFaults>>

NoEntry == [known |-> FALSE, joinedAt |-> FALSE, leftAt |-> FALSE]
AttendanceTypeOK ==
  /\ inRoom \subseteq People /\ attended \subseteq People
  /\ moves \in 0..MaxMoves
  /\ pending \subseteq [n : 1..MaxMoves, who : People, kind : {"joined", "left"}]
  /\ attendance \in [People -> [known : BOOLEAN, joinedAt : BOOLEAN, leftAt : BOOLEAN]]
  /\ roomFaults \in RoomFaults

AttendanceInit ==
  /\ inRoom = {} /\ attended = {} /\ pending = {} /\ moves = 0
  /\ attendance = [p \in People |-> NoEntry]
  /\ roomFaults \in RoomFaults

\* LiveKit sends an event for each participant that comes or goes.
Move(p) ==
  /\ moves < MaxMoves
  /\ moves' = moves + 1
  /\ LET kind == IF p \in inRoom THEN "left" ELSE "joined"
     IN pending' = pending \cup {[n |-> moves', who |-> p, kind |-> kind]}
  /\ inRoom' = IF p \in inRoom THEN inRoom \ {p} ELSE inRoom \cup {p}
  /\ attended' = attended \cup {p}
  /\ UNCHANGED <<attendance, roomFaults>>

\* An upsert that leaves left_at alone.
JoinedKeepsLeft(entry) == [entry EXCEPT !.known = TRUE, !.joinedAt = TRUE]

\* handleParticipantJoined: joined_at = now, left_at = NULL.
Joined(entry) == [known |-> TRUE, joinedAt |-> TRUE, leftAt |-> FALSE]
\* handleParticipantLeft: left_at = now.
Left(entry) == [entry EXCEPT !.known = TRUE, !.leftAt = TRUE]

Overtakes(e) == \E f \in pending : f.who = e.who /\ f.n < e.n

\* An event is stored by its id first, so that its handler runs at most once.
HandleParticipant(e) ==
  /\ e \in pending
  /\ Overtakes(e) => "reorder" \in roomFaults
  /\ pending' = pending \ {e}
  /\ \/ attendance' = [attendance EXCEPT ![e.who] = IF e.kind = "joined" THEN Joined(@) ELSE Left(@)]
     \/ "dispatch" \in roomFaults /\ UNCHANGED attendance
  /\ UNCHANGED <<inRoom, moves, attended, roomFaults>>

LoseParticipant(e) ==
  /\ "lost" \in roomFaults /\ e \in pending
  /\ pending' = pending \ {e}
  /\ UNCHANGED <<inRoom, moves, attended, attendance, roomFaults>>

AttendanceNext ==
  \/ \E p \in People : Move(p)
  \/ \E e \in pending : HandleParticipant(e) \/ LoseParticipant(e)

AttendanceSpec == AttendanceInit /\ [][AttendanceNext]_attendanceVars

-----------------------------------------------------------------------------
Present(p) == attendance[p].joinedAt /\ ~attendance[p].leftAt

\* Once all events were handled, everybody who ever joined has a joined_at,
\* even when events overtook each other; and when none did, exactly those are
\* shown as present who are in the room, also those who came back.  What an
\* overtaken event does to the rest is PresenceAnyOrder, below.
AttendanceTrue == pending = {} /\ roomFaults \subseteq {"reorder"} =>
  /\ \A p \in People : attendance[p].joinedAt <=> p \in attended
  /\ roomFaults = {} => {p \in People : Present(p)} = inRoom

-----------------------------------------------------------------------------
(* What the repository says of the table and the code does not do.         *)

\* handler.go:138 and 156 say of ON CONFLICT that it "clears left_at if a left
\* event arrived out-of-order" and "handles out-of-order delivery",
\* integration_livekit.md:197 of the upsert "This handles both orders
\* correctly": once all events were handled, in whatever order, exactly those
\* are shown as present who are in the room.
PresenceAnyOrder == pending = {} => {p \in People : Present(p)} = inRoom
=============================================================================
