------------------------------ MODULE HubProofs ------------------------------
(***************************************************************************)
(* Theorems about Hub, for any users and connections, channels of any      *)
(* capacity, and under any failures and races.                             *)
(***************************************************************************)
EXTENDS Hub, TLAPS

Inside == {"inserted", "online", "greet", "greeting", "cancelled"} \cup Open
Outside == {"new", "removed", "offline", "closing", "gone"}

-----------------------------------------------------------------------------
(* The hub's map.  A handler is inside from Register to Unregister, and its *)
(* channel is closed after that, when it has nothing left to do; or Shutdown *)
(* closes it while it is in the map, and then drops it from there.          *)

MapOK ==
  /\ hub \in [Users -> SUBSET Conns]
  /\ pc \in [Conns -> Stages]
  /\ closed \subseteq Conns /\ dropped \subseteq Conns
  /\ dropped # {} => main = "done"
  /\ \A u \in Users : \A c \in hub[u] : UserOf[c] = u

Placed(c) ==
  /\ pc[c] \in Inside => c \in hub[UserOf[c]] \/ c \in dropped
  /\ pc[c] \in Outside => c \notin hub[UserOf[c]]
  /\ pc[c] = "new" => c \notin dropped
  /\ c \in closed => \/ pc[c] = "gone" \/ c \in dropped
                     \/ main = "closing" /\ c \in hub[UserOf[c]]
  /\ c \in dropped => c \in closed /\ c \notin hub[UserOf[c]]

MapInv == MapOK /\ \A c \in Conns : Placed(c)

\* A connection is found in the hub only under its own user.
LEMMA RegisteredUnderUser == ASSUME MapInv, NEW c \in Conns
  PROVE c \in Registered <=> c \in hub[UserOf[c]]
<1>1. UserOf[c] \in Users BY HubAssumption
<1>q. QED BY <1>1 DEF Registered, MapInv, MapOK

LEMMA MapInvImplies == MapInv => HubFollowsHandlers
<1> SUFFICES ASSUME MapInv PROVE HubFollowsHandlers
  OBVIOUS
<1>1. \A c \in Conns : Placed(c) /\ (c \in Registered <=> c \in hub[UserOf[c]])
  BY RegisteredUnderUser DEF MapInv
<1>2. closed \subseteq Conns /\ (dropped # {} => main = "done") BY DEF MapInv, MapOK
<1>3. main # "closing" => \A c \in closed : c \notin Registered
  BY <1>1, <1>2 DEF Placed, Outside
<1>4. \A c \in Conns : pc[c] \in Inside => c \in Registered \/ (main = "done" /\ c \in closed)
  BY <1>1, <1>2 DEF Placed
<1>5. \A c \in Conns : pc[c] \in Outside => c \notin Registered
  BY <1>1 DEF Placed
<1>q. QED BY <1>3, <1>4, <1>5 DEF HubFollowsHandlers, Inside, Outside

\* Until main shuts the hub down, handlers inside are in the map, and only those
\* that are done have a closed channel.
LEMMA PlacedWhileRuns == ASSUME MapInv, main = "runs", NEW c \in Conns
  PROVE /\ dropped = {}
        /\ pc[c] \in Inside => c \in hub[UserOf[c]]
        /\ c \in closed => pc[c] = "gone" /\ c \notin Registered
<1>1. dropped = {} /\ Placed(c) BY DEF MapInv, MapOK
<1>q. QED BY <1>1, RegisteredUnderUser DEF Placed, Outside

LEMMA MapInit == Init => MapInv
<1> SUFFICES ASSUME Init PROVE MapInv
  OBVIOUS
<1>1. PICK scene \in Scenes :
        /\ hub = [u \in Users |-> {c \in scene.open : UserOf[c] = u}]
        /\ pc = [c \in Conns |-> CASE c \in scene.open -> "serve"
                                   [] c \in scene.coming -> "new"
                                   [] OTHER -> "gone"]
        /\ closed = Conns \ (scene.open \cup scene.coming)
  BY DEF Init
<1>a. main = "runs" /\ dropped = {} BY DEF Init
<1>2. scene.open \subseteq Conns /\ scene.open \cap scene.coming = {} BY SceneAssumption
<1>3. MapOK
  <2>1. \A c \in Conns : pc[c] \in {"serve", "new", "gone"} BY <1>1
  <2>2. pc \in [Conns -> Stages] BY <1>1, <2>1 DEF Stages
  <2>q. QED BY <1>1, <1>2, <1>a, <2>2 DEF MapOK
<1>4. ASSUME NEW c \in Conns PROVE Placed(c)
  <2>1. UserOf[c] \in Users BY HubAssumption
  <2>2. CASE c \in scene.open
    <3>1. pc[c] = "serve" BY <1>1, <1>2, <2>2
    <3>3. c \notin closed BY <1>1, <2>2
    <3>2. c \in hub[UserOf[c]] BY <1>1, <2>1, <2>2
    <3>q. QED BY <1>a, <3>1, <3>2, <3>3 DEF Placed, Outside
  <2>3. CASE c \notin scene.open /\ c \in scene.coming
    BY <1>1, <1>a, <2>1, <2>3 DEF Placed, Inside, Outside, Open
  <2>4. CASE c \notin scene.open /\ c \notin scene.coming
    BY <1>1, <1>a, <2>1, <2>4 DEF Placed, Inside, Outside, Open
  <2>q. QED BY <2>2, <2>3, <2>4
<1>q. QED BY <1>3, <1>4 DEF MapInv

\* A handler that stays inside or outside, or gets stuck.
LEMMA MoveMap ==
  ASSUME MapInv, NEW c \in Conns, NEW stage \in Stages, Goto(c, stage), UNCHANGED <<hub, closed, procVars>>,
         pc[c] # "gone", stage # "new",
         stage \in Inside => pc[c] \in Inside, stage \in Outside => pc[c] \in Outside
  PROVE  MapInv'
<1>1. pc' = [pc EXCEPT ![c] = stage] /\ pc \in [Conns -> Stages] BY DEF Goto, MapInv, MapOK
<1>a. hub' = hub /\ closed' = closed /\ main' = main /\ dropped' = dropped BY DEF procVars
<1>2. MapOK' BY <1>1, <1>a DEF MapInv, MapOK
<1>3. ASSUME NEW d \in Conns PROVE Placed(d)'
  <2>1. Placed(d) /\ Placed(c) BY DEF MapInv
  <2>2. CASE d = c BY <1>1, <1>a, <2>1, <2>2 DEF Placed
  <2>3. CASE d # c BY <1>1, <1>a, <2>1, <2>3 DEF Placed
  <2>q. QED BY <2>2, <2>3
<1>q. QED BY <1>2, <1>3 DEF MapInv

\* Registering puts a handler inside, unregistering puts it outside.
LEMMA ChangeMap ==
  ASSUME MapInv, NEW c \in Conns, NEW stage \in Stages, NEW conns, Goto(c, stage), SetConns(c, conns),
         UNCHANGED <<closed, procVars>>, main # "closing", pc[c] # "gone", stage # "new",
         \/ stage \in Inside \ Outside /\ conns = hub[UserOf[c]] \cup {c} /\ pc[c] = "new"
         \/ stage \in Outside \ Inside /\ conns = hub[UserOf[c]] \ {c}
  PROVE  MapInv'
<1>1. /\ pc' = [pc EXCEPT ![c] = stage] /\ pc \in [Conns -> Stages]
      /\ hub' = [hub EXCEPT ![UserOf[c]] = conns] /\ hub \in [Users -> SUBSET Conns]
      /\ UserOf[c] \in Users
  BY HubAssumption DEF Goto, SetConns, MapInv, MapOK
<1>a. closed' = closed /\ main' = main /\ dropped' = dropped BY DEF procVars
<1>2. conns \subseteq Conns /\ \A d \in conns : UserOf[d] = UserOf[c]
  BY <1>1 DEF MapInv, MapOK
<1>3. MapOK' BY <1>1, <1>2, <1>a DEF MapInv, MapOK
<1>4. ASSUME NEW d \in Conns PROVE Placed(d)'
  <2>1. Placed(d) /\ UserOf[d] \in Users BY HubAssumption DEF MapInv
  <2>2. CASE d = c BY <1>1, <1>a, <2>1, <2>2 DEF Placed, Outside
  <2>3. CASE d # c
    <3>1. d \in hub'[UserOf[d]] <=> d \in hub[UserOf[d]]
      BY <1>1, <2>1, <2>3
    <3>q. QED BY <1>1, <1>a, <2>1, <2>3, <3>1 DEF Placed
  <2>q. QED BY <2>2, <2>3
<1>q. QED BY <1>3, <1>4 DEF MapInv

\* Once the process has ended there is nothing to find.
LEMMA EndMap == ASSUME ProcessEnds PROVE MapInv'
<1>1. /\ hub' = [u \in Users |-> {}] /\ pc' = [c \in Conns |-> "gone"] /\ closed' = Conns
      /\ dropped' = {}
  BY DEF ProcessEnds
<1>2. \A c \in Conns : UserOf[c] \in Users BY HubAssumption
<1>q. QED BY <1>1, <1>2 DEF MapInv, MapOK, Placed, Stages, Inside, Outside, Open

\* Shutdown closes what is in the map, and then replaces the map.
Shutting == ShutdownStarts \/ ShutdownEnds \/ \E c \in Conns : ShutdownClose(c)

LEMMA ShutMap == ASSUME MapInv, Shutting PROVE MapInv'
<1>1. CASE ShutdownStarts
  <2>1. /\ hub' = hub /\ pc' = pc /\ closed' = closed /\ dropped' = dropped
        /\ main = "runs" /\ main' = "closing"
    BY <1>1 DEF ShutdownStarts
  <2>2. MapOK' BY <2>1 DEF MapInv, MapOK
  <2>q. QED BY <2>1, <2>2 DEF MapInv, Placed
<1>2. ASSUME NEW c \in Conns, ShutdownClose(c) PROVE MapInv'
  <2>1. /\ hub' = hub /\ pc' = pc /\ dropped' = dropped /\ main = "closing" /\ main' = main
        /\ c \in Registered /\ closed' = closed \cup {c}
    BY <1>2 DEF ShutdownClose, procVars
  <2>2. c \in hub[UserOf[c]] BY <2>1, RegisteredUnderUser
  <2>3. MapOK' BY <2>1 DEF MapInv, MapOK
  <2>q. QED BY <2>1, <2>2, <2>3 DEF MapInv, Placed
<1>3. CASE ShutdownEnds
  <2>1. /\ hub' = [u \in Users |-> {}] /\ pc' = pc /\ closed' = closed
        /\ main = "closing" /\ main' = "done" /\ dropped' = Registered /\ Registered \subseteq closed
    BY <1>3 DEF ShutdownEnds
  <2>2. dropped = {} BY <2>1 DEF MapInv, MapOK
  <2>3. MapOK' BY <2>1 DEF MapInv, MapOK
  <2>4. ASSUME NEW d \in Conns PROVE Placed(d)'
    <3>1. Placed(d) /\ UserOf[d] \in Users /\ (d \in Registered <=> d \in hub[UserOf[d]])
      BY HubAssumption, RegisteredUnderUser DEF MapInv
    <3>q. QED BY <2>1, <2>2, <3>1 DEF Placed, Outside
  <2>q. QED BY <2>3, <2>4 DEF MapInv
<1>q. QED BY <1>1, <1>2, <1>3 DEF Shutting

LEMMA RangeEnds == ASSUME NEW c \in Conns, pc[c] \in Ranging, EndRange(c)
  PROVE \E stage \in {"greet", "closing", "serve", "deliver"} :
          /\ Goto(c, stage)
          /\ stage = "greet" => pc[c] = "online"
          /\ stage = "closing" => pc[c] = "offline"
          /\ stage \in {"serve", "deliver"} => pc[c] = "push"
<1>1. CASE pc[c] = "online" BY <1>1 DEF EndRange, Goto
<1>2. CASE pc[c] = "offline" BY <1>2 DEF EndRange, Goto
<1>3. CASE pc[c] = "push" BY <1>3 DEF EndRange, Goto
<1>q. QED BY <1>1, <1>2, <1>3 DEF Ranging

LEMMA MapNext == MapInv /\ [Next]_vars => MapInv'
<1> SUFFICES ASSUME MapInv, [Next]_vars PROVE MapInv'
  OBVIOUS
<1>q. CASE UNCHANGED <<hub, pc, closed, procVars>>
  <2>1. hub' = hub /\ pc' = pc /\ closed' = closed /\ main' = main /\ dropped' = dropped
    BY <1>q DEF procVars
  <2>q. QED BY <2>1 DEF MapInv, MapOK, Placed
<1>1. ASSUME NEW c \in Conns, Register(c) PROVE MapInv'
  <2>1. /\ pc[c] = "new" /\ SetConns(c, hub[UserOf[c]] \cup {c}) /\ UNCHANGED <<closed, procVars>>
        /\ main # "closing" /\ \E stage \in {"inserted", "greet"} : Goto(c, stage)
    BY <1>1 DEF Register, Free
  <2>q. QED BY <2>1, ChangeMap DEF Stages, Inside, Outside, Open
<1>2. ASSUME NEW c \in Conns, Unregister(c) PROVE MapInv'
  <2>1. /\ pc[c] = "cancelled" /\ SetConns(c, hub[UserOf[c]] \ {c}) /\ UNCHANGED <<closed, procVars>>
        /\ main # "closing" /\ \E stage \in {"removed", "closing"} : Goto(c, stage)
    BY <1>2 DEF Unregister, Free
  <2>q. QED BY <2>1, ChangeMap DEF Stages, Inside, Outside, Open
<1>3. ASSUME NEW c \in Conns, Broadcast(c) PROVE MapInv'
  <2>1. /\ pc[c] \in {"inserted", "removed"} /\ UNCHANGED <<hub, closed, procVars>>
        /\ \/ pc[c] = "inserted" /\ Goto(c, "online")
           \/ pc[c] = "removed" /\ Goto(c, "offline")
           \/ Goto(c, "stuck")
    BY <1>3 DEF Broadcast
  <2>q. QED BY <2>1, MoveMap DEF Stages, Inside, Outside, Open
<1>4. ASSUME NEW c \in Conns, RangeOver(c) PROVE MapInv'
  <2>1. pc[c] \in Ranging /\ EndRange(c) BY <1>4 DEF RangeOver
  <2>0. UNCHANGED <<hub, closed, procVars>> BY <1>4 DEF RangeOver
  <2>2. PICK stage \in {"greet", "closing", "serve", "deliver"} :
          /\ Goto(c, stage)
          /\ stage = "greet" => pc[c] = "online"
          /\ stage = "closing" => pc[c] = "offline"
          /\ stage \in {"serve", "deliver"} => pc[c] = "push"
    BY <2>1, RangeEnds
  <2>q. QED BY <2>0, <2>1, <2>2, MoveMap DEF Stages, Inside, Outside, Open, Ranging
<1>5. ASSUME NEW c \in Conns, RangePanics(c) PROVE MapInv'
  <2>1. /\ pc[c] \in Ranging /\ UNCHANGED <<hub, closed, procVars>>
        /\ \/ pc[c] = "push" /\ Goto(c, "cancelled")
           \/ Goto(c, "stuck")
    BY <1>5 DEF RangePanics
  <2>q. QED BY <2>1, MoveMap DEF Stages, Inside, Outside, Open, Ranging
<1>6. ASSUME NEW c \in Conns, GreetLock(c) PROVE MapInv'
  BY <1>6, MoveMap DEF Stages, Inside, Outside, Open, GreetLock
<1>7. ASSUME NEW c \in Conns, GreetSend(c) \/ GreetPanics(c) PROVE MapInv'
  BY <1>7, MoveMap DEF Stages, Inside, Outside, Open, GreetSend, GreetPanics
<1>8. ASSUME NEW c \in Conns, Incoming(c) PROVE MapInv'
  <2>1. pc[c] = "serve" /\ Goto(c, "deliver") /\ UNCHANGED <<hub, closed, procVars>>
    BY <1>8 DEF Incoming, OnMessage, OnReceipt, OnTyping, Refuse, SendError, Request, FanOut
  <2>q. QED BY <2>1, MoveMap DEF Stages, Inside, Outside, Open
<1>9. ASSUME NEW c \in Conns, Lookup(c) PROVE MapInv'
  BY <1>9, MoveMap DEF Stages, Inside, Outside, Open, Lookup
<1>10. ASSUME NEW c \in Conns, Leave(c) PROVE MapInv'
  BY <1>10, MoveMap DEF Stages, Inside, Outside, Open, Leave
<1>11. ASSUME NEW c \in Conns, Close(c) PROVE MapInv'
  <2>1. /\ pc[c] = "closing" /\ closed' = closed \cup {c} /\ hub' = hub
        /\ pc' = [pc EXCEPT ![c] = "gone"] /\ pc \in [Conns -> Stages]
        /\ main' = main /\ dropped' = dropped
    BY <1>11 DEF Close, Goto, MapInv, MapOK, procVars
  <2>2. MapOK' BY <2>1 DEF MapInv, MapOK, Stages
  <2>3. ASSUME NEW d \in Conns PROVE Placed(d)'
    <3>1. Placed(d) BY DEF MapInv
    <3>2. CASE d = c BY <2>1, <3>1, <3>2 DEF Placed, Inside, Outside, Open
    <3>3. CASE d # c BY <2>1, <3>1, <3>3 DEF Placed
    <3>q. QED BY <3>2, <3>3
  <2>q. QED BY <2>2, <2>3 DEF MapInv
<1>12. ASSUME NEW c \in Conns, WritePump(c) \/ Ping(c) \/ Heartbeat(c) \/ MarkAll(c) PROVE MapInv'
  BY <1>q, <1>12 DEF WritePump, Ping, Heartbeat, MarkAll
<1>13. ASSUME NEW c \in Conns, HeartbeatPanics(c) \/ MapsRace(c) PROVE MapInv'
  BY <1>13, EndMap DEF HeartbeatPanics, MapsRace
<1>14. CASE Shutting \/ MainReturns BY <1>14, ShutMap, EndMap DEF MainReturns
<1>15. CASE UNCHANGED vars BY <1>q, <1>15 DEF vars
<1>z. QED
  <2>1. ASSUME NEW c \in Conns, HandlerStep(c) PROVE MapInv'
    BY <1>2, <1>3, <1>4, <1>5, <1>6, <1>7, <1>9, <1>11, <2>1 DEF HandlerStep
  <2>2. ASSUME NEW c \in Conns, GoroutineStep(c) PROVE MapInv'
    BY <1>12, <1>13, <2>2 DEF GoroutineStep
  <2>q. QED BY <1>1, <1>8, <1>10, <1>12, <1>13, <1>14, <1>15, <2>1, <2>2 DEF Next, Shutting

\* The hub's map always agrees with where the handlers are, whatever comes and
\* goes at once, and however Shutdown and the handlers that run on overtake each
\* other: a served connection can be found until Shutdown has closed and dropped
\* it, and a closed channel cannot, except while Shutdown goes through the map.
THEOREM HubAlwaysFollowsHandlers == Spec => []HubFollowsHandlers
<1>q. QED BY MapInit, MapNext, MapInvImplies, PTL DEF Spec

-----------------------------------------------------------------------------
(* What clients are told.  An event is made true before it is on its way,   *)
(* in a handler's range and then in a channel, and no statement takes back  *)
(* what it says.                                                            *)

Told(event, table) ==
  /\ event.kind = "message" => table[event.about].saved
  /\ event.kind \in {"delivered", "read"} => table[event.about][event.kind]

Rows == [Messages -> [saved : BOOLEAN, delivered : BOOLEAN, read : BOOLEAN]]
Says(seq, table) == \A i \in 1..Len(seq) : Told(seq[i], table)

BufOK == buf \in [Conns -> Seq(Events)] /\ \A c \in Conns : Says(buf[c], msg)
WalkOK ==
  /\ DOMAIN walk = Conns
  /\ \A c \in Conns : walk[c].event \in Events /\ Told(walk[c].event, msg)
ToldInv == msg \in Rows /\ BufOK /\ WalkOK

LEMMA EventKinds ==
  /\ \A kind \in {"online", "offline"} : \A u \in Users :
       Event(kind, u) \in Events /\ \A table : Told(Event(kind, u), table)
  /\ \A us \in SUBSET Users :
       Event("current", us) \in Events /\ \A table : Told(Event("current", us), table)
  /\ \A kind \in {"message", "delivered", "read"} : \A m \in Messages : Event(kind, m) \in Events
  /\ \A kind \in {"typing", "error", "heartbeat"} :
       Plain(kind) \in Events /\ \A table : Told(Plain(kind), table)
BY DEF Event, Events, Plain, Told

LEMMA EventFields == ASSUME NEW kind, NEW about
  PROVE Event(kind, about).kind = kind /\ Event(kind, about).about = about
BY DEF Event

\* Only these kinds are about a message.
LEMMA AboutMessages ==
  ASSUME NEW event \in Events, event.kind \in {"message", "delivered", "read"}
  PROVE  event.about \in Messages
BY DEF Events

LEMMA NoWalkTold == NoWalk.event \in Events /\ \A table : Told(NoWalk.event, table)
BY EventKinds DEF NoWalk, Walk

LEMMA ToldInit == Init => ToldInv
<1> SUFFICES ASSUME Init PROVE ToldInv
  OBVIOUS
<1>1. /\ msg = [m \in Messages |-> NoRow] /\ buf = [c \in Conns |-> <<>>]
      /\ walk = [c \in Conns |-> NoWalk]
  BY DEF Init
<1>2. msg \in Rows BY <1>1 DEF Rows, NoRow
<1>3. BufOK BY <1>1 DEF BufOK, Says
<1>4. WalkOK BY <1>1, NoWalkTold DEF WalkOK
<1>q. QED BY <1>2, <1>3, <1>4 DEF ToldInv

\* Rows only gain marks.
Grows == \A m \in Messages :
  /\ msg[m].saved => msg'[m].saved
  /\ msg[m].delivered => msg'[m].delivered
  /\ msg[m].read => msg'[m].read

LEMMA ToldKept == ASSUME Grows, NEW event \in Events, Told(event, msg)
  PROVE Told(event, msg')
<1>1. CASE event.kind = "message" BY <1>1, AboutMessages DEF Told, Grows
<1>2. CASE event.kind = "delivered" BY <1>2, AboutMessages DEF Told, Grows
<1>3. CASE event.kind = "read" BY <1>3, AboutMessages DEF Told, Grows
<1>q. QED BY <1>1, <1>2, <1>3 DEF Told

LEMMA SaysKept == ASSUME Grows, NEW seq \in Seq(Events), Says(seq, msg)
  PROVE Says(seq, msg')
BY ToldKept DEF Says

LEMMA BufKept == ASSUME ToldInv, Grows, UNCHANGED buf PROVE BufOK'
BY SaysKept DEF ToldInv, BufOK

LEMMA WalkKept == ASSUME ToldInv, Grows, UNCHANGED walk PROVE WalkOK'
BY ToldKept DEF ToldInv, WalkOK

\* A handler that begins a range with a true event.
LEMMA WalkSet ==
  ASSUME ToldInv, Grows, NEW c \in Conns, NEW w, walk' = [walk EXCEPT ![c] = w],
         w.event \in Events, Told(w.event, msg')
  PROVE  WalkOK'
<1>1. DOMAIN walk = Conns BY DEF ToldInv, WalkOK
<1>2. DOMAIN walk' = Conns /\ walk'[c] = w /\ \A d \in Conns \ {c} : walk'[d] = walk[d]
  BY <1>1
<1>3. ASSUME NEW d \in Conns PROVE walk'[d].event \in Events /\ Told(walk'[d].event, msg')
  <2>1. CASE d = c BY <1>2, <2>1
  <2>2. CASE d # c BY <1>2, <2>2, ToldKept DEF ToldInv, WalkOK
  <2>q. QED BY <2>1, <2>2
<1>q. QED BY <1>2, <1>3 DEF WalkOK

LEMMA AppendSays ==
  ASSUME NEW seq \in Seq(Events), NEW event \in Events, NEW table, Says(seq, table), Told(event, table)
  PROVE  Append(seq, event) \in Seq(Events) /\ Says(Append(seq, event), table)
<1>1. /\ Append(seq, event) \in Seq(Events) /\ Len(Append(seq, event)) = Len(seq) + 1
      /\ \A i \in 1..Len(seq) : Append(seq, event)[i] = seq[i]
      /\ Append(seq, event)[Len(seq) + 1] = event /\ Len(seq) \in Nat
  OBVIOUS
<1>2. ASSUME NEW i \in 1..(Len(seq) + 1) PROVE i \in 1..Len(seq) \/ i = Len(seq) + 1
  BY <1>1, <1>2
<1>q. QED BY <1>1, <1>2 DEF Says

LEMMA TailSays ==
  ASSUME NEW seq \in Seq(Events), NEW table, Says(seq, table), seq # <<>>
  PROVE  Tail(seq) \in Seq(Events) /\ Says(Tail(seq), table)
BY DEF Says

\* One event is put into some channels.
LEMMA BufAppend ==
  ASSUME ToldInv, UNCHANGED msg, NEW conns, NEW event \in Events, Told(event, msg),
         buf' = [d \in Conns |-> IF d \in conns THEN Append(buf[d], event) ELSE buf[d]]
  PROVE  BufOK'
<1>1. ASSUME NEW d \in Conns PROVE buf'[d] \in Seq(Events) /\ Says(buf'[d], msg)
  <2>1. buf[d] \in Seq(Events) /\ Says(buf[d], msg) BY DEF ToldInv, BufOK
  <2>2. CASE d \in conns BY <2>1, <2>2, AppendSays
  <2>3. CASE d \notin conns BY <2>1, <2>3
  <2>q. QED BY <2>2, <2>3
<1>q. QED BY <1>1 DEF BufOK

LEMMA SendToKeeps ==
  ASSUME ToldInv, UNCHANGED msg, NEW conns, NEW event \in Events, Told(event, msg),
         SendTo(conns, event)
  PROVE  BufOK'
BY BufAppend DEF SendTo

LEMMA EndTold == ASSUME ToldInv, ProcessEnds PROVE ToldInv'
<1>1. /\ msg' = msg /\ buf' = [c \in Conns |-> <<>>] /\ walk' = [c \in Conns |-> NoWalk]
  BY DEF ProcessEnds
<1>2. BufOK' BY <1>1 DEF BufOK, Says
<1>3. WalkOK' BY <1>1, NoWalkTold DEF WalkOK
<1>q. QED BY <1>1, <1>2, <1>3 DEF ToldInv

\* Handling an event changes the table before the range begins.
LEMMA IncomingTold == ASSUME ToldInv, NEW c \in Conns, Incoming(c) PROVE ToldInv'
<1>1. /\ buf' = buf /\ msg \in Rows
      /\ \A m \in Messages : From[m] \in Users
  BY HubAssumption
     DEF Incoming, OnMessage, OnReceipt, OnTyping, Refuse, Request, ToldInv
<1>2. ASSUME NEW event \in Events, NEW users, FanOut(c, event, users), msg' \in Rows, Grows, Told(event, msg')
      PROVE ToldInv'
  <2>1. walk' = [walk EXCEPT ![c] = Walk(event, users, {}, {})] BY <1>2 DEF FanOut
  <2>2. Walk(event, users, {}, {}).event = event BY DEF Walk
  <2>3. WalkOK' BY <1>2, <2>1, <2>2, WalkSet
  <2>q. QED BY <1>1, <1>2, <2>3, BufKept DEF ToldInv
<1>3. ASSUME NEW event \in Events, NEW users, FanOut(c, event, users), UNCHANGED msg, Told(event, msg)
      PROVE ToldInv'
  BY <1>1, <1>2, <1>3 DEF Grows
<1>4. ASSUME SendError(c), UNCHANGED msg PROVE ToldInv'
  BY <1>3, <1>4, EventKinds DEF SendError
<1>5. ASSUME NEW m \in Messages, OnMessage(c, m) PROVE ToldInv'
  <2>1. CASE msg' = [msg EXCEPT ![m].saved = TRUE] /\ FanOut(c, Event("message", m), <<From[m], To[m]>>)
    <3>1. msg' \in Rows BY <1>1, <2>1 DEF Rows
    <3>2. Grows BY <1>1, <2>1 DEF Rows, Grows
    <3>3. msg'[m].saved BY <1>1, <2>1 DEF Rows
    <3>4. Told(Event("message", m), msg') BY <3>3 DEF Told, Event
    <3>q. QED BY <1>2, <2>1, <3>1, <3>2, <3>4, EventKinds
  <2>2. CASE SendError(c) /\ UNCHANGED msg BY <1>4, <2>2
  <2>q. QED BY <1>5, <2>1, <2>2 DEF OnMessage
<1>6. ASSUME NEW m \in Messages, NEW kind \in {"delivered", "read"}, OnReceipt(c, m, kind) PROVE ToldInv'
  <2>1. CASE msg' = [msg EXCEPT ![m][kind] = TRUE] /\ FanOut(c, Event(kind, m), <<From[m]>>)
    <3>1. /\ msg' \in Rows /\ Grows
          /\ msg'[m][kind]
      <4>1. CASE kind = "delivered" BY <1>1, <2>1, <4>1 DEF Rows, Grows
      <4>2. CASE kind = "read" BY <1>1, <2>1, <4>2 DEF Rows, Grows
      <4>q. QED BY <4>1, <4>2
    <3>2. Told(Event(kind, m), msg') BY <3>1 DEF Told, Event
    <3>q. QED BY <1>2, <2>1, <3>1, <3>2, EventKinds
  <2>2. CASE SendError(c) /\ UNCHANGED msg BY <1>4, <2>2
  <2>q. QED BY <1>6, <2>1, <2>2 DEF OnReceipt
<1>7. ASSUME NEW u \in Users, OnTyping(c, u) PROVE ToldInv'
  BY <1>3, <1>7, EventKinds DEF OnTyping
<1>8. CASE Refuse(c) BY <1>4, <1>8 DEF Refuse
<1>q. QED BY <1>5, <1>6, <1>7, <1>8 DEF Incoming

\* The reconciliation marks rows, and takes no mark away.
LEMMA MarkTold == ASSUME ToldInv, NEW c \in Conns, MarkAll(c) PROVE ToldInv'
<1>1. UNCHANGED <<buf, walk>> BY DEF MarkAll
<1>2. msg' \in Rows /\ Grows
  <2>1. CASE UNCHANGED msg BY <2>1 DEF ToldInv, Grows
  <2>2. CASE msg' = [m \in Messages |->
               IF msg[m].saved /\ To[m] = UserOf[c] THEN [msg[m] EXCEPT !.delivered = TRUE] ELSE msg[m]]
    BY <2>2 DEF ToldInv, Rows, Grows
  <2>q. QED BY <2>1, <2>2 DEF MarkAll
<1>q. QED BY <1>1, <1>2, BufKept, WalkKept DEF ToldInv

\* What a range begins with is what a handler then walks with, or has walked.
LEMMA WalkTold == ASSUME NEW event, NEW rest, NEW to, NEW there
  PROVE Walk(event, rest, to, there).event = event
BY DEF Walk

\* A range sends the event it began with.
LEMMA RangeTold == ASSUME ToldInv, NEW c \in Conns, RangeOver(c) \/ RangePanics(c) PROVE ToldInv'
<1>1. /\ msg' = msg /\ walk[c].event \in Events /\ Told(walk[c].event, msg)
      /\ \E conns : SendTo(conns, walk[c].event)
      /\ \/ walk' = [walk EXCEPT ![c] = NoWalk]
         \/ \E rest : walk' = [walk EXCEPT ![c] = Walk(walk[c].event, rest, {}, {})]
  <2>1. walk[c].event \in Events /\ Told(walk[c].event, msg) BY DEF ToldInv, WalkOK
  <2>2. CASE RangeOver(c) BY <2>1, <2>2 DEF RangeOver, EndRange
  <2>3. CASE RangePanics(c) BY <2>1, <2>3 DEF RangePanics, dbVars
  <2>q. QED BY <2>2, <2>3
<1>2. Grows BY <1>1 DEF Grows
<1>3. BufOK' BY <1>1, SendToKeeps
<1>4. ASSUME walk' = [walk EXCEPT ![c] = NoWalk] PROVE WalkOK'
  BY <1>2, <1>4, NoWalkTold, WalkSet
<1>5. ASSUME NEW rest, walk' = [walk EXCEPT ![c] = Walk(walk[c].event, rest, {}, {})] PROVE WalkOK'
  <2>1. Walk(walk[c].event, rest, {}, {}).event = walk[c].event BY WalkTold
  <2>q. QED BY <1>1, <1>2, <1>5, <2>1, WalkSet
<1>6. WalkOK' BY <1>1, <1>4, <1>5
<1>q. QED BY <1>1, <1>3, <1>6 DEF ToldInv

\* Broadcasts and lookups begin a range with an event that is true.
LEMMA BeginTold == ASSUME ToldInv, NEW c \in Conns, Broadcast(c) \/ Lookup(c) PROVE ToldInv'
<1>1. msg' = msg /\ buf' = buf BY DEF Broadcast, Lookup, dbVars
<1>2. Grows BY <1>1 DEF Grows
<1>3. ASSUME NEW w, walk' = [walk EXCEPT ![c] = w], w.event \in Events, Told(w.event, msg) PROVE ToldInv'
  BY <1>1, <1>2, <1>3, BufKept, WalkSet DEF ToldInv
<1>4. CASE walk' = walk BY <1>1, <1>2, <1>4, BufKept, WalkKept DEF ToldInv
<1>5. CASE Broadcast(c) /\ walk' # walk
  <2>1. PICK kind \in {"online", "offline"} :
          walk' = [walk EXCEPT ![c] = Walk(Event(kind, UserOf[c]), <<>>, Users, Registered)]
    BY <1>5 DEF Broadcast
  <2>2. UserOf[c] \in Users BY HubAssumption
  <2>3. Walk(Event(kind, UserOf[c]), <<>>, Users, Registered).event = Event(kind, UserOf[c]) BY WalkTold
  <2>q. QED BY <1>3, <2>1, <2>2, <2>3, EventKinds
<1>6. CASE Lookup(c)
  <2>1. PICK rest, to, there : walk' = [walk EXCEPT ![c] = Walk(walk[c].event, rest, to, there)]
    BY <1>6 DEF Lookup
  <2>2. Walk(walk[c].event, rest, to, there).event = walk[c].event BY WalkTold
  <2>q. QED BY <1>3, <2>1, <2>2 DEF ToldInv, WalkOK
<1>q. QED BY <1>4, <1>5, <1>6

\* The other goroutines and steps.
LEMMA ChannelTold ==
  ASSUME ToldInv, NEW c \in Conns,
         GreetSend(c) \/ Heartbeat(c) \/ WritePump(c) \/ Close(c) \/ ShutdownClose(c)
  PROVE  ToldInv'
<1>1. msg' = msg BY DEF GreetSend, Heartbeat, WritePump, Close, ShutdownClose, dbVars
<1>2. Grows BY <1>1 DEF Grows
<1>3. buf[c] \in Seq(Events) /\ Says(buf[c], msg) BY DEF ToldInv, BufOK
<1>4. ASSUME NEW seq \in Seq(Events), Says(seq, msg), buf' = [buf EXCEPT ![c] = seq] PROVE BufOK'
  BY <1>1, <1>4 DEF ToldInv, BufOK
<1>5. ASSUME NEW event \in Events, Told(event, msg), buf' = [buf EXCEPT ![c] = Append(@, event)] PROVE BufOK'
  BY <1>3, <1>4, <1>5, AppendSays
<1>6. CASE GreetSend(c) \/ Heartbeat(c)
  <2>1. PICK event \in Events : /\ Told(event, msg)
                               /\ buf' = [buf EXCEPT ![c] = Append(@, event)]
    <3>1. Online \ {UserOf[c]} \subseteq Users BY DEF Online
    <3>q. QED BY <1>6, <3>1, EventKinds DEF GreetSend, Heartbeat
  <2>2. walk' = walk BY <1>6 DEF GreetSend, Heartbeat
  <2>q. QED BY <1>1, <1>2, <1>5, <2>1, <2>2, WalkKept DEF ToldInv
<1>7. CASE WritePump(c)
  <2>1. buf' = [buf EXCEPT ![c] = Tail(buf[c])] /\ buf[c] # <<>> /\ walk' = walk
    BY <1>7 DEF WritePump
  <2>2. BufOK' BY <1>3, <1>4, <2>1, TailSays
  <2>q. QED BY <1>1, <1>2, <2>1, <2>2, WalkKept DEF ToldInv
<1>8. CASE Close(c) \/ ShutdownClose(c)
  <2>1. buf' = [buf EXCEPT ![c] = <<>>] /\ (walk' = walk \/ walk' = [walk EXCEPT ![c] = NoWalk])
    BY <1>8 DEF Close, ShutdownClose
  <2>2. BufOK'
    <3>1. <<>> \in Seq(Events) /\ Says(<<>>, msg) BY DEF Says
    <3>q. QED BY <1>4, <2>1, <3>1
  <2>3. WalkOK' BY <1>2, <2>1, NoWalkTold, WalkSet, WalkKept
  <2>q. QED BY <1>1, <2>2, <2>3 DEF ToldInv
<1>q. QED BY <1>6, <1>7, <1>8

LEMMA ToldNext == ToldInv /\ [Next]_vars => ToldInv'
<1> SUFFICES ASSUME ToldInv, [Next]_vars PROVE ToldInv'
  OBVIOUS
<1>1. CASE UNCHANGED <<msg, buf, walk>>
  <2>1. Grows BY <1>1 DEF Grows
  <2>q. QED BY <1>1, <2>1, BufKept, WalkKept DEF ToldInv
<1>2. ASSUME NEW c \in Conns, Register(c) \/ Unregister(c) \/ GreetLock(c) \/ GreetPanics(c) \/ Leave(c) \/ Ping(c)
      PROVE ToldInv'
  BY <1>1, <1>2 DEF Register, Unregister, GreetLock, GreetPanics, Leave, Ping, dbVars
<1>3. ASSUME NEW c \in Conns, HandlerStep(c) PROVE ToldInv'
  BY <1>2, <1>3, RangeTold, BeginTold, ChannelTold DEF HandlerStep
<1>4. ASSUME NEW c \in Conns, GoroutineStep(c) \/ MapsRace(c) PROVE ToldInv'
  BY <1>4, ChannelTold, MarkTold, EndTold DEF GoroutineStep, HeartbeatPanics, MapsRace
<1>5. CASE ShutdownStarts \/ ShutdownEnds \/ MainReturns
  BY <1>1, <1>5, EndTold DEF ShutdownStarts, ShutdownEnds, MainReturns, dbVars
<1>6. CASE UNCHANGED vars BY <1>1, <1>6 DEF vars, dbVars
<1>q. QED BY <1>2, <1>3, <1>4, <1>5, <1>6, IncomingTold, ChannelTold DEF Next

LEMMA ToldInvImplies == ToldInv => EventsTrue
<1> SUFFICES ASSUME ToldInv, NEW c \in Conns, NEW i \in 1..Len(buf[c])
             PROVE  LET event == buf[c][i]
                    IN /\ event.kind = "message" => msg[event.about].saved
                       /\ event.kind \in {"delivered", "read"} => msg[event.about][event.kind]
  BY DEF EventsTrue
<1>q. QED BY DEF ToldInv, BufOK, Says, Told

\* No client is told of a message that was not saved, and no sender of a receipt
\* that was not stored, whichever statement fails and however events overtake
\* each other.
THEOREM EventsAlwaysTrue == Spec => []EventsTrue
<1>q. QED BY ToldInit, ToldNext, ToldInvImplies, PTL DEF Spec

-----------------------------------------------------------------------------
(* The types, and what a handler's range is about where the handler is.     *)

Budgets == [going : SUBSET Conns, says : SUBSET (Conns \X Saying), beating : SUBSET Conns]

ProcInv ==
  /\ faults \subseteq FaultKinds /\ up \in BOOLEAN
  /\ main \in {"runs", "closing", "done"}
  /\ up /\ main # "runs" => "stop" \in faults

PlainInv ==
  /\ lock \in Conns \cup {NoConn}
  /\ pumping \subseteq Conns /\ marking \subseteq Conns /\ missed \subseteq Conns
  /\ heart \in [Conns -> {"off", "wait", "pinged"}]
  /\ budget \in Budgets
  /\ had \in [Messages -> SUBSET Conns]

\* The steps by what they do to the maps of a handler.
LEMMA StepsByKind ==
  ASSUME [Next]_vars
  PROVE  \/ \E c \in Conns : Register(c) \/ Unregister(c) \/ GreetLock(c) \/ GreetPanics(c) \/ Leave(c)
         \/ \E c \in Conns : Broadcast(c) \/ Lookup(c)
         \/ \E c \in Conns : RangeOver(c) \/ RangePanics(c)
         \/ \E c \in Conns : Incoming(c)
         \/ \E c \in Conns : GreetSend(c) \/ Heartbeat(c) \/ WritePump(c) \/ Close(c)
         \/ \E c \in Conns : Ping(c) \/ MarkAll(c)
         \/ Shutting
         \/ ProcessEnds
         \/ UNCHANGED vars
<1>1. ASSUME NEW c \in Conns, HandlerStep(c) \/ GoroutineStep(c)
      PROVE  \/ Unregister(c) \/ Broadcast(c) \/ RangeOver(c) \/ RangePanics(c)
             \/ GreetLock(c) \/ GreetSend(c) \/ GreetPanics(c) \/ Lookup(c) \/ Close(c)
             \/ WritePump(c) \/ Heartbeat(c) \/ ProcessEnds \/ MarkAll(c)
  BY <1>1 DEF HandlerStep, GoroutineStep, HeartbeatPanics
<1>2. (\E c \in Conns : MapsRace(c)) \/ MainReturns => ProcessEnds
  BY DEF MapsRace, MainReturns
<1>q. QED BY <1>1, <1>2 DEF Next, Shutting

\* What Shutdown leaves alone.
LEMMA ShutFrame == ASSUME Shutting
  PROVE /\ pc' = pc /\ walk' = walk /\ lock' = lock /\ faults' = faults /\ up' = up
        /\ msg' = msg /\ marking' = marking /\ pumping' = pumping /\ heart' = heart
        /\ budget' = budget /\ had' = had /\ shown' = shown /\ missed' = missed
        /\ \/ main = "runs" /\ "stop" \in faults /\ lock = NoConn /\ main' = "closing"
           \/ main = "closing" /\ main' \in {"closing", "done"}
        /\ \/ buf' = buf /\ view' = view
           \/ main = "closing" /\ \E c \in Conns : /\ buf' = [buf EXCEPT ![c] = <<>>]
                                                  /\ view' = [view EXCEPT ![c] = {}]
<1>1. CASE ShutdownStarts BY <1>1 DEF ShutdownStarts, Free, dbVars, goVars, seenVars
<1>2. CASE ShutdownEnds BY <1>2 DEF ShutdownEnds, dbVars, goVars, seenVars
<1>3. ASSUME NEW c \in Conns, ShutdownClose(c)
      PROVE  /\ pc' = pc /\ walk' = walk /\ lock' = lock /\ faults' = faults /\ up' = up
             /\ msg' = msg /\ marking' = marking /\ pumping' = pumping /\ heart' = heart
             /\ budget' = budget /\ had' = had /\ shown' = shown /\ missed' = missed
             /\ main = "closing" /\ main' = "closing"
             /\ buf' = [buf EXCEPT ![c] = <<>>] /\ view' = [view EXCEPT ![c] = {}]
  BY <1>3 DEF ShutdownClose, procVars, dbVars, seenVars
<1>q. QED BY <1>1, <1>2, <1>3 DEF Shutting

\* No other step has to do with it, but the end of the process.
LEMMA ProcFrame == ASSUME [Next]_vars
  PROVE \/ faults' = faults /\ up' = up /\ main' = main /\ dropped' = dropped
        \/ Shutting \/ ProcessEnds
<1>1. ASSUME NEW c \in Conns, \/ Register(c) \/ Unregister(c) \/ GreetLock(c) \/ GreetPanics(c) \/ Leave(c)
                              \/ Broadcast(c) \/ Lookup(c) \/ RangeOver(c) \/ RangePanics(c)
      PROVE  UNCHANGED procVars
  BY <1>1 DEF Register, Unregister, GreetLock, GreetPanics, Leave, Broadcast, Lookup, RangeOver, RangePanics
<1>2. ASSUME NEW c \in Conns, \/ GreetSend(c) \/ Heartbeat(c) \/ WritePump(c) \/ Close(c) \/ Ping(c) \/ MarkAll(c)
      PROVE  UNCHANGED procVars
  BY <1>2 DEF GreetSend, Heartbeat, WritePump, Close, Ping, MarkAll
<1>3. ASSUME NEW c \in Conns, Incoming(c) PROVE UNCHANGED procVars
  BY <1>3 DEF Incoming, OnMessage, OnReceipt, OnTyping, Refuse, Request
<1>4. UNCHANGED vars => UNCHANGED procVars BY DEF vars
<1>5. UNCHANGED procVars => faults' = faults /\ up' = up /\ main' = main /\ dropped' = dropped
  BY DEF procVars
<1>q. QED BY <1>1, <1>2, <1>3, <1>4, <1>5, StepsByKind

\* What a handler walks with, at the stage it is at.
Shaped(c, stage, w) ==
  /\ w.rest \in Seq(Users) /\ w.to \subseteq Users /\ w.there \subseteq Conns
  /\ stage \in {"online", "offline"} => w.event = Event(stage, UserOf[c]) /\ w.to = Users
  /\ stage \in {"deliver", "push"} => w.event.kind \notin {"online", "offline", "current"}
  /\ stage = "deliver" => w.rest # <<>>
  /\ w.event.kind = "message" =>
       LET m == w.event.about
       IN /\ stage = "deliver" => w.rest \in {<<From[m], To[m]>>, <<To[m]>>}
          /\ stage = "push" => \/ w.to = {From[m]} /\ w.rest = <<To[m]>>
                               \/ w.to = {To[m]} /\ w.rest = <<>>
WalkInv == \A c \in Conns : Shaped(c, pc[c], walk[c])

LEMMA WalkFields == ASSUME NEW event, NEW rest, NEW to, NEW there, NEW w, w = Walk(event, rest, to, there)
  PROVE w.event = event /\ w.rest = rest /\ w.to = to /\ w.there = there
BY DEF Walk

LEMMA NoWalkShaped == ASSUME NEW c, NEW stage, stage \notin {"online", "offline", "deliver", "push"}
  PROVE Shaped(c, stage, NoWalk)
<1>1. /\ NoWalk.event.kind = "error" /\ NoWalk.rest = <<>> /\ NoWalk.to = {} /\ NoWalk.there = {}
  BY DEF NoWalk, Walk, Plain, Event
<1>q. QED BY <1>1 DEF Shaped

LEMMA WalkInit == Init => WalkInv
<1> SUFFICES ASSUME Init, NEW c \in Conns PROVE Shaped(c, pc[c], walk[c])
  BY DEF WalkInv
<1>1. walk[c] = NoWalk BY DEF Init
<1>2. pc[c] \in {"serve", "new", "gone"} BY DEF Init
<1>q. QED BY <1>1, <1>2, NoWalkShaped

\* One handler moves, and with it its walk.
LEMMA WalkMove ==
  ASSUME MapInv, WalkOK, WalkInv, NEW c \in Conns, NEW stage, NEW w, Goto(c, stage),
         walk' = [walk EXCEPT ![c] = w], Shaped(c, stage, w)
  PROVE  WalkInv'
<1>1. DOMAIN walk = Conns /\ pc \in [Conns -> Stages] BY DEF WalkOK, MapInv, MapOK
<1>2. pc'[c] = stage /\ walk'[c] = w BY <1>1 DEF Goto
<1>3. \A d \in Conns \ {c} : pc'[d] = pc[d] /\ walk'[d] = walk[d] BY <1>1 DEF Goto
<1>q. QED BY <1>2, <1>3 DEF WalkInv, Shaped

\* A handler that leaves its walk behind.
LEMMA WalkLeft ==
  ASSUME MapInv, WalkOK, WalkInv, NEW c \in Conns, NEW stage, Goto(c, stage),
         stage \notin {"online", "offline", "deliver", "push"},
         walk' = walk \/ walk' = [walk EXCEPT ![c] = NoWalk]
  PROVE  WalkInv'
<1>1. DOMAIN walk = Conns /\ pc \in [Conns -> Stages] BY DEF WalkOK, MapInv, MapOK
<1>2. Shaped(c, stage, walk[c])
  <2>1. Shaped(c, pc[c], walk[c]) BY DEF WalkInv
  <2>q. QED BY <2>1 DEF Shaped
<1>3. CASE walk' = walk
  <2>1. pc'[c] = stage /\ \A d \in Conns \ {c} : pc'[d] = pc[d] BY <1>1 DEF Goto
  <2>q. QED BY <1>2, <1>3, <2>1 DEF WalkInv, Shaped
<1>4. CASE walk' = [walk EXCEPT ![c] = NoWalk] BY <1>4, WalkMove, NoWalkShaped
<1>q. QED BY <1>3, <1>4

\* What an event that a handler takes ends in.
LEMMA IncomingWalk == ASSUME NEW c \in Conns, Incoming(c)
  PROVE /\ pc[c] = "serve" /\ Goto(c, "deliver")
        /\ \/ \E m \in Messages : /\ UserOf[c] = From[m] /\ ~msg[m].saved
                                  /\ msg' = [msg EXCEPT ![m].saved = TRUE]
                                  /\ FanOut(c, Event("message", m), <<From[m], To[m]>>)
           \/ /\ \/ msg' = msg
                 \/ \E m \in Messages : \E kind \in {"delivered", "read"} :
                      msg' = [msg EXCEPT ![m][kind] = TRUE]
              /\ \E u \in Users : \E m \in Messages \cup {"nothing"} : \E kind \in {"delivered", "read", "typing", "error"} :
                   FanOut(c, Event(kind, m), <<u>>)
<1>1. pc[c] = "serve" /\ Goto(c, "deliver")
  BY DEF Incoming, OnMessage, OnReceipt, OnTyping, Refuse, Request, SendError, FanOut
<1>2. UserOf[c] \in Users /\ \A m \in Messages : From[m] \in Users BY HubAssumption
<1>3. SendError(c) => FanOut(c, Event("error", "nothing"), <<UserOf[c]>>) BY DEF SendError, Plain
<1>4. ASSUME NEW m \in Messages, OnMessage(c, m) PROVE
        \/ /\ UserOf[c] = From[m] /\ ~msg[m].saved
           /\ msg' = [msg EXCEPT ![m].saved = TRUE]
           /\ FanOut(c, Event("message", m), <<From[m], To[m]>>)
        \/ msg' = msg /\ SendError(c)
  BY <1>4 DEF OnMessage
<1>5. ASSUME NEW m \in Messages, NEW kind \in {"delivered", "read"}, OnReceipt(c, m, kind) PROVE
        \/ msg' = [msg EXCEPT ![m][kind] = TRUE] /\ FanOut(c, Event(kind, m), <<From[m]>>)
        \/ msg' = msg /\ SendError(c)
  BY <1>5 DEF OnReceipt
<1>6. ASSUME NEW u \in Users, OnTyping(c, u) PROVE msg' = msg /\ FanOut(c, Event("typing", "nothing"), <<u>>)
  BY <1>6 DEF OnTyping, Plain
<1>7. Refuse(c) => msg' = msg /\ SendError(c) BY DEF Refuse
<1>8. CASE \E m \in Messages : OnMessage(c, m) BY <1>1, <1>2, <1>3, <1>4, <1>8
<1>9. CASE \E m \in Messages : \E kind \in {"delivered", "read"} : OnReceipt(c, m, kind)
  <2>1. PICK m \in Messages, kind \in {"delivered", "read"} : OnReceipt(c, m, kind) BY <1>9
  <2>q. QED BY <1>1, <1>2, <1>3, <1>5, <2>1
<1>10. CASE \E u \in Users : OnTyping(c, u) BY <1>1, <1>6, <1>10
<1>11. CASE Refuse(c) BY <1>1, <1>2, <1>3, <1>7, <1>11
<1>q. QED BY <1>8, <1>9, <1>10, <1>11 DEF Incoming

LEMMA WalkNext == ASSUME MapInv, WalkOK, WalkInv, [Next]_vars PROVE WalkInv'
<1>0. /\ pc \in [Conns -> Stages] /\ hub \in [Users -> SUBSET Conns] /\ DOMAIN walk = Conns
      /\ \A c \in Conns : Shaped(c, pc[c], walk[c])
  BY DEF MapInv, MapOK, WalkOK, WalkInv
<1>0a. CASE UNCHANGED <<pc, walk>> BY <1>0a DEF WalkInv, Shaped
<1>1. ASSUME NEW c \in Conns, \/ Register(c) \/ Unregister(c) \/ GreetLock(c) \/ GreetPanics(c)
                              \/ Leave(c) \/ GreetSend(c) \/ Close(c)
      PROVE WalkInv'
  <2>1. \E stage \in {"inserted", "greet", "removed", "closing", "greeting", "cancelled", "serve", "gone", "stuck"} :
          Goto(c, stage) /\ (walk' = walk \/ walk' = [walk EXCEPT ![c] = NoWalk])
    BY <1>1 DEF Register, Unregister, GreetLock, GreetPanics, Leave, GreetSend, Close
  <2>q. QED BY <2>1, WalkLeft
<1>2. ASSUME NEW c \in Conns, Broadcast(c) PROVE WalkInv'
  <2>1. CASE Goto(c, "stuck") /\ UNCHANGED walk BY <2>1, WalkLeft
  <2>2. ASSUME NEW kind \in {"online", "offline"}, Goto(c, kind),
               walk' = [walk EXCEPT ![c] = Walk(Event(kind, UserOf[c]), <<>>, Users, Registered)]
        PROVE WalkInv'
    <3> DEFINE w == Walk(Event(kind, UserOf[c]), <<>>, Users, Registered)
    <3>1. w.event = Event(kind, UserOf[c]) /\ w.rest = <<>> /\ w.to = Users /\ w.there = Registered
      BY WalkFields
    <3>2. w.event.kind = kind BY <3>1 DEF Event
    <3>3. Registered \subseteq Conns BY <1>0 DEF Registered
    <3>4. <<>> \in Seq(Users) OBVIOUS
    <3> HIDE DEF w
    <3>5. Shaped(c, kind, w) BY <3>1, <3>2, <3>3, <3>4 DEF Shaped
    <3>q. QED BY <2>2, <3>5, WalkMove DEF w
  <2>q. QED BY <1>2, <2>1, <2>2 DEF Broadcast
<1>3. ASSUME NEW c \in Conns, Lookup(c) PROVE WalkInv'
  <2> DEFINE w == walk[c]
             v == Walk(w.event, Tail(w.rest), {Head(w.rest)}, hub[Head(w.rest)])
  <2>1. pc[c] = "deliver" /\ Goto(c, "push") /\ walk' = [walk EXCEPT ![c] = v]
    BY <1>3 DEF Lookup
  <2>2. Shaped(c, "deliver", w) BY <1>0, <2>1
  <2>3. /\ v.event = w.event /\ v.rest = Tail(w.rest) /\ v.to = {Head(w.rest)}
        /\ v.there = hub[Head(w.rest)]
    BY WalkFields
  <2> HIDE DEF w, v
  <2>4. w.rest \in Seq(Users) /\ w.rest # <<>> BY <2>2 DEF Shaped
  <2>5. Head(w.rest) \in Users /\ Tail(w.rest) \in Seq(Users) BY <2>4
  <2>6. hub[Head(w.rest)] \subseteq Conns BY <1>0, <2>5
  <2>7. ASSUME w.event.kind = "message", NEW m, m = w.event.about
        PROVE  \/ v.to = {From[m]} /\ v.rest = <<To[m]>>
               \/ v.to = {To[m]} /\ v.rest = <<>>
    <3>1. w.rest = <<From[m], To[m]>> \/ w.rest = <<To[m]>> BY <2>2, <2>7 DEF Shaped
    <3>2. /\ Head(<<From[m], To[m]>>) = From[m] /\ Tail(<<From[m], To[m]>>) = <<To[m]>>
          /\ Head(<<To[m]>>) = To[m] /\ Tail(<<To[m]>>) = <<>>
      OBVIOUS
    <3>3. CASE w.rest = <<From[m], To[m]>> BY <2>3, <3>2, <3>3
    <3>4. CASE w.rest = <<To[m]>> BY <2>3, <3>2, <3>4
    <3>q. QED BY <3>1, <3>3, <3>4
  <2>8. Shaped(c, "push", v) BY <2>2, <2>3, <2>5, <2>6, <2>7 DEF Shaped
  <2>q. QED BY <2>1, <2>8, WalkMove
<1>4. ASSUME NEW c \in Conns, RangeOver(c) \/ RangePanics(c) PROVE WalkInv'
  <2>1. CASE \E stage \in {"greet", "closing", "serve", "cancelled", "stuck"} :
               Goto(c, stage) /\ walk' = [walk EXCEPT ![c] = NoWalk]
    BY <2>1, WalkLeft
  <2>2. CASE RangePanics(c) BY <2>1, <2>2 DEF RangePanics
  <2>3. CASE RangeOver(c) /\ pc[c] \in {"online", "offline"} BY <2>1, <2>3 DEF RangeOver, EndRange
  <2>4. CASE RangeOver(c) /\ pc[c] = "push" /\ walk[c].rest = <<>> BY <2>1, <2>4 DEF RangeOver, EndRange
  <2>5. CASE RangeOver(c) /\ pc[c] = "push" /\ walk[c].rest # <<>>
    <3> DEFINE w == walk[c]
               v == Walk(w.event, w.rest, {}, {})
    <3>1. Goto(c, "deliver") /\ walk' = [walk EXCEPT ![c] = v] BY <1>0, <2>5 DEF RangeOver, EndRange
    <3>2. Shaped(c, "push", w) BY <1>0, <2>5
    <3>3. v.event = w.event /\ v.rest = w.rest /\ v.to = {} /\ v.there = {} BY WalkFields
    <3>4. w.rest # <<>> BY <2>5
    <3> HIDE DEF w, v
    <3>5. Shaped(c, "deliver", v) BY <3>2, <3>3, <3>4 DEF Shaped
    <3>q. QED BY <3>1, <3>5, WalkMove
  <2>q. QED BY <1>4, <2>2, <2>3, <2>4, <2>5 DEF RangeOver, Ranging
<1>5. ASSUME NEW c \in Conns, Incoming(c) PROVE WalkInv'
  <2>1. ASSUME NEW kind \in {"message", "delivered", "read", "typing", "error"}, NEW about, NEW rest \in Seq(Users),
               rest # <<>>, kind = "message" => rest = <<From[about], To[about]>>,
               Goto(c, "deliver"), FanOut(c, Event(kind, about), rest)
        PROVE  WalkInv'
    <3> DEFINE v == Walk(Event(kind, about), rest, {}, {})
    <3>1. walk' = [walk EXCEPT ![c] = v] BY <2>1 DEF FanOut
    <3>2. v.event = Event(kind, about) /\ v.rest = rest /\ v.to = {} /\ v.there = {} BY WalkFields
    <3>3. v.event.kind = kind /\ v.event.about = about BY <3>2 DEF Event
    <3> HIDE DEF v
    <3>4. Shaped(c, "deliver", v) BY <2>1, <3>2, <3>3 DEF Shaped
    <3>q. QED BY <2>1, <3>1, <3>4, WalkMove
  <2>2. Goto(c, "deliver") BY <1>5, IncomingWalk
  <2>3. \A m \in Messages : <<From[m], To[m]>> \in Seq(Users) BY HubAssumption
  <2>4. CASE \E m \in Messages : FanOut(c, Event("message", m), <<From[m], To[m]>>)
    BY <2>1, <2>2, <2>3, <2>4
  <2>5. CASE \E u \in Users : \E m \in Messages \cup {"nothing"} : \E kind \in {"delivered", "read", "typing", "error"} :
                   FanOut(c, Event(kind, m), <<u>>)
    <3>1. PICK u \in Users, m \in Messages \cup {"nothing"}, kind \in {"delivered", "read", "typing", "error"} :
            FanOut(c, Event(kind, m), <<u>>)
      BY <2>5
    <3>2. <<u>> \in Seq(Users) /\ <<u>> # <<>> OBVIOUS
    <3>3. kind # "message" OBVIOUS
    <3>q. QED BY <2>1, <2>2, <3>1, <3>2, <3>3
  <2>q. QED BY <1>5, <2>4, <2>5, IncomingWalk
<1>6. ASSUME NEW c \in Conns, Heartbeat(c) \/ WritePump(c) \/ Ping(c) \/ MarkAll(c) PROVE WalkInv'
  BY <1>0a, <1>6 DEF Heartbeat, WritePump, Ping, MarkAll
<1>7. CASE ProcessEnds
  <2>1. \A c \in Conns : pc'[c] = "gone" /\ walk'[c] = NoWalk BY <1>7 DEF ProcessEnds
  <2>q. QED BY <2>1, NoWalkShaped DEF WalkInv
<1>8. CASE UNCHANGED vars BY <1>0a, <1>8 DEF vars
<1>9. CASE Shutting BY <1>0a, <1>9, ShutFrame
<1>q. QED BY <1>1, <1>2, <1>3, <1>4, <1>5, <1>6, <1>7, <1>8, <1>9, StepsByKind

\* Handling an event changes the table and begins a fan-out.
LEMMA IncomingFrame == ASSUME NEW c \in Conns, Incoming(c)
  PROVE /\ pc[c] = "serve" /\ Goto(c, "deliver")
        /\ UNCHANGED <<procVars, hub, lock, buf, closed, marking, pumping, heart, view, seenVars>>
        /\ \E s \in Saying : /\ <<c, s>> \in budget.says
                             /\ budget' = [budget EXCEPT !.says = @ \ {<<c, s>>}]
BY DEF Incoming, OnMessage, OnReceipt, OnTyping, Refuse, SendError, Request, FanOut, Saying

\* A connection that lost an event stays one that did while the process runs.
LEMMA MissedKept == ASSUME [Next]_vars, ~ProcessEnds PROVE missed \subseteq missed'
<1>1. ASSUME NEW c \in Conns, \/ Register(c) \/ Unregister(c) \/ GreetLock(c) \/ GreetPanics(c) \/ Leave(c)
                              \/ Broadcast(c) \/ Lookup(c)
      PROVE missed' = missed
  BY <1>1 DEF Register, Unregister, GreetLock, GreetPanics, Leave, Broadcast, Lookup, seenVars
<1>2. ASSUME NEW c \in Conns, RangeOver(c) \/ RangePanics(c) PROVE missed \subseteq missed'
  BY <1>2 DEF RangeOver, RangePanics, SendTo
<1>3. ASSUME NEW c \in Conns, Incoming(c) PROVE missed' = missed
  BY <1>3, IncomingFrame DEF seenVars
<1>4. ASSUME NEW c \in Conns, GreetSend(c) \/ Heartbeat(c) \/ WritePump(c) \/ Close(c) \/ Ping(c) \/ MarkAll(c)
      PROVE missed \subseteq missed'
  BY <1>4 DEF GreetSend, Heartbeat, WritePump, Close, Ping, MarkAll, seenVars
<1>5. UNCHANGED vars => missed' = missed BY DEF vars, seenVars
<1>6. Shutting => missed' = missed BY ShutFrame
<1>q. QED BY <1>1, <1>2, <1>3, <1>4, <1>5, <1>6, StepsByKind

LEMMA ProcNext == ASSUME ProcInv, [Next]_vars PROVE ProcInv'
<1>1. CASE ProcessEnds BY <1>1 DEF ProcessEnds, ProcInv
<1>2. CASE Shutting BY <1>2, ShutFrame DEF ProcInv
<1>3. CASE faults' = faults /\ up' = up /\ main' = main BY <1>3 DEF ProcInv
<1>q. QED BY <1>1, <1>2, <1>3, ProcFrame

LEMMA PlainNext == ASSUME MapInv, PlainInv, WalkOK, WalkInv, [Next]_vars PROVE PlainInv'
<1>0. pc \in [Conns -> Stages] /\ hub \in [Users -> SUBSET Conns] BY DEF MapInv, MapOK
<1>1. ASSUME NEW c \in Conns, Register(c) \/ Unregister(c) \/ GreetLock(c) \/ GreetPanics(c) \/ Leave(c)
      PROVE PlainInv'
  <2>1. /\ UNCHANGED <<marking, pumping, heart, budget, had, missed>>
        /\ lock' \in {c, lock, NoConn}
    BY <1>1 DEF Register, Unregister, GreetLock, GreetPanics, Leave, dbVars, goVars, seenVars
  <2>q. QED BY <2>1 DEF PlainInv
<1>2. ASSUME NEW c \in Conns, Broadcast(c) PROVE PlainInv'
  BY <1>2 DEF PlainInv, Broadcast, dbVars, goVars, seenVars
<1>3. ASSUME NEW c \in Conns, Lookup(c) PROVE PlainInv'
  <2>1. UNCHANGED <<lock, marking, pumping, heart, budget, missed>>
    BY <1>3 DEF Lookup, dbVars, goVars
  <2>2. had' \in [Messages -> SUBSET Conns]
    <3>1. \/ had' = had
          \/ \E m \in Messages : had' = [had EXCEPT ![m] = hub[To[m]]]
      BY <1>3, AboutMessages DEF Lookup, WalkOK
    <3>2. \A m \in Messages : hub[To[m]] \subseteq Conns BY <1>0, HubAssumption
    <3>q. QED BY <3>1, <3>2 DEF PlainInv
  <2>q. QED BY <2>1, <2>2 DEF PlainInv
<1>4. ASSUME NEW c \in Conns, RangeOver(c) \/ RangePanics(c) PROVE PlainInv'
  <2>3. walk[c].there \subseteq Conns BY DEF WalkInv, Shaped
  <2>1. /\ UNCHANGED <<lock, pumping, heart, budget, had>>
        /\ marking' \subseteq marking \cup {c}
        /\ \E conns : SendTo(conns, walk[c].event) /\ conns \subseteq Conns
    <3>1. CASE RangeOver(c) BY <3>1 DEF RangeOver, EndRange, goVars
    <3>2. CASE RangePanics(c) BY <2>3, <3>2 DEF RangePanics, dbVars, goVars
    <3>q. QED BY <1>4, <3>1, <3>2
  <2>2. missed' \subseteq Conns BY <2>1 DEF SendTo, PlainInv
  <2>q. QED BY <2>1, <2>2 DEF PlainInv
<1>5. ASSUME NEW c \in Conns, Incoming(c) PROVE PlainInv'
  <2>2. UNCHANGED <<lock, marking, pumping, heart, missed, had>>
    BY <1>5, IncomingFrame DEF seenVars
  <2>3. PICK s \in Saying : budget' = [budget EXCEPT !.says = @ \ {<<c, s>>}]
    BY <1>5, IncomingFrame
  <2>4. budget' \in Budgets BY <2>3 DEF PlainInv, Budgets
  <2>1. UNCHANGED <<lock, marking, pumping, heart, missed, had>>
        /\ budget' \in Budgets
    BY <2>2, <2>4
  <2>q. QED BY <2>1 DEF PlainInv
<1>6. ASSUME NEW c \in Conns, GreetSend(c) PROVE PlainInv'
  BY <1>6 DEF PlainInv, GreetSend, dbVars, seenVars
<1>7. ASSUME NEW c \in Conns, Heartbeat(c) PROVE PlainInv'
  BY <1>7 DEF PlainInv, Heartbeat, dbVars, seenVars
<1>8. ASSUME NEW c \in Conns, WritePump(c) PROVE PlainInv'
  <2>1. UNCHANGED <<lock, marking, heart, budget, had>>
        /\ pumping' \subseteq pumping /\ missed' \subseteq missed \cup {c}
    BY <1>8 DEF WritePump, dbVars
  <2>q. QED BY <2>1 DEF PlainInv
<1>9. ASSUME NEW c \in Conns, Close(c) PROVE PlainInv'
  BY <1>9 DEF PlainInv, Close, dbVars, seenVars
<1>10. ASSUME NEW c \in Conns, Ping(c) PROVE PlainInv'
  BY <1>10 DEF PlainInv, Ping, dbVars, seenVars, Budgets
<1>11. ASSUME NEW c \in Conns, MarkAll(c) PROVE PlainInv'
  BY <1>11 DEF PlainInv, MarkAll, goVars, seenVars
<1>12. CASE ProcessEnds
  BY <1>12 DEF PlainInv, ProcessEnds
<1>13. CASE UNCHANGED vars
  BY <1>13 DEF PlainInv, vars, dbVars, goVars, seenVars
<1>14. CASE Shutting BY <1>14, ShutFrame DEF PlainInv
<1>q. QED BY <1>1, <1>2, <1>3, <1>4, <1>5, <1>6, <1>7, <1>8, <1>9, <1>10, <1>11, <1>12, <1>13, <1>14, StepsByKind

-----------------------------------------------------------------------------
(* The channels: never more than their capacity, and what clients make of   *)
(* them are users.                                                          *)

ChannelInv ==
  /\ \A c \in Conns : Len(buf[c]) <= Cap
  /\ view \in [Conns -> SUBSET Users]
  /\ shown \subseteq Messages

LEMMA AppendFits == ASSUME NEW seq \in Seq(Events), NEW event \in Events, Len(seq) < Cap
  PROVE Len(Append(seq, event)) <= Cap
<1>1. Len(Append(seq, event)) = Len(seq) + 1 /\ Len(seq) \in Nat OBVIOUS
<1>q. QED BY <1>1, HubAssumption

LEMMA SeenUsers == ASSUME NEW event \in Events, NEW online \in SUBSET Users
  PROVE Seen(online, event) \subseteq Users
<1>1. event.kind \in {"online", "offline"} => event.about \in Users BY DEF Events
<1>2. event.kind = "current" => event.about \subseteq Users BY DEF Events
<1>q. QED BY <1>1, <1>2 DEF Seen

\* A step that puts at most one event into a channel, and only where it fits.
LEMMA ChannelGrows ==
  ASSUME BufOK, ChannelInv, NEW event \in Events, UNCHANGED <<view, shown>>,
         \A d \in Conns : buf'[d] = buf[d] \/ buf'[d] = <<>>
                          \/ (Len(buf[d]) < Cap /\ buf'[d] = Append(buf[d], event))
  PROVE  ChannelInv'
<1>1. ASSUME NEW d \in Conns PROVE Len(buf'[d]) <= Cap
  <2>1. Len(buf[d]) <= Cap /\ buf[d] \in Seq(Events) BY DEF ChannelInv, BufOK
  <2>2. Len(<<>>) = 0 /\ Cap \in Nat BY HubAssumption
  <2>q. QED BY <2>1, <2>2, AppendFits
<1>q. QED BY <1>1 DEF ChannelInv

LEMMA ChannelSend ==
  ASSUME BufOK, ChannelInv, NEW event \in Events, NEW conns, SendTo(conns, event), UNCHANGED <<view, shown>>
  PROVE  ChannelInv'
<1> DEFINE takes == {d \in conns : Len(buf[d]) < Cap}
<1>0. buf' = [d \in Conns |-> IF d \in takes THEN Append(buf[d], event) ELSE buf[d]]
  BY DEF SendTo
<1>4. \A d \in takes : Len(buf[d]) < Cap OBVIOUS
<1> HIDE DEF takes
<1>1. \A d \in Conns : buf'[d] = buf[d] \/ (Len(buf[d]) < Cap /\ buf'[d] = Append(buf[d], event))
  BY <1>0, <1>4
<1>q. QED BY <1>1, ChannelGrows

LEMMA ChannelNext == ASSUME ToldInv, ChannelInv, [Next]_vars PROVE ChannelInv'
<1>0. buf \in [Conns -> Seq(Events)] /\ BufOK BY DEF ToldInv, BufOK
<1>0a. CASE UNCHANGED <<buf, view, shown>> BY <1>0a DEF ChannelInv
<1>1. ASSUME NEW c \in Conns, Register(c) \/ Unregister(c) \/ GreetLock(c) \/ GreetPanics(c) \/ Leave(c)
      PROVE ChannelInv'
  BY <1>0a, <1>1 DEF Register, Unregister, GreetLock, GreetPanics, Leave, goVars, seenVars
<1>2. ASSUME NEW c \in Conns, Broadcast(c) \/ Lookup(c) PROVE ChannelInv'
  BY <1>0a, <1>2 DEF Broadcast, Lookup, goVars, seenVars
<1>3. ASSUME NEW c \in Conns, RangeOver(c) \/ RangePanics(c) PROVE ChannelInv'
  <2>1. UNCHANGED <<view, shown>> /\ \E conns : SendTo(conns, walk[c].event)
    BY <1>3 DEF RangeOver, RangePanics, goVars
  <2>2. walk[c].event \in Events BY DEF ToldInv, WalkOK
  <2>q. QED BY <1>0, <2>1, <2>2, ChannelSend
<1>4. ASSUME NEW c \in Conns, Incoming(c) PROVE ChannelInv'
  BY <1>0a, <1>4, IncomingFrame DEF seenVars
<1>5. ASSUME NEW c \in Conns, GreetSend(c) \/ Heartbeat(c) PROVE ChannelInv'
  <2>1. PICK event \in Events : Len(buf[c]) < Cap /\ buf' = [buf EXCEPT ![c] = Append(@, event)]
    <3>1. Online \ {UserOf[c]} \subseteq Users BY DEF Online
    <3>q. QED BY <1>5, <3>1, EventKinds DEF GreetSend, Heartbeat
  <2>2. UNCHANGED <<view, shown>> BY <1>5 DEF GreetSend, Heartbeat, seenVars
  <2>5. \A d \in Conns : buf'[d] = IF d = c THEN Append(buf[c], event) ELSE buf[d] BY <1>0, <2>1
  <2>3. \A d \in Conns : buf'[d] = buf[d] \/ (Len(buf[d]) < Cap /\ buf'[d] = Append(buf[d], event))
    BY <2>1, <2>5
  <2>q. QED BY <1>0, <2>2, <2>3, ChannelGrows
<1>6. ASSUME NEW c \in Conns, WritePump(c) PROVE ChannelInv'
  <2>1. buf' = [buf EXCEPT ![c] = Tail(buf[c])] /\ buf[c] # <<>>
        /\ \/ shown' = shown
           \/ Head(buf[c]).kind = "message" /\ shown' = shown \cup {Head(buf[c]).about}
        /\ (view' = view \/ view' = [view EXCEPT ![c] = Seen(view[c], Head(buf[c]))])
    BY <1>6 DEF WritePump
  <2>2. buf[c] \in Seq(Events) /\ Len(buf[c]) <= Cap /\ Cap \in Nat
    BY <1>0, HubAssumption DEF ChannelInv
  <2>3. Head(buf[c]) \in Events /\ Len(Tail(buf[c])) <= Cap
    <3>1. Head(buf[c]) \in Events /\ Len(Tail(buf[c])) = Len(buf[c]) - 1 /\ Len(buf[c]) \in Nat
      BY <2>1, <2>2
    <3>q. QED BY <2>2, <3>1
  <2>4. \A d \in Conns : Len(buf'[d]) <= Cap
    <3>1. \A d \in Conns : buf'[d] = IF d = c THEN Tail(buf[c]) ELSE buf[d] BY <1>0, <2>1
    <3>q. QED BY <2>3, <3>1 DEF ChannelInv
  <2>5. view' \in [Conns -> SUBSET Users]
    <3>1. view \in [Conns -> SUBSET Users] BY DEF ChannelInv
    <3>2. Seen(view[c], Head(buf[c])) \subseteq Users BY <2>3, <3>1, SeenUsers
    <3>q. QED BY <2>1, <3>1, <3>2
  <2>6. shown' \subseteq Messages
    <3>1. shown' = shown \/ \E m \in Messages : shown' = shown \cup {m} BY <2>1, <2>3, AboutMessages
    <3>q. QED BY <3>1 DEF ChannelInv
  <2>q. QED BY <2>4, <2>5, <2>6 DEF ChannelInv
<1>7. ASSUME NEW c \in Conns, Close(c) PROVE ChannelInv'
  <2>1. buf' = [buf EXCEPT ![c] = <<>>] /\ view' = [view EXCEPT ![c] = {}] /\ shown' = shown
    BY <1>7 DEF Close, seenVars
  <2>2. Len(<<>>) = 0 /\ Cap \in Nat BY HubAssumption
  <2>3. \A d \in Conns : buf'[d] = IF d = c THEN <<>> ELSE buf[d] BY <1>0, <2>1
  <2>4. \A d \in Conns : Len(buf'[d]) <= Cap BY <2>2, <2>3 DEF ChannelInv
  <2>q. QED BY <2>1, <2>4 DEF ChannelInv
<1>8. ASSUME NEW c \in Conns, Ping(c) \/ MarkAll(c) PROVE ChannelInv'
  BY <1>0a, <1>8 DEF Ping, MarkAll, goVars, seenVars
<1>9. CASE ProcessEnds
  <2>1. /\ buf' = [c \in Conns |-> <<>>] /\ view' = [c \in Conns |-> {}] /\ shown' = shown
    BY <1>9 DEF ProcessEnds
  <2>2. Len(<<>>) = 0 /\ Cap \in Nat BY HubAssumption
  <2>q. QED BY <2>1, <2>2 DEF ChannelInv
<1>10. CASE UNCHANGED vars BY <1>0a, <1>10 DEF vars, goVars, seenVars
<1>11. CASE Shutting
  <2>1. ASSUME NEW c \in Conns, buf' = [buf EXCEPT ![c] = <<>>], view' = [view EXCEPT ![c] = {}], shown' = shown
        PROVE  ChannelInv'
    <3>1. Len(<<>>) = 0 /\ Cap \in Nat BY HubAssumption
    <3>2. \A d \in Conns : buf'[d] = IF d = c THEN <<>> ELSE buf[d] BY <1>0, <2>1
    <3>3. \A d \in Conns : Len(buf'[d]) <= Cap BY <3>1, <3>2 DEF ChannelInv
    <3>q. QED BY <2>1, <3>3 DEF ChannelInv
  <2>q. QED BY <1>0a, <1>11, <2>1, ShutFrame
<1>q. QED BY <1>1, <1>2, <1>3, <1>4, <1>5, <1>6, <1>7, <1>8, <1>9, <1>10, <1>11, StepsByKind

\* What the map, the events, the handlers' walks and the channels are, at once.
HubInv == MapInv /\ ToldInv /\ WalkInv /\ ProcInv /\ PlainInv /\ ChannelInv

LEMMA PlainInit == Init => ProcInv /\ PlainInv /\ ChannelInv
<1> SUFFICES ASSUME Init PROVE ProcInv /\ PlainInv /\ ChannelInv
  OBVIOUS
<1>1. PICK scene \in Scenes :
        /\ faults = scene.faults
        /\ heart = [c \in Conns |-> IF c \in scene.open THEN "wait" ELSE "off"]
        /\ view = [c \in Conns |-> IF c \in scene.open \cap Watchers
                     THEN {u \in Users \ {UserOf[c]} : {d \in scene.open : UserOf[d] = u} # {}} ELSE {}]
        /\ budget = [going |-> scene.going, says |-> scene.says, beating |-> scene.beating]
  BY DEF Init
<1>2. /\ scene.faults \subseteq FaultKinds /\ scene.going \subseteq Conns
      /\ scene.says \subseteq Conns \X Saying /\ scene.beating \subseteq Conns
  BY SceneAssumption
<1>3. budget \in Budgets BY <1>1, <1>2 DEF Budgets
<1>4. /\ up = TRUE /\ main = "runs" /\ lock = NoConn /\ pumping = Conns /\ marking = {} /\ missed = {} /\ shown = {}
      /\ had = [m \in Messages |-> {}] /\ buf = [c \in Conns |-> <<>>]
  BY DEF Init
<1>5. ProcInv /\ PlainInv BY <1>1, <1>2, <1>3, <1>4 DEF ProcInv, PlainInv
<1>6. view \in [Conns -> SUBSET Users] BY <1>1
<1>7. \A c \in Conns : Len(buf[c]) <= Cap
  <2>1. Len(<<>>) = 0 /\ Cap \in Nat BY HubAssumption
  <2>q. QED BY <1>4, <2>1
<1>8. ChannelInv BY <1>4, <1>6, <1>7 DEF ChannelInv
<1>q. QED BY <1>5, <1>8

LEMMA HubInit == Init => HubInv
BY MapInit, ToldInit, WalkInit, PlainInit DEF HubInv

LEMMA HubNext == HubInv /\ [Next]_vars => HubInv'
<1> SUFFICES ASSUME HubInv, [Next]_vars PROVE HubInv'
  OBVIOUS
<1>1. MapInv /\ ToldInv /\ WalkInv /\ ProcInv /\ PlainInv /\ ChannelInv /\ WalkOK BY DEF HubInv, ToldInv
<1>2. MapInv' /\ ToldInv' BY <1>1, MapNext, ToldNext
<1>3. WalkInv' BY <1>1, WalkNext
<1>4. ProcInv' /\ PlainInv' BY <1>1, ProcNext, PlainNext
<1>5. ChannelInv' BY <1>1, ChannelNext
<1>q. QED BY <1>2, <1>3, <1>4, <1>5 DEF HubInv

LEMMA HubAlways == Spec => []HubInv
BY HubInit, HubNext, PTL DEF Spec

\* Every variable keeps its type, channels their capacity and walks their shape.
THEOREM HubTypes == Spec => []TypeOK
<1>1. HubInv => TypeOK
  <2> SUFFICES ASSUME HubInv PROVE TypeOK
    OBVIOUS
  <2>1. \A c \in Conns : /\ walk[c].event \in Events /\ walk[c].rest \in Seq(Users)
                         /\ walk[c].to \subseteq Users /\ walk[c].there \subseteq Conns
    BY DEF HubInv, ToldInv, WalkOK, WalkInv, Shaped
  <2>2. budget.says \subseteq Conns \X Saying /\ budget.beating \cup budget.going \subseteq Conns
    BY DEF HubInv, PlainInv, Budgets
  <2>q. QED BY <2>1, <2>2 DEF TypeOK, HubInv, MapInv, MapOK, ToldInv, BufOK, Rows, ProcInv, PlainInv, ChannelInv
<1>q. QED BY <1>1, HubAlways, PTL

\* All handlers but one stay where they are.
Others(c) == \A d \in Conns \ {c} : pc'[d] = pc[d] /\ walk'[d] = walk[d]

LEMMA OthersStay == ASSUME HubInv, NEW c \in Conns, NEW stage,
    pc' = pc \/ Goto(c, stage),
    walk' = walk \/ (\E w : walk' = [walk EXCEPT ![c] = w])
  PROVE Others(c)
<1>1. pc \in [Conns -> Stages] /\ DOMAIN walk = Conns BY DEF HubInv, MapInv, MapOK, ToldInv, WalkOK
<1>q. QED BY <1>1 DEF Others, Goto

-----------------------------------------------------------------------------
(* The hub's lock.  It is held by the one handler that greets, and when that *)
(* handler waits behind its full channel nothing ever frees it.             *)

LockInv ==
  /\ \A c \in Conns : pc[c] = "greeting" <=> lock = c
  /\ lock # NoConn => main # "closing"

LEMMA LockInit == Init => LockInv
<1> SUFFICES ASSUME Init, NEW c \in Conns PROVE pc[c] # "greeting" /\ lock # c
  BY DEF LockInv, Init
<1>1. pc[c] \in {"serve", "new", "gone"} /\ lock = NoConn BY DEF Init
<1>q. QED BY <1>1, HubAssumption

LEMMA LockNext == HubInv /\ LockInv /\ [Next]_vars => LockInv'
<1> SUFFICES ASSUME HubInv, LockInv, [Next]_vars PROVE LockInv'
  OBVIOUS
<1>0. pc \in [Conns -> Stages] BY DEF HubInv, MapInv, MapOK
<1>a. CASE UNCHANGED <<pc, lock, main>> BY <1>a DEF LockInv
<1>b. ASSUME NEW d \in Conns, NEW stage, Goto(d, stage), pc[d] # "greeting", stage # "greeting", UNCHANGED <<lock, main>>
      PROVE  LockInv'
  BY <1>0, <1>b DEF LockInv, Goto
<1>1. ASSUME NEW d \in Conns, Register(d) \/ Unregister(d) \/ Leave(d) \/ Close(d) PROVE LockInv'
  BY <1>b, <1>1 DEF Register, Unregister, Leave, Close, procVars
<1>2. ASSUME NEW d \in Conns, Broadcast(d) \/ Lookup(d) PROVE LockInv'
  BY <1>b, <1>2 DEF Broadcast, Lookup, procVars
<1>3. ASSUME NEW d \in Conns, RangePanics(d) PROVE LockInv'
  BY <1>b, <1>3 DEF RangePanics, Ranging, procVars
<1>4. ASSUME NEW d \in Conns, RangeOver(d) PROVE LockInv'
  BY <1>b, <1>4, RangeEnds DEF RangeOver, Ranging, procVars
<1>5. ASSUME NEW d \in Conns, Incoming(d) PROVE LockInv'
  BY <1>b, <1>5, IncomingFrame DEF procVars
<1>6. ASSUME NEW d \in Conns, GreetLock(d) PROVE LockInv'
  BY <1>0, <1>6, HubAssumption DEF GreetLock, Free, Goto, LockInv, procVars
<1>7. ASSUME NEW d \in Conns, GreetSend(d) \/ GreetPanics(d) PROVE LockInv'
  BY <1>0, <1>7, HubAssumption DEF GreetSend, GreetPanics, Goto, LockInv
<1>8. ASSUME NEW d \in Conns, Heartbeat(d) \/ WritePump(d) \/ Ping(d) \/ MarkAll(d) PROVE LockInv'
  BY <1>a, <1>8 DEF Heartbeat, WritePump, Ping, MarkAll, procVars
<1>9. CASE ProcessEnds BY <1>9, HubAssumption DEF ProcessEnds, LockInv
<1>10. CASE UNCHANGED vars BY <1>a, <1>10 DEF vars, procVars
<1>11. CASE Shutting BY <1>11, ShutFrame DEF LockInv
<1>q. QED BY <1>1, <1>2, <1>3, <1>4, <1>5, <1>6, <1>7, <1>8, <1>9, <1>10, <1>11, StepsByKind

\* Nothing is left in a closed channel.
ClosedInv == \A c \in closed : buf[c] = <<>>

LEMMA ClosedInit == Init => ClosedInv
<1>1. Init => closed \subseteq Conns /\ buf = [c \in Conns |-> <<>>] BY DEF Init
<1>q. QED BY <1>1 DEF ClosedInv

LEMMA ClosedNext == HubInv /\ ClosedInv /\ [Next]_vars => ClosedInv'
<1> SUFFICES ASSUME HubInv, ClosedInv, [Next]_vars PROVE ClosedInv'
  OBVIOUS
<1>0. buf \in [Conns -> Seq(Events)] /\ closed \subseteq Conns BY DEF HubInv, MapInv, MapOK, ToldInv, BufOK
<1>a. ASSUME closed' = closed, \A d \in closed : buf'[d] = buf[d] PROVE ClosedInv' BY <1>a DEF ClosedInv
<1>b. ASSUME NEW c \in Conns, closed' = closed \cup {c}, buf' = [buf EXCEPT ![c] = <<>>] PROVE ClosedInv'
  BY <1>0, <1>b DEF ClosedInv
<1>1. ASSUME NEW c \in Conns, Register(c) \/ Unregister(c) \/ GreetLock(c) \/ GreetPanics(c) \/ Leave(c)
      PROVE ClosedInv'
  BY <1>a, <1>1 DEF Register, Unregister, GreetLock, GreetPanics, Leave
<1>2. ASSUME NEW c \in Conns, Broadcast(c) \/ Lookup(c) \/ Ping(c) \/ MarkAll(c) PROVE ClosedInv'
  BY <1>a, <1>2 DEF Broadcast, Lookup, Ping, MarkAll
<1>3. ASSUME NEW c \in Conns, RangeOver(c) \/ RangePanics(c) PROVE ClosedInv'
  <2>1. closed' = closed /\ \E conns : conns \cap closed = {} /\ SendTo(conns, walk[c].event)
    BY <1>3 DEF RangeOver, RangePanics
  <2>2. \A d \in closed : buf'[d] = buf[d] BY <1>0, <2>1 DEF SendTo
  <2>q. QED BY <1>a, <2>1, <2>2
<1>4. ASSUME NEW c \in Conns, Incoming(c) PROVE ClosedInv' BY <1>a, <1>4, IncomingFrame
<1>5. ASSUME NEW c \in Conns, GreetSend(c) \/ Heartbeat(c) \/ WritePump(c) PROVE ClosedInv'
  <2>1. c \notin closed /\ closed' = closed /\ \A d \in Conns \ {c} : buf'[d] = buf[d]
    BY <1>0, <1>5 DEF GreetSend, Heartbeat, WritePump, ClosedInv
  <2>q. QED BY <1>0, <1>a, <2>1
<1>6. ASSUME NEW c \in Conns, Close(c) \/ ShutdownClose(c) PROVE ClosedInv'
  BY <1>b, <1>6 DEF Close, ShutdownClose
<1>7. CASE ShutdownStarts \/ ShutdownEnds BY <1>a, <1>7 DEF ShutdownStarts, ShutdownEnds
<1>8. CASE ProcessEnds BY <1>8 DEF ProcessEnds, ClosedInv
<1>9. CASE UNCHANGED vars BY <1>a, <1>9 DEF vars
<1>q. QED BY <1>1, <1>2, <1>3, <1>4, <1>5, <1>6, <1>7, <1>8, <1>9, StepsByKind DEF Shutting

\* No step but the end of the process gets a jammed hub going again: nothing
\* reads the channel of a handler that has not been greeted.
JamStep == Jammed /\ up' => Jammed' /\ lock' = lock
JamIsForever == [][JamStep]_vars

LEMMA JamNext == ASSUME HubInv, LockInv, ClosedInv, [Next]_vars PROVE JamStep
<1> SUFFICES ASSUME Jammed, up' PROVE Jammed' /\ lock' = lock
  BY DEF JamStep
<1>0. /\ lock \in Conns /\ main # "closing" /\ lock # NoConn /\ pc[lock] = "greeting" /\ Len(buf[lock]) = Cap
      /\ buf \in [Conns -> Seq(Events)] /\ Cap \in Nat /\ walk[lock].event \in Events
  BY HubAssumption DEF HubInv, PlainInv, LockInv, Jammed, ToldInv, BufOK, WalkOK
<1>a. ASSUME buf'[lock] = buf[lock], lock' = lock PROVE Jammed' /\ lock' = lock
  BY <1>0, <1>a DEF Jammed
<1>b. ~(Len(buf[lock]) < Cap) BY <1>0
<1>1. ASSUME NEW d \in Conns, Register(d) \/ Unregister(d) \/ Leave(d) PROVE Jammed' /\ lock' = lock
  BY <1>a, <1>0, <1>1 DEF Register, Unregister, Leave
<1>2. ASSUME NEW d \in Conns, Broadcast(d) \/ Lookup(d) PROVE Jammed' /\ lock' = lock
  BY <1>a, <1>2 DEF Broadcast, Lookup
<1>3. ASSUME NEW d \in Conns, RangeOver(d) \/ RangePanics(d) PROVE Jammed' /\ lock' = lock
  <2>1. lock' = lock /\ \E conns : SendTo(conns, walk[d].event) BY <1>3 DEF RangeOver, RangePanics
  <2>2. buf'[lock] = buf[lock] BY <1>0, <1>b, <2>1 DEF SendTo
  <2>q. QED BY <1>a, <2>1, <2>2
<1>4. ASSUME NEW d \in Conns, GreetLock(d) PROVE FALSE BY <1>0, <1>4 DEF GreetLock, Free
<1>5. ASSUME NEW d \in Conns, GreetSend(d) PROVE FALSE
  <2>1. d = lock BY <1>0, <1>5 DEF GreetSend, LockInv
  <2>q. QED BY <1>b, <1>5, <2>1 DEF GreetSend
<1>6. ASSUME NEW d \in Conns, Incoming(d) PROVE Jammed' /\ lock' = lock
  BY <1>a, <1>6, IncomingFrame
<1>7. ASSUME NEW d \in Conns, Heartbeat(d) PROVE Jammed' /\ lock' = lock
  <2>1. d # lock BY <1>b, <1>7 DEF Heartbeat
  <2>q. QED BY <1>0, <1>a, <1>7, <2>1 DEF Heartbeat
<1>8. ASSUME NEW d \in Conns, WritePump(d) PROVE Jammed' /\ lock' = lock
  <2>1. d # lock BY <1>0, <1>8 DEF WritePump, Open
  <2>q. QED BY <1>0, <1>a, <1>8, <2>1 DEF WritePump
<1>9. ASSUME NEW d \in Conns, Close(d) PROVE Jammed' /\ lock' = lock
  <2>1. d # lock BY <1>0, <1>9 DEF Close
  <2>q. QED BY <1>0, <1>a, <1>9, <2>1 DEF Close
<1>10. ASSUME NEW d \in Conns, Ping(d) \/ MarkAll(d) PROVE Jammed' /\ lock' = lock
  BY <1>a, <1>10 DEF Ping, MarkAll
<1>11. CASE ProcessEnds BY <1>11 DEF ProcessEnds
<1>12. CASE UNCHANGED vars BY <1>a, <1>12 DEF vars
<1>13. CASE Shutting BY <1>0, <1>a, <1>13, ShutFrame
<1>14. ASSUME NEW d \in Conns, GreetPanics(d) PROVE FALSE
  <2>1. d = lock BY <1>0, <1>14 DEF GreetPanics, LockInv
  <2>2. buf[lock] = <<>> BY <1>14, <2>1 DEF GreetPanics, ClosedInv
  <2>3. Cap # 0 /\ Len(<<>>) = 0 BY HubAssumption
  <2>q. QED BY <1>0, <2>2, <2>3
<1>q. QED BY <1>1, <1>2, <1>3, <1>4, <1>5, <1>6, <1>7, <1>8, <1>9, <1>10, <1>11, <1>12, <1>13, <1>14, StepsByKind

\* A handler that waits under the hub's lock behind its own full channel, which
\* is what Greeted leaves room for, holds up every other one until the process ends.
THEOREM JamsNeverClear == Spec => JamIsForever
<1>1. Spec => [](LockInv /\ ClosedInv)
  BY LockInit, LockNext, ClosedInit, ClosedNext, HubAlways, PTL DEF Spec
<1>2. JamIsForever <=> [][JamStep]_vars BY DEF JamIsForever
<1>q. QED BY <1>1, <1>2, JamNext, HubAlways, PTL DEF Spec
=============================================================================
