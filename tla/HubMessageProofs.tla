--------------------------- MODULE HubMessageProofs ---------------------------
(***************************************************************************)
(* MessageNotForgotten, for any users, connections and capacity: without   *)
(* races, failing statements and a shutdown a saved message is on its way  *)
(* to its receiver, was shown or marked, or the one to mark it is on its   *)
(* way.                                                                    *)
(***************************************************************************)
EXTENDS HubProofs, FiniteSetTheorems

-----------------------------------------------------------------------------
(* Where a saved message is                                                 *)

\* The handler that fans a message out; it has still to look the receiver up;
\* it ranges over the connections the receiver had.
Carries(c, m) == pc[c] \in {"deliver", "push"} /\ walk[c].event = Event("message", m)
Pending(c, m) == Carries(c, m) /\ (pc[c] = "deliver" \/ walk[c].rest # <<>>)
Pushing(c, m) == /\ Carries(c, m) /\ pc[c] = "push" /\ walk[c].rest = <<>>
                 /\ walk[c].there = had[m]

\* It is in the channel of a connection; the receiver has seen it, or every
\* connection that it was sent to and that is left holds it or lost an event.
Waits(d, m) == \E i \in 1..Len(buf[d]) : buf[d][i] = Event("message", m)
Arrived(m) ==
  \/ m \in shown
  \/ \A d \in had[m] \cap hub[To[m]] : d \in missed \/ Waits(d, m)

\* The handler of a user's first connection, until it has marked the messages.
Announcer(c) == pc[c] \in {"inserted", "online", "stuck"} \/ c \in marking
Announced(u) == \E c \in Conns : UserOf[c] = u /\ Announcer(c)

\* The connections it was looked up for get it, or have got it.  When
\* there were none, a connection made since marks it.
Handled(m) ==
  \/ msg[m].delivered
  \/ \E c \in Conns : Pending(c, m)
  \/ /\ Arrived(m) \/ \E c \in Conns : Pushing(c, m)
     /\ had[m] = {} => (hub[To[m]] = {} \/ Announced(To[m]))

OneCarrier == \A m \in Messages : \A c, d \in Conns : Carries(c, m) /\ Carries(d, m) => c = d
HadBefore == \A m \in Messages : \A c \in had[m] : pc[c] # "new"
PumpsFailed == up => Conns \ pumping \subseteq missed
NoneLost == up /\ faults \subseteq {"write"} => \A m \in Messages : msg[m].saved => Handled(m)
MessageInv == OneCarrier /\ HadBefore /\ PumpsFailed /\ NoneLost

LEMMA MessageEvent == ASSUME NEW event \in Events, event.kind = "message"
  PROVE event.about \in Messages /\ event = Event("message", event.about)
BY DEF Events, Event

-----------------------------------------------------------------------------
(* One carrier, and connections that were there before                      *)

\* A handler begins to carry a message only when it saves it.
Saves(c, m) ==
  /\ ~msg[m].saved /\ msg' = [msg EXCEPT ![m].saved = TRUE]
  /\ Goto(c, "deliver")
  /\ walk' = [walk EXCEPT ![c] = Walk(Event("message", m), <<From[m], To[m]>>, {}, {})]

LEMMA CarriesBefore ==
  ASSUME HubInv, [Next]_vars, NEW c \in Conns, NEW m \in Messages, Carries(c, m)'
  PROVE  Carries(c, m) \/ Saves(c, m)
<1>0. /\ pc \in [Conns -> Stages] /\ DOMAIN walk = Conns
      /\ pc'[c] \in {"deliver", "push"} /\ walk'[c].event = Event("message", m)
  BY DEF Carries, HubInv, MapInv, MapOK, ToldInv, WalkOK
<1>a. ASSUME pc'[c] = pc[c], walk'[c] = walk[c] PROVE Carries(c, m) BY <1>0, <1>a DEF Carries
<1>1. ASSUME NEW d \in Conns,
             \/ Register(d) \/ Unregister(d) \/ GreetLock(d) \/ GreetPanics(d) \/ Leave(d)
             \/ GreetSend(d) \/ Close(d) \/ Broadcast(d) \/ RangePanics(d)
      PROVE  Carries(c, m)
  <2>1. \E stage \in Stages \ {"deliver", "push"} : Goto(d, stage)
    BY <1>1 DEF Register, Unregister, GreetLock, GreetPanics, Leave, GreetSend, Close, Broadcast, RangePanics, Stages
  <2>2. d # c BY <1>0, <2>1 DEF Goto
  <2>3. Others(d)
    <3>1. walk' = walk \/ (\E w : walk' = [walk EXCEPT ![d] = w])
      BY <1>1 DEF Register, Unregister, GreetLock, GreetPanics, Leave, GreetSend, Close, Broadcast, RangePanics
    <3>q. QED BY <2>1, <3>1, OthersStay
  <2>q. QED BY <1>a, <2>2, <2>3 DEF Others
<1>2. ASSUME NEW d \in Conns, Lookup(d) PROVE Carries(c, m)
  <2>1. PICK rest, to, there : walk' = [walk EXCEPT ![d] = Walk(walk[d].event, rest, to, there)]
    BY <1>2 DEF Lookup
  <2>2. pc[d] = "deliver" /\ Goto(d, "push") BY <1>2 DEF Lookup
  <2>3. CASE d = c
    <3>1. walk'[c] = Walk(walk[c].event, rest, to, there) BY <1>0, <2>1, <2>3
    <3>2. walk'[c].event = walk[c].event BY <3>1, WalkTold
    <3>q. QED BY <1>0, <2>2, <2>3, <3>2 DEF Carries
  <2>4. CASE d # c BY <1>0, <1>a, <2>1, <2>2, <2>4 DEF Goto
  <2>q. QED BY <2>3, <2>4
<1>3. ASSUME NEW d \in Conns, RangeOver(d) PROVE Carries(c, m)
  <2>1. Others(d) BY <1>3, OthersStay DEF RangeOver, EndRange
  <2>2. CASE d # c BY <1>a, <2>1, <2>2 DEF Others
  <2>3. CASE d = c
    <3>1. pc[c] \in Ranging /\ EndRange(c) BY <1>3, <2>3 DEF RangeOver
    <3>2. pc[c] = "push" BY <1>0, <3>1 DEF Ranging, EndRange, Goto
    <3>3. walk[c].rest # <<>> BY <1>0, <3>1, <3>2 DEF EndRange, NoWalk, Walk, Plain, Event
    <3>4. walk'[c] = Walk(walk[c].event, walk[c].rest, {}, {}) BY <1>0, <3>1, <3>2, <3>3 DEF EndRange
    <3>5. walk'[c].event = walk[c].event BY <3>4, WalkTold
    <3>q. QED BY <1>0, <3>2, <3>5 DEF Carries
  <2>q. QED BY <2>2, <2>3
<1>4. ASSUME NEW d \in Conns, Incoming(d) PROVE Carries(c, m) \/ Saves(c, m)
  <2>1. Others(d) BY <1>4, IncomingWalk, OthersStay DEF FanOut
  <2>2. CASE d # c BY <1>a, <2>1, <2>2 DEF Others
  <2>3. ASSUME d = c, NEW n, NEW kind, NEW users, FanOut(c, Event(kind, n), users)
        PROVE  kind = "message" /\ n = m
    <3>1. walk'[c] = Walk(Event(kind, n), users, {}, {}) BY <1>0, <2>3 DEF FanOut
    <3>2. walk'[c].event = Event(kind, n) BY <3>1, WalkTold
    <3>q. QED BY <1>0, <3>2, EventFields
  <2>4. CASE d = c
    <3>1. PICK n \in Messages : /\ ~msg[n].saved /\ msg' = [msg EXCEPT ![n].saved = TRUE]
                                /\ FanOut(c, Event("message", n), <<From[n], To[n]>>)
      BY <1>4, <2>3, <2>4, IncomingWalk
    <3>2. n = m BY <2>3, <2>4, <3>1
    <3>q. QED BY <3>1, <3>2 DEF Saves, FanOut
  <2>q. QED BY <2>2, <2>4
<1>5. ASSUME NEW d \in Conns, Heartbeat(d) \/ WritePump(d) \/ Ping(d) \/ MarkAll(d) PROVE Carries(c, m)
  BY <1>a, <1>5 DEF Heartbeat, WritePump, Ping, MarkAll
<1>6. CASE ProcessEnds BY <1>0, <1>6 DEF ProcessEnds
<1>7. CASE UNCHANGED vars BY <1>a, <1>7 DEF vars
<1>8. CASE Shutting BY <1>a, <1>8, ShutFrame
<1>q. QED BY <1>1, <1>2, <1>3, <1>4, <1>5, <1>6, <1>7, <1>8, StepsByKind

-----------------------------------------------------------------------------
(* Where a message is stays true                                            *)

\* What a channel holds stays in it, or is shown, or its connection has lost it.
Held(m) ==
  /\ shown \subseteq shown' /\ missed \subseteq missed'
  /\ \A d \in hub'[To[m]] : Waits(d, m) => Waits(d, m)' \/ d \in missed' \/ m \in shown'

LEMMA HeldSame ==
  ASSUME NEW m \in Messages, UNCHANGED <<buf, shown>>, missed \subseteq missed'
  PROVE  Held(m)
BY DEF Held, Waits

LEMMA WaitsAppend ==
  ASSUME HubInv, NEW d \in Conns, NEW m \in Messages, NEW event \in Events, buf'[d] = Append(buf[d], event)
  PROVE  /\ Waits(d, m) => Waits(d, m)'
         /\ event = Event("message", m) => Waits(d, m)'
<1>1. buf[d] \in Seq(Events) BY DEF HubInv, ToldInv, BufOK
<1>2. /\ Len(buf[d]) \in Nat /\ Len(buf'[d]) = Len(buf[d]) + 1
      /\ \A i \in 1..Len(buf[d]) : buf'[d][i] = buf[d][i]
      /\ buf'[d][Len(buf[d]) + 1] = event
  BY <1>1
<1>3. \A i \in 1..Len(buf[d]) : i \in 1..Len(buf'[d]) BY <1>2
<1>4. Len(buf[d]) + 1 \in 1..Len(buf'[d]) BY <1>2
<1>q. QED BY <1>2, <1>3, <1>4 DEF Waits

\* An event that is put into some channels.
LEMMA HeldAppend ==
  ASSUME HubInv, NEW m \in Messages, NEW event \in Events, shown' = shown, missed \subseteq missed',
         \A d \in Conns : buf'[d] = buf[d] \/ buf'[d] = Append(buf[d], event),
         \A u \in Users : hub'[u] \subseteq Conns
  PROVE  Held(m)
<1>1. ASSUME NEW d \in Conns, Waits(d, m) PROVE Waits(d, m)'
  <2>1. CASE buf'[d] = buf[d] BY <1>1, <2>1 DEF Waits
  <2>2. CASE buf'[d] = Append(buf[d], event) BY <1>1, <2>2, WaitsAppend
  <2>q. QED BY <2>1, <2>2
<1>2. To[m] \in Users BY HubAssumption
<1>q. QED BY <1>1, <1>2 DEF Held

LEMMA HeldSend ==
  ASSUME HubInv, NEW m \in Messages, NEW event \in Events, NEW conns, SendTo(conns, event),
         shown' = shown, hub' = hub
  PROVE  Held(m)
<1>1. \A d \in Conns : buf'[d] = buf[d] \/ buf'[d] = Append(buf[d], event) BY DEF SendTo
<1>2. missed \subseteq missed' BY DEF SendTo
<1>3. \A u \in Users : hub'[u] \subseteq Conns BY DEF HubInv, MapInv, MapOK
<1>q. QED BY <1>1, <1>2, <1>3, HeldAppend

\* The pump writes the first event of its channel, or loses it.
LEMMA HeldPump == ASSUME HubInv, NEW m \in Messages, NEW c \in Conns, WritePump(c) PROVE Held(m)
<1> DEFINE first == Head(buf[c])
<1>0. /\ buf \in [Conns -> Seq(Events)] /\ hub \in [Users -> SUBSET Conns] /\ To[m] \in Users
      /\ \A u \in Users : \A d \in hub[u] : UserOf[d] = u
  BY HubAssumption DEF HubInv, MapInv, MapOK, ToldInv, BufOK
<1>1. /\ buf[c] # <<>> /\ buf' = [buf EXCEPT ![c] = Tail(buf[c])] /\ hub' = hub
      /\ \/ /\ missed' = missed
            /\ shown' = IF first.kind = "message" /\ UserOf[c] = To[first.about]
                          THEN shown \cup {first.about} ELSE shown
         \/ missed' = missed \cup {c} /\ shown' = shown
  BY DEF WritePump
<1>2. ASSUME NEW d \in hub[To[m]], Waits(d, m) PROVE Waits(d, m)' \/ d \in missed' \/ m \in shown'
  <2>1. d \in Conns /\ UserOf[d] = To[m] BY <1>0
  <2>2. CASE d # c
    <3>1. buf'[d] = buf[d] BY <1>0, <1>1, <2>1, <2>2
    <3>q. QED BY <1>2, <3>1 DEF Waits
  <2>3. CASE d = c
    <3>1. PICK i \in 1..Len(buf[c]) : buf[c][i] = Event("message", m) BY <1>2, <2>3 DEF Waits
    <3>2. buf[c] \in Seq(Events) /\ buf'[c] = Tail(buf[c]) BY <1>0, <1>1
    <3>3. CASE i = 1
      <4>1. first = Event("message", m) BY <1>1, <3>1, <3>2, <3>3
      <4>2. first.kind = "message" /\ first.about = m BY <4>1, EventFields
      <4>q. QED BY <1>1, <2>1, <2>3, <4>2
    <3>4. CASE i # 1
      <4>1. i - 1 \in 1..Len(Tail(buf[c])) /\ Tail(buf[c])[i - 1] = buf[c][i] BY <1>1, <3>1, <3>2, <3>4
      <4>q. QED BY <2>3, <3>1, <3>2, <4>1 DEF Waits
    <3>q. QED BY <3>3, <3>4
  <2>q. QED BY <2>2, <2>3
<1>q. QED BY <1>1, <1>2 DEF Held

\* A handler closes its channel when it is out of the map.
LEMMA HeldClose == ASSUME HubInv, NEW m \in Messages, NEW c \in Conns, Close(c) PROVE Held(m)
<1>1. /\ pc[c] = "closing" /\ buf' = [buf EXCEPT ![c] = <<>>]
      /\ UNCHANGED <<hub, shown, missed>>
  BY DEF Close, seenVars
<1>2. /\ Placed(c) /\ To[m] \in Users /\ buf \in [Conns -> Seq(Events)]
      /\ hub \in [Users -> SUBSET Conns] /\ \A u \in Users : \A d \in hub[u] : UserOf[d] = u
  BY HubAssumption DEF HubInv, MapInv, MapOK, ToldInv, BufOK
<1>3. c \notin hub[To[m]] BY <1>1, <1>2 DEF Placed, Outside
<1>4. \A d \in hub[To[m]] : buf'[d] = buf[d] BY <1>1, <1>2, <1>3
<1>q. QED BY <1>1, <1>4 DEF Held, Waits

\* What a step of the handler c leaves as it needs to be for the message m.
Kept(c, m) ==
  /\ Others(c) /\ Held(m)
  /\ had'[m] = had[m]
  /\ msg[m].delivered => msg'[m].delivered
  /\ Pending(c, m) => Pending(c, m)'
  /\ Pushing(c, m) => Pushing(c, m)' \/ Arrived(m)'
  /\ had[m] \cap hub'[To[m]] \subseteq hub[To[m]]
  /\ hub[To[m]] = {} => hub'[To[m]] = {} \/ Announced(To[m])'
  /\ \A d \in Conns : UserOf[d] = To[m] /\ Announcer(d) => Announcer(d)' \/ msg'[m].delivered

LEMMA HandledKept == ASSUME NEW c \in Conns, NEW m \in Messages, Handled(m), Kept(c, m)
  PROVE  Handled(m)'
<1>1. \A d \in Conns \ {c} : pc'[d] = pc[d] /\ walk'[d] = walk[d] BY DEF Kept, Others
<1>2. \A d \in Conns : Pending(d, m) => Pending(d, m)'
  BY <1>1 DEF Kept, Pending, Carries
<1>3. \A d \in Conns : Pushing(d, m) => Pushing(d, m)' \/ Arrived(m)'
  BY <1>1 DEF Kept, Pushing, Carries
<1>4. CASE msg[m].delivered BY <1>4 DEF Kept, Handled
<1>5. CASE \E d \in Conns : Pending(d, m) BY <1>2, <1>5 DEF Handled
<1>6. CASE /\ Arrived(m) \/ \E d \in Conns : Pushing(d, m)
           /\ had[m] = {} => (hub[To[m]] = {} \/ Announced(To[m]))
  <2>1. Arrived(m)' \/ \E d \in Conns : Pushing(d, m)'
    <3>1. CASE \E d \in Conns : Pushing(d, m) BY <1>3, <3>1
    <3>2. CASE m \in shown BY <3>2 DEF Kept, Held, Arrived
    <3>3. CASE \A d \in had[m] \cap hub[To[m]] : d \in missed \/ Waits(d, m)
      <4>1. \A d \in had[m] \cap hub'[To[m]] : d \in missed' \/ Waits(d, m)' \/ m \in shown'
        BY <3>3 DEF Kept, Held
      <4>2. had'[m] = had[m] BY DEF Kept
      <4>q. QED BY <4>1, <4>2 DEF Arrived
    <3>q. QED BY <1>6, <3>1, <3>2, <3>3 DEF Arrived
  <2>2. Announced(To[m]) => Announced(To[m])' \/ msg'[m].delivered
    BY DEF Kept, Announced
  <2>3. had'[m] = {} => \/ hub'[To[m]] = {} \/ Announced(To[m])' \/ msg'[m].delivered
    BY <1>6, <2>2 DEF Kept
  <2>q. QED BY <2>1, <2>3 DEF Handled
<1>q. QED BY <1>4, <1>5, <1>6 DEF Handled

\* A handler that carries nothing and announces nobody.
LEMMA QuietKept ==
  ASSUME HubInv, NEW c \in Conns, NEW m \in Messages, Others(c), Held(m),
         pc[c] \notin {"deliver", "push", "inserted", "online", "stuck"},
         \A u \in Users : hub'[u] \subseteq hub[u],
         UNCHANGED <<had, marking, msg>>
  PROVE  Kept(c, m)
<1>1. To[m] \in Users BY HubAssumption
<1>2. ~Pending(c, m) /\ ~Pushing(c, m) BY DEF Pending, Pushing, Carries
<1>3. \A d \in Conns : Announcer(d) => Announcer(d)' BY DEF Announcer, Others
<1>q. QED BY <1>1, <1>2, <1>3 DEF Kept

\* A step that moves no handler.
LEMMA StillKept ==
  ASSUME NEW c \in Conns, NEW m \in Messages, UNCHANGED <<pc, walk, hub, had, marking, msg>>, Held(m)
  PROVE  Kept(c, m)
<1>1. Others(c) BY DEF Others
<1>2. Pending(c, m) <=> Pending(c, m)' BY DEF Pending, Carries
<1>3. Pushing(c, m) <=> Pushing(c, m)' BY DEF Pushing, Carries
<1>4. \A d \in Conns : Announcer(d) => Announcer(d)' BY DEF Announcer
<1>q. QED BY <1>1, <1>2, <1>3, <1>4 DEF Kept

LEMMA RegisterHandled ==
  ASSUME HubInv, HadBefore, NEW c \in Conns, Register(c), NEW m \in Messages, Handled(m)
  PROVE  Handled(m)'
<1> DEFINE u == UserOf[c]
           conns == hub[u] \cup {c}
<1>0. /\ pc \in [Conns -> Stages] /\ hub \in [Users -> SUBSET Conns]
      /\ u \in Users /\ To[m] \in Users
  BY HubAssumption DEF HubInv, MapInv, MapOK
<1>1. /\ pc[c] = "new" /\ hub' = [hub EXCEPT ![u] = conns]
      /\ pc' = [pc EXCEPT ![c] = IF Cardinality(conns) = 1 THEN "inserted" ELSE "greet"]
      /\ UNCHANGED <<walk, buf, marking, msg, had, shown, missed>>
  BY DEF Register, SetConns, Goto, dbVars, seenVars
<1>2. c \notin had[m] BY <1>1 DEF HadBefore
<1>3. Others(c) BY <1>0, <1>1 DEF Others
<1>4. ~Pending(c, m) /\ ~Pushing(c, m) BY <1>1 DEF Pending, Pushing, Carries
<1>5. had[m] \cap hub'[To[m]] \subseteq hub[To[m]] BY <1>0, <1>1, <1>2
<1>6. hub[To[m]] = {} => hub'[To[m]] = {} \/ Announced(To[m])'
  <2>1. CASE To[m] # u BY <1>0, <1>1, <2>1
  <2>2. ASSUME To[m] = u, hub[u] = {} PROVE Announced(To[m])'
    <3>1. conns = {c} BY <2>2
    <3>2. Cardinality(conns) = 1 BY <3>1, FS_Singleton
    <3>3. pc'[c] = "inserted" BY <1>0, <1>1, <3>2
    <3>q. QED BY <2>2, <3>3 DEF Announced, Announcer
  <2>q. QED BY <2>1, <2>2
<1>7. \A d \in Conns : Announcer(d) => Announcer(d)' BY <1>1, <1>3 DEF Announcer, Others
<1>9. Held(m) BY <1>1, HeldSame
<1>8. Kept(c, m) BY <1>1, <1>3, <1>4, <1>5, <1>6, <1>7, <1>9 DEF Kept
<1>q. QED BY <1>8, HandledKept

LEMMA BroadcastKept == ASSUME HubInv, NEW c \in Conns, Broadcast(c), NEW m \in Messages PROVE Kept(c, m)
<1>1. /\ pc[c] \in {"inserted", "removed"} /\ UNCHANGED <<hub, buf, marking, msg, had, shown, missed>>
      /\ pc[c] = "inserted" => Goto(c, "online") \/ Goto(c, "stuck")
  BY DEF Broadcast, dbVars, seenVars
<1>2. Others(c) BY OthersStay DEF Broadcast
<1>3. ~Pending(c, m) /\ ~Pushing(c, m) BY <1>1 DEF Pending, Pushing, Carries
<1>4. pc \in [Conns -> Stages] BY DEF HubInv, MapInv, MapOK
<1>5. \A d \in Conns : Announcer(d) => Announcer(d)'
  <2>1. Announcer(c) => Announcer(c)' BY <1>1, <1>4 DEF Announcer, Goto
  <2>q. QED BY <1>1, <1>2, <2>1 DEF Announcer, Others
<1>6. Held(m) BY <1>1, HeldSame
<1>q. QED BY <1>1, <1>2, <1>3, <1>5, <1>6 DEF Kept

\* Looking up the sender leaves the receiver; looking up the receiver notes the
\* connections it has.
LEMMA LookupHandled ==
  ASSUME HubInv, OneCarrier, NEW c \in Conns, Lookup(c), NEW m \in Messages, Handled(m)
  PROVE  Handled(m)'
<1> DEFINE w == walk[c]
           u == Head(w.rest)
<1>0. pc \in [Conns -> Stages] /\ DOMAIN walk = Conns /\ had \in [Messages -> SUBSET Conns]
      /\ w.event \in Events /\ Shaped(c, pc[c], w)
  BY DEF HubInv, MapInv, MapOK, ToldInv, WalkOK, PlainInv, WalkInv
<1>1. /\ pc[c] = "deliver" /\ pc' = [pc EXCEPT ![c] = "push"]
      /\ walk' = [walk EXCEPT ![c] = Walk(w.event, Tail(w.rest), {u}, hub[u])]
      /\ had' = IF w.event.kind = "message" /\ u = To[w.event.about]
                  THEN [had EXCEPT ![w.event.about] = hub[u]] ELSE had
      /\ UNCHANGED <<hub, buf, marking, msg, shown, missed>>
  BY DEF Lookup, Goto, dbVars
<1>2. Others(c) BY <1>0, <1>1 DEF Others
<1>3. /\ pc'[c] = "push" /\ walk'[c].event = w.event /\ walk'[c].rest = Tail(w.rest)
      /\ walk'[c].there = hub[u]
  <2>1. walk'[c] = Walk(w.event, Tail(w.rest), {u}, hub[u]) BY <1>0, <1>1
  <2>q. QED BY <1>0, <1>1, <2>1, WalkFields
<1>4. \A d \in Conns : Announcer(d) => Announcer(d)' BY <1>1, <1>2 DEF Announcer, Others
<1>5. ~Pushing(c, m) BY <1>1 DEF Pushing
<1>6. CASE w.event # Event("message", m)
  <2>1. had'[m] = had[m] BY <1>0, <1>1, <1>6, MessageEvent
  <2>2. ~Pending(c, m) BY <1>6 DEF Pending, Carries
  <2>4. Held(m) BY <1>1, HeldSame
  <2>3. Kept(c, m) BY <1>1, <1>2, <1>4, <1>5, <2>1, <2>2, <2>4 DEF Kept
  <2>q. QED BY <2>3, HandledKept
<1>7. CASE w.event = Event("message", m)
  <2>1. w.event.kind = "message" /\ w.event.about = m BY <1>7, EventFields
  <2>2. w.rest \in {<<From[m], To[m]>>, <<To[m]>>} BY <1>0, <1>1, <2>1 DEF Shaped
  <2>3. From[m] # To[m] BY HubAssumption
  <2>4. CASE w.rest = <<From[m], To[m]>>
    <3>1. u = From[m] /\ Tail(w.rest) = <<To[m]>> BY <2>4
    <3>2. had' = had BY <1>1, <2>1, <2>3, <3>1
    <3>3. Pending(c, m)' BY <1>3, <1>7, <3>1 DEF Pending, Carries
    <3>q. QED BY <3>3 DEF Handled
  <2>5. CASE w.rest = <<To[m]>>
    <3>1. u = To[m] /\ Tail(w.rest) = <<>> BY <2>5
    <3>2. had'[m] = hub[To[m]] BY <1>0, <1>1, <2>1, <3>1
    <3>3. Pushing(c, m)' BY <1>3, <1>7, <3>1, <3>2 DEF Pushing, Carries
    <3>4. had'[m] = {} => hub'[To[m]] = {} BY <1>1, <3>2
    <3>q. QED BY <3>3, <3>4 DEF Handled
  <2>q. QED BY <2>2, <2>4, <2>5
<1>q. QED BY <1>6, <1>7

\* A range over the receiver's connections reaches those that are left, whose
\* channels take the message or are full.
LEMMA RangeKept ==
  ASSUME HubInv, NEW c \in Conns, RangeOver(c), NEW m \in Messages
  PROVE  Kept(c, m)
<1> DEFINE w == walk[c]
<1>0. /\ pc \in [Conns -> Stages] /\ DOMAIN walk = Conns /\ hub \in [Users -> SUBSET Conns]
      /\ w.event \in Events /\ Shaped(c, pc[c], w) /\ To[m] \in Users
      /\ \A u \in Users : \A d \in hub[u] : UserOf[d] = u
  BY HubAssumption DEF HubInv, MapInv, MapOK, ToldInv, WalkOK, WalkInv
<1>1. pc[c] \in Ranging /\ EndRange(c) /\ UNCHANGED <<hub, msg, had, shown>>
  BY DEF RangeOver
<1>2. PICK conns \in SUBSET Conns : Reaches(c, conns) /\ SendTo(conns, w.event)
  BY DEF RangeOver
<1>3. Others(c) BY <1>1, OthersStay DEF EndRange
<1>4. Held(m) BY <1>0, <1>1, <1>2, HeldSend
<1>5. \A d \in Conns : Announcer(d) => Announcer(d)'
  <2>1. Announcer(c) => Announcer(c)'
    BY <1>0, <1>1 DEF Announcer, EndRange, Ranging
  <2>2. marking \subseteq marking' BY <1>1 DEF EndRange
  <2>q. QED BY <1>3, <2>1, <2>2 DEF Announcer, Others
<1>6. Pending(c, m) => Pending(c, m)'
  <2> SUFFICES ASSUME Pending(c, m) PROVE Pending(c, m)'
    OBVIOUS
  <2>1. pc[c] = "push" /\ w.rest # <<>> /\ w.event = Event("message", m)
    BY <1>1 DEF Pending, Carries, Ranging
  <2>2. pc'[c] = "deliver" BY <1>0, <1>1, <2>1 DEF EndRange, Goto
  <2>3. walk'[c] = Walk(w.event, w.rest, {}, {}) BY <1>0, <1>1, <2>1 DEF EndRange
  <2>4. walk'[c].event = w.event BY <2>3, WalkTold
  <2>q. QED BY <2>1, <2>2, <2>4 DEF Pending, Carries
<1>7. Pushing(c, m) => Arrived(m)'
  <2> SUFFICES ASSUME Pushing(c, m), NEW d \in had[m] \cap hub[To[m]] PROVE d \in missed' \/ Waits(d, m)'
    BY <1>1 DEF Arrived
  <2>1. pc[c] = "push" /\ w.rest = <<>> /\ w.there = had[m] /\ w.event = Event("message", m)
    BY DEF Pushing, Carries
  <2>2. w.event.kind = "message" /\ w.event.about = m BY <2>1, EventFields
  <2>3. w.to = {To[m]} BY <1>0, <2>1, <2>2 DEF Shaped
  <2>4. UNION {hub[u] : u \in w.to} = hub[To[m]] BY <2>3
  <2>5. d \in conns /\ d \in Conns BY <1>0, <1>2, <2>1, <2>4 DEF Reaches
  <2>6. CASE Len(buf[d]) < Cap
    <3>1. buf'[d] = Append(buf[d], w.event) BY <1>2, <2>5, <2>6 DEF SendTo
    <3>q. QED BY <1>0, <2>1, <2>5, <3>1, WaitsAppend
  <2>7. CASE ~(Len(buf[d]) < Cap) BY <1>2, <2>5, <2>7 DEF SendTo
  <2>q. QED BY <2>6, <2>7
<1>q. QED BY <1>1, <1>3, <1>4, <1>5, <1>6, <1>7 DEF Kept

\* A message that has just been saved is still to be looked up for its receiver.
LEMMA SavesHandled == ASSUME HubInv, NEW c \in Conns, NEW m \in Messages, Saves(c, m) PROVE Handled(m)'
<1>0. pc \in [Conns -> Stages] /\ DOMAIN walk = Conns BY DEF HubInv, MapInv, MapOK, ToldInv, WalkOK
<1>1. pc'[c] = "deliver" BY <1>0 DEF Saves, Goto
<1>2. walk'[c] = Walk(Event("message", m), <<From[m], To[m]>>, {}, {}) BY <1>0 DEF Saves
<1>3. walk'[c].event = Event("message", m) BY <1>2, WalkTold
<1>q. QED BY <1>1, <1>3 DEF Handled, Pending, Carries

\* A step that saves no message, without races and failing statements.
LEMMA StepHandled ==
  ASSUME HubInv, OneCarrier, HadBefore, up, faults \subseteq {"write"}, [Next]_vars, ~ProcessEnds,
         NEW m \in Messages, Handled(m), msg[m].saved
  PROVE  Handled(m)'
<1>0. hub \in [Users -> SUBSET Conns] /\ buf \in [Conns -> Seq(Events)]
  BY DEF HubInv, MapInv, MapOK, ToldInv, BufOK
<1>m. main = "runs" /\ MapInv BY DEF HubInv, ProcInv
<1>1. ASSUME NEW c \in Conns, Unregister(c) PROVE Handled(m)'
  <2>1. pc[c] = "cancelled" /\ hub' = [hub EXCEPT ![UserOf[c]] = hub[UserOf[c]] \ {c}]
        /\ UNCHANGED <<buf, had, marking, msg, shown, missed>>
    BY <1>1 DEF Unregister, SetConns, dbVars, seenVars
  <2>2. \A u \in Users : hub'[u] \subseteq hub[u] BY <1>0, <2>1
  <2>3. Others(c) BY <1>1, OthersStay DEF Unregister
  <2>5. Held(m) BY <2>1, HeldSame
  <2>4. Kept(c, m) BY <2>1, <2>2, <2>3, <2>5, QuietKept
  <2>q. QED BY <2>4, HandledKept
<1>2. ASSUME NEW c \in Conns, GreetLock(c) \/ Leave(c) \/ GreetSend(c) \/ Close(c) PROVE Handled(m)'
  <2>1. pc[c] \in {"greet", "serve", "greeting", "closing"}
        /\ UNCHANGED <<hub, had, marking, msg, shown, missed>>
    BY <1>2 DEF GreetLock, Leave, GreetSend, Close, dbVars, seenVars
  <2>2. Held(m)
    <3>1. CASE GreetLock(c) \/ Leave(c) BY <2>1, <3>1, HeldSame DEF GreetLock, Leave
    <3>2. CASE GreetSend(c)
      <4>1. PICK event \in Events : buf' = [buf EXCEPT ![c] = Append(@, event)]
        <5>1. Online \ {UserOf[c]} \subseteq Users BY DEF Online
        <5>q. QED BY <3>2, <5>1, EventKinds DEF GreetSend
      <4>2. \A d \in Conns : buf'[d] = buf[d] \/ buf'[d] = Append(buf[d], event) BY <1>0, <4>1
      <4>q. QED BY <1>0, <2>1, <4>2, HeldAppend
    <3>3. CASE Close(c) BY <3>3, HeldClose
    <3>q. QED BY <1>2, <3>1, <3>2, <3>3
  <2>3. Others(c) BY <1>2, OthersStay DEF GreetLock, Leave, GreetSend, Close
  <2>4. Kept(c, m) BY <2>1, <2>2, <2>3, QuietKept
  <2>q. QED BY <2>4, HandledKept
<1>3. ASSUME NEW c \in Conns, Heartbeat(c) \/ WritePump(c) \/ Ping(c) PROVE Handled(m)'
  <2>1. UNCHANGED <<pc, walk, hub, had, marking, msg>>
    BY <1>3 DEF Heartbeat, WritePump, Ping, dbVars, seenVars
  <2>2. Held(m)
    <3>1. CASE Heartbeat(c)
      <4>1. /\ buf' = [buf EXCEPT ![c] = Append(@, Plain("heartbeat"))] /\ Plain("heartbeat") \in Events
            /\ shown' = shown /\ missed' = missed
        BY <3>1, EventKinds DEF Heartbeat, seenVars
      <4>2. \A d \in Conns : buf'[d] = buf[d] \/ buf'[d] = Append(buf[d], Plain("heartbeat"))
        BY <1>0, <4>1
      <4>q. QED BY <1>0, <2>1, <4>1, <4>2, HeldAppend
    <3>2. CASE Ping(c) BY <3>2, HeldSame DEF Ping, seenVars
    <3>q. QED BY <1>3, <3>1, <3>2, HeldPump
  <2>3. Kept(c, m) BY <2>1, <2>2, StillKept
  <2>q. QED BY <2>3, HandledKept
<1>4. ASSUME NEW c \in Conns, MarkAll(c) PROVE Handled(m)'
  <2>1. /\ marking' = marking \ {c} /\ UNCHANGED <<hub, pc, walk, buf, had, shown, missed>>
        /\ msg' = [n \in Messages |->
             IF msg[n].saved /\ To[n] = UserOf[c] THEN [msg[n] EXCEPT !.delivered = TRUE] ELSE msg[n]]
    BY <1>4 DEF MarkAll, seenVars
  <2>2. msg[m] \in [saved : BOOLEAN, delivered : BOOLEAN, read : BOOLEAN]
    BY DEF HubInv, ToldInv, Rows
  <2>3. CASE To[m] = UserOf[c]
    <3>1. msg'[m].delivered BY <2>1, <2>2, <2>3
    <3>q. QED BY <3>1 DEF Handled
  <2>4. CASE To[m] # UserOf[c]
    <3>1. msg'[m] = msg[m] BY <2>1, <2>4
    <3>2. \A d \in Conns : UserOf[d] = To[m] /\ Announcer(d) => Announcer(d)'
      BY <2>1, <2>4 DEF Announcer
    <3>3. Others(c) BY <2>1 DEF Others
    <3>4. Pending(c, m) <=> Pending(c, m)' BY <2>1 DEF Pending, Carries
    <3>5. Pushing(c, m) <=> Pushing(c, m)' BY <2>1 DEF Pushing, Carries
    <3>7. Held(m) BY <2>1, HeldSame
    <3>6. Kept(c, m) BY <2>1, <3>1, <3>2, <3>3, <3>4, <3>5, <3>7 DEF Kept
    <3>q. QED BY <3>6, HandledKept
  <2>q. QED BY <2>3, <2>4
<1>5. ASSUME NEW c \in Conns, RangeOver(c) \/ Broadcast(c) PROVE Handled(m)'
  BY <1>5, RangeKept, BroadcastKept, HandledKept
<1>6. ASSUME NEW c \in Conns, RangePanics(c) \/ GreetPanics(c) PROVE FALSE
  <2>1. /\ \A d \in closed : pc[d] = "gone" /\ d \notin Registered
        /\ dropped = {} /\ "race" \notin faults
    BY <1>m, PlacedWhileRuns DEF MapInv, MapOK
  <2>q. QED BY <1>6, <2>1 DEF RangePanics, GreetPanics
<1>7. ASSUME NEW c \in Conns, Incoming(c) PROVE Handled(m)'
  <2>1. pc[c] = "serve" /\ UNCHANGED <<hub, buf, had, marking, shown, missed>>
    BY <1>7, IncomingFrame DEF seenVars
  <2>2. Others(c) BY <1>7, IncomingWalk, OthersStay DEF FanOut
  <2>3. msg[m].delivered => msg'[m].delivered
    <3>1. msg \in Rows BY DEF HubInv, ToldInv
    <3>2. ASSUME NEW n \in Messages, NEW kind \in {"saved", "delivered", "read"},
                 msg' = [msg EXCEPT ![n][kind] = TRUE]
          PROVE  msg[m].delivered => msg'[m].delivered
      <4>1. CASE n # m BY <3>1, <3>2, <4>1 DEF Rows
      <4>2. CASE n = m /\ kind = "delivered" BY <3>1, <3>2, <4>2 DEF Rows
      <4>3. CASE n = m /\ kind # "delivered" BY <3>1, <3>2, <4>3 DEF Rows
      <4>q. QED BY <4>1, <4>2, <4>3
    <3>3. CASE msg' = msg BY <3>3
    <3>4. CASE \E n \in Messages : msg' = [msg EXCEPT ![n].saved = TRUE] BY <3>2, <3>4
    <3>5. CASE \E n \in Messages : \E kind \in {"delivered", "read"} : msg' = [msg EXCEPT ![n][kind] = TRUE]
      BY <3>2, <3>5
    <3>q. QED BY <1>7, <3>3, <3>4, <3>5, IncomingWalk
  <2>4. ~Pending(c, m) /\ ~Pushing(c, m) BY <2>1 DEF Pending, Pushing, Carries
  <2>5. \A d \in Conns : Announcer(d) => Announcer(d)' BY <2>1, <2>2 DEF Announcer, Others
  <2>7. Held(m) BY <2>1, HeldSame
  <2>6. Kept(c, m) BY <2>1, <2>2, <2>3, <2>4, <2>5, <2>7 DEF Kept
  <2>q. QED BY <2>6, HandledKept
<1>8. CASE UNCHANGED vars
  <2>1. UNCHANGED <<pc, walk, hub, buf, had, marking, msg, shown, missed>>
    BY <1>8 DEF vars, dbVars, seenVars
  <2>q. QED BY <2>1 DEF Handled, Pending, Pushing, Carries, Announced, Announcer, Arrived, Waits
<1>9. ~Shutting BY <1>m, ShutFrame
<1>q. QED BY <1>1, <1>2, <1>3, <1>4, <1>5, <1>6, <1>7, <1>8, <1>9, RegisterHandled, LookupHandled, StepsByKind

\* Rows are saved by the step that begins to carry them.
LEMMA SavedBefore == ASSUME HubInv, [Next]_vars, NEW m \in Messages, msg'[m].saved
  PROVE msg[m].saved \/ \E c \in Conns : Saves(c, m)
<1>0. msg \in Rows BY DEF HubInv, ToldInv
<1>1. CASE UNCHANGED msg BY <1>1
<1>2. ASSUME NEW c \in Conns, \/ Register(c) \/ Unregister(c) \/ GreetLock(c) \/ GreetPanics(c) \/ Leave(c)
                              \/ Broadcast(c) \/ Lookup(c) \/ RangeOver(c) \/ RangePanics(c)
      PROVE msg[m].saved
  <2>1. msg' = msg BY <1>2 DEF Register, Unregister, GreetLock, GreetPanics, Leave, Broadcast, Lookup, RangeOver, RangePanics, dbVars
  <2>q. QED BY <2>1
<1>3. ASSUME NEW c \in Conns, \/ GreetSend(c) \/ Heartbeat(c) \/ WritePump(c) \/ Close(c) \/ Ping(c)
      PROVE msg[m].saved
  <2>1. msg' = msg BY <1>3 DEF GreetSend, Heartbeat, WritePump, Close, Ping, dbVars
  <2>q. QED BY <2>1
<1>4. ASSUME NEW c \in Conns, MarkAll(c) PROVE msg[m].saved
  BY <1>0, <1>4 DEF MarkAll, Rows
<1>5. ASSUME NEW c \in Conns, Incoming(c) PROVE msg[m].saved \/ Saves(c, m)
  <2>1. CASE msg' = msg BY <2>1
  <2>2. ASSUME NEW n \in Messages, NEW kind \in {"delivered", "read"}, msg' = [msg EXCEPT ![n][kind] = TRUE]
        PROVE msg[m].saved
    <3>1. CASE kind = "delivered" BY <1>0, <2>2, <3>1 DEF Rows
    <3>2. CASE kind = "read" BY <1>0, <2>2, <3>2 DEF Rows
    <3>q. QED BY <3>1, <3>2
  <2>3. ASSUME NEW n \in Messages, ~msg[n].saved, msg' = [msg EXCEPT ![n].saved = TRUE],
               FanOut(c, Event("message", n), <<From[n], To[n]>>), Goto(c, "deliver")
        PROVE msg[m].saved \/ Saves(c, m)
    <3>1. CASE n = m BY <2>3, <3>1 DEF Saves, FanOut
    <3>2. CASE n # m BY <1>0, <2>3, <3>2 DEF Rows
    <3>q. QED BY <3>1, <3>2
  <2>q. QED BY <1>5, <2>1, <2>2, <2>3, IncomingWalk
<1>6. CASE ProcessEnds BY <1>6 DEF ProcessEnds
<1>7. CASE UNCHANGED vars BY <1>7 DEF vars, dbVars
<1>8. CASE Shutting BY <1>8, ShutFrame
<1>q. QED BY <1>2, <1>3, <1>4, <1>5, <1>6, <1>7, <1>8, StepsByKind

\* Connections the receiver had are never new again.
LEMMA HadNext == ASSUME HubInv, HadBefore, [Next]_vars PROVE HadBefore'
<1> SUFFICES ASSUME NEW m \in Messages, NEW d \in had'[m] PROVE pc'[d] # "new"
  BY DEF HadBefore
<1>0. /\ pc \in [Conns -> Stages] /\ had \in [Messages -> SUBSET Conns]
      /\ hub \in [Users -> SUBSET Conns] /\ \A u \in Users : \A c \in hub[u] : UserOf[c] = u
      /\ \A c \in Conns : Placed(c)
  BY DEF HubInv, MapInv, MapOK, PlainInv
<1>1. ASSUME NEW c \in Conns, pc[c] # "new" PROVE pc'[c] # "new"
  <2>a. CASE pc' = pc BY <1>1, <2>a
  <2>b. CASE \E e \in Conns : \E stage : Goto(e, stage) /\ stage # "new" BY <1>0, <1>1, <2>b DEF Goto
  <2>1. ASSUME NEW e \in Conns, \/ Register(e) \/ Unregister(e) \/ GreetLock(e) \/ GreetPanics(e)
                                \/ Leave(e) \/ GreetSend(e) \/ Close(e)
        PROVE pc'[c] # "new"
    BY <2>b, <2>1 DEF Register, Unregister, GreetLock, GreetPanics, Leave, GreetSend, Close
  <2>2. ASSUME NEW e \in Conns, Broadcast(e) \/ Lookup(e) \/ RangePanics(e) PROVE pc'[c] # "new"
    BY <2>b, <2>2 DEF Broadcast, Lookup, RangePanics
  <2>3. ASSUME NEW e \in Conns, RangeOver(e) PROVE pc'[c] # "new"
    BY <2>b, <2>3, RangeEnds DEF RangeOver
  <2>4. ASSUME NEW e \in Conns, Incoming(e) PROVE pc'[c] # "new"
    BY <2>b, <2>4, IncomingWalk
  <2>5. ASSUME NEW e \in Conns, Heartbeat(e) \/ WritePump(e) \/ Ping(e) \/ MarkAll(e) PROVE pc'[c] # "new"
    BY <2>a, <2>5 DEF Heartbeat, WritePump, Ping, MarkAll
  <2>6. CASE ProcessEnds BY <2>6 DEF ProcessEnds
  <2>7. CASE UNCHANGED vars BY <2>a, <2>7 DEF vars
  <2>8. CASE Shutting BY <2>a, <2>8, ShutFrame
  <2>q. QED BY <2>1, <2>2, <2>3, <2>4, <2>5, <2>6, <2>7, <2>8, StepsByKind
<1>2. CASE d \in had[m] BY <1>0, <1>1, <1>2 DEF HadBefore
<1>3. CASE d \in hub[To[m]]
  <2>1. d \in Conns /\ pc[d] # "new"
    <3>1. d \in Conns /\ UserOf[d] = To[m] BY <1>0, <1>3, HubAssumption
    <3>q. QED BY <1>0, <1>3, <3>1 DEF Placed, Outside
  <2>q. QED BY <1>1, <2>1
<1>4. had'[m] = had[m] \/ had'[m] = hub[To[m]]
  <2>1. ASSUME NEW c \in Conns, Lookup(c) PROVE had'[m] = had[m] \/ had'[m] = hub[To[m]]
    <3>1. \/ had' = had
          \/ \E n \in Messages : had' = [had EXCEPT ![n] = hub[To[n]]]
      <4>1. walk[c].event \in Events BY DEF HubInv, ToldInv, WalkOK
      <4>q. QED BY <2>1, <4>1, AboutMessages DEF Lookup
    <3>q. QED BY <1>0, <3>1
  <2>2. ASSUME NEW c \in Conns, \/ Register(c) \/ Unregister(c) \/ GreetLock(c) \/ GreetPanics(c) \/ Leave(c)
                                \/ Broadcast(c) \/ RangeOver(c) \/ RangePanics(c)
        PROVE had' = had
    BY <2>2 DEF Register, Unregister, GreetLock, GreetPanics, Leave, Broadcast, RangeOver, RangePanics, seenVars
  <2>3. ASSUME NEW c \in Conns, \/ GreetSend(c) \/ Heartbeat(c) \/ WritePump(c) \/ Close(c) \/ Ping(c) \/ MarkAll(c)
        PROVE had' = had
    BY <2>3 DEF GreetSend, Heartbeat, WritePump, Close, Ping, MarkAll, seenVars
  <2>4. ASSUME NEW c \in Conns, Incoming(c) PROVE had' = had
    BY <2>4, IncomingFrame DEF seenVars
  <2>5. CASE ProcessEnds BY <2>5 DEF ProcessEnds
  <2>6. CASE UNCHANGED vars BY <2>6 DEF vars, seenVars
  <2>7. CASE Shutting BY <2>7, ShutFrame
  <2>q. QED BY <2>1, <2>2, <2>3, <2>4, <2>5, <2>6, <2>7, StepsByKind
<1>q. QED BY <1>2, <1>3, <1>4

\* Only the handler that saves a message ever carries it.
LEMMA CarrierNext == ASSUME HubInv, OneCarrier, [Next]_vars PROVE OneCarrier'
<1> SUFFICES ASSUME NEW m \in Messages, NEW c \in Conns, NEW d \in Conns, Carries(c, m)', Carries(d, m)'
             PROVE  c = d
  BY DEF OneCarrier
<1>1. \A e \in Conns : Carries(e, m) => msg[m].saved
  BY EventFields DEF HubInv, ToldInv, WalkOK, Told, Carries
<1>2. Carries(c, m) \/ Saves(c, m) BY CarriesBefore
<1>3. Carries(d, m) \/ Saves(d, m) BY CarriesBefore
<1>4. CASE Carries(c, m) /\ Carries(d, m) BY <1>4 DEF OneCarrier
<1>5. ASSUME NEW e \in Conns, NEW f \in Conns, Saves(e, m), Carries(f, m)' PROVE e = f
  <2>1. ~Carries(f, m) BY <1>1, <1>5 DEF Saves
  <2>2. Saves(f, m) BY <1>5, <2>1, CarriesBefore
  <2>3. pc' = [pc EXCEPT ![e] = "deliver"] /\ DOMAIN walk = Conns /\ pc \in [Conns -> Stages]
        /\ walk' = [walk EXCEPT ![e] = Walk(Event("message", m), <<From[m], To[m]>>, {}, {})]
    BY <1>5 DEF Saves, Goto, HubInv, MapInv, MapOK, ToldInv, WalkOK
  <2>4. f # e => pc'[f] = pc[f] /\ walk'[f] = walk[f] BY <2>3
  <2>q. QED BY <1>5, <2>1, <2>4 DEF Carries
<1>q. QED BY <1>2, <1>3, <1>4, <1>5

\* A pump that gives up loses what its channel holds.
LEMMA PumpsNext == ASSUME PumpsFailed, [Next]_vars PROVE PumpsFailed'
<1> SUFFICES ASSUME up' PROVE Conns \ pumping' \subseteq missed'
  BY DEF PumpsFailed
<1>1. ~ProcessEnds BY DEF ProcessEnds
<1>2. Conns \ pumping \subseteq missed
  <2>1. up BY DEF Next, vars, procVars
  <2>q. QED BY <2>1 DEF PumpsFailed
<1>3. missed \subseteq missed' BY <1>1, MissedKept
<1>4. pumping' = pumping \/ \E c \in Conns : pumping' = pumping \ {c} /\ c \in missed'
  <2>1. ASSUME NEW c \in Conns, \/ Register(c) \/ Unregister(c) \/ GreetLock(c) \/ GreetPanics(c) \/ Leave(c)
                                \/ Broadcast(c) \/ Lookup(c) \/ RangeOver(c) \/ RangePanics(c)
        PROVE  pumping' = pumping
    BY <2>1 DEF Register, Unregister, GreetLock, GreetPanics, Leave, Broadcast, Lookup, RangeOver, RangePanics, goVars
  <2>2. ASSUME NEW c \in Conns, GreetSend(c) \/ Heartbeat(c) \/ Close(c) \/ Ping(c) \/ MarkAll(c)
        PROVE  pumping' = pumping
    BY <2>2 DEF GreetSend, Heartbeat, Close, Ping, MarkAll, goVars
  <2>3. ASSUME NEW c \in Conns, WritePump(c)
        PROVE  pumping' = pumping \/ (pumping' = pumping \ {c} /\ c \in missed')
    BY <2>3 DEF WritePump
  <2>4. ASSUME NEW c \in Conns, Incoming(c) PROVE pumping' = pumping BY <2>4, IncomingFrame
  <2>5. UNCHANGED vars => pumping' = pumping BY DEF vars, goVars
  <2>6. Shutting => pumping' = pumping BY ShutFrame
  <2>q. QED BY <1>1, <2>1, <2>2, <2>3, <2>4, <2>5, <2>6, StepsByKind
<1>q. QED BY <1>2, <1>3, <1>4

LEMMA MessageInit == Init => MessageInv
<1> SUFFICES ASSUME Init PROVE MessageInv
  OBVIOUS
<1>1. \A c \in Conns : pc[c] \in {"serve", "new", "gone"} BY DEF Init
<1>2. had = [m \in Messages |-> {}] /\ msg = [m \in Messages |-> NoRow] BY DEF Init
<1>3. pumping = Conns BY DEF Init
<1>q. QED BY <1>1, <1>2, <1>3 DEF MessageInv, OneCarrier, Carries, HadBefore, PumpsFailed, NoneLost, NoRow

LEMMA MessageNext == HubInv /\ MessageInv /\ [Next]_vars => MessageInv'
<1> SUFFICES ASSUME HubInv, MessageInv, [Next]_vars PROVE MessageInv'
  OBVIOUS
<1>0. OneCarrier /\ HadBefore /\ PumpsFailed /\ NoneLost BY DEF MessageInv
<1>1. OneCarrier' /\ HadBefore' /\ PumpsFailed' BY <1>0, CarrierNext, HadNext, PumpsNext
<1>2. NoneLost'
  <2> SUFFICES ASSUME up', faults' \subseteq {"write"}, NEW m \in Messages, msg'[m].saved PROVE Handled(m)'
    BY DEF NoneLost
  <2>1. ~ProcessEnds BY DEF ProcessEnds
  <2>2. up BY DEF Next, vars, procVars
  <2>3. faults \subseteq {"write"}
    <3>1. faults' = faults BY <2>1, ProcFrame, ShutFrame
    <3>q. QED BY <3>1
  <2>4. CASE msg[m].saved
    <3>1. Handled(m) BY <1>0, <2>2, <2>3, <2>4 DEF NoneLost
    <3>q. QED BY <1>0, <2>1, <2>2, <2>3, <2>4, <3>1, StepHandled
  <2>5. CASE ~msg[m].saved BY <2>5, SavedBefore, SavesHandled
  <2>q. QED BY <2>4, <2>5
<1>q. QED BY <1>1, <1>2 DEF MessageInv

\* A saved message reaches its receiver, also when writes to sockets and pings
\* fail: it was written to one of the receiver's sockets, or marked when the
\* receiver came back, unless the receiver is away or every connection the message
\* was sent to has gone, was full or lost its pump.
THEOREM MessagesNotForgotten == Spec => []MessageNotForgotten
<1>1. HubInv /\ MessageInv => MessageNotForgotten
  <2> SUFFICES ASSUME HubInv, MessageInv, Settled, marking = {}, faults \subseteq {"write"},
                      NEW m \in Messages, msg[m].saved, Drained(To[m])
               PROVE  \/ m \in shown \/ msg[m].delivered
                      \/ hub[To[m]] = {}
                      \/ had[m] # {} /\ had[m] \cap hub[To[m]] \subseteq missed
    BY DEF MessageNotForgotten
  <2>1. up /\ \A c \in Conns : pc[c] \in {"new", "serve", "gone"} BY DEF Settled
  <2>2. Handled(m) BY <2>1 DEF MessageInv, NoneLost
  <2>3. \A c \in Conns : ~Pending(c, m) /\ ~Pushing(c, m) BY <2>1 DEF Pending, Pushing, Carries
  <2>4. ~Announced(To[m]) BY <2>1 DEF Announced, Announcer
  <2>5. \A d \in hub[To[m]] : Waits(d, m) => d \in missed
    <3> SUFFICES ASSUME NEW d \in hub[To[m]], Waits(d, m) PROVE d \in missed
      OBVIOUS
    <3>1. d \in Conns BY HubAssumption DEF HubInv, MapInv, MapOK
    <3>2. buf[d] # <<>>
      <4>1. Len(<<>>) = 0 OBVIOUS
      <4>q. QED BY <4>1 DEF Waits
    <3>3. d \notin pumping BY <3>2 DEF Drained
    <3>q. QED BY <2>1, <3>1, <3>3 DEF MessageInv, PumpsFailed
  <2>6. Arrived(m) => m \in shown \/ had[m] \cap hub[To[m]] \subseteq missed
    BY <2>5 DEF Arrived
  <2>q. QED BY <2>2, <2>3, <2>4, <2>6 DEF Handled
<1>2. Spec => []MessageInv BY MessageInit, MessageNext, HubAlways, PTL DEF Spec
<1>q. QED BY <1>1, <1>2, HubAlways, PTL
=============================================================================
