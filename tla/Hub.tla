--------------------------------- MODULE Hub ---------------------------------
(***************************************************************************)
(* WebSocket connections of the chat: realtime.Hub and realtime.Client,    *)
(* the goroutines routes/websocket.go starts for each connection, and what *)
(* they do to the messages table.                                          *)
(*                                                                         *)
(* A connection is served by three goroutines: its handler (register,      *)
(* greet, read events, unregister, close), a pump that writes its channel  *)
(* to the socket, and a heartbeat that puts events into that channel.      *)
(* Handlers also put events into the channels of other connections, which  *)
(* they find by ranging over the hub's maps without holding its lock.      *)
(*                                                                         *)
(* Events keep what other parts react to: whose presence, which message.   *)
(* Typing notices and error texts are events without content.              *)
(***************************************************************************)
EXTENDS Naturals, Sequences, FiniteSets

CONSTANTS
  Users,
  Conns,        \* connections that are ever made; each is a new Client
  UserOf,       \* the user of a connection
  Messages,     \* messages that are ever sent, between two different users
  From, To,     \* sender and receiver of a message
  Cap,          \* capacity of Client.Send, 512 in the code
  Watchers,     \* connections whose client shows who is online
  Scenes,       \* what behaviours start with, are exposed to and may do
  NoConn        \* nobody holds the hub's lock

FaultKinds ==
  { "race",    \* an unlocked range or a copied lock overlaps a change of the maps
    "write",   \* a write to the socket, or a ping, fails or times out
    "db",      \* a statement on the messages table fails
    "stop" }   \* the process is told to stop while connections are served

ASSUME HubAssumption ==
  /\ UserOf \in [Conns -> Users]
  /\ From \in [Messages -> Users] /\ To \in [Messages -> Users]
  /\ \A m \in Messages : From[m] # To[m]
  /\ Cap \in Nat \ {0}
  /\ Watchers \subseteq Conns
  /\ NoConn \notin Conns
\* Scene: the connections already served when a behaviour starts, those still
\* to come, the failures that may happen, and as bounds the connections that may
\* go, the events that each may send once, and those that have one heartbeat.
Saying == {"message", "receipt", "typing", "bad"}
ASSUME SceneAssumption ==
  /\ Scenes \subseteq [open : SUBSET Conns, coming : SUBSET Conns, going : SUBSET Conns,
                      faults : SUBSET FaultKinds, says : SUBSET (Conns \X Saying), beating : SUBSET Conns]
  /\ \A scene \in Scenes : scene.open \cap scene.coming = {}

VARIABLES
  faults,    \* the failures that may happen in this behaviour
  up,        \* the process runs
  main,      \* main: it "runs", is "closing" connections in Hub.Shutdown, is "done" with it
  dropped,   \* connections of the maps that Shutdown replaced
  hub,       \* Hub.Clients: the connections of each user, {} when it has no entry
  lock,      \* holder of Hub.mu while it may have to wait
  pc,        \* where a connection's handler is
  walk,      \* the range over connections a handler is in
  buf,       \* Client.Send
  closed,    \* connections whose channel was closed
  pumping,   \* connections whose writePump has not given up
  heart,     \* heartbeat goroutines
  msg,       \* messages table
  marking,   \* goroutines about to run MarkAllIncomingMessagesAsDelivered
  view,      \* the users a client was told are online
  budget,    \* departures, events and heartbeats still to come
  had,       \* history: the receiver's connections when a message looked it up
  shown,     \* history: messages written to a socket of their receiver
  missed     \* history: connections one of whose events was dropped

dbVars == <<msg, marking>>
goVars == <<pumping, heart, view, budget>>
seenVars == <<had, shown, missed>>
procVars == <<faults, up, main, dropped>>
vars == <<procVars, hub, lock, pc, walk, buf, closed, dbVars, goVars, seenVars>>

\* Events.  An "online" event is about a user, "current" about a set of users,
\* a message or a receipt about a message.
Event(kind, about) == [kind |-> kind, about |-> about]
Events ==
  [kind : {"online", "offline"}, about : Users] \cup
  [kind : {"current"}, about : SUBSET Users] \cup
  [kind : {"message", "delivered", "read"}, about : Messages] \cup
  [kind : {"typing", "error", "heartbeat"}, about : {"nothing"}]
Plain(kind) == Event(kind, "nothing")

\* The stages of a handler.  "stuck" is a handler whose goroutine ended in a
\* panic, or waits for ever on a copy of a lock, before it closed its channel.
Stages == { "new", "inserted", "online", "greet", "greeting", "serve", "deliver",
            "push", "cancelled", "removed", "offline", "closing", "gone", "stuck" }
Open == {"serve", "deliver", "push"}
Ranging == {"online", "offline", "push"}

\* A range: the event, the users still to look up, those whose connections are
\* ranged over, and the connections present when the range began.
Walk(event, rest, to, there) == [event |-> event, rest |-> rest, to |-> to, there |-> there]
NoWalk == Walk(Plain("error"), <<>>, {}, {})

Registered == UNION {hub[u] : u \in Users}
Online == {u \in Users : hub[u] # {}}
NoRow == [saved |-> FALSE, delivered |-> FALSE, read |-> FALSE]

TypeOK ==
  /\ faults \subseteq FaultKinds
  /\ up \in BOOLEAN
  /\ main \in {"runs", "closing", "done"} /\ dropped \subseteq Conns
  /\ hub \in [Users -> SUBSET Conns]
  /\ lock \in Conns \cup {NoConn}
  /\ pc \in [Conns -> Stages]
  /\ \A c \in Conns : /\ walk[c].event \in Events
                      /\ walk[c].rest \in Seq(Users)
                      /\ walk[c].to \subseteq Users
                      /\ walk[c].there \subseteq Conns
  /\ buf \in [Conns -> Seq(Events)]
  /\ \A c \in Conns : Len(buf[c]) <= Cap
  /\ closed \subseteq Conns /\ pumping \subseteq Conns
  /\ heart \in [Conns -> {"off", "wait", "pinged"}]
  /\ msg \in [Messages -> [saved : BOOLEAN, delivered : BOOLEAN, read : BOOLEAN]]
  /\ marking \subseteq Conns
  /\ view \in [Conns -> SUBSET Users]
  /\ budget.says \subseteq Conns \X Saying /\ budget.beating \cup budget.going \subseteq Conns
  /\ had \in [Messages -> SUBSET Conns]
  /\ shown \subseteq Messages /\ missed \subseteq Conns

Init ==
  /\ up = TRUE
  /\ main = "runs" /\ dropped = {}
  /\ lock = NoConn
  /\ \E scene \in Scenes :
       LET there(u) == {c \in scene.open : UserOf[c] = u}
       IN /\ faults = scene.faults
          /\ hub = [u \in Users |-> there(u)]
          /\ pc = [c \in Conns |-> CASE c \in scene.open -> "serve"
                                     [] c \in scene.coming -> "new"
                                     [] OTHER -> "gone"]
          /\ closed = Conns \ (scene.open \cup scene.coming)
          /\ heart = [c \in Conns |-> IF c \in scene.open THEN "wait" ELSE "off"]
          /\ view = [c \in Conns |-> IF c \in scene.open \cap Watchers
                       THEN {u \in Users \ {UserOf[c]} : there(u) # {}} ELSE {}]
          /\ budget = [going |-> scene.going, says |-> scene.says, beating |-> scene.beating]
  /\ walk = [c \in Conns |-> NoWalk]
  /\ buf = [c \in Conns |-> <<>>]
  /\ pumping = Conns
  /\ msg = [m \in Messages |-> NoRow]
  /\ marking = {}
  /\ had = [m \in Messages |-> {}]
  /\ shown = {} /\ missed = {}

Goto(c, stage) == pc' = [pc EXCEPT ![c] = stage]

SetConns(c, conns) == hub' = [hub EXCEPT ![UserOf[c]] = conns]

\* Hub.mu is free: no handler is greeting, and Shutdown is not closing.
Free == lock = NoConn /\ main # "closing"

\* The process ends: what is left is in the database.
ProcessEnds ==
  /\ up' = FALSE
  /\ main' = "done" /\ dropped' = {}
  /\ hub' = [u \in Users |-> {}] /\ lock' = NoConn
  /\ pc' = [c \in Conns |-> "gone"] /\ walk' = [c \in Conns |-> NoWalk]
  /\ buf' = [c \in Conns |-> <<>>] /\ view' = [c \in Conns |-> {}]
  /\ closed' = Conns /\ pumping' = {} /\ marking' = {} /\ missed' = {}
  /\ heart' = [c \in Conns |-> "off"]
  /\ UNCHANGED <<faults, msg, budget, had, shown>>

-----------------------------------------------------------------------------
(* Registering, unregistering and the broadcasts *)

\* The first connection of a user announces it, further ones go on to greet.
Register(c) ==
  /\ pc[c] = "new" /\ Free
  /\ LET conns == hub[UserOf[c]] \cup {c}
     IN /\ SetConns(c, conns)
        /\ Goto(c, IF Cardinality(conns) = 1 THEN "inserted" ELSE "greet")
  /\ UNCHANGED <<procVars, lock, walk, buf, closed, dbVars, goVars, seenVars>>

\* (three mistakes of Unregister: the user is dropped with all connections,
\* nothing is announced, the lock is kept)
UnregisterAll(c) ==
  /\ pc[c] = "cancelled" /\ Free
  /\ SetConns(c, {})
  /\ Goto(c, "removed")
  /\ UNCHANGED <<procVars, lock, walk, buf, closed, dbVars, goVars, seenVars>>
UnregisterSilent(c) ==
  /\ pc[c] = "cancelled" /\ Free
  /\ SetConns(c, hub[UserOf[c]] \ {c})
  /\ Goto(c, "closing")
  /\ UNCHANGED <<procVars, lock, walk, buf, closed, dbVars, goVars, seenVars>>
UnregisterLocked(c) ==
  /\ pc[c] = "cancelled" /\ Free
  /\ SetConns(c, hub[UserOf[c]] \ {c})
  /\ Goto(c, "closing")
  /\ lock' = c
  /\ UNCHANGED <<procVars, walk, buf, closed, dbVars, goVars, seenVars>>

\* The last connection of a user to go announces that it is offline.  Nothing
\* is announced when Shutdown has left the user without an entry.
Unregister(c) ==
  /\ pc[c] = "cancelled" /\ Free
  /\ LET left == hub[UserOf[c]] \ {c}
     IN /\ SetConns(c, left)
        /\ Goto(c, IF hub[UserOf[c]] # {} /\ left = {} THEN "removed" ELSE "closing")
  /\ UNCHANGED <<procVars, lock, walk, buf, closed, dbVars, goVars, seenVars>>

\* BroadcastToAll has a value receiver: it locks a copy of the mutex.  A copy
\* made inside the critical section of another handler or of Shutdown stays locked.
Broadcast(c) ==
  /\ pc[c] \in {"inserted", "removed"}
  /\ LET kind == IF pc[c] = "inserted" THEN "online" ELSE "offline"
     IN \/ /\ Free
           /\ Goto(c, kind)
           /\ walk' = [walk EXCEPT ![c] =
                Walk(Event(kind, UserOf[c]), <<>>, Users, Registered)]
        \/ /\ \/ lock # NoConn /\ Len(buf[lock]) = Cap
              \/ "race" \in faults /\ \E d \in Conns \ {c} :
                   pc[d] \in {"new", "greet", "greeting", "cancelled"}
              \/ main = "closing"
           /\ Goto(c, "stuck")
           /\ UNCHANGED walk
  /\ UNCHANGED <<procVars, hub, lock, buf, closed, dbVars, goVars, seenVars>>

\* (a mistake: the channel never fills)
SendToAll(conns, event) ==
  /\ buf' = [d \in Conns |-> IF d \in conns THEN Append(buf[d], event) ELSE buf[d]]
  /\ UNCHANGED missed

\* SendEvent: appended, or dropped when the channel is full.
SendTo(conns, event) ==
  LET takes == {d \in conns : Len(buf[d]) < Cap}
  IN /\ buf' = [d \in Conns |-> IF d \in takes THEN Append(buf[d], event) ELSE buf[d]]
     /\ missed' = missed \cup (conns \ takes)

\* Entries that were there when the range began and still are must be reached,
\* entries added since may be, unless there were none.  A range goes on over the
\* maps it began with when Shutdown replaces them.
Reaches(c, conns) ==
  LET now == UNION {hub[u] : u \in walk[c].to}
      there == walk[c].there
  IN /\ there \cap (now \cup dropped) \subseteq conns
     /\ conns \subseteq now \cup (there \cap dropped)
     /\ there = {} => conns = {}

\* (a mistake: no reconciliation at the first connection)
EndRangeUnmarked(c) ==
  /\ Goto(c, CASE pc[c] = "online"  -> "greet"
               [] pc[c] = "offline" -> "closing"
               [] pc[c] = "push"    -> IF walk[c].rest = <<>> THEN "serve" ELSE "deliver")
  /\ walk' = [walk EXCEPT ![c] = IF pc[c] = "push" /\ @.rest # <<>>
                                   THEN Walk(@.event, @.rest, {}, {}) ELSE NoWalk]
  /\ UNCHANGED marking

\* Where a handler goes from a range.  After its online broadcast the first
\* connection starts the goroutine that marks the user's messages.
EndRange(c) ==
  /\ Goto(c, CASE pc[c] = "online"  -> "greet"
               [] pc[c] = "offline" -> "closing"
               [] pc[c] = "push"    -> IF walk[c].rest = <<>> THEN "serve" ELSE "deliver")
  /\ marking' = IF pc[c] = "online" THEN marking \cup {c} ELSE marking
  /\ walk' = [walk EXCEPT ![c] = IF pc[c] = "push" /\ @.rest # <<>>
                                   THEN Walk(@.event, @.rest, {}, {}) ELSE NoWalk]

\* The sends of a range do not wait; the range is one step, after the step in
\* which it began.
RangeOver(c) ==
  /\ pc[c] \in Ranging
  /\ \E conns \in SUBSET (Conns \ closed) : Reaches(c, conns) /\ SendTo(conns, walk[c].event)
  /\ EndRange(c)
  /\ UNCHANGED <<procVars, hub, lock, closed, msg, goVars, had, shown>>

\* SendEvent on a closed channel panics: of a connection that Shutdown closed, or
\* that was fetched just before its handler removed and closed it.  readPump
\* recovers and ends its connection; in the handler's own code the panic ends
\* the goroutine.
RangePanics(c) ==
  /\ pc[c] \in Ranging
  /\ LET bad == walk[c].there \cap closed
     IN IF "race" \in faults THEN bad # {} ELSE bad \cap (Registered \cup dropped) # {}
  /\ \E conns \in SUBSET (walk[c].there \ closed) : SendTo(conns, walk[c].event)
  /\ Goto(c, IF pc[c] = "push" THEN "cancelled" ELSE "stuck")
  /\ walk' = [walk EXCEPT ![c] = NoWalk]
  /\ UNCHANGED <<procVars, hub, lock, closed, dbVars, goVars, had, shown>>

-----------------------------------------------------------------------------
(* Greeting, and serving *)

GreetLock(c) ==
  /\ pc[c] = "greet" /\ Free
  /\ lock' = c
  /\ Goto(c, "greeting")
  /\ UNCHANGED <<procVars, hub, walk, buf, closed, dbVars, goVars, seenVars>>

\* SentCurrentClients sends under the lock and waits when the channel is full,
\* although nothing reads it: the pump and the heartbeat start afterwards.
GreetSend(c) ==
  /\ pc[c] = "greeting" /\ c \notin closed /\ Len(buf[c]) < Cap
  /\ buf' = [buf EXCEPT ![c] = Append(@, Event("current", Online \ {UserOf[c]}))]
  /\ lock' = NoConn
  /\ Goto(c, "serve")
  /\ heart' = [heart EXCEPT ![c] = "wait"]
  /\ UNCHANGED <<procVars, hub, walk, closed, dbVars, pumping, view, budget, seenVars>>

\* Shutdown closed the channel before the handler got the lock: the send panics,
\* and the deferred unlock runs but no deferred Unregister.
GreetPanics(c) ==
  /\ pc[c] = "greeting" /\ c \in closed
  /\ lock' = NoConn
  /\ Goto(c, "stuck")
  /\ UNCHANGED <<procVars, hub, walk, buf, closed, dbVars, goVars, seenVars>>

\* readPump takes an event, which ends in a fan-out to the connections of the
\* given users, one user after the other.
Request(c, what) ==
  /\ pc[c] = "serve" /\ c \notin closed /\ <<c, what>> \in budget.says
  /\ budget' = [budget EXCEPT !.says = @ \ {<<c, what>>}]
  /\ UNCHANGED <<procVars, hub, lock, buf, closed, marking, pumping, heart, view, seenVars>>
FanOut(c, event, users) ==
  /\ Goto(c, "deliver")
  /\ walk' = [walk EXCEPT ![c] = Walk(event, users, {}, {})]
SendError(c) == FanOut(c, Plain("error"), <<UserOf[c]>>)

\* The message is saved first, and then pushed to its sender and its receiver.
OnMessage(c, m) ==
  /\ Request(c, "message")
  /\ UserOf[c] = From[m] /\ ~msg[m].saved
  /\ \/ /\ msg' = [msg EXCEPT ![m].saved = TRUE]
        /\ FanOut(c, Event("message", m), <<From[m], To[m]>>)
     \/ /\ "db" \in faults
        /\ SendError(c)
        /\ UNCHANGED msg

\* (a mistake: the sender is told whatever the statement answered)
OnReceiptUnsaved(c, m, kind) ==
  /\ Request(c, "receipt")
  /\ msg[m].saved /\ UserOf[c] # From[m]
  /\ FanOut(c, Event(kind, m), <<From[m]>>)
  /\ \/ msg' = [msg EXCEPT ![m][kind] = TRUE]
     \/ "db" \in faults /\ UNCHANGED msg

\* A receipt of anybody but the sender sets the column, then tells the sender.
OnReceipt(c, m, kind) ==
  /\ Request(c, "receipt")
  /\ msg[m].saved /\ UserOf[c] # From[m]
  /\ \/ /\ msg' = [msg EXCEPT ![m][kind] = TRUE]
        /\ FanOut(c, Event(kind, m), <<From[m]>>)
     \/ /\ "db" \in faults
        /\ SendError(c)
        /\ UNCHANGED msg

OnTyping(c, u) ==
  /\ Request(c, "typing")
  /\ FanOut(c, Plain("typing"), <<u>>)
  /\ UNCHANGED msg

\* Payloads of the wrong shape, unknown types, unknown or own messages.
Refuse(c) ==
  /\ Request(c, "bad")
  /\ SendError(c)
  /\ UNCHANGED msg

\* The next user is looked up under the read lock, the lock is released, and
\* the range over that user's connections begins.
Lookup(c) ==
  /\ pc[c] = "deliver" /\ Free
  /\ Goto(c, "push")
  /\ LET w == walk[c]
         u == Head(w.rest)
     IN /\ walk' = [walk EXCEPT ![c] = Walk(w.event, Tail(w.rest), {u}, hub[u])]
        /\ had' = IF w.event.kind = "message" /\ u = To[w.event.about]
                    THEN [had EXCEPT ![w.event.about] = hub[u]] ELSE had
  /\ UNCHANGED <<procVars, hub, lock, buf, closed, dbVars, goVars, shown, missed>>

\* The socket is gone, or the client or Shutdown closed it: readPump cancels the
\* context.
Leave(c) ==
  /\ pc[c] = "serve" /\ c \in budget.going \cup closed
  /\ Goto(c, "cancelled")
  /\ UNCHANGED <<procVars, hub, lock, walk, buf, closed, dbVars, goVars, seenVars>>

\* Client.Close, of which a second call does nothing.
Close(c) ==
  /\ pc[c] = "closing"
  /\ closed' = closed \cup {c}
  /\ Goto(c, "gone")
  /\ walk' = [walk EXCEPT ![c] = NoWalk]
  /\ buf' = [buf EXCEPT ![c] = <<>>] /\ view' = [view EXCEPT ![c] = {}]
  /\ UNCHANGED <<procVars, hub, lock, dbVars, pumping, heart, budget, seenVars>>

-----------------------------------------------------------------------------
(* The other goroutines *)

\* What a client that shows who is online makes of an event.
Seen(online, event) ==
  CASE event.kind = "online"  -> online \cup {event.about}
    [] event.kind = "offline" -> online \ {event.about}
    [] event.kind = "current" -> event.about
    [] OTHER -> online

\* A failed write ends the pump but not the connection.
WritePump(c) ==
  /\ pc[c] \in Open /\ c \in pumping /\ buf[c] # <<>>
  /\ buf' = [buf EXCEPT ![c] = Tail(@)]
  /\ \/ /\ view' = IF c \in Watchers THEN [view EXCEPT ![c] = Seen(@, Head(buf[c]))] ELSE view
        /\ LET event == Head(buf[c])
           IN shown' = IF event.kind = "message" /\ UserOf[c] = To[event.about]
                         THEN shown \cup {event.about} ELSE shown
        /\ UNCHANGED <<pumping, missed>>
     \/ /\ "write" \in faults
        /\ pumping' = pumping \ {c}
        /\ missed' = missed \cup {c}
        /\ UNCHANGED <<view, shown>>
  /\ UNCHANGED <<procVars, hub, lock, pc, walk, closed, dbVars, heart, budget, had>>

\* The ticker fires and the ping is answered, or the heartbeat ends.
Ping(c) ==
  /\ pc[c] \in Open /\ heart[c] = "wait" /\ c \in budget.beating
  /\ \/ c \notin closed /\ heart' = [heart EXCEPT ![c] = "pinged"]
     \/ ("write" \in faults \/ c \in closed) /\ heart' = [heart EXCEPT ![c] = "off"]
  /\ budget' = [budget EXCEPT !.beating = @ \ {c}]
  /\ UNCHANGED <<procVars, hub, lock, pc, walk, buf, closed, dbVars, pumping, view, seenVars>>

\* The send waits for room and does not watch the context.
Heartbeat(c) ==
  /\ heart[c] = "pinged" /\ c \notin closed /\ Len(buf[c]) < Cap
  /\ buf' = [buf EXCEPT ![c] = Append(@, Plain("heartbeat"))]
  /\ heart' = [heart EXCEPT ![c] = "wait"]
  /\ UNCHANGED <<procVars, hub, lock, pc, walk, closed, dbVars, pumping, view, budget, seenVars>>

\* On a channel that the handler or Shutdown closed the send panics, and nothing recovers.
HeartbeatPanics(c) ==
  /\ heart[c] = "pinged" /\ c \in closed
  /\ ProcessEnds

\* Writing to a map while another goroutine ranges over it is a fatal error
\* when the runtime notices it, and goes well when it does not.
MapsRace(c) ==
  /\ "race" \in faults
  /\ pc[c] \in {"new", "cancelled"} /\ Free
  /\ \E d \in Conns \ {c} : pc[d] \in Ranging
  /\ ProcessEnds

\* MarkAllIncomingMessagesAsDelivered, in a goroutine of its own.
MarkAll(c) ==
  /\ c \in marking
  /\ marking' = marking \ {c}
  /\ \/ msg' = [m \in Messages |->
          IF msg[m].saved /\ To[m] = UserOf[c] THEN [msg[m] EXCEPT !.delivered = TRUE] ELSE msg[m]]
     \/ "db" \in faults /\ UNCHANGED msg
  /\ UNCHANGED <<procVars, hub, lock, pc, walk, buf, closed, goVars, seenVars>>

-----------------------------------------------------------------------------
(* Hub.Shutdown, which main defers.  The HTTP server has stopped by then, but  *)
(* does not wait for WebSockets: their handlers run on until the process ends. *)

ShutdownStarts ==
  /\ "stop" \in faults /\ main = "runs" /\ Free
  /\ main' = "closing"
  /\ UNCHANGED <<faults, up, dropped, hub, lock, pc, walk, buf, closed, dbVars, goVars, seenVars>>

\* One connection after the other is sent a notice and closed, while it is in the
\* map.  The socket is closed before the pump can be sure to write the notice or
\* what the channel still holds, and the channel after the socket.
ShutdownClose(c) ==
  /\ main = "closing" /\ c \in Registered \ closed
  /\ closed' = closed \cup {c}
  /\ buf' = [buf EXCEPT ![c] = <<>>] /\ view' = [view EXCEPT ![c] = {}]
  /\ UNCHANGED <<procVars, hub, lock, pc, walk, dbVars, pumping, heart, budget, seenVars>>

\* The map is replaced by an empty one, and the lock released.
ShutdownEnds ==
  /\ main = "closing" /\ Registered \subseteq closed
  /\ main' = "done"
  /\ dropped' = Registered
  /\ hub' = [u \in Users |-> {}]
  /\ UNCHANGED <<faults, up, lock, pc, walk, buf, closed, dbVars, goVars, seenVars>>

MainReturns == main = "done" /\ ProcessEnds

-----------------------------------------------------------------------------
HandlerStep(c) ==
  \/ Unregister(c) \/ Broadcast(c) \/ RangeOver(c) \/ RangePanics(c)
  \/ GreetLock(c) \/ GreetSend(c) \/ GreetPanics(c) \/ Lookup(c) \/ Close(c)
Incoming(c) ==
  \/ \E m \in Messages : \/ OnMessage(c, m)
                         \/ \E kind \in {"delivered", "read"} : OnReceipt(c, m, kind)
  \/ \E u \in Users : OnTyping(c, u)
  \/ Refuse(c)
GoroutineStep(c) == WritePump(c) \/ Heartbeat(c) \/ HeartbeatPanics(c) \/ MarkAll(c)

Next ==
  /\ up
  /\ \/ \E c \in Conns : \/ Register(c) \/ HandlerStep(c) \/ Incoming(c) \/ Leave(c)
                         \/ GoroutineStep(c) \/ Ping(c) \/ MapsRace(c) \/ ShutdownClose(c)
     \/ ShutdownStarts \/ ShutdownEnds \/ MainReturns

Spec == Init /\ [][Next]_vars

\* Goroutines that can run do run.  Nothing is assumed of the clients: they
\* need not send anything, nor ever leave.
Fairness == \A c \in Conns : /\ WF_vars(up /\ HandlerStep(c))
                             /\ WF_vars(up /\ GoroutineStep(c))
FairSpec == Spec /\ Fairness

-----------------------------------------------------------------------------
(* Properties *)

\* A connection whose handler registered it and has not unregistered it is found
\* under its user, even while others of the user come and go, unless Shutdown has
\* closed it and replaced the maps; and only while Shutdown closes them is a
\* connection with a closed channel found there, so that SendEvent is safe.
HubFollowsHandlers == up =>
  /\ \A c \in Conns :
       pc[c] \in {"inserted", "online", "greet", "greeting", "cancelled"} \cup Open =>
         c \in Registered \/ (main = "done" /\ c \in closed)
  /\ main # "closing" => Registered \cap closed = {}
  /\ \A c \in Conns : pc[c] \in {"new", "removed", "offline", "closing", "gone"} => c \notin Registered

\* Every handler is done with what it announces.
Settled == up /\ main = "runs" /\ \A c \in Conns : pc[c] \in {"new", "serve", "gone"}

\* Online and offline are broadcast after the lock is released, in any order.
\* Once all of it has arrived, a client that lost no event shows nobody who is
\* not online, and lacks only users who have left and come back: their late
\* "offline" may overtake their "online".
PresenceAtRest == Settled =>
  \A c \in Watchers : pc[c] = "serve" /\ buf[c] = <<>> /\ c \notin missed =>
    /\ view[c] \subseteq Online
    /\ \A u \in Online \ (view[c] \cup {UserOf[c]}) :
         \E d \in Conns : UserOf[d] = u /\ pc[d] = "gone"

\* A saved message reaches its receiver, whose pumps have written what they can:
\* it was written to a socket of the receiver, or the reconciliation at the first
\* connection marked it; or the receiver is away, or every connection it had when
\* the message was sent has gone, was full, or has a pump that failed.
Drained(u) == \A c \in hub[u] : buf[c] = <<>> \/ c \notin pumping
MessageNotForgotten == Settled /\ marking = {} /\ faults \subseteq {"write"} =>
  \A m \in Messages : msg[m].saved /\ Drained(To[m]) =>
    \/ m \in shown \/ msg[m].delivered
    \/ hub[To[m]] = {}
    \/ had[m] # {} /\ had[m] \cap hub[To[m]] \subseteq missed

\* What src/README.md says of a user who connects again: a batch UPDATE fires and
\* marks what it missed.  When the connections a message was sent to have gone
\* before they showed it, and the user is connected again, it was marked.
ReconnectReconciles == Settled /\ marking = {} /\ faults = {} =>
  \A m \in Messages :
    /\ msg[m].saved /\ hub[To[m]] # {} /\ Drained(To[m])
    /\ had[m] # {} /\ had[m] \cap hub[To[m]] = {}
    => m \in shown \/ msg[m].delivered

\* What clients are told of messages is in the database: a message they are
\* pushed has a row, and a sender is shown a receipt only once it is stored.
EventsTrue == \A c \in Conns : \A i \in 1..Len(buf[c]) :
  LET event == buf[c][i]
  IN /\ event.kind = "message" => msg[event.about].saved
     /\ event.kind \in {"delivered", "read"} => msg[event.about][event.kind]

\* A handler waits for ever under the hub's lock only behind its own full
\* channel.  Unless that happens, every connection that registers is served while
\* main does not shut the hub down.
Jammed == lock # NoConn /\ Len(buf[lock]) = Cap
Greeted == \A c \in Conns :
  (up /\ "race" \notin faults /\ pc[c] \in {"inserted", "greet"})
    ~> (~up \/ main # "runs" \/ pc[c] \in Open \/ Jammed)
=============================================================================
