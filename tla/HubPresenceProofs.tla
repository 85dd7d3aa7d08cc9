--------------------------- MODULE HubPresenceProofs ---------------------------
(***************************************************************************)
(* PresenceAtRest, for any users, connections and capacity, under any      *)
(* failures and races: whoever a client shows wrongly has a handler that   *)
(* is about to tell it, or that has gone after telling it too late.        *)
(***************************************************************************)
EXTENDS HubProofs, FiniteSetTheorems

-----------------------------------------------------------------------------
(* What a client will show once its channel is empty                        *)

Affirms(event, u) ==
  \/ event.kind = "online" /\ event.about = u
  \/ event.kind = "current" /\ u \in event.about
Denies(event, u) ==
  \/ event.kind = "offline" /\ event.about = u
  \/ event.kind = "current" /\ u \notin event.about
Shows(online, seq, u) ==
  \/ \E i \in 1..Len(seq) : Affirms(seq[i], u) /\ \A j \in (i+1)..Len(seq) : ~Denies(seq[j], u)
  \/ u \in online /\ \A j \in 1..Len(seq) : ~Denies(seq[j], u)

LEMMA ShowsEmpty == ASSUME NEW online, NEW u PROVE Shows(online, <<>>, u) <=> u \in online
<1>1. Len(<<>>) = 0 OBVIOUS
<1>q. QED BY <1>1 DEF Shows

LEMMA ShowsAppend ==
  ASSUME NEW seq \in Seq(Events), NEW event \in Events, NEW online, NEW u
  PROVE  Shows(online, Append(seq, event), u)
           <=> Affirms(event, u) \/ (Shows(online, seq, u) /\ ~Denies(event, u))
<1> DEFINE n == Len(seq)
           new == Append(seq, event)
<1>1. /\ n \in Nat /\ Len(new) = n + 1 /\ new[n + 1] = event
      /\ \A i \in 1..n : new[i] = seq[i]
  OBVIOUS
<1> HIDE DEF n, new
<1>2. \A i \in 1..(n + 1) : i \in 1..n \/ i = n + 1 BY <1>1
<1>3. Affirms(event, u) => Shows(online, new, u)
  <2>1. n + 1 \in 1..(n + 1) /\ (n + 1 + 1)..(n + 1) = {} BY <1>1
  <2>q. QED BY <1>1, <2>1 DEF Shows
<1>4. ASSUME Shows(online, seq, u), ~Denies(event, u) PROVE Shows(online, new, u)
  <2>1. ASSUME NEW k \in Nat, \A j \in (k+1)..n : ~Denies(seq[j], u)
        PROVE  \A j \in (k+1)..(n+1) : ~Denies(new[j], u)
    <3> SUFFICES ASSUME NEW j \in (k+1)..(n+1) PROVE ~Denies(new[j], u)
      OBVIOUS
    <3>1. CASE j = n + 1 BY <1>1, <1>4, <3>1
    <3>2. CASE j # n + 1
      <4>1. j \in (k+1)..n /\ j \in 1..n BY <1>1, <3>2
      <4>q. QED BY <1>1, <2>1, <4>1
    <3>q. QED BY <3>1, <3>2
  <2>2. CASE \E i \in 1..n : Affirms(seq[i], u) /\ \A j \in (i+1)..n : ~Denies(seq[j], u)
    <3>1. PICK i \in 1..n : Affirms(seq[i], u) /\ \A j \in (i+1)..n : ~Denies(seq[j], u) BY <2>2
    <3>2. i \in 1..(n+1) /\ i \in Nat BY <1>1
    <3>3. Affirms(new[i], u) BY <1>1, <3>1
    <3>4. \A j \in (i+1)..(n+1) : ~Denies(new[j], u) BY <2>1, <3>1, <3>2
    <3>q. QED BY <1>1, <3>2, <3>3, <3>4 DEF Shows
  <2>3. CASE u \in online /\ \A j \in 1..n : ~Denies(seq[j], u)
    <3>1. \A j \in (0+1)..(n+1) : ~Denies(new[j], u) BY <2>1, <2>3
    <3>q. QED BY <1>1, <2>3, <3>1 DEF Shows
  <2>q. QED BY <1>4, <2>2, <2>3 DEF Shows, n
<1>5. ASSUME Shows(online, new, u), ~Affirms(event, u)
      PROVE  Shows(online, seq, u) /\ ~Denies(event, u)
  <2>1. CASE \E i \in 1..(n+1) : Affirms(new[i], u) /\ \A j \in (i+1)..(n+1) : ~Denies(new[j], u)
    <3>1. PICK i \in 1..(n+1) : Affirms(new[i], u) /\ \A j \in (i+1)..(n+1) : ~Denies(new[j], u) BY <2>1
    <3>2. i \in 1..n BY <1>1, <1>2, <1>5, <3>1
    <3>3. n + 1 \in (i+1)..(n+1) BY <1>1, <3>2
    <3>4. \A j \in (i+1)..n : j \in (i+1)..(n+1) /\ j \in 1..n BY <1>1, <3>2
    <3>5. Affirms(seq[i], u) /\ \A j \in (i+1)..n : ~Denies(seq[j], u) BY <1>1, <3>1, <3>2, <3>4
    <3>6. ~Denies(event, u) BY <1>1, <3>1, <3>3
    <3>q. QED BY <3>2, <3>5, <3>6 DEF Shows, n
  <2>2. CASE u \in online /\ \A j \in 1..(n+1) : ~Denies(new[j], u)
    <3>1. n + 1 \in 1..(n+1) /\ \A j \in 1..n : j \in 1..(n+1) BY <1>1
    <3>q. QED BY <1>1, <2>2, <3>1 DEF Shows, n
  <2>q. QED BY <1>1, <1>5, <2>1, <2>2 DEF Shows
<1>q. QED BY <1>3, <1>4, <1>5 DEF new

LEMMA SeenShows == ASSUME NEW event \in Events, NEW online, NEW u
  PROVE u \in Seen(online, event) <=> Affirms(event, u) \/ (u \in online /\ ~Denies(event, u))
<1>1. CASE event.kind = "online" BY <1>1 DEF Seen, Affirms, Denies
<1>2. CASE event.kind = "offline" BY <1>2 DEF Seen, Affirms, Denies
<1>3. CASE event.kind = "current" BY <1>3 DEF Seen, Affirms, Denies
<1>4. CASE event.kind \notin {"online", "offline", "current"} BY <1>4 DEF Seen, Affirms, Denies
<1>q. QED BY <1>1, <1>2, <1>3, <1>4

LEMMA ShowsTail ==
  ASSUME NEW seq \in Seq(Events), seq # <<>>, NEW online, NEW u
  PROVE  Shows(Seen(online, Head(seq)), Tail(seq), u) <=> Shows(online, seq, u)
<1> DEFINE n == Len(seq)
           rest == Tail(seq)
           first == Head(seq)
<1>1. /\ n \in Nat \ {0} /\ Len(rest) = n - 1 /\ first = seq[1] /\ first \in Events
      /\ \A i \in 1..(n - 1) : rest[i] = seq[i + 1]
  OBVIOUS
<1> HIDE DEF n, rest, first
<1>2. ASSUME NEW k \in Nat
      PROVE  (\A j \in (k+1)..(n-1) : ~Denies(rest[j], u)) <=> (\A j \in (k+2)..n : ~Denies(seq[j], u))
  <2>1. ASSUME \A j \in (k+1)..(n-1) : ~Denies(rest[j], u), NEW j \in (k+2)..n PROVE ~Denies(seq[j], u)
    <3>1. j - 1 \in (k+1)..(n-1) /\ j - 1 \in 1..(n-1) /\ (j - 1) + 1 = j BY <1>1
    <3>2. rest[j - 1] = seq[j] BY <1>1, <3>1
    <3>q. QED BY <2>1, <3>1, <3>2
  <2>2. ASSUME \A j \in (k+2)..n : ~Denies(seq[j], u), NEW j \in (k+1)..(n-1) PROVE ~Denies(rest[j], u)
    <3>1. j + 1 \in (k+2)..n /\ j \in 1..(n-1) BY <1>1
    <3>2. rest[j] = seq[j + 1] BY <1>1, <3>1
    <3>q. QED BY <2>2, <3>1, <3>2
  <2>q. QED BY <2>1, <2>2
<1>3. (\A j \in 1..(n-1) : ~Denies(rest[j], u)) <=> (\A j \in 2..n : ~Denies(seq[j], u))
  <2>1. 0 + 1 = 1 /\ 0 + 2 = 2 OBVIOUS
  <2>q. QED BY <1>2, <2>1
<1>4. u \in Seen(online, first) <=> Affirms(seq[1], u) \/ (u \in online /\ ~Denies(seq[1], u))
  BY <1>1, SeenShows
<1>5. ASSUME Shows(Seen(online, first), rest, u) PROVE Shows(online, seq, u)
  <2>1. CASE \E i \in 1..(n-1) : Affirms(rest[i], u) /\ \A j \in (i+1)..(n-1) : ~Denies(rest[j], u)
    <3>1. PICK i \in 1..(n-1) : Affirms(rest[i], u) /\ \A j \in (i+1)..(n-1) : ~Denies(rest[j], u) BY <2>1
    <3>2. i \in Nat /\ i + 1 \in 1..n /\ (i + 1) + 1 = i + 2 BY <1>1
    <3>3. Affirms(seq[i + 1], u) BY <1>1, <3>1
    <3>4. \A j \in (i+2)..n : ~Denies(seq[j], u) BY <1>2, <3>1, <3>2
    <3>q. QED BY <3>2, <3>3, <3>4 DEF Shows, n
  <2>2. CASE u \in Seen(online, first) /\ \A j \in 1..(n-1) : ~Denies(rest[j], u)
    <3>1. \A j \in 2..n : ~Denies(seq[j], u) BY <1>3, <2>2
    <3>2. CASE Affirms(seq[1], u)
      <4>1. 1 \in 1..n /\ 1 + 1 = 2 BY <1>1
      <4>q. QED BY <3>1, <3>2, <4>1 DEF Shows, n
    <3>3. CASE u \in online /\ ~Denies(seq[1], u)
      <4>1. \A j \in 1..n : j = 1 \/ j \in 2..n BY <1>1
      <4>q. QED BY <3>1, <3>3, <4>1 DEF Shows, n
    <3>q. QED BY <1>4, <2>2, <3>2, <3>3
  <2>q. QED BY <1>1, <1>5, <2>1, <2>2 DEF Shows
<1>6. ASSUME Shows(online, seq, u) PROVE Shows(Seen(online, first), rest, u)
  <2>1. CASE \E i \in 1..n : Affirms(seq[i], u) /\ \A j \in (i+1)..n : ~Denies(seq[j], u)
    <3>1. PICK i \in 1..n : Affirms(seq[i], u) /\ \A j \in (i+1)..n : ~Denies(seq[j], u) BY <2>1
    <3>2. CASE i = 1
      <4>1. \A j \in 2..n : ~Denies(seq[j], u) BY <3>1, <3>2
      <4>2. \A j \in 1..(n-1) : ~Denies(rest[j], u) BY <1>3, <4>1
      <4>q. QED BY <1>1, <1>4, <3>1, <3>2, <4>2 DEF Shows
    <3>3. CASE i # 1
      <4>1. i - 1 \in 1..(n-1) /\ i - 1 \in Nat /\ (i - 1) + 1 = i /\ (i - 1) + 2 = i + 1 BY <1>1, <3>3
      <4>2. rest[i - 1] = seq[i] BY <1>1, <4>1
      <4>3. \A j \in ((i-1)+1)..(n-1) : ~Denies(rest[j], u) BY <1>2, <3>1, <4>1
      <4>q. QED BY <1>1, <3>1, <4>1, <4>2, <4>3 DEF Shows
    <3>q. QED BY <3>2, <3>3
  <2>2. CASE u \in online /\ \A j \in 1..n : ~Denies(seq[j], u)
    <3>1. 1 \in 1..n /\ \A j \in 2..n : j \in 1..n BY <1>1
    <3>2. \A j \in 1..(n-1) : ~Denies(rest[j], u) BY <1>3, <2>2, <3>1
    <3>q. QED BY <1>1, <1>4, <2>2, <3>1, <3>2 DEF Shows
  <2>q. QED BY <1>6, <2>1, <2>2 DEF Shows, n
<1>q. QED BY <1>5, <1>6 DEF rest, first

-----------------------------------------------------------------------------
(* Who accounts for what a client shows wrongly                             *)

Showing(c, u) == Shows(view[c], buf[c], u)

\* A handler that is to tell the connection c that its user is offline, or
\* that cannot any more; one that is to tell it that its user is online; one
\* that may already have said, after that, that its user is offline.
Leaving(d, c) == pc[d] \in {"removed", "stuck"} \/ (pc[d] = "offline" /\ c \in walk[d].there)
Coming(d, c) == pc[d] = "inserted" \/ (pc[d] = "online" /\ c \in walk[d].there)
Left(d) == pc[d] \in {"removed", "offline", "closing", "gone", "stuck"}
Telling == {"inserted", "online", "removed", "offline", "closing", "gone", "stuck"}

Presence(c, u) ==
  /\ u \notin Online /\ Showing(c, u) => \E d \in Conns : UserOf[d] = u /\ Leaving(d, c)
  /\ u \in Online /\ u # UserOf[c] /\ ~Showing(c, u) =>
       \E d \in Conns : UserOf[d] = u /\ (Left(d) \/ Coming(d, c))

\* A client that shows who is online, is served, and lost no event, before main
\* shuts the hub down.
Watching(c) == up /\ main = "runs" /\ pc[c] \in Open /\ c \notin missed
PresenceInv == \A c \in Watchers : Watching(c) => \A u \in Users : Presence(c, u)

LEMMA PresenceInit == Init => PresenceInv
<1> SUFFICES ASSUME Init, NEW c \in Watchers, Watching(c), NEW u \in Users PROVE Presence(c, u)
  BY DEF PresenceInv
<1>0. c \in Conns BY HubAssumption
<1>1. PICK scene \in Scenes :
        LET there(v) == {d \in scene.open : UserOf[d] = v}
        IN /\ hub = [v \in Users |-> there(v)]
           /\ pc = [d \in Conns |-> CASE d \in scene.open -> "serve"
                                      [] d \in scene.coming -> "new"
                                      [] OTHER -> "gone"]
           /\ view = [d \in Conns |-> IF d \in scene.open \cap Watchers
                        THEN {v \in Users \ {UserOf[d]} : there(v) # {}} ELSE {}]
  BY DEF Init
<1>2. buf[c] = <<>> BY <1>0 DEF Init
<1>3. c \in scene.open
  <2>1. pc[c] \in Open BY DEF Watching
  <2>q. QED BY <1>0, <1>1, <2>1 DEF Open
<1>4. view[c] = {v \in Users \ {UserOf[c]} : hub[v] # {}} BY <1>0, <1>1, <1>3
<1>5. Showing(c, u) <=> u \in view[c] BY <1>2, ShowsEmpty DEF Showing
<1>q. QED BY <1>4, <1>5 DEF Presence, Online

-----------------------------------------------------------------------------
(* Steps that change nothing of it                                          *)

LEMMA PresenceKept ==
  ASSUME NEW c, NEW u, Presence(c, u), u \in Online <=> u \in Online',
         Showing(c, u) <=> Showing(c, u)',
         \A d \in Conns : UserOf[d] = u /\ Leaving(d, c) => Leaving(d, c)',
         \A d \in Conns : UserOf[d] = u /\ (Left(d) \/ Coming(d, c)) => Left(d)' \/ Coming(d, c)'
  PROVE  Presence(c, u)'
BY DEF Presence

\* The handlers of a user go on accounting for it when another one moves, or
\* one that has nothing to tell.
LEMMA TellersStay ==
  ASSUME NEW c, NEW u, NEW d \in Conns, Others(d), UserOf[d] # u \/ pc[d] \notin Telling
  PROVE  \A e \in Conns : UserOf[e] = u =>
           /\ Leaving(e, c) => Leaving(e, c)'
           /\ Left(e) \/ Coming(e, c) => Left(e)' \/ Coming(e, c)'
BY DEF Others, Leaving, Left, Coming, Telling

LEMMA SameShowing == ASSUME NEW c, NEW u, buf'[c] = buf[c], view'[c] = view[c]
  PROVE Showing(c, u) <=> Showing(c, u)'
BY DEF Showing

Neutral(event, u) == ~Affirms(event, u) /\ ~Denies(event, u)

LEMMA AppendShowing ==
  ASSUME HubInv, NEW c \in Conns, NEW u, NEW event \in Events, buf'[c] = Append(buf[c], event), view'[c] = view[c]
  PROVE  Showing(c, u)' <=> Affirms(event, u) \/ (Showing(c, u) /\ ~Denies(event, u))
<1>1. buf[c] \in Seq(Events) BY DEF HubInv, ToldInv, BufOK
<1>q. QED BY <1>1, ShowsAppend DEF Showing

\* What a range does to the channel of a client that loses no event.
LEMMA SendShows ==
  ASSUME HubInv, NEW c \in Conns, NEW conns \in SUBSET Conns, NEW event \in Events, SendTo(conns, event),
         c \notin missed', UNCHANGED view
  PROVE  /\ c \in conns => buf'[c] = Append(buf[c], event)
         /\ c \notin conns => buf'[c] = buf[c]
<1>1. c \in conns => Len(buf[c]) < Cap BY DEF SendTo
<1>q. QED BY <1>1 DEF SendTo

-----------------------------------------------------------------------------
(* Steps of the handlers                                                    *)

\* What holds of a client that is served before and after a step.
LEMMA WatcherRegistered == ASSUME HubInv, main = "runs", NEW c \in Conns, pc[c] \in Open
  PROVE c \in Registered /\ c \in hub[UserOf[c]] /\ UserOf[c] \in Users
<1>1. UserOf[c] \in Users BY HubAssumption
<1>2. c \in hub[UserOf[c]] BY PlacedWhileRuns DEF HubInv, Inside
<1>q. QED BY <1>1, <1>2 DEF Registered

LEMMA RegisterPresence ==
  ASSUME HubInv, NEW c \in Conns, NEW u \in Users, pc[c] \in Open, Presence(c, u), NEW d \in Conns, Register(d)
  PROVE  Presence(c, u)'
<1> DEFINE v == UserOf[d]
           conns == hub[v] \cup {d}
<1>0. /\ pc \in [Conns -> Stages] /\ hub \in [Users -> SUBSET Conns] /\ v \in Users
  BY HubAssumption DEF HubInv, MapInv, MapOK
<1>1. /\ pc[d] = "new" /\ hub' = [hub EXCEPT ![v] = conns]
      /\ pc' = [pc EXCEPT ![d] = IF Cardinality(conns) = 1 THEN "inserted" ELSE "greet"]
      /\ UNCHANGED <<walk, buf, view>>
  BY DEF Register, SetConns, Goto, goVars
<1>2. Others(d) BY <1>0, <1>1 DEF Others
<1>3. Showing(c, u) <=> Showing(c, u)' BY <1>1, SameShowing
<1>4. CASE v # u \/ hub[v] # {}
  <2>1. u \in Online <=> u \in Online' BY <1>0, <1>1, <1>4 DEF Online
  <2>q. QED BY <1>1, <1>2, <1>3, <2>1, TellersStay, PresenceKept DEF Telling
<1>5. CASE v = u /\ hub[v] = {}
  <2>1. conns = {d} BY <1>5
  <2>2. Cardinality(conns) = 1 BY <2>1, FS_Singleton
  <2>3. Coming(d, c)' BY <1>0, <1>1, <2>2 DEF Coming
  <2>4. u \in Online' BY <1>0, <1>1, <1>5 DEF Online
  <2>q. QED BY <1>5, <2>3, <2>4 DEF Presence
<1>q. QED BY <1>4, <1>5

LEMMA UnregisterPresence ==
  ASSUME HubInv, main = "runs", NEW c \in Conns, NEW u \in Users, pc[c] \in Open, Presence(c, u), NEW d \in Conns, Unregister(d)
  PROVE  Presence(c, u)'
<1> DEFINE v == UserOf[d]
           left == hub[v] \ {d}
<1>0. /\ pc \in [Conns -> Stages] /\ hub \in [Users -> SUBSET Conns] /\ v \in Users
      /\ d \in hub[v]
  BY HubAssumption, PlacedWhileRuns DEF HubInv, MapInv, MapOK, Inside, Unregister
<1>1. /\ pc[d] = "cancelled" /\ hub' = [hub EXCEPT ![v] = left]
      /\ pc' = [pc EXCEPT ![d] = IF left = {} THEN "removed" ELSE "closing"]
      /\ UNCHANGED <<walk, buf, view>>
  BY <1>0 DEF Unregister, SetConns, Goto, goVars
<1>2. Others(d) BY <1>0, <1>1 DEF Others
<1>3. Showing(c, u) <=> Showing(c, u)' BY <1>1, SameShowing
<1>4. CASE v # u \/ left # {}
  <2>1. u \in Online <=> u \in Online' BY <1>0, <1>1, <1>4 DEF Online
  <2>q. QED BY <1>1, <1>2, <1>3, <2>1, TellersStay, PresenceKept DEF Telling
<1>5. CASE v = u /\ left = {}
  <2>1. Leaving(d, c)' BY <1>0, <1>1, <1>5 DEF Leaving
  <2>2. u \notin Online' BY <1>0, <1>1, <1>5 DEF Online
  <2>q. QED BY <1>5, <2>1, <2>2 DEF Presence
<1>q. QED BY <1>4, <1>5

LEMMA BroadcastPresence ==
  ASSUME HubInv, main = "runs", NEW c \in Conns, NEW u \in Users, pc[c] \in Open, Presence(c, u), NEW d \in Conns, Broadcast(d)
  PROVE  Presence(c, u)'
<1>0. /\ pc \in [Conns -> Stages] /\ DOMAIN walk = Conns
  BY DEF HubInv, MapInv, MapOK, ToldInv, WalkOK
<1>1. /\ pc[d] \in {"inserted", "removed"} /\ UNCHANGED <<hub, buf, view>>
      /\ \/ /\ Goto(d, IF pc[d] = "inserted" THEN "online" ELSE "offline")
            /\ \E event : walk' = [walk EXCEPT ![d] = Walk(event, <<>>, Users, Registered)]
         \/ Goto(d, "stuck")
  BY DEF Broadcast, goVars
<1>2. Others(d) BY OthersStay DEF Broadcast
<1>3. Showing(c, u) <=> Showing(c, u)' BY <1>1, SameShowing
<1>4. u \in Online <=> u \in Online' BY <1>1 DEF Online
<1>5. \/ pc'[d] = "stuck"
      \/ /\ pc'[d] = IF pc[d] = "inserted" THEN "online" ELSE "offline"
         /\ c \in walk'[d].there
  <2>1. CASE Goto(d, "stuck") BY <1>0, <2>1 DEF Goto
  <2>2. ASSUME NEW event, walk' = [walk EXCEPT ![d] = Walk(event, <<>>, Users, Registered)]
        PROVE  c \in walk'[d].there
    <3>1. walk'[d] = Walk(event, <<>>, Users, Registered) BY <1>0, <2>2
    <3>2. walk'[d].there = Registered BY <3>1, WalkFields
    <3>q. QED BY <3>2, WatcherRegistered
  <2>q. QED BY <1>0, <1>1, <2>1, <2>2 DEF Goto
<1>6. \A e \in Conns : /\ Leaving(e, c) => Leaving(e, c)'
                       /\ Left(e) \/ Coming(e, c) => Left(e)' \/ Coming(e, c)'
  <2>1. /\ Leaving(d, c) => Leaving(d, c)'
        /\ Left(d) \/ Coming(d, c) => Left(d)' \/ Coming(d, c)'
    <3>1. CASE pc[d] = "inserted" BY <1>5, <3>1 DEF Leaving, Left, Coming
    <3>2. CASE pc[d] = "removed" BY <1>5, <3>2 DEF Leaving, Left, Coming
    <3>q. QED BY <1>1, <3>1, <3>2
  <2>q. QED BY <1>2, <2>1 DEF Others, Leaving, Left, Coming
<1>q. QED BY <1>3, <1>4, <1>6, PresenceKept

\* Handlers that move without telling anybody anything.
LEMMA QuietPresence ==
  ASSUME HubInv, NEW c \in Conns, NEW u \in Users, Presence(c, u), NEW d \in Conns, Others(d),
         pc[d] \notin Telling, UNCHANGED hub, buf'[c] = buf[c], view'[c] = view[c]
  PROVE  Presence(c, u)'
<1>1. Showing(c, u) <=> Showing(c, u)' BY SameShowing
<1>2. u \in Online <=> u \in Online' BY DEF Online
<1>q. QED BY <1>1, <1>2, TellersStay, PresenceKept

LEMMA ClosePresence ==
  ASSUME HubInv, NEW c \in Conns, NEW u \in Users, pc[c] \in Open, Presence(c, u), NEW d \in Conns, Close(d)
  PROVE  Presence(c, u)'
<1>0. /\ pc \in [Conns -> Stages] /\ DOMAIN walk = Conns /\ buf \in [Conns -> Seq(Events)]
      /\ view \in [Conns -> SUBSET Users]
  BY DEF HubInv, MapInv, MapOK, ToldInv, WalkOK, BufOK, ChannelInv
<1>1. /\ pc[d] = "closing" /\ pc' = [pc EXCEPT ![d] = "gone"] /\ UNCHANGED hub
      /\ buf' = [buf EXCEPT ![d] = <<>>] /\ view' = [view EXCEPT ![d] = {}]
  BY DEF Close, Goto
<1>2. Others(d) BY OthersStay DEF Close
<1>3. d # c BY <1>1 DEF Open
<1>4. buf'[c] = buf[c] /\ view'[c] = view[c] BY <1>0, <1>1, <1>3
<1>5. Showing(c, u) <=> Showing(c, u)' BY <1>4, SameShowing
<1>6. u \in Online <=> u \in Online' BY <1>1 DEF Online
<1>7. \A e \in Conns : /\ Leaving(e, c) => Leaving(e, c)'
                       /\ Left(e) \/ Coming(e, c) => Left(e)' \/ Coming(e, c)'
  <2>1. ~Leaving(d, c) /\ Left(d)' BY <1>0, <1>1 DEF Leaving, Left
  <2>q. QED BY <1>2, <2>1 DEF Others, Leaving, Left, Coming
<1>q. QED BY <1>5, <1>6, <1>7, PresenceKept

\* What the event of a range says of a user, by what the handler is doing.
LEMMA RangeEvent ==
  ASSUME HubInv, NEW d \in Conns, pc[d] \in Ranging, NEW u
  PROVE  /\ walk[d].event \in Events
         /\ pc[d] = "push" => Neutral(walk[d].event, u)
         /\ pc[d] \in {"online", "offline"} /\ UserOf[d] # u => Neutral(walk[d].event, u)
         /\ pc[d] = "online" /\ UserOf[d] = u => Affirms(walk[d].event, u) /\ ~Denies(walk[d].event, u)
         /\ pc[d] = "offline" /\ UserOf[d] = u => Denies(walk[d].event, u) /\ ~Affirms(walk[d].event, u)
<1> DEFINE event == walk[d].event
<1>1. event \in Events /\ Shaped(d, pc[d], walk[d]) BY DEF HubInv, ToldInv, WalkOK, WalkInv
<1>2. pc[d] \in {"online", "offline"} => event.kind = pc[d] /\ event.about = UserOf[d]
  BY <1>1 DEF Shaped, Event
<1>3. pc[d] = "push" => event.kind \notin {"online", "offline", "current"} BY <1>1 DEF Shaped
<1> HIDE DEF event
<1>4. CASE pc[d] = "online" BY <1>1, <1>2, <1>4 DEF Neutral, Affirms, Denies, event
<1>5. CASE pc[d] = "offline" BY <1>1, <1>2, <1>5 DEF Neutral, Affirms, Denies, event
<1>6. CASE pc[d] = "push" BY <1>1, <1>3, <1>6 DEF Neutral, Affirms, Denies, event
<1>q. QED BY <1>4, <1>5, <1>6 DEF Ranging

\* A user whose handler announces it online is online.
LEMMA OnlineWhileSaying == ASSUME HubInv, main = "runs", NEW d \in Conns, pc[d] = "online"
  PROVE UserOf[d] \in Online
<1>1. UserOf[d] \in Users BY HubAssumption
<1>2. d \in hub[UserOf[d]] BY PlacedWhileRuns DEF HubInv, Inside
<1>q. QED BY <1>1, <1>2 DEF Online

\* A range reaches the watcher when it was there when the range began.
LEMMA RangePresence ==
  ASSUME HubInv, main = "runs", NEW c \in Conns, NEW u \in Users, pc[c] \in Open, c \notin missed', Presence(c, u),
         NEW d \in Conns, RangeOver(d)
  PROVE  Presence(c, u)'
<1> DEFINE event == walk[d].event
<1>0. pc \in [Conns -> Stages] /\ DOMAIN walk = Conns /\ hub \in [Users -> SUBSET Conns]
  BY DEF HubInv, MapInv, MapOK, ToldInv, WalkOK
<1>1. pc[d] \in Ranging /\ EndRange(d) /\ UNCHANGED <<hub, view>>
  BY DEF RangeOver, goVars
<1>2. PICK conns \in SUBSET Conns : Reaches(d, conns) /\ SendTo(conns, event)
  BY DEF RangeOver
<1>3. Others(d) BY <1>1, OthersStay DEF EndRange
<1>4. u \in Online <=> u \in Online' BY <1>1 DEF Online
<1>5. event \in Events BY <1>1, RangeEvent
<1>6. /\ c \in conns => buf'[c] = Append(buf[c], event)
      /\ c \notin conns => buf'[c] = buf[c]
  BY <1>1, <1>2, <1>5, SendShows
<1> HIDE DEF event
<1>7. /\ c \in conns => (Showing(c, u)' <=> Affirms(event, u) \/ (Showing(c, u) /\ ~Denies(event, u)))
      /\ c \notin conns => (Showing(c, u) <=> Showing(c, u)')
  BY <1>1, <1>5, <1>6, AppendShowing, SameShowing
<1>8. pc[d] \in {"online", "offline"} /\ c \in walk[d].there => c \in conns
  <2> SUFFICES ASSUME pc[d] \in {"online", "offline"}, c \in walk[d].there PROVE c \in conns
    OBVIOUS
  <2>1. Shaped(d, pc[d], walk[d]) BY DEF HubInv, WalkInv
  <2>2. walk[d].to = Users BY <2>1 DEF Shaped
  <2>3. c \in UNION {hub[v] : v \in walk[d].to} BY <2>2, WatcherRegistered DEF Registered
  <2>q. QED BY <1>2, <2>3 DEF Reaches
<1>9. CASE Neutral(event, u) /\ (pc[d] = "push" \/ UserOf[d] # u)
  <2>1. Showing(c, u) <=> Showing(c, u)' BY <1>7, <1>9 DEF Neutral
  <2>2. UserOf[d] # u \/ pc[d] \notin Telling BY <1>9 DEF Telling
  <2>q. QED BY <1>3, <1>4, <2>1, <2>2, TellersStay, PresenceKept
<1>10. CASE pc[d] = "online" /\ UserOf[d] = u
  <2>1. u \in Online' BY <1>4, <1>10, OnlineWhileSaying
  <2>2. Affirms(event, u) /\ ~Denies(event, u) BY <1>1, <1>10, RangeEvent DEF event
  <2>3. ASSUME ~Showing(c, u)', u # UserOf[c]
        PROVE  \E e \in Conns : UserOf[e] = u /\ (Left(e)' \/ Coming(e, c)')
    <3>1. c \notin conns BY <1>7, <2>2, <2>3
    <3>2. ~Showing(c, u) BY <1>7, <2>3, <3>1
    <3>3. PICK e \in Conns : UserOf[e] = u /\ (Left(e) \/ Coming(e, c))
      BY <1>4, <2>1, <2>3, <3>2 DEF Presence
    <3>4. e # d BY <1>8, <1>10, <3>1, <3>3 DEF Left, Coming
    <3>q. QED BY <1>3, <3>3, <3>4 DEF Others, Left, Coming
  <2>q. QED BY <2>1, <2>3 DEF Presence
<1>11. CASE pc[d] = "offline" /\ UserOf[d] = u
  <2>1. Denies(event, u) /\ ~Affirms(event, u) BY <1>1, <1>11, RangeEvent DEF event
  <2>2. pc'[d] = "closing" BY <1>0, <1>1, <1>11 DEF EndRange, Goto
  <2>3. Left(d)' BY <2>2 DEF Left
  <2>4. ASSUME u \notin Online', Showing(c, u)'
        PROVE  \E e \in Conns : UserOf[e] = u /\ Leaving(e, c)'
    <3>1. c \notin conns BY <1>7, <2>1, <2>4
    <3>2. Showing(c, u) BY <1>7, <2>4, <3>1
    <3>3. PICK e \in Conns : UserOf[e] = u /\ Leaving(e, c) BY <1>4, <2>4, <3>2 DEF Presence
    <3>4. e # d BY <1>8, <1>11, <3>1, <3>3 DEF Leaving
    <3>q. QED BY <1>3, <3>3, <3>4 DEF Others, Leaving
  <2>q. QED BY <1>11, <2>3, <2>4 DEF Presence
<1>q. QED
  <2>1. pc[d] = "push" \/ (pc[d] \in {"online", "offline"} /\ UserOf[d] # u) => Neutral(event, u)
    BY <1>1, RangeEvent DEF event
  <2>q. QED BY <1>1, <1>9, <1>10, <1>11, <2>1 DEF Ranging

\* A panic in the middle of a broadcast leaves a handler that is stuck.
LEMMA PanicPresence ==
  ASSUME HubInv, NEW c \in Conns, NEW u \in Users, pc[c] \in Open, c \notin missed', Presence(c, u),
         NEW d \in Conns, RangePanics(d)
  PROVE  Presence(c, u)'
<1> DEFINE event == walk[d].event
<1>0. pc \in [Conns -> Stages] /\ hub \in [Users -> SUBSET Conns]
      /\ walk[d].there \subseteq Conns
  BY DEF HubInv, MapInv, MapOK, WalkInv, Shaped
<1>1. pc[d] \in Ranging /\ UNCHANGED <<hub, view>>
      /\ Goto(d, IF pc[d] = "push" THEN "cancelled" ELSE "stuck")
  BY DEF RangePanics, goVars
<1>2. PICK conns \in SUBSET Conns : SendTo(conns, event)
  BY <1>0 DEF RangePanics
<1>3. Others(d) BY OthersStay DEF RangePanics
<1>4. u \in Online <=> u \in Online' BY <1>1 DEF Online
<1>5. event \in Events BY <1>1, RangeEvent
<1>6. /\ c \in conns => buf'[c] = Append(buf[c], event)
      /\ c \notin conns => buf'[c] = buf[c]
  BY <1>1, <1>2, <1>5, SendShows
<1> HIDE DEF event
<1>7. /\ c \in conns => (Showing(c, u)' <=> Affirms(event, u) \/ (Showing(c, u) /\ ~Denies(event, u)))
      /\ c \notin conns => (Showing(c, u) <=> Showing(c, u)')
  BY <1>1, <1>5, <1>6, AppendShowing, SameShowing
<1>8. CASE pc[d] = "push" \/ UserOf[d] # u
  <2>1. Neutral(event, u) BY <1>1, <1>8, RangeEvent DEF event, Ranging
  <2>2. Showing(c, u) <=> Showing(c, u)' BY <1>7, <2>1 DEF Neutral
  <2>3. UserOf[d] # u \/ pc[d] \notin Telling BY <1>8 DEF Telling
  <2>q. QED BY <1>3, <1>4, <2>2, <2>3, TellersStay, PresenceKept
<1>9. CASE pc[d] # "push" /\ UserOf[d] = u
  <2>1. pc'[d] = "stuck" BY <1>0, <1>1, <1>9 DEF Goto
  <2>2. Leaving(d, c)' /\ Left(d)' BY <2>1 DEF Leaving, Left
  <2>q. QED BY <1>9, <2>2 DEF Presence
<1>q. QED BY <1>8, <1>9

\* A connection is served once it was told who is online.
LEMMA GreetPresence ==
  ASSUME HubInv, NEW c \in Conns, NEW u \in Users, GreetSend(c)
  PROVE  Presence(c, u)'
<1> DEFINE event == Event("current", Online \ {UserOf[c]})
<1>0. buf \in [Conns -> Seq(Events)] BY DEF HubInv, ToldInv, BufOK
<1>1. /\ buf' = [buf EXCEPT ![c] = Append(@, event)] /\ UNCHANGED <<hub, view>>
  BY DEF GreetSend
<1>2. Online \ {UserOf[c]} \subseteq Users BY DEF Online
<1>3. event \in Events /\ event.kind = "current" /\ event.about = Online \ {UserOf[c]}
  BY <1>2, EventKinds, EventFields
<1> HIDE DEF event
<1>4. buf'[c] = Append(buf[c], event) /\ view'[c] = view[c] BY <1>0, <1>1
<1>5. Affirms(event, u) <=> u \in Online \ {UserOf[c]} BY <1>3 DEF Affirms
<1>6. ~Affirms(event, u) => Denies(event, u) BY <1>3, <1>5 DEF Denies
<1>7. Showing(c, u)' <=> u \in Online \ {UserOf[c]} BY <1>3, <1>4, <1>5, <1>6, AppendShowing
<1>8. Online' = Online BY <1>1 DEF Online
<1>q. QED BY <1>7, <1>8 DEF Presence

\* What the client reads it already was going to show.
LEMMA PumpPresence ==
  ASSUME HubInv, NEW c \in Watchers, c \in Conns, NEW u \in Users, c \notin missed', Presence(c, u),
         NEW d \in Conns, WritePump(d)
  PROVE  Presence(c, u)'
<1>0. buf \in [Conns -> Seq(Events)] /\ view \in [Conns -> SUBSET Users]
  BY DEF HubInv, ToldInv, BufOK, ChannelInv
<1>1. /\ buf' = [buf EXCEPT ![d] = Tail(@)] /\ buf[d] # <<>> /\ UNCHANGED <<hub, pc, walk>>
      /\ \/ view' = IF d \in Watchers THEN [view EXCEPT ![d] = Seen(@, Head(buf[d]))] ELSE view
         \/ view' = view /\ d \in missed'
  BY DEF WritePump
<1>2. Showing(c, u) <=> Showing(c, u)'
  <2>1. CASE d # c
    <3>1. buf'[c] = buf[c] /\ view'[c] = view[c] BY <1>0, <1>1, <2>1
    <3>q. QED BY <3>1, SameShowing
  <2>2. CASE d = c
    <3>1. buf'[c] = Tail(buf[c]) /\ view'[c] = Seen(view[c], Head(buf[c]))
      BY <1>0, <1>1, <2>2
    <3>q. QED BY <1>0, <1>1, <2>2, <3>1, ShowsTail DEF Showing
  <2>q. QED BY <2>1, <2>2
<1>3. Online' = Online BY <1>1 DEF Online
<1>4. \A e \in Conns : /\ Leaving(e, c) => Leaving(e, c)'
                       /\ Left(e) \/ Coming(e, c) => Left(e)' \/ Coming(e, c)'
  BY <1>1 DEF Leaving, Left, Coming
<1>q. QED BY <1>2, <1>3, <1>4, PresenceKept

\* The other goroutines tell nobody who is online.
LEMMA StillPresence ==
  ASSUME HubInv, NEW c \in Conns, NEW u \in Users, Presence(c, u),
         UNCHANGED <<hub, pc, walk, view>>,
         \/ buf'[c] = buf[c]
         \/ buf'[c] = Append(buf[c], Plain("heartbeat"))
  PROVE  Presence(c, u)'
<1>1. Showing(c, u) <=> Showing(c, u)'
  <2>1. Plain("heartbeat") \in Events /\ Neutral(Plain("heartbeat"), u)
    BY EventKinds, EventFields DEF Plain, Neutral, Affirms, Denies
  <2>q. QED BY <2>1, AppendShowing, SameShowing DEF Neutral
<1>2. Online' = Online BY DEF Online
<1>3. \A e \in Conns : /\ Leaving(e, c) => Leaving(e, c)'
                       /\ Left(e) \/ Coming(e, c) => Left(e)' \/ Coming(e, c)'
  BY DEF Leaving, Left, Coming
<1>q. QED BY <1>1, <1>2, <1>3, PresenceKept

\* A client is served after a step only when it was before, or was greeted.
LEMMA OpenBefore == ASSUME HubInv, [Next]_vars, NEW c \in Conns, pc'[c] \in Open, ~GreetSend(c)
  PROVE pc[c] \in Open
<1>0. pc \in [Conns -> Stages] BY DEF HubInv, MapInv, MapOK
<1>a. ASSUME pc'[c] = pc[c] PROVE pc[c] \in Open BY <1>a
<1>b. ASSUME NEW d \in Conns, NEW stage, Goto(d, stage), pc[d] \in Open \/ stage \notin Open PROVE pc[c] \in Open
  BY <1>0, <1>b DEF Goto
<1>1. ASSUME NEW d \in Conns, Register(d) \/ Unregister(d) \/ GreetLock(d) \/ GreetPanics(d) \/ Leave(d) \/ Close(d)
      PROVE pc[c] \in Open
  <2>1. \E stage \in Stages \ Open : Goto(d, stage)
    BY <1>1 DEF Register, Unregister, GreetLock, GreetPanics, Leave, Close, Stages, Open
  <2>q. QED BY <1>b, <2>1
<1>2. ASSUME NEW d \in Conns, Broadcast(d) \/ RangePanics(d) PROVE pc[c] \in Open
  <2>1. \E stage \in Stages \ Open : Goto(d, stage)
    BY <1>2 DEF Broadcast, RangePanics, Stages, Open
  <2>q. QED BY <1>b, <2>1
<1>3. ASSUME NEW d \in Conns, Lookup(d) \/ Incoming(d) PROVE pc[c] \in Open
  <2>1. pc[d] \in Open /\ \E stage : Goto(d, stage)
    BY <1>3, IncomingWalk DEF Lookup, Open
  <2>q. QED BY <1>b, <2>1
<1>4. ASSUME NEW d \in Conns, RangeOver(d) PROVE pc[c] \in Open
  <2>1. \E stage : Goto(d, stage) /\ (pc[d] \in Open \/ stage \notin Open)
    BY <1>4, RangeEnds DEF RangeOver, Open
  <2>q. QED BY <1>b, <2>1
<1>5. ASSUME NEW d \in Conns, GreetSend(d) PROVE pc[c] \in Open
  BY <1>0, <1>5 DEF GreetSend, Goto
<1>6. ASSUME NEW d \in Conns, Heartbeat(d) \/ WritePump(d) \/ Ping(d) \/ MarkAll(d) PROVE pc[c] \in Open
  BY <1>a, <1>6 DEF Heartbeat, WritePump, Ping, MarkAll
<1>7. CASE ProcessEnds BY <1>7 DEF ProcessEnds, Open
<1>8. CASE UNCHANGED vars BY <1>a, <1>8 DEF vars
<1>9. CASE Shutting BY <1>a, <1>9, ShutFrame
<1>q. QED BY <1>1, <1>2, <1>3, <1>4, <1>5, <1>6, <1>7, <1>8, <1>9, StepsByKind

LEMMA PresenceNext == HubInv /\ PresenceInv /\ [Next]_vars => PresenceInv'
<1> SUFFICES ASSUME HubInv, PresenceInv, [Next]_vars,
                    NEW c \in Watchers, Watching(c)', NEW u \in Users
             PROVE  Presence(c, u)'
  BY DEF PresenceInv
<1>0. c \in Conns /\ buf \in [Conns -> Seq(Events)]
  BY HubAssumption DEF HubInv, ToldInv, BufOK
<1>1. up' /\ main' = "runs" /\ pc'[c] \in Open /\ c \notin missed' BY DEF Watching
<1>2. ~ProcessEnds /\ ~Shutting BY <1>1, ShutFrame DEF ProcessEnds
<1>3. CASE GreetSend(c) BY <1>0, <1>3, GreetPresence
<1>4. CASE ~GreetSend(c)
  <2>1. pc[c] \in Open BY <1>0, <1>1, <1>4, OpenBefore
  <2>2. up /\ main = "runs" /\ c \notin missed BY <1>1, <1>2, MissedKept, ProcFrame
  <2>3. Presence(c, u) BY <2>1, <2>2 DEF PresenceInv, Watching
  <2>4. ASSUME NEW d \in Conns, GreetLock(d) \/ GreetPanics(d) \/ Leave(d) PROVE Presence(c, u)'
    <3>1. pc[d] \in {"greet", "greeting", "serve"} /\ UNCHANGED <<hub, buf, view>> BY <2>4 DEF GreetLock, GreetPanics, Leave, goVars
    <3>2. Others(d) BY <2>4, OthersStay DEF GreetLock, GreetPanics, Leave
    <3>q. QED BY <1>0, <2>3, <3>1, <3>2, QuietPresence DEF Telling
  <2>5. ASSUME NEW d \in Conns, GreetSend(d) PROVE Presence(c, u)'
    <3>1. d # c BY <1>4, <2>5
    <3>2. pc[d] = "greeting" /\ UNCHANGED <<hub, view>> /\ buf'[c] = buf[c]
      BY <1>0, <2>5, <3>1 DEF GreetSend
    <3>3. Others(d) BY <2>5, OthersStay DEF GreetSend
    <3>q. QED BY <1>0, <2>3, <3>2, <3>3, QuietPresence DEF Telling
  <2>6. ASSUME NEW d \in Conns, Lookup(d) PROVE Presence(c, u)'
    <3>1. pc[d] = "deliver" /\ UNCHANGED <<hub, buf, view>> BY <2>6 DEF Lookup, goVars
    <3>2. Others(d) BY <2>6, OthersStay DEF Lookup
    <3>q. QED BY <1>0, <2>3, <3>1, <3>2, QuietPresence DEF Telling
  <2>7. ASSUME NEW d \in Conns, Incoming(d) PROVE Presence(c, u)'
    <3>1. pc[d] = "serve" /\ UNCHANGED <<hub, buf, view>> BY <2>7, IncomingFrame
    <3>2. Others(d) BY <2>7, IncomingWalk, OthersStay DEF FanOut
    <3>q. QED BY <1>0, <2>3, <3>1, <3>2, QuietPresence DEF Telling
  <2>8. ASSUME NEW d \in Conns, Heartbeat(d) PROVE Presence(c, u)'
    <3>1. UNCHANGED <<hub, pc, walk, view>> /\ buf' = [buf EXCEPT ![d] = Append(@, Plain("heartbeat"))]
      BY <2>8 DEF Heartbeat
    <3>2. buf'[c] = buf[c] \/ buf'[c] = Append(buf[c], Plain("heartbeat")) BY <1>0, <3>1
    <3>q. QED BY <1>0, <2>3, <3>1, <3>2, StillPresence
  <2>9. ASSUME NEW d \in Conns, Ping(d) \/ MarkAll(d) PROVE Presence(c, u)'
    <3>1. UNCHANGED <<hub, pc, walk, view, buf>> BY <2>9 DEF Ping, MarkAll, goVars
    <3>q. QED BY <1>0, <2>3, <3>1, StillPresence
  <2>10. CASE UNCHANGED vars
    <3>1. UNCHANGED <<hub, pc, walk, view, buf>> BY <2>10 DEF vars, goVars
    <3>q. QED BY <1>0, <2>3, <3>1, StillPresence
  <2>11. ASSUME NEW d \in Conns, Register(d) \/ Unregister(d) \/ Broadcast(d) \/ Close(d) PROVE Presence(c, u)'
    BY <1>0, <2>1, <2>3, <2>2, <2>11, RegisterPresence, UnregisterPresence, BroadcastPresence, ClosePresence
  <2>12. ASSUME NEW d \in Conns, RangeOver(d) \/ RangePanics(d) PROVE Presence(c, u)'
    BY <1>0, <1>1, <2>1, <2>3, <2>2, <2>12, RangePresence, PanicPresence
  <2>13. ASSUME NEW d \in Conns, WritePump(d) PROVE Presence(c, u)'
    BY <1>0, <1>1, <2>3, <2>13, PumpPresence
  <2>q. QED BY <1>2, <2>4, <2>5, <2>6, <2>7, <2>8, <2>9, <2>10, <2>11, <2>12, <2>13, StepsByKind
<1>q. QED BY <1>3, <1>4

\* A client that lost no event and has read what it was sent shows nobody who
\* is not online once every handler is done; it lacks only users who have left
\* and come back.
THEOREM PresenceAlwaysSettles == Spec => []PresenceAtRest
<1>1. HubInv /\ PresenceInv => PresenceAtRest
  <2> SUFFICES ASSUME HubInv, PresenceInv, Settled, NEW c \in Watchers,
                      pc[c] = "serve", buf[c] = <<>>, c \notin missed
               PROVE  /\ view[c] \subseteq Online
                      /\ \A u \in Online \ (view[c] \cup {UserOf[c]}) :
                           \E d \in Conns : UserOf[d] = u /\ pc[d] = "gone"
    BY DEF PresenceAtRest
  <2>1. up /\ main = "runs" /\ \A d \in Conns : pc[d] \in {"new", "serve", "gone"} BY DEF Settled
  <2>2. c \in Conns /\ view[c] \subseteq Users BY HubAssumption DEF HubInv, ChannelInv
  <2>3. Watching(c) BY <2>1 DEF Watching, Open
  <2>4. ASSUME NEW u \in Users PROVE Presence(c, u) /\ (Showing(c, u) <=> u \in view[c])
    BY <2>3, <2>4, ShowsEmpty DEF PresenceInv, Showing
  <2>5. \A d \in Conns : ~Leaving(d, c) /\ ~Coming(d, c) /\ (Left(d) => pc[d] = "gone")
    BY <2>1 DEF Leaving, Coming, Left
  <2>6. ASSUME NEW u \in view[c] PROVE u \in Online
    BY <2>2, <2>4, <2>5 DEF Presence
  <2>7. ASSUME NEW u \in Online \ (view[c] \cup {UserOf[c]})
        PROVE  \E d \in Conns : UserOf[d] = u /\ pc[d] = "gone"
    <3>1. u \in Users BY DEF Online
    <3>q. QED BY <2>4, <2>5, <3>1 DEF Presence
  <2>q. QED BY <2>6, <2>7
<1>2. Spec => []PresenceInv BY PresenceInit, PresenceNext, HubAlways, PTL DEF Spec
<1>q. QED BY <1>1, <1>2, HubAlways, PTL
=============================================================================
