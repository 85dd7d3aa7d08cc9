--------------------------- MODULE ServicesProofs ---------------------------
(***************************************************************************)
(* The small services, one after the other, and side by side: what holds of *)
(* a service alone holds of it beside the others.                          *)
(***************************************************************************)
EXTENDS Services, FiniteSetTheorems, TLAPS

-----------------------------------------------------------------------------
(***************************************************************************)
(* One conversation per pair, for any requests of any users, sent as often *)
(* as they like and interleaved in any way.                                *)
(***************************************************************************)

RowsInv == \A r, s \in privates : r.users = s.users => r = s

\* What a stage of a request of these users knows.  Rows are never deleted, so
\* what one statement has seen stays true while the next one runs.
Knows(request, users) ==
  /\ request.stage \in {"missed", "insert", "fetch"} => users[1] # users[2]
  /\ request.stage \in {"fetch", "answered"} => [id |-> request.id, users |-> Lower(users)] \in privates
  /\ request.stage = "error" /\ ~joinFaults => \E row \in privates : row.users = Lower(users)

RequestsInv == \A j \in Joiners : Knows(joins[j], JoinUsers[j])

JoinInv == JoinTypeOK /\ RowsInv /\ RequestsInv

\* Pairs are stored with the smaller user first.
LEMMA LowerFacts == ASSUME NEW p \in Nat \X Nat
  PROVE /\ Lower(p) \in Nat \X Nat
        /\ p[1] # p[2] => Lower(p)[1] < Lower(p)[2]
<1>1. CASE p[1] > p[2] BY <1>1 DEF Lower
<1>2. CASE ~(p[1] > p[2]) BY <1>2 DEF Lower
<1>q. QED BY <1>1, <1>2

\* A reply to one request, with no row taken away, leaves the others what they
\* know.
LEMMA ReplyInv ==
  ASSUME JoinInv, NEW j \in Joiners, NEW stage \in JoinStages, NEW id \in 0..MaxPrivate,
         Reply(j, stage, id), privates \subseteq privates', UNCHANGED joinFaults,
         Knows([stage |-> stage, id |-> id], JoinUsers[j])'
  PROVE  /\ RequestsInv'
         /\ joins' \in [Joiners -> [stage : JoinStages, id : 0..MaxPrivate]]
<1>1. /\ joins \in [Joiners -> [stage : JoinStages, id : 0..MaxPrivate]]
      /\ joins' = [joins EXCEPT ![j] = [stage |-> stage, id |-> id]]
  BY DEF JoinInv, JoinTypeOK, Reply
<1>2. [stage |-> stage, id |-> id] \in [stage : JoinStages, id : 0..MaxPrivate]
  OBVIOUS
<1>3. joins' \in [Joiners -> [stage : JoinStages, id : 0..MaxPrivate]]
  BY <1>1, <1>2
<1>4. ASSUME NEW k \in Joiners PROVE Knows(joins[k], JoinUsers[k])'
  <2>1. CASE k = j
    <3>1. joins'[k] = [stage |-> stage, id |-> id] BY <1>1, <2>1
    <3>q. QED BY <2>1, <3>1 DEF Knows
  <2>2. CASE k # j
    <3>1. joins'[k] = joins[k] BY <1>1, <2>2
    <3>2. Knows(joins[k], JoinUsers[k]) BY DEF JoinInv, RequestsInv
    <3>q. QED BY <3>1, <3>2 DEF Knows
  <2>q. QED BY <2>1, <2>2
<1>q. QED BY <1>3, <1>4 DEF RequestsInv

\* A lookup replies with a row of the pair, or with a failure of the database.
LEMMA LookInv ==
  ASSUME JoinInv, NEW j \in Joiners, NEW next \in {"missed", "insert"}, LookOr(j, next),
         JoinUsers[j][1] # JoinUsers[j][2], UNCHANGED <<privates, privateIds, joinFaults>>
  PROVE  JoinInv'
<1> DEFINE users == JoinUsers[j]
<1>1. privates \subseteq [id : 1..MaxPrivate, users : Nat \X Nat] /\ MaxPrivate \in Nat
  BY JoinAssumption DEF JoinInv, JoinTypeOK
<1>2. ASSUME NEW row \in PrivateByUsers(users), Reply(j, "answered", row.id)
      PROVE RequestsInv' /\ joins' \in [Joiners -> [stage : JoinStages, id : 0..MaxPrivate]]
  <2>1. row \in privates /\ row.users = Lower(users) BY DEF PrivateByUsers
  <2>2. row \in [id : 1..MaxPrivate, users : Nat \X Nat] BY <1>1, <2>1
  <2>3. row.id \in 0..MaxPrivate /\ row = [id |-> row.id, users |-> Lower(users)]
    BY <1>1, <2>1, <2>2
  <2>4. Knows([stage |-> "answered", id |-> row.id], users)' BY <2>1, <2>3 DEF Knows
  <2>q. QED BY <1>2, <2>3, <2>4, ReplyInv DEF JoinStages
<1>3. ASSUME NEW stage \in {"missed", "insert", "error"}, Reply(j, stage, 0), stage = "error" => joinFaults
      PROVE RequestsInv' /\ joins' \in [Joiners -> [stage : JoinStages, id : 0..MaxPrivate]]
  <2>1. Knows([stage |-> stage, id |-> 0], users)' BY <1>3 DEF Knows
  <2>2. stage \in JoinStages /\ 0 \in 0..MaxPrivate BY <1>1 DEF JoinStages
  <2>q. QED BY <1>3, <2>1, <2>2, ReplyInv
<1>4. RequestsInv' /\ joins' \in [Joiners -> [stage : JoinStages, id : 0..MaxPrivate]]
  BY <1>2, <1>3 DEF LookOr
<1>q. QED BY <1>4 DEF JoinInv, JoinTypeOK, RowsInv

\* The insert: the constraints refuse a second row of a pair, and then the row
\* that is there is the one to be found.
LEMMA InsertInv == ASSUME JoinInv, NEW j \in Joiners, InsertPrivate(j) PROVE JoinInv'
<1> DEFINE users == JoinUsers[j]
           pair == Lower(users)
<1>1. /\ privates \subseteq [id : 1..MaxPrivate, users : Nat \X Nat]
      /\ privateIds \in 0..MaxPrivate /\ MaxPrivate \in Nat /\ users \in Nat \X Nat
      /\ joinFaults \in BOOLEAN
  BY JoinAssumption DEF JoinInv, JoinTypeOK
<1>2. joins[j].stage = "insert" /\ privateIds < MaxPrivate /\ joinFaults' = joinFaults
  BY DEF InsertPrivate
<1>3. users[1] # users[2] BY <1>2 DEF JoinInv, RequestsInv, Knows
<1>4. pair \in Nat \X Nat /\ pair[1] < pair[2] BY <1>1, <1>3, LowerFacts
<1>5. CASE /\ privateIds' = privateIds + 1 /\ Admits(pair)
           /\ privates' = privates \cup {[id |-> privateIds', users |-> pair]}
           /\ Reply(j, "fetch", privateIds')
  <2>1. PICK n \in 1..MaxPrivate : n = privateIds'
    BY <1>1, <1>2, <1>5
  <2> DEFINE new == [id |-> n, users |-> pair]
  <2>2. privates' = privates \cup {new} /\ new \in [id : 1..MaxPrivate, users : Nat \X Nat]
    BY <1>4, <1>5, <2>1
  <2>3. new.users = pair /\ \A row \in privates : row.users # pair
    BY <1>5 DEF Admits
  <2>4. Knows([stage |-> "fetch", id |-> n], users)'
    BY <1>3, <2>2 DEF Knows
  <2>5. "fetch" \in JoinStages /\ n \in 0..MaxPrivate BY <1>1 DEF JoinStages
  <2>6. RequestsInv' /\ joins' \in [Joiners -> [stage : JoinStages, id : 0..MaxPrivate]]
    BY <1>2, <1>5, <2>1, <2>2, <2>4, <2>5, ReplyInv
  <2> HIDE DEF new, pair
  <2>7. RowsInv' BY <2>2, <2>3 DEF JoinInv, RowsInv
  <2>q. QED BY <1>1, <1>2, <2>1, <2>2, <2>5, <2>6, <2>7 DEF JoinInv, JoinTypeOK
<1>6. CASE /\ privateIds' = privateIds + 1 /\ ~Admits(pair)
           /\ privates' = privates /\ Reply(j, "error", 0)
  <2>1. \E row \in privates : row.users = pair BY <1>4, <1>6 DEF Admits
  <2>2. Knows([stage |-> "error", id |-> 0], users)' BY <1>6, <2>1 DEF Knows
  <2>3. "error" \in JoinStages /\ 0 \in 0..MaxPrivate BY <1>1 DEF JoinStages
  <2>4. RequestsInv' /\ joins' \in [Joiners -> [stage : JoinStages, id : 0..MaxPrivate]]
    BY <1>2, <1>6, <2>2, <2>3, ReplyInv
  <2>5. privateIds' \in 0..MaxPrivate BY <1>1, <1>2, <1>6
  <2>q. QED BY <1>1, <1>2, <1>6, <2>4, <2>5 DEF JoinInv, JoinTypeOK, RowsInv
<1>7. CASE joinFaults /\ Reply(j, "error", 0) /\ UNCHANGED <<privates, privateIds>>
  <2>1. Knows([stage |-> "error", id |-> 0], users)' BY <1>2, <1>7 DEF Knows
  <2>2. "error" \in JoinStages /\ 0 \in 0..MaxPrivate BY <1>1 DEF JoinStages
  <2>3. RequestsInv' /\ joins' \in [Joiners -> [stage : JoinStages, id : 0..MaxPrivate]]
    BY <1>2, <1>7, <2>1, <2>2, ReplyInv
  <2>q. QED BY <1>1, <1>2, <1>7, <2>3 DEF JoinInv, JoinTypeOK, RowsInv
<1>q. QED BY <1>5, <1>6, <1>7 DEF InsertPrivate

\* Reading the new row back, refusing, and starting over change no row.
LEMMA PlainReplyInv ==
  ASSUME JoinInv, NEW j \in Joiners, NEW stage \in JoinStages, NEW id \in 0..MaxPrivate,
         Reply(j, stage, id), UNCHANGED <<privates, privateIds, joinFaults>>,
         Knows([stage |-> stage, id |-> id], JoinUsers[j])
  PROVE  JoinInv'
<1>1. Knows([stage |-> stage, id |-> id], JoinUsers[j])' BY DEF Knows
<1>2. RequestsInv' /\ joins' \in [Joiners -> [stage : JoinStages, id : 0..MaxPrivate]]
  BY <1>1, ReplyInv
<1>q. QED BY <1>2 DEF JoinInv, JoinTypeOK, RowsInv

LEMMA JoinNextInv == JoinInv /\ [JoinNext]_joinVars => JoinInv'
<1> SUFFICES ASSUME JoinInv, [JoinNext]_joinVars PROVE JoinInv'
  OBVIOUS
<1>0. MaxPrivate \in Nat /\ 0 \in 0..MaxPrivate BY JoinAssumption
<1>1. ASSUME NEW j \in Joiners, JoinLook(j) PROVE JoinInv'
  <2>1. CASE Reply(j, "refused", 0)
    <3>1. Knows([stage |-> "refused", id |-> 0], JoinUsers[j]) BY DEF Knows
    <3>2. UNCHANGED <<privates, privateIds, joinFaults>> BY <1>1 DEF JoinLook
    <3>q. QED BY <1>0, <2>1, <3>1, <3>2, PlainReplyInv DEF JoinStages
  <2>2. CASE joinFaults /\ Reply(j, "error", 0)
    <3>1. Knows([stage |-> "error", id |-> 0], JoinUsers[j]) BY <2>2 DEF Knows
    <3>2. UNCHANGED <<privates, privateIds, joinFaults>> BY <1>1 DEF JoinLook
    <3>q. QED BY <1>0, <2>2, <3>1, <3>2, PlainReplyInv DEF JoinStages
  <2>3. CASE JoinUsers[j][1] # JoinUsers[j][2] /\ LookOr(j, "missed")
    BY <1>1, <2>3, LookInv DEF JoinLook
  <2>q. QED BY <1>1, <2>1, <2>2, <2>3 DEF JoinLook
<1>2. ASSUME NEW j \in Joiners, CreateLook(j) PROVE JoinInv'
  <2>1. JoinUsers[j][1] # JoinUsers[j][2]
    BY <1>2 DEF CreateLook, JoinInv, RequestsInv, Knows
  <2>q. QED BY <1>2, <2>1, LookInv DEF CreateLook
<1>3. ASSUME NEW j \in Joiners, InsertPrivate(j) PROVE JoinInv'
  BY <1>3, InsertInv
<1>4. ASSUME NEW j \in Joiners, FetchPrivate(j) PROVE JoinInv'
  <2>1. /\ joins[j].stage = "fetch" /\ UNCHANGED <<privates, privateIds, joinFaults>>
        /\ [id |-> joins[j].id, users |-> Lower(JoinUsers[j])] \in privates
        /\ joins[j].id \in 0..MaxPrivate
    BY <1>4 DEF FetchPrivate, JoinInv, JoinTypeOK, RequestsInv, Knows
  <2>2. CASE Reply(j, "answered", joins[j].id)
    <3>1. Knows([stage |-> "answered", id |-> joins[j].id], JoinUsers[j]) BY <2>1 DEF Knows
    <3>q. QED BY <2>1, <2>2, <3>1, PlainReplyInv DEF JoinStages
  <2>3. CASE joinFaults /\ Reply(j, "error", 0)
    <3>1. Knows([stage |-> "error", id |-> 0], JoinUsers[j]) BY <2>3 DEF Knows
    <3>q. QED BY <1>0, <2>1, <2>3, <3>1, PlainReplyInv DEF JoinStages
  <2>q. QED BY <1>4, <2>2, <2>3 DEF FetchPrivate
<1>5. ASSUME NEW j \in Joiners, JoinAgain(j) PROVE JoinInv'
  <2>1. Knows([stage |-> "idle", id |-> 0], JoinUsers[j]) BY DEF Knows
  <2>2. Reply(j, "idle", 0) /\ UNCHANGED <<privates, privateIds, joinFaults>>
    BY <1>5 DEF JoinAgain
  <2>q. QED BY <1>0, <2>1, <2>2, PlainReplyInv DEF JoinStages
<1>6. CASE UNCHANGED joinVars
  BY <1>6 DEF joinVars, JoinInv, JoinTypeOK, RowsInv, RequestsInv, Knows
<1>q. QED BY <1>1, <1>2, <1>3, <1>4, <1>5, <1>6 DEF JoinNext

LEMMA JoinInitInv == JoinInit => JoinInv
<1> SUFFICES ASSUME JoinInit PROVE JoinInv
  OBVIOUS
<1>1. MaxPrivate \in Nat BY JoinAssumption
<1>q. QED BY <1>1 DEF JoinInit, JoinInv, JoinTypeOK, JoinStages, RowsInv, RequestsInv, Knows

\* Two users have one conversation and are given that one, for every number of
\* requests, users and rows, whatever races and whatever fails.
THEOREM AlwaysOneConversation == JoinSpec => []OneConversation
<1>1. JoinInv => OneConversation
  BY DEF JoinInv, RowsInv, RequestsInv, Knows, OneConversation, PrivateByUsers
<1>q. QED BY <1>1, JoinInitInv, JoinNextInv, PTL DEF JoinSpec

-----------------------------------------------------------------------------
(***************************************************************************)
(* The history of a conversation, page by page, for every limit and every  *)
(* number of messages, and for a conversation that grows meanwhile.        *)
(***************************************************************************)

\* What the walk has left: while there are more pages, only messages that come
\* after the pages read so far; at the end, none.
WalkInv ==
  /\ reader.page = 0 => ~reader.more
  /\ reader.old <= saved
  /\ reader.page > 0 => reader.limit \in Limits
  /\ reader.more => \A m \in (1..reader.old) \ (reader.shown \cup reader.cut) :
                      saved - m >= reader.page * (reader.limit + 1)
  /\ WalkEnded => 1..reader.old \subseteq reader.shown \cup reader.cut
  /\ saved = reader.old =>
       /\ reader.again = {}
       /\ \A m \in reader.shown : saved - m < reader.page * (reader.limit + 1)

HistoryInv == HistoryTypeOK /\ WalkInv

LEMMA NextMultiple == ASSUME NEW n \in Int, NEW k \in Int PROVE (n + 1) * k = n * k + k
  BY SMT

LEMMA NaturalProduct == ASSUME NEW n \in Nat, NEW k \in Nat PROVE n * k \in Nat
  BY SMT

\* A page holds the rows after its offset, and there is a next one when the
\* query found one row more than the page shows.
LEMMA PageFacts ==
  ASSUME saved \in Nat, NEW limit \in Nat \ {0}, NEW page \in Nat \ {0}
  PROVE  LET p == Page(page, limit)
             offset == (page - 1) * (limit + 1)
         IN /\ p.shown \cup p.cut =
                 {m \in 1..saved : saved - m >= offset /\ saved - m < page * (limit + 1)}
            /\ p.more <=> saved >= page * (limit + 1)
            /\ p.more \in BOOLEAN
<1> DEFINE k == limit + 1
           offset == (page - 1) * k
           rows == MessagesByPrivateID(page, k)
           shown == {m \in rows : Cardinality({n \in rows : n > m}) < limit}
<1>1. offset \in Nat /\ page * k = offset + k
  <2>1. page - 1 \in Nat /\ k \in Nat BY SMT
  <2>2. offset \in Nat BY <2>1, NaturalProduct
  <2>3. ((page - 1) + 1) * k = offset + k BY <2>1, NextMultiple
  <2>4. (page - 1) + 1 = page BY SMT
  <2>q. QED BY <2>2, <2>3, <2>4
<1>2. rows = {m \in 1..saved : saved - m >= offset /\ saved - m < offset + k}
  BY DEF MessagesByPrivateID
<1>3. /\ Page(page, limit).shown = shown /\ Page(page, limit).cut = rows \ shown
      /\ Page(page, limit).more = (Cardinality(rows) > limit)
  BY DEF Page
<1>5. shown \subseteq rows OBVIOUS
<1> HIDE DEF offset, shown, rows
<1>4. Cardinality(rows) \in Int /\ (Cardinality(rows) > limit <=> saved >= offset + k)
  <2>1. CASE saved >= offset + k
    <3>1. rows = (saved - offset - limit)..(saved - offset)
      <4>1. ASSUME NEW m \in Int
            PROVE  m \in 1..saved /\ saved - m >= offset /\ saved - m < offset + k <=>
                     m \in (saved - offset - limit)..(saved - offset)
        BY <1>1, <2>1
      <4>q. QED BY <1>1, <1>2, <4>1
    <3>2. Cardinality(rows) = limit + 1
      <4>1. /\ saved - offset - limit \in Int /\ saved - offset \in Int
            /\ saved - offset - limit <= saved - offset
        BY <1>1
      <4>q. QED BY <1>1, <3>1, <4>1, FS_Interval
    <3>q. QED BY <2>1, <3>2
  <2>2. CASE saved < offset + k
    <3>1. rows = 1..(saved - offset) 
      <4>1. ASSUME NEW m \in Int
            PROVE  m \in 1..saved /\ saved - m >= offset /\ saved - m < offset + k <=>
                     m \in 1..(saved - offset)
        BY <1>1, <2>2
      <4>q. QED BY <1>1, <1>2, <4>1
    <3>2. CASE saved - offset >= 1
      <4>1. Cardinality(rows) = saved - offset - 1 + 1
        BY <1>1, <3>1, <3>2, FS_Interval
      <4>q. QED BY <1>1, <2>2, <4>1
    <3>3. CASE saved - offset < 1
      <4>1. rows = {} BY <1>1, <3>1, <3>3
      <4>2. Cardinality(rows) = 0 BY <4>1, FS_EmptySet
      <4>q. QED BY <1>1, <2>2, <4>2
    <3>q. QED BY <1>1, <3>2, <3>3
  <2>q. QED BY <1>1, <2>1, <2>2
<1>6. shown \cup (rows \ shown) = {m \in 1..saved : saved - m >= offset /\ saved - m < page * k}
  BY <1>1, <1>2, <1>5
<1> DEFINE n == Cardinality(rows)
<1>7. Page(page, limit).more \in BOOLEAN /\ (Page(page, limit).more <=> n > limit)
  <2> HIDE DEF n
  <2>1. Page(page, limit).more = (n > limit) /\ n \in Int BY <1>3, <1>4 DEF n
  <2>2. (n > limit) \in BOOLEAN BY <2>1
  <2>q. QED BY <2>1, <2>2
<1>8. Page(page, limit).more <=> saved >= page * k
  BY <1>1, <1>4, <1>7
<1>9. Page(page, limit).shown \cup Page(page, limit).cut =
        {m \in 1..saved : saved - m >= offset /\ saved - m < page * k}
  BY <1>3, <1>6
<1>q. QED BY <1>7, <1>8, <1>9 DEF offset

LEMMA HistoryInitInv == HistoryInit => HistoryInv
  BY HistoryAssumption DEF HistoryInit, HistoryInv, HistoryTypeOK, WalkInv, WalkEnded, NoReader

LEMMA ReaderFacts == ASSUME HistoryInv
  PROVE /\ saved \in Nat /\ MaxSaved \in Nat /\ saved <= MaxSaved
        /\ reader.page \in Nat /\ reader.limit \in Nat /\ reader.old \in Nat
        /\ reader.page * (reader.limit + 1) \in Nat
<1>1. /\ saved \in 0..MaxSaved /\ reader.limit \in Limits \cup {0} /\ reader.old \in 0..MaxSaved
      /\ reader.page \in Nat
  BY DEF HistoryInv, HistoryTypeOK
<1>2. /\ saved \in Nat /\ MaxSaved \in Nat /\ saved <= MaxSaved /\ reader.limit \in Nat
      /\ reader.old \in Nat
  <2>1. Limits \subseteq Nat /\ MaxSaved \in Nat BY HistoryAssumption
  <2>2. reader.limit \in Nat
    <3>1. reader.limit \in Limits \/ reader.limit = 0 BY <1>1
    <3>2. \A l \in Limits : l \in Nat BY <2>1
    <3>3. CASE reader.limit = 0 BY <3>3
    <3>4. CASE reader.limit \in Limits BY <3>2, <3>4
    <3>q. QED BY <3>1, <3>3, <3>4
  <2>3. saved \in Nat /\ saved <= MaxSaved /\ reader.old \in Nat BY <1>1, <2>1
  <2>q. QED BY <2>1, <2>2, <2>3
<1>3. reader.page * (reader.limit + 1) \in Nat BY <1>1, <1>2, NaturalProduct
<1>q. QED BY <1>1, <1>2, <1>3

LEMMA SaveMessageInv == ASSUME HistoryInv, Save PROVE HistoryInv'
<1> DEFINE read == reader.page * (reader.limit + 1)
<1>1. /\ saved < MaxSaved /\ saved' = saved + 1 /\ reader' = reader
  BY DEF Save
<1>2. read' = read /\ read \in Nat /\ saved \in Nat /\ MaxSaved \in Nat /\ reader.old \in Nat
  BY <1>1, ReaderFacts
<1>3. WalkInv BY DEF HistoryInv
<1> HIDE DEF read
<1>4. HistoryTypeOK' BY <1>1, <1>2 DEF HistoryInv, HistoryTypeOK
<1>5. reader.old < saved' BY <1>1, <1>2, <1>3 DEF WalkInv
<1>6. reader.more =>
        \A m \in (1..reader.old) \ (reader.shown \cup reader.cut) : saved' - m >= read
  BY <1>1, <1>2, <1>3 DEF WalkInv, read
<1>7. WalkInv' BY <1>1, <1>2, <1>3, <1>5, <1>6 DEF WalkInv, WalkEnded, read
<1>q. QED BY <1>4, <1>7 DEF HistoryInv

\* Reading a page, the first or the one after the last that was read.
LEMMA ReadInv ==
  ASSUME HistoryInv, NEW limit \in Limits, NEW page \in Nat \ {0},
         Read(limit, page), saved' = saved,
         page # 1 => reader.more /\ limit = reader.limit /\ page = reader.page + 1
  PROVE  HistoryInv'
<1> DEFINE p == Page(page, limit)
           offset == (page - 1) * (limit + 1)
           read == page * (limit + 1)
<1>1. /\ saved \in Nat /\ MaxSaved \in Nat /\ saved <= MaxSaved
      /\ reader.old \in Nat /\ limit \in Nat \ {0} /\ HistoryTypeOK /\ WalkInv
  BY ReaderFacts, HistoryAssumption DEF HistoryInv
<1>2. /\ p.shown \cup p.cut = {m \in 1..saved : saved - m >= offset /\ saved - m < read}
      /\ p.more <=> saved >= read
      /\ p.more \in BOOLEAN
  BY <1>1, PageFacts
<1>3. /\ offset \in Nat /\ read \in Nat /\ offset < read /\ (page = 1 => offset = 0)
  <2>1. page - 1 \in Nat /\ limit + 1 \in Nat /\ (page - 1) + 1 = page BY <1>1
  <2>2. offset \in Nat BY <2>1, NaturalProduct
  <2>3. read = offset + (limit + 1) BY <2>1, NextMultiple
  <2>4. 0 * (limit + 1) = 0 BY <1>1
  <2>q. QED BY <1>1, <2>2, <2>3, <2>4
<1>4. page # 1 => offset = reader.page * (reader.limit + 1)
  BY <1>1, ReaderFacts
<1>5. reader' = [limit |-> limit, old |-> IF page = 1 THEN saved ELSE reader.old, page |-> page,
                 shown |-> (IF page = 1 THEN {} ELSE reader.shown) \cup p.shown,
                 cut |-> (IF page = 1 THEN {} ELSE reader.cut) \cup p.cut,
                 again |-> IF page = 1 THEN {} ELSE reader.again \cup (reader.shown \cap p.shown),
                 more |-> p.more]
  BY DEF Read
<1> HIDE DEF p, offset, read
<1>6. /\ reader'.limit = limit /\ reader'.page = page /\ reader'.more = p.more
      /\ page = 1 => /\ reader'.old = saved /\ reader'.shown = p.shown
                     /\ reader'.cut = p.cut /\ reader'.again = {}
      /\ page # 1 => /\ reader'.old = reader.old /\ reader'.shown = reader.shown \cup p.shown
                     /\ reader'.cut = reader.cut \cup p.cut
                     /\ reader'.again = reader.again \cup (reader.shown \cap p.shown)
      /\ reader'.page * (reader'.limit + 1) = read
  BY <1>5 DEF read
<1>7. p.shown \subseteq 1..MaxSaved /\ p.cut \subseteq 1..MaxSaved
  BY <1>1, <1>2
<1>8. HistoryTypeOK'
  <2>1. CASE page = 1
    BY <1>1, <1>2, <1>5, <1>7, <2>1 DEF HistoryTypeOK
  <2>2. CASE page # 1
    BY <1>1, <1>2, <1>5, <1>7, <2>2 DEF HistoryTypeOK
  <2>q. QED BY <2>1, <2>2
<1>9. ASSUME NEW m \in 1..reader'.old, m \notin reader'.shown \cup reader'.cut
      PROVE  saved - m >= read
  <2>1. m \in Int /\ m \in 1..saved BY <1>1, <1>6, <1>9 DEF WalkInv
  <2>2. saved - m >= offset
    <3>1. CASE page = 1
      <4>1. offset = 0 BY <1>3, <3>1
      <4>2. m <= saved BY <1>1, <2>1
      <4>q. QED BY <1>1, <2>1, <4>1, <4>2
    <3>2. CASE page # 1 BY <1>1, <1>4, <1>6, <1>9, <3>2 DEF WalkInv
    <3>q. QED BY <3>1, <3>2
  <2>3. m \notin p.shown \cup p.cut BY <1>6, <1>9
  <2>4. ~(saved - m < read) BY <1>2, <2>1, <2>2, <2>3
  <2>q. QED BY <1>1, <1>3, <2>1, <2>4
<1>10. ~reader'.more => 1..reader'.old \subseteq reader'.shown \cup reader'.cut
  <2> SUFFICES ASSUME ~reader'.more, NEW m \in 1..reader'.old, m \notin reader'.shown \cup reader'.cut
               PROVE  FALSE
    OBVIOUS
  <2>1. saved < read BY <1>1, <1>2, <1>3, <1>6
  <2>2. m \in Nat /\ m > 0 BY <1>1, <1>6
  <2>3. saved - m >= read BY <1>9
  <2>4. saved \in Nat /\ read \in Nat BY <1>1, <1>3
  <2>q. QED BY <2>1, <2>2, <2>3, <2>4
<1>11. ASSUME saved = reader'.old
       PROVE  reader'.again = {} /\ \A m \in reader'.shown : saved - m < read
  <2>1. CASE page = 1 BY <1>2, <1>6, <2>1
  <2>2. CASE page # 1
    <3>1. /\ reader.again = {} /\ \A m \in reader.shown : m \in Int /\ saved - m < offset
      BY <1>1, <1>4, <1>6, <1>11, <2>2 DEF WalkInv, HistoryTypeOK
    <3>2. \A m \in p.shown : m \in Int /\ saved - m >= offset /\ saved - m < read
      BY <1>2
    <3>3. reader.shown \cap p.shown = {}
      <4>1. saved \in Nat /\ offset \in Nat BY <1>1, <1>3
      <4>q. QED BY <3>1, <3>2, <4>1
    <3>4. \A m \in reader.shown : saved - m < read
      <4>1. saved \in Nat /\ offset \in Nat /\ read \in Nat /\ offset < read BY <1>1, <1>3
      <4>q. QED BY <3>1, <4>1
    <3>q. QED BY <1>6, <2>2, <3>1, <3>2, <3>3, <3>4
  <2>q. QED BY <2>1, <2>2
<1>12. reader'.old <= saved BY <1>1, <1>6 DEF WalkInv
<1>13. WalkInv'
  BY <1>6, <1>9, <1>10, <1>11, <1>12 DEF WalkInv, WalkEnded
<1>q. QED BY <1>8, <1>13 DEF HistoryInv

LEMMA HistoryNextInv == HistoryInv /\ [HistoryNext]_historyVars => HistoryInv'
<1> SUFFICES ASSUME HistoryInv, [HistoryNext]_historyVars PROVE HistoryInv'
  OBVIOUS
<1>1. CASE Save BY <1>1, SaveMessageInv
<1>2. CASE FirstPage
  <2>1. PICK limit \in Limits : Read(limit, 1) BY <1>2 DEF FirstPage
  <2>2. saved' = saved BY <1>2 DEF FirstPage
  <2>q. QED BY <2>1, <2>2, ReadInv
<1>3. CASE NextPage
  <2>1. reader.more /\ Read(reader.limit, reader.page + 1) /\ saved' = saved BY <1>3 DEF NextPage
  <2>2. reader.page \in Nat /\ reader.page # 0 /\ reader.limit \in Limits
    BY <2>1, ReaderFacts DEF HistoryInv, WalkInv
  <2>3. reader.page + 1 \in Nat \ {0} BY <2>2
  <2>q. QED BY <2>1, <2>2, <2>3, ReadInv
<1>4. CASE UNCHANGED historyVars
  BY <1>4 DEF historyVars, HistoryInv, HistoryTypeOK, WalkInv, WalkEnded
<1>q. QED BY <1>1, <1>2, <1>3, <1>4 DEF HistoryNext

\* Walking through the history loses no message but the rows cut off, and shows
\* none twice unless newer ones came, for every limit and every length.
THEOREM HistoryAlwaysLosesOnlyCut == HistorySpec => []HistoryLosesOnlyCut
<1>1. HistoryInv => HistoryLosesOnlyCut
  BY DEF HistoryInv, WalkInv, HistoryLosesOnlyCut
<1>q. QED BY <1>1, HistoryInitInv, HistoryNextInv, PTL DEF HistorySpec

-----------------------------------------------------------------------------
(***************************************************************************)
(* Sessions of an account, for any number of devices on either platform,   *)
(* any interleaving of their requests and a database that may fail.        *)
(***************************************************************************)

Device == [stage : AccountStages, held : Nat, coming : Nat]

CountsInv ==
  /\ accounts \in {0, 1} /\ stored \in Nat /\ signedOut \subseteq Platforms
  /\ tokens \in [Platforms -> Nat]
  /\ \A p \in Platforms : tokens[p] <= stored /\ (tokens[p] # 0 => accounts = 1)
  /\ devices \in [Devices -> Device]

\* A token on its way is newer than the one it replaces, and than all that were
\* stored before it: the column holds it, a newer one, or nothing.
DeviceInv(d) ==
  /\ devices[d].held <= stored
  /\ devices[d].stage = "refresh" => devices[d].held # 0
  /\ devices[d].stage = "save" => accounts = 1
  /\ devices[d].stage # "answer" => devices[d].coming = 0
  /\ devices[d].stage = "answer" =>
       /\ devices[d].held < devices[d].coming /\ devices[d].coming <= stored
       /\ tokens[PlatformOf[d]] = 0 \/ devices[d].coming <= tokens[PlatformOf[d]]

\* SessionHeld, and nothing on its way when nothing was stored.
PlatformInv(p) ==
  /\ tokens[p] # 0 => \E d \in On(p) : tokens[p] \in {devices[d].held, devices[d].coming}
  /\ tokens[p] = 0 => p \in signedOut \/ \A d \in On(p) : devices[d].held = 0 /\ devices[d].coming = 0

AccountsInv ==
  /\ CountsInv
  /\ \A d \in Devices : DeviceInv(d)
  /\ "lost" \notin accountFaults => \A p \in Platforms : PlatformInv(p)

LEMMA AccountsInitInv == AccountsInit => AccountsInv
  BY AccountsAssumption
     DEF AccountsInit, AccountsInv, CountsInv, DeviceInv, PlatformInv, Device, AccountStages, On, Platforms

\* A request that goes from one stage to another with what it has.
LEMMA GotoInv ==
  ASSUME AccountsInv, NEW d \in Devices, NEW stage \in AccountStages \ {"answer"}, Goto(d, stage),
         devices[d].stage # "answer",
         stage = "refresh" => devices[d].held # 0,
         stage = "save" => accounts' = 1,
         accounts' \in {0, 1}, accounts = 1 => accounts' = 1,
         UNCHANGED <<tokens, stored, signedOut, accountFaults>>
  PROVE  AccountsInv'
<1>1. devices \in [Devices -> Device] /\ devices' = [devices EXCEPT ![d].stage = stage]
  BY DEF AccountsInv, CountsInv, Goto
<1>2. devices' \in [Devices -> Device] BY <1>1 DEF Device
<1>3. /\ devices'[d].stage = stage
      /\ \A e \in Devices : devices'[e].held = devices[e].held /\ devices'[e].coming = devices[e].coming
      /\ \A e \in Devices \ {d} : devices'[e] = devices[e]
  BY <1>1 DEF Device
<1>4. CountsInv' BY <1>2 DEF AccountsInv, CountsInv
<1>5. ASSUME NEW e \in Devices PROVE DeviceInv(e)'
  <2>1. DeviceInv(e) BY DEF AccountsInv
  <2>2. CASE e = d BY <1>3, <2>1, <2>2 DEF DeviceInv
  <2>3. CASE e # d BY <1>3, <2>1, <2>3 DEF DeviceInv
  <2>q. QED BY <2>2, <2>3
<1>6. ASSUME NEW p \in Platforms, PlatformInv(p) PROVE PlatformInv(p)'
  BY <1>3, <1>6 DEF PlatformInv, On
<1>q. QED BY <1>4, <1>5, <1>6 DEF AccountsInv

\* Where a lookup leads.
LEMMA WhenFacts == ASSUME NEW request \in {"register", "login", "oauth", "refresh"}
  PROVE /\ WhenKnown[request] \in {"idle", "save"}
        /\ WhenUnknown[request] \in {"idle", "create", "sign up"}
<1>1. CASE request = "register" BY <1>1 DEF WhenKnown, WhenUnknown
<1>2. CASE request = "login" BY <1>2 DEF WhenKnown, WhenUnknown
<1>3. CASE request = "oauth" BY <1>3 DEF WhenKnown, WhenUnknown
<1>4. CASE request = "refresh" BY <1>4 DEF WhenKnown, WhenUnknown
<1>q. QED BY <1>1, <1>2, <1>3, <1>4

\* Looking the account up: who goes on to save a token has an account.
LEMMA LookupInv == ASSUME AccountsInv, NEW d \in Devices, LookupAccount(d) PROVE AccountsInv'
<1> DEFINE request == devices[d].stage
<1>1. /\ request \in {"register", "login", "oauth", "refresh"}
      /\ UNCHANGED <<accounts, tokens, stored, signedOut, accountFaults>>
  BY DEF LookupAccount, WhenKnown
<1>2. DeviceInv(d) /\ accounts \in {0, 1} /\ PlatformOf[d] \in Platforms
  BY AccountsAssumption DEF AccountsInv, CountsInv
<1>3. request # "answer" BY <1>1
<1>4. ASSUME NEW stage \in {"idle", "create", "sign up"}, Goto(d, stage) PROVE AccountsInv'
  <2>1. stage \in AccountStages \ {"answer"} /\ stage # "refresh" /\ stage # "save"
    BY DEF AccountStages
  <2>q. QED BY <1>1, <1>2, <1>3, <1>4, <2>1, GotoInv
<1>5. ASSUME Known(d), Goto(d, "save") PROVE AccountsInv'
  <2>1. accounts = 1
    <3>1. CASE request # "refresh" BY <1>2, <1>5, <3>1 DEF Known
    <3>2. CASE request = "refresh"
      <4>1. tokens[PlatformOf[d]] # 0 BY <1>2, <1>5, <3>2 DEF Known, DeviceInv
      <4>q. QED BY <1>2, <4>1 DEF AccountsInv, CountsInv
    <3>q. QED BY <3>1, <3>2
  <2>2. "save" \in AccountStages \ {"answer"} BY DEF AccountStages
  <2>q. QED BY <1>1, <1>3, <1>5, <2>1, <2>2, GotoInv
<1>6. CASE Known(d) /\ Goto(d, WhenKnown[request])
  BY <1>1, <1>4, <1>5, <1>6, WhenFacts
<1>7. CASE Goto(d, WhenUnknown[request])
  BY <1>1, <1>4, <1>7, WhenFacts
<1>8. CASE Goto(d, "idle")
  BY <1>4, <1>8
<1>q. QED BY <1>6, <1>7, <1>8 DEF LookupAccount

LEMMA CreateInv == ASSUME AccountsInv, NEW d \in Devices, CreateUser(d) PROVE AccountsInv'
<1>1. /\ devices[d].stage \in {"create", "sign up"}
      /\ UNCHANGED <<tokens, stored, signedOut, accountFaults>>
      /\ accounts \in {0, 1}
  BY DEF CreateUser, AccountsInv, CountsInv
<1>2. ASSUME NEW stage \in {"idle", "save"}, Goto(d, stage), accounts' \in {0, 1},
             accounts = 1 => accounts' = 1, stage = "save" => accounts' = 1
      PROVE AccountsInv'
  <2>1. stage \in AccountStages \ {"answer"} /\ stage # "refresh" BY DEF AccountStages
  <2>q. QED BY <1>1, <1>2, <2>1, GotoInv
<1>q. QED BY <1>1, <1>2 DEF CreateUser

LEMMA AskInv ==
  ASSUME AccountsInv, NEW d \in Devices, NEW request \in Requests, Ask(d, request)
  PROVE  AccountsInv'
<1>1. /\ devices[d].stage = "idle" /\ Goto(d, request)
      /\ request \in {"refresh", "logout"} => devices[d].held # 0
      /\ UNCHANGED <<accounts, tokens, stored, signedOut, accountFaults>>
      /\ accounts \in {0, 1}
  BY DEF Ask, AccountsInv, CountsInv
<1>2. request \in AccountStages \ {"answer"} /\ request # "save"
  BY DEF Requests, AccountStages
<1>q. QED BY <1>1, <1>2, GotoInv

\* A new token takes the place of the one stored before: the device it is on its
\* way to is the one that has the session now.
LEMMA SaveInv == ASSUME AccountsInv, NEW d \in Devices, SaveToken(d) PROVE AccountsInv'
<1>0. /\ CountsInv /\ DeviceInv(d) /\ PlatformOf[d] \in Platforms
      /\ devices[d].stage = "save" /\ UNCHANGED <<accounts, signedOut, accountFaults>>
  BY AccountsAssumption DEF AccountsInv, SaveToken
<1>1. CASE "db" \in accountFaults /\ Goto(d, "idle") /\ UNCHANGED <<tokens, stored>>
  <2>1. "idle" \in AccountStages \ {"answer"} BY DEF AccountStages
  <2>q. QED BY <1>0, <1>1, <2>1, GotoInv DEF CountsInv
<1>2. CASE /\ stored' = stored + 1 /\ StoreToken(d, stored')
           /\ devices' = [devices EXCEPT ![d].stage = "answer", ![d].coming = stored']
  <2>1. PICK n \in Nat : n = stored + 1 BY <1>0 DEF CountsInv
  <2>2. /\ stored' = n /\ stored \in Nat /\ stored < n /\ n # 0
        /\ tokens' = [tokens EXCEPT ![PlatformOf[d]] = n]
        /\ devices' = [devices EXCEPT ![d].stage = "answer", ![d].coming = n]
    BY <1>0, <1>2, <2>1 DEF StoreToken, CountsInv
  <2>3. /\ devices'[d].stage = "answer" /\ devices'[d].coming = n
        /\ devices'[d].held = devices[d].held
        /\ \A e \in Devices \ {d} : devices'[e] = devices[e]
        /\ devices' \in [Devices -> Device]
    BY <1>0, <2>2 DEF CountsInv, Device, AccountStages
  <2>4. /\ tokens'[PlatformOf[d]] = n
        /\ \A p \in Platforms \ {PlatformOf[d]} : tokens'[p] = tokens[p]
        /\ tokens' \in [Platforms -> Nat]
    BY <1>0, <2>2 DEF CountsInv
  <2>5. accounts = 1 BY <1>0 DEF DeviceInv
  <2>6. CountsInv'
    <3>1. ASSUME NEW p \in Platforms PROVE tokens'[p] <= n
      BY <1>0, <2>2, <2>4 DEF CountsInv
    <3>q. QED BY <1>0, <2>2, <2>3, <2>4, <2>5, <3>1 DEF CountsInv
  <2>7. ASSUME NEW e \in Devices PROVE DeviceInv(e)'
    <3>1. DeviceInv(e) /\ PlatformOf[e] \in Platforms /\ devices[e] \in Device
      BY <1>0, AccountsAssumption DEF AccountsInv, CountsInv
    <3>2. CASE e = d
      BY <1>0, <2>2, <2>3, <2>4, <2>5, <3>1, <3>2 DEF DeviceInv, Device
    <3>3. CASE e # d
      <4>1. devices'[e] = devices[e] BY <2>3, <3>3
      <4>q. QED BY <1>0, <2>2, <2>4, <2>5, <3>1, <4>1 DEF DeviceInv, Device
    <3>q. QED BY <3>2, <3>3
  <2>8. ASSUME NEW p \in Platforms, PlatformInv(p) PROVE PlatformInv(p)'
    <3>1. CASE p = PlatformOf[d]
      <4>1. d \in On(p) /\ tokens'[p] = n /\ devices'[d].coming = n
        BY <2>3, <2>4, <3>1 DEF On
      <4>q. QED BY <2>2, <4>1 DEF PlatformInv, On
    <3>2. CASE p # PlatformOf[d]
      <4>1. d \notin On(p) /\ tokens'[p] = tokens[p] BY <2>4, <3>2 DEF On
      <4>2. \A e \in On(p) : devices'[e] = devices[e] BY <2>3, <4>1 DEF On
      <4>q. QED BY <1>0, <2>8, <4>1, <4>2 DEF PlatformInv, On
    <3>q. QED BY <3>1, <3>2
  <2>q. QED BY <1>0, <2>6, <2>7, <2>8 DEF AccountsInv
<1>q. QED BY <1>1, <1>2 DEF SaveToken

\* The answer arrives: the token it brings replaces one that the column no
\* longer holds.
LEMMA AnswerInv == ASSUME AccountsInv, NEW d \in Devices, AnswerToken(d) PROVE AccountsInv'
<1>0. /\ CountsInv /\ DeviceInv(d) /\ PlatformOf[d] \in Platforms
      /\ devices[d].stage = "answer" /\ devices[d] \in Device
      /\ UNCHANGED <<accounts, tokens, stored, signedOut, accountFaults>>
  BY AccountsAssumption DEF AccountsInv, AnswerToken, CountsInv
<1>1. PICK arrives \in {TRUE} \cup (IF "lost" \in accountFaults THEN {FALSE} ELSE {}) :
        devices' = [devices EXCEPT ![d] = [stage |-> "idle", coming |-> 0,
          held |-> IF arrives THEN devices[d].coming ELSE devices[d].held]]
  BY DEF AnswerToken
<1> DEFINE h == IF arrives THEN devices[d].coming ELSE devices[d].held
<1>2. h \in Nat /\ h <= stored BY <1>0 DEF DeviceInv, Device
<1>3. "lost" \notin accountFaults => h = devices[d].coming BY <1>1
<1> HIDE DEF h
<1>4. /\ devices'[d] = [stage |-> "idle", coming |-> 0, held |-> h]
      /\ \A e \in Devices \ {d} : devices'[e] = devices[e]
      /\ devices' \in [Devices -> Device]
  BY <1>0, <1>1, <1>2 DEF CountsInv, Device, AccountStages, h
<1>5. CountsInv' BY <1>0, <1>4 DEF CountsInv
<1>6. ASSUME NEW e \in Devices PROVE DeviceInv(e)'
  <2>1. CASE e = d BY <1>0, <1>2, <1>4, <2>1 DEF DeviceInv
  <2>2. CASE e # d
    <3>1. DeviceInv(e) /\ devices'[e] = devices[e] BY <1>4, <2>2 DEF AccountsInv
    <3>q. QED BY <1>0, <3>1 DEF DeviceInv
  <2>q. QED BY <2>1, <2>2
<1>7. ASSUME NEW p \in Platforms, PlatformInv(p), "lost" \notin accountFaults PROVE PlatformInv(p)'
  <2>1. tokens'[p] = tokens[p] /\ signedOut' = signedOut /\ tokens[p] \in Nat
    BY <1>0 DEF CountsInv
  <2>2. ASSUME tokens[p] # 0 PROVE \E e \in On(p) : tokens[p] \in {devices'[e].held, devices'[e].coming}
    <3>1. PICK e \in On(p) : tokens[p] \in {devices[e].held, devices[e].coming}
      BY <1>7, <2>2 DEF PlatformInv
    <3>2. CASE e # d BY <1>4, <3>1, <3>2 DEF On
    <3>3. CASE e = d
      <4>1. p = PlatformOf[d] BY <3>1, <3>3 DEF On
      <4>2. tokens[p] # devices[d].held
        BY <1>0, <2>1, <2>2, <4>1 DEF DeviceInv, Device
      <4>3. devices'[d].held = tokens[p] BY <1>3, <1>4, <1>7, <3>1, <3>3, <4>2
      <4>q. QED BY <3>1, <3>3, <4>3
    <3>q. QED BY <3>2, <3>3
  <2>3. ASSUME tokens[p] = 0, p \notin signedOut
        PROVE \A e \in On(p) : devices'[e].held = 0 /\ devices'[e].coming = 0
    <3>1. \A e \in On(p) : devices[e].held = 0 /\ devices[e].coming = 0
      BY <1>7, <2>3 DEF PlatformInv
    <3>q. QED BY <1>3, <1>4, <1>7, <3>1 DEF On
  <2>q. QED BY <2>1, <2>2, <2>3 DEF PlatformInv, On
<1>q. QED BY <1>0, <1>5, <1>6, <1>7 DEF AccountsInv

LEMMA LogoutInv == ASSUME AccountsInv, NEW d \in Devices, Logout(d) PROVE AccountsInv'
<1>0. /\ CountsInv /\ DeviceInv(d) /\ PlatformOf[d] \in Platforms
      /\ devices[d].stage = "logout" /\ UNCHANGED <<accounts, stored, accountFaults>>
  BY AccountsAssumption DEF AccountsInv, Logout
<1>1. CASE "db" \in accountFaults /\ Goto(d, "idle") /\ UNCHANGED <<tokens, signedOut>>
  <2>1. "idle" \in AccountStages \ {"answer"} BY DEF AccountStages
  <2>q. QED BY <1>0, <1>1, <2>1, GotoInv DEF CountsInv
<1>2. CASE /\ StoreToken(d, 0) /\ signedOut' = signedOut \cup {PlatformOf[d]}
           /\ devices' = [devices EXCEPT ![d].stage = "idle", ![d].held = 0]
  <2>1. /\ devices'[d].stage = "idle" /\ devices'[d].coming = 0 /\ devices'[d].held = 0
        /\ \A e \in Devices \ {d} : devices'[e] = devices[e]
        /\ devices' \in [Devices -> Device]
    BY <1>0, <1>2 DEF CountsInv, Device, AccountStages, DeviceInv
  <2>2. /\ tokens'[PlatformOf[d]] = 0 /\ tokens' \in [Platforms -> Nat]
        /\ \A p \in Platforms \ {PlatformOf[d]} : tokens'[p] = tokens[p]
    BY <1>0, <1>2 DEF CountsInv, StoreToken
  <2>3. CountsInv' BY <1>0, <1>2, <2>1, <2>2 DEF CountsInv
  <2>4. ASSUME NEW e \in Devices PROVE DeviceInv(e)'
    <3>1. DeviceInv(e) /\ PlatformOf[e] \in Platforms
      BY AccountsAssumption DEF AccountsInv
    <3>2. CASE e = d BY <1>0, <2>1, <3>2 DEF DeviceInv, CountsInv
    <3>3. CASE e # d
      <4>1. devices'[e] = devices[e] BY <2>1, <3>3
      <4>2. tokens'[PlatformOf[e]] \in {0, tokens[PlatformOf[e]]} BY <2>2, <3>1
      <4>q. QED BY <1>0, <3>1, <4>1, <4>2 DEF DeviceInv
    <3>q. QED BY <3>2, <3>3
  <2>5. ASSUME NEW p \in Platforms, PlatformInv(p) PROVE PlatformInv(p)'
    <3>1. CASE p = PlatformOf[d] BY <1>2, <2>2, <3>1 DEF PlatformInv
    <3>2. CASE p # PlatformOf[d]
      <4>1. d \notin On(p) /\ tokens'[p] = tokens[p] BY <2>2, <3>2 DEF On
      <4>2. \A e \in On(p) : devices'[e] = devices[e] BY <2>1, <4>1 DEF On
      <4>q. QED BY <1>2, <2>5, <4>1, <4>2 DEF PlatformInv, On
    <3>q. QED BY <3>1, <3>2
  <2>q. QED BY <1>0, <2>3, <2>4, <2>5 DEF AccountsInv
<1>q. QED BY <1>1, <1>2 DEF Logout

LEMMA AccountsNextInv == AccountsInv /\ [AccountsNext]_accountsVars => AccountsInv'
<1> SUFFICES ASSUME AccountsInv, [AccountsNext]_accountsVars PROVE AccountsInv'
  OBVIOUS
<1>1. CASE UNCHANGED accountsVars
  BY <1>1 DEF accountsVars, AccountsInv, CountsInv, DeviceInv, PlatformInv, On
<1>q. QED BY <1>1, AskInv, LookupInv, CreateInv, SaveInv, AnswerInv, LogoutInv DEF AccountsNext

\* Unless an answer was lost, a stored session is held by a device of its
\* platform or on its way to it, and a device loses its session only to another
\* one of its platform: for any devices, any number of requests and tokens.
THEOREM SessionAlwaysHeld == AccountsSpec => []SessionHeld
<1>1. AccountsInv => SessionHeld
  BY DEF AccountsInv, CountsInv, PlatformInv, SessionHeld
<1>q. QED BY <1>1, AccountsInitInv, AccountsNextInv, PTL DEF AccountsSpec

-----------------------------------------------------------------------------
(***************************************************************************)
(* Who is in a meeting, for any number of people and any number of moves.  *)
(***************************************************************************)

\* The events of a participant that were not handled yet.
PendingOf(p) == {e \in pending : e.who = p}

\* The number of an event is its own.
NumbersInv ==
  /\ \A e \in pending : e.n <= moves
  /\ \A e, f \in pending : e.n = f.n => e = f

\* Who has joined is in the table or has a joined event on the way.
JoinedInv(p) ==
  /\ p \in attended <=> \/ attendance[p].joinedAt
                        \/ \E e \in PendingOf(p) : e.kind = "joined"
  /\ p \in inRoom => p \in attended

\* The newest event of a participant tells where he is; once there is none the
\* table does.
NewestInv(p) ==
  /\ PendingOf(p) = {} => (Present(p) <=> p \in inRoom)
  /\ \A e \in PendingOf(p) :
       (\A f \in PendingOf(p) : f.n <= e.n) => (e.kind = "joined" <=> p \in inRoom)

AttendanceInv ==
  /\ AttendanceTypeOK /\ NumbersInv
  /\ roomFaults \subseteq {"reorder"} => \A p \in People : JoinedInv(p)
  /\ roomFaults = {} => \A p \in People : NewestInv(p)

LEMMA AttendanceInitInv == AttendanceInit => AttendanceInv
  BY PeopleAssumption
     DEF AttendanceInit, AttendanceInv, AttendanceTypeOK, NumbersInv, JoinedInv, NewestInv,
         PendingOf, Present, NoEntry

LEMMA MoveInv == ASSUME AttendanceInv, NEW p \in People, Move(p) PROVE AttendanceInv'
<1> DEFINE kind == IF p \in inRoom THEN "left" ELSE "joined"
           new == [n |-> moves + 1, who |-> p, kind |-> kind]
<1>1. /\ AttendanceTypeOK /\ NumbersInv /\ moves \in Nat
  BY PeopleAssumption DEF AttendanceInv, AttendanceTypeOK
<1>2. /\ moves < MaxMoves /\ moves' = moves + 1 /\ pending' = pending \cup {new}
      /\ inRoom' = IF p \in inRoom THEN inRoom \ {p} ELSE inRoom \cup {p}
      /\ attended' = attended \cup {p} /\ UNCHANGED <<attendance, roomFaults>>
  BY DEF Move
<1>3. /\ new.n = moves + 1 /\ new.who = p /\ new.kind \in {"joined", "left"}
      /\ new.kind = "joined" <=> p \notin inRoom
      /\ new \in [n : 1..MaxMoves, who : People, kind : {"joined", "left"}]
  BY <1>1, <1>2, PeopleAssumption
<1> HIDE DEF new
<1>4. AttendanceTypeOK'
  BY <1>1, <1>2, <1>3, PeopleAssumption DEF AttendanceTypeOK
<1>5. \A e \in pending : e.n \in Nat /\ e.n <= moves
  BY <1>1 DEF AttendanceTypeOK, NumbersInv
<1>6. NumbersInv'
  BY <1>1, <1>2, <1>3, <1>5 DEF NumbersInv
<1>7. /\ PendingOf(p)' = PendingOf(p) \cup {new}
      /\ \A q \in People \ {p} : PendingOf(q)' = PendingOf(q)
  BY <1>2, <1>3 DEF PendingOf
<1>8. ASSUME NEW q \in People, JoinedInv(q) PROVE JoinedInv(q)'
  <2>1. CASE q = p
    BY <1>2, <1>3, <1>7, <1>8, <2>1 DEF JoinedInv
  <2>2. CASE q # p
    BY <1>2, <1>7, <1>8, <2>2 DEF JoinedInv
  <2>q. QED BY <2>1, <2>2
<1>9. ASSUME NEW q \in People, NewestInv(q) PROVE NewestInv(q)'
  <2>1. CASE q = p
    <3>1. ASSUME NEW e \in PendingOf(p)', \A f \in PendingOf(p)' : f.n <= e.n
          PROVE  e.kind = "joined" <=> p \in inRoom'
      <4>1. new.n <= e.n BY <1>7, <3>1
      <4>2. e = new BY <1>1, <1>3, <1>5, <1>7, <4>1 DEF PendingOf
      <4>q. QED BY <1>2, <1>3, <4>2
    <3>2. PendingOf(p)' # {} BY <1>7
    <3>q. QED BY <2>1, <3>1, <3>2 DEF NewestInv
  <2>2. CASE q # p
    <3>1. (q \in inRoom' <=> q \in inRoom) /\ PendingOf(q)' = PendingOf(q) /\ (Present(q)' <=> Present(q))
      BY <1>2, <1>7, <2>2 DEF Present
    <3>q. QED BY <1>9, <3>1 DEF NewestInv
  <2>q. QED BY <2>1, <2>2
<1>q. QED BY <1>2, <1>4, <1>6, <1>8, <1>9 DEF AttendanceInv

LEMMA HandleInv == ASSUME AttendanceInv, NEW e \in pending, HandleParticipant(e) PROVE AttendanceInv'
<1> DEFINE p == e.who
           entry == IF e.kind = "joined" THEN Joined(attendance[p]) ELSE Left(attendance[p])
<1>1. /\ AttendanceTypeOK /\ NumbersInv /\ p \in People /\ e.kind \in {"joined", "left"}
      /\ e.n \in Nat
  BY DEF AttendanceInv, AttendanceTypeOK
<1>2. /\ pending' = pending \ {e} /\ UNCHANGED <<inRoom, moves, attended, roomFaults>>
      /\ Overtakes(e) => "reorder" \in roomFaults
      /\ "dispatch" \notin roomFaults => attendance' = [attendance EXCEPT ![p] = entry]
      /\ attendance' = attendance \/ attendance' = [attendance EXCEPT ![p] = entry]
  BY DEF HandleParticipant
<1>3. /\ entry \in [known : BOOLEAN, joinedAt : BOOLEAN, leftAt : BOOLEAN]
      /\ e.kind = "joined" => entry.joinedAt /\ ~entry.leftAt
      /\ e.kind = "left" => entry.leftAt /\ (entry.joinedAt <=> attendance[p].joinedAt)
  BY <1>1 DEF Joined, Left, AttendanceTypeOK
<1> HIDE DEF entry
<1>4. AttendanceTypeOK'
  BY <1>1, <1>2, <1>3 DEF AttendanceTypeOK
<1>5. NumbersInv' BY <1>1, <1>2 DEF NumbersInv
<1>6. /\ PendingOf(p)' = PendingOf(p) \ {e} /\ e \in PendingOf(p)
      /\ \A q \in People \ {p} : PendingOf(q)' = PendingOf(q)
  BY <1>2 DEF PendingOf
<1>7. ASSUME "dispatch" \notin roomFaults
      PROVE  /\ attendance'[p] = entry
             /\ \A q \in People \ {p} : attendance'[q] = attendance[q]
  BY <1>1, <1>2, <1>7 DEF AttendanceTypeOK
<1>8. ASSUME NEW q \in People, JoinedInv(q), "dispatch" \notin roomFaults PROVE JoinedInv(q)'
  <2>1. CASE q = p
    BY <1>1, <1>2, <1>3, <1>6, <1>7, <1>8, <2>1 DEF JoinedInv
  <2>2. CASE q # p
    BY <1>2, <1>6, <1>7, <1>8, <2>2 DEF JoinedInv
  <2>q. QED BY <2>1, <2>2
<1>9. ASSUME NEW q \in People, NewestInv(q), roomFaults = {} PROVE NewestInv(q)'
  <2>1. CASE q = p
    <3>1. \A f \in PendingOf(p) : f.n \in Nat /\ e.n <= f.n
      BY <1>1, <1>2, <1>9 DEF Overtakes, PendingOf, AttendanceTypeOK
    <3>2. CASE PendingOf(p)' = {}
      <4>1. PendingOf(p) = {e} BY <1>6, <3>2
      <4>2. e.kind = "joined" <=> p \in inRoom BY <1>9, <2>1, <3>1, <4>1 DEF NewestInv
      <4>q. QED BY <1>1, <1>2, <1>3, <1>7, <1>9, <2>1, <3>2, <4>2 DEF NewestInv, Present
    <3>3. CASE PendingOf(p)' # {}
      <4>1. ASSUME NEW g \in PendingOf(p)', \A f \in PendingOf(p)' : f.n <= g.n
            PROVE  g.kind = "joined" <=> p \in inRoom'
        <5>1. g \in PendingOf(p) /\ \A f \in PendingOf(p) : f.n <= g.n
          BY <1>6, <3>1, <4>1
        <5>q. QED BY <1>2, <1>9, <2>1, <5>1 DEF NewestInv
      <4>q. QED BY <2>1, <3>3, <4>1 DEF NewestInv
    <3>q. QED BY <3>2, <3>3
  <2>2. CASE q # p
    <3>1. attendance'[q] = attendance[q] BY <1>7, <1>9, <2>2
    <3>q. QED BY <1>2, <1>6, <1>9, <2>2, <3>1 DEF NewestInv, Present
  <2>q. QED BY <2>1, <2>2
<1>q. QED BY <1>2, <1>4, <1>5, <1>8, <1>9 DEF AttendanceInv

LEMMA AttendanceNextInv == AttendanceInv /\ [AttendanceNext]_attendanceVars => AttendanceInv'
<1> SUFFICES ASSUME AttendanceInv, [AttendanceNext]_attendanceVars PROVE AttendanceInv'
  OBVIOUS
<1>1. ASSUME NEW p \in People, Move(p) PROVE AttendanceInv'
  BY <1>1, MoveInv
<1>2. ASSUME NEW e \in pending, HandleParticipant(e) PROVE AttendanceInv'
  BY <1>2, HandleInv
<1>3. ASSUME NEW e \in pending, LoseParticipant(e) PROVE AttendanceInv'
  <2>1. "lost" \in roomFaults /\ pending' = pending \ {e}
        /\ UNCHANGED <<inRoom, moves, attended, attendance, roomFaults>>
    BY <1>3 DEF LoseParticipant
  <2>2. AttendanceTypeOK' /\ NumbersInv'
    BY <2>1 DEF AttendanceInv, AttendanceTypeOK, NumbersInv
  <2>q. QED BY <2>1, <2>2 DEF AttendanceInv
<1>4. CASE UNCHANGED attendanceVars
  BY <1>4 DEF attendanceVars, AttendanceInv, AttendanceTypeOK, NumbersInv, JoinedInv, NewestInv,
              PendingOf, Present
<1>q. QED BY <1>1, <1>2, <1>3, <1>4 DEF AttendanceNext

\* Once every event was handled the table says who has been there and, when none
\* overtook another, who is.
THEOREM AttendanceAlwaysTrue == AttendanceSpec => []AttendanceTrue
<1>1. AttendanceInv => AttendanceTrue
  <2> SUFFICES ASSUME AttendanceInv, pending = {}, roomFaults \subseteq {"reorder"}
               PROVE  /\ \A p \in People : attendance[p].joinedAt <=> p \in attended
                      /\ roomFaults = {} => {p \in People : Present(p)} = inRoom
    BY DEF AttendanceTrue
  <2>1. \A p \in People : PendingOf(p) = {} /\ JoinedInv(p) BY DEF AttendanceInv, PendingOf
  <2>2. \A p \in People : attendance[p].joinedAt <=> p \in attended BY <2>1 DEF JoinedInv
  <2>3. ASSUME roomFaults = {} PROVE {p \in People : Present(p)} = inRoom
    <3>1. \A p \in People : Present(p) <=> p \in inRoom
      BY <2>1, <2>3 DEF AttendanceInv, NewestInv
    <3>q. QED BY <3>1 DEF AttendanceInv, AttendanceTypeOK
  <2>q. QED BY <2>2, <2>3
<1>q. QED BY <1>1, AttendanceInitInv, AttendanceNextInv, PTL DEF AttendanceSpec

-----------------------------------------------------------------------------
(***************************************************************************)
(* The sliding window and the map-reduce over its chunks, for transcripts  *)
(* of every length and every pair of chunk size and overlap, also an       *)
(* overlap that is not smaller than the chunk.                             *)
(***************************************************************************)

\* While the loop runs, the last chunk is a whole one that ends before the end
\* of the transcript, and the next one starts one step after it.
LoopInv == phase = "split" =>
  /\ start < doc.len
  /\ chunks = <<>> => start = 0
  /\ chunks # <<>> =>
       /\ chunks[Len(chunks)].to < doc.len
       /\ chunks[Len(chunks)].to = chunks[Len(chunks)].from + doc.window.max
       /\ start = chunks[Len(chunks)].from + Step(doc.window)

\* What each phase knows of the chunks and of the partial summaries.
PhaseInv ==
  /\ phase \in {"called", "whole"} => start = 0 /\ chunks = <<>>
  /\ phase \in {"called", "whole", "split"} => partials = <<>>
  /\ phase = "whole" => doc.len <= doc.window.max
  /\ phase = "split" => doc.len > doc.window.max
  /\ phase = "map" => Len(partials) < Len(chunks)
  /\ phase \in {"reduce", "done"} => Len(partials) = Len(chunks)
  /\ phase \in {"reduce", "done"} /\ chunks = <<>> => doc.len <= doc.window.max
  /\ \A i \in 1..Len(partials) : partials[i] = i

MapReduceInv == MapReduceTypeOK /\ LoopInv /\ PhaseInv /\ ChunksCover

\* A step of the window is positive, at most a chunk, and leaves the overlap.
LEMMA StepFacts == ASSUME MapReduceTypeOK
  PROVE /\ doc.len \in Nat /\ doc.window.max \in Nat /\ doc.window.overlap \in Nat
        /\ Step(doc.window) \in Nat /\ 0 < Step(doc.window)
        /\ Step(doc.window) <= doc.window.max
        /\ Overlap = doc.window.max - Step(doc.window)
<1>1. doc.len \in Nat /\ doc.window.max \in Nat \ {0} /\ doc.window.overlap \in Nat
  BY MapReduceAssumption DEF MapReduceTypeOK
<1>q. QED BY <1>1 DEF Step, Overlap

LEMMA MapReduceInitInv == MapReduceInit => MapReduceInv
<1> SUFFICES ASSUME MapReduceInit PROVE MapReduceInv
  OBVIOUS
<1>1. MapReduceTypeOK BY DEF MapReduceInit, MapReduceTypeOK, Phases
<1>2. LoopInv /\ PhaseInv /\ ChunksCover
  BY DEF MapReduceInit, LoopInv, PhaseInv, ChunksCover
<1>q. QED BY <1>1, <1>2 DEF MapReduceInv

\* The last element of a sequence that has one.
LEMMA LastFacts == ASSUME NEW S, NEW s \in Seq(S), s # <<>>
                   PROVE  Len(s) > 0 /\ s[Len(s)] \in S
  OBVIOUS

\* One turn of the loop: the new chunk continues the last one.
LEMMA SplitInv == ASSUME MapReduceInv, Split PROVE MapReduceInv'
<1> DEFINE end == start + doc.window.max
           to == IF end > doc.len THEN doc.len ELSE end
           new == [from |-> start, to |-> to]
           n == Len(chunks)
<1>1. /\ phase = "split" /\ chunks' = Append(chunks, new)
      /\ phase' = (IF LastChunk(to) THEN "map" ELSE "split")
      /\ start' = start + Step(doc.window) /\ doc' = doc /\ partials' = partials
  BY DEF Split
<1>2. /\ doc.len \in Nat /\ doc.window.max \in Nat /\ Step(doc.window) \in Nat
      /\ 0 < Step(doc.window) /\ Step(doc.window) <= doc.window.max
      /\ Overlap = doc.window.max - Step(doc.window)
      /\ start \in Nat /\ start < doc.len
  BY <1>1, StepFacts DEF MapReduceInv, MapReduceTypeOK, LoopInv
<1>s. chunks \in Seq([from : Nat, to : Nat]) /\ n \in Nat
  BY DEF MapReduceInv, MapReduceTypeOK
<1>n. /\ n \in Nat /\ n = Len(chunks)
      /\ chunks # <<>> => /\ n > 0
                          /\ chunks[n].from \in Nat /\ chunks[n].to \in Nat
  <2>1. chunks # <<>> => n > 0 /\ chunks[n] \in [from : Nat, to : Nat]
    BY <1>s, LastFacts
  <2>q. QED BY <1>s, <2>1
<1>3. to \in Nat /\ start < to /\ to <= doc.len /\ to - start <= doc.window.max
  BY <1>2
<1> HIDE DEF to
<1>4. new \in [from : Nat, to : Nat] /\ new.from = start /\ new.to = to
  BY <1>2, <1>3
<1> HIDE DEF new
<1>5. /\ Len(chunks') = n + 1 /\ chunks'[n + 1] = new
      /\ \A i \in 1..n : chunks'[i] = chunks[i]
      /\ chunks' \in Seq([from : Nat, to : Nat]) /\ chunks' # <<>>
  BY <1>1, <1>s, <1>4
<1> HIDE DEF n
<1>6. MapReduceTypeOK'
  BY <1>1, <1>2, <1>5 DEF MapReduceInv, MapReduceTypeOK, Phases
<1>7. phase' = "map" => to = doc.len
  BY <1>1, <1>2 DEF LastChunk, to
<1>8. phase' = "split" => to < doc.len /\ to = start + doc.window.max /\ start' < doc.len
  BY <1>1, <1>2, <1>3 DEF LastChunk, to
<1>9. LoopInv'
  BY <1>1, <1>4, <1>5, <1>8 DEF LoopInv
<1>10. PhaseInv'
  BY <1>1, <1>2, <1>5 DEF MapReduceInv, PhaseInv
<1>11. ASSUME chunks # <<>>
       PROVE /\ chunks[n].to - start = Overlap
             /\ chunks[n].from < start /\ chunks[n].to < to
  <2>1. chunks[n].from \in Nat /\ chunks[n].to \in Nat
    BY <1>n, <1>11
  <2>2. /\ chunks[n].to < doc.len /\ chunks[n].to = chunks[n].from + doc.window.max
        /\ start = chunks[n].from + Step(doc.window)
    BY <1>1, <1>n, <1>11 DEF MapReduceInv, LoopInv
  <2>3. chunks[n].to < to BY <1>2, <2>1, <2>2 DEF to
  <2>q. QED BY <1>2, <2>1, <2>2, <2>3
<1>12. chunks = <<>> => start = 0 /\ n = 0
  BY <1>1, <1>n DEF MapReduceInv, LoopInv
<1>13. Overlap' = Overlap
  BY <1>1 DEF Overlap
<1>14. ChunksCover'
  <2>1. ASSUME NEW i \in 1..(n + 1)
        PROVE chunks'[i].from < chunks'[i].to /\ chunks'[i].to - chunks'[i].from <= doc.window.max
    <3>1. CASE i = n + 1 BY <3>1, <1>3, <1>4, <1>5
    <3>2. CASE i \in 1..n BY <3>2, <1>n, <1>5 DEF MapReduceInv, ChunksCover
    <3>q. QED BY <3>1, <3>2, <1>n
  <2>2. ASSUME NEW i \in 1..n
        PROVE /\ chunks'[i].to - chunks'[i + 1].from = Overlap
              /\ chunks'[i].from < chunks'[i + 1].from /\ chunks'[i].to < chunks'[i + 1].to
    <3>1. CASE i = n BY <3>1, <1>n, <1>4, <1>5, <1>11
    <3>2. CASE i \in 1..(n - 1)
      <4>1. i + 1 \in 1..n BY <3>2, <1>n
      <4>q. QED BY <3>2, <4>1, <1>n, <1>5 DEF MapReduceInv, ChunksCover
    <3>q. QED BY <3>1, <3>2, <1>n
  <2>3. chunks'[1].from = 0
    <3>1. CASE n = 0 BY <3>1, <1>n, <1>4, <1>5, <1>12
    <3>2. CASE n > 0 BY <3>2, <1>n, <1>5 DEF MapReduceInv, ChunksCover
    <3>q. QED BY <3>1, <3>2, <1>n
  <2>4. phase' # "split" => chunks'[Len(chunks')].to = doc.len
    BY <1>1, <1>4, <1>5, <1>7
  <2>5. Len(chunks') - 1 = n BY <1>n, <1>5
  <2>q. QED BY <1>1, <1>5, <1>13, <2>1, <2>2, <2>3, <2>4, <2>5 DEF ChunksCover
<1>q. QED BY <1>6, <1>9, <1>10, <1>14 DEF MapReduceInv

\* A chunk that was read adds its number to the partial summaries.
LEMMA MapChunkInv == ASSUME MapReduceInv, MapChunk PROVE MapReduceInv'
<1>1. /\ phase = "map" /\ UNCHANGED <<doc, start, chunks>>
      /\ phase' \in {"reduce", "map", "failed"}
  BY DEF MapChunk
<1>2. LoopInv' /\ ChunksCover'
  BY <1>1 DEF MapReduceInv, LoopInv, ChunksCover, Overlap
<1>3. partials \in Seq(Nat) /\ Len(partials) \in Nat /\ chunks \in Seq([from : Nat, to : Nat])
  BY DEF MapReduceInv, MapReduceTypeOK
<1>4. CASE /\ partials' = Append(partials, Len(partials) + 1)
           /\ phase' = IF Len(partials) + 1 = Len(chunks) THEN "reduce" ELSE "map"
  <2>1. /\ Len(partials') = Len(partials) + 1 /\ partials' \in Seq(Nat)
        /\ \A i \in 1..Len(partials') : partials'[i] = i
    BY <1>3, <1>4 DEF MapReduceInv, PhaseInv
  <2>2. MapReduceTypeOK' BY <1>1, <2>1 DEF MapReduceInv, MapReduceTypeOK, Phases
  <2>3. Len(partials) < Len(chunks) /\ Len(chunks) \in Nat /\ chunks # <<>>
    BY <1>1, <1>3 DEF MapReduceInv, PhaseInv
  <2>4. PhaseInv' BY <1>1, <1>3, <1>4, <2>1, <2>3 DEF PhaseInv
  <2>q. QED BY <1>2, <2>2, <2>4 DEF MapReduceInv
<1>5. CASE phase' = "failed" /\ UNCHANGED partials
  BY <1>1, <1>2, <1>5 DEF MapReduceInv, MapReduceTypeOK, Phases, PhaseInv
<1>q. QED BY <1>4, <1>5 DEF MapChunk

LEMMA MapReduceNextInv == MapReduceInv /\ [MapReduceNext]_mapReduceVars => MapReduceInv'
<1> SUFFICES ASSUME MapReduceInv, [MapReduceNext]_mapReduceVars PROVE MapReduceInv'
  OBVIOUS
<1>1. CASE Summarize
  <2>1. /\ doc.len \in Nat /\ doc.window.max \in Nat
    BY StepFacts DEF MapReduceInv
  <2>q. QED BY <1>1, <2>1, MapReduceAssumption
          DEF MapReduceInv, Summarize, MapReduceTypeOK, Phases, LoopInv, PhaseInv, ChunksCover, Overlap
<1>2. CASE Split BY <1>2, SplitInv
<1>3. CASE MapChunk BY <1>3, MapChunkInv
<1>4. CASE Chat
  BY <1>4 DEF MapReduceInv, Chat, MapReduceTypeOK, Phases, LoopInv, PhaseInv, ChunksCover, Overlap
<1>5. CASE SummarizeAgain
  BY <1>5 DEF MapReduceInv, SummarizeAgain, MapReduceTypeOK, Phases, LoopInv, PhaseInv, ChunksCover, Overlap
<1>6. CASE UNCHANGED mapReduceVars
  BY <1>6 DEF MapReduceInv, mapReduceVars, MapReduceTypeOK, LoopInv, PhaseInv, ChunksCover, Overlap
<1>q. QED BY <1>1, <1>2, <1>3, <1>4, <1>5, <1>6 DEF MapReduceNext

\* The loop and the phases, with the cover of what was split so far.
LEMMA MapReduceInvariant == MapReduceSpec => []MapReduceInv
<1>q. QED BY MapReduceInitInv, MapReduceNextInv, PTL DEF MapReduceSpec

\* The chunks of splitIntoChunks cover the transcript and overlap as asked,
\* none repeats the one before, for every length, chunk size and overlap.
THEOREM ChunksAlwaysCover == MapReduceSpec => []ChunksCover
<1>1. MapReduceInv => ChunksCover BY DEF MapReduceInv
<1>q. QED BY <1>1, MapReduceInvariant, PTL

\* mapReduce answers with a summary only when it has read every chunk.
THEOREM SummaryAlwaysRestsOnAll == MapReduceSpec => []SummaryRestsOnAll
<1>1. MapReduceInv => SummaryRestsOnAll
  <2> SUFFICES ASSUME MapReduceInv, phase \in {"reduce", "done"}
               PROVE partials = [i \in 1..Len(chunks) |-> i] /\ (chunks = <<>> => doc.len <= doc.window.max)
    BY DEF SummaryRestsOnAll
  <2>1. partials \in Seq(Nat) BY DEF MapReduceInv, MapReduceTypeOK
  <2>2. Len(partials) = Len(chunks) /\ \A i \in 1..Len(partials) : partials[i] = i
    BY DEF MapReduceInv, PhaseInv
  <2>3. chunks = <<>> => doc.len <= doc.window.max
    BY DEF MapReduceInv, PhaseInv
  <2>q. QED BY <2>1, <2>2, <2>3
<1>q. QED BY <1>1, MapReduceInvariant, PTL

-----------------------------------------------------------------------------
(***************************************************************************)
(* The lifetime of presigned URLs, for every recording duration; and why   *)
(* it may be computed in seconds although the code counts nanoseconds in a *)
(* signed 64-bit integer.                                                  *)
(***************************************************************************)

\* Each URL has the lifetime computed from its recording's duration.
PresignInv == \A u \in urls : u.duration \in Int /\ u.ttl = PresignTTL(u.duration)

\* What presignTTL returns, whatever it is given.
LEMMA TTLFacts == ASSUME NEW d \in Int
  PROVE /\ PresignTTL(d) \in Int
        /\ MinTTL <= PresignTTL(d) /\ PresignTTL(d) <= MaxTTL
        /\ d <= MaxTTL => d <= PresignTTL(d)
  BY DEF PresignTTL, MinTTL, MaxTTL, UnknownTTL

\* It grows with the duration of a recording whose duration is known.
LEMMA TTLMonotone == ASSUME NEW d \in Int, NEW e \in Int, 0 < d, d <= e
  PROVE PresignTTL(d) <= PresignTTL(e)
<1>1. e > 0 BY SMT
<1>q. QED BY <1>1 DEF PresignTTL, MinTTL, MaxTTL, UnknownTTL

\* recordings.duration_sec is a 32-bit INTEGER: neither the duration in
\* nanoseconds (time.Duration) nor its double leaves 64 bits, so the doubling in
\* presignTTL never wraps round to a short or negative lifetime.
THEOREM NanosecondsFit ==
  \A d \in Int : -2147483648 <= d /\ d <= 2147483647 =>
    /\ -9223372036854775808 <= d * 1000000000 * 2
    /\ d * 1000000000 * 2 <= 9223372036854775807
  BY SMT

LEMMA PresignStep == PresignInv /\ [PresignNext]_presignVars => PresignInv'
<1> SUFFICES ASSUME PresignInv, [PresignNext]_presignVars PROVE PresignInv'
  OBVIOUS
<1>1. ASSUME NEW d \in Durations, PresignGet(d) PROVE PresignInv'
  <2>1. d \in Int BY PresignAssumption
  <2>2. urls' = urls \cup {[duration |-> d, ttl |-> PresignTTL(d)]}
    BY <1>1 DEF PresignGet
  <2>q. QED BY <2>1, <2>2 DEF PresignInv
<1>2. CASE UNCHANGED presignVars BY <1>2 DEF PresignInv, presignVars
<1>q. QED BY <1>1, <1>2 DEF PresignNext

\* Every URL PresignGet hands out lives long enough and not too long.
THEOREM URLsAlwaysOutlive == PresignSpec => []URLOutlivesDownload
<1>1. PresignInit => PresignInv BY DEF PresignInit, PresignInv
<1>2. PresignInv => URLOutlivesDownload
  <2> SUFFICES ASSUME PresignInv PROVE URLOutlivesDownload
    OBVIOUS
  <2>1. ASSUME NEW u \in urls
        PROVE /\ MinTTL <= u.ttl /\ u.ttl <= MaxTTL
              /\ u.duration <= MaxTTL => u.duration <= u.ttl
    <3>1. u.duration \in Int /\ u.ttl = PresignTTL(u.duration) BY DEF PresignInv
    <3>q. QED BY <3>1, TTLFacts
  <2>2. ASSUME NEW u \in urls, NEW v \in urls, 0 < u.duration /\ u.duration <= v.duration
        PROVE u.ttl <= v.ttl
    <3>1. /\ u.duration \in Int /\ u.ttl = PresignTTL(u.duration)
          /\ v.duration \in Int /\ v.ttl = PresignTTL(v.duration)
      BY DEF PresignInv
    <3>q. QED BY <3>1, <2>2, TTLMonotone
  <2>q. QED BY <2>1, <2>2 DEF URLOutlivesDownload
<1>q. QED BY <1>1, <1>2, PresignStep, PTL DEF PresignSpec

-----------------------------------------------------------------------------
(***************************************************************************)
(* The services side by side.                                              *)
(***************************************************************************)
\* Every URL is one of a recording whose duration is known.
LEMMA PresignTypes == PresignSpec => []PresignTypeOK
<1>1. PresignInit => PresignTypeOK BY DEF PresignInit, PresignTypeOK
<1>2. PresignTypeOK /\ [PresignNext]_presignVars => PresignTypeOK'
  <2> SUFFICES ASSUME PresignTypeOK, [PresignNext]_presignVars PROVE PresignTypeOK'
    OBVIOUS
  <2>1. ASSUME NEW d \in Durations, PresignGet(d) PROVE PresignTypeOK'
    <3>1. PresignTTL(d) \in Int BY PresignAssumption, TTLFacts
    <3>q. QED BY <2>1, <3>1 DEF PresignGet, PresignTypeOK
  <2>2. CASE UNCHANGED presignVars BY <2>2 DEF PresignTypeOK, presignVars
  <2>q. QED BY <2>1, <2>2 DEF PresignNext
<1>q. QED BY <1>1, <1>2, PTL DEF PresignSpec

\* The bound of the tokens stored bounds those a device holds.
StoredInv == stored \in 0..MaxTokens /\ accountFaults \in AccountFaults

LEMMA AccountsTypes == AccountsSpec => []AccountsTypeOK
<1>1. AccountsInit => StoredInv BY AccountsAssumption DEF AccountsInit, StoredInv
<1>2. StoredInv /\ [AccountsNext]_accountsVars => StoredInv'
  <2> SUFFICES ASSUME StoredInv, [AccountsNext]_accountsVars PROVE StoredInv'
    OBVIOUS
  <2>1. ASSUME NEW d \in Devices, SaveToken(d) PROVE StoredInv'
    BY <2>1, AccountsAssumption DEF SaveToken, StoredInv
  <2>2. CASE UNCHANGED <<stored, accountFaults>> BY <2>2 DEF StoredInv
  <2>q. QED BY <2>1, <2>2
          DEF AccountsNext, Ask, LookupAccount, CreateUser, AnswerToken, Logout, accountsVars
<1>3. AccountsInv /\ StoredInv => AccountsTypeOK
  <2> SUFFICES ASSUME AccountsInv, StoredInv PROVE AccountsTypeOK
    OBVIOUS
  <2>1. stored \in Nat /\ stored <= MaxTokens /\ MaxTokens \in Nat
    BY AccountsAssumption DEF StoredInv
  <2>2. tokens \in [Platforms -> 0..MaxTokens]
    BY <2>1 DEF AccountsInv, CountsInv
  <2>3. ASSUME NEW d \in Devices
        PROVE  devices[d] \in [stage : AccountStages, held : 0..MaxTokens, coming : 0..MaxTokens]
    <3>1. DeviceInv(d) /\ devices[d] \in Device BY DEF AccountsInv, CountsInv
    <3>2. devices[d].held <= stored /\ devices[d].coming <= stored
      BY <2>1, <3>1 DEF DeviceInv, Device
    <3>q. QED BY <2>1, <3>1, <3>2 DEF Device
  <2>q. QED BY <2>2, <2>3 DEF AccountsInv, CountsInv, StoredInv, AccountsTypeOK
<1>q. QED BY <1>1, <1>2, <1>3, AccountsInitInv, AccountsNextInv, PTL DEF AccountsSpec

\* A service beside the others does what it does alone.
THEOREM PartsAreServices ==
  Spec => /\ JoinSpec /\ HistorySpec /\ AccountsSpec
          /\ AttendanceSpec /\ MapReduceSpec /\ PresignSpec
<1>1. Init => /\ JoinInit /\ HistoryInit /\ AccountsInit /\ AttendanceInit /\ PresignInit
              /\ part \in Parts
  BY DEF Init
<1>2. Init => MapReduceInit
  <2>1. [len : Lengths, window : Windows] # {}
    <3>1. PICK l \in Lengths, w \in Windows : TRUE BY ServicesAssumption
    <3>2. [len |-> l, window |-> w] \in [len : Lengths, window : Windows] BY <3>1
    <3>q. QED BY <3>2
  <2>2. (CHOOSE d \in [len : Lengths, window : Windows] : TRUE) \in [len : Lengths, window : Windows]
    BY <2>1
  <2>q. QED BY <2>2 DEF Init, MapReduceInit
<1>3. [Next]_vars => /\ [JoinNext]_joinVars /\ [HistoryNext]_historyVars
                     /\ [AccountsNext]_accountsVars /\ [AttendanceNext]_attendanceVars
                     /\ [MapReduceNext]_mapReduceVars /\ [PresignNext]_presignVars
  BY DEF Next, Others, vars
<1>q. QED BY <1>1, <1>2, <1>3, PTL
        DEF Spec, JoinSpec, HistorySpec, AccountsSpec, AttendanceSpec, MapReduceSpec, PresignSpec

\* The values of all the services keep their types.
THEOREM ServicesTypes == Spec => []ServicesTypeOK
<1>1. Init => part \in Parts BY DEF Init
<1>2. part \in Parts /\ [Next]_vars => (part \in Parts)'
  BY DEF Next, Others, vars
<1>3. /\ JoinInv => JoinTypeOK
      /\ HistoryInv => HistoryTypeOK
      /\ AttendanceInv => AttendanceTypeOK
      /\ MapReduceInv => MapReduceTypeOK
  BY DEF JoinInv, HistoryInv, AttendanceInv, MapReduceInv
<1>4. Spec => [](part \in Parts) BY <1>1, <1>2, PTL DEF Spec
<1>5. JoinSpec => []JoinTypeOK BY <1>3, JoinInitInv, JoinNextInv, PTL DEF JoinSpec
<1>6. HistorySpec => []HistoryTypeOK BY <1>3, HistoryInitInv, HistoryNextInv, PTL DEF HistorySpec
<1>7. AttendanceSpec => []AttendanceTypeOK
  BY <1>3, AttendanceInitInv, AttendanceNextInv, PTL DEF AttendanceSpec
<1>8. MapReduceSpec => []MapReduceTypeOK BY <1>3, MapReduceInvariant, PTL
<1>9. ServicesTypeOK <=> /\ part \in Parts
                         /\ JoinTypeOK /\ HistoryTypeOK /\ AccountsTypeOK
                         /\ AttendanceTypeOK /\ MapReduceTypeOK /\ PresignTypeOK
  BY DEF ServicesTypeOK
<1>q. QED BY <1>4, <1>5, <1>6, <1>7, <1>8, <1>9, AccountsTypes, PresignTypes, PartsAreServices, PTL

\* What was proved of each service alone holds of the services side by side.
THEOREM ServicesCorrect ==
  Spec => [](/\ OneConversation /\ HistoryLosesOnlyCut /\ SessionHeld /\ AttendanceTrue
             /\ ChunksCover /\ SummaryRestsOnAll /\ URLOutlivesDownload)
BY PartsAreServices, AlwaysOneConversation, HistoryAlwaysLosesOnlyCut, SessionAlwaysHeld,
   AttendanceAlwaysTrue, ChunksAlwaysCover, SummaryAlwaysRestsOnAll, URLsAlwaysOutlive, PTL
=============================================================================
