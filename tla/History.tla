------------------------------- MODULE History -------------------------------
(***************************************************************************)
(* The paginated message history of a conversation: a client walks through *)
(* HandleGetPrivateMessages page by page, newest first, while messages are *)
(* still being saved.  A message is its number in the order of created_at. *)
(***************************************************************************)
EXTENDS Integers, FiniteSets

CONSTANTS
  MaxSaved,    \* bound: messages in the conversation
  Limits       \* values of the limit parameter, 1 to 100 in the code

ASSUME HistoryAssumption == MaxSaved \in Nat /\ Limits \subseteq Nat \ {0}

VARIABLES
  saved,   \* messages saved so far: 1..saved
  reader   \* the client: pages read, what they showed, what was cut off

historyVars == <<saved, reader>>

NoReader == [limit |-> 0, old |-> 0, page |-> 0, shown |-> {}, cut |-> {}, again |-> {}, more |-> FALSE]
HistoryTypeOK ==
  /\ saved \in 0..MaxSaved
  /\ reader \in [limit : Limits \cup {0}, old : 0..MaxSaved, page : Nat, shown : SUBSET (1..MaxSaved),
                 cut : SUBSET (1..MaxSaved), again : SUBSET (1..MaxSaved), more : BOOLEAN]

HistoryInit == saved = 0 /\ reader = NoReader

Save ==
  /\ saved < MaxSaved
  /\ saved' = saved + 1
  /\ UNCHANGED reader

\* A query that takes the first page for the second one.
MessagesFromPageZero(page, limit) ==
  {m \in 1..saved : saved - m >= page * limit /\ saved - m < (page + 1) * limit}

\* GetMessagesByPrivateID: ORDER BY created_at DESC LIMIT limit OFFSET (page-1)*limit.
MessagesByPrivateID(page, limit) ==
  LET offset == (page - 1) * limit
  IN {m \in 1..saved : saved - m >= offset /\ saved - m < offset + limit}

\* The page is queried with one row more than it shows.
Page(page, limit) ==
  LET rows == MessagesByPrivateID(page, limit + 1)
      newer(m) == Cardinality({n \in rows : n > m})
      shown == {m \in rows : newer(m) < limit}
  IN [shown |-> shown, cut |-> rows \ shown, more |-> Cardinality(rows) > limit]

Read(limit, page) ==
  LET p == Page(page, limit)
  IN reader' = [limit |-> limit, old |-> IF page = 1 THEN saved ELSE reader.old, page |-> page,
                shown |-> (IF page = 1 THEN {} ELSE reader.shown) \cup p.shown,
                cut |-> (IF page = 1 THEN {} ELSE reader.cut) \cup p.cut,
                again |-> IF page = 1 THEN {} ELSE reader.again \cup (reader.shown \cap p.shown),
                more |-> p.more]

FirstPage ==
  /\ ~reader.more
  /\ \E limit \in Limits : Read(limit, 1)
  /\ UNCHANGED saved

NextPage ==
  /\ reader.more
  /\ Read(reader.limit, reader.page + 1)
  /\ UNCHANGED saved

HistoryNext == Save \/ FirstPage \/ NextPage
HistorySpec == HistoryInit /\ [][HistoryNext]_historyVars

-----------------------------------------------------------------------------
\* The messages a reader should have seen: those there when it began.
WalkEnded == reader.page > 0 /\ ~reader.more

\* Reading on to the last page loses no message but the extra rows that the
\* handler fetched and cut off, whatever is saved meanwhile; and a message is
\* shown twice only when newer ones were saved between the pages.
HistoryLosesOnlyCut ==
  /\ WalkEnded => (1..reader.old) \ reader.shown \subseteq reader.cut
  /\ saved = reader.old => reader.again = {}

\* README: "Paginated message history (`page`, `limit`)": a reader that has
\* followed has_next_page to the end has seen every message.
HistoryComplete == WalkEnded => 1..reader.old \subseteq reader.shown
=============================================================================
