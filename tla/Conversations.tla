---------------------------- MODULE Conversations ----------------------------
(***************************************************************************)
(* Opening a private conversation: HandleJoinPrivate, CreatePrivate and    *)
(* the privates table.  Looking for the conversation, looking again, and   *)
(* inserting it are separate statements of requests that may race; only    *)
(* the table's constraints keep the pair unique.                           *)
(***************************************************************************)
EXTENDS Naturals, FiniteSets

CONSTANTS
  Joiners,     \* requests, each may be sent again once it was answered
  JoinUsers,   \* the users of a request, <<sender, receiver>>, as numbers
  Members,     \* the users there are
  MaxPrivate   \* bound: ids the privates table hands out

ASSUME JoinAssumption ==
  /\ JoinUsers \in [Joiners -> Nat \X Nat]
  /\ MaxPrivate \in Nat

VARIABLES
  privates,   \* rows of the table
  privateIds, \* ids handed out, failed inserts included
  joins,      \* stage of each request, and the id it was answered
  joinFaults  \* whether statements may fail in this behaviour

joinVars == <<privates, privateIds, joins, joinFaults>>

Lower(p) == IF p[1] > p[2] THEN <<p[2], p[1]>> ELSE p
PrivateByUsers(p) == {row \in privates : row.users = Lower(p)}

JoinStages == {"idle", "missed", "insert", "fetch", "answered", "refused", "error"}
Answered == {"answered", "refused", "error"}
JoinTypeOK ==
  /\ privates \subseteq [id : 1..MaxPrivate, users : Nat \X Nat]
  /\ privateIds \in 0..MaxPrivate
  /\ joins \in [Joiners -> [stage : JoinStages, id : 0..MaxPrivate]]
  /\ joinFaults \in BOOLEAN

JoinInit ==
  /\ privates = {} /\ privateIds = 0
  /\ joins = [j \in Joiners |-> [stage |-> "idle", id |-> 0]]
  /\ joinFaults \in BOOLEAN

Reply(j, stage, id) == joins' = [joins EXCEPT ![j] = [stage |-> stage, id |-> id]]

\* A lookup answers with the row, or goes on to the next stage.
LookOr(j, next) ==
  \/ \E row \in PrivateByUsers(JoinUsers[j]) : Reply(j, "answered", row.id)
  \/ PrivateByUsers(JoinUsers[j]) = {} /\ Reply(j, next, 0)
  \/ joinFaults /\ Reply(j, "error", 0)

\* HandleJoinPrivate refuses a conversation with oneself and with nobody, else
\* looks it up.
JoinLook(j) ==
  /\ joins[j].stage = "idle"
  /\ LET sender == JoinUsers[j][1]
         receiver == JoinUsers[j][2]
     IN \/ (sender = receiver \/ receiver \notin Members) /\ Reply(j, "refused", 0)
        \/ sender # receiver /\ joinFaults /\ Reply(j, "error", 0)
        \/ sender # receiver /\ receiver \in Members /\ LookOr(j, "missed")
  /\ UNCHANGED <<privates, privateIds, joinFaults>>

\* CreatePrivate looks again.
CreateLook(j) ==
  /\ joins[j].stage = "missed"
  /\ LookOr(j, "insert")
  /\ UNCHANGED <<privates, privateIds, joinFaults>>

\* A table that does not have the unique pair.
AdmitsTwice(p) == p[1] < p[2]

\* UNIQUE(user1_id, user2_id) and CHECK(user1_id < user2_id).
Admits(p) == p[1] < p[2] /\ \A row \in privates : row.users # p

\* An INSERT that a constraint refuses has used an id all the same.
InsertPrivate(j) ==
  /\ joins[j].stage = "insert" /\ privateIds < MaxPrivate
  /\ \/ LET pair == Lower(JoinUsers[j])
        IN /\ privateIds' = privateIds + 1
           /\ IF Admits(pair)
                THEN /\ privates' = privates \cup {[id |-> privateIds', users |-> pair]}
                     /\ Reply(j, "fetch", privateIds')
                ELSE Reply(j, "error", 0) /\ UNCHANGED privates
     \/ joinFaults /\ Reply(j, "error", 0) /\ UNCHANGED <<privates, privateIds>>
  /\ UNCHANGED joinFaults

\* The new row is read back with the users' names.
FetchPrivate(j) ==
  /\ joins[j].stage = "fetch"
  /\ \/ \E row \in privates : row.id = joins[j].id /\ Reply(j, "answered", row.id)
     \/ joinFaults /\ Reply(j, "error", 0)
  /\ UNCHANGED <<privates, privateIds, joinFaults>>

JoinAgain(j) ==
  /\ joins[j].stage \in Answered
  /\ Reply(j, "idle", 0)
  /\ UNCHANGED <<privates, privateIds, joinFaults>>

JoinNext == \E j \in Joiners :
  JoinLook(j) \/ CreateLook(j) \/ InsertPrivate(j) \/ FetchPrivate(j) \/ JoinAgain(j)

JoinSpec == JoinInit /\ [][JoinNext]_joinVars

-----------------------------------------------------------------------------
\* Two users have at most one conversation, and all who ask for it are given
\* that one, whoever of them asked and however their requests overlap.  A
\* request that loses the race is answered with an error, but then the
\* conversation is there to be found: unless the database fails, an error never
\* means that there is none.
OneConversation ==
  /\ \A r, s \in privates : r.users = s.users => r = s
  /\ \A j \in Joiners : joins[j].stage = "answered" =>
       [id |-> joins[j].id, users |-> Lower(JoinUsers[j])] \in privates
  /\ \A j \in Joiners : joins[j].stage = "error" /\ ~joinFaults =>
       PrivateByUsers(JoinUsers[j]) # {}
=============================================================================
