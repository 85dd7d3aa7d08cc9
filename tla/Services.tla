------------------------------ MODULE Services -------------------------------
(***************************************************************************)
(* The small services of the server side by side: opening conversations,   *)
(* reading their history, accounts and sessions, attendance, summarising a *)
(* long transcript and presigning a recording.  They share neither a table *)
(* nor memory, so an interleaving of two of them shows nothing that one    *)
(* alone does not: a behaviour is one of one part, the others at rest.     *)
(***************************************************************************)
EXTENDS Conversations, History, Accounts, Attendance, MapReduce, Presign

\* There is a transcript to be summarised, and a way to split it.
ASSUME ServicesAssumption == Lengths # {} /\ Windows # {}

VARIABLE part

Parts == {"conversations", "history", "accounts", "attendance", "mapReduce", "presign"}
vars == <<part, joinVars, historyVars, accountsVars, attendanceVars, mapReduceVars, presignVars>>

ServicesTypeOK ==
  /\ part \in Parts
  /\ JoinTypeOK /\ HistoryTypeOK /\ AccountsTypeOK
  /\ AttendanceTypeOK /\ MapReduceTypeOK /\ PresignTypeOK

\* The parts at rest are not exposed to failures and have nothing to do.
Init ==
  /\ part \in Parts
  /\ JoinInit /\ HistoryInit /\ AccountsInit /\ AttendanceInit /\ PresignInit
  /\ part # "conversations" => ~joinFaults
  /\ part # "accounts" => accountFaults = {}
  /\ part # "attendance" => roomFaults = {}
  /\ part # "presign" => ~spaces
  /\ IF part = "mapReduce" THEN MapReduceInit
     ELSE /\ doc = CHOOSE d \in [len : Lengths, window : Windows] : TRUE
          /\ phase = "called" /\ start = 0 /\ chunks = <<>> /\ partials = <<>>

Others(p) ==
  /\ UNCHANGED part
  /\ p # "conversations" => UNCHANGED joinVars
  /\ p # "history" => UNCHANGED historyVars
  /\ p # "accounts" => UNCHANGED accountsVars
  /\ p # "attendance" => UNCHANGED attendanceVars
  /\ p # "mapReduce" => UNCHANGED mapReduceVars
  /\ p # "presign" => UNCHANGED presignVars

Next ==
  \/ part = "conversations" /\ JoinNext /\ Others(part)
  \/ part = "history" /\ HistoryNext /\ Others(part)
  \/ part = "accounts" /\ AccountsNext /\ Others(part)
  \/ part = "attendance" /\ AttendanceNext /\ Others(part)
  \/ part = "mapReduce" /\ MapReduceNext /\ Others(part)
  \/ part = "presign" /\ PresignNext /\ Others(part)

Spec == Init /\ [][Next]_vars
=============================================================================
