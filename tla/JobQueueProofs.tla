--------------------------- MODULE JobQueueProofs ---------------------------
(* Theorems about JobQueue, for any jobs, workers, processes and retry      *)
(* limit, and under any failures.                                          *)
EXTENDS JobQueue, TLAPS

-----------------------------------------------------------------------------
(* Facts about the ready lists.                                            *)

\* What LPUSH leaves: the old elements in their places and the new one last.
LEMMA AppendFacts ==
  ASSUME NEW S, NEW s \in Seq(S), NEW x \in S
  PROVE  /\ Append(s, x) \in Seq(S)
         /\ \A k \in DOMAIN Append(s, x) :
              \/ k \in DOMAIN s /\ Append(s, x)[k] = s[k]
              \/ k = Len(s) + 1 /\ Append(s, x)[k] = x
  OBVIOUS

\* What BRPOP takes and what it leaves.
LEMMA TailFacts ==
  ASSUME NEW S, NEW s \in Seq(S), s # <<>>
  PROVE  /\ Head(s) \in S
         /\ 1 \in DOMAIN s /\ Head(s) = s[1]
         /\ Tail(s) \in Seq(S)
         /\ \A k \in DOMAIN Tail(s) : k + 1 \in DOMAIN s /\ Tail(s)[k] = s[k + 1]
  OBVIOUS

-----------------------------------------------------------------------------
(* Type correctness.  It is inductive once it is known that every envelope *)
(* that still has to run has an attempt left.                              *)

RowsOK ==
  /\ faults \in FaultSets
  /\ tx \in [Jobs -> TxStates]
  /\ row \in [Jobs -> [status : RowStates, attempts : 0 .. MaxRetries]]
  /\ runs \in [Jobs -> Nat]
  /\ done \in SUBSET Jobs

ReadyOK(queues) ==
  /\ queues \in [JobTypes -> Seq(Envelope)]
  /\ \A t \in JobTypes : \A k \in DOMAIN queues[t] :
       TypeOf[queues[t][k].id] = t /\ queues[t][k].attempts < MaxRetries

DelayedOK ==
  /\ delayed \in SUBSET Envelope
  /\ \A e \in delayed : e.attempts < MaxRetries
  /\ due \in SUBSET delayed
  /\ dlq \in SUBSET Envelope

HeldOK ==
  /\ pc \in [Workers -> WorkerStates]
  /\ held \in [Workers -> SUBSET Envelope]
  /\ \A w \in Workers : pc[w] = "idle" <=> held[w] = {}
  /\ \A w \in Workers : \A e \in held[w] :
       pc[w] \in {"popped", "handling"} => e.attempts < MaxRetries

DrainOK ==
  /\ todo \in [Instances -> SUBSET Envelope]
  /\ claimed \in [Instances -> SUBSET Envelope]
  /\ \A i \in Instances : \A e \in claimed[i] : e.attempts < MaxRetries

TypeInv == RowsOK /\ ReadyOK(ready) /\ DelayedOK /\ HeldOK /\ DrainOK

\* A push keeps every ready list well-typed.
LEMMA LPushKeepsReady ==
  ASSUME ReadyOK(ready), NEW e \in Envelope, e.attempts < MaxRetries, LPush(e)
  PROVE  ReadyOK(ready')
<1> DEFINE T == TypeOf[e.id]
<1>1. e.id \in Jobs /\ T \in JobTypes
  BY TypeOfAssumption DEF Envelope
<1>2. ready' = [ready EXCEPT ![T] = Append(ready[T], e)]
  BY DEF LPush
<1>3. ready[T] \in Seq(Envelope)
  BY <1>1 DEF ReadyOK
<1>4. /\ Append(ready[T], e) \in Seq(Envelope)
      /\ \A k \in DOMAIN Append(ready[T], e) :
           \/ k \in DOMAIN ready[T] /\ Append(ready[T], e)[k] = ready[T][k]
           \/ k = Len(ready[T]) + 1 /\ Append(ready[T], e)[k] = e
  BY <1>3, AppendFacts
<1> HIDE DEF T
<1>5. ready' \in [JobTypes -> Seq(Envelope)]
  BY <1>1, <1>2, <1>4 DEF ReadyOK
<1>6. ASSUME NEW t \in JobTypes, NEW k \in DOMAIN ready'[t]
      PROVE  TypeOf[ready'[t][k].id] = t /\ ready'[t][k].attempts < MaxRetries
  <2>1. CASE t = T
    <3>1. ready'[t] = Append(ready[T], e)
      BY <1>1, <1>2, <2>1 DEF ReadyOK
    <3>2. CASE k \in DOMAIN ready[T] /\ ready'[t][k] = ready[T][k]
      BY <1>1, <2>1, <3>2 DEF ReadyOK
    <3>3. CASE ready'[t][k] = e
      BY <2>1, <3>3 DEF T
    <3> QED
      BY <1>4, <3>1, <3>2, <3>3
  <2>2. CASE t # T
    <3>1. ready'[t] = ready[t]
      BY <1>1, <1>2, <2>2 DEF ReadyOK
    <3> QED
      BY <3>1 DEF ReadyOK
  <2> QED
    BY <2>1, <2>2
<1> QED
  BY <1>5, <1>6 DEF ReadyOK


\* It holds in an empty queue.
LEMMA TypeInvInit == Init => TypeInv
  BY MaxRetriesAssumption
  DEF Init, TypeInv, RowsOK, ReadyOK, DelayedOK, HeldOK, DrainOK, TxStates, RowStates, WorkerStates

\* It says what TypeOK says, and more.
LEMMA TypeInvImplies == TypeInv => TypeOK
  BY DEF TypeInv, TypeOK, RowsOK, ReadyOK, DelayedOK, HeldOK, DrainOK

\* A worker that lets go of its envelope is idle, and no other changes.
LEMMA ReleaseKeepsHeld ==
  ASSUME HeldOK, NEW w \in Workers, NEW from, Goto(w, from, "idle"),
         held' = [held EXCEPT ![w] = {}]
  PROVE  HeldOK'
  BY DEF HeldOK, Goto, WorkerStates

\* A status write keeps the rows well-typed, also when it hits none.
LEMMA SetStatusKeepsRow ==
  ASSUME RowsOK, NEW j \in Jobs, NEW s \in RowStates, NEW n \in 0 .. MaxRetries,
         SetStatus(j, s, n)
  PROVE  row' \in [Jobs -> [status : RowStates, attempts : 0 .. MaxRetries]]
  BY DEF RowsOK, SetStatus

\* One step of the queue keeps it.
LEMMA TypeInvNext == TypeInv /\ [Next]_vars => TypeInv'
<1> SUFFICES ASSUME TypeInv, [Next]_vars PROVE TypeInv'
  OBVIOUS
<1> USE DEF redisVars, workerVars, drainVars, history
<1>a. RowsOK /\ ReadyOK(ready) /\ DelayedOK /\ HeldOK /\ DrainOK
  BY DEF TypeInv
<1>1. ASSUME NEW j \in Jobs, InsertJob(j) PROVE TypeInv'
  <2>1. ReadyOK(ready)' /\ DelayedOK' /\ HeldOK' /\ DrainOK'
    BY <1>a, <1>1 DEF InsertJob, ReadyOK, DelayedOK, HeldOK, DrainOK
  <2>2. RowsOK'
    BY <1>a, <1>1 DEF InsertJob, RowsOK, TxStates
  <2> QED
    BY <2>1, <2>2 DEF TypeInv
<1>2. ASSUME NEW j \in Jobs, PushReady(j) PROVE TypeInv'
  <2>1. DelayedOK' /\ HeldOK' /\ DrainOK'
    BY <1>a, <1>2 DEF PushReady, DelayedOK, HeldOK, DrainOK
  <2>2. RowsOK'
    BY <1>a, <1>2 DEF PushReady, RowsOK, TxStates
  <2>3. ReadyOK(ready)'
    <3>1. [id |-> j, attempts |-> 0] \in Envelope
      BY MaxRetriesAssumption DEF Envelope
    <3>2. CASE LPush([id |-> j, attempts |-> 0])
      BY <1>a, <3>1, <3>2, LPushKeepsReady, MaxRetriesAssumption
    <3>3. CASE UNCHANGED ready
      BY <1>a, <3>3 DEF ReadyOK
    <3> QED
      BY <1>2, <3>2, <3>3 DEF PushReady
  <2> QED
    BY <2>1, <2>2, <2>3 DEF TypeInv
<1>3. ASSUME NEW j \in Jobs, Commit(j) PROVE TypeInv'
  <2>1. ReadyOK(ready)' /\ DelayedOK' /\ HeldOK' /\ DrainOK'
    BY <1>a, <1>3 DEF Commit, ReadyOK, DelayedOK, HeldOK, DrainOK
  <2>2. RowsOK'
    BY <1>a, <1>3, MaxRetriesAssumption DEF Commit, RowsOK, TxStates, RowStates
  <2> QED
    BY <2>1, <2>2 DEF TypeInv
<1>4. ASSUME NEW j \in Jobs, Rollback(j) PROVE TypeInv'
  <2>1. ReadyOK(ready)' /\ DelayedOK' /\ HeldOK' /\ DrainOK'
    BY <1>a, <1>4 DEF Rollback, ReadyOK, DelayedOK, HeldOK, DrainOK
  <2>2. RowsOK'
    BY <1>a, <1>4 DEF Rollback, RowsOK, TxStates
  <2> QED
    BY <2>1, <2>2 DEF TypeInv
<1>5. ASSUME NEW w \in Workers, Pop(w) PROVE TypeInv'
  <2>1. RowsOK' /\ DelayedOK' /\ DrainOK'
    BY <1>a, <1>5 DEF Pop, RowsOK, DelayedOK, DrainOK
  <2>2. ReadyOK(ready)'
    <3>1. Serves[w] \in JobTypes /\ ready[Serves[w]] \in Seq(Envelope)
      BY <1>a, WorkersAssumption DEF ReadyOK
    <3>2. /\ ready[Serves[w]] # <<>>
          /\ ready' = [ready EXCEPT ![Serves[w]] = Tail(ready[Serves[w]])]
      BY <1>5 DEF Pop
    <3>3. /\ Tail(ready[Serves[w]]) \in Seq(Envelope)
          /\ \A k \in DOMAIN Tail(ready[Serves[w]]) :
               /\ k + 1 \in DOMAIN ready[Serves[w]]
               /\ Tail(ready[Serves[w]])[k] = ready[Serves[w]][k + 1]
      BY <3>1, <3>2, TailFacts
    <3> QED
      BY <1>a, <3>1, <3>2, <3>3 DEF ReadyOK
  <2>3. HeldOK'
    <3>1. Serves[w] \in JobTypes /\ ready[Serves[w]] \in Seq(Envelope)
      BY <1>a, WorkersAssumption DEF ReadyOK
    <3>2. ready[Serves[w]] # <<>>
      BY <1>5 DEF Pop
    <3>3. /\ Head(ready[Serves[w]]) \in Envelope
          /\ 1 \in DOMAIN ready[Serves[w]]
          /\ Head(ready[Serves[w]]) = ready[Serves[w]][1]
      BY <3>1, <3>2, TailFacts
    <3>4. Head(ready[Serves[w]]).attempts < MaxRetries
      BY <1>a, <3>1, <3>3 DEF ReadyOK
    <3>5. CASE Goto(w, "idle", "popped") /\ held' = [held EXCEPT ![w] = {Head(ready[Serves[w]])}]
      BY <1>a, <3>3, <3>4, <3>5 DEF HeldOK, Goto, WorkerStates
    <3>6. CASE UNCHANGED <<pc, held>>
      BY <1>a, <3>6 DEF HeldOK
    <3> QED
      BY <1>5, <3>5, <3>6 DEF Pop
  <2> QED
    BY <2>1, <2>2, <2>3 DEF TypeInv
<1>6. ASSUME NEW w \in Workers, MarkRunning(w) PROVE TypeInv'
  <2>1. ReadyOK(ready)' /\ DelayedOK' /\ DrainOK'
    BY <1>a, <1>6 DEF MarkRunning, ReadyOK, DelayedOK, DrainOK
  <2>2. RowsOK'
    <3>1. PICK e \in held[w] :
              /\ SetStatus(e.id, "running", 0)
              /\ runs' = [runs EXCEPT ![e.id] = @ + 1]
              /\ UNCHANGED <<faults, tx, done>>
      BY <1>6 DEF MarkRunning
    <3>2. e.id \in Jobs
      BY <1>a DEF HeldOK, Envelope
    <3>3. row' \in [Jobs -> [status : RowStates, attempts : 0 .. MaxRetries]]
      BY <1>a, <3>1, <3>2, SetStatusKeepsRow, MaxRetriesAssumption DEF RowStates
    <3>4. runs' \in [Jobs -> Nat]
      BY <1>a, <3>1, <3>2 DEF RowsOK
    <3> QED
      BY <1>a, <3>1, <3>3, <3>4 DEF RowsOK
  <2>3. HeldOK'
    BY <1>a, <1>6 DEF MarkRunning, HeldOK, Goto, WorkerStates
  <2> QED
    BY <2>1, <2>2, <2>3 DEF TypeInv
<1>7. ASSUME NEW w \in Workers, HandlerSucceeds(w) PROVE TypeInv'
  <2>1. ReadyOK(ready)' /\ DelayedOK' /\ DrainOK'
    BY <1>a, <1>7 DEF HandlerSucceeds, ReadyOK, DelayedOK, DrainOK
  <2>2. RowsOK'
    BY <1>a, <1>7 DEF HandlerSucceeds, RowsOK, HeldOK, Envelope
  <2>3. HeldOK'
    BY <1>a, <1>7 DEF HandlerSucceeds, HeldOK, Goto, WorkerStates
  <2> QED
    BY <2>1, <2>2, <2>3 DEF TypeInv
<1>8. ASSUME NEW w \in Workers, HandlerFails(w) PROVE TypeInv'
  <2>1. RowsOK' /\ ReadyOK(ready)' /\ DelayedOK' /\ DrainOK'
    BY <1>a, <1>8 DEF HandlerFails, RowsOK, ReadyOK, DelayedOK, DrainOK
  <2>2. HeldOK'
    <3>1. PICK e \in held[w] :
              /\ Goto(w, "handling", "failing")
              /\ held' = [held EXCEPT ![w] = {[e EXCEPT !.attempts = @ + 1]}]
      BY <1>8 DEF HandlerFails
    <3>2. e \in Envelope /\ e.attempts < MaxRetries
      BY <1>a, <3>1 DEF HeldOK, Goto
    <3>3. [e EXCEPT !.attempts = @ + 1] \in Envelope
      BY <3>2, MaxRetriesAssumption DEF Envelope
    <3> QED
      BY <1>a, <3>1, <3>3 DEF HeldOK, Goto, WorkerStates
  <2> QED
    BY <2>1, <2>2 DEF TypeInv
<1>9. ASSUME NEW w \in Workers, ScheduleRetry(w) PROVE TypeInv'
  <2>1. RowsOK' /\ ReadyOK(ready)' /\ DrainOK'
    BY <1>a, <1>9 DEF ScheduleRetry, RowsOK, ReadyOK, DrainOK
  <2>2. DelayedOK'
    <3>1. PICK e \in held[w] :
              /\ ~Exhausted(e)
              /\ delayed' = delayed \union {e} \/ UNCHANGED delayed
              /\ UNCHANGED <<due, dlq>>
      BY <1>9 DEF ScheduleRetry
    <3>2. e \in Envelope /\ e.attempts < MaxRetries
      BY <1>a, <3>1, MaxRetriesAssumption DEF HeldOK, Envelope, Exhausted
    <3> QED
      BY <1>a, <3>1, <3>2 DEF DelayedOK
  <2>3. HeldOK'
    BY <1>a, <1>9 DEF ScheduleRetry, HeldOK, Goto, WorkerStates
  <2> QED
    BY <2>1, <2>2, <2>3 DEF TypeInv
<1>10. ASSUME NEW w \in Workers, PushDLQ(w) PROVE TypeInv'
  <2>1. RowsOK' /\ ReadyOK(ready)' /\ DrainOK'
    BY <1>a, <1>10 DEF PushDLQ, RowsOK, ReadyOK, DrainOK
  <2>2. DelayedOK'
    BY <1>a, <1>10 DEF PushDLQ, DelayedOK, HeldOK
  <2>3. HeldOK'
    BY <1>a, <1>10 DEF PushDLQ, HeldOK, Goto, WorkerStates
  <2> QED
    BY <2>1, <2>2, <2>3 DEF TypeInv
<1>11. ASSUME NEW e \in Envelope, BackoffElapses(e) PROVE TypeInv'
  <2>1. RowsOK' /\ ReadyOK(ready)' /\ HeldOK' /\ DrainOK'
    BY <1>a, <1>11 DEF BackoffElapses, RowsOK, ReadyOK, HeldOK, DrainOK
  <2>2. DelayedOK'
    BY <1>a, <1>11 DEF BackoffElapses, DelayedOK
  <2> QED
    BY <2>1, <2>2 DEF TypeInv
<1>12. ASSUME NEW i \in Instances, DrainSnapshot(i) PROVE TypeInv'
  <2>1. RowsOK' /\ ReadyOK(ready)' /\ DelayedOK' /\ HeldOK'
    BY <1>a, <1>12 DEF DrainSnapshot, RowsOK, ReadyOK, DelayedOK, HeldOK
  <2>2. DrainOK'
    BY <1>a, <1>12 DEF DrainSnapshot, DrainOK, DelayedOK
  <2> QED
    BY <2>1, <2>2 DEF TypeInv
<1>13. ASSUME NEW i \in Instances, DrainClaim(i) PROVE TypeInv'
  <2>1. RowsOK' /\ ReadyOK(ready)' /\ HeldOK'
    BY <1>a, <1>13 DEF DrainClaim, RowsOK, ReadyOK, HeldOK
  <2>2. DelayedOK'
    BY <1>a, <1>13 DEF DrainClaim, DelayedOK
  <2>3. DrainOK'
    BY <1>a, <1>13 DEF DrainClaim, DrainOK, DelayedOK
  <2> QED
    BY <2>1, <2>2, <2>3 DEF TypeInv
<1>14. ASSUME NEW i \in Instances, DrainPush(i) PROVE TypeInv'
  <2>1. RowsOK' /\ DelayedOK' /\ HeldOK'
    BY <1>a, <1>14 DEF DrainPush, RowsOK, DelayedOK, HeldOK
  <2>2. ReadyOK(ready)'
    <3>1. PICK e \in claimed[i] : LPush(e) \/ UNCHANGED ready
      BY <1>14 DEF DrainPush
    <3>2. e \in Envelope /\ e.attempts < MaxRetries
      BY <1>a DEF DrainOK
    <3>3. CASE LPush(e)
      BY <1>a, <3>2, <3>3, LPushKeepsReady
    <3>4. CASE UNCHANGED ready
      BY <1>a, <3>4 DEF ReadyOK
    <3> QED
      BY <3>1, <3>3, <3>4
  <2>3. DrainOK'
    BY <1>a, <1>14 DEF DrainPush, DrainOK
  <2> QED
    BY <2>1, <2>2, <2>3 DEF TypeInv
<1>15. ASSUME NEW i \in Instances, Crash(i) PROVE TypeInv'
  <2>1. RowsOK' /\ ReadyOK(ready)' /\ DelayedOK'
    BY <1>a, <1>15 DEF Crash, RowsOK, ReadyOK, DelayedOK
  <2>2. HeldOK'
    BY <1>a, <1>15 DEF Crash, HeldOK, WorkerStates
  <2>3. DrainOK'
    BY <1>a, <1>15 DEF Crash, DrainOK
  <2> QED
    BY <2>1, <2>2, <2>3 DEF TypeInv
<1>16. ASSUME NEW w \in Workers, NEW from, NEW status \in RowStates, Settle(w, from, status)
       PROVE  TypeInv'
  <2>1. ReadyOK(ready)' /\ DelayedOK' /\ DrainOK'
    BY <1>a, <1>16 DEF Settle, ReadyOK, DelayedOK, DrainOK
  <2>2. PICK e \in held[w] :
          SetStatus(e.id, status, e.attempts) /\ UNCHANGED <<faults, tx, runs, done>>
    BY <1>16 DEF Settle
  <2>3. e.id \in Jobs /\ e.attempts \in 0 .. MaxRetries
    BY <1>a DEF HeldOK, Envelope
  <2>4. row' \in [Jobs -> [status : RowStates, attempts : 0 .. MaxRetries]]
    BY <1>a, <2>2, <2>3, SetStatusKeepsRow
  <2>5. RowsOK'
    BY <1>a, <2>2, <2>4 DEF RowsOK
  <2>6. HeldOK'
    BY <1>a, <1>16, ReleaseKeepsHeld DEF Settle
  <2> QED
    BY <2>1, <2>5, <2>6 DEF TypeInv
<1>17. CASE UNCHANGED vars
  BY <1>a, <1>17 DEF vars, TypeInv, RowsOK, ReadyOK, DelayedOK, HeldOK, DrainOK
<1>18. {"completed", "pending", "failed"} \subseteq RowStates
  BY DEF RowStates
<1> QED
  BY <1>1, <1>2, <1>3, <1>4, <1>5, <1>6, <1>7, <1>8, <1>9, <1>10, <1>11, <1>12, <1>13, <1>14,
     <1>15, <1>16, <1>17, <1>18
  DEF Next, Producer, WorkerStep, SchedulerStep, MarkCompleted, MarkPending, MarkFailed

\* Whatever fails, every variable keeps to its kind; in particular no attempt
\* count ever passes MaxRetries.
THEOREM TypeCorrect == Spec => []TypeOK
<1>1. Init => TypeInv
  BY TypeInvInit
<1>2. TypeInv /\ [Next]_vars => TypeInv'
  BY TypeInvNext
<1>3. TypeInv => TypeOK
  BY TypeInvImplies
<1> QED
  BY <1>1, <1>2, <1>3, PTL DEF Spec
=============================================================================
