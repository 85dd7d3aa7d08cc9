------------------------ MODULE JobQueueCopiesProofs ------------------------
(* Theorems about JobQueue for any jobs, workers, processes and retry       *)
(* limit, and under any failures: where the copies of a job are, what its   *)
(* attempts count, what its row says, and that the queue implements         *)
(* JobLife.                                                                 *)
(*                                                                          *)
(* All rest on PlaceInv: a job is in one place, once.  The lemmas named     *)
(* ...Moves say what each step does to the places, JobSteps what any step   *)
(* may do to one job; CountInv, RowsInv and WriteInv add the rest.          *)
EXTENDS JobQueueProofs, FiniteSetTheorems

-----------------------------------------------------------------------------
(* A job's places.  Every step of the queue moves one job from its place to *)
(* the next, or leaves all jobs where they are.                             *)

Places == {"ready", "delayed", "dlq", "worker", "drain"}

Spots(j) ==
  { p \in Places :
      \/ p = "ready" /\ InReady(j)
      \/ p = "delayed" /\ InDelayed(j)
      \/ p = "dlq" /\ InDLQ(j)
      \/ p = "worker" /\ InWorker(j)
      \/ p = "drain" /\ InDrain(j) }

Unpushed(j) == tx[j] \in {"none", "inserted"}

\* A job is in one place, in none before it is pushed or after it succeeds.
Apart ==
  \A j \in Jobs :
    /\ \A p, q \in Spots(j) : p = q
    /\ j \in done => Spots(j) = {}
    /\ Unpushed(j) => Spots(j) = {} /\ j \notin done /\ runs[j] = 0

\* And in that place once.
ReadyOnce ==
  \A t \in JobTypes : \A k, l \in DOMAIN ready[t] : ready[t][k].id = ready[t][l].id => k = l
DelayedOnce == \A e, f \in delayed : e.id = f.id => e = f
BuriedOnce == \A e, f \in dlq : e.id = f.id => e = f
WorkerOnce ==
  /\ \A w \in Workers : \A e, f \in held[w] : e = f
  /\ \A w, v \in Workers : \A j \in Jobs :
       pc[w] \in Carrying /\ pc[v] \in Carrying /\ Holds(w, j) /\ Holds(v, j) => w = v
DrainOnce ==
  /\ \A i \in Instances : \A e, f \in claimed[i] : e = f
  /\ \A i, h \in Instances : \A e \in claimed[i], f \in claimed[h] : e.id = f.id => i = h

Once == ReadyOnce /\ DelayedOnce /\ BuriedOnce /\ WorkerOnce /\ DrainOnce
PlaceInv == Apart /\ Once

\* How a step changes the places of the jobs.
Stay == \A k \in Jobs : Spots(k)' = Spots(k)
Move(j, S) == Spots(j)' = S /\ \A k \in Jobs \ {j} : Spots(k)' = Spots(k)

\* A job with one of its copies in view is nowhere else.
LEMMA OnlySpot ==
  ASSUME Apart, NEW j \in Jobs, NEW p \in Spots(j)
  PROVE  Spots(j) = {p} /\ j \notin done /\ ~Unpushed(j)
  BY DEF Apart

-----------------------------------------------------------------------------
(* The ready lists.                                                        *)

\* LPUSH adds its job and no other.
LEMMA PushAdds ==
  ASSUME ReadyOK(ready), ReadyOnce, NEW e \in Envelope, LPush(e), ~InReady(e.id)
  PROVE  /\ InReady(e.id)'
         /\ \A k \in Jobs \ {e.id} : InReady(k)' <=> InReady(k)
         /\ ReadyOnce'
<1> DEFINE T == TypeOf[e.id]
           s == ready[T]
<1>1. e.id \in Jobs /\ T \in JobTypes
  BY TypeOfAssumption DEF Envelope
<1>2. ready' = [ready EXCEPT ![T] = Append(s, e)]
  BY DEF LPush
<1>3. s \in Seq(Envelope) /\ ready \in [JobTypes -> Seq(Envelope)]
  BY <1>1 DEF ReadyOK
<1>4. /\ Len(s) \in Nat /\ DOMAIN s = 1 .. Len(s)
      /\ DOMAIN Append(s, e) = 1 .. Len(s) + 1
      /\ \A k \in DOMAIN s : Append(s, e)[k] = s[k]
      /\ Append(s, e)[Len(s) + 1] = e
  BY <1>3
<1>5. \A k \in DOMAIN s : s[k].id # e.id
  BY DEF InReady
<1>6. ready'[T] = Append(s, e) /\ \A t \in JobTypes : t # T => ready'[t] = ready[t]
  BY <1>1, <1>2, <1>3
<1>7. InReady(e.id)'
  BY <1>4, <1>6 DEF InReady
<1>8. ASSUME NEW k \in Jobs \ {e.id} PROVE InReady(k)' <=> InReady(k)
  <2>1. TypeOf[k] \in JobTypes
    BY TypeOfAssumption
  <2>2. CASE TypeOf[k] # T
    BY <1>6, <2>1, <2>2 DEF InReady
  <2>3. CASE TypeOf[k] = T
    <3>1. InReady(k) <=> \E n \in DOMAIN s : s[n].id = k
      BY <2>3 DEF InReady
    <3>2. InReady(k)' <=> \E n \in DOMAIN Append(s, e) : Append(s, e)[n].id = k
      BY <1>6, <2>3 DEF InReady
    <3> HIDE DEF s
    <3> QED
      BY <1>4, <3>1, <3>2
  <2> QED
    BY <2>2, <2>3
<1> HIDE DEF T, s
<1>9. ReadyOnce'
  <2>1. ASSUME NEW t \in JobTypes, t # T, NEW k \in DOMAIN ready'[t], NEW l \in DOMAIN ready'[t],
               ready'[t][k].id = ready'[t][l].id
        PROVE  k = l
    BY <1>6, <2>1 DEF ReadyOnce
  <2>2. ASSUME NEW k \in DOMAIN Append(s, e), NEW l \in DOMAIN Append(s, e),
               Append(s, e)[k].id = Append(s, e)[l].id
        PROVE  k = l
    <3>1. (k \in DOMAIN s \/ k = Len(s) + 1) /\ (l \in DOMAIN s \/ l = Len(s) + 1)
      BY <1>4
    <3>2. \A m, n \in DOMAIN s : s[m].id = s[n].id => m = n
      BY <1>1 DEF ReadyOnce, s
    <3> QED
      BY <1>4, <1>5, <2>2, <3>1, <3>2
  <2> QED
    BY <1>1, <1>6, <2>1, <2>2 DEF ReadyOnce
<1> QED
  BY <1>7, <1>8, <1>9

\* BRPOP takes one job out of the ready lists.
LEMMA PopTakes ==
  ASSUME ReadyOK(ready), ReadyOnce, NEW t \in JobTypes, ready[t] # <<>>,
         ready' = [ready EXCEPT ![t] = Tail(@)], NEW h, h = Head(ready[t])
  PROVE  /\ h \in Envelope /\ InReady(h.id) /\ h.attempts < MaxRetries
         /\ h = ready[t][1] /\ 1 \in DOMAIN ready[t]
         /\ ~InReady(h.id)'
         /\ \A k \in Jobs \ {h.id} : InReady(k)' <=> InReady(k)
         /\ ReadyOnce'
<1> DEFINE s == ready[t]
<1>1. s \in Seq(Envelope) /\ ready \in [JobTypes -> Seq(Envelope)]
  BY DEF ReadyOK
<1>2. /\ Len(s) \in Nat \ {0} /\ DOMAIN s = 1 .. Len(s)
      /\ h = s[1] /\ h \in Envelope /\ 1 \in DOMAIN s
      /\ DOMAIN Tail(s) = 1 .. Len(s) - 1
      /\ \A k \in DOMAIN Tail(s) : k + 1 \in DOMAIN s /\ Tail(s)[k] = s[k + 1]
      /\ \A k \in DOMAIN s : k # 1 => k - 1 \in DOMAIN Tail(s) /\ Tail(s)[k - 1] = s[k]
  BY <1>1
<1>3. TypeOf[h.id] = t /\ h.attempts < MaxRetries /\ InReady(h.id)
  <2>1. TypeOf[h.id] = t /\ h.attempts < MaxRetries
    BY <1>2 DEF ReadyOK
  <2>2. InReady(h.id) <=> \E k \in DOMAIN s : s[k].id = h.id
    BY <2>1 DEF InReady
  <2> QED
    BY <1>2, <2>1, <2>2
<1>4. ready'[t] = Tail(s) /\ \A u \in JobTypes : u # t => ready'[u] = ready[u]
  BY <1>1
<1>5. \A k, l \in DOMAIN s : s[k].id = s[l].id => k = l
  BY DEF ReadyOnce
<1> HIDE DEF s
<1>6. ~InReady(h.id)'
  <2>2. InReady(h.id)' <=> \E k \in DOMAIN Tail(s) : Tail(s)[k].id = h.id
    BY <1>3, <1>4 DEF InReady
  <2> SUFFICES ASSUME NEW k \in DOMAIN Tail(s), Tail(s)[k].id = h.id PROVE FALSE
    BY <2>2
  <2>1. k + 1 \in DOMAIN s /\ s[k + 1].id = s[1].id /\ k \in Nat \ {0}
    BY <1>2
  <2> QED
    BY <1>2, <1>5, <2>1
<1>7. ASSUME NEW k \in Jobs \ {h.id} PROVE InReady(k)' <=> InReady(k)
  <2>1. TypeOf[k] \in JobTypes
    BY TypeOfAssumption
  <2>2. CASE TypeOf[k] # t
    BY <1>4, <2>1, <2>2 DEF InReady
  <2>3. CASE TypeOf[k] = t
    <3>1. InReady(k) <=> \E n \in DOMAIN s : s[n].id = k
      BY <2>3 DEF InReady, s
    <3>2. InReady(k)' <=> \E n \in DOMAIN Tail(s) : Tail(s)[n].id = k
      BY <1>4, <2>3 DEF InReady
    <3> QED
      BY <1>2, <3>1, <3>2
  <2> QED
    BY <2>2, <2>3
<1>8. ReadyOnce'
  <2>1. ASSUME NEW u \in JobTypes, u # t, NEW k \in DOMAIN ready'[u], NEW l \in DOMAIN ready'[u],
               ready'[u][k].id = ready'[u][l].id
        PROVE  k = l
    BY <1>4, <2>1 DEF ReadyOnce
  <2>2. ASSUME NEW k \in DOMAIN Tail(s), NEW l \in DOMAIN Tail(s), Tail(s)[k].id = Tail(s)[l].id
        PROVE  k = l
    <3>1. k + 1 \in DOMAIN s /\ l + 1 \in DOMAIN s /\ s[k + 1].id = s[l + 1].id
      BY <1>2, <2>2
    <3>2. k + 1 = l + 1 /\ k \in Nat /\ l \in Nat
      BY <1>2, <1>5, <3>1
    <3> QED
      BY <3>2
  <2> QED
    BY <1>4, <2>1, <2>2 DEF ReadyOnce
<1> QED
  BY <1>2, <1>3, <1>6, <1>7, <1>8 DEF s

-----------------------------------------------------------------------------
(* The workers.                                                            *)

\* Places are decided by the five questions.
LEMMA SpotsDecided ==
  ASSUME NEW j \in Jobs
  PROVE  /\ "ready" \in Spots(j) <=> InReady(j)
         /\ "delayed" \in Spots(j) <=> InDelayed(j)
         /\ "dlq" \in Spots(j) <=> InDLQ(j)
         /\ "worker" \in Spots(j) <=> InWorker(j)
         /\ "drain" \in Spots(j) <=> InDrain(j)
         /\ Spots(j) \subseteq Places
  BY DEF Spots, Places

\* A job that nobody moves stays.
LEMMA SpotsKept ==
  ASSUME NEW j \in Jobs, InReady(j)' <=> InReady(j), InDelayed(j)' <=> InDelayed(j),
         InDLQ(j)' <=> InDLQ(j), InWorker(j)' <=> InWorker(j), InDrain(j)' <=> InDrain(j)
  PROVE  Spots(j)' = Spots(j)
  BY DEF Spots

\* What a worker holds is all it holds.
LEMMA HoldsOne ==
  ASSUME WorkerOnce, NEW w \in Workers, NEW e \in held[w], NEW j
  PROVE  Holds(w, j) <=> j = e.id
  BY DEF WorkerOnce, Holds

\* A worker goes on with its job.
LEMMA WorkerGoesOn ==
  ASSUME HeldOK, WorkerOnce, NEW w \in Workers, NEW from \in Carrying, NEW to \in Carrying,
         Goto(w, from, to), \A v \in Workers : \A j \in Jobs : Holds(v, j)' <=> Holds(v, j),
         \A v \in Workers : \A e, f \in held'[v] : e = f
  PROVE  /\ \A k \in Jobs : InWorker(k)' <=> InWorker(k)
         /\ WorkerOnce'
<1>1. \A v \in Workers : pc'[v] \in Carrying <=> pc[v] \in Carrying
  BY DEF HeldOK, Goto
<1> QED
  BY <1>1 DEF WorkerOnce, InWorker

\* A worker hands its job on; it still remembers it.
LEMMA WorkerHandsOn ==
  ASSUME HeldOK, WorkerOnce, NEW w \in Workers, NEW from \in Carrying, NEW to, to \notin Carrying,
         Goto(w, from, to), UNCHANGED held, NEW e \in held[w]
  PROVE  /\ e \in Envelope /\ InWorker(e.id)
         /\ ~InWorker(e.id)'
         /\ \A k \in Jobs \ {e.id} : InWorker(k)' <=> InWorker(k)
         /\ WorkerOnce'
<1>1. e \in Envelope /\ e.id \in Jobs
  BY DEF HeldOK, Envelope
<1>2. /\ pc[w] \in Carrying /\ pc'[w] \notin Carrying
      /\ \A v \in Workers \ {w} : pc'[v] = pc[v]
  BY DEF HeldOK, Goto
<1>3. \A v \in Workers, j \in Jobs : Holds(v, j)' <=> Holds(v, j)
  BY DEF Holds
<1>4. \A j \in Jobs : Holds(w, j) <=> j = e.id
  BY HoldsOne
<1>5. InWorker(e.id)
  BY <1>1, <1>2, <1>4 DEF InWorker
<1>6. ~InWorker(e.id)'
  BY <1>1, <1>2, <1>3, <1>4 DEF InWorker, WorkerOnce
<1>7. \A k \in Jobs \ {e.id} : InWorker(k)' <=> InWorker(k)
  BY <1>2, <1>3, <1>4 DEF InWorker
<1>8. WorkerOnce'
  BY <1>2, <1>3 DEF WorkerOnce
<1> QED
  BY <1>1, <1>5, <1>6, <1>7, <1>8

\* A worker forgets the job it has handed on.
LEMMA WorkerForgets ==
  ASSUME HeldOK, WorkerOnce, NEW w \in Workers, NEW from, from \notin Carrying,
         Goto(w, from, "idle"), held' = [held EXCEPT ![w] = {}]
  PROVE  /\ \A k \in Jobs : InWorker(k)' <=> InWorker(k)
         /\ WorkerOnce'
<1>1. /\ pc[w] \notin Carrying /\ pc'[w] \notin Carrying
      /\ \A v \in Workers \ {w} : pc'[v] = pc[v] /\ held'[v] = held[v]
      /\ held'[w] = {}
  BY DEF HeldOK, Goto, Carrying
<1>2. \A v \in Workers \ {w} : \A j \in Jobs : Holds(v, j)' <=> Holds(v, j)
  BY <1>1 DEF Holds
<1>3. \A j \in Jobs : ~Holds(w, j)'
  BY <1>1 DEF Holds
<1> QED
  BY <1>1, <1>2, <1>3 DEF WorkerOnce, InWorker

\* A worker takes a job.
LEMMA WorkerTakes ==
  ASSUME HeldOK, WorkerOnce, NEW w \in Workers, NEW h \in Envelope, ~InWorker(h.id),
         Goto(w, "idle", "popped"), held' = [held EXCEPT ![w] = {h}]
  PROVE  /\ InWorker(h.id)'
         /\ \A k \in Jobs \ {h.id} : InWorker(k)' <=> InWorker(k)
         /\ WorkerOnce'
<1>1. /\ pc[w] \notin Carrying /\ pc'[w] \in Carrying
      /\ \A v \in Workers \ {w} : pc'[v] = pc[v] /\ held'[v] = held[v]
      /\ held'[w] = {h}
  BY DEF HeldOK, Goto, Carrying
<1>2. \A v \in Workers \ {w} : \A j \in Jobs : Holds(v, j)' <=> Holds(v, j)
  BY <1>1 DEF Holds
<1>3. h.id \in Jobs /\ \A j \in Jobs : Holds(w, j)' <=> j = h.id
  BY <1>1 DEF Holds, Envelope
<1>4. \A v \in Workers \ {w} : pc[v] \in Carrying => ~Holds(v, h.id)
  BY DEF InWorker
<1>5. InWorker(h.id)' /\ \A k \in Jobs \ {h.id} : InWorker(k)' <=> InWorker(k)
  BY <1>1, <1>2, <1>3 DEF InWorker
<1>6. WorkerOnce'
  BY <1>1, <1>2, <1>3, <1>4 DEF WorkerOnce
<1> QED
  BY <1>5, <1>6

-----------------------------------------------------------------------------
(* What each step does to the places.                                      *)

\* A step that touches no place.
LEMMA NothingMoves ==
  ASSUME UNCHANGED <<ready, delayed, dlq, pc, held, claimed>>
  PROVE  Stay /\ (Once => Once')
<1>1. Stay
  BY DEF Stay, Spots, InReady, InDelayed, InDLQ, InWorker, InDrain, Holds
<1>2. Once => Once'
  BY DEF Once, ReadyOnce, DelayedOnce, BuriedOnce, WorkerOnce, DrainOnce, Holds
<1> QED
  BY <1>1, <1>2

\* Places outside the workers and the ready lists.
LEMMA StoresKept ==
  ASSUME UNCHANGED <<delayed, dlq, claimed>>
  PROVE  /\ \A k \in Jobs : /\ InDelayed(k)' <=> InDelayed(k)
                            /\ InDLQ(k)' <=> InDLQ(k)
                            /\ InDrain(k)' <=> InDrain(k)
         /\ DelayedOnce /\ BuriedOnce /\ DrainOnce => (DelayedOnce /\ BuriedOnce /\ DrainOnce)'
  BY DEF InDelayed, InDLQ, InDrain, DelayedOnce, BuriedOnce, DrainOnce

LEMMA ReadyKept ==
  ASSUME UNCHANGED ready
  PROVE  (\A k \in Jobs : InReady(k)' <=> InReady(k)) /\ (ReadyOnce => ReadyOnce')
  BY DEF InReady, ReadyOnce

LEMMA WorkersKept ==
  ASSUME UNCHANGED <<pc, held>>
  PROVE  (\A k \in Jobs : InWorker(k)' <=> InWorker(k)) /\ (WorkerOnce => WorkerOnce')
  BY DEF InWorker, WorkerOnce, Holds

\* The producer's push brings a job to its ready list.
LEMMA PushMoves ==
  ASSUME TypeInv, PlaceInv, NEW j \in Jobs, PushReady(j)
  PROVE  /\ Once'
         /\ Move(j, {"ready"}) \/ ("push" \in faults /\ Stay)
<1>1. CASE LPush([id |-> j, attempts |-> 0])
  <2>1. [id |-> j, attempts |-> 0] \in Envelope
    BY MaxRetriesAssumption DEF Envelope
  <2>2. Spots(j) = {}
    BY DEF PlaceInv, Apart, Unpushed, PushReady
  <2>3. ~InReady(j) /\ ~InDelayed(j) /\ ~InDLQ(j) /\ ~InWorker(j) /\ ~InDrain(j)
    BY <2>2, SpotsDecided
  <2>4. /\ InReady(j)'
        /\ \A k \in Jobs \ {j} : InReady(k)' <=> InReady(k)
        /\ ReadyOnce'
    BY <1>1, <2>1, <2>3, PushAdds DEF TypeInv, PlaceInv, Once
  <2>5. UNCHANGED <<delayed, dlq, claimed, pc, held>>
    BY DEF PushReady, workerVars, drainVars
  <2>6. \A k \in Jobs \ {j} : Spots(k)' = Spots(k)
    BY <2>4, <2>5, StoresKept, WorkersKept, SpotsKept
  <2>7. Spots(j)' = {"ready"}
    BY <2>3, <2>4, <2>5, StoresKept, WorkersKept DEF Spots, Places
  <2>8. Once'
    BY <2>4, <2>5, StoresKept, WorkersKept DEF PlaceInv, Once
  <2> QED
    BY <2>6, <2>7, <2>8 DEF Move
<1>2. CASE "push" \in faults /\ UNCHANGED ready
  BY <1>2, NothingMoves DEF PushReady, workerVars, drainVars, PlaceInv
<1> QED
  BY <1>1, <1>2 DEF PushReady

\* BRPOP hands a job to a worker, or loses it with the reply.
LEMMA PopMoves ==
  ASSUME TypeInv, PlaceInv, NEW w \in Workers, Pop(w)
  PROVE  /\ Once'
         /\ \E h \in Envelope :
              /\ Spots(h.id) = {"ready"} /\ h.attempts < MaxRetries
              /\ \E k \in DOMAIN ready[Serves[w]] : ready[Serves[w]][k] = h
              /\ \/ /\ Goto(w, "idle", "popped") /\ held' = [held EXCEPT ![w] = {h}]
                    /\ Move(h.id, {"worker"})
                 \/ "reply" \in faults /\ UNCHANGED workerVars /\ Move(h.id, {})
<1>1. Serves[w] \in JobTypes
  BY WorkersAssumption
<1>2. PICK h : h = Head(ready[Serves[w]])
  OBVIOUS
<1>3. /\ h \in Envelope /\ InReady(h.id) /\ h.attempts < MaxRetries
      /\ h = ready[Serves[w]][1] /\ 1 \in DOMAIN ready[Serves[w]]
      /\ ~InReady(h.id)'
      /\ \A k \in Jobs \ {h.id} : InReady(k)' <=> InReady(k)
      /\ ReadyOnce'
  BY <1>1, <1>2, PopTakes DEF Pop, TypeInv, PlaceInv, Once
<1>4. h.id \in Jobs /\ Spots(h.id) = {"ready"}
  BY <1>3, SpotsDecided, OnlySpot DEF Envelope, PlaceInv
<1>5. ~InDelayed(h.id) /\ ~InDLQ(h.id) /\ ~InWorker(h.id) /\ ~InDrain(h.id)
  BY <1>4, SpotsDecided
<1>6. UNCHANGED <<delayed, dlq, claimed>>
  BY DEF Pop, drainVars
<1>7. CASE Goto(w, "idle", "popped") /\ held' = [held EXCEPT ![w] = {h}]
  <2>1. /\ InWorker(h.id)'
        /\ \A k \in Jobs \ {h.id} : InWorker(k)' <=> InWorker(k)
        /\ WorkerOnce'
    BY <1>3, <1>5, <1>7, WorkerTakes DEF TypeInv, PlaceInv, Once
  <2>2. \A k \in Jobs \ {h.id} : Spots(k)' = Spots(k)
    BY <1>3, <1>6, <2>1, StoresKept, SpotsKept
  <2>3. Spots(h.id)' = {"worker"}
    BY <1>3, <1>4, <1>5, <1>6, <2>1, StoresKept DEF Spots, Places
  <2>4. Once'
    BY <1>3, <1>6, <2>1, StoresKept DEF PlaceInv, Once
  <2> QED
    BY <1>3, <1>4, <1>7, <2>2, <2>3, <2>4 DEF Move
<1>8. CASE "reply" \in faults /\ UNCHANGED workerVars
  <2>1. \A k \in Jobs \ {h.id} : Spots(k)' = Spots(k)
    BY <1>3, <1>6, <1>8, StoresKept, WorkersKept, SpotsKept DEF workerVars
  <2>2. Spots(h.id)' = {}
    BY <1>3, <1>4, <1>5, <1>6, <1>8, StoresKept, WorkersKept DEF Spots, Places, workerVars
  <2>3. Once'
    BY <1>3, <1>6, <1>8, StoresKept, WorkersKept DEF PlaceInv, Once, workerVars
  <2> QED
    BY <1>3, <1>4, <1>8, <2>1, <2>2, <2>3 DEF Move
<1> QED
  BY <1>2, <1>7, <1>8 DEF Pop

\* While the handler runs and fails, the job stays in the worker's hand.
LEMMA RunningMoves ==
  ASSUME TypeInv, PlaceInv, NEW w \in Workers, MarkRunning(w)
  PROVE  Stay /\ Once'
<1>1. UNCHANGED <<ready, delayed, dlq, held, claimed>> /\ Goto(w, "popped", "handling")
  BY DEF MarkRunning, redisVars, drainVars
<1>2. (\A k \in Jobs : InWorker(k)' <=> InWorker(k)) /\ WorkerOnce'
  <2>1. \A v \in Workers : \A j \in Jobs : Holds(v, j)' <=> Holds(v, j)
    BY <1>1 DEF Holds
  <2>2. \A v \in Workers : \A e, f \in held'[v] : e = f
    BY <1>1 DEF PlaceInv, Once, WorkerOnce
  <2>3. "popped" \in Carrying /\ "handling" \in Carrying
    BY DEF Carrying
  <2> QED
    BY <1>1, <2>1, <2>2, <2>3, WorkerGoesOn DEF TypeInv, PlaceInv, Once
<1> QED
  BY <1>1, <1>2, StoresKept, ReadyKept, SpotsKept DEF Stay, PlaceInv, Once

LEMMA FailingMoves ==
  ASSUME TypeInv, PlaceInv, NEW w \in Workers, HandlerFails(w)
  PROVE  Stay /\ Once'
<1>1. UNCHANGED <<ready, delayed, dlq, claimed>> /\ Goto(w, "handling", "failing")
  BY DEF HandlerFails, redisVars, drainVars
<1>2. PICK e \in held[w] : held' = [held EXCEPT ![w] = {[e EXCEPT !.attempts = @ + 1]}]
  BY DEF HandlerFails
<1>3. (\A k \in Jobs : InWorker(k)' <=> InWorker(k)) /\ WorkerOnce'
  <2>1. e \in Envelope /\ [e EXCEPT !.attempts = @ + 1].id = e.id
    BY DEF TypeInv, HeldOK, Envelope
  <2>2. held'[w] = {[e EXCEPT !.attempts = @ + 1]} /\ \A v \in Workers \ {w} : held'[v] = held[v]
    BY <1>2 DEF TypeInv, HeldOK
  <2>3. \A j \in Jobs : Holds(w, j)' <=> Holds(w, j)
    <3>1. \A j \in Jobs : Holds(w, j) <=> j = e.id
      BY HoldsOne DEF PlaceInv, Once
    <3>2. \A j \in Jobs : Holds(w, j)' <=> j = e.id
      BY <2>1, <2>2 DEF Holds
    <3> QED
      BY <3>1, <3>2
  <2>4. \A v \in Workers : \A j \in Jobs : Holds(v, j)' <=> Holds(v, j)
    BY <2>2, <2>3 DEF Holds
  <2>5. \A v \in Workers : \A f, g \in held'[v] : f = g
    BY <2>2 DEF PlaceInv, Once, WorkerOnce
  <2>6. "handling" \in Carrying /\ "failing" \in Carrying
    BY DEF Carrying
  <2> QED
    BY <1>1, <2>4, <2>5, <2>6, WorkerGoesOn DEF TypeInv, PlaceInv, Once
<1> QED
  BY <1>1, <1>3, StoresKept, ReadyKept, SpotsKept DEF Stay, PlaceInv, Once

\* The last status write of a turn moves nothing: the job has been handed on.
LEMMA SettleMoves ==
  ASSUME TypeInv, PlaceInv, NEW w \in Workers, NEW from, from \notin Carrying, NEW status,
         Settle(w, from, status)
  PROVE  Stay /\ Once'
<1>1. /\ UNCHANGED <<ready, delayed, dlq, claimed>>
      /\ Goto(w, from, "idle") /\ held' = [held EXCEPT ![w] = {}]
  BY DEF Settle, redisVars, drainVars
<1>2. (\A k \in Jobs : InWorker(k)' <=> InWorker(k)) /\ WorkerOnce'
  BY <1>1, WorkerForgets DEF TypeInv, PlaceInv, Once
<1> QED
  BY <1>1, <1>2, StoresKept, ReadyKept, SpotsKept DEF Stay, PlaceInv, Once

\* A success takes the job out of the queue.
LEMMA SuccessMoves ==
  ASSUME TypeInv, PlaceInv, NEW w \in Workers, HandlerSucceeds(w), NEW e \in held[w]
  PROVE  /\ Once'
         /\ e \in Envelope /\ Spots(e.id) = {"worker"} /\ Move(e.id, {})
<1>1. /\ UNCHANGED <<ready, delayed, dlq, held, claimed>>
      /\ Goto(w, "handling", "succeeded")
  BY DEF HandlerSucceeds, redisVars, drainVars
<1>2. "handling" \in Carrying /\ "succeeded" \notin Carrying
  BY DEF Carrying
<1>3. /\ e \in Envelope /\ InWorker(e.id) /\ ~InWorker(e.id)'
      /\ \A k \in Jobs \ {e.id} : InWorker(k)' <=> InWorker(k)
      /\ WorkerOnce'
  BY <1>1, <1>2, WorkerHandsOn DEF TypeInv, PlaceInv, Once
<1>4. e.id \in Jobs /\ Spots(e.id) = {"worker"}
  BY <1>3, SpotsDecided, OnlySpot DEF Envelope, PlaceInv
<1>5. \A k \in Jobs \ {e.id} : Spots(k)' = Spots(k)
  BY <1>1, <1>3, StoresKept, ReadyKept, SpotsKept
<1>6. Spots(e.id)' = {}
  <2>1. ~InReady(e.id) /\ ~InDelayed(e.id) /\ ~InDLQ(e.id) /\ ~InDrain(e.id)
    BY <1>4, SpotsDecided
  <2> QED
    BY <1>1, <1>3, <1>4, <2>1, StoresKept, ReadyKept DEF Spots, Places
<1>7. Once'
  BY <1>1, <1>3, StoresKept, ReadyKept DEF PlaceInv, Once
<1> QED
  BY <1>3, <1>4, <1>5, <1>6, <1>7 DEF Move

\* A retry goes to the delayed set, unless the ZADD fails.
LEMMA RetryMoves ==
  ASSUME TypeInv, PlaceInv, NEW w \in Workers, ScheduleRetry(w), NEW e \in held[w]
  PROVE  /\ Once'
         /\ e \in Envelope /\ Spots(e.id) = {"worker"}
         /\ \/ delayed' = delayed \union {e} /\ Move(e.id, {"delayed"})
            \/ "zadd" \in faults /\ UNCHANGED delayed /\ Move(e.id, {})
<1>1. /\ UNCHANGED <<ready, dlq, held, claimed>>
      /\ Goto(w, "failing", "retrying")
  BY DEF ScheduleRetry, drainVars
<1>2. "failing" \in Carrying /\ "retrying" \notin Carrying
  BY DEF Carrying
<1>3. /\ e \in Envelope /\ InWorker(e.id) /\ ~InWorker(e.id)'
      /\ \A k \in Jobs \ {e.id} : InWorker(k)' <=> InWorker(k)
      /\ WorkerOnce'
  BY <1>1, <1>2, WorkerHandsOn DEF TypeInv, PlaceInv, Once
<1>4. e.id \in Jobs /\ Spots(e.id) = {"worker"}
  BY <1>3, SpotsDecided, OnlySpot DEF Envelope, PlaceInv
<1>5. ~InReady(e.id) /\ ~InDelayed(e.id) /\ ~InDLQ(e.id) /\ ~InDrain(e.id)
  BY <1>4, SpotsDecided
<1>6. /\ \A k \in Jobs : (InDLQ(k)' <=> InDLQ(k)) /\ (InDrain(k)' <=> InDrain(k))
      /\ BuriedOnce' /\ DrainOnce'
  BY <1>1 DEF InDLQ, InDrain, BuriedOnce, DrainOnce, PlaceInv, Once
<1>7. CASE delayed' = delayed \union {e}
  <2>1. InDelayed(e.id)' /\ \A k \in Jobs \ {e.id} : InDelayed(k)' <=> InDelayed(k)
    BY <1>7 DEF InDelayed
  <2>2. DelayedOnce'
    BY <1>5, <1>7 DEF InDelayed, DelayedOnce, PlaceInv, Once
  <2>3. \A k \in Jobs \ {e.id} : Spots(k)' = Spots(k)
    BY <1>1, <1>3, <1>6, <2>1, ReadyKept, SpotsKept
  <2>4. Spots(e.id)' = {"delayed"}
    BY <1>1, <1>3, <1>4, <1>5, <1>6, <2>1, ReadyKept DEF Spots, Places
  <2>5. Once'
    BY <1>1, <1>3, <1>6, <2>2, ReadyKept DEF PlaceInv, Once
  <2> QED
    BY <1>3, <1>4, <1>7, <2>3, <2>4, <2>5 DEF Move
<1>8. CASE "zadd" \in faults /\ UNCHANGED delayed
  <2>1. DelayedOnce' /\ \A k \in Jobs : InDelayed(k)' <=> InDelayed(k)
    BY <1>8 DEF InDelayed, DelayedOnce, PlaceInv, Once
  <2>2. \A k \in Jobs \ {e.id} : Spots(k)' = Spots(k)
    BY <1>1, <1>3, <1>6, <2>1, ReadyKept, SpotsKept
  <2>3. Spots(e.id)' = {}
    BY <1>1, <1>3, <1>4, <1>5, <1>6, <2>1, ReadyKept DEF Spots, Places
  <2>4. Once'
    BY <1>1, <1>3, <1>6, <2>1, ReadyKept DEF PlaceInv, Once
  <2> QED
    BY <1>3, <1>4, <1>8, <2>2, <2>3, <2>4 DEF Move
<1>9. delayed' = delayed \union {e} \/ ("zadd" \in faults /\ UNCHANGED delayed)
  BY DEF ScheduleRetry, PlaceInv, Once, WorkerOnce
<1> QED
  BY <1>7, <1>8, <1>9

\* An exhausted job goes to the dead-letter list, unless the LPUSH fails.
LEMMA BuryMoves ==
  ASSUME TypeInv, PlaceInv, NEW w \in Workers, PushDLQ(w), NEW e \in held[w]
  PROVE  /\ Once'
         /\ e \in Envelope /\ Spots(e.id) = {"worker"}
         /\ \/ dlq' = dlq \union {e} /\ Move(e.id, {"dlq"})
            \/ "dlq" \in faults /\ UNCHANGED dlq /\ Move(e.id, {})
<1>1. /\ UNCHANGED <<ready, delayed, held, claimed>>
      /\ Goto(w, "failing", "dead")
  BY DEF PushDLQ, drainVars
<1>2. "failing" \in Carrying /\ "dead" \notin Carrying
  BY DEF Carrying
<1>3. /\ e \in Envelope /\ InWorker(e.id) /\ ~InWorker(e.id)'
      /\ \A k \in Jobs \ {e.id} : InWorker(k)' <=> InWorker(k)
      /\ WorkerOnce'
  BY <1>1, <1>2, WorkerHandsOn DEF TypeInv, PlaceInv, Once
<1>4. e.id \in Jobs /\ Spots(e.id) = {"worker"}
  BY <1>3, SpotsDecided, OnlySpot DEF Envelope, PlaceInv
<1>5. ~InReady(e.id) /\ ~InDelayed(e.id) /\ ~InDLQ(e.id) /\ ~InDrain(e.id)
  BY <1>4, SpotsDecided
<1>6. /\ \A k \in Jobs : (InDelayed(k)' <=> InDelayed(k)) /\ (InDrain(k)' <=> InDrain(k))
      /\ DelayedOnce' /\ DrainOnce'
  BY <1>1 DEF InDelayed, InDrain, DelayedOnce, DrainOnce, PlaceInv, Once
<1>7. CASE dlq' = dlq \union {e}
  <2>1. InDLQ(e.id)' /\ \A k \in Jobs \ {e.id} : InDLQ(k)' <=> InDLQ(k)
    BY <1>7 DEF InDLQ
  <2>2. BuriedOnce'
    BY <1>5, <1>7 DEF InDLQ, BuriedOnce, PlaceInv, Once
  <2>3. \A k \in Jobs \ {e.id} : Spots(k)' = Spots(k)
    BY <1>1, <1>3, <1>6, <2>1, ReadyKept, SpotsKept
  <2>4. Spots(e.id)' = {"dlq"}
    BY <1>1, <1>3, <1>4, <1>5, <1>6, <2>1, ReadyKept DEF Spots, Places
  <2>5. Once'
    BY <1>1, <1>3, <1>6, <2>2, ReadyKept DEF PlaceInv, Once
  <2> QED
    BY <1>3, <1>4, <1>7, <2>3, <2>4, <2>5 DEF Move
<1>8. CASE "dlq" \in faults /\ UNCHANGED dlq
  <2>1. BuriedOnce' /\ \A k \in Jobs : InDLQ(k)' <=> InDLQ(k)
    BY <1>8 DEF InDLQ, BuriedOnce, PlaceInv, Once
  <2>2. \A k \in Jobs \ {e.id} : Spots(k)' = Spots(k)
    BY <1>1, <1>3, <1>6, <2>1, ReadyKept, SpotsKept
  <2>3. Spots(e.id)' = {}
    BY <1>1, <1>3, <1>4, <1>5, <1>6, <2>1, ReadyKept DEF Spots, Places
  <2>4. Once'
    BY <1>1, <1>3, <1>6, <2>1, ReadyKept DEF PlaceInv, Once
  <2> QED
    BY <1>3, <1>4, <1>8, <2>2, <2>3, <2>4 DEF Move
<1>9. dlq' = dlq \union {e} \/ ("dlq" \in faults /\ UNCHANGED dlq)
  BY DEF PushDLQ, PlaceInv, Once, WorkerOnce
<1> QED
  BY <1>7, <1>8, <1>9

\* ZREM moves a delayed job to one scheduler, or loses it with the reply; the
\* scheduler that comes second changes nothing.
LEMMA ClaimMoves ==
  ASSUME TypeInv, PlaceInv, NEW i \in Instances, DrainClaim(i)
  PROVE  /\ Once'
         /\ \/ Stay /\ UNCHANGED <<delayed, claimed>>
            \/ \E e \in delayed :
                 /\ Spots(e.id) = {"delayed"} /\ delayed' = delayed \ {e}
                 /\ \/ claimed' = [claimed EXCEPT ![i] = {e}] /\ Move(e.id, {"drain"})
                    \/ "reply" \in faults /\ UNCHANGED claimed /\ Move(e.id, {})
<1>1. PICK e \in todo[i] :
        /\ claimed[i] = {}
        /\ delayed' = delayed \ {e}
        /\ \/ e \in delayed /\ claimed' = [claimed EXCEPT ![i] = {e}]
           \/ (e \notin delayed \/ "reply" \in faults) /\ UNCHANGED claimed
        /\ UNCHANGED <<ready, dlq, pc, held>>
  BY DEF DrainClaim, workerVars
<1>2. CASE e \notin delayed
  <2>1. UNCHANGED <<ready, delayed, dlq, pc, held, claimed>>
    BY <1>1, <1>2
  <2> QED
    BY <2>1, NothingMoves DEF PlaceInv
<1>3. CASE e \in delayed
  <2>1. /\ e.id \in Jobs /\ InDelayed(e.id)
        /\ \A f \in delayed : f.id = e.id => f = e
    BY <1>3 DEF TypeInv, DelayedOK, Envelope, InDelayed, PlaceInv, Once, DelayedOnce
  <2>2. Spots(e.id) = {"delayed"}
    BY <2>1, SpotsDecided, OnlySpot DEF PlaceInv
  <2>3. ~InReady(e.id) /\ ~InDLQ(e.id) /\ ~InWorker(e.id) /\ ~InDrain(e.id)
    BY <2>1, <2>2, SpotsDecided
  <2>4. ~InDelayed(e.id)' /\ \A k \in Jobs \ {e.id} : InDelayed(k)' <=> InDelayed(k)
    BY <1>1, <2>1 DEF InDelayed
  <2>5. /\ \A k \in Jobs : InDLQ(k)' <=> InDLQ(k)
        /\ BuriedOnce' /\ DelayedOnce'
    BY <1>1 DEF InDLQ, BuriedOnce, DelayedOnce, PlaceInv, Once
  <2>6. CASE claimed' = [claimed EXCEPT ![i] = {e}]
    <3>1. claimed'[i] = {e} /\ \A h \in Instances \ {i} : claimed'[h] = claimed[h]
      BY <2>6 DEF TypeInv, DrainOK
    <3>2. InDrain(e.id)' /\ \A k \in Jobs \ {e.id} : InDrain(k)' <=> InDrain(k)
      BY <1>1, <3>1 DEF InDrain
    <3>3. DrainOnce'
      BY <2>3, <3>1 DEF InDrain, DrainOnce, PlaceInv, Once
    <3>4. \A k \in Jobs \ {e.id} : Spots(k)' = Spots(k)
      BY <1>1, <2>4, <2>5, <3>2, ReadyKept, WorkersKept, SpotsKept
    <3>5. Spots(e.id)' = {"drain"}
      BY <1>1, <2>1, <2>3, <2>4, <2>5, <3>2, ReadyKept, WorkersKept DEF Spots, Places
    <3>6. Once'
      BY <1>1, <2>5, <3>3, ReadyKept, WorkersKept DEF PlaceInv, Once
    <3> QED
      BY <1>1, <1>3, <2>2, <2>6, <3>4, <3>5, <3>6 DEF Move
  <2>7. CASE "reply" \in faults /\ UNCHANGED claimed
    <3>1. DrainOnce' /\ \A k \in Jobs : InDrain(k)' <=> InDrain(k)
      BY <2>7 DEF InDrain, DrainOnce, PlaceInv, Once
    <3>2. \A k \in Jobs \ {e.id} : Spots(k)' = Spots(k)
      BY <1>1, <2>4, <2>5, <3>1, ReadyKept, WorkersKept, SpotsKept
    <3>3. Spots(e.id)' = {}
      BY <1>1, <2>1, <2>3, <2>4, <2>5, <3>1, ReadyKept, WorkersKept DEF Spots, Places
    <3>4. Once'
      BY <1>1, <2>5, <3>1, ReadyKept, WorkersKept DEF PlaceInv, Once
    <3> QED
      BY <1>1, <1>3, <2>2, <2>7, <3>2, <3>3, <3>4 DEF Move
  <2> QED
    BY <1>1, <1>3, <2>6, <2>7
<1> QED
  BY <1>2, <1>3

\* The scheduler's push brings its job back to the ready list, unless it fails.
LEMMA DrainMoves ==
  ASSUME TypeInv, PlaceInv, NEW i \in Instances, DrainPush(i)
  PROVE  /\ Once'
         /\ \E e \in claimed[i] :
              /\ Spots(e.id) = {"drain"}
              /\ claimed' = [claimed EXCEPT ![i] = {}]
              /\ \/ LPush(e) /\ Move(e.id, {"ready"})
                 \/ "push" \in faults /\ UNCHANGED ready /\ Move(e.id, {})
<1>1. PICK e \in claimed[i] :
        /\ claimed' = [claimed EXCEPT ![i] = {}]
        /\ LPush(e) \/ ("push" \in faults /\ UNCHANGED ready)
        /\ UNCHANGED <<delayed, dlq, pc, held>>
  BY DEF DrainPush, workerVars
<1>2. e \in Envelope /\ e.id \in Jobs /\ InDrain(e.id)
  BY DEF TypeInv, DrainOK, Envelope, InDrain
<1>3. Spots(e.id) = {"drain"}
  BY <1>2, SpotsDecided, OnlySpot DEF PlaceInv
<1>4. ~InReady(e.id) /\ ~InDelayed(e.id) /\ ~InDLQ(e.id) /\ ~InWorker(e.id)
  BY <1>2, <1>3, SpotsDecided
<1>5. claimed'[i] = {} /\ \A h \in Instances \ {i} : claimed'[h] = claimed[h]
  BY <1>1 DEF TypeInv, DrainOK
<1>6. DrainOnce'
  BY <1>5 DEF DrainOnce, PlaceInv, Once
<1>7. \A f \in claimed[i] : f = e
  BY DEF PlaceInv, Once, DrainOnce
<1>8. ~InDrain(e.id)'
  BY <1>5 DEF InDrain, PlaceInv, Once, DrainOnce
<1>9. \A k \in Jobs \ {e.id} : InDrain(k)' <=> InDrain(k)
  BY <1>5, <1>7 DEF InDrain
<1>10. /\ \A k \in Jobs : (InDelayed(k)' <=> InDelayed(k)) /\ (InDLQ(k)' <=> InDLQ(k))
       /\ DelayedOnce' /\ BuriedOnce'
  BY <1>1 DEF InDelayed, InDLQ, DelayedOnce, BuriedOnce, PlaceInv, Once
<1>11. CASE LPush(e)
  <2>1. /\ InReady(e.id)'
        /\ \A k \in Jobs \ {e.id} : InReady(k)' <=> InReady(k)
        /\ ReadyOnce'
    BY <1>2, <1>4, <1>11, PushAdds DEF TypeInv, PlaceInv, Once
  <2>2. \A k \in Jobs \ {e.id} : Spots(k)' = Spots(k)
    BY <1>1, <1>9, <1>10, <2>1, WorkersKept, SpotsKept
  <2>3. Spots(e.id)' = {"ready"}
    BY <1>1, <1>2, <1>4, <1>8, <1>10, <2>1, WorkersKept DEF Spots, Places
  <2>4. Once'
    BY <1>1, <1>6, <1>10, <2>1, WorkersKept DEF PlaceInv, Once
  <2> QED
    BY <1>1, <1>3, <1>11, <2>2, <2>3, <2>4 DEF Move
<1>12. CASE "push" \in faults /\ UNCHANGED ready
  <2>1. \A k \in Jobs \ {e.id} : Spots(k)' = Spots(k)
    BY <1>1, <1>9, <1>10, <1>12, ReadyKept, WorkersKept, SpotsKept
  <2>2. Spots(e.id)' = {}
    BY <1>1, <1>2, <1>4, <1>8, <1>10, <1>12, ReadyKept, WorkersKept DEF Spots, Places
  <2>3. Once'
    BY <1>1, <1>6, <1>10, <1>12, ReadyKept, WorkersKept DEF PlaceInv, Once
  <2> QED
    BY <1>1, <1>3, <1>12, <2>1, <2>2, <2>3 DEF Move
<1> QED
  BY <1>1, <1>11, <1>12

\* A crash only takes copies away.
LEMMA CrashMoves ==
  ASSUME TypeInv, PlaceInv, NEW i \in Instances, Crash(i)
  PROVE  Once' /\ \A k \in Jobs : Spots(k)' \subseteq Spots(k)
<1>1. UNCHANGED <<ready, delayed, dlq>>
  BY DEF Crash, redisVars
<1>2. /\ \A v \in Workers : (pc'[v] = "idle" /\ held'[v] = {}) \/ (pc'[v] = pc[v] /\ held'[v] = held[v])
      /\ \A h \in Instances : claimed'[h] = {} \/ claimed'[h] = claimed[h]
  BY DEF Crash, TypeInv, DrainOK
<1>3. (\A k \in Jobs : InWorker(k)' => InWorker(k)) /\ WorkerOnce'
  BY <1>2 DEF InWorker, WorkerOnce, Holds, Carrying, PlaceInv, Once
<1>4. (\A k \in Jobs : InDrain(k)' => InDrain(k)) /\ DrainOnce'
  BY <1>2 DEF InDrain, DrainOnce, PlaceInv, Once
<1>5. /\ \A k \in Jobs : (InDelayed(k)' <=> InDelayed(k)) /\ (InDLQ(k)' <=> InDLQ(k))
      /\ DelayedOnce' /\ BuriedOnce'
  BY <1>1 DEF InDelayed, InDLQ, DelayedOnce, BuriedOnce, PlaceInv, Once
<1>6. Once'
  BY <1>1, <1>3, <1>4, <1>5, ReadyKept DEF PlaceInv, Once
<1>7. \A k \in Jobs : Spots(k)' \subseteq Spots(k)
  BY <1>1, <1>3, <1>4, <1>5, ReadyKept DEF Spots
<1> QED
  BY <1>6, <1>7

-----------------------------------------------------------------------------
(* One copy.                                                               *)

LEMMA PlaceInvInit == Init => PlaceInv
<1> SUFFICES ASSUME Init PROVE PlaceInv
  OBVIOUS
<1>1. \A j \in Jobs : Spots(j) = {}
  BY TypeOfAssumption DEF Init, Spots, InReady, InDelayed, InDLQ, InWorker, InDrain, Holds
<1>2. Once
  BY DEF Init, Once, ReadyOnce, DelayedOnce, BuriedOnce, WorkerOnce, DrainOnce, Holds
<1>3. Apart
  BY <1>1 DEF Init, Apart, Unpushed
<1> QED
  BY <1>2, <1>3 DEF PlaceInv

\* A job that moves has been pushed, and goes to one place or to none.
LEMMA MoveKeepsApart ==
  ASSUME Apart, NEW j \in Jobs, NEW S, Move(j, S), \A p, q \in S : p = q,
         j \in done' => S = {}, ~Unpushed(j)',
         \A k \in Jobs \ {j} :
           /\ k \in done' <=> k \in done
           /\ Unpushed(k)' => Unpushed(k)
           /\ runs'[k] = runs[k]
  PROVE  Apart'
<1>1. Spots(j)' = S /\ \A k \in Jobs \ {j} : Spots(k)' = Spots(k)
  BY DEF Move
<1> QED
  BY <1>1 DEF Apart

\* A step that moves nothing, or only takes copies away.
LEMMA FewerKeepApart ==
  ASSUME Apart, \A k \in Jobs : /\ Spots(k)' \subseteq Spots(k)
                                /\ k \in done' <=> k \in done
                                /\ Unpushed(k)' => Unpushed(k) /\ runs'[k] = runs[k]
  PROVE  Apart'
  BY DEF Apart

\* One step of the queue keeps every job in one place.
LEMMA PlaceInvNext == TypeInv /\ PlaceInv /\ [Next]_vars => PlaceInv'
<1> SUFFICES ASSUME TypeInv, PlaceInv, [Next]_vars PROVE PlaceInv'
  OBVIOUS
<1> USE DEF redisVars, workerVars, drainVars, history
<1>a. Apart /\ Once
  BY DEF PlaceInv
<1>b. tx \in [Jobs -> TxStates] /\ runs \in [Jobs -> Nat] /\ done \subseteq Jobs
  BY DEF TypeInv, RowsOK
<1>c. ASSUME NEW j \in Jobs, NEW p, Spots(j) = {p} PROVE j \notin done /\ ~Unpushed(j)
  BY <1>a, <1>c DEF Apart
<1>1. ASSUME NEW j \in Jobs, InsertJob(j) \/ Commit(j) \/ Rollback(j) PROVE PlaceInv'
  <2>1. Stay /\ Once'
    BY <1>a, <1>1, NothingMoves DEF InsertJob, Commit, Rollback
  <2>2. \A k \in Jobs : Unpushed(k)' => Unpushed(k)
    BY <1>b, <1>1 DEF InsertJob, Commit, Rollback, Unpushed
  <2>3. UNCHANGED <<runs, done>>
    BY <1>1 DEF InsertJob, Commit, Rollback
  <2> QED
    BY <1>a, <2>1, <2>2, <2>3, FewerKeepApart DEF Stay, PlaceInv
<1>2. ASSUME NEW j \in Jobs, PushReady(j) PROVE PlaceInv'
  <2>1. Once' /\ (Move(j, {"ready"}) \/ Stay)
    BY <1>2, PushMoves
  <2>2. /\ UNCHANGED <<runs, done>> /\ ~Unpushed(j)' /\ j \notin done
        /\ \A k \in Jobs : Unpushed(k)' => Unpushed(k)
    BY <1>a, <1>b, <1>2 DEF PushReady, Unpushed, Apart
  <2>3. CASE Move(j, {"ready"})
    BY <1>a, <2>1, <2>2, <2>3, MoveKeepsApart DEF PlaceInv
  <2>4. CASE Stay
    BY <1>a, <2>1, <2>2, <2>4, FewerKeepApart DEF Stay, PlaceInv
  <2> QED
    BY <2>1, <2>3, <2>4
<1>3. ASSUME NEW w \in Workers, Pop(w) PROVE PlaceInv'
  <2>1. UNCHANGED <<tx, runs, done>>
    BY <1>3 DEF Pop
  <2>2. Once' /\ \E h \in Envelope : Spots(h.id) = {"ready"} /\
          (Move(h.id, {"worker"}) \/ Move(h.id, {}))
    BY <1>3, PopMoves
  <2>3. PICK h \in Envelope : Spots(h.id) = {"ready"} /\ (Move(h.id, {"worker"}) \/ Move(h.id, {}))
    BY <2>2
  <2>4. h.id \in Jobs /\ h.id \notin done /\ ~Unpushed(h.id)
    BY <1>c, <2>3 DEF Envelope
  <2> QED
    BY <1>a, <2>1, <2>2, <2>3, <2>4, MoveKeepsApart DEF PlaceInv, Unpushed
<1>4. ASSUME NEW w \in Workers, MarkRunning(w) PROVE PlaceInv'
  <2>1. Stay /\ Once'
    BY <1>4, RunningMoves
  <2>2. PICK e \in held[w] : runs' = [runs EXCEPT ![e.id] = @ + 1]
    BY <1>4 DEF MarkRunning
  <2>3. UNCHANGED <<tx, done>> /\ pc[w] \in Carrying
    BY <1>4 DEF MarkRunning, Goto, Carrying
  <2>4. e.id \in Jobs /\ InWorker(e.id)
    BY <2>3 DEF TypeInv, HeldOK, Envelope, InWorker, Holds
  <2>5. ~Unpushed(e.id)
    BY <1>a, <2>4, SpotsDecided DEF Apart
  <2>6. \A k \in Jobs : Unpushed(k)' => Unpushed(k) /\ runs'[k] = runs[k]
    BY <1>b, <2>2, <2>3, <2>5 DEF Unpushed
  <2> QED
    BY <1>a, <2>1, <2>3, <2>6, FewerKeepApart DEF Stay, PlaceInv
<1>5. ASSUME NEW w \in Workers, HandlerSucceeds(w) PROVE PlaceInv'
  <2>1. PICK e \in held[w] : done' = done \union {e.id} /\ UNCHANGED <<tx, runs>>
    BY <1>5 DEF HandlerSucceeds
  <2>2. Once' /\ e \in Envelope /\ Spots(e.id) = {"worker"} /\ Move(e.id, {})
    BY <1>5, SuccessMoves
  <2>3. e.id \in Jobs /\ ~Unpushed(e.id)
    BY <1>c, <2>2 DEF Envelope
  <2> QED
    BY <1>a, <2>1, <2>2, <2>3, MoveKeepsApart DEF PlaceInv, Unpushed
<1>6. ASSUME NEW w \in Workers, HandlerFails(w) PROVE PlaceInv'
  <2>1. UNCHANGED <<tx, runs, done>> /\ Stay /\ Once'
    BY <1>6, FailingMoves DEF HandlerFails
  <2> QED
    BY <1>a, <2>1, FewerKeepApart DEF Stay, PlaceInv, Unpushed
<1>7. ASSUME NEW w \in Workers, ScheduleRetry(w) \/ PushDLQ(w) PROVE PlaceInv'
  <2>1. UNCHANGED <<tx, runs, done>> /\ \E e \in held[w] : TRUE
    BY <1>7 DEF ScheduleRetry, PushDLQ
  <2>2. PICK e \in held[w] : TRUE
    BY <2>1
  <2>3. /\ Once' /\ e \in Envelope /\ Spots(e.id) = {"worker"}
        /\ \/ Move(e.id, {"delayed"})
           \/ Move(e.id, {"dlq"})
           \/ Move(e.id, {})
    BY <1>7, RetryMoves, BuryMoves
  <2>4. e.id \in Jobs /\ e.id \notin done /\ ~Unpushed(e.id)
    BY <1>c, <2>3 DEF Envelope
  <2> QED
    BY <1>a, <2>1, <2>3, <2>4, MoveKeepsApart DEF PlaceInv, Unpushed
<1>8. ASSUME NEW w \in Workers, MarkCompleted(w) \/ MarkPending(w) \/ MarkFailed(w) PROVE PlaceInv'
  <2>1. UNCHANGED <<tx, runs, done>>
    BY <1>8 DEF MarkCompleted, MarkPending, MarkFailed, Settle
  <2>2. {"succeeded", "retrying", "dead"} \intersect Carrying = {}
    BY DEF Carrying
  <2>3. Stay /\ Once'
    BY <1>8, <2>2, SettleMoves DEF MarkCompleted, MarkPending, MarkFailed
  <2> QED
    BY <1>a, <2>1, <2>3, FewerKeepApart DEF Stay, PlaceInv, Unpushed
<1>9. ASSUME (\E e \in Envelope : BackoffElapses(e)) \/ (\E i \in Instances : DrainSnapshot(i))
      PROVE  PlaceInv'
  <2>1. UNCHANGED <<tx, runs, done, ready, delayed, dlq, pc, held, claimed>>
    BY <1>9 DEF BackoffElapses, DrainSnapshot
  <2> QED
    BY <1>a, <2>1, NothingMoves, FewerKeepApart DEF Stay, PlaceInv, Unpushed
<1>10. ASSUME NEW i \in Instances, DrainClaim(i) PROVE PlaceInv'
  <2>1. UNCHANGED <<tx, runs, done>>
    BY <1>10 DEF DrainClaim
  <2>2. CASE Stay /\ Once'
    BY <1>a, <2>1, <2>2, FewerKeepApart DEF Stay, PlaceInv, Unpushed
  <2>3. ASSUME NEW e \in delayed, Spots(e.id) = {"delayed"}, Once',
               Move(e.id, {"drain"}) \/ Move(e.id, {})
        PROVE  PlaceInv'
    <3>1. e.id \in Jobs /\ e.id \notin done /\ ~Unpushed(e.id)
      BY <1>c, <2>3 DEF TypeInv, DelayedOK, Envelope
    <3> QED
      BY <1>a, <2>1, <2>3, <3>1, MoveKeepsApart DEF PlaceInv, Unpushed
  <2> QED
    BY <1>10, <2>2, <2>3, ClaimMoves
<1>11. ASSUME NEW i \in Instances, DrainPush(i) PROVE PlaceInv'
  <2>1. UNCHANGED <<tx, runs, done>>
    BY <1>11 DEF DrainPush
  <2>2. PICK e \in claimed[i] :
          Spots(e.id) = {"drain"} /\ Once' /\ (Move(e.id, {"ready"}) \/ Move(e.id, {}))
    BY <1>11, DrainMoves
  <2>3. e.id \in Jobs /\ e.id \notin done /\ ~Unpushed(e.id)
    BY <1>c, <2>2 DEF TypeInv, DrainOK, Envelope
  <2> QED
    BY <1>a, <2>1, <2>2, <2>3, MoveKeepsApart DEF PlaceInv, Unpushed
<1>12. ASSUME NEW i \in Instances, Crash(i) PROVE PlaceInv'
  <2>1. UNCHANGED <<tx, runs, done>>
    BY <1>12 DEF Crash
  <2> QED
    BY <1>a, <1>12, <2>1, CrashMoves, FewerKeepApart DEF PlaceInv, Unpushed
<1>13. CASE UNCHANGED vars
  <2>1. UNCHANGED <<tx, runs, done, ready, delayed, dlq, pc, held, claimed>>
    BY <1>13 DEF vars
  <2> QED
    BY <1>a, <2>1, NothingMoves, FewerKeepApart DEF Stay, PlaceInv, Unpushed
<1> QED
  BY <1>1, <1>2, <1>3, <1>4, <1>5, <1>6, <1>7, <1>8, <1>9, <1>10, <1>11, <1>12, <1>13
  DEF Next, Producer, WorkerStep, SchedulerStep

\* One place, once: one copy.
LEMMA PlaceInvImplies == TypeInv /\ PlaceInv => OneCopy
<1> SUFFICES ASSUME TypeInv, PlaceInv, NEW j \in Jobs
             PROVE  Cardinality(Copies(j)) <= 1 /\ (j \in done => Copies(j) = {})
  BY DEF OneCopy
<1> DEFINE queue == ready[TypeOf[j]]
<1>1. TypeOf[j] \in JobTypes
  BY TypeOfAssumption
<1>2. ASSUME NEW c \in Copies(j)
      PROVE  \/ /\ InReady(j)
                /\ \E k \in DOMAIN queue : queue[k].id = j /\ c = <<"ready", k>>
             \/ InDelayed(j) /\ \E e \in delayed : e.id = j /\ c = <<"delayed", e.attempts>>
             \/ InDLQ(j) /\ \E e \in dlq : e.id = j /\ c = <<"dlq", e.attempts>>
             \/ InWorker(j) /\ \E w \in Workers : pc[w] \in Carrying /\ Holds(w, j) /\ c = <<"worker", w>>
             \/ /\ InDrain(j)
                /\ \E i \in Instances : (\E e \in claimed[i] : e.id = j) /\ c = <<"drain", i>>
  BY DEF Copies, InReady, InDelayed, InDLQ, InWorker, InDrain
<1>3. ASSUME NEW c \in Copies(j), NEW d \in Copies(j) PROVE c = d
  <2>1. \A p, q \in Spots(j) : p = q
    BY DEF PlaceInv, Apart
  <2>2. \/ InReady(j) /\ ~InDelayed(j) /\ ~InDLQ(j) /\ ~InWorker(j) /\ ~InDrain(j)
        \/ ~InReady(j) /\ InDelayed(j) /\ ~InDLQ(j) /\ ~InWorker(j) /\ ~InDrain(j)
        \/ ~InReady(j) /\ ~InDelayed(j) /\ InDLQ(j) /\ ~InWorker(j) /\ ~InDrain(j)
        \/ ~InReady(j) /\ ~InDelayed(j) /\ ~InDLQ(j) /\ InWorker(j) /\ ~InDrain(j)
        \/ ~InReady(j) /\ ~InDelayed(j) /\ ~InDLQ(j) /\ ~InWorker(j) /\ InDrain(j)
    BY <1>2, <2>1, SpotsDecided
  <2>3. \A k, l \in DOMAIN queue : queue[k].id = j /\ queue[l].id = j => k = l
    BY <1>1 DEF PlaceInv, Once, ReadyOnce
  <2>4. \A e, f \in delayed : e.id = j /\ f.id = j => e = f
    BY DEF PlaceInv, Once, DelayedOnce
  <2>5. \A e, f \in dlq : e.id = j /\ f.id = j => e = f
    BY DEF PlaceInv, Once, BuriedOnce
  <2>6. \A w, v \in Workers :
          pc[w] \in Carrying /\ pc[v] \in Carrying /\ Holds(w, j) /\ Holds(v, j) => w = v
    BY DEF PlaceInv, Once, WorkerOnce
  <2>7. \A i, h \in Instances :
          (\E e \in claimed[i] : e.id = j) /\ (\E e \in claimed[h] : e.id = j) => i = h
    BY DEF PlaceInv, Once, DrainOnce
  <2> HIDE DEF queue
  <2>8. CASE InReady(j)
    BY <1>2, <2>2, <2>3, <2>8
  <2>9. CASE InDelayed(j)
    BY <1>2, <2>2, <2>4, <2>9
  <2>10. CASE InDLQ(j)
    BY <1>2, <2>2, <2>5, <2>10
  <2>11. CASE InWorker(j)
    BY <1>2, <2>2, <2>6, <2>11
  <2>12. CASE InDrain(j)
    BY <1>2, <2>2, <2>7, <2>12
  <2> QED
    BY <2>2, <2>8, <2>9, <2>10, <2>11, <2>12
<1>4. Cardinality(Copies(j)) <= 1
  <2>1. CASE Copies(j) = {}
    BY <2>1, FS_EmptySet
  <2>2. CASE Copies(j) # {}
    <3>1. PICK c \in Copies(j) : TRUE
      BY <2>2
    <3>2. Copies(j) = {c}
      BY <1>3, <3>1
    <3>3. Cardinality(Copies(j)) = 1
      BY <3>2, FS_Singleton, Zenon
    <3> QED
      BY <3>3
  <2> QED
    BY <2>1, <2>2
<1>5. ASSUME j \in done PROVE Copies(j) = {}
  <2>1. Spots(j) = {}
    BY <1>5 DEF PlaceInv, Apart
  <2>2. ~InReady(j) /\ ~InDelayed(j) /\ ~InDLQ(j) /\ ~InWorker(j) /\ ~InDrain(j)
    BY <2>1, SpotsDecided
  <2> QED
    BY <1>2, <2>2
<1> QED
  BY <1>4, <1>5

\* BRPOP, ZADD, ZREM and LPUSH only move a job, whatever fails and however many
\* workers and schedulers there are: no job is ever in two places.
THEOREM AlwaysOneCopy == Spec => []OneCopy
<1>1. Init => TypeInv /\ PlaceInv
  BY TypeInvInit, PlaceInvInit
<1>2. (TypeInv /\ PlaceInv) /\ [Next]_vars => (TypeInv /\ PlaceInv)'
  BY TypeInvNext, PlaceInvNext
<1>3. TypeInv /\ PlaceInv => OneCopy
  BY PlaceInvImplies
<1> QED
  BY <1>1, <1>2, <1>3, PTL DEF Spec

-----------------------------------------------------------------------------
(* Attempts.                                                               *)

\* The attempts of each copy against the runs of its job: one behind while the
\* handler runs, and for ever once it has succeeded.
ReadyCount ==
  \A t \in JobTypes : \A k \in DOMAIN ready[t] : ready[t][k].attempts = runs[ready[t][k].id]
DelayedCount == \A e \in delayed : e.attempts = runs[e.id] /\ e.attempts >= 1
DrainCount == \A i \in Instances : \A e \in claimed[i] : e.attempts = runs[e.id]
BuriedCount == \A e \in dlq : e.attempts = MaxRetries /\ runs[e.id] = MaxRetries
HeldCount ==
  \A w \in Workers : \A e \in held[w] :
    /\ pc[w] \in {"popped", "failing", "dead"} => e.attempts = runs[e.id]
    /\ pc[w] \in {"handling", "succeeded"} => e.attempts + 1 = runs[e.id]
    /\ pc[w] = "failing" => e.attempts >= 1
    /\ pc[w] = "succeeded" => e.id \in done
    /\ pc[w] = "dead" => e.attempts = MaxRetries
RunsBounded == \A j \in Jobs : runs[j] <= MaxRetries

CountInv ==
  ReadyCount /\ DelayedCount /\ DrainCount /\ BuriedCount /\ HeldCount /\ RunsBounded

LEMMA CountInvInit == Init => CountInv
  BY MaxRetriesAssumption
  DEF Init, CountInv, ReadyCount, DelayedCount, DrainCount, BuriedCount, HeldCount, RunsBounded

LEMMA CountInvImplies == TypeInv /\ CountInv => AttemptsCountRuns
  BY MaxRetriesAssumption
  DEF AttemptsCountRuns, CountInv, ReadyCount, DelayedCount, BuriedCount, HeldCount, RunsBounded,
      TypeInv, DelayedOK, Envelope

\* An LPUSH of an envelope that counts, and any BRPOP, keep the lists counting.
LEMMA PushKeepsCount ==
  ASSUME ReadyOK(ready), ReadyCount, NEW e \in Envelope, LPush(e), e.attempts = runs[e.id],
         UNCHANGED runs
  PROVE  ReadyCount'
<1> DEFINE T == TypeOf[e.id]
<1>1. e.id \in Jobs /\ T \in JobTypes /\ ready[T] \in Seq(Envelope)
  BY TypeOfAssumption DEF Envelope, ReadyOK
<1>2. ready'[T] = Append(ready[T], e) /\ \A t \in JobTypes \ {T} : ready'[t] = ready[t]
  BY <1>1 DEF LPush, ReadyOK
<1>3. \A k \in DOMAIN Append(ready[T], e) :
        \/ k \in DOMAIN ready[T] /\ Append(ready[T], e)[k] = ready[T][k]
        \/ Append(ready[T], e)[k] = e
  BY <1>1, AppendFacts
<1> HIDE DEF T
<1> SUFFICES ASSUME NEW t \in JobTypes, NEW k \in DOMAIN ready'[t]
             PROVE  ready'[t][k].attempts = runs[ready'[t][k].id]
  BY DEF ReadyCount
<1>4. CASE t = T
  <2>1. k \in DOMAIN Append(ready[T], e) /\ ready'[t][k] = Append(ready[T], e)[k]
    BY <1>2, <1>4
  <2>2. CASE k \in DOMAIN ready[T] /\ Append(ready[T], e)[k] = ready[T][k]
    BY <1>1, <2>1, <2>2 DEF ReadyCount
  <2>3. CASE Append(ready[T], e)[k] = e
    BY <2>1, <2>3
  <2> QED
    BY <1>3, <2>1, <2>2, <2>3
<1>5. CASE t # T
  BY <1>2, <1>5 DEF ReadyCount
<1> QED
  BY <1>4, <1>5

LEMMA PopKeepsCount ==
  ASSUME ReadyOK(ready), ReadyCount, NEW t \in JobTypes, ready[t] # <<>>,
         ready' = [ready EXCEPT ![t] = Tail(@)], UNCHANGED runs
  PROVE  ReadyCount'
<1>1. ready[t] \in Seq(Envelope)
  BY DEF ReadyOK
<1>2. ready'[t] = Tail(ready[t]) /\ \A u \in JobTypes \ {t} : ready'[u] = ready[u]
  BY DEF ReadyOK
<1>3. \A k \in DOMAIN Tail(ready[t]) :
        k + 1 \in DOMAIN ready[t] /\ Tail(ready[t])[k] = ready[t][k + 1]
  BY <1>1, TailFacts
<1> QED
  BY <1>2, <1>3 DEF ReadyCount

\* The start of a handler counts for its job alone, and no copy but the
\* worker's own is about that job.
LEMMA RunningKeepsCount ==
  ASSUME TypeInv, PlaceInv, CountInv, NEW w \in Workers, MarkRunning(w)
  PROVE  CountInv'
<1>1. PICK e \in held[w] :
        /\ Goto(w, "popped", "handling")
        /\ runs' = [runs EXCEPT ![e.id] = @ + 1]
        /\ UNCHANGED <<ready, delayed, dlq, held, claimed, done>>
  BY DEF MarkRunning, redisVars, drainVars
<1>2. /\ e \in Envelope /\ e.id \in Jobs /\ e.attempts \in Nat
      /\ e.attempts < MaxRetries /\ e.attempts = runs[e.id]
      /\ runs \in [Jobs -> Nat] /\ pc \in [Workers -> WorkerStates]
  BY <1>1, MaxRetriesAssumption
  DEF TypeInv, HeldOK, Goto, Envelope, CountInv, HeldCount, RowsOK
<1>3. runs'[e.id] = e.attempts + 1 /\ \A k \in Jobs \ {e.id} : runs'[k] = runs[k]
  BY <1>1, <1>2
<1>4. pc[w] = "popped" /\ pc'[w] = "handling" /\ \A v \in Workers \ {w} : pc'[v] = pc[v]
  BY <1>1, <1>2 DEF Goto
<1>5. InWorker(e.id)
  BY <1>2, <1>4 DEF InWorker, Holds, Carrying
<1>6. /\ ~InReady(e.id) /\ ~InDelayed(e.id) /\ ~InDLQ(e.id) /\ ~InDrain(e.id)
      /\ e.id \notin done
  BY <1>2, <1>5, SpotsDecided, OnlySpot DEF PlaceInv
<1>7. ReadyCount'
  <2> SUFFICES ASSUME NEW t \in JobTypes, NEW k \in DOMAIN ready[t]
               PROVE  ready[t][k].attempts = runs'[ready[t][k].id]
    BY <1>1 DEF ReadyCount
  <2>1. ready[t][k] \in Envelope /\ TypeOf[ready[t][k].id] = t
    BY DEF TypeInv, ReadyOK
  <2>2. ready[t][k].id \in Jobs /\ ready[t][k].id # e.id
    BY <1>6, <2>1 DEF InReady, Envelope
  <2> QED
    BY <1>3, <2>2 DEF CountInv, ReadyCount
<1>8. DelayedCount'
  BY <1>1, <1>3, <1>6 DEF CountInv, DelayedCount, InDelayed, TypeInv, DelayedOK, Envelope
<1>9. DrainCount'
  BY <1>1, <1>3, <1>6 DEF CountInv, DrainCount, InDrain, TypeInv, DrainOK, Envelope
<1>10. BuriedCount'
  BY <1>1, <1>3, <1>6 DEF CountInv, BuriedCount, InDLQ, TypeInv, DelayedOK, Envelope
<1>11. HeldCount'
  <2> SUFFICES ASSUME NEW v \in Workers, NEW f \in held[v]
               PROVE  /\ pc'[v] \in {"popped", "failing", "dead"} => f.attempts = runs'[f.id]
                      /\ pc'[v] \in {"handling", "succeeded"} => f.attempts + 1 = runs'[f.id]
                      /\ pc'[v] = "failing" => f.attempts >= 1
                      /\ pc'[v] = "succeeded" => f.id \in done
                      /\ pc'[v] = "dead" => f.attempts = MaxRetries
    BY <1>1 DEF HeldCount
  <2>1. f \in Envelope /\ f.id \in Jobs
    BY DEF TypeInv, HeldOK, Envelope
  <2>2. CASE v = w
    BY <1>3, <1>4, <2>2 DEF PlaceInv, Once, WorkerOnce
  <2>3. CASE v # w /\ f.id # e.id
    BY <1>3, <1>4, <2>1, <2>3 DEF CountInv, HeldCount
  <2>4. CASE v # w /\ f.id = e.id
    <3>1. pc[v] \notin Carrying
      BY <1>2, <1>4, <2>4 DEF PlaceInv, Once, WorkerOnce, Holds, Carrying
    <3>2. pc[v] # "succeeded" /\ pc[v] # "dead"
      BY <1>2, <1>6, <2>4 DEF CountInv, HeldCount
    <3> QED
      BY <1>4, <2>4, <3>1, <3>2 DEF Carrying
  <2> QED
    BY <2>2, <2>3, <2>4
<1>12. RunsBounded'
  BY <1>2, <1>3, MaxRetriesAssumption DEF CountInv, RunsBounded
<1> QED
  BY <1>7, <1>8, <1>9, <1>10, <1>11, <1>12 DEF CountInv

LEMMA CountInvNext == TypeInv /\ PlaceInv /\ CountInv /\ [Next]_vars => CountInv'
<1> SUFFICES ASSUME TypeInv, PlaceInv, CountInv, [Next]_vars PROVE CountInv'
  OBVIOUS
<1> USE DEF redisVars, workerVars, drainVars, history
<1>a. ReadyCount /\ DelayedCount /\ DrainCount /\ BuriedCount /\ HeldCount /\ RunsBounded
  BY DEF CountInv
<1>b. /\ ReadyOK(ready) /\ ReadyOnce
      /\ pc \in [Workers -> WorkerStates] /\ held \in [Workers -> SUBSET Envelope]
      /\ claimed \in [Instances -> SUBSET Envelope]
      /\ \A w \in Workers : \A e, f \in held[w] : e = f
  BY DEF TypeInv, HeldOK, DrainOK, PlaceInv, Once, WorkerOnce
<1>1. ASSUME UNCHANGED <<ready, delayed, dlq, pc, held, claimed, runs, done>> PROVE CountInv'
  BY <1>a, <1>1
  DEF CountInv, ReadyCount, DelayedCount, DrainCount, BuriedCount, HeldCount, RunsBounded
<1>2. ASSUME NEW j \in Jobs, PushReady(j) PROVE CountInv'
  <2>1. UNCHANGED <<delayed, dlq, pc, held, claimed, runs, done>>
    BY <1>2 DEF PushReady
  <2>2. ReadyCount'
    <3>1. runs[j] = 0
      BY <1>2 DEF PlaceInv, Apart, Unpushed, PushReady
    <3>2. CASE LPush([id |-> j, attempts |-> 0])
      <4>1. [id |-> j, attempts |-> 0] \in Envelope
        BY MaxRetriesAssumption DEF Envelope
      <4> QED
        BY <1>a, <1>b, <2>1, <3>1, <3>2, <4>1, PushKeepsCount
    <3>3. CASE UNCHANGED ready
      BY <1>a, <2>1, <3>3 DEF ReadyCount
    <3> QED
      BY <1>2, <3>2, <3>3 DEF PushReady
  <2> QED
    BY <1>a, <2>1, <2>2
    DEF CountInv, DelayedCount, DrainCount, BuriedCount, HeldCount, RunsBounded
<1>3. ASSUME NEW w \in Workers, Pop(w) PROVE CountInv'
  <2>1. UNCHANGED <<delayed, dlq, claimed, runs, done>>
    BY <1>3 DEF Pop
  <2>2. Serves[w] \in JobTypes
    BY WorkersAssumption
  <2>3. ReadyCount'
    BY <1>a, <1>b, <1>3, <2>1, <2>2, PopKeepsCount DEF Pop
  <2>4. HeldCount'
    <3>1. PICK h \in Envelope :
            /\ \E k \in DOMAIN ready[Serves[w]] : ready[Serves[w]][k] = h
            /\ \/ Goto(w, "idle", "popped") /\ held' = [held EXCEPT ![w] = {h}]
               \/ UNCHANGED <<pc, held>>
      BY <1>3, PopMoves
    <3>2. h.attempts = runs[h.id]
      BY <1>a, <2>2, <3>1 DEF ReadyCount
    <3> QED
      BY <1>a, <1>b, <2>1, <3>1, <3>2 DEF HeldCount, Goto
  <2> QED
    BY <1>a, <2>1, <2>3, <2>4
    DEF CountInv, DelayedCount, DrainCount, BuriedCount, RunsBounded
<1>4. ASSUME NEW w \in Workers, HandlerSucceeds(w) PROVE CountInv'
  <2>1. UNCHANGED <<ready, delayed, dlq, held, claimed, runs>>
    BY <1>4 DEF HandlerSucceeds
  <2>2. HeldCount'
    BY <1>a, <1>b, <1>4 DEF HandlerSucceeds, HeldCount, Goto
  <2> QED
    BY <1>a, <2>1, <2>2
    DEF CountInv, ReadyCount, DelayedCount, DrainCount, BuriedCount, RunsBounded
<1>5. ASSUME NEW w \in Workers, HandlerFails(w) PROVE CountInv'
  <2>1. UNCHANGED <<ready, delayed, dlq, claimed, runs, done>>
    BY <1>5 DEF HandlerFails
  <2>2. PICK e \in held[w] :
          Goto(w, "handling", "failing") /\ held' = [held EXCEPT ![w] = {[e EXCEPT !.attempts = @ + 1]}]
    BY <1>5 DEF HandlerFails
  <2>3. e \in Envelope /\ e.attempts \in Nat /\ e.attempts + 1 = runs[e.id]
    BY <1>a, <1>b, <2>2, MaxRetriesAssumption DEF HeldCount, Goto, Envelope
  <2>4. PICK f : f = [e EXCEPT !.attempts = @ + 1]
    OBVIOUS
  <2>5. f.id = e.id /\ f.attempts = e.attempts + 1 /\ held' = [held EXCEPT ![w] = {f}]
    BY <2>2, <2>3, <2>4 DEF Envelope
  <2>6. HeldCount'
    BY <1>a, <1>b, <2>1, <2>2, <2>3, <2>5 DEF HeldCount, Goto
  <2> QED
    BY <1>a, <2>1, <2>6
    DEF CountInv, ReadyCount, DelayedCount, DrainCount, BuriedCount, RunsBounded
<1>6. ASSUME NEW w \in Workers, ScheduleRetry(w) PROVE CountInv'
  <2>1. UNCHANGED <<ready, dlq, held, claimed, runs, done>> /\ Goto(w, "failing", "retrying")
    BY <1>6 DEF ScheduleRetry
  <2>2. PICK e \in held[w] : delayed' = delayed \union {e} \/ UNCHANGED delayed
    BY <1>6 DEF ScheduleRetry
  <2>3. DelayedCount'
    BY <1>a, <2>1, <2>2 DEF DelayedCount, HeldCount, Goto
  <2>4. HeldCount'
    BY <1>a, <1>b, <2>1 DEF HeldCount, Goto
  <2> QED
    BY <1>a, <2>1, <2>3, <2>4 DEF CountInv, ReadyCount, DrainCount, BuriedCount, RunsBounded
<1>7. ASSUME NEW w \in Workers, PushDLQ(w) PROVE CountInv'
  <2>1. UNCHANGED <<ready, delayed, held, claimed, runs, done>> /\ Goto(w, "failing", "dead")
    BY <1>7 DEF PushDLQ
  <2>2. PICK e \in held[w] : Exhausted(e) /\ (dlq' = dlq \union {e} \/ UNCHANGED dlq)
    BY <1>7 DEF PushDLQ
  <2>3. e.attempts = MaxRetries /\ runs[e.id] = MaxRetries
    BY <1>a, <1>b, <2>1, <2>2, MaxRetriesAssumption DEF HeldCount, Goto, Envelope, Exhausted
  <2>4. BuriedCount'
    BY <1>a, <2>1, <2>2, <2>3 DEF BuriedCount
  <2>5. \A f \in held[w] : f = e
    BY <1>b
  <2>6. HeldCount'
    BY <1>a, <1>b, <2>1, <2>3, <2>5 DEF HeldCount, Goto
  <2> QED
    BY <1>a, <2>1, <2>4, <2>6 DEF CountInv, ReadyCount, DelayedCount, DrainCount, RunsBounded
<1>8. ASSUME NEW w \in Workers, NEW from, NEW status, Settle(w, from, status) PROVE CountInv'
  <2>1. /\ UNCHANGED <<ready, delayed, dlq, claimed, runs, done>>
        /\ Goto(w, from, "idle") /\ held' = [held EXCEPT ![w] = {}]
    BY <1>8 DEF Settle
  <2>2. HeldCount'
    BY <1>a, <1>b, <2>1 DEF HeldCount, Goto
  <2> QED
    BY <1>a, <2>1, <2>2
    DEF CountInv, ReadyCount, DelayedCount, DrainCount, BuriedCount, RunsBounded
<1>9. ASSUME NEW i \in Instances, DrainClaim(i) PROVE CountInv'
  <2>1. UNCHANGED <<ready, dlq, pc, held, runs, done>>
    BY <1>9 DEF DrainClaim
  <2>2. PICK e \in todo[i] :
          /\ delayed' = delayed \ {e}
          /\ (e \in delayed /\ claimed' = [claimed EXCEPT ![i] = {e}]) \/ UNCHANGED claimed
    BY <1>9 DEF DrainClaim
  <2>3. DelayedCount'
    BY <1>a, <2>1, <2>2 DEF DelayedCount
  <2>4. DrainCount'
    BY <1>a, <1>b, <2>1, <2>2 DEF DrainCount, DelayedCount
  <2> QED
    BY <1>a, <2>1, <2>3, <2>4 DEF CountInv, ReadyCount, BuriedCount, HeldCount, RunsBounded
<1>10. ASSUME NEW i \in Instances, DrainPush(i) PROVE CountInv'
  <2>1. UNCHANGED <<delayed, dlq, pc, held, runs, done>>
    BY <1>10 DEF DrainPush
  <2>2. PICK e \in claimed[i] :
          /\ claimed' = [claimed EXCEPT ![i] = {}]
          /\ LPush(e) \/ UNCHANGED ready
    BY <1>10 DEF DrainPush
  <2>3. ReadyCount'
    <3>1. e \in Envelope /\ e.attempts = runs[e.id]
      BY <1>a, <1>b DEF DrainCount
    <3>2. CASE LPush(e)
      BY <1>a, <1>b, <2>1, <3>1, <3>2, PushKeepsCount
    <3>3. CASE UNCHANGED ready
      BY <1>a, <2>1, <3>3 DEF ReadyCount
    <3> QED
      BY <2>2, <3>2, <3>3
  <2>4. DrainCount'
    BY <1>a, <1>b, <2>1, <2>2 DEF DrainCount
  <2> QED
    BY <1>a, <2>1, <2>3, <2>4 DEF CountInv, DelayedCount, BuriedCount, HeldCount, RunsBounded
<1>11. ASSUME NEW i \in Instances, Crash(i) PROVE CountInv'
  <2>1. UNCHANGED <<ready, delayed, dlq, runs, done>>
    BY <1>11 DEF Crash
  <2>2. HeldCount' /\ DrainCount'
    BY <1>a, <1>b, <1>11, <2>1 DEF Crash, HeldCount, DrainCount
  <2> QED
    BY <1>a, <2>1, <2>2 DEF CountInv, ReadyCount, DelayedCount, BuriedCount, RunsBounded
<1>12. ASSUME \/ \E j \in Jobs : InsertJob(j) \/ Commit(j) \/ Rollback(j)
              \/ \E e \in Envelope : BackoffElapses(e)
              \/ \E i \in Instances : DrainSnapshot(i)
              \/ UNCHANGED vars
       PROVE  CountInv'
  <2>1. UNCHANGED <<ready, delayed, dlq, pc, held, claimed, runs, done>>
    BY <1>12 DEF InsertJob, Commit, Rollback, BackoffElapses, DrainSnapshot, vars
  <2> QED
    BY <1>1, <2>1
<1> QED
  BY <1>2, <1>3, <1>4, <1>5, <1>6, <1>7, <1>8, <1>9, <1>10, <1>11, <1>12, RunningKeepsCount
  DEF Next, Producer, WorkerStep, SchedulerStep, MarkCompleted, MarkPending, MarkFailed

\* A live envelope has counted every failed run of its job, so that a handler
\* runs at most MaxRetries times and only exhausted jobs are buried.
THEOREM AttemptsAlwaysCount == Spec => []AttemptsCountRuns
<1>1. Init => TypeInv /\ PlaceInv /\ CountInv
  BY TypeInvInit, PlaceInvInit, CountInvInit
<1>2. (TypeInv /\ PlaceInv /\ CountInv) /\ [Next]_vars => (TypeInv /\ PlaceInv /\ CountInv)'
  BY TypeInvNext, PlaceInvNext, CountInvNext
<1>3. TypeInv /\ PlaceInv /\ CountInv => AttemptsCountRuns
  BY CountInvImplies
<1> QED
  BY <1>1, <1>2, <1>3, PTL DEF Spec

-----------------------------------------------------------------------------
(* What any step may do to one job.                                        *)

LosesNothing == faults \intersect LosingFaults = {}

\* A buried, finished or lost job never moves again; a job in the queue stays
\* in it, succeeds, or is lost to a failure; only its worker counts its runs.
JobStep(j) ==
  /\ Spots(j)' \subseteq Spots(j) \/ Spots(j) \notin {{}, {"dlq"}} \/ Unpushed(j)
  /\ Spots(j) # {} => Spots(j)' # {} \/ j \in done' \/ ~LosesNothing
  /\ Unpushed(j) /\ ~Unpushed(j)' =>
       Spots(j)' # {} \/ tx'[j] = "rolled_back" \/ ~LosesNothing
  /\ Unpushed(j)' => Unpushed(j)
  /\ tx[j] = "rolled_back" => tx'[j] = "rolled_back"
  /\ j \in done => j \in done'
  /\ j \in done' => j \in done \/ Spots(j) = {"worker"}
  /\ runs'[j] = runs[j] \/ Spots(j) = {"worker"}

\* A step that moves job j and no other.
LEMMA MoveIsJobStep ==
  ASSUME NEW j \in Jobs, NEW S, Move(j, S), Spots(j) \notin {{}, {"dlq"}},
         S # {} \/ j \in done' \/ ~LosesNothing,
         UNCHANGED <<tx, runs>>, done' = done \/ (done' = done \union {j} /\ Spots(j) = {"worker"})
  PROVE  \A k \in Jobs : JobStep(k)
<1>1. Spots(j)' = S /\ \A k \in Jobs \ {j} : Spots(k)' = Spots(k)
  BY DEF Move
<1>2. \A k \in Jobs : Unpushed(k)' <=> Unpushed(k)
  BY DEF Unpushed
<1> QED
  BY <1>1, <1>2 DEF JobStep

\* A step that moves none.
LEMMA StayIsJobStep ==
  ASSUME Stay, UNCHANGED done,
         \A k \in Jobs : runs'[k] = runs[k] \/ Spots(k) = {"worker"},
         \A k \in Jobs :
           \/ tx'[k] = tx[k]
           \/ /\ tx[k] # "rolled_back" /\ (Unpushed(k)' => Unpushed(k))
              /\ tx'[k] = "rolled_back" \/ ~LosesNothing \/ (Unpushed(k) <=> Unpushed(k)')
  PROVE  \A k \in Jobs : JobStep(k)
  BY DEF JobStep, Stay, Unpushed

LEMMA JobSteps == TypeInv /\ PlaceInv /\ [Next]_vars => \A j \in Jobs : JobStep(j)
<1> SUFFICES ASSUME TypeInv, PlaceInv, [Next]_vars PROVE \A j \in Jobs : JobStep(j)
  OBVIOUS
<1> USE DEF redisVars, workerVars, drainVars, history
<1>b. tx \in [Jobs -> TxStates] /\ runs \in [Jobs -> Nat]
  BY DEF TypeInv, RowsOK
<1>c. \A f \in LosingFaults : f \in faults => ~LosesNothing
  BY DEF LosesNothing
<1>1. ASSUME NEW j \in Jobs, InsertJob(j) \/ Commit(j) \/ Rollback(j)
      PROVE  \A k \in Jobs : JobStep(k)
  <2>1. Stay /\ UNCHANGED <<runs, done>>
    BY <1>1, NothingMoves DEF InsertJob, Commit, Rollback
  <2>2. \A k \in Jobs : tx'[k] = tx[k] \/ (/\ tx[k] # "rolled_back"
                                           /\ Unpushed(k)' => Unpushed(k)
                                           /\ tx'[k] = "rolled_back" \/ (Unpushed(k) <=> Unpushed(k)'))
    BY <1>b, <1>1 DEF InsertJob, Commit, Rollback, Unpushed
  <2> QED
    BY <2>1, <2>2, StayIsJobStep
<1>2. ASSUME NEW j \in Jobs, PushReady(j) PROVE \A k \in Jobs : JobStep(k)
  <2>1. Move(j, {"ready"}) \/ ("push" \in faults /\ Stay)
    BY <1>2, PushMoves
  <2>2. /\ tx[j] = "inserted" /\ tx'[j] = "pushed" /\ \A k \in Jobs \ {j} : tx'[k] = tx[k]
        /\ UNCHANGED <<runs, done>>
    BY <1>b, <1>2 DEF PushReady
  <2>3. Unpushed(j) /\ ~Unpushed(j)' /\ \A k \in Jobs \ {j} : Unpushed(k)' <=> Unpushed(k)
    BY <2>2 DEF Unpushed
  <2>4. CASE Move(j, {"ready"})
    BY <2>2, <2>3, <2>4 DEF JobStep, Move
  <2>5. CASE "push" \in faults /\ Stay
    <3>1. ~LosesNothing
      BY <1>c, <2>5 DEF LosingFaults
    <3> QED
      BY <2>2, <2>3, <2>5, <3>1 DEF JobStep, Stay
  <2> QED
    BY <2>1, <2>4, <2>5
<1>3. ASSUME NEW w \in Workers, Pop(w) PROVE \A k \in Jobs : JobStep(k)
  <2>1. UNCHANGED <<tx, runs, done>>
    BY <1>3 DEF Pop
  <2>2. PICK h \in Envelope :
          Spots(h.id) = {"ready"} /\ (Move(h.id, {"worker"}) \/ ("reply" \in faults /\ Move(h.id, {})))
    BY <1>3, PopMoves
  <2>3. h.id \in Jobs /\ Spots(h.id) \notin {{}, {"dlq"}}
    BY <2>2 DEF Envelope
  <2>4. "reply" \in faults => ~LosesNothing
    BY <1>c DEF LosingFaults
  <2> QED
    BY <2>1, <2>2, <2>3, <2>4, MoveIsJobStep
<1>4. ASSUME NEW w \in Workers, MarkRunning(w) PROVE \A k \in Jobs : JobStep(k)
  <2>1. Stay
    BY <1>4, RunningMoves
  <2>2. PICK e \in held[w] : runs' = [runs EXCEPT ![e.id] = @ + 1]
    BY <1>4 DEF MarkRunning
  <2>3. UNCHANGED <<tx, done>> /\ pc[w] \in Carrying
    BY <1>4 DEF MarkRunning, Goto, Carrying
  <2>4. e.id \in Jobs /\ InWorker(e.id)
    BY <2>3 DEF TypeInv, HeldOK, Envelope, InWorker, Holds
  <2>5. Spots(e.id) = {"worker"}
    BY <2>4, SpotsDecided, OnlySpot DEF PlaceInv
  <2>6. \A k \in Jobs : runs'[k] = runs[k] \/ Spots(k) = {"worker"}
    BY <1>b, <2>2, <2>4, <2>5
  <2> QED
    BY <2>1, <2>3, <2>6, StayIsJobStep
<1>5. ASSUME NEW w \in Workers, HandlerSucceeds(w) PROVE \A k \in Jobs : JobStep(k)
  <2>1. PICK e \in held[w] : done' = done \union {e.id} /\ UNCHANGED <<tx, runs>>
    BY <1>5 DEF HandlerSucceeds
  <2>2. e \in Envelope /\ Spots(e.id) = {"worker"} /\ Move(e.id, {})
    BY <1>5, SuccessMoves
  <2>3. e.id \in Jobs /\ e.id \in done' /\ Spots(e.id) \notin {{}, {"dlq"}}
    BY <2>1, <2>2 DEF Envelope
  <2> QED
    BY <2>1, <2>2, <2>3, MoveIsJobStep
<1>6. ASSUME NEW w \in Workers, ScheduleRetry(w) \/ PushDLQ(w) PROVE \A k \in Jobs : JobStep(k)
  <2>1. UNCHANGED <<tx, runs, done>> /\ \E e \in held[w] : TRUE
    BY <1>6 DEF ScheduleRetry, PushDLQ
  <2>2. PICK e \in held[w] : TRUE
    BY <2>1
  <2>3. /\ e \in Envelope /\ Spots(e.id) = {"worker"}
        /\ \/ Move(e.id, {"delayed"})
           \/ Move(e.id, {"dlq"})
           \/ {"zadd", "dlq"} \intersect faults # {} /\ Move(e.id, {})
    BY <1>6, RetryMoves, BuryMoves
  <2>4. e.id \in Jobs /\ Spots(e.id) \notin {{}, {"dlq"}}
    BY <2>3 DEF Envelope
  <2>5. {"zadd", "dlq"} \intersect faults # {} => ~LosesNothing
    BY <1>c DEF LosingFaults
  <2> QED
    BY <2>1, <2>3, <2>4, <2>5, MoveIsJobStep
<1>7. ASSUME NEW w \in Workers, \/ HandlerFails(w)
                                \/ MarkCompleted(w) \/ MarkPending(w) \/ MarkFailed(w)
      PROVE  \A k \in Jobs : JobStep(k)
  <2>1. UNCHANGED <<tx, runs, done>>
    BY <1>7 DEF HandlerFails, MarkCompleted, MarkPending, MarkFailed, Settle
  <2>2. {"succeeded", "retrying", "dead"} \intersect Carrying = {}
    BY DEF Carrying
  <2>3. Stay
    BY <1>7, <2>2, FailingMoves, SettleMoves DEF MarkCompleted, MarkPending, MarkFailed
  <2> QED
    BY <2>1, <2>3, StayIsJobStep
<1>8. ASSUME \/ \E e \in Envelope : BackoffElapses(e)
             \/ \E i \in Instances : DrainSnapshot(i)
             \/ UNCHANGED vars
      PROVE  \A k \in Jobs : JobStep(k)
  <2>1. UNCHANGED <<tx, runs, done, ready, delayed, dlq, pc, held, claimed>>
    BY <1>8 DEF BackoffElapses, DrainSnapshot, vars
  <2> QED
    BY <2>1, NothingMoves, StayIsJobStep
<1>9. ASSUME NEW i \in Instances, DrainClaim(i) PROVE \A k \in Jobs : JobStep(k)
  <2>1. UNCHANGED <<tx, runs, done>>
    BY <1>9 DEF DrainClaim
  <2>2. CASE Stay
    BY <2>1, <2>2, StayIsJobStep
  <2>3. ASSUME NEW e \in delayed, Spots(e.id) = {"delayed"},
               Move(e.id, {"drain"}) \/ ("reply" \in faults /\ Move(e.id, {}))
        PROVE  \A k \in Jobs : JobStep(k)
    <3>1. e.id \in Jobs /\ Spots(e.id) \notin {{}, {"dlq"}}
      BY <2>3 DEF TypeInv, DelayedOK, Envelope
    <3>2. "reply" \in faults => ~LosesNothing
      BY <1>c DEF LosingFaults
    <3> QED
      BY <2>1, <2>3, <3>1, <3>2, MoveIsJobStep
  <2> QED
    BY <1>9, <2>2, <2>3, ClaimMoves
<1>10. ASSUME NEW i \in Instances, DrainPush(i) PROVE \A k \in Jobs : JobStep(k)
  <2>1. UNCHANGED <<tx, runs, done>>
    BY <1>10 DEF DrainPush
  <2>2. PICK e \in claimed[i] :
          Spots(e.id) = {"drain"} /\ (Move(e.id, {"ready"}) \/ ("push" \in faults /\ Move(e.id, {})))
    BY <1>10, DrainMoves
  <2>3. e.id \in Jobs /\ Spots(e.id) \notin {{}, {"dlq"}}
    BY <2>2 DEF TypeInv, DrainOK, Envelope
  <2>4. "push" \in faults => ~LosesNothing
    BY <1>c DEF LosingFaults
  <2> QED
    BY <2>1, <2>2, <2>3, <2>4, MoveIsJobStep
<1>11. ASSUME NEW i \in Instances, Crash(i) PROVE \A k \in Jobs : JobStep(k)
  <2>1. UNCHANGED <<tx, runs, done>> /\ ~LosesNothing
    BY <1>11, <1>c DEF Crash, LosingFaults
  <2>2. \A k \in Jobs : Spots(k)' \subseteq Spots(k)
    BY <1>11, CrashMoves
  <2> QED
    BY <2>1, <2>2 DEF JobStep, Unpushed
<1> QED
  BY <1>1, <1>2, <1>3, <1>4, <1>5, <1>6, <1>7, <1>8, <1>9, <1>10, <1>11
  DEF Next, Producer, WorkerStep, SchedulerStep

-----------------------------------------------------------------------------
(* No job is lost.                                                         *)

NothingLost ==
  LosesNothing =>
    \A j \in Jobs : ~Unpushed(j) /\ tx[j] # "rolled_back" => Spots(j) # {} \/ j \in done

LEMMA FaultsFixed == [Next]_vars => UNCHANGED faults
  BY DEF Next, Producer, WorkerStep, SchedulerStep, InsertJob, PushReady, Commit, Rollback, Pop,
         MarkRunning, HandlerSucceeds, HandlerFails, ScheduleRetry, PushDLQ, MarkCompleted,
         MarkPending, MarkFailed, Settle, BackoffElapses, DrainSnapshot, DrainClaim, DrainPush,
         Crash, vars

LEMMA NothingLostImplies == NothingLost => NoLostJob
<1> SUFFICES ASSUME NothingLost, NEW j \in Jobs, tx[j] \in {"pushed", "committed"}, LosesNothing
             PROVE  HasLiveCopy(j) \/ j \in done \/ InDLQ(j)
  BY DEF NoLostJob, LosesNothing
<1>1. Spots(j) # {} \/ j \in done
  BY DEF NothingLost, Unpushed
<1> QED
  BY <1>1, SpotsDecided DEF HasLiveCopy, Places

\* A pushed job whose producer did not roll back is queued, in hand, finished or
\* in the dead-letter list, unless a push, a ZADD, a reply or a process is lost.
THEOREM NeverLoses == Spec => []NoLostJob
<1>1. Init => TypeInv /\ PlaceInv /\ NothingLost
  BY TypeInvInit, PlaceInvInit DEF Init, NothingLost, Unpushed
<1>2. (TypeInv /\ PlaceInv /\ NothingLost) /\ [Next]_vars => (TypeInv /\ PlaceInv /\ NothingLost)'
  <2> SUFFICES ASSUME TypeInv, PlaceInv, NothingLost, [Next]_vars PROVE NothingLost'
    BY TypeInvNext, PlaceInvNext
  <2> SUFFICES ASSUME LosesNothing, NEW j \in Jobs, ~Unpushed(j)', tx'[j] # "rolled_back"
               PROVE  Spots(j)' # {} \/ j \in done'
    BY FaultsFixed DEF NothingLost, LosesNothing
  <2>1. JobStep(j)
    BY JobSteps
  <2>2. CASE Unpushed(j)
    BY <2>1, <2>2 DEF JobStep
  <2>3. CASE ~Unpushed(j)
    BY <2>1, <2>3 DEF JobStep, NothingLost
  <2> QED
    BY <2>2, <2>3
<1>3. TypeInv /\ PlaceInv /\ NothingLost => NoLostJob
  BY NothingLostImplies
<1> QED
  BY <1>1, <1>2, <1>3, PTL DEF Spec

-----------------------------------------------------------------------------
(* What a row says.                                                        *)

\* A job that used every attempt, without success, and has no copy left to run.
Buried(j) ==
  j \notin done /\ runs[j] = MaxRetries /\ Spots(j) \subseteq {"dlq"} /\ ~Unpushed(j)

\* A row exists for committed jobs only; a final one is true, and a worker that
\* is about to write "failed" has buried its job.
RowsInv ==
  /\ \A j \in Jobs :
       /\ row[j].status # "absent" => tx[j] = "committed"
       /\ row[j].status = "completed" => j \in done
       /\ row[j].status = "failed" => Buried(j)
  /\ \A w \in Workers : \A e \in held[w] : pc[w] = "dead" => Buried(e.id)

LEMMA BuriedStays ==
  ASSUME NEW j \in Jobs, JobStep(j), Buried(j)
  PROVE  Buried(j)'
<1>1. Spots(j) \in {{}, {"dlq"}}
  BY DEF Buried
<1> QED
  BY <1>1 DEF Buried, JobStep

LEMMA RowsInvImplies == RowsInv => FinalRowsTrue
<1> SUFFICES ASSUME RowsInv, NEW j \in Jobs, row[j].status = "failed"
             PROVE  j \notin done /\ runs[j] = MaxRetries /\ ~HasLiveCopy(j)
  BY DEF RowsInv, FinalRowsTrue
<1> QED
  BY SpotsDecided DEF RowsInv, Buried, HasLiveCopy

\* A status write concerns its own row, and none before the commit.
LEMMA StatusWritten ==
  ASSUME TypeInv, NEW j \in Jobs, NEW s, NEW n, SetStatus(j, s, n), NEW k \in Jobs
  PROVE  /\ k # j \/ row[k].status = "absent" => row'[k] = row[k]
         /\ row'[k] = row[k] \/ (k = j /\ row'[k].status = s)
         /\ k = j /\ "status" \notin faults =>
              row[k].status = "absent" \/ row'[k].status = s
  BY DEF SetStatus, TypeInv, RowsOK

LEMMA RowsInvNext ==
  TypeInv /\ PlaceInv /\ CountInv /\ RowsInv /\ [Next]_vars => RowsInv'
<1> SUFFICES ASSUME TypeInv, PlaceInv, CountInv, RowsInv, [Next]_vars PROVE RowsInv'
  OBVIOUS
<1> USE DEF redisVars, workerVars, drainVars, history
<1>a. /\ tx \in [Jobs -> TxStates] /\ held \in [Workers -> SUBSET Envelope]
      /\ row \in [Jobs -> [status : RowStates, attempts : 0 .. MaxRetries]]
      /\ pc \in [Workers -> WorkerStates]
  BY DEF TypeInv, RowsOK, HeldOK
<1>b. \A j \in Jobs : JobStep(j) /\ (Buried(j) => Buried(j)')
  BY JobSteps, BuriedStays
<1>c. \A j \in Jobs : j \in done => j \in done'
  BY <1>b DEF JobStep
<1>d. \A w \in Workers : \A e \in held[w] : e.id \in Jobs
  BY <1>a DEF Envelope
<1>1. ASSUME UNCHANGED row,
             \A j \in Jobs : tx[j] = "committed" => tx'[j] = "committed",
             \A w \in Workers : \A e \in held'[w] :
               pc'[w] = "dead" => pc[w] = "dead" /\ e \in held[w]
      PROVE  RowsInv'
  BY <1>1, <1>b, <1>c, <1>d DEF RowsInv
<1>2. ASSUME NEW j \in Jobs, Commit(j) PROVE RowsInv'
  <2>1. /\ tx' = [tx EXCEPT ![j] = "committed"]
        /\ row' = [row EXCEPT ![j] = [status |-> "pending", attempts |-> 0]]
        /\ UNCHANGED <<pc, held>>
    BY <1>2 DEF Commit
  <2>2. \A k \in Jobs : row'[k].status # "absent" => tx'[k] = "committed"
    BY <1>a, <2>1 DEF RowsInv
  <2>3. \A k \in Jobs : row'[k].status \in {"completed", "failed"} => row'[k] = row[k]
    BY <1>a, <2>1
  <2> QED
    BY <1>b, <1>c, <1>d, <2>1, <2>2, <2>3 DEF RowsInv
<1>3. ASSUME NEW w \in Workers, MarkRunning(w) PROVE RowsInv'
  <2>1. PICK e \in held[w] :
          /\ SetStatus(e.id, "running", 0)
          /\ Goto(w, "popped", "handling") /\ UNCHANGED <<tx, held>>
    BY <1>3 DEF MarkRunning
  <2>2. \A k \in Jobs : row'[k] = row[k] \/ (row[k].status # "absent" /\ row'[k].status = "running")
    BY <1>d, <2>1, StatusWritten
  <2>3. \A v \in Workers : pc'[v] = "dead" => pc[v] = "dead"
    BY <1>a, <2>1 DEF Goto
  <2> QED
    BY <1>b, <1>c, <1>d, <2>1, <2>2, <2>3 DEF RowsInv
<1>4. ASSUME NEW w \in Workers, PushDLQ(w) PROVE RowsInv'
  <2>1. PICK e \in held[w] : Exhausted(e)
    BY <1>4 DEF PushDLQ
  <2>2. UNCHANGED <<tx, row, held, runs, done>> /\ Goto(w, "failing", "dead")
    BY <1>4 DEF PushDLQ
  <2>3. /\ e \in Envelope /\ Spots(e.id) = {"worker"}
        /\ Move(e.id, {"dlq"}) \/ Move(e.id, {})
    BY <1>4, BuryMoves
  <2>4. e.id \in Jobs /\ e.id \notin done /\ ~Unpushed(e.id)
    BY <1>d, <2>3 DEF PlaceInv, Apart
  <2>5. runs[e.id] = MaxRetries
    BY <2>1, <2>2, <2>3, MaxRetriesAssumption
    DEF CountInv, HeldCount, Goto, Envelope, Exhausted
  <2>6. Buried(e.id)'
    BY <2>2, <2>3, <2>4, <2>5 DEF Buried, Move, Unpushed
  <2>7. \A f \in held[w] : f = e
    BY DEF PlaceInv, Once, WorkerOnce
  <2>8. \A v \in Workers \ {w} : pc'[v] = pc[v]
    BY <1>a, <2>2 DEF Goto
  <2>9. \A v \in Workers : \A f \in held'[v] : pc'[v] = "dead" => Buried(f.id)'
    <3> SUFFICES ASSUME NEW v \in Workers, NEW f \in held[v], pc'[v] = "dead" PROVE Buried(f.id)'
      BY <2>2
    <3>1. CASE v = w
      BY <2>6, <2>7, <3>1
    <3>2. CASE v # w
      BY <1>b, <1>d, <2>8, <3>2 DEF RowsInv
    <3> QED
      BY <3>1, <3>2
  <2> QED
    BY <1>b, <1>c, <2>2, <2>9 DEF RowsInv
<1>5. ASSUME NEW w \in Workers, NEW from, NEW status \in {"completed", "pending", "failed"},
             Settle(w, from, status),
             status = "completed" => from = "succeeded", status = "failed" => from = "dead"
      PROVE  RowsInv'
  <2>1. PICK e \in held[w] : SetStatus(e.id, status, e.attempts)
    BY <1>5 DEF Settle
  <2>2. UNCHANGED <<tx, done>> /\ Goto(w, from, "idle") /\ held' = [held EXCEPT ![w] = {}]
    BY <1>5 DEF Settle
  <2>3. \A k \in Jobs : \/ row'[k] = row[k]
                        \/ row[k].status # "absent" /\ k = e.id /\ row'[k].status = status
    BY <1>d, <2>1, StatusWritten
  <2>4. status = "completed" => e.id \in done
    BY <1>5, <2>2 DEF CountInv, HeldCount, Goto
  <2>5. status = "failed" => Buried(e.id)
    BY <1>5, <2>2 DEF RowsInv, Goto
  <2>6. \A v \in Workers : \A f \in held'[v] : pc'[v] = "dead" => pc[v] = "dead" /\ f \in held[v]
    BY <1>a, <2>2 DEF Goto
  <2> QED
    BY <1>b, <1>c, <1>d, <1>5, <2>2, <2>3, <2>4, <2>5, <2>6 DEF RowsInv
<1>6. ASSUME NEW j \in Jobs, InsertJob(j) \/ PushReady(j) \/ Rollback(j) PROVE RowsInv'
  <2>1. UNCHANGED <<row, pc, held>> /\ \A k \in Jobs : tx[k] = "committed" => tx'[k] = "committed"
    BY <1>a, <1>6 DEF InsertJob, PushReady, Rollback
  <2> QED
    BY <1>1, <2>1
<1>7. ASSUME NEW w \in Workers,
             Pop(w) \/ HandlerSucceeds(w) \/ HandlerFails(w) \/ ScheduleRetry(w)
      PROVE  RowsInv'
  <2>1. UNCHANGED <<tx, row>>
    BY <1>7 DEF Pop, HandlerSucceeds, HandlerFails, ScheduleRetry
  <2>2. \A v \in Workers : \A e \in held'[v] : pc'[v] = "dead" => pc[v] = "dead" /\ e \in held[v]
    BY <1>a, <1>7 DEF Pop, HandlerSucceeds, HandlerFails, ScheduleRetry, Goto
  <2> QED
    BY <1>1, <2>1, <2>2
<1>8. ASSUME \/ \E e \in Envelope : BackoffElapses(e)
             \/ \E i \in Instances : SchedulerStep(i) \/ Crash(i)
             \/ UNCHANGED vars
      PROVE  RowsInv'
  <2>1. UNCHANGED <<tx, row>>
    BY <1>8 DEF BackoffElapses, SchedulerStep, DrainSnapshot, DrainClaim, DrainPush, Crash, vars
  <2>2. \A v \in Workers : \A e \in held'[v] : pc'[v] = "dead" => pc[v] = "dead" /\ e \in held[v]
    BY <1>a, <1>8 DEF BackoffElapses, SchedulerStep, DrainSnapshot, DrainClaim, DrainPush, Crash, vars
  <2> QED
    BY <1>1, <2>1, <2>2
<1> QED
  BY <1>2, <1>3, <1>4, <1>5, <1>6, <1>7, <1>8
  DEF Next, Producer, WorkerStep, MarkCompleted, MarkPending, MarkFailed

\* A row says completed only after a success, and failed only when every attempt
\* was used and no copy is left to run.
THEOREM FinalRowsAlwaysTrue == Spec => []FinalRowsTrue
<1> DEFINE Inv == TypeInv /\ PlaceInv /\ CountInv /\ RowsInv
<1>1. Init => Inv
  BY TypeInvInit, PlaceInvInit, CountInvInit DEF Init, RowsInv
<1>2. Inv /\ [Next]_vars => Inv'
  BY TypeInvNext, PlaceInvNext, CountInvNext, RowsInvNext
<1>3. Inv => FinalRowsTrue
  BY RowsInvImplies
<1> QED
  BY <1>1, <1>2, <1>3, PTL DEF Spec

-----------------------------------------------------------------------------
(* A running row.                                                          *)

\* A row marked running has a worker that will write its next status: the write
\* and the worker's release are one step, and a worker that only starts has not
\* marked the row yet.
THEOREM RunningAlwaysHasWorker == Spec => []RunningHasWorker
<1>1. Init => TypeInv /\ PlaceInv /\ RunningHasWorker
  BY TypeInvInit, PlaceInvInit DEF Init, RunningHasWorker
<1>2. (TypeInv /\ PlaceInv /\ RunningHasWorker) /\ [Next]_vars
        => (TypeInv /\ PlaceInv /\ RunningHasWorker)'
  <2> SUFFICES ASSUME TypeInv, PlaceInv, RunningHasWorker, [Next]_vars PROVE RunningHasWorker'
    BY TypeInvNext, PlaceInvNext
  <2> SUFFICES ASSUME NEW j \in Jobs, row'[j].status = "running",
                      faults \intersect {"status", "crash"} = {}
               PROVE  \E w \in Workers : Holds(w, j)' /\ pc'[w] # "popped"
    BY FaultsFixed DEF RunningHasWorker
  <2> USE DEF redisVars, workerVars, drainVars, history
  <2>a. /\ row \in [Jobs -> [status : RowStates, attempts : 0 .. MaxRetries]]
        /\ pc \in [Workers -> WorkerStates] /\ held \in [Workers -> SUBSET Envelope]
        /\ \A w \in Workers : pc[w] = "idle" <=> held[w] = {}
        /\ \A w \in Workers : \A e \in held[w] : e.id \in Jobs
    BY DEF TypeInv, RowsOK, HeldOK, Envelope
  <2>b. row[j].status = "running" => \E w \in Workers : Holds(w, j) /\ pc[w] # "popped"
    BY DEF RunningHasWorker
  <2>1. ASSUME row'[j] = row[j],
               \A w \in Workers : Holds(w, j) /\ pc[w] # "popped" => Holds(w, j)' /\ pc'[w] # "popped"
        PROVE  \E w \in Workers : Holds(w, j)' /\ pc'[w] # "popped"
    BY <2>b, <2>1
  <2>2. ASSUME row'[j] = row[j], UNCHANGED <<pc, held>>
        PROVE  \E w \in Workers : Holds(w, j)' /\ pc'[w] # "popped"
    BY <2>1, <2>2 DEF Holds
  <2>3. ASSUME NEW k \in Jobs, InsertJob(k) \/ PushReady(k) \/ Commit(k) \/ Rollback(k)
        PROVE  \E w \in Workers : Holds(w, j)' /\ pc'[w] # "popped"
    BY <2>a, <2>2, <2>3 DEF InsertJob, PushReady, Commit, Rollback
  <2>4. ASSUME NEW w \in Workers, Pop(w)
        PROVE  \E v \in Workers : Holds(v, j)' /\ pc'[v] # "popped"
    <3>1. row'[j] = row[j]
      BY <2>4 DEF Pop
    <3>2. pc[w] = "idle" /\ held[w] = {}
      BY <2>a, <2>4 DEF Pop, Goto
    <3>3. \A v \in Workers \ {w} : pc'[v] = pc[v] /\ held'[v] = held[v]
      BY <2>a, <2>4 DEF Pop, Goto
    <3> QED
      BY <2>1, <3>1, <3>2, <3>3 DEF Holds
  <2>5. ASSUME NEW w \in Workers, MarkRunning(w)
        PROVE  \E v \in Workers : Holds(v, j)' /\ pc'[v] # "popped"
    <3>1. PICK e \in held[w] :
            /\ SetStatus(e.id, "running", 0) /\ Goto(w, "popped", "handling") /\ UNCHANGED held
      BY <2>5 DEF MarkRunning
    <3>2. pc'[w] = "handling" /\ \A v \in Workers : pc'[v] = "popped" => pc[v] = "popped"
      BY <2>a, <3>1 DEF Goto
    <3>3. CASE e.id = j
      BY <3>1, <3>2, <3>3 DEF Holds
    <3>4. CASE e.id # j
      <4>1. row'[j] = row[j]
        BY <2>a, <3>1, <3>4, StatusWritten
      <4> QED
        BY <2>1, <3>1, <3>2, <4>1 DEF Holds
    <3> QED
      BY <3>3, <3>4
  <2>6. ASSUME NEW w \in Workers, HandlerSucceeds(w) \/ ScheduleRetry(w) \/ PushDLQ(w)
        PROVE  \E v \in Workers : Holds(v, j)' /\ pc'[v] # "popped"
    <3>1. UNCHANGED <<row, held>> /\ \A v \in Workers : pc'[v] = "popped" => pc[v] = "popped"
      BY <2>a, <2>6 DEF HandlerSucceeds, ScheduleRetry, PushDLQ, Goto
    <3> QED
      BY <2>1, <3>1 DEF Holds
  <2>7. ASSUME NEW w \in Workers, HandlerFails(w)
        PROVE  \E v \in Workers : Holds(v, j)' /\ pc'[v] # "popped"
    <3>1. PICK e \in held[w] : held' = [held EXCEPT ![w] = {[e EXCEPT !.attempts = @ + 1]}]
      BY <2>7 DEF HandlerFails
    <3>2. UNCHANGED row /\ \A v \in Workers : pc'[v] = "popped" => pc[v] = "popped"
      BY <2>a, <2>7 DEF HandlerFails, Goto
    <3>3. e \in Envelope /\ [e EXCEPT !.attempts = @ + 1].id = e.id
      BY <2>a DEF Envelope
    <3>4. Holds(w, j) => Holds(w, j)'
      <4>1. Holds(w, j) <=> j = e.id
        BY HoldsOne DEF PlaceInv, Once
      <4> QED
        BY <2>a, <3>1, <3>3, <4>1 DEF Holds
    <3>5. \A v \in Workers \ {w} : held'[v] = held[v]
      BY <2>a, <3>1
    <3> QED
      BY <2>1, <3>2, <3>4, <3>5 DEF Holds
  <2>8. ASSUME NEW w \in Workers, NEW from, NEW status \in {"completed", "pending", "failed"},
               Settle(w, from, status)
        PROVE  \E v \in Workers : Holds(v, j)' /\ pc'[v] # "popped"
    <3>1. PICK e \in held[w] : SetStatus(e.id, status, e.attempts)
      BY <2>8 DEF Settle
    <3>2. Goto(w, from, "idle") /\ held' = [held EXCEPT ![w] = {}]
      BY <2>8 DEF Settle
    <3>3. e.id # j /\ row'[j] = row[j]
      BY <2>a, <3>1, StatusWritten
    <3>4. ~Holds(w, j)
      BY <3>3, HoldsOne DEF PlaceInv, Once
    <3>5. \A v \in Workers \ {w} : pc'[v] = pc[v] /\ held'[v] = held[v]
      BY <2>a, <3>2 DEF Goto
    <3> QED
      BY <2>1, <3>3, <3>4, <3>5 DEF Holds
  <2>9. ASSUME \/ \E e \in Envelope : BackoffElapses(e)
               \/ \E i \in Instances : SchedulerStep(i) \/ Crash(i)
               \/ UNCHANGED vars
        PROVE  \E v \in Workers : Holds(v, j)' /\ pc'[v] # "popped"
    <3>1. UNCHANGED <<row, pc, held>>
      BY <2>9 DEF BackoffElapses, SchedulerStep, DrainSnapshot, DrainClaim, DrainPush, Crash, vars
    <3> QED
      BY <2>2, <3>1
  <2> QED
    BY <2>3, <2>4, <2>5, <2>6, <2>7, <2>8, <2>9
    DEF Next, Producer, WorkerStep, MarkCompleted, MarkPending, MarkFailed
<1> QED
  BY <1>1, <1>2, PTL DEF Spec

-----------------------------------------------------------------------------
(* The queue implements the life of a job.                                 *)

Active(j) == \E w \in Workers : pc[w] \in {"handling", "failing"} /\ Holds(w, j)

\* The life of a job, by its place.
LifeFacts ==
  \A j \in Jobs :
    /\ j \in done => LifeOf(j) = "done"
    /\ Spots(j) = {"dlq"} => LifeOf(j) = "dead"
    /\ Active(j) => LifeOf(j) = "active" /\ Spots(j) = {"worker"}
    /\ Spots(j) \notin {{}, {"dlq"}} /\ ~Active(j) => LifeOf(j) = "waiting"
    /\ Unpushed(j) => LifeOf(j) = "absent"
    /\ Spots(j) = {} /\ j \notin done /\ ~Unpushed(j) => LifeOf(j) = "gone"

LEMMA LifeDecided == Apart => LifeFacts
<1> SUFFICES ASSUME Apart, NEW j \in Jobs
             PROVE  /\ j \in done => LifeOf(j) = "done"
                    /\ Spots(j) = {"dlq"} => LifeOf(j) = "dead"
                    /\ Active(j) => LifeOf(j) = "active" /\ Spots(j) = {"worker"}
                    /\ Spots(j) \notin {{}, {"dlq"}} /\ ~Active(j) => LifeOf(j) = "waiting"
                    /\ Unpushed(j) => LifeOf(j) = "absent"
                    /\ Spots(j) = {} /\ j \notin done /\ ~Unpushed(j) => LifeOf(j) = "gone"
  BY DEF LifeFacts
<1>1. Active(j) => InWorker(j)
  BY DEF Active, InWorker, Carrying
<1>2. LifeOf(j) = IF j \in done THEN "done"
                  ELSE IF InDLQ(j) THEN "dead"
                  ELSE IF Active(j) THEN "active"
                  ELSE IF HasLiveCopy(j) THEN "waiting"
                  ELSE IF Unpushed(j) THEN "absent"
                  ELSE "gone"
  BY DEF LifeOf, Active, Unpushed
<1>3. /\ Spots(j) = {} <=> ~HasLiveCopy(j) /\ ~InDLQ(j)
      /\ InDLQ(j) => Spots(j) = {"dlq"} /\ j \notin done
      /\ Spots(j) = {"dlq"} => InDLQ(j)
      /\ InWorker(j) => Spots(j) = {"worker"} /\ j \notin done
      /\ Spots(j) # {} => j \notin done /\ ~Unpushed(j)
  <2>1. /\ Spots(j) # {} => j \notin done /\ ~Unpushed(j)
        /\ \A p \in Spots(j) : Spots(j) = {p}
    BY OnlySpot
  <2>2. Spots(j) = {} <=> ~HasLiveCopy(j) /\ ~InDLQ(j)
    BY SpotsDecided DEF HasLiveCopy, Places
  <2> QED
    BY <2>1, <2>2, SpotsDecided
<1>4. InDLQ(j) => ~Active(j)
  BY <1>1, <1>3
<1> QED
  BY <1>1, <1>2, <1>3, <1>4 DEF Apart

\* A job nobody touches keeps its life.
LEMMA LifeKept ==
  ASSUME LifeFacts, LifeFacts', Apart, NEW j \in Jobs, Spots(j)' = Spots(j),
         Active(j)' <=> Active(j), j \in done' <=> j \in done, Unpushed(j)' <=> Unpushed(j)
  PROVE  LifeOf(j)' = LifeOf(j)
<1>1. /\ j \in done => LifeOf(j) = "done"
      /\ Spots(j) = {"dlq"} => LifeOf(j) = "dead"
      /\ Active(j) => LifeOf(j) = "active"
      /\ Spots(j) \notin {{}, {"dlq"}} /\ ~Active(j) => LifeOf(j) = "waiting"
      /\ Unpushed(j) => LifeOf(j) = "absent"
      /\ Spots(j) = {} /\ j \notin done /\ ~Unpushed(j) => LifeOf(j) = "gone"
  BY DEF LifeFacts
<1>2. /\ j \in done' => LifeOf(j)' = "done"
      /\ Spots(j)' = {"dlq"} => LifeOf(j)' = "dead"
      /\ Active(j)' => LifeOf(j)' = "active"
      /\ Spots(j)' \notin {{}, {"dlq"}} /\ ~Active(j)' => LifeOf(j)' = "waiting"
      /\ Unpushed(j)' => LifeOf(j)' = "absent"
      /\ Spots(j)' = {} /\ j \notin done' /\ ~Unpushed(j)' => LifeOf(j)' = "gone"
  BY DEF LifeFacts
<1> QED
  BY <1>1, <1>2

\* Steps of the life from the lives of the jobs.
LEMMA LifeStutters ==
  ASSUME \A k \in Jobs : LifeOf(k)' = LifeOf(k), UNCHANGED runs
  PROVE  UNCHANGED Life!lifeVars
  BY DEF Life!lifeVars

LEMMA LifeBecomes ==
  ASSUME NEW j \in Jobs, NEW from, NEW to, LifeOf(j) = from, LifeOf(j)' = to,
         \A k \in Jobs \ {j} : LifeOf(k)' = LifeOf(k)
  PROVE  Life!Becomes(j, from, to)
  BY DEF Life!Becomes

LEMMA LifeLoses ==
  ASSUME NEW S \in SUBSET Jobs, UNCHANGED runs,
         \A k \in S : LifeOf(k) \in {"absent", "waiting", "active"} /\ LifeOf(k)' = "gone",
         \A k \in Jobs \ S : LifeOf(k)' = LifeOf(k)
  PROVE  Life!LifeNext
<1>1. Life!Lose(S)
  BY DEF Life!Lose
<1> QED
  BY <1>1 DEF Life!LifeNext

\* The worker's steps that do and do not change who is active.
LEMMA SameActive ==
  ASSUME HeldOK,
         \A w \in Workers : pc'[w] \in {"handling", "failing"} <=> pc[w] \in {"handling", "failing"},
         \A w \in Workers : \A j \in Jobs :
           pc[w] \in {"handling", "failing"} => (Holds(w, j)' <=> Holds(w, j))
  PROVE  \A k \in Jobs : Active(k)' <=> Active(k)
  BY DEF Active

LEMMA EndsActive ==
  ASSUME HeldOK, WorkerOnce, NEW w \in Workers, NEW from \in {"handling", "failing"},
         NEW to, to \notin {"handling", "failing"}, Goto(w, from, to), UNCHANGED held,
         NEW e \in held[w]
  PROVE  /\ Active(e.id) /\ ~Active(e.id)'
         /\ \A k \in Jobs \ {e.id} : Active(k)' <=> Active(k)
<1>1. e.id \in Jobs
  BY DEF HeldOK, Envelope
<1>2. pc[w] = from /\ pc'[w] = to /\ \A v \in Workers \ {w} : pc'[v] = pc[v]
  BY DEF HeldOK, Goto
<1>3. \A v \in Workers, j \in Jobs : Holds(v, j)' <=> Holds(v, j)
  BY DEF Holds
<1>4. \A j \in Jobs : Holds(w, j) <=> j = e.id
  BY HoldsOne
<1>5. Active(e.id)
  BY <1>1, <1>2, <1>4 DEF Active
<1>6. ~Active(e.id)'
  BY <1>1, <1>2, <1>3, <1>4 DEF Active, WorkerOnce, Carrying
<1>7. \A k \in Jobs \ {e.id} : Active(k)' <=> Active(k)
  BY <1>2, <1>3, <1>4 DEF Active
<1> QED
  BY <1>5, <1>6, <1>7

\* A step that loses at most one job, and changes no other.
LEMMA LosesOne ==
  ASSUME LifeFacts, LifeFacts', Apart, NEW j \in Jobs, Spots(j) \notin {{}, {"dlq"}}, Move(j, {}),
         \A k \in Jobs \ {j} : Active(k)' <=> Active(k), UNCHANGED <<tx, runs, done>>
  PROVE  Life!LifeNext
<1>1. Spots(j)' = {} /\ \A k \in Jobs \ {j} : Spots(k)' = Spots(k)
  BY DEF Move
<1>2. \A k \in Jobs \ {j} : LifeOf(k)' = LifeOf(k)
  BY <1>1, LifeKept DEF Unpushed
<1>3. j \notin done /\ ~Unpushed(j)
  BY DEF Apart
<1>4. LifeOf(j) \in {"waiting", "active"} /\ LifeOf(j)' = "gone"
  <2>1. LifeOf(j) \in {"waiting", "active"}
    BY DEF LifeFacts
  <2>2. Spots(j)' = {} /\ j \notin done' /\ ~Unpushed(j)'
    BY <1>1, <1>3 DEF Unpushed
  <2>3. LifeOf(j)' = "gone"
    BY <2>2 DEF LifeFacts
  <2> QED
    BY <2>1, <2>3
<1>5. PICK S \in SUBSET Jobs : S = {j}
  OBVIOUS
<1>6. /\ \A k \in S : LifeOf(k) \in {"absent", "waiting", "active"} /\ LifeOf(k)' = "gone"
      /\ \A k \in Jobs \ S : LifeOf(k)' = LifeOf(k)
  BY <1>2, <1>4, <1>5
<1> QED
  BY <1>6, LifeLoses

\* A step that moves one job between places where it waits.
LEMMA WaitsOn ==
  ASSUME LifeFacts, LifeFacts', Apart, NEW j \in Jobs, Spots(j) \notin {{}, {"dlq"}}, ~Active(j),
         NEW p, p # "dlq", Move(j, {p}), \A k \in Jobs : Active(k)' <=> Active(k),
         UNCHANGED <<tx, runs, done>>
  PROVE  UNCHANGED Life!lifeVars
<1>1. Spots(j)' = {p} /\ \A k \in Jobs \ {j} : Spots(k)' = Spots(k)
  BY DEF Move
<1>2. \A k \in Jobs \ {j} : LifeOf(k)' = LifeOf(k)
  BY <1>1, LifeKept DEF Unpushed
<1>3. LifeOf(j) = "waiting"
  BY DEF LifeFacts
<1>4. LifeOf(j)' = "waiting"
  <2>1. Spots(j)' \notin {{}, {"dlq"}} /\ ~Active(j)'
    BY <1>1
  <2> QED
    BY <2>1 DEF LifeFacts
<1> QED
  BY <1>2, <1>3, <1>4, LifeStutters

\* A step that moves no job and makes none active or idle.
LEMMA LivesOn ==
  ASSUME LifeFacts, LifeFacts', Apart, Stay, \A k \in Jobs : Active(k)' <=> Active(k),
         UNCHANGED <<runs, done>>, \A k \in Jobs : Unpushed(k)' <=> Unpushed(k)
  PROVE  UNCHANGED Life!lifeVars
<1>1. \A k \in Jobs : LifeOf(k)' = LifeOf(k)
  BY LifeKept DEF Stay
<1> QED
  BY <1>1, LifeStutters

\* The start of a handler.
LEMMA RunningStarts ==
  ASSUME TypeInv, PlaceInv, CountInv, LifeFacts, LifeFacts', NEW w \in Workers, MarkRunning(w)
  PROVE  Life!LifeNext
<1>1. PICK e \in held[w] : Goto(w, "popped", "handling") /\ runs' = [runs EXCEPT ![e.id] = @ + 1]
  BY DEF MarkRunning
<1>2. UNCHANGED <<tx, held, done>> /\ Stay
  BY RunningMoves DEF MarkRunning
<1>3. /\ e.id \in Jobs /\ e.attempts < MaxRetries /\ e.attempts = runs[e.id]
      /\ pc \in [Workers -> WorkerStates] /\ runs \in [Jobs -> Nat]
      /\ held \in [Workers -> SUBSET Envelope]
  BY <1>1 DEF TypeInv, HeldOK, Goto, Envelope, CountInv, HeldCount, RowsOK
<1>4. pc[w] = "popped" /\ pc'[w] = "handling" /\ \A v \in Workers \ {w} : pc'[v] = pc[v]
  BY <1>1, <1>3 DEF Goto
<1>5. \A v \in Workers, j \in Jobs : Holds(v, j)' <=> Holds(v, j)
  BY <1>2 DEF Holds
<1>6. \A j \in Jobs : Holds(w, j) <=> j = e.id
  BY HoldsOne DEF PlaceInv, Once
<1>7. ~Active(e.id)
  BY <1>3, <1>4, <1>6 DEF Active, PlaceInv, Once, WorkerOnce, Carrying
<1>8. Active(e.id)' /\ \A k \in Jobs \ {e.id} : Active(k)' <=> Active(k)
  BY <1>3, <1>4, <1>5, <1>6 DEF Active
<1>9. Spots(e.id) = {"worker"}
  <2>1. InWorker(e.id)
    BY <1>3, <1>4, <1>6 DEF InWorker, Carrying
  <2> QED
    BY <1>3, <2>1, SpotsDecided, OnlySpot DEF PlaceInv
<1>10. \A k \in Jobs \ {e.id} : LifeOf(k)' = LifeOf(k)
  BY <1>2, <1>8, LifeKept DEF PlaceInv, Stay, Unpushed
<1>11. LifeOf(e.id) = "waiting" /\ LifeOf(e.id)' = "active"
  BY <1>3, <1>7, <1>8, <1>9 DEF LifeFacts
<1>12. Life!Becomes(e.id, "waiting", "active")
  BY <1>3, <1>10, <1>11, LifeBecomes
<1>13. Life!Start(e.id)
  BY <1>1, <1>3, <1>12 DEF Life!Start
<1> QED
  BY <1>3, <1>13 DEF Life!LifeNext

\* The end of a handler: a success, a retry, a burial, or a job lost on the way.
LEMMA HandlerEnds ==
  ASSUME TypeInv, PlaceInv, CountInv, LifeFacts, LifeFacts', NEW w \in Workers,
         HandlerSucceeds(w) \/ ScheduleRetry(w) \/ PushDLQ(w)
  PROVE  Life!LifeNext
<1>1. PICK e \in held[w] : /\ ScheduleRetry(w) => ~Exhausted(e)
                           /\ PushDLQ(w) => Exhausted(e)
                           /\ HandlerSucceeds(w) => done' = done \union {e.id}
  <2>1. \A e, f \in held[w] : e = f
    BY DEF PlaceInv, Once, WorkerOnce
  <2>2. \E e \in held[w] : TRUE
    BY DEF HandlerSucceeds, ScheduleRetry, PushDLQ
  <2> QED
    BY <2>1, <2>2 DEF HandlerSucceeds, ScheduleRetry, PushDLQ
<1>2. UNCHANGED <<tx, runs, held>>
  BY DEF HandlerSucceeds, ScheduleRetry, PushDLQ, history
<1>3. e \in Envelope /\ e.id \in Jobs /\ Spots(e.id) = {"worker"}
  BY SuccessMoves, RetryMoves, BuryMoves DEF Envelope
<1>4. /\ Active(e.id) /\ ~Active(e.id)'
      /\ \A k \in Jobs \ {e.id} : Active(k)' <=> Active(k)
  <2>1. \/ Goto(w, "handling", "succeeded")
        \/ Goto(w, "failing", "retrying")
        \/ Goto(w, "failing", "dead")
    BY DEF HandlerSucceeds, ScheduleRetry, PushDLQ
  <2> QED
    BY <1>2, <2>1, EndsActive DEF TypeInv, PlaceInv, Once
<1>5. LifeOf(e.id) = "active" /\ e.id \notin done /\ ~Unpushed(e.id)
  BY <1>3, <1>4 DEF LifeFacts, PlaceInv, Apart
<1>6. ASSUME NEW S, Move(e.id, S), UNCHANGED done \/ done' = done \union {e.id}
      PROVE  \A k \in Jobs \ {e.id} : LifeOf(k)' = LifeOf(k)
  BY <1>2, <1>4, <1>6, LifeKept DEF Move, PlaceInv, Unpushed
<1>7. CASE HandlerSucceeds(w)
  <2>1. Move(e.id, {}) /\ e.id \in done'
    BY <1>1, <1>7, SuccessMoves
  <2>2. LifeOf(e.id)' = "done"
    BY <1>3, <2>1 DEF LifeFacts
  <2>3. Life!Becomes(e.id, "active", "done")
    BY <1>1, <1>3, <1>5, <1>6, <1>7, <2>1, <2>2, LifeBecomes
  <2>4. Life!Finish(e.id)
    BY <1>2, <2>3 DEF Life!Finish
  <2> QED
    BY <1>3, <2>4 DEF Life!LifeNext
<1>8. CASE ScheduleRetry(w) \/ PushDLQ(w)
  <2>1. UNCHANGED done
    BY <1>8 DEF ScheduleRetry, PushDLQ, history
  <2>2. CASE Move(e.id, {})
    <3>1. Spots(e.id) \notin {{}, {"dlq"}}
      BY <1>3
    <3> QED
      BY <1>2, <1>3, <1>4, <2>1, <2>2, <3>1, LosesOne DEF PlaceInv
  <2>3. CASE ScheduleRetry(w) /\ Move(e.id, {"delayed"})
    <3>1. LifeOf(e.id)' = "waiting"
      <4>1. Spots(e.id)' \notin {{}, {"dlq"}}
        BY <2>3 DEF Move
      <4> QED
        BY <1>3, <1>4, <4>1 DEF LifeFacts
    <3>2. Life!Becomes(e.id, "active", "waiting")
      BY <1>3, <1>5, <1>6, <2>1, <2>3, <3>1, LifeBecomes
    <3>3. runs[e.id] < MaxRetries
      <4>1. pc[w] = "failing" /\ e.attempts = runs[e.id]
        BY <2>3 DEF ScheduleRetry, Goto, CountInv, HeldCount
      <4> QED
        BY <1>1, <1>3, <2>3, <4>1, MaxRetriesAssumption DEF Exhausted, Envelope
    <3>4. Life!Retry(e.id)
      BY <1>2, <3>2, <3>3 DEF Life!Retry
    <3> QED
      BY <1>3, <3>4 DEF Life!LifeNext
  <2>4. CASE PushDLQ(w) /\ Move(e.id, {"dlq"})
    <3>1. LifeOf(e.id)' = "dead"
      BY <1>3, <2>4 DEF LifeFacts, Move
    <3>2. Life!Becomes(e.id, "active", "dead")
      BY <1>3, <1>5, <1>6, <2>1, <2>4, <3>1, LifeBecomes
    <3>3. runs[e.id] = MaxRetries
      <4>1. pc[w] = "failing" /\ e.attempts = runs[e.id]
        BY <2>4 DEF PushDLQ, Goto, CountInv, HeldCount
      <4> QED
        BY <1>1, <1>3, <2>4, <4>1, MaxRetriesAssumption DEF Exhausted, Envelope
    <3>4. Life!Bury(e.id)
      BY <1>2, <3>2, <3>3 DEF Life!Bury
    <3> QED
      BY <1>3, <3>4 DEF Life!LifeNext
  <2> QED
    BY <1>8, <2>2, <2>3, <2>4, RetryMoves, BuryMoves
<1> QED
  BY <1>7, <1>8

\* Every step of the queue is a step of the lives of its jobs, or none.
LEMMA LifeStep ==
  TypeInv /\ PlaceInv /\ CountInv /\ LifeFacts /\ LifeFacts' /\ [Next]_vars
    => [Life!LifeNext]_(Life!lifeVars)
<1> SUFFICES ASSUME TypeInv, PlaceInv, CountInv, LifeFacts, LifeFacts', [Next]_vars
             PROVE  Life!LifeNext \/ UNCHANGED Life!lifeVars
  OBVIOUS
<1> USE DEF redisVars, workerVars, drainVars, history
<1>a. Apart /\ tx \in [Jobs -> TxStates] /\ HeldOK
  BY DEF TypeInv, PlaceInv, RowsOK
<1>b. UNCHANGED <<pc, held>> => \A k \in Jobs : Active(k)' <=> Active(k)
  BY DEF Active, Holds
<1>1. ASSUME NEW j \in Jobs, InsertJob(j) \/ Commit(j) PROVE UNCHANGED Life!lifeVars
  <2>1. /\ Stay /\ UNCHANGED <<runs, done, pc, held>>
        /\ \A k \in Jobs : Unpushed(k)' <=> Unpushed(k)
    BY <1>a, <1>1, NothingMoves DEF InsertJob, Commit, Unpushed
  <2> QED
    BY <1>a, <1>b, <2>1, LivesOn
<1>2. ASSUME NEW j \in Jobs, PushReady(j) \/ Rollback(j)
      PROVE  Life!LifeNext \/ UNCHANGED Life!lifeVars
  <2>1. UNCHANGED <<runs, done, pc, held>>
    BY <1>2 DEF PushReady, Rollback
  <2>2. /\ \A k \in Jobs \ {j} : Unpushed(k)' <=> Unpushed(k)
        /\ ~Unpushed(j)'
    BY <1>a, <1>2 DEF PushReady, Rollback, Unpushed
  <2>3. Stay \/ (PushReady(j) /\ Move(j, {"ready"}))
    BY <1>2, PushMoves, NothingMoves DEF Rollback
  <2>4. \A k \in Jobs \ {j} : LifeOf(k)' = LifeOf(k)
    BY <1>a, <1>b, <2>1, <2>2, <2>3, LifeKept DEF Stay, Move
  <2>5. CASE Unpushed(j) /\ Stay
    <3>1. LifeOf(j) = "absent" /\ Spots(j) = {} /\ j \notin done
      BY <1>a, <2>5 DEF LifeFacts, Apart
    <3>2. LifeOf(j)' = "gone"
      BY <2>1, <2>2, <2>5, <3>1 DEF LifeFacts, Stay
    <3>3. PICK S \in SUBSET Jobs : S = {j}
      OBVIOUS
    <3>4. /\ \A k \in S : LifeOf(k) \in {"absent", "waiting", "active"} /\ LifeOf(k)' = "gone"
          /\ \A k \in Jobs \ S : LifeOf(k)' = LifeOf(k)
      BY <2>4, <3>1, <3>2, <3>3
    <3> QED
      BY <2>1, <3>4, LifeLoses
  <2>6. CASE ~Unpushed(j) /\ Stay
    <3>1. \A k \in Jobs : Unpushed(k)' <=> Unpushed(k)
      BY <2>2, <2>6
    <3> QED
      BY <1>a, <1>b, <2>1, <2>6, <3>1, LivesOn
  <2>7. CASE PushReady(j) /\ Move(j, {"ready"})
    <3>1. Unpushed(j) /\ LifeOf(j) = "absent"
      BY <2>7 DEF PushReady, Unpushed, LifeFacts
    <3>2. LifeOf(j)' = "waiting"
      <4>1. Spots(j)' \notin {{}, {"dlq"}} /\ Spots(j)' # {"worker"}
        BY <2>7 DEF Move
      <4> QED
        BY <4>1 DEF LifeFacts
    <3>3. Life!Becomes(j, "absent", "waiting")
      BY <2>4, <3>1, <3>2, LifeBecomes
    <3>4. Life!Submit(j)
      BY <2>1, <3>3 DEF Life!Submit
    <3> QED
      BY <3>4 DEF Life!LifeNext
  <2> QED
    BY <2>3, <2>5, <2>6, <2>7
<1>3. ASSUME NEW w \in Workers, Pop(w) PROVE Life!LifeNext \/ UNCHANGED Life!lifeVars
  <2>1. UNCHANGED <<tx, runs, done>>
    BY <1>3 DEF Pop
  <2>2. PICK h \in Envelope :
          /\ Spots(h.id) = {"ready"}
          /\ Move(h.id, {"worker"}) \/ Move(h.id, {})
    BY <1>3, PopMoves
  <2>3. \A k \in Jobs : Active(k)' <=> Active(k)
    <3>1. \A v \in Workers : \/ pc'[v] = pc[v] /\ held'[v] = held[v]
                             \/ pc[v] = "idle" /\ pc'[v] = "popped"
      BY <1>a, <1>3 DEF Pop, Goto, HeldOK
    <3>2. /\ \A v \in Workers : pc'[v] \in {"handling", "failing"} <=> pc[v] \in {"handling", "failing"}
          /\ \A v \in Workers : \A j \in Jobs :
               pc[v] \in {"handling", "failing"} => (Holds(v, j)' <=> Holds(v, j))
      BY <3>1 DEF Holds
    <3> QED
      BY <1>a, <3>2, SameActive
  <2>4. h.id \in Jobs /\ Spots(h.id) \notin {{}, {"dlq"}} /\ ~Active(h.id)
    BY <2>2 DEF Envelope, LifeFacts
  <2> QED
    BY <1>a, <2>1, <2>2, <2>3, <2>4, WaitsOn, LosesOne
<1>4. ASSUME NEW w \in Workers, HandlerFails(w) PROVE UNCHANGED Life!lifeVars
  <2>1. UNCHANGED <<tx, runs, done>> /\ Stay
    BY <1>4, FailingMoves DEF HandlerFails
  <2>2. PICK e \in held[w] :
          Goto(w, "handling", "failing") /\ held' = [held EXCEPT ![w] = {[e EXCEPT !.attempts = @ + 1]}]
    BY <1>4 DEF HandlerFails
  <2>3. e \in Envelope /\ [e EXCEPT !.attempts = @ + 1].id = e.id
    BY <1>a DEF HeldOK, Envelope
  <2>4. \A j \in Jobs : Holds(w, j) <=> j = e.id
    BY HoldsOne DEF PlaceInv, Once
  <2>5. \A v \in Workers : \A j \in Jobs : Holds(v, j)' <=> Holds(v, j)
    <3>1. held'[w] = {[e EXCEPT !.attempts = @ + 1]} /\ \A v \in Workers \ {w} : held'[v] = held[v]
      BY <1>a, <2>2 DEF HeldOK
    <3>2. \A j \in Jobs : Holds(w, j)' <=> Holds(w, j)
      BY <2>3, <2>4, <3>1 DEF Holds
    <3> QED
      BY <3>1, <3>2 DEF Holds
  <2>6. \A v \in Workers : pc'[v] \in {"handling", "failing"} <=> pc[v] \in {"handling", "failing"}
    BY <1>a, <2>2 DEF Goto, HeldOK
  <2> QED
    BY <1>a, <2>1, <2>5, <2>6, SameActive, LivesOn DEF Unpushed
<1>5. ASSUME NEW w \in Workers, MarkCompleted(w) \/ MarkPending(w) \/ MarkFailed(w)
      PROVE  UNCHANGED Life!lifeVars
  <2>1. UNCHANGED <<tx, runs, done>>
    BY <1>5 DEF MarkCompleted, MarkPending, MarkFailed, Settle
  <2>2. {"succeeded", "retrying", "dead"} \intersect Carrying = {}
    BY DEF Carrying
  <2>3. Stay
    BY <1>5, <2>2, SettleMoves DEF MarkCompleted, MarkPending, MarkFailed
  <2>4. \A k \in Jobs : Active(k)' <=> Active(k)
    <3>1. \A v \in Workers : \/ pc'[v] = pc[v] /\ held'[v] = held[v]
                             \/ pc'[v] = "idle" /\ pc[v] \in {"succeeded", "retrying", "dead"}
      BY <1>a, <1>5 DEF MarkCompleted, MarkPending, MarkFailed, Settle, Goto, HeldOK
    <3>2. /\ \A v \in Workers : pc'[v] \in {"handling", "failing"} <=> pc[v] \in {"handling", "failing"}
          /\ \A v \in Workers : \A j \in Jobs :
               pc[v] \in {"handling", "failing"} => (Holds(v, j)' <=> Holds(v, j))
      BY <3>1 DEF Holds
    <3> QED
      BY <1>a, <3>2, SameActive
  <2> QED
    BY <1>a, <2>1, <2>3, <2>4, LivesOn DEF Unpushed
<1>6. ASSUME \/ \E e \in Envelope : BackoffElapses(e)
             \/ \E i \in Instances : DrainSnapshot(i)
             \/ UNCHANGED vars
      PROVE  UNCHANGED Life!lifeVars
  <2>1. UNCHANGED <<tx, runs, done, ready, delayed, dlq, pc, held, claimed>>
    BY <1>6 DEF BackoffElapses, DrainSnapshot, vars
  <2> QED
    BY <1>a, <1>b, <2>1, NothingMoves, LivesOn DEF Unpushed
<1>7. ASSUME NEW i \in Instances, DrainClaim(i) \/ DrainPush(i)
      PROVE  Life!LifeNext \/ UNCHANGED Life!lifeVars
  <2>1. UNCHANGED <<tx, runs, done, pc, held>>
    BY <1>7 DEF DrainClaim, DrainPush
  <2>2. \/ Stay
        \/ \E e \in Envelope : /\ Spots(e.id) \in {{"delayed"}, {"drain"}}
                               /\ \/ Move(e.id, {"drain"}) \/ Move(e.id, {"ready"})
                                  \/ Move(e.id, {})
    BY <1>7, ClaimMoves, DrainMoves DEF TypeInv, DelayedOK, DrainOK
  <2>3. CASE Stay
    BY <1>a, <1>b, <2>1, <2>3, LivesOn DEF Unpushed
  <2>4. ASSUME NEW e \in Envelope, Spots(e.id) \in {{"delayed"}, {"drain"}},
               Move(e.id, {"drain"}) \/ Move(e.id, {"ready"}) \/ Move(e.id, {})
        PROVE  Life!LifeNext \/ UNCHANGED Life!lifeVars
    <3>1. e.id \in Jobs /\ Spots(e.id) \notin {{}, {"dlq"}} /\ ~Active(e.id)
      BY <2>4 DEF Envelope, LifeFacts
    <3> QED
      BY <1>a, <1>b, <2>1, <2>4, <3>1, WaitsOn, LosesOne
  <2> QED
    BY <2>2, <2>3, <2>4
<1>8. ASSUME NEW i \in Instances, Crash(i) PROVE Life!LifeNext
  <2>1. UNCHANGED <<tx, runs, done>>
    BY <1>8 DEF Crash
  <2>2. \A k \in Jobs : Spots(k)' \subseteq Spots(k)
    BY <1>8, CrashMoves
  <2>3. ASSUME NEW k \in Jobs, Spots(k)' = Spots(k) PROVE LifeOf(k)' = LifeOf(k)
    <3>1. Active(k)' <=> Active(k)
      <4>1. \A v \in Workers : \/ pc'[v] = "idle" /\ held'[v] = {}
                               \/ pc'[v] = pc[v] /\ held'[v] = held[v]
        BY <1>8 DEF Crash
      <4>2. Active(k)' => Active(k)
        BY <4>1 DEF Active, Holds
      <4>3. ASSUME NEW w \in Workers, pc[w] \in {"handling", "failing"}, Holds(w, k)
            PROVE  Active(k)'
        <5>1. InWorker(k)
          BY <4>3 DEF InWorker, Carrying
        <5>2. InWorker(k)'
          BY <2>3, <5>1 DEF Spots, Places
        <5>3. PICK v \in Workers : pc'[v] \in Carrying /\ Holds(v, k)'
          BY <5>2 DEF InWorker
        <5>4. pc'[v] = pc[v] /\ held'[v] = held[v] /\ Holds(v, k)
          BY <4>1, <5>3 DEF Holds, Carrying
        <5>5. v = w
          BY <4>3, <5>3, <5>4 DEF PlaceInv, Once, WorkerOnce, Carrying
        <5> QED
          BY <4>3, <5>3, <5>4, <5>5 DEF Active
      <4> QED
        BY <4>2, <4>3 DEF Active
    <3> QED
      BY <1>a, <2>1, <2>3, <3>1, LifeKept DEF Unpushed
  <2>4. ASSUME NEW k \in Jobs, Spots(k)' # Spots(k)
        PROVE  LifeOf(k) \in {"absent", "waiting", "active"} /\ LifeOf(k)' = "gone"
    <3>1. Spots(k) # {} /\ Spots(k)' = {} /\ k \notin done /\ ~Unpushed(k)
      BY <1>a, <2>2, <2>4 DEF Apart
    <3>2. Spots(k) # {"dlq"}
      <4>1. InDLQ(k)' <=> InDLQ(k)
        BY <1>8 DEF Crash, InDLQ
      <4>2. "dlq" \in Spots(k) => "dlq" \in Spots(k)'
        BY <4>1 DEF Spots, Places
      <4> QED
        BY <3>1, <4>2
    <3>3. LifeOf(k) \in {"waiting", "active"}
      BY <3>1, <3>2 DEF LifeFacts
    <3>4. LifeOf(k)' = "gone"
      BY <2>1, <3>1 DEF LifeFacts, Unpushed
    <3> QED
      BY <3>3, <3>4
  <2>5. PICK S \in SUBSET Jobs : S = {k \in Jobs : Spots(k)' # Spots(k)}
    OBVIOUS
  <2>6. /\ \A k \in S : LifeOf(k) \in {"absent", "waiting", "active"} /\ LifeOf(k)' = "gone"
        /\ \A k \in Jobs \ S : LifeOf(k)' = LifeOf(k)
    BY <2>3, <2>4, <2>5
  <2> QED
    BY <2>1, <2>6, LifeLoses
<1> QED
  BY <1>1, <1>2, <1>3, <1>4, <1>5, <1>6, <1>7, <1>8, RunningStarts, HandlerEnds
  DEF Next, Producer, WorkerStep, SchedulerStep

LEMMA LifeBegins == Init /\ LifeFacts => Life!LifeInit
<1> SUFFICES ASSUME Init, LifeFacts PROVE Life!LifeInit
  OBVIOUS
<1>1. \A j \in Jobs : LifeOf(j) = "absent"
  BY DEF LifeFacts, Init, Unpushed
<1> QED
  BY <1>1 DEF Life!LifeInit, Init

\* Seen from outside, a job is submitted once, handled by one worker at a time,
\* tried at most MaxRetries times, and a success or a burial is final.
THEOREM QueueImplementsJobLife == Spec => ImplementsJobLife
<1> DEFINE Inv == TypeInv /\ PlaceInv /\ CountInv
<1>1. Init => Inv
  BY TypeInvInit, PlaceInvInit, CountInvInit
<1>2. Inv /\ [Next]_vars => Inv'
  BY TypeInvNext, PlaceInvNext, CountInvNext
<1>3. Inv => LifeFacts
  BY LifeDecided DEF PlaceInv
<1>4. Inv /\ LifeFacts /\ LifeFacts' /\ [Next]_vars => [Life!LifeNext]_(Life!lifeVars)
  BY LifeStep
<1>5. Init /\ LifeFacts => Life!LifeInit
  BY LifeBegins
<1> QED
  BY <1>1, <1>2, <1>3, <1>4, <1>5, PTL DEF Spec, ImplementsJobLife, Life!LifeSpec

-----------------------------------------------------------------------------
(* A final row stays.                                                      *)

\* What a scheduler still has to go through is no newer than the job's last
\* run, and older than the run that is on.
TodoOld ==
  \A i \in Instances : \A x \in todo[i] :
    /\ x.attempts <= runs[x.id]
    /\ \A w \in Workers : \A e \in held[w] :
         pc[w] \in {"handling", "failing"} /\ e.id = x.id => x.attempts < runs[x.id]

\* One worker ends a job, and its last write is not yet in the row.
LastWriter ==
  /\ \A w, v \in Workers : \A e \in held[w], f \in held[v] :
       pc[w] \in {"succeeded", "dead"} /\ pc[v] \in {"succeeded", "dead"} /\ e.id = f.id => w = v
  /\ \A w \in Workers : \A e \in held[w] :
       /\ pc[w] = "succeeded" => row[e.id].status # "completed"
       /\ pc[w] = "dead" => row[e.id].status # "failed"

\* As long as no backoff is overtaken, a worker that has yet to write "pending"
\* finds its job still waiting out the backoff, or lost.
RetryWaits ==
  "slow" \notin faults =>
    \A w \in Workers : \A e \in held[w] : pc[w] = "retrying" =>
      /\ e.id \notin done /\ ~Unpushed(e.id)
      /\ e.attempts = runs[e.id] /\ e.attempts < MaxRetries
      /\ Spots(e.id) = {} \/ (e \in delayed /\ e \notin due)
      /\ \A i \in Instances : e \notin todo[i]

WriteInv == TodoOld /\ LastWriter /\ RetryWaits

QueueInv == TypeInv /\ PlaceInv /\ CountInv /\ RowsInv

\* Runs are only added, by the worker of the job.
LEMMA RunsGrow ==
  ASSUME QueueInv, [Next]_vars, NEW j \in Jobs
  PROVE  runs'[j] >= runs[j]
<1>1. TypeInv'
  BY TypeInvNext DEF QueueInv
<1>2. runs \in [Jobs -> Nat]
  BY DEF QueueInv, TypeInv, RowsOK
<1>3. CASE runs' = runs
  BY <1>2, <1>3
<1>4. ASSUME NEW w \in Workers, MarkRunning(w) PROVE runs'[j] >= runs[j]
  BY <1>2, <1>4 DEF MarkRunning
<1> QED
  BY <1>3, <1>4
  DEF Next, Producer, WorkerStep, SchedulerStep, InsertJob, PushReady, Commit, Rollback, Pop,
      HandlerSucceeds, HandlerFails, ScheduleRetry, PushDLQ, MarkCompleted, MarkPending,
      MarkFailed, Settle, BackoffElapses, DrainSnapshot, DrainClaim, DrainPush, Crash, vars, history

\* A worker with a job in hand has the only copy.
LEMMA CarriedAlone ==
  ASSUME TypeInv, PlaceInv, NEW w \in Workers, pc[w] \in Carrying, NEW e \in held[w]
  PROVE  /\ e \in Envelope /\ e.id \in Jobs /\ Spots(e.id) = {"worker"}
         /\ e.id \notin done /\ ~Unpushed(e.id) /\ ~InDelayed(e.id)
<1>1. e \in Envelope /\ e.id \in Jobs /\ InWorker(e.id)
  BY DEF TypeInv, HeldOK, Envelope, InWorker, Holds
<1>2. Spots(e.id) = {"worker"} /\ e.id \notin done /\ ~Unpushed(e.id)
  BY <1>1, SpotsDecided, OnlySpot DEF PlaceInv
<1> QED
  BY <1>1, <1>2, SpotsDecided

LEMMA TodoOldNext == QueueInv /\ TodoOld /\ [Next]_vars => TodoOld'
<1> SUFFICES ASSUME QueueInv, TodoOld, [Next]_vars PROVE TodoOld'
  OBVIOUS
<1> USE DEF redisVars, workerVars, drainVars, history
<1>a. /\ TypeInv /\ PlaceInv /\ CountInv
      /\ pc \in [Workers -> WorkerStates] /\ held \in [Workers -> SUBSET Envelope]
      /\ todo \in [Instances -> SUBSET Envelope] /\ runs \in [Jobs -> Nat]
      /\ due \subseteq delayed /\ delayed \subseteq Envelope
  BY DEF QueueInv, TypeInv, HeldOK, DrainOK, RowsOK, DelayedOK
<1>b. \A x \in Envelope : x.id \in Jobs /\ x.attempts \in Nat
  BY MaxRetriesAssumption DEF Envelope
<1>c. \A j \in Jobs : runs[j] \in Nat /\ runs'[j] \in Nat /\ runs'[j] >= runs[j]
  <2>1. TypeInv'
    BY TypeInvNext DEF QueueInv
  <2> QED
    BY <1>a, <2>1, RunsGrow DEF TypeInv, RowsOK
<1>1. ASSUME \A i \in Instances : todo'[i] \subseteq todo[i],
             \A w \in Workers : \A e \in held'[w] : pc'[w] \in {"handling", "failing"} =>
               pc[w] \in {"handling", "failing"} /\ \E f \in held[w] : f.id = e.id
      PROVE  TodoOld'
  <2> SUFFICES ASSUME NEW i \in Instances, NEW x \in todo[i]
               PROVE  /\ x.attempts <= runs'[x.id]
                      /\ \A w \in Workers : \A e \in held'[w] :
                           pc'[w] \in {"handling", "failing"} /\ e.id = x.id
                             => x.attempts < runs'[x.id]
    BY <1>1 DEF TodoOld
  <2>1. x \in Envelope /\ x.id \in Jobs /\ x.attempts \in Nat /\ x.attempts <= runs[x.id]
    BY <1>a, <1>b DEF TodoOld
  <2>2. x.attempts <= runs'[x.id] /\ (x.attempts < runs[x.id] => x.attempts < runs'[x.id])
    BY <1>c, <2>1
  <2> QED
    BY <1>1, <2>2 DEF TodoOld
<1>2. ASSUME NEW w \in Workers, MarkRunning(w) PROVE TodoOld'
  <2>1. PICK e \in held[w] : Goto(w, "popped", "handling") /\ runs' = [runs EXCEPT ![e.id] = @ + 1]
    BY <1>2 DEF MarkRunning
  <2>2. UNCHANGED <<held, todo>>
    BY <1>2 DEF MarkRunning
  <2>3. \A f \in held[w] : f = e
    BY <1>a DEF PlaceInv, Once, WorkerOnce
  <2>4. \A v \in Workers \ {w} : pc'[v] = pc[v]
    BY <1>a, <2>1 DEF Goto
  <2> SUFFICES ASSUME NEW i \in Instances, NEW x \in todo[i]
               PROVE  /\ x.attempts <= runs'[x.id]
                      /\ \A v \in Workers : \A f \in held[v] :
                           pc'[v] \in {"handling", "failing"} /\ f.id = x.id
                             => x.attempts < runs'[x.id]
    BY <2>2 DEF TodoOld
  <2>5. x \in Envelope /\ x.id \in Jobs /\ x.attempts \in Nat /\ x.attempts <= runs[x.id]
    BY <1>a, <1>b DEF TodoOld
  <2>6. x.attempts <= runs'[x.id] /\ (x.attempts < runs[x.id] => x.attempts < runs'[x.id])
    BY <1>c, <2>5
  <2>7. e.id = x.id => runs'[x.id] = runs[x.id] + 1
    BY <1>a, <2>1, <2>5
  <2>8. e.id = x.id => x.attempts < runs'[x.id]
    BY <1>c, <2>5, <2>7
  <2> QED
    BY <2>3, <2>4, <2>6, <2>8 DEF TodoOld
<1>3. ASSUME NEW i \in Instances, DrainSnapshot(i) PROVE TodoOld'
  <2>1. todo' = [todo EXCEPT ![i] = due] /\ UNCHANGED <<runs, pc, held>>
    BY <1>3 DEF DrainSnapshot
  <2>2. ASSUME NEW x \in due
        PROVE  /\ x.attempts <= runs[x.id]
               /\ \A w \in Workers : \A e \in held[w] :
                    pc[w] \in {"handling", "failing"} /\ e.id = x.id => x.attempts < runs[x.id]
    <3>1. x \in delayed /\ x \in Envelope /\ x.attempts = runs[x.id]
      BY <1>a DEF CountInv, DelayedCount
    <3>2. x.attempts <= runs[x.id]
      BY <1>b, <3>1
    <3>3. ASSUME NEW w \in Workers, NEW e \in held[w], pc[w] \in {"handling", "failing"}, e.id = x.id
          PROVE  FALSE
      <4>1. ~InDelayed(e.id)
        BY <1>a, <3>3, CarriedAlone DEF Carrying
      <4> QED
        BY <3>1, <3>3, <4>1 DEF InDelayed
    <3> QED
      BY <3>2, <3>3
  <2>3. \A h \in Instances : \A x \in todo'[h] : x \in due \/ x \in todo[h]
    BY <1>a, <2>1
  <2> QED
    BY <2>1, <2>2, <2>3 DEF TodoOld
<1>4. ASSUME NEW w \in Workers, HandlerFails(w) PROVE TodoOld'
  <2>1. PICK e \in held[w] : /\ Goto(w, "handling", "failing")
                             /\ held' = [held EXCEPT ![w] = {[e EXCEPT !.attempts = @ + 1]}]
    BY <1>4 DEF HandlerFails
  <2>2. e \in Envelope /\ [e EXCEPT !.attempts = @ + 1].id = e.id
    BY <1>a DEF Envelope
  <2>3. \A v \in Workers : \A f \in held'[v] : pc'[v] \in {"handling", "failing"} =>
          pc[v] \in {"handling", "failing"} /\ \E g \in held[v] : g.id = f.id
    BY <1>a, <2>1, <2>2 DEF Goto
  <2>4. UNCHANGED todo
    BY <1>4 DEF HandlerFails
  <2> QED
    BY <1>1, <2>3, <2>4
<1>5. ASSUME NEW w \in Workers, \/ Pop(w) \/ HandlerSucceeds(w) \/ ScheduleRetry(w) \/ PushDLQ(w)
                                \/ MarkCompleted(w) \/ MarkPending(w) \/ MarkFailed(w)
      PROVE  TodoOld'
  <2>1. UNCHANGED todo
    BY <1>5 DEF Pop, HandlerSucceeds, ScheduleRetry, PushDLQ, MarkCompleted, MarkPending,
                MarkFailed, Settle
  <2>2. \A v \in Workers : \A f \in held'[v] : pc'[v] \in {"handling", "failing"} =>
          pc[v] \in {"handling", "failing"} /\ f \in held[v]
    BY <1>a, <1>5 DEF Pop, HandlerSucceeds, ScheduleRetry, PushDLQ, MarkCompleted, MarkPending,
                      MarkFailed, Settle, Goto
  <2> QED
    BY <1>1, <2>1, <2>2
<1>6. ASSUME \/ \E j \in Jobs : Producer(j) \/ Rollback(j)
             \/ \E e \in Envelope : BackoffElapses(e)
             \/ \E i \in Instances : DrainClaim(i) \/ DrainPush(i) \/ Crash(i)
             \/ UNCHANGED vars
      PROVE  TodoOld'
  <2>1. \A i \in Instances : todo'[i] \subseteq todo[i]
    BY <1>a, <1>6 DEF Producer, InsertJob, PushReady, Commit, Rollback, BackoffElapses, DrainClaim,
                      DrainPush, Crash, vars
  <2>2. \A v \in Workers : \A f \in held'[v] : pc'[v] \in {"handling", "failing"} =>
          pc[v] \in {"handling", "failing"} /\ f \in held[v]
    BY <1>a, <1>6 DEF Producer, InsertJob, PushReady, Commit, Rollback, BackoffElapses, DrainClaim,
                      DrainPush, Crash, vars
  <2> QED
    BY <1>1, <2>1, <2>2
<1> QED
  BY <1>2, <1>3, <1>4, <1>5, <1>6 DEF Next, WorkerStep, SchedulerStep

LEMMA LastWriterNext == QueueInv /\ LastWriter /\ [Next]_vars => LastWriter'
<1> SUFFICES ASSUME QueueInv, LastWriter, [Next]_vars PROVE LastWriter'
  OBVIOUS
<1> USE DEF redisVars, workerVars, drainVars, history
<1>a. /\ TypeInv /\ PlaceInv /\ CountInv /\ RowsInv
      /\ pc \in [Workers -> WorkerStates] /\ held \in [Workers -> SUBSET Envelope]
      /\ row \in [Jobs -> [status : RowStates, attempts : 0 .. MaxRetries]]
      /\ \A w \in Workers : \A e, f \in held[w] : e = f
      /\ \A w \in Workers : \A e \in held[w] : e.id \in Jobs
  BY DEF QueueInv, TypeInv, HeldOK, RowsOK, PlaceInv, Once, WorkerOnce, Envelope
<1> DEFINE Ends == {"succeeded", "dead"}
<1>1. ASSUME \A w \in Workers : \A e \in held'[w] : pc'[w] \in Ends =>
               pc'[w] = pc[w] /\ e \in held[w],
             \A j \in Jobs : row'[j] = row[j] \/ row'[j].status \in {"pending", "running"}
      PROVE  LastWriter'
  <2>1. ASSUME NEW w \in Workers, NEW v \in Workers, NEW e \in held'[w], NEW f \in held'[v],
               pc'[w] \in Ends, pc'[v] \in Ends, e.id = f.id
        PROVE  w = v
    BY <1>1, <2>1 DEF LastWriter
  <2>2. ASSUME NEW w \in Workers, NEW e \in held'[w], pc'[w] \in Ends
        PROVE  /\ pc'[w] = "succeeded" => row'[e.id].status # "completed"
               /\ pc'[w] = "dead" => row'[e.id].status # "failed"
    <3>1. pc'[w] = pc[w] /\ e \in held[w] /\ e.id \in Jobs
      BY <1>a, <1>1, <2>2
    <3> QED
      BY <1>1, <3>1 DEF LastWriter
  <2> QED
    BY <2>1, <2>2 DEF LastWriter
<1>2. ASSUME NEW w \in Workers, HandlerSucceeds(w) \/ PushDLQ(w) PROVE LastWriter'
  <2>1. PICK e \in held[w] : TRUE
    BY <1>2 DEF HandlerSucceeds, PushDLQ
  <2>2. UNCHANGED <<row, held>> /\ pc[w] \in Carrying /\ \A v \in Workers \ {w} : pc'[v] = pc[v]
    BY <1>a, <1>2 DEF HandlerSucceeds, PushDLQ, Goto, Carrying
  <2>3. e.id \in Jobs /\ Spots(e.id) = {"worker"} /\ e.id \notin done
    BY <1>a, <2>2, CarriedAlone
  <2>4. ASSUME NEW v \in Workers \ {w}, NEW f \in held[v], pc[v] \in Ends PROVE f.id # e.id
    <3>1. CASE pc[v] = "succeeded"
      BY <1>a, <2>3, <3>1 DEF CountInv, HeldCount
    <3>2. CASE pc[v] = "dead"
      <4>1. Spots(f.id) \subseteq {"dlq"}
        BY <1>a, <3>2 DEF RowsInv, Buried
      <4> QED
        BY <2>3, <4>1
    <3> QED
      BY <2>4, <3>1, <3>2
  <2>5. row[e.id].status \notin {"completed", "failed"}
    BY <1>a, <2>3 DEF RowsInv, Buried
  <2>6. \A f \in held[w] : f = e
    BY <1>a
  <2>7. \A v, u \in Workers : \A f \in held[v], g \in held[u] :
          pc'[v] \in Ends /\ pc'[u] \in Ends /\ f.id = g.id => v = u
    BY <2>2, <2>4, <2>6 DEF LastWriter
  <2>8. \A v \in Workers : \A f \in held[v] :
          /\ pc'[v] = "succeeded" => row[f.id].status # "completed"
          /\ pc'[v] = "dead" => row[f.id].status # "failed"
    BY <2>2, <2>5, <2>6 DEF LastWriter
  <2> QED
    BY <2>2, <2>7, <2>8 DEF LastWriter
<1>3. ASSUME NEW w \in Workers, NEW from, NEW status \in {"completed", "failed"},
             from \in Ends, Settle(w, from, status)
      PROVE  LastWriter'
  <2>1. PICK e \in held[w] : SetStatus(e.id, status, e.attempts)
    BY <1>3 DEF Settle
  <2>2. /\ pc[w] \in Ends /\ pc'[w] = "idle" /\ held'[w] = {}
        /\ \A v \in Workers \ {w} : pc'[v] = pc[v] /\ held'[v] = held[v]
    BY <1>a, <1>3 DEF Settle, Goto
  <2>3. \A k \in Jobs \ {e.id} : row'[k] = row[k]
    BY <1>a, <2>1, StatusWritten
  <2>4. \A v \in Workers : \A f \in held'[v] : pc'[v] \in Ends => v # w /\ f.id # e.id
    BY <2>2 DEF LastWriter
  <2>5. \A v \in Workers : \A f \in held'[v] : pc'[v] \in Ends => row'[f.id] = row[f.id]
    BY <1>a, <2>2, <2>3, <2>4
  <2>6. \A v \in Workers : \A f \in held'[v] :
          pc'[v] \in Ends => pc'[v] = pc[v] /\ f \in held[v]
    BY <2>2
  <2>7. \A v, u \in Workers : \A f \in held'[v], g \in held'[u] :
          pc'[v] \in Ends /\ pc'[u] \in Ends /\ f.id = g.id => v = u
    BY <2>6 DEF LastWriter
  <2>8. \A v \in Workers : \A f \in held'[v] :
          /\ pc'[v] = "succeeded" => row'[f.id].status # "completed"
          /\ pc'[v] = "dead" => row'[f.id].status # "failed"
    BY <2>5, <2>6 DEF LastWriter
  <2> QED
    BY <2>7, <2>8 DEF LastWriter
<1>4. ASSUME NEW j \in Jobs, Producer(j) \/ Rollback(j) PROVE LastWriter'
  <2>1. UNCHANGED <<pc, held>>
    BY <1>4 DEF Producer, InsertJob, PushReady, Commit, Rollback
  <2>2. \A k \in Jobs : row'[k] = row[k] \/ row'[k].status \in {"pending", "running"}
    BY <1>a, <1>4 DEF Producer, InsertJob, PushReady, Commit, Rollback
  <2> QED
    BY <1>1, <2>1, <2>2
<1>5. ASSUME NEW w \in Workers, MarkRunning(w) \/ MarkPending(w) PROVE LastWriter'
  <2>1. PICK e \in held[w] : \E s \in {"running", "pending"}, n \in 0 .. MaxRetries :
          SetStatus(e.id, s, n)
    <3>1. \A e \in held[w] : e.attempts \in 0 .. MaxRetries
      BY <1>a DEF Envelope
    <3> QED
      BY <1>5, <3>1, MaxRetriesAssumption DEF MarkRunning, MarkPending, Settle
  <2>2. \A k \in Jobs : row'[k] = row[k] \/ row'[k].status \in {"pending", "running"}
    BY <1>a, <2>1, StatusWritten
  <2>3. \A v \in Workers : \A f \in held'[v] :
          pc'[v] \in Ends => pc'[v] = pc[v] /\ f \in held[v]
    BY <1>a, <1>5 DEF MarkRunning, MarkPending, Settle, Goto
  <2> QED
    BY <1>1, <2>2, <2>3
<1>6. ASSUME \/ \E w \in Workers : Pop(w) \/ HandlerFails(w) \/ ScheduleRetry(w)
             \/ \E e \in Envelope : BackoffElapses(e)
             \/ \E i \in Instances : SchedulerStep(i) \/ Crash(i)
             \/ UNCHANGED vars
      PROVE  LastWriter'
  <2>1. UNCHANGED row
    BY <1>6 DEF Pop, HandlerFails, ScheduleRetry, BackoffElapses, SchedulerStep, DrainSnapshot,
                DrainClaim, DrainPush, Crash, vars
  <2>2. \A v \in Workers : \A f \in held'[v] :
          pc'[v] \in Ends => pc'[v] = pc[v] /\ f \in held[v]
    BY <1>a, <1>6 DEF Pop, HandlerFails, ScheduleRetry, Goto, BackoffElapses, SchedulerStep,
                      DrainSnapshot, DrainClaim, DrainPush, Crash, vars
  <2> QED
    BY <1>1, <2>1, <2>2
<1> QED
  BY <1>2, <1>3, <1>4, <1>5, <1>6
  DEF Next, WorkerStep, MarkCompleted, MarkFailed

LEMMA RetryWaitsNext == QueueInv /\ TodoOld /\ RetryWaits /\ [Next]_vars => RetryWaits'
<1> SUFFICES ASSUME QueueInv, TodoOld, RetryWaits, [Next]_vars, "slow" \notin faults
             PROVE  RetryWaits'
  BY FaultsFixed DEF RetryWaits
<1> USE DEF redisVars, workerVars, drainVars, history
<1>a. /\ TypeInv /\ PlaceInv /\ CountInv
      /\ pc \in [Workers -> WorkerStates] /\ held \in [Workers -> SUBSET Envelope]
      /\ todo \in [Instances -> SUBSET Envelope]
      /\ due \subseteq delayed
      /\ \A w \in Workers : \A e, f \in held[w] : e = f
      /\ \A w \in Workers : \A e \in held[w] : e \in Envelope /\ e.id \in Jobs
  BY DEF QueueInv, TypeInv, HeldOK, DrainOK, DelayedOK, PlaceInv, Once, WorkerOnce, Envelope
<1>b. \A j \in Jobs : JobStep(j)
  BY <1>a, JobSteps
<1>1. ASSUME NEW w \in Workers, NEW e \in held[w], pc[w] = "retrying",
             e \in delayed /\ e \notin due => e \in delayed' /\ e \notin due',
             \A i \in Instances : e \notin todo'[i]
      PROVE  /\ e.id \notin done' /\ ~Unpushed(e.id)'
             /\ e.attempts = runs'[e.id] /\ e.attempts < MaxRetries
             /\ Spots(e.id)' = {} \/ (e \in delayed' /\ e \notin due')
             /\ \A i \in Instances : e \notin todo'[i]
  <2>1. /\ e.id \notin done /\ ~Unpushed(e.id)
        /\ e.attempts = runs[e.id] /\ e.attempts < MaxRetries
        /\ Spots(e.id) = {} \/ (e \in delayed /\ e \notin due)
    BY <1>1 DEF RetryWaits
  <2>2. e.id \in Jobs /\ JobStep(e.id)
    BY <1>a, <1>b
  <2>3. Spots(e.id) # {"worker"}
    <3>1. e \in delayed => "delayed" \in Spots(e.id)
      BY <2>2, SpotsDecided DEF InDelayed
    <3> QED
      BY <2>1, <3>1
  <2>4. e.id \notin done' /\ ~Unpushed(e.id)' /\ e.attempts = runs'[e.id]
    BY <2>1, <2>2, <2>3 DEF JobStep
  <2>5. Spots(e.id) = {} => Spots(e.id)' = {}
    BY <2>1, <2>2 DEF JobStep
  <2> QED
    BY <1>1, <2>1, <2>4, <2>5
<1>2. ASSUME \A w \in Workers : \A e \in held'[w] : pc'[w] = "retrying" =>
               pc[w] = "retrying" /\ e \in held[w],
             \A w \in Workers : \A e \in held[w] : pc[w] = "retrying" =>
               /\ e \in delayed /\ e \notin due => e \in delayed' /\ e \notin due'
               /\ \A i \in Instances : e \notin todo'[i]
      PROVE  RetryWaits'
  BY <1>1, <1>2 DEF RetryWaits
<1>3. ASSUME NEW w \in Workers, ScheduleRetry(w) PROVE RetryWaits'
  <2>1. PICK e \in held[w] : ~Exhausted(e)
    BY <1>3 DEF ScheduleRetry
  <2>2. /\ pc[w] = "failing" /\ \A v \in Workers \ {w} : pc'[v] = pc[v]
        /\ UNCHANGED <<held, due, todo, runs, done, tx>>
    BY <1>a, <1>3 DEF ScheduleRetry, Goto
  <2>3. /\ e.id \notin done /\ ~Unpushed(e.id) /\ ~InDelayed(e.id)
        /\ e.attempts = runs[e.id] /\ e.attempts < MaxRetries
    <3>1. e.id \notin done /\ ~Unpushed(e.id) /\ ~InDelayed(e.id)
      BY <1>a, <2>2, CarriedAlone DEF Carrying
    <3>2. e.attempts = runs[e.id]
      BY <1>a, <2>2 DEF CountInv, HeldCount
    <3>3. e.attempts < MaxRetries
      BY <1>a, <2>1, MaxRetriesAssumption DEF Envelope, Exhausted
    <3> QED
      BY <3>1, <3>2, <3>3
  <2>4. Spots(e.id)' = {} \/ (e \in delayed' /\ e \notin due')
    <3>1. delayed' = delayed \union {e} \/ Move(e.id, {})
      BY <1>a, <1>3, RetryMoves
    <3>2. e \notin due
      BY <1>a, <2>3 DEF InDelayed
    <3> QED
      BY <2>2, <3>1, <3>2 DEF Move
  <2>5. \A i \in Instances : e \notin todo[i]
    <3> SUFFICES ASSUME NEW i \in Instances, e \in todo[i] PROVE FALSE
      OBVIOUS
    <3>1. e.attempts < runs[e.id]
      BY <2>2 DEF TodoOld
    <3> QED
      BY <1>a, <2>3, <3>1, MaxRetriesAssumption DEF Envelope
  <2>6. \A v \in Workers \ {w} : \A f \in held[v] : pc[v] = "retrying" =>
          (f \in delayed /\ f \notin due => f \in delayed' /\ f \notin due')
    BY <1>3, <2>2 DEF ScheduleRetry
  <2>7. ASSUME NEW v \in Workers, NEW f \in held'[v], pc'[v] = "retrying"
        PROVE  /\ f.id \notin done' /\ ~Unpushed(f.id)'
               /\ f.attempts = runs'[f.id] /\ f.attempts < MaxRetries
               /\ Spots(f.id)' = {} \/ (f \in delayed' /\ f \notin due')
               /\ \A i \in Instances : f \notin todo'[i]
    <3>1. CASE v = w
      <4>1. f = e
        BY <1>a, <2>2, <2>7, <3>1
      <4> QED
        BY <2>2, <2>3, <2>4, <2>5, <4>1 DEF Unpushed
    <3>2. CASE v # w
      <4>1. f \in held[v] /\ pc[v] = "retrying" /\ \A i \in Instances : f \notin todo'[i]
        BY <2>2, <2>7, <3>2 DEF RetryWaits
      <4> QED
        BY <1>1, <2>6, <3>2, <4>1
    <3> QED
      BY <3>1, <3>2
  <2> QED
    BY <2>7 DEF RetryWaits
<1>4. ASSUME NEW x \in Envelope, BackoffElapses(x) PROVE RetryWaits'
  <2>1. \A w \in Workers : ~(pc[w] = "retrying" /\ x \in held[w])
    BY <1>4 DEF BackoffElapses
  <2>2. due' = due \union {x} /\ UNCHANGED <<pc, held, delayed, todo>>
    BY <1>4 DEF BackoffElapses
  <2> QED
    BY <1>2, <2>1, <2>2 DEF RetryWaits
<1>5. ASSUME NEW i \in Instances, DrainSnapshot(i) PROVE RetryWaits'
  <2>1. todo' = [todo EXCEPT ![i] = due] /\ UNCHANGED <<pc, held, delayed, due>>
    BY <1>5 DEF DrainSnapshot
  <2>2. ASSUME NEW w \in Workers, NEW e \in held[w], pc[w] = "retrying" PROVE e \notin due
    <3>1. Spots(e.id) = {} \/ e \notin due
      BY <2>2 DEF RetryWaits
    <3>2. e \in due => "delayed" \in Spots(e.id)
      BY <1>a, SpotsDecided DEF InDelayed
    <3> QED
      BY <3>1, <3>2
  <2>3. \A h \in Instances : \A x \in todo'[h] : x \in due \/ x \in todo[h]
    BY <1>a, <2>1
  <2> QED
    BY <1>2, <2>1, <2>2, <2>3 DEF RetryWaits
<1>6. ASSUME NEW i \in Instances, DrainClaim(i) PROVE RetryWaits'
  <2>1. PICK x \in todo[i] : /\ delayed' = delayed \ {x} /\ due' = due \ {x}
                             /\ todo' = [todo EXCEPT ![i] = @ \ {x}]
                             /\ UNCHANGED <<pc, held>>
    BY <1>6 DEF DrainClaim
  <2>2. \A h \in Instances : todo'[h] \subseteq todo[h]
    BY <1>a, <2>1
  <2>3. \A w \in Workers : \A e \in held[w] : pc[w] = "retrying" =>
          e # x /\ \A h \in Instances : e \notin todo[h]
    BY DEF RetryWaits
  <2> QED
    BY <1>2, <2>1, <2>2, <2>3
<1>7. ASSUME \/ \E j \in Jobs : Producer(j) \/ Rollback(j)
             \/ \E w \in Workers : \/ Pop(w) \/ MarkRunning(w) \/ HandlerSucceeds(w)
                                   \/ HandlerFails(w) \/ PushDLQ(w)
                                   \/ MarkCompleted(w) \/ MarkPending(w) \/ MarkFailed(w)
             \/ \E i \in Instances : DrainPush(i) \/ Crash(i)
             \/ UNCHANGED vars
      PROVE  RetryWaits'
  <2>1. UNCHANGED <<delayed, due>> /\ \A i \in Instances : todo'[i] \subseteq todo[i]
    BY <1>a, <1>7 DEF Producer, InsertJob, PushReady, Commit, Rollback, Pop, MarkRunning,
      HandlerSucceeds, HandlerFails, PushDLQ, MarkCompleted, MarkPending, MarkFailed, Settle,
      DrainPush, Crash, vars
  <2>2. \A v \in Workers : \A f \in held'[v] : pc'[v] = "retrying" =>
          pc[v] = "retrying" /\ f \in held[v]
    <3>1. ASSUME NEW w \in Workers, \/ Pop(w) \/ MarkRunning(w) \/ HandlerSucceeds(w)
                                    \/ HandlerFails(w) \/ PushDLQ(w)
          PROVE  \A v \in Workers : \A f \in held'[v] : pc'[v] = "retrying" =>
                   pc[v] = "retrying" /\ f \in held[v]
      BY <1>a, <3>1 DEF Pop, MarkRunning, HandlerSucceeds, HandlerFails, PushDLQ, Goto
    <3>2. ASSUME NEW w \in Workers, MarkCompleted(w) \/ MarkPending(w) \/ MarkFailed(w)
          PROVE  \A v \in Workers : \A f \in held'[v] : pc'[v] = "retrying" =>
                   pc[v] = "retrying" /\ f \in held[v]
      BY <1>a, <3>2 DEF MarkCompleted, MarkPending, MarkFailed, Settle, Goto
    <3>3. ASSUME \/ \E j \in Jobs : Producer(j) \/ Rollback(j)
                 \/ \E i \in Instances : DrainPush(i)
                 \/ UNCHANGED vars
          PROVE  \A v \in Workers : \A f \in held'[v] : pc'[v] = "retrying" =>
                   pc[v] = "retrying" /\ f \in held[v]
      <4>1. UNCHANGED <<pc, held>>
        BY <3>3 DEF Producer, InsertJob, PushReady, Commit, Rollback, DrainPush, vars
      <4> QED
        BY <4>1
    <3>4. ASSUME NEW i \in Instances, Crash(i)
          PROVE  \A v \in Workers : \A f \in held'[v] : pc'[v] = "retrying" =>
                   pc[v] = "retrying" /\ f \in held[v]
      BY <1>a, <3>4 DEF Crash
    <3> QED
      BY <1>7, <3>1, <3>2, <3>3, <3>4
  <2>3. \A w \in Workers : \A e \in held[w] : pc[w] = "retrying" =>
          \A i \in Instances : e \notin todo'[i]
    BY <2>1 DEF RetryWaits
  <2> QED
    BY <1>2, <2>1, <2>2, <2>3
<1> QED
  BY <1>3, <1>4, <1>5, <1>6, <1>7 DEF Next, WorkerStep, SchedulerStep

\* A write of a status hits a final row only if the worker's own turn ended it.
LEMMA FinalRowsStep ==
  QueueInv /\ WriteInv /\ [Next]_vars =>
    \A j \in Jobs :
      row[j].status \in {"completed", "failed"} /\ "slow" \notin faults => row'[j] = row[j]
<1> SUFFICES ASSUME QueueInv, WriteInv, [Next]_vars, "slow" \notin faults, NEW j \in Jobs,
                    row[j].status \in {"completed", "failed"}
             PROVE  row'[j] = row[j]
  OBVIOUS
<1> USE DEF redisVars, workerVars, drainVars, history
<1>a. /\ TypeInv /\ PlaceInv /\ CountInv /\ RowsInv /\ LastWriter /\ RetryWaits
      /\ \A w \in Workers : \A e \in held[w] : e.id \in Jobs
  BY DEF QueueInv, WriteInv, TypeInv, HeldOK, Envelope
<1>b. /\ tx[j] = "committed" /\ Spots(j) # {"worker"}
      /\ j \notin done => runs[j] = MaxRetries
      /\ row[j].status = "completed" <=> j \in done
  BY <1>a DEF RowsInv, Buried, PlaceInv, Apart
<1>1. ASSUME NEW k \in Jobs, Producer(k) \/ Rollback(k) PROVE row'[j] = row[j]
  BY <1>a, <1>b, <1>1
  DEF Producer, InsertJob, PushReady, Commit, Rollback, TypeInv, RowsOK
<1>2. ASSUME NEW w \in Workers, MarkRunning(w) PROVE row'[j] = row[j]
  <2>1. PICK e \in held[w] : SetStatus(e.id, "running", 0)
    BY <1>2 DEF MarkRunning
  <2>2. Spots(e.id) = {"worker"}
    BY <1>a, <1>2, CarriedAlone DEF MarkRunning, Goto, Carrying
  <2> QED
    BY <1>a, <1>b, <2>1, <2>2, StatusWritten
<1>3. ASSUME NEW w \in Workers, NEW status, NEW from \in {"succeeded", "retrying", "dead"},
             Settle(w, from, status)
      PROVE  row'[j] = row[j]
  <2>1. PICK e \in held[w] : SetStatus(e.id, status, e.attempts)
    BY <1>3 DEF Settle
  <2>2. pc[w] = from
    BY <1>3 DEF Settle, Goto
  <2>3. CASE from = "succeeded"
    <3>1. e.id \in done /\ row[e.id].status # "completed"
      BY <1>a, <2>2, <2>3 DEF CountInv, HeldCount, LastWriter
    <3> QED
      BY <1>a, <1>b, <2>1, <3>1, StatusWritten
  <2>4. CASE from = "dead"
    <3>1. e.id \notin done /\ row[e.id].status # "failed"
      BY <1>a, <2>2, <2>4 DEF RowsInv, Buried, LastWriter
    <3> QED
      BY <1>a, <1>b, <2>1, <3>1, StatusWritten
  <2>5. CASE from = "retrying"
    <3>1. e.id \notin done /\ runs[e.id] = e.attempts /\ e.attempts < MaxRetries
      BY <1>a, <2>2, <2>5 DEF RetryWaits
    <3>2. runs[e.id] # MaxRetries
      BY <3>1, MaxRetriesAssumption, <1>a DEF TypeInv, RowsOK
    <3> QED
      BY <1>a, <1>b, <2>1, <3>1, <3>2, StatusWritten
  <2> QED
    BY <2>3, <2>4, <2>5
<1>4. ASSUME UNCHANGED row PROVE row'[j] = row[j]
  BY <1>4
<1> QED
  BY <1>1, <1>2, <1>3, <1>4
  DEF Next, WorkerStep, SchedulerStep, Pop, HandlerSucceeds, HandlerFails, ScheduleRetry, PushDLQ,
      MarkCompleted, MarkPending, MarkFailed, BackoffElapses, DrainSnapshot, DrainClaim,
      DrainPush, Crash, vars

\* A final status is never overwritten by the late write of an earlier turn, as
\* long as a backoff outlasts the write that announces it.
THEOREM FinalRowsAlwaysStay == Spec => FinalRowsStay
<1>1. Init => QueueInv /\ WriteInv
  <2>1. Init => RowsInv /\ WriteInv
    BY DEF Init, RowsInv, WriteInv, TodoOld, LastWriter, RetryWaits
  <2> QED
    BY <2>1, TypeInvInit, PlaceInvInit, CountInvInit DEF QueueInv
<1>2. (QueueInv /\ WriteInv) /\ [Next]_vars => (QueueInv /\ WriteInv)'
  BY TypeInvNext, PlaceInvNext, CountInvNext, RowsInvNext, TodoOldNext, LastWriterNext,
     RetryWaitsNext
  DEF QueueInv, WriteInv
<1>3. QueueInv /\ WriteInv /\ [Next]_vars =>
        [\A j \in Jobs :
           row[j].status \in {"completed", "failed"} /\ "slow" \notin faults
             => row'[j] = row[j]]_vars
  BY FinalRowsStep
<1> QED
  BY <1>1, <1>2, <1>3, PTL DEF Spec, FinalRowsStay
=============================================================================
