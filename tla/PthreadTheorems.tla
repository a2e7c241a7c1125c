--------------------------- MODULE PthreadTheorems ---------------------------
(***************************************************************************)
(* How assignments to pc, signals and broadcasts change the number of      *)
(* threads at each label: the facts that the proofs about the counting     *)
(* primitives (fifo_semaphore.c, rwlock.c, barrier.c) share.               *)
(***************************************************************************)
EXTENDS Pthread, FiniteSetTheorems, TLAPS

\* pc is a function from a finite set of threads to labels.
Typed(P, L, f) == IsFiniteSet(P) /\ f \in [P -> L]

\* A label is held by a natural number of threads.
THEOREM NumType ==
    ASSUME NEW P, NEW L, NEW f, Typed(P, L, f), NEW l
    PROVE  NumAt(f, l) \in Nat
<1>1. IsFiniteSet(ThreadsAt(f, l)) BY FS_Subset DEF ThreadsAt, Typed
<1> QED BY <1>1, FS_CardinalityType DEF NumAt

\* That number is zero exactly when nobody is at the label.
THEOREM NumZero ==
    ASSUME NEW P, NEW L, NEW f, Typed(P, L, f), NEW l
    PROVE  NumAt(f, l) = 0 <=> \A u \in P : f[u] # l
<1>1. IsFiniteSet(ThreadsAt(f, l)) BY FS_Subset DEF ThreadsAt, Typed
<1>2. ThreadsAt(f, l) = {} <=> \A u \in P : f[u] # l BY DEF ThreadsAt, Typed
<1> QED BY <1>1, <1>2, FS_EmptySet DEF NumAt

\* The assignment pc[t] = new turns f into g.
Moves(P, L, f, g, t, old, new) ==
    /\ Typed(P, L, f) /\ t \in P
    /\ f[t] = old /\ new \in L \ {old} /\ g = [f EXCEPT ![t] = new]

\* It moves one thread from its label to another and leaves the others alone.
THEOREM MoveNum ==
    ASSUME NEW P, NEW L, NEW f, NEW g, NEW t, NEW old, NEW new, Moves(P, L, f, g, t, old, new)
    PROVE  /\ Typed(P, L, g)
           /\ NumAt(g, new) = NumAt(f, new) + 1
           /\ NumAt(g, old) = NumAt(f, old) - 1
           /\ \A l : l # old /\ l # new => NumAt(g, l) = NumAt(f, l)
<1> USE DEF Moves, Typed
<1>1. Typed(P, L, g) OBVIOUS
<1>2. \A l : IsFiniteSet(ThreadsAt(f, l))
  BY FS_Subset DEF ThreadsAt
<1>3. NumAt(g, new) = NumAt(f, new) + 1
  <2>1. ThreadsAt(g, new) = ThreadsAt(f, new) \cup {t} /\ t \notin ThreadsAt(f, new)
    BY DEF ThreadsAt
  <2> QED BY <1>2, <2>1, FS_AddElement DEF NumAt
<1>4. NumAt(g, old) = NumAt(f, old) - 1
  <2>1. ThreadsAt(g, old) = ThreadsAt(f, old) \ {t} /\ t \in ThreadsAt(f, old)
    BY DEF ThreadsAt
  <2> QED BY <1>2, <2>1, FS_RemoveElement DEF NumAt
<1>5. ASSUME NEW l, l # old, l # new PROVE NumAt(g, l) = NumAt(f, l)
  <2>1. ThreadsAt(g, l) = ThreadsAt(f, l) BY <1>5 DEF ThreadsAt
  <2> QED BY <2>1 DEF NumAt
<1> QED BY <1>1, <1>3, <1>4, <1>5

\* pthread_cond_signal wakes nobody (and nobody slept) or exactly one thread.
THEOREM SignalNum ==
    ASSUME NEW P, NEW L, NEW f, Typed(P, L, f), NEW a,
           NEW b \in L, a # b, NEW g \in CondSignal(f, a, b)
    PROVE  \/ g = f /\ \A u \in P : f[u] # a
           \/ \E u \in P : f[u] = a /\ g = [f EXCEPT ![u] = b]
BY DEF CondSignal, ThreadsAt, Typed

\* pthread_cond_broadcast empties the wait set into the woken label.
THEOREM BroadcastNum ==
    ASSUME NEW P, NEW L, NEW f, Typed(P, L, f), NEW a,
           NEW b \in L, a # b, NEW g, g = CondBroadcast(f, a, b)
    PROVE  /\ Typed(P, L, g)
           /\ \A u \in P : g[u] = IF f[u] = a THEN b ELSE f[u]
           /\ NumAt(g, a) = 0
           /\ NumAt(g, b) = NumAt(f, a) + NumAt(f, b)
           /\ \A l : l # a /\ l # b => NumAt(g, l) = NumAt(f, l)
<1> USE DEF Typed
<1>1. /\ Typed(P, L, g)
      /\ \A u \in P : g[u] = IF f[u] = a THEN b ELSE f[u]
  BY DEF CondBroadcast
<1>2. NumAt(g, a) = 0
  <2>1. \A u \in P : g[u] # a BY <1>1
  <2>2. Typed(P, L, g) BY <1>1
  <2> QED BY <2>1, <2>2, NumZero
<1>3. NumAt(g, b) = NumAt(f, a) + NumAt(f, b)
  <2>1. /\ ThreadsAt(g, b) = ThreadsAt(f, a) \cup ThreadsAt(f, b)
        /\ ThreadsAt(f, a) \cap ThreadsAt(f, b) = {}
    BY <1>1 DEF ThreadsAt
  <2>2. IsFiniteSet(ThreadsAt(f, a)) /\ IsFiniteSet(ThreadsAt(f, b))
    BY FS_Subset DEF ThreadsAt
  <2> DEFINE ca == Cardinality(ThreadsAt(f, a))
             cb == Cardinality(ThreadsAt(f, b))
             cu == Cardinality(ThreadsAt(f, a) \cup ThreadsAt(f, b))
  <2>3. ca \in Nat /\ cb \in Nat BY <2>2, FS_CardinalityType
  <2>4. Cardinality(ThreadsAt(f, a) \cap ThreadsAt(f, b)) = 0
    BY <2>1, FS_EmptySet
  <2>5. cu = ca + cb - 0 BY <2>2, <2>4, FS_Union
  <2>6. NumAt(g, b) = cu /\ NumAt(f, a) = ca /\ NumAt(f, b) = cb
    BY <2>1, Zenon DEF NumAt
  <2> HIDE DEF ca, cb, cu
  <2> QED BY <2>3, <2>5, <2>6
<1>4. ASSUME NEW l, l # a, l # b PROVE NumAt(g, l) = NumAt(f, l)
  <2>1. ThreadsAt(g, l) = ThreadsAt(f, l) BY <1>1, <1>4 DEF ThreadsAt
  <2> QED BY <2>1 DEF NumAt
<1> QED BY <1>1, <1>2, <1>3, <1>4
==============================================================================
