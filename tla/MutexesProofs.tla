---------------------------- MODULE MutexesProofs ----------------------------
(***************************************************************************)
(* The safety of recursive_mutex.c, logger.c and pubsub.c for any number   *)
(* of threads, levels, topics and subscribers.                             *)
(***************************************************************************)
EXTENDS MCMutexes, Sequences, TLAPS
-----------------------------------------------------------------------------
(***************************************************************************)
(* RecursiveMutex is correct although its owner test runs without the      *)
(* mutex.  The invariant says exactly when a thread has the pthread mutex  *)
(* and when it is the owner: owner is set after the mutex is taken and     *)
(* cleared before it is given back, so a thread finds itself the owner     *)
(* only when it is inside.                                                 *)
(***************************************************************************)

HasMutex(t) == pc[t] \in {"own", "count", "disown", "release"} \/ depth[t] > 0
IsOwner(t)  == pc[t] \in {"count", "disown"} \/ depth[t] > 0

IInv ==
    /\ TypeOK
    /\ CountIsDepth
    /\ nest = IF mutex = None THEN 0 ELSE 1
    /\ \A t \in Threads :
          /\ mutex = t <=> HasMutex(t)
          /\ owner = t <=> IsOwner(t)
          /\ depth[t] > 0 => pc[t] = "out"

\* Every access of lock and unlock to the shared fields keeps the invariant.
LEMMA StepKeepsInv == IInv /\ [Next]_vars => IInv'
<1> SUFFICES ASSUME IInv, [Next]_vars PROVE IInv'
  OBVIOUS
<1> USE RecursiveMutexAssumption DEF IInv, TypeOK, CountIsDepth, HasMutex, IsOwner
<1>1. ASSUME NEW t \in Threads, LockAgain(t) PROVE IInv'
  BY <1>1 DEF LockAgain
<1>2. ASSUME NEW t \in Threads, Lock(t) PROVE IInv'
  BY <1>2 DEF Lock
<1>3. ASSUME NEW t \in Threads, Acquire(t) PROVE IInv'
  BY <1>3 DEF Acquire
<1>4. ASSUME NEW t \in Threads, SetOwner(t) PROVE IInv'
  BY <1>4 DEF SetOwner
<1>5. ASSUME NEW t \in Threads, SetCount(t) PROVE IInv'
  BY <1>5 DEF SetCount
<1>6. ASSUME NEW t \in Threads, Unlock(t) PROVE IInv'
  BY <1>6 DEF Unlock
<1>7. ASSUME NEW t \in Threads, DisownThenRelease(t) PROVE IInv'
  BY <1>7 DEF DisownThenRelease, MutexUnlock
<1>8. CASE UNCHANGED vars
  BY <1>8 DEF vars
<1> QED BY <1>1, <1>2, <1>3, <1>4, <1>5, <1>6, <1>7, <1>8 DEF Next

\* recursive_mutex_init: the mutex is free and has no owner.
LEMMA InitInv == Init => IInv
BY RecursiveMutexAssumption
DEF Init, IInv, TypeOK, CountIsDepth, HasMutex, IsOwner

\* The inductive invariant holds in every reachable state.
LEMMA Invariance == Spec => []IInv
BY InitInv, StepKeepsInv, PTL DEF Spec

\* Whoever is inside holds the pthread mutex, which has one holder.
LEMMA InvImplies == IInv => Exclusion /\ CountIsDepth /\ OwnerIsHolder
BY RecursiveMutexAssumption
DEF IInv, TypeOK, HasMutex, IsOwner, Exclusion, OwnerIsHolder

\* The count of recursive_mutex.c never becomes negative.
THEOREM TypeCorrect == Spec => []TypeOK
BY Invariance, PTL DEF IInv

\* recursive_mutex_lock excludes all other threads until the matching unlock.
THEOREM MutualExclusion == Spec => []Exclusion
BY Invariance, InvImplies, PTL

\* The shared count is the nesting of whoever is inside.
THEOREM CountAlwaysDepth == Spec => []CountIsDepth
BY Invariance, InvImplies, PTL

\* The owner field names the holder of the pthread mutex, which is never
\* locked twice.
THEOREM OwnerAlwaysHolder == Spec => []OwnerIsHolder
BY Invariance, InvImplies, PTL
-----------------------------------------------------------------------------
(***************************************************************************)
(* Logger: a line is written whole at every level, also at those where     *)
(* logger_set_level and logger_destroy block on their own mutex.           *)
(***************************************************************************)

\* Whoever is inside has the mutex, and lines are written from inside only.
LoggerInv ==
    /\ at \in [Threads -> {<<"idle">>} \cup ({"lock", "in", "nested"} \X {"log", "set", "destroy"})]
    /\ \A t \in Threads : at[t][1] \in {"in", "nested"} => lmutex = t
    /\ lines \subseteq Threads
    /\ \A t \in lines : at[t] = <<"in", "log">> /\ file

\* Every step of the logger keeps that.
LEMMA LoggerStep == LoggerInv /\ [L!Next]_(L!vars) => LoggerInv'
<1> SUFFICES ASSUME LoggerInv, [L!Next]_(L!vars) PROVE LoggerInv'
  OBVIOUS
<1> USE DEF LoggerInv, L!Goto
<1>1. ASSUME NEW t \in Threads, NEW l, L!Log(t, l) \/ L!SetLevel(t, l) \/ L!Destroy(t)
      PROVE  LoggerInv'
  BY <1>1 DEF L!Log, L!SetLevel, L!Destroy
<1>2. ASSUME NEW t \in Threads, L!Lock(t) PROVE LoggerInv'
  <2>1. \A u \in Threads : at[u][1] \notin {"in", "nested"}
    BY <1>2, RecursiveMutexAssumption DEF L!Lock
  <2>2. lines = {} BY <2>1
  <2> QED BY <1>2, <2>1, <2>2 DEF L!Lock
<1>3. ASSUME NEW t \in Threads, L!Write(t) PROVE LoggerInv'
  BY <1>3 DEF L!Write, L!Unlock
<1>4. ASSUME NEW t \in Threads, L!InSet(t) PROVE LoggerInv'
  <2>1. lines = {} BY <1>4 DEF L!InSet
  <2> QED BY <1>4, <2>1 DEF L!InSet, L!LogNested, L!Unlock
<1>5. ASSUME NEW t \in Threads, L!InDestroy(t) PROVE LoggerInv'
  <2>1. lines = {} BY <1>5 DEF L!InDestroy
  <2> QED BY <1>5, <2>1 DEF L!InDestroy, L!LogNested, L!Unlock
<1>6. CASE UNCHANGED L!vars
  BY <1>6 DEF L!vars
<1> QED BY <1>1, <1>2, <1>3, <1>4, <1>5, <1>6 DEF L!Next, L!Step

\* A line of the log is written whole: while its pieces are on their way to the
\* file the writer has logger.mutex, and logger_destroy has not closed the file,
\* for any number of threads and whatever levels are set.
THEOREM LinesAlwaysWhole ==
    (L!Init \/ L!QuietInit) /\ [][L!Next]_(L!vars) => []LinesWhole
<1>1. L!Init \/ L!QuietInit => LoggerInv
  BY DEF L!Init, L!QuietInit, LoggerInv
<1>2. LoggerInv => LinesWhole
  <2>1. <<"in", "log">>[1] = "in" OBVIOUS
  <2>2. ASSUME LoggerInv, NEW t \in lines PROVE lmutex = t /\ file
    <3>1. t \in Threads /\ at[t] = <<"in", "log">> /\ file BY <2>2 DEF LoggerInv
    <3>2. at[t][1] = "in" BY <2>1, <3>1
    <3> QED BY <2>2, <3>1, <3>2 DEF LoggerInv
  <2> QED BY <2>2 DEF LinesWhole, L!LinesWhole
<1> QED BY <1>1, <1>2, LoggerStep, PTL
-----------------------------------------------------------------------------
(***************************************************************************)
(* PubSub: the callbacks made so far are those of the subscribers that the *)
(* walk has passed, because the list changes only while nobody has the     *)
(* mutex.                                                                  *)
(***************************************************************************)

\* Before the walk nobody has been selected.
LEMMA SelectsNone == \A subs, x : P!Selects(<<>>, subs, x, 0)
<1> SUFFICES ASSUME NEW subs, NEW x PROVE P!Selects(<<>>, subs, x, 0)
  OBVIOUS
<1>1. DOMAIN <<>> = {} OBVIOUS
<1>2. [i \in {} |-> 0] \in [{} -> 1..0] OBVIOUS
<1>3. \A k \in 1..0 : FALSE OBVIOUS
<1> HIDE DEF P!Selects
<1>4. \E f \in [{} -> 1..0] :
         /\ \A i, j \in {} : i < j => f[i] < f[j]
         /\ \A i \in {} : <<>>[i] = subs[f[i]] /\ subs[f[i]][1] = x
         /\ \A k \in 1..0 : subs[k][1] = x => \E i \in {} : f[i] = k
  <2> WITNESS [i \in {} |-> 0] \in [{} -> 1..0]
  <2> QED BY <1>3
<1> QED BY <1>1, <1>4, Zenon DEF P!Selects

\* The walk passes a subscriber of another topic.
LEMMA SelectsSkip ==
    ASSUME NEW s, NEW subs, NEW x, NEW n \in Nat, P!Selects(s, subs, x, n), subs[n + 1][1] # x
    PROVE  P!Selects(s, subs, x, n + 1)
<1>1. PICK f \in [DOMAIN s -> 1..n] :
         /\ \A i, j \in DOMAIN s : i < j => f[i] < f[j]
         /\ \A i \in DOMAIN s : s[i] = subs[f[i]] /\ subs[f[i]][1] = x
         /\ \A k \in 1..n : subs[k][1] = x => \E i \in DOMAIN s : f[i] = k
  BY DEF P!Selects
<1>2. f \in [DOMAIN s -> 1..(n + 1)] OBVIOUS
<1>3. \A k \in 1..(n + 1) : subs[k][1] = x => \E i \in DOMAIN s : f[i] = k
  <2>1. \A k \in 1..(n + 1) : k \in 1..n \/ k = n + 1 OBVIOUS
  <2> QED BY <1>1, <2>1
<1> QED BY <1>1, <1>2, <1>3 DEF P!Selects

\* The walk calls a subscriber of the topic.
LEMMA SelectsCall ==
    ASSUME NEW S, NEW s \in Seq(S), NEW subs, NEW x, NEW n \in Nat, P!Selects(s, subs, x, n),
           subs[n + 1] \in S, subs[n + 1][1] = x
    PROVE  P!Selects(Append(s, subs[n + 1]), subs, x, n + 1)
<1>1. PICK f \in [DOMAIN s -> 1..n] :
         /\ \A i, j \in DOMAIN s : i < j => f[i] < f[j]
         /\ \A i \in DOMAIN s : s[i] = subs[f[i]] /\ subs[f[i]][1] = x
         /\ \A k \in 1..n : subs[k][1] = x => \E i \in DOMAIN s : f[i] = k
  BY DEF P!Selects
<1> DEFINE e == Append(s, subs[n + 1])
           m == Len(s)
           h == [i \in 1..(m + 1) |-> IF i = m + 1 THEN n + 1 ELSE f[i]]
<1>2. m \in Nat /\ DOMAIN s = 1..m BY DEF m
<1>3. /\ DOMAIN e = 1..(m + 1) /\ e[m + 1] = subs[n + 1]
      /\ \A i \in 1..m : e[i] = s[i]
  BY DEF e, m
<1> HIDE DEF e, m
<1>4. \A i \in 1..(m + 1) : i \in 1..m \/ i = m + 1 BY <1>2
<1>5. /\ h \in [1..(m + 1) -> 1..(n + 1)] /\ h[m + 1] = n + 1
      /\ \A i \in 1..m : h[i] = f[i] /\ h[i] \in 1..n
  <2>1. \A i \in 1..m : f[i] \in 1..n BY <1>1, <1>2
  <2>2. \A i \in 1..m : i # m + 1 /\ i \in 1..(m + 1) BY <1>2
  <2>3. m + 1 \in 1..(m + 1) BY <1>2
  <2>4. \A i \in 1..(m + 1) : (IF i = m + 1 THEN n + 1 ELSE f[i]) \in 1..(n + 1)
    BY <1>4, <2>1
  <2> QED BY <2>1, <2>2, <2>3, <2>4
<1> HIDE DEF h
<1>6. \A i, j \in 1..(m + 1) : i < j => h[i] < h[j]
  <2> TAKE i, j \in 1..(m + 1)
  <2> HAVE i < j
  <2>1. i \in 1..m BY <1>2, <1>4
  <2>2. CASE j \in 1..m BY <1>1, <1>2, <1>5, <2>1, <2>2
  <2>3. CASE j = m + 1 BY <1>5, <2>1, <2>3
  <2> QED BY <1>4, <2>2, <2>3
<1>7. \A i \in 1..(m + 1) : e[i] = subs[h[i]] /\ subs[h[i]][1] = x
  BY <1>1, <1>2, <1>3, <1>4, <1>5
<1>8. \A k \in 1..(n + 1) : subs[k][1] = x => \E i \in 1..(m + 1) : h[i] = k
  <2> TAKE k \in 1..(n + 1)
  <2> HAVE subs[k][1] = x
  <2>1. CASE k = n + 1
    <3>1. m + 1 \in 1..(m + 1) BY <1>2
    <3> QED BY <1>5, <2>1, <3>1
  <2>2. CASE k \in 1..n
    <3>1. PICK i \in 1..m : f[i] = k BY <1>1, <1>2, <2>2
    <3>2. i \in 1..(m + 1) /\ h[i] = k BY <1>2, <1>5, <3>1
    <3> QED BY <3>2
  <2> QED BY <2>1, <2>2
<1>9. P!Selects(e, subs, x, n + 1)
  <2>1. DOMAIN e = 1..(m + 1) BY <1>3
  <2>2. h \in [DOMAIN e -> 1..(n + 1)] BY <1>5, <2>1
  <2> SUFFICES \E g \in [DOMAIN e -> 1..(n + 1)] :
                  /\ \A i, j \in DOMAIN e : i < j => g[i] < g[j]
                  /\ \A i \in DOMAIN e : e[i] = subs[g[i]] /\ subs[g[i]][1] = x
                  /\ \A k \in 1..(n + 1) : subs[k][1] = x => \E i \in DOMAIN e : g[i] = k
    BY Zenon DEF P!Selects
  <2> WITNESS h \in [DOMAIN e -> 1..(n + 1)]
  <2> QED BY <1>6, <1>7, <1>8, <2>1, Zenon
<1> QED BY <1>9 DEF e

Walking == {"walk", "callback", "again", "answer", "unlock"}

\* The lists are lists of subscribers.
PubSubTypes ==
    /\ ppc \in [Threads -> Walking \cup {"idle", "refused"}]
    /\ list \in Seq(P!Subscribers)
    /\ todo \in [Threads -> Seq(P!Subscribers)] /\ calls \in [Threads -> Seq(P!Subscribers)]
    /\ topic = [t \in Threads |-> topic[t]]

\* How many subscribers the walk of t has passed.
Passed(t) == Len(list) - Len(todo[t])

\* The walk of t is a suffix of the list.
Suffix(t) ==
    /\ Len(todo[t]) <= Len(list)
    /\ \A i \in 1..Len(todo[t]) : todo[t][i] = list[Passed(t) + i]

\* Where the publication of t stands.
Progress(t) ==
    /\ ppc[t] \in Walking => pmutex = t /\ ~gone /\ Suffix(t)
    /\ ppc[t] \notin Walking => todo[t] = <<>>
    /\ ppc[t] = "walk" => P!Selects(calls[t], list, topic[t], Passed(t))
    /\ ppc[t] \in {"callback", "again", "answer"} =>
          /\ todo[t] # <<>>
          /\ P!Selects(calls[t], list, topic[t], Passed(t) + 1)
    /\ ppc[t] = "unlock" =>
          todo[t] = <<>> /\ P!Selects(calls[t], list, topic[t], Len(list))

PubSubInv == PubSubTypes /\ \A t \in Threads : Progress(t)

\* What a step of t leaves alone keeps the progress of the others.
LEMMA OthersProgress ==
    ASSUME PubSubInv, NEW u \in Threads,
           UNCHANGED <<ppc[u], todo[u], calls[u], topic[u]>>,
           UNCHANGED <<list, gone>> \/ ppc[u] \notin Walking,
           ppc[u] \in Walking => pmutex' = pmutex
    PROVE  Progress(u)'
<1>1. CASE ppc[u] \notin Walking
  BY <1>1 DEF PubSubInv, Progress, Walking
<1>2. CASE ppc[u] \in Walking
  <2>1. Progress(u) BY DEF PubSubInv
  <2>2. UNCHANGED <<list, gone, pmutex>> BY <1>2
  <2>3. \A n : P!Selects(calls[u], list, topic[u], n) => P!Selects(calls[u], list, topic[u], n)'
    <3>1. calls'[u] = calls[u] /\ list' = list /\ topic'[u] = topic[u] BY <2>2
    <3>2. \A n : P!Selects(calls[u], list, topic[u], n) => P!Selects(calls'[u], list', topic'[u], n)
      BY <3>1, Zenon
    <3>3. \A n : P!Selects(calls[u], list, topic[u], n)' <=> P!Selects(calls'[u], list', topic'[u], n)
      BY Zenon DEF P!Selects
    <3> QED BY <3>2, <3>3, Zenon
  <2>4. Passed(u)' = Passed(u) BY <2>2 DEF Passed
  <2>5. Suffix(u) => Suffix(u)' BY <2>2, <2>4 DEF Suffix
  <2> QED BY <1>2, <2>1, <2>2, <2>3, <2>4, <2>5 DEF Progress
<1> QED BY <1>1, <1>2

\* A step from outside to outside of pubsub_publish, with the list changed only
\* while the mutex is free.
LEMMA OutsideStep ==
    ASSUME PubSubInv, PubSubTypes', NEW t \in Threads,
           ppc[t] \notin Walking, ppc' = [ppc EXCEPT ![t] = ppc'[t]], ppc'[t] \notin Walking,
           UNCHANGED <<pmutex, topic, todo, calls>>,
           UNCHANGED <<list, gone>> \/ pmutex = 0
    PROVE  PubSubInv'
<1>1. pmutex = 0 => \A u \in Threads : ppc[u] \notin Walking
  BY PubSubAssumption DEF PubSubInv, Progress
<1>2. ASSUME NEW u \in Threads, u # t PROVE Progress(u)'
  <2>1. ppc'[u] = ppc[u] BY <1>2 DEF PubSubInv, PubSubTypes
  <2> QED BY <1>1, <2>1, OthersProgress
<1>3. Progress(t)'
  <2>1. todo'[t] = <<>> BY DEF PubSubInv, Progress
  <2> QED BY <2>1 DEF Progress, Walking
<1> QED BY <1>2, <1>3 DEF PubSubInv

\* A step of the publication of t: the list stays, and the others are not in
\* one, before or after it.
LEMMA InsideStep ==
    ASSUME PubSubInv, PubSubTypes', NEW t \in Threads, pmutex = 0 \/ ppc[t] \in Walking,
           ppc' = [ppc EXCEPT ![t] = ppc'[t]], todo' = [todo EXCEPT ![t] = todo'[t]],
           calls' = [calls EXCEPT ![t] = calls'[t]], topic' = [topic EXCEPT ![t] = topic'[t]],
           UNCHANGED <<list, gone>>, Progress(t)'
    PROVE  PubSubInv'
<1>1. ASSUME NEW u \in Threads, u # t PROVE Progress(u)'
  <2>1. ppc[u] \notin Walking BY <1>1, PubSubAssumption DEF PubSubInv, Progress
  <2>2. UNCHANGED <<ppc[u], todo[u], calls[u], topic[u]>>
    BY <1>1 DEF PubSubInv, PubSubTypes
  <2> QED BY <2>1, <2>2, OthersProgress
<1> QED BY <1>1 DEF PubSubInv

\* The calls of pubsub.c other than pubsub_publish, and those that are refused.
LEMMA OutsideCalls ==
    ASSUME PubSubInv, NEW t \in Threads,
           \/ P!Refused(t) \/ P!Return(t) \/ P!Destroy(t)
           \/ \E s \in P!Subscribers : P!Subscribe(t, s)
    PROVE  PubSubInv'
<1> USE DEF P!Goto, P!Enters, P!Nobody, P!publication
<1>1. PubSubTypes BY DEF PubSubInv
<1>2. CASE P!Refused(t)
  <2>1. PubSubTypes' BY <1>1, <1>2 DEF P!Refused, PubSubTypes
  <2>2. /\ ppc[t] \notin Walking /\ ppc'[t] \notin Walking
        /\ ppc' = [ppc EXCEPT ![t] = ppc'[t]]
    BY <1>1, <1>2 DEF P!Refused, PubSubTypes, Walking
  <2> QED BY <1>2, <2>1, <2>2, OutsideStep DEF P!Refused
<1>3. CASE P!Return(t)
  <2>1. PubSubTypes' BY <1>1, <1>3 DEF P!Return, PubSubTypes
  <2>2. /\ ppc[t] \notin Walking /\ ppc'[t] \notin Walking
        /\ ppc' = [ppc EXCEPT ![t] = ppc'[t]]
    BY <1>1, <1>3 DEF P!Return, PubSubTypes, Walking
  <2> QED BY <1>3, <2>1, <2>2, OutsideStep DEF P!Return
<1>4. CASE P!Destroy(t)
  <2>1. PubSubTypes' BY <1>1, <1>4 DEF P!Destroy, PubSubTypes
  <2>2. /\ ppc[t] \notin Walking /\ ppc'[t] \notin Walking
        /\ ppc' = [ppc EXCEPT ![t] = ppc'[t]]
    BY <1>1, <1>4 DEF P!Destroy, PubSubTypes, Walking
  <2> QED BY <1>4, <2>1, <2>2, OutsideStep DEF P!Destroy
<1>5. ASSUME NEW s \in P!Subscribers, P!Subscribe(t, s) PROVE PubSubInv'
  <2>1. PubSubTypes'
    <3>1. <<s>> \o list \in Seq(P!Subscribers) BY <1>1 DEF PubSubTypes
    <3> QED BY <1>1, <1>5, <3>1 DEF P!Subscribe, PubSubTypes
  <2>2. /\ ppc[t] \notin Walking /\ ppc'[t] \notin Walking
        /\ ppc' = [ppc EXCEPT ![t] = ppc'[t]]
    BY <1>1, <1>5 DEF P!Subscribe, PubSubTypes, Walking
  <2> QED BY <1>5, <2>1, <2>2, OutsideStep DEF P!Subscribe
<1> QED BY <1>2, <1>3, <1>4, <1>5

\* pubsub_publish takes the mutex and starts at the head of the list.
LEMMA PublishCall ==
    ASSUME PubSubInv, NEW t \in Threads, NEW x \in Topics, P!Publish(t, x)
    PROVE  PubSubInv'
<1> USE DEF P!Goto, P!Enters, P!Nobody
<1>1. PubSubTypes BY DEF PubSubInv
<1>2. PubSubTypes'
  <2>1. topic' = [u \in Threads |-> topic'[u]] BY <1>1 DEF P!Publish, PubSubTypes
  <2> QED BY <1>1, <2>1 DEF P!Publish, PubSubTypes, Walking
<1>3. /\ pmutex = 0 /\ pmutex' = t /\ ~gone /\ UNCHANGED <<list, gone>>
      /\ ppc'[t] = "walk" /\ todo'[t] = list /\ calls'[t] = <<>> /\ topic'[t] = x
      /\ ppc' = [ppc EXCEPT ![t] = ppc'[t]] /\ todo' = [todo EXCEPT ![t] = todo'[t]]
      /\ calls' = [calls EXCEPT ![t] = calls'[t]] /\ topic' = [topic EXCEPT ![t] = topic'[t]]
  BY <1>1 DEF P!Publish, PubSubTypes
<1>4. Len(list) \in Nat BY <1>1 DEF PubSubTypes
<1>5. Passed(t)' = 0 BY <1>3, <1>4 DEF Passed
<1>6. Suffix(t)' BY <1>3, <1>4, <1>5 DEF Suffix
<1>7. P!Selects(calls'[t], list', topic'[t], 0) BY <1>3, SelectsNone
<1>8. Progress(t)' BY <1>3, <1>5, <1>6, <1>7 DEF Progress, Walking
<1> QED BY <1>2, <1>3, <1>8, InsideStep

\* The head of what is left is the subscriber after those that were passed, and
\* without it there is still a suffix of the list.
LEMMA HeadIsNext ==
    ASSUME PubSubTypes, NEW t \in Threads, Suffix(t), todo[t] # <<>>
    PROVE  /\ Passed(t) \in Nat /\ Passed(t) + 1 \in 1..Len(list)
           /\ Head(todo[t]) = list[Passed(t) + 1] /\ Head(todo[t]) \in P!Subscribers
           /\ Tail(todo[t]) \in Seq(P!Subscribers) /\ Len(Tail(todo[t])) = Len(todo[t]) - 1
           /\ \A i \in 1..Len(Tail(todo[t])) : Tail(todo[t])[i] = list[Passed(t) + 1 + i]
<1>1. /\ todo[t] \in Seq(P!Subscribers) /\ Len(todo[t]) \in Nat \ {0} /\ Len(list) \in Nat
      /\ Len(todo[t]) <= Len(list)
      /\ \A i \in 1..Len(todo[t]) : todo[t][i] = list[Passed(t) + i]
  BY DEF PubSubTypes, Suffix
<1>2. Passed(t) \in Nat /\ Passed(t) + 1 \in 1..Len(list) BY <1>1 DEF Passed
<1>3. 1 \in 1..Len(todo[t]) /\ Head(todo[t]) = todo[t][1] /\ todo[t][1] \in P!Subscribers
  BY <1>1
<1>4. /\ Tail(todo[t]) \in Seq(P!Subscribers) /\ Len(Tail(todo[t])) = Len(todo[t]) - 1
      /\ \A i \in 1..(Len(todo[t]) - 1) : Tail(todo[t])[i] = todo[t][i + 1]
  BY <1>1
<1>5. ASSUME NEW m \in Nat, NEW n \in Nat, NEW i \in 1..(m - 1)
      PROVE  i + 1 \in 1..m /\ n + (i + 1) = n + 1 + i
  OBVIOUS
<1>6. \A i \in 1..(Len(todo[t]) - 1) : Tail(todo[t])[i] = list[Passed(t) + 1 + i]
  <2> TAKE i \in 1..(Len(todo[t]) - 1)
  <2>1. i + 1 \in 1..Len(todo[t]) /\ Passed(t) + (i + 1) = Passed(t) + 1 + i
    <3>1. Len(todo[t]) \in Nat BY <1>1
    <3> QED BY <1>2, <1>5, <3>1
  <2>2. Tail(todo[t])[i] = todo[t][i + 1] BY <1>4
  <2>3. todo[t][i + 1] = list[Passed(t) + (i + 1)] BY <1>1, <2>1
  <2> QED BY <2>1, <2>2, <2>3
<1> QED BY <1>1, <1>2, <1>3, <1>4, <1>6

\* A round of the loop of pubsub_publish up to the callback.
LEMMA WalkStep ==
    ASSUME PubSubInv, NEW t \in Threads, P!Walk(t)
    PROVE  PubSubInv'
<1> USE DEF P!Goto
<1>1. PubSubTypes /\ Progress(t) BY DEF PubSubInv
<1>2. /\ ppc[t] = "walk" /\ pmutex = t /\ ~gone /\ Suffix(t)
      /\ P!Selects(calls[t], list, topic[t], Passed(t))
      /\ UNCHANGED <<list, pmutex, gone, topic>>
      /\ topic' = [topic EXCEPT ![t] = topic'[t]]
  BY <1>1 DEF P!Walk, Progress, Walking, PubSubTypes
<1>3. CASE todo[t] = <<>>
  <2>1. /\ ppc' = [ppc EXCEPT ![t] = "unlock"] /\ UNCHANGED <<todo, calls>>
        /\ ppc'[t] = "unlock"
    BY <1>1, <1>3 DEF P!Walk, PubSubTypes
  <2>2. PubSubTypes' BY <1>1, <1>2, <2>1 DEF PubSubTypes, Walking
  <2>3. Passed(t) = Len(list) BY <1>1, <1>3 DEF Passed, PubSubTypes
  <2>4. Suffix(t)' BY <1>2, <2>1 DEF Suffix, Passed
  <2>5. P!Selects(calls'[t], list', topic'[t], Len(list')) BY <1>2, <2>1, <2>3
  <2>6. Progress(t)' BY <1>2, <1>3, <2>1, <2>4, <2>5 DEF Progress, Walking
  <2> QED BY <1>1, <1>2, <2>1, <2>2, <2>6, InsideStep DEF PubSubTypes, Walking
<1>4. CASE todo[t] # <<>> /\ Head(todo[t])[1] = topic[t]
  <2> DEFINE sub == Head(todo[t])
  <2>1. /\ ppc' = [ppc EXCEPT ![t] = "callback"] /\ todo' = todo
        /\ calls' = [calls EXCEPT ![t] = Append(@, sub)]
        /\ ppc'[t] = "callback" /\ calls'[t] = Append(calls[t], sub)
    BY <1>1, <1>4 DEF P!Walk, PubSubTypes
  <2>2. /\ Passed(t) \in Nat /\ sub = list[Passed(t) + 1] /\ sub \in P!Subscribers
    BY <1>1, <1>2, <1>4, HeadIsNext
  <2>3. PubSubTypes'
    <3>1. Append(calls[t], sub) \in Seq(P!Subscribers) BY <1>1, <2>2 DEF PubSubTypes
    <3> HIDE DEF sub
    <3> QED BY <1>1, <1>2, <2>1, <3>1 DEF PubSubTypes, Walking
  <2>4. P!Selects(Append(calls[t], list[Passed(t) + 1]), list, topic[t], Passed(t) + 1)
    <3>1. calls[t] \in Seq(P!Subscribers) BY <1>1 DEF PubSubTypes
    <3>2. list[Passed(t) + 1] \in P!Subscribers /\ list[Passed(t) + 1][1] = topic[t]
      BY <1>4, <2>2
    <3> QED BY <1>2, <2>2, <3>1, <3>2, SelectsCall
  <2>5. P!Selects(calls'[t], list', topic'[t], Passed(t) + 1)
    BY <1>2, <2>1, <2>2, <2>4
  <2>6. Passed(t)' = Passed(t) /\ Suffix(t)' BY <1>2, <2>1 DEF Suffix, Passed
  <2>7. Progress(t)' BY <1>2, <1>4, <2>1, <2>5, <2>6 DEF Progress, Walking
  <2> QED BY <1>1, <1>2, <2>1, <2>3, <2>7, InsideStep DEF PubSubTypes, Walking
<1>5. CASE todo[t] # <<>> /\ Head(todo[t])[1] # topic[t]
  <2>1. /\ UNCHANGED <<ppc, calls>> /\ todo' = [todo EXCEPT ![t] = Tail(@)]
        /\ todo'[t] = Tail(todo[t])
    BY <1>1, <1>5 DEF P!Walk, PubSubTypes
  <2>2. /\ Passed(t) \in Nat /\ Head(todo[t]) = list[Passed(t) + 1]
        /\ Passed(t) + 1 \in 1..Len(list)
        /\ Tail(todo[t]) \in Seq(P!Subscribers) /\ Len(Tail(todo[t])) = Len(todo[t]) - 1
        /\ \A i \in 1..Len(Tail(todo[t])) : Tail(todo[t])[i] = list[Passed(t) + 1 + i]
    BY <1>1, <1>2, <1>5, HeadIsNext
  <2>3. PubSubTypes' BY <1>1, <1>2, <2>1, <2>2 DEF PubSubTypes
  <2>4. Passed(t)' = Passed(t) + 1 /\ Len(todo'[t]) <= Len(list')
    BY <1>1, <1>2, <2>1, <2>2 DEF Passed, PubSubTypes, Suffix
  <2>5. Suffix(t)' BY <1>2, <2>1, <2>2, <2>4 DEF Suffix
  <2>6. P!Selects(calls[t], list, topic[t], Passed(t) + 1)
    BY <1>2, <1>5, <2>2, SelectsSkip
  <2>7. P!Selects(calls'[t], list', topic'[t], Passed(t)') BY <1>2, <2>1, <2>4, <2>6
  <2>8. Progress(t)' BY <1>2, <2>1, <2>5, <2>7 DEF Progress, Walking
  <2> QED BY <1>1, <1>2, <2>1, <2>3, <2>8, InsideStep DEF PubSubTypes, Walking
<1> QED BY <1>3, <1>4, <1>5

\* A subscriber's callback, and the calls of pubsub.c that it makes itself,
\* change nothing of the publication.
LEMMA CallbackStep ==
    ASSUME PubSubInv, NEW t \in Threads, P!Callback(t) \/ P!Nested(t)
    PROVE  PubSubInv'
<1> USE DEF P!Goto, P!publication
<1>1. PubSubTypes /\ Progress(t) BY DEF PubSubInv
<1>2. /\ ppc[t] \in {"callback", "again"} /\ ppc' = [ppc EXCEPT ![t] = ppc'[t]]
      /\ ppc'[t] \in {"again", "answer"}
      /\ UNCHANGED <<list, pmutex, gone, topic, todo, calls>>
  BY <1>1 DEF P!Callback, P!Nested, PubSubTypes
<1>3. PubSubTypes' BY <1>1, <1>2 DEF PubSubTypes, Walking
<1>4. /\ todo' = [todo EXCEPT ![t] = todo'[t]] /\ calls' = [calls EXCEPT ![t] = calls'[t]]
      /\ topic' = [topic EXCEPT ![t] = topic'[t]]
  BY <1>1, <1>2 DEF PubSubTypes
<1>5. Passed(t)' = Passed(t) /\ (Suffix(t) => Suffix(t)') BY <1>2 DEF Passed, Suffix
<1>6. P!Selects(calls'[t], list', topic'[t], Passed(t) + 1)
  BY <1>1, <1>2 DEF Progress
<1>7. Progress(t)' BY <1>1, <1>2, <1>5, <1>6 DEF Progress, Walking
<1> QED BY <1>2, <1>3, <1>4, <1>7, InsideStep DEF Walking

\* The walk goes on behind the subscriber that was called.
LEMMA AnswerStep ==
    ASSUME PubSubInv, NEW t \in Threads, P!Answer(t)
    PROVE  PubSubInv'
<1> USE DEF P!Goto
<1>1. PubSubTypes /\ Progress(t) BY DEF PubSubInv
<1>2. /\ ppc[t] = "answer" /\ ppc'[t] = "walk" /\ ppc' = [ppc EXCEPT ![t] = ppc'[t]]
      /\ todo'[t] = Tail(todo[t]) /\ todo' = [todo EXCEPT ![t] = todo'[t]]
      /\ UNCHANGED <<list, pmutex, gone, topic, calls>>
  BY <1>1 DEF P!Answer, PubSubTypes
<1>3. /\ calls' = [calls EXCEPT ![t] = calls'[t]] /\ topic' = [topic EXCEPT ![t] = topic'[t]]
  BY <1>1, <1>2 DEF PubSubTypes
<1>4. /\ pmutex = t /\ ~gone /\ Suffix(t) /\ todo[t] # <<>>
      /\ P!Selects(calls[t], list, topic[t], Passed(t) + 1)
  BY <1>1, <1>2 DEF Progress, Walking
<1>5. /\ Passed(t) \in Nat /\ Passed(t) + 1 \in 1..Len(list)
      /\ Tail(todo[t]) \in Seq(P!Subscribers) /\ Len(Tail(todo[t])) = Len(todo[t]) - 1
      /\ \A i \in 1..Len(Tail(todo[t])) : Tail(todo[t])[i] = list[Passed(t) + 1 + i]
  BY <1>1, <1>4, HeadIsNext
<1>6. PubSubTypes'
  <2>1. ppc' \in [Threads -> Walking \cup {"idle", "refused"}]
    BY <1>1, <1>2 DEF PubSubTypes, Walking
  <2>2. todo' \in [Threads -> Seq(P!Subscribers)] BY <1>1, <1>2, <1>5 DEF PubSubTypes
  <2> QED BY <1>1, <1>2, <2>1, <2>2 DEF PubSubTypes
<1>7. Passed(t)' = Passed(t) + 1 /\ Len(todo'[t]) <= Len(list')
  BY <1>1, <1>2, <1>4, <1>5 DEF Passed, PubSubTypes, Suffix
<1>8. Suffix(t)' BY <1>2, <1>5, <1>7 DEF Suffix
<1>9. P!Selects(calls'[t], list', topic'[t], Passed(t)') BY <1>2, <1>4, <1>7
<1>10. Progress(t)' BY <1>2, <1>4, <1>8, <1>9 DEF Progress, Walking
<1> QED BY <1>2, <1>3, <1>6, <1>10, InsideStep DEF Walking

\* pubsub_publish returns.
LEMMA UnlockStep ==
    ASSUME PubSubInv, NEW t \in Threads, P!Unlock(t)
    PROVE  PubSubInv'
<1> USE DEF P!Goto
<1>1. PubSubTypes /\ Progress(t) BY DEF PubSubInv
<1>2. /\ ppc[t] = "unlock" /\ ppc'[t] = "idle" /\ ppc' = [ppc EXCEPT ![t] = ppc'[t]]
      /\ calls' = [calls EXCEPT ![t] = calls'[t]] /\ calls'[t] = <<>>
      /\ UNCHANGED <<list, gone, todo>>
  BY <1>1 DEF P!Unlock, PubSubTypes
<1>3. topic' = [topic EXCEPT ![t] = topic'[t]]
  <2>1. \E x : topic' = [topic EXCEPT ![t] = x] BY Zenon DEF P!Unlock
  <2> QED BY <1>1, <2>1 DEF PubSubTypes
<1>4. topic' = [u \in Threads |-> topic'[u]] BY <1>1, <1>3 DEF PubSubTypes
<1>5. PubSubTypes'
  <2>1. ppc' \in [Threads -> Walking \cup {"idle", "refused"}]
    BY <1>1, <1>2 DEF PubSubTypes
  <2>2. calls' \in [Threads -> Seq(P!Subscribers)]
    <3>1. <<>> \in Seq(P!Subscribers) OBVIOUS
    <3> QED BY <1>1, <1>2, <3>1 DEF PubSubTypes
  <2> QED BY <1>1, <1>2, <1>4, <2>1, <2>2 DEF PubSubTypes
<1>6. todo'[t] = <<>> BY <1>1, <1>2 DEF Progress
<1>7. Progress(t)' BY <1>2, <1>6 DEF Progress, Walking
<1>8. todo' = [todo EXCEPT ![t] = todo'[t]] BY <1>1, <1>2 DEF PubSubTypes
<1> QED BY <1>2, <1>3, <1>5, <1>7, <1>8, InsideStep DEF Walking

\* Every step of pubsub.c keeps the invariant.
LEMMA PubSubStep == PubSubInv /\ [P!Next]_(P!vars) => PubSubInv'
<1> SUFFICES ASSUME PubSubInv, [P!Next]_(P!vars) PROVE PubSubInv'
  OBVIOUS
<1>1. CASE P!InitAgain
  <2>1. PubSubTypes' BY <1>1 DEF P!InitAgain, P!publication, PubSubInv, PubSubTypes
  <2>2. \A u \in Threads : Progress(u)'
    BY <1>1, OthersProgress DEF P!InitAgain, P!publication, Walking
  <2> QED BY <2>1, <2>2 DEF PubSubInv
<1>2. CASE UNCHANGED P!vars
  <2>1. PubSubTypes' BY <1>2 DEF P!vars, P!publication, PubSubInv, PubSubTypes
  <2>2. \A u \in Threads : Progress(u)'
    BY <1>2, OthersProgress DEF P!vars, P!publication
  <2> QED BY <2>1, <2>2 DEF PubSubInv
<1> QED
  BY <1>1, <1>2, OutsideCalls, PublishCall, WalkStep, CallbackStep, AnswerStep, UnlockStep
  DEF P!Next, P!Step

\* A publication that got the mutex calls every subscriber of its topic exactly
\* once and in the order of the list, and no call works on a list that
\* pubsub_destroy has freed, for any number of threads, topics and subscribers.
THEOREM DeliveredExactlyOnce == P!Spec => []DeliveredOnce
<1>1. P!Init => PubSubInv
  <2> SUFFICES ASSUME P!Init PROVE PubSubInv
    OBVIOUS
  <2>1. topic = [t \in Threads |-> topic[t]] BY DEF P!Init
  <2>2. PubSubTypes BY <2>1 DEF P!Init, PubSubTypes
  <2>3. \A t \in Threads : Progress(t) BY DEF P!Init, Progress, Walking
  <2> QED BY <2>2, <2>3 DEF PubSubInv
<1>2. PubSubInv => DeliveredOnce
  BY DEF PubSubInv, PubSubTypes, Progress, Walking, DeliveredOnce, P!DeliveredOnce
<1> QED BY <1>1, <1>2, PubSubStep, PTL DEF P!Spec
==============================================================================
