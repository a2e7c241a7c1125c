---------------------------- MODULE RWLockProofs ----------------------------
(***************************************************************************)
(* The safety of rwlock.c for any number of threads and any limits.  The   *)
(* exclusion of readers by writers is decided on the counters, so it is    *)
(* only inductive together with CountersAgree; rwlock_unlock chooses its   *)
(* branch by active_writers, so CountersAgree in turn needs Exclusion to   *)
(* know that the caller is the writer.  The configuration rests on it:     *)
(* bme680_config.c is proved over the lock, step by step.                  *)
(***************************************************************************)
EXTENDS Config, PthreadTheorems

IInv == TypeOK /\ CountersAgree /\ Exclusion /\ WritersNotStranded

\* The invariant in the form the provers use it.
LEMMA Facts ==
    ASSUME IInv
    PROVE  /\ Typed(Threads, Labels, pc)
           /\ TypeOK /\ CountersAgree /\ Exclusion /\ WritersNotStranded
           /\ active_readers \in Nat /\ active_writers \in Nat
           /\ waiting_readers \in Nat /\ waiting_writers \in Nat
           /\ \A l : NumAt(pc, l) \in Nat
           /\ \A u \in Threads : NumAt(pc, pc[u]) > 0
           /\ active_readers = 0 => \A u \in Threads : pc[u] # "reading"
           /\ active_writers = 0 => \A u \in Threads : pc[u] # "writing"
<1>1. TypeOK /\ CountersAgree /\ Exclusion /\ WritersNotStranded BY DEF IInv
<1>2. Typed(Threads, Labels, pc) BY <1>1, RWLockAssumption DEF TypeOK, Typed
<1>3. /\ active_readers \in Nat /\ active_writers \in Nat
      /\ waiting_readers \in Nat /\ waiting_writers \in Nat
  BY <1>1, RWLockAssumption DEF TypeOK
<1>4. \A l : NumAt(pc, l) \in Nat BY <1>2, NumType
<1>5. /\ active_readers = 0 => \A u \in Threads : pc[u] # "reading"
      /\ active_writers = 0 => \A u \in Threads : pc[u] # "writing"
  BY <1>1, <1>2, NumZero DEF CountersAgree
<1>6. ASSUME NEW u \in Threads PROVE NumAt(pc, pc[u]) > 0
  <2>1. NumAt(pc, pc[u]) # 0 BY <1>2, NumZero
  <2> QED BY <1>4, <2>1
<1> QED BY <1>1, <1>2, <1>3, <1>4, <1>5, <1>6

\* The condition under which the lemmas about counting apply.
LEMMA TypedInv == ASSUME IInv PROVE Typed(Threads, Labels, pc)
BY Facts

\* The loop of rwlock_rdlock, entered from the call or from a wakeup.
LEMMA RdKeeps ==
    ASSUME IInv, NEW t \in Threads, RdLock(t) \/ RdResume(t)
    PROVE  IInv'
<1>1. CASE RdLock(t) /\ ReaderBlocked
  <2>0. /\ pc' = [pc EXCEPT ![t] = "r_asleep"] /\ pc[t] = "idle"
        /\ waiting_readers' = waiting_readers + 1 /\ waiting_readers < MaxWaitingReaders
        /\ UNCHANGED <<active_readers, active_writers, waiting_writers>>
    BY <1>1 DEF RdLock, RdResume, RdLoop, ReaderBlocked, writerVars
  <2>1. Moves(Threads, Labels, pc, pc', t, "idle", "r_asleep") BY <2>0, TypedInv DEF Moves, Labels
  <2>2. TypeOK' BY <2>0, Facts, RWLockAssumption DEF TypeOK, CountersAgree, Labels
  <2>3. CountersAgree' BY <2>0, <2>1, Facts, MoveNum DEF CountersAgree
  <2>4. Exclusion' BY <2>0, Facts DEF Exclusion, TypeOK
  <2>5. WritersNotStranded' BY <2>0, Facts DEF WritersNotStranded, TypeOK
  <2> QED BY <2>2, <2>3, <2>4, <2>5 DEF IInv
<1>2. CASE RdLock(t) /\ ~ReaderBlocked
  <2>0. /\ pc' = [pc EXCEPT ![t] = "reading"] /\ pc[t] = "idle"
        /\ active_readers' = active_readers + 1 /\ ~(active_writers > 0)
        /\ waiting_readers' = (waiting_readers + 1) - 1 /\ UNCHANGED <<active_writers, waiting_writers>>
    BY <1>2 DEF RdLock, RdResume, RdLoop, ReaderBlocked, writerVars
  <2>1. Moves(Threads, Labels, pc, pc', t, "idle", "reading") BY <2>0, TypedInv DEF Moves, Labels
  <2>2. TypeOK' BY <2>0, Facts, RWLockAssumption DEF TypeOK, CountersAgree, Labels
  <2>3. CountersAgree' BY <2>0, <2>1, Facts, MoveNum DEF CountersAgree
  <2>4. Exclusion' BY <2>0, Facts DEF Exclusion, TypeOK
  <2>5. WritersNotStranded' BY <2>0, Facts DEF WritersNotStranded, TypeOK
  <2> QED BY <2>2, <2>3, <2>4, <2>5 DEF IInv
<1>3. CASE RdResume(t) /\ ReaderBlocked
  <2>0. /\ pc' = [pc EXCEPT ![t] = "r_asleep"] /\ pc[t] = "r_woken"
        /\ UNCHANGED waiting_readers
        /\ UNCHANGED <<active_readers, active_writers, waiting_writers>>
    BY <1>3 DEF RdLock, RdResume, RdLoop, ReaderBlocked, writerVars
  <2>1. Moves(Threads, Labels, pc, pc', t, "r_woken", "r_asleep") BY <2>0, TypedInv DEF Moves, Labels
  <2>2. TypeOK' BY <2>0, Facts, RWLockAssumption DEF TypeOK, CountersAgree, Labels
  <2>3. CountersAgree' BY <2>0, <2>1, Facts, MoveNum DEF CountersAgree
  <2>4. Exclusion' BY <2>0, Facts DEF Exclusion, TypeOK
  <2>5. WritersNotStranded' BY <2>0, Facts DEF WritersNotStranded, TypeOK
  <2> QED BY <2>2, <2>3, <2>4, <2>5 DEF IInv
<1>4. CASE RdResume(t) /\ ~ReaderBlocked
  <2>0. /\ pc' = [pc EXCEPT ![t] = "reading"] /\ pc[t] = "r_woken"
        /\ active_readers' = active_readers + 1 /\ ~(active_writers > 0)
        /\ waiting_readers' = waiting_readers - 1 /\ UNCHANGED <<active_writers, waiting_writers>>
    BY <1>4 DEF RdLock, RdResume, RdLoop, ReaderBlocked, writerVars
  <2>1. Moves(Threads, Labels, pc, pc', t, "r_woken", "reading") BY <2>0, TypedInv DEF Moves, Labels
  <2>2. TypeOK' BY <2>0, Facts, RWLockAssumption DEF TypeOK, CountersAgree, Labels
  <2>3. CountersAgree' BY <2>0, <2>1, Facts, MoveNum DEF CountersAgree
  <2>4. Exclusion' BY <2>0, Facts DEF Exclusion, TypeOK
  <2>5. WritersNotStranded' BY <2>0, Facts DEF WritersNotStranded, TypeOK
  <2> QED BY <2>2, <2>3, <2>4, <2>5 DEF IInv
<1> QED BY <1>1, <1>2, <1>3, <1>4

\* The loop of rwlock_wrlock, entered from the call or from a wakeup.
LEMMA WrKeeps ==
    ASSUME IInv, NEW t \in Threads, WrLock(t) \/ WrResume(t)
    PROVE  IInv'
<1>1. CASE WrLock(t) /\ WriterBlocked
  <2>0. /\ pc' = [pc EXCEPT ![t] = "w_asleep"] /\ pc[t] = "idle"
        /\ (active_readers > 0 \/ active_writers > 0) /\ waiting_writers < MaxWaitingWriters
        /\ waiting_writers' = waiting_writers + 1 /\ UNCHANGED <<active_writers, active_readers, waiting_readers>>
    BY <1>1 DEF WrLock, WrResume, WrLoop, WriterBlocked, readerVars
  <2>1. Moves(Threads, Labels, pc, pc', t, "idle", "w_asleep") BY <2>0, TypedInv DEF Moves, Labels
  <2>2. TypeOK' BY <2>0, Facts, RWLockAssumption DEF TypeOK, CountersAgree, Labels
  <2>3. CountersAgree' BY <2>0, <2>1, Facts, MoveNum DEF CountersAgree
  <2>4. Exclusion' BY <2>0, Facts DEF Exclusion, TypeOK
  <2>5. WritersNotStranded' BY <2>0, Facts DEF WritersNotStranded, TypeOK
  <2> QED BY <2>2, <2>3, <2>4, <2>5 DEF IInv
<1>2. CASE WrLock(t) /\ ~WriterBlocked
  <2>0. /\ pc' = [pc EXCEPT ![t] = "writing"] /\ pc[t] = "idle"
        /\ active_writers' = active_writers + 1 /\ ~(active_readers > 0 \/ active_writers > 0)
        /\ waiting_writers' = (waiting_writers + 1) - 1 /\ UNCHANGED <<active_readers, waiting_readers>>
    BY <1>2 DEF WrLock, WrResume, WrLoop, WriterBlocked, readerVars
  <2>1. Moves(Threads, Labels, pc, pc', t, "idle", "writing") BY <2>0, TypedInv DEF Moves, Labels
  <2>2. TypeOK' BY <2>0, Facts, RWLockAssumption DEF TypeOK, CountersAgree, Labels
  <2>3. CountersAgree' BY <2>0, <2>1, Facts, MoveNum DEF CountersAgree
  <2>4. Exclusion' BY <2>0, Facts DEF Exclusion, TypeOK
  <2>5. WritersNotStranded' BY <2>0, Facts DEF WritersNotStranded, TypeOK
  <2> QED BY <2>2, <2>3, <2>4, <2>5 DEF IInv
<1>3. CASE WrResume(t) /\ WriterBlocked
  <2>0. /\ pc' = [pc EXCEPT ![t] = "w_asleep"] /\ pc[t] = "w_woken"
        /\ (active_readers > 0 \/ active_writers > 0) /\ UNCHANGED waiting_writers
        /\ UNCHANGED <<active_writers, active_readers, waiting_readers>>
    BY <1>3 DEF WrLock, WrResume, WrLoop, WriterBlocked, readerVars
  <2>1. Moves(Threads, Labels, pc, pc', t, "w_woken", "w_asleep") BY <2>0, TypedInv DEF Moves, Labels
  <2>2. TypeOK' BY <2>0, Facts, RWLockAssumption DEF TypeOK, CountersAgree, Labels
  <2>3. CountersAgree' BY <2>0, <2>1, Facts, MoveNum DEF CountersAgree
  <2>4. Exclusion' BY <2>0, Facts DEF Exclusion, TypeOK
  <2>5. WritersNotStranded' BY <2>0, Facts DEF WritersNotStranded, TypeOK
  <2> QED BY <2>2, <2>3, <2>4, <2>5 DEF IInv
<1>4. CASE WrResume(t) /\ ~WriterBlocked
  <2>0. /\ pc' = [pc EXCEPT ![t] = "writing"] /\ pc[t] = "w_woken"
        /\ active_writers' = active_writers + 1 /\ ~(active_readers > 0 \/ active_writers > 0)
        /\ waiting_writers' = waiting_writers - 1 /\ UNCHANGED <<active_readers, waiting_readers>>
    BY <1>4 DEF WrLock, WrResume, WrLoop, WriterBlocked, readerVars
  <2>1. Moves(Threads, Labels, pc, pc', t, "w_woken", "writing") BY <2>0, TypedInv DEF Moves, Labels
  <2>2. TypeOK' BY <2>0, Facts, RWLockAssumption DEF TypeOK, CountersAgree, Labels
  <2>3. CountersAgree' BY <2>0, <2>1, Facts, MoveNum DEF CountersAgree
  <2>4. Exclusion' BY <2>0, Facts DEF Exclusion, TypeOK
  <2>5. WritersNotStranded' BY <2>0, Facts DEF WritersNotStranded, TypeOK
  <2> QED BY <2>2, <2>3, <2>4, <2>5 DEF IInv
<1> QED BY <1>1, <1>2, <1>3, <1>4

\* A waiter leaves the wait set by its deadline or spuriously, or gives up.
LEMMA LeaveKeeps ==
    ASSUME IInv, NEW t \in Threads,
           RdTimeout(t) \/ RdGiveUp(t) \/ WrTimeout(t) \/ WrGiveUp(t) \/ SpuriousWakeup(t)
    PROVE  IInv'
<1>1. CASE RdTimeout(t)
  <2>0. /\ pc' = [pc EXCEPT ![t] = "r_timedout"] /\ pc[t] = "r_asleep"
        /\ UNCHANGED <<active_readers, waiting_readers>>
        /\ UNCHANGED <<active_writers, waiting_writers>>
    BY <1>1 DEF RdTimeout, readerVars, writerVars
  <2>1. Moves(Threads, Labels, pc, pc', t, "r_asleep", "r_timedout") BY <2>0, TypedInv DEF Moves, Labels
  <2>2. TypeOK' BY <2>0, Facts, RWLockAssumption DEF TypeOK, CountersAgree, Labels
  <2>3. CountersAgree' BY <2>0, <2>1, Facts, MoveNum DEF CountersAgree
  <2>4. Exclusion' BY <2>0, Facts DEF Exclusion, TypeOK
  <2>5. WritersNotStranded' BY <2>0, Facts DEF WritersNotStranded, TypeOK
  <2> QED BY <2>2, <2>3, <2>4, <2>5 DEF IInv
<1>2. CASE WrTimeout(t)
  <2>0. /\ pc' = [pc EXCEPT ![t] = "w_timedout"] /\ pc[t] = "w_asleep"
        /\ UNCHANGED <<active_readers, waiting_readers>>
        /\ UNCHANGED <<active_writers, waiting_writers>>
    BY <1>2 DEF WrTimeout, readerVars, writerVars
  <2>1. Moves(Threads, Labels, pc, pc', t, "w_asleep", "w_timedout") BY <2>0, TypedInv DEF Moves, Labels
  <2>2. TypeOK' BY <2>0, Facts, RWLockAssumption DEF TypeOK, CountersAgree, Labels
  <2>3. CountersAgree' BY <2>0, <2>1, Facts, MoveNum DEF CountersAgree
  <2>4. Exclusion' BY <2>0, Facts DEF Exclusion, TypeOK
  <2>5. WritersNotStranded' BY <2>0, Facts DEF WritersNotStranded, TypeOK
  <2> QED BY <2>2, <2>3, <2>4, <2>5 DEF IInv
<1>3. CASE RdGiveUp(t)
  <2>0. /\ pc' = [pc EXCEPT ![t] = "idle"] /\ pc[t] = "r_timedout"
        /\ waiting_readers' = waiting_readers - 1
        /\ UNCHANGED <<active_readers, active_writers, waiting_writers>>
    BY <1>3 DEF RdGiveUp, writerVars
  <2>1. Moves(Threads, Labels, pc, pc', t, "r_timedout", "idle") BY <2>0, TypedInv DEF Moves, Labels
  <2>2. TypeOK' BY <2>0, Facts, RWLockAssumption DEF TypeOK, CountersAgree, Labels
  <2>3. CountersAgree' BY <2>0, <2>1, Facts, MoveNum DEF CountersAgree
  <2>4. Exclusion' BY <2>0, Facts DEF Exclusion, TypeOK
  <2>5. WritersNotStranded' BY <2>0, Facts DEF WritersNotStranded, TypeOK
  <2> QED BY <2>2, <2>3, <2>4, <2>5 DEF IInv
<1>4. CASE WrGiveUp(t)
  <2>0. /\ pc' = [pc EXCEPT ![t] = "idle"] /\ pc[t] = "w_timedout"
        /\ waiting_writers' = waiting_writers - 1
        /\ UNCHANGED <<active_writers, active_readers, waiting_readers>>
    BY <1>4 DEF WrGiveUp, readerVars
  <2>1. Moves(Threads, Labels, pc, pc', t, "w_timedout", "idle") BY <2>0, TypedInv DEF Moves, Labels
  <2>2. TypeOK' BY <2>0, Facts, RWLockAssumption DEF TypeOK, CountersAgree, Labels
  <2>3. CountersAgree' BY <2>0, <2>1, Facts, MoveNum DEF CountersAgree
  <2>4. Exclusion' BY <2>0, Facts DEF Exclusion, TypeOK
  <2>5. WritersNotStranded' BY <2>0, Facts DEF WritersNotStranded, TypeOK
  <2> QED BY <2>2, <2>3, <2>4, <2>5 DEF IInv
<1>5. CASE SpuriousWakeup(t) /\ pc[t] = "r_asleep"
  <2>0. /\ pc' = [pc EXCEPT ![t] = "r_woken"] /\ pc[t] = "r_asleep"
        /\ UNCHANGED <<active_readers, waiting_readers>>
        /\ UNCHANGED <<active_writers, waiting_writers>>
    BY <1>5 DEF SpuriousWakeup, readerVars, writerVars
  <2>1. Moves(Threads, Labels, pc, pc', t, "r_asleep", "r_woken") BY <2>0, TypedInv DEF Moves, Labels
  <2>2. TypeOK' BY <2>0, Facts, RWLockAssumption DEF TypeOK, CountersAgree, Labels
  <2>3. CountersAgree' BY <2>0, <2>1, Facts, MoveNum DEF CountersAgree
  <2>4. Exclusion' BY <2>0, Facts DEF Exclusion, TypeOK
  <2>5. WritersNotStranded' BY <2>0, Facts DEF WritersNotStranded, TypeOK
  <2> QED BY <2>2, <2>3, <2>4, <2>5 DEF IInv
<1>6. CASE SpuriousWakeup(t) /\ pc[t] = "w_asleep"
  <2>0. /\ pc' = [pc EXCEPT ![t] = "w_woken"] /\ pc[t] = "w_asleep"
        /\ UNCHANGED <<active_readers, waiting_readers>>
        /\ UNCHANGED <<active_writers, waiting_writers>>
    BY <1>6 DEF SpuriousWakeup, readerVars, writerVars
  <2>1. Moves(Threads, Labels, pc, pc', t, "w_asleep", "w_woken") BY <2>0, TypedInv DEF Moves, Labels
  <2>2. TypeOK' BY <2>0, Facts, RWLockAssumption DEF TypeOK, CountersAgree, Labels
  <2>3. CountersAgree' BY <2>0, <2>1, Facts, MoveNum DEF CountersAgree
  <2>4. Exclusion' BY <2>0, Facts DEF Exclusion, TypeOK
  <2>5. WritersNotStranded' BY <2>0, Facts DEF WritersNotStranded, TypeOK
  <2> QED BY <2>2, <2>3, <2>4, <2>5 DEF IInv
<1> QED BY <1>1, <1>2, <1>3, <1>4, <1>5, <1>6 DEF SpuriousWakeup

\* What the counters see of the threads: a signal or a broadcast moves waiters
\* between labels that the counters do not tell apart.
SameForCounters(q, r) ==
    /\ Typed(Threads, Labels, r)
    /\ NumAt(r, "reading") = NumAt(q, "reading")
    /\ NumAt(r, "writing") = NumAt(q, "writing")
    /\ NumAt(r, "r_asleep") + NumAt(r, "r_woken") + NumAt(r, "r_timedout")
          = NumAt(q, "r_asleep") + NumAt(q, "r_woken") + NumAt(q, "r_timedout")
    /\ NumAt(r, "w_asleep") + NumAt(r, "w_woken") + NumAt(r, "w_timedout")
          = NumAt(q, "w_asleep") + NumAt(q, "w_woken") + NumAt(q, "w_timedout")
    /\ \A u \in Threads : r[u] \in {"reading", "writing"} => r[u] = q[u]

\* pthread_cond_signal moves nobody into or out of the lock.
LEMMA SignalSame ==
    ASSUME NEW q, Typed(Threads, Labels, q),
           NEW r \in CondSignal(q, "w_asleep", "w_woken")
    PROVE  /\ SameForCounters(q, r)
           /\ (\E u \in Threads : r[u] = "w_asleep") => \E u \in Threads : r[u] = "w_woken"
<1>1. "w_woken" \in Labels BY DEF Labels
<1>2. CASE r = q /\ \A u \in Threads : q[u] # "w_asleep"
  BY <1>2 DEF SameForCounters
<1>3. CASE \E u \in Threads : q[u] = "w_asleep" /\ r = [q EXCEPT ![u] = "w_woken"]
  <2>1. PICK u \in Threads : q[u] = "w_asleep" /\ r = [q EXCEPT ![u] = "w_woken"]
    BY <1>3
  <2>2. Moves(Threads, Labels, q, r, u, "w_asleep", "w_woken")
    BY <1>1, <2>1 DEF Moves
  <2>3. \A l : NumAt(q, l) \in Nat BY NumType
  <2>4. r[u] = "w_woken" /\ \A v \in Threads : v # u => r[v] = q[v]
    BY <2>1 DEF Typed
  <2>5. /\ Typed(Threads, Labels, r)
        /\ NumAt(r, "reading") = NumAt(q, "reading")
        /\ NumAt(r, "writing") = NumAt(q, "writing")
        /\ NumAt(r, "r_asleep") = NumAt(q, "r_asleep")
        /\ NumAt(r, "r_woken") = NumAt(q, "r_woken")
        /\ NumAt(r, "r_timedout") = NumAt(q, "r_timedout")
        /\ NumAt(r, "w_asleep") = NumAt(q, "w_asleep") - 1
        /\ NumAt(r, "w_woken") = NumAt(q, "w_woken") + 1
        /\ NumAt(r, "w_timedout") = NumAt(q, "w_timedout")
    BY <2>2, MoveNum
  <2> QED BY <2>3, <2>4, <2>5 DEF SameForCounters
<1> QED BY <1>1, <1>2, <1>3, SignalNum

\* pthread_cond_broadcast moves nobody into or out of the lock.
LEMMA BroadcastSame ==
    ASSUME NEW q, Typed(Threads, Labels, q),
           NEW r, r = CondBroadcast(q, "r_asleep", "r_woken")
    PROVE  SameForCounters(q, r) /\ \A u \in Threads : r[u] = "w_asleep" => q[u] = "w_asleep"
<1>1. "r_woken" \in Labels BY DEF Labels
<1>2. \A l : NumAt(q, l) \in Nat BY NumType
<1>3. /\ Typed(Threads, Labels, r)
      /\ NumAt(r, "reading") = NumAt(q, "reading")
      /\ NumAt(r, "writing") = NumAt(q, "writing")
      /\ NumAt(r, "r_asleep") = 0
      /\ NumAt(r, "r_woken") = NumAt(q, "r_asleep") + NumAt(q, "r_woken")
      /\ NumAt(r, "r_timedout") = NumAt(q, "r_timedout")
      /\ NumAt(r, "w_asleep") = NumAt(q, "w_asleep")
      /\ NumAt(r, "w_woken") = NumAt(q, "w_woken")
      /\ NumAt(r, "w_timedout") = NumAt(q, "w_timedout")
  BY <1>1, BroadcastNum
<1>4. \A u \in Threads : r[u] = IF q[u] = "r_asleep" THEN "r_woken" ELSE q[u]
  BY <1>1, BroadcastNum
<1> QED BY <1>2, <1>3, <1>4 DEF SameForCounters

\* The first branch of rwlock_unlock: the caller is the writer.
LEMMA UnlockWriterKeeps ==
    ASSUME IInv, NEW t \in Threads, UnlockWriter(t)
    PROVE  IInv'
<1> DEFINE q == [pc EXCEPT ![t] = "idle"]
<1>1. /\ active_writers > 0 /\ active_writers' = active_writers - 1
      /\ pc' \in WakeWriterOrReaders(q)
      /\ UNCHANGED <<active_readers, waiting_readers, waiting_writers>>
  BY DEF UnlockWriter, readerVars
<1>2. pc[t] = "writing"
  <2>1. \E w \in Threads : pc[w] = "writing"
    BY <1>1, Facts, NumZero DEF CountersAgree
  <2> QED BY <2>1, Facts DEF UnlockWriter, Exclusion
<1>3. Moves(Threads, Labels, pc, q, t, "writing", "idle")
  BY <1>2, TypedInv DEF Moves, Labels
<1>4. \A u \in Threads : q[u] = IF u = t THEN "idle" ELSE pc[u]
  BY TypedInv DEF Typed
<1> HIDE DEF q
<1>5. Typed(Threads, Labels, q) BY <1>3, MoveNum
<1>6. SameForCounters(q, pc')
  BY <1>1, <1>5, SignalSame, BroadcastSame DEF WakeWriterOrReaders
<1>7. TypeOK'
  <2>1. pc' \in [Threads -> Labels] BY <1>6 DEF SameForCounters, Typed
  <2> QED BY <1>1, <2>1, Facts DEF TypeOK
<1>8. CountersAgree'
  <2>1. /\ NumAt(q, "reading") = NumAt(pc, "reading")
        /\ NumAt(q, "writing") = NumAt(pc, "writing") - 1
        /\ NumAt(q, "r_asleep") = NumAt(pc, "r_asleep")
        /\ NumAt(q, "r_woken") = NumAt(pc, "r_woken")
        /\ NumAt(q, "r_timedout") = NumAt(pc, "r_timedout")
        /\ NumAt(q, "w_asleep") = NumAt(pc, "w_asleep")
        /\ NumAt(q, "w_woken") = NumAt(pc, "w_woken")
        /\ NumAt(q, "w_timedout") = NumAt(pc, "w_timedout")
    BY <1>3, MoveNum
  <2> QED BY <1>1, <1>6, <2>1, Facts DEF SameForCounters, CountersAgree
<1>9. Exclusion'
  <2>1. \A u \in Threads : pc'[u] \in {"reading", "writing"} => u # t /\ pc'[u] = pc[u]
    BY <1>4, <1>6 DEF SameForCounters
  <2> QED BY <2>1, Facts DEF Exclusion
<1>10. WritersNotStranded'
  <2>1. CASE waiting_writers > 0
    BY <1>1, <1>5, <2>1, SignalSame DEF WakeWriterOrReaders, WritersNotStranded
  <2>2. CASE ~(waiting_writers > 0)
    <3>1. NumAt(pc, "w_asleep") = 0 BY <2>2, Facts DEF CountersAgree
    <3>2. \A u \in Threads : pc[u] # "w_asleep" BY <3>1, Facts, NumZero
    <3>3. \A u \in Threads : pc'[u] # "w_asleep"
      BY <1>1, <1>4, <1>5, <2>2, <3>2, BroadcastSame DEF WakeWriterOrReaders
    <3> QED BY <3>3 DEF WritersNotStranded
  <2> QED BY <2>1, <2>2
<1> QED BY <1>7, <1>8, <1>9, <1>10 DEF IInv

\* The second branch of rwlock_unlock: the caller is a reader.
LEMMA UnlockReaderKeeps ==
    ASSUME IInv, NEW t \in Threads, UnlockReader(t)
    PROVE  IInv'
<1> DEFINE q == [pc EXCEPT ![t] = "idle"]
<1>1. /\ active_writers = 0 /\ active_readers > 0 /\ active_readers' = active_readers - 1
      /\ \/ pc' \in CondSignal(q, "w_asleep", "w_woken")
         \/ pc' = q /\ ~(active_readers = 1 /\ waiting_writers > 0)
      /\ UNCHANGED <<active_writers, waiting_readers, waiting_writers>>
  BY DEF UnlockReader, writerVars
<1>2. pc[t] = "reading" BY <1>1, Facts DEF UnlockReader
<1>3. Moves(Threads, Labels, pc, q, t, "reading", "idle")
  BY <1>2, TypedInv DEF Moves, Labels
<1>4. \A u \in Threads : q[u] = IF u = t THEN "idle" ELSE pc[u]
  BY TypedInv DEF Typed
<1> HIDE DEF q
<1>5. Typed(Threads, Labels, q) BY <1>3, MoveNum
<1>6. SameForCounters(q, pc')
  <2>1. CASE pc' = q BY <1>5, <2>1 DEF SameForCounters
  <2> QED BY <1>1, <1>5, <2>1, SignalSame
<1>7. TypeOK'
  <2>1. pc' \in [Threads -> Labels] BY <1>6 DEF SameForCounters, Typed
  <2> QED BY <1>1, <2>1, Facts DEF TypeOK
<1>8. CountersAgree'
  <2>1. /\ NumAt(q, "reading") = NumAt(pc, "reading") - 1
        /\ NumAt(q, "writing") = NumAt(pc, "writing")
        /\ NumAt(q, "r_asleep") = NumAt(pc, "r_asleep")
        /\ NumAt(q, "r_woken") = NumAt(pc, "r_woken")
        /\ NumAt(q, "r_timedout") = NumAt(pc, "r_timedout")
        /\ NumAt(q, "w_asleep") = NumAt(pc, "w_asleep")
        /\ NumAt(q, "w_woken") = NumAt(pc, "w_woken")
        /\ NumAt(q, "w_timedout") = NumAt(pc, "w_timedout")
    BY <1>3, MoveNum
  <2> QED BY <1>1, <1>6, <2>1, Facts DEF SameForCounters, CountersAgree
<1>9. Exclusion'
  <2>1. \A u \in Threads : pc'[u] \in {"reading", "writing"} => u # t /\ pc'[u] = pc[u]
    BY <1>4, <1>6 DEF SameForCounters
  <2> QED BY <2>1, Facts DEF Exclusion
<1>10. WritersNotStranded'
  <2>1. CASE pc' \in CondSignal(q, "w_asleep", "w_woken")
    BY <1>5, <2>1, SignalSame DEF WritersNotStranded
  <2>2. CASE pc' = q /\ active_readers # 1
    BY <1>1, <2>2, Facts DEF WritersNotStranded
  <2>3. CASE pc' = q /\ ~(waiting_writers > 0)
    <3>1. NumAt(pc, "w_asleep") = 0 BY <2>3, Facts DEF CountersAgree
    <3>2. \A u \in Threads : pc[u] # "w_asleep" BY <3>1, Facts, NumZero
    <3> QED BY <1>4, <2>3, <3>2 DEF WritersNotStranded
  <2> QED BY <1>1, <2>1, <2>2, <2>3
<1> QED BY <1>7, <1>8, <1>9, <1>10 DEF IInv

\* rwlock_init: no thread is anywhere, every counter is zero.
LEMMA InitInv == Init => IInv
<1> SUFFICES ASSUME Init PROVE IInv
  OBVIOUS
<1>1. TypeOK BY RWLockAssumption DEF Init, TypeOK, Labels
<1>2. Typed(Threads, Labels, pc) BY <1>1, RWLockAssumption DEF TypeOK, Typed
<1>3. \A u \in Threads : pc[u] = "idle" BY DEF Init
<1>4. \A l : l # "idle" => NumAt(pc, l) = 0 BY <1>2, <1>3, NumZero
<1>5. CountersAgree BY <1>4 DEF Init, CountersAgree
<1> QED BY <1>1, <1>3, <1>5 DEF IInv, Exclusion, WritersNotStranded

\* Every step of rwlock.c keeps the inductive invariant.
LEMMA StepKeepsInv == IInv /\ [Next]_vars => IInv'
<1> SUFFICES ASSUME IInv, [Next]_vars PROVE IInv'
  OBVIOUS
<1>1. CASE UNCHANGED vars
  BY <1>1 DEF vars, IInv, TypeOK, CountersAgree, Exclusion, WritersNotStranded
<1>2. CASE Next
  BY <1>2, RdKeeps, WrKeeps, LeaveKeeps, UnlockWriterKeeps, UnlockReaderKeeps DEF Next
<1> QED BY <1>1, <1>2

\* The inductive invariant holds in every reachable state.
LEMMA Invariance == Spec => []IInv
BY InitInv, StepKeepsInv, PTL DEF Spec

\* The counters of rwlock.c never become negative, and never exceed their limits.
THEOREM TypeCorrect == Spec => []TypeOK
BY Invariance, PTL DEF IInv

\* The counters always agree with what the threads do, timeouts included.
THEOREM CountersAlwaysAgree == Spec => []CountersAgree
BY Invariance, PTL DEF IInv

\* rwlock_rdlock and rwlock_wrlock exclude writers from everybody.
THEOREM MutualExclusion == Spec => []Exclusion
BY Invariance, PTL DEF IInv

\* The single signal of rwlock_unlock never strands a writer.
THEOREM WritersAreNotStranded == Spec => []WritersNotStranded
BY Invariance, PTL DEF IInv
-----------------------------------------------------------------------------
\* bme680_config.c, when every lock call succeeds or its failure is looked at.
Ops == {"set", "get", "one"}

ConfigTypes ==
    /\ object \in {"static", "allocated"}
    /\ field \in [Fields -> Settings]
    /\ got \in [Threads -> Seq(Settings)]
    /\ call \in [Threads -> {None} \cup [op : Ops, v : Settings \cup {Invalid}, next : 1..4]]

\* Where a thread can be inside rwlock.c follows from the operation it is in.
CallFits == \A t \in Threads :
    /\ call[t] = None => pc[t] = "idle"
    /\ call[t] # None =>
          /\ call[t].op = "get" => pc[t] \in {"r_asleep", "r_woken", "reading"}
          /\ call[t].op # "get" => pc[t] \in {"w_asleep", "w_woken", "w_timedout", "writing"}
          /\ call[t].op = "one" <=> object = "allocated"
          /\ pc[t] = "w_timedout" => call[t].op = "set"
          /\ pc[t] \notin {"reading", "writing"} => call[t].next = 1

\* set_oversampling is between its lock and its unlock.
Setting(t) == pc[t] = "writing" /\ call[t].op = "set"

\* The fields before the next one are written, the others are what they were.
FieldsFit ==
    /\ (\A t \in Threads : ~Setting(t)) => \A f \in Fields : field[f] = field[1]
    /\ \A t \in Threads : Setting(t) =>
          /\ call[t].v = Invalid => \A f \in Fields : field[f] = field[1]
          /\ call[t].v # Invalid =>
                \A f \in Fields : f < call[t].next => field[f] = call[t].v
          /\ \A f, g \in Fields : f >= call[t].next /\ g >= call[t].next => field[f] = field[g]

\* What a get_oversampling that has the lock has copied is what is there.
CopiesFit == \A t \in Threads :
    /\ \A i \in 1..Len(got[t]) : got[t][i] = got[t][1]
    /\ pc[t] = "reading" =>
          /\ Len(got[t]) = call[t].next - 1
          /\ \A i \in 1..Len(got[t]) : got[t][i] = field[1]
    /\ pc[t] \in {"r_asleep", "r_woken"} => got[t] = <<>>

ConfigInv == IInv /\ ConfigTypes /\ CallFits /\ FieldsFit /\ CopiesFit

\* A reader and a setter are never both inside.
LEMMA ReadersSeeWhole ==
    ASSUME ConfigInv, NEW t \in Threads, pc[t] = "reading"
    PROVE  /\ \A u \in Threads : pc[u] # "writing"
           /\ \A f \in Fields : field[f] = field[1]
           /\ call[t] # None /\ call[t].op = "get"
<1>1. \A u \in Threads : pc[u] # "writing" BY DEF ConfigInv, IInv, Exclusion
<1>2. \A f \in Fields : field[f] = field[1] BY <1>1 DEF ConfigInv, FieldsFit, Setting
<1> QED BY <1>1, <1>2 DEF ConfigInv, CallFits

\* The operation takes the lock or is put to sleep.
LEMMA CallKeeps ==
    ASSUME ~IgnoredFailures, ConfigInv, NEW t \in Threads, NEW op \in Ops,
           NEW v \in Settings \cup {Invalid}, Call(t, op, v)
    PROVE  ConfigInv'
<1> DEFINE c == [op |-> op, v |-> v, next |-> 1]
<1>1. /\ call[t] = None /\ call' = [call EXCEPT ![t] = c]
      /\ got' = [got EXCEPT ![t] = <<>>] /\ UNCHANGED <<object, field>>
      /\ op = "one" <=> object = "allocated"
  BY DEF Call, ConfigInv, ConfigTypes, Ops
<1>2. /\ op = "get" => RdLock(t)
      /\ op # "get" => WrLock(t)
  BY DEF Call
<1>3. IInv' BY <1>2, RdKeeps, WrKeeps DEF ConfigInv
<1>4. /\ op = "get" => pc' \in {[pc EXCEPT ![t] = "r_asleep"], [pc EXCEPT ![t] = "reading"]}
      /\ op # "get" => pc' \in {[pc EXCEPT ![t] = "w_asleep"], [pc EXCEPT ![t] = "writing"]}
  BY <1>2 DEF RdLock, WrLock, RdLoop, WrLoop
<1>5. /\ op = "get" => pc'[t] \in {"r_asleep", "reading"}
      /\ op # "get" => pc'[t] \in {"w_asleep", "writing"}
      /\ \A u \in Threads : u # t => pc'[u] = pc[u]
  BY <1>4 DEF ConfigInv, IInv, TypeOK
<1>6. /\ call'[t] = c /\ c # None /\ c.op = op /\ c.v = v /\ c.next = 1 /\ got'[t] = <<>>
      /\ \A u \in Threads : u # t => call'[u] = call[u] /\ got'[u] = got[u]
  <2>1. c # None BY DEF None, Ops
  <2> QED BY <1>1, <2>1 DEF ConfigInv, ConfigTypes
<1>7. ConfigTypes'
  <2>1. c \in [op : Ops, v : Settings \cup {Invalid}, next : 1..4] OBVIOUS
  <2> QED BY <1>1, <2>1 DEF ConfigInv, ConfigTypes
<1> HIDE DEF c
<1>8. CallFits' BY <1>1, <1>5, <1>6 DEF ConfigInv, CallFits
<1>9. FieldsFit'
  <2>1. ~Setting(t) BY <1>1 DEF Setting, ConfigInv, CallFits
  <2>2. \A u \in Threads : u # t => (Setting(u)' <=> Setting(u)) BY <1>5, <1>6 DEF Setting
  <2>3. CASE Setting(t)'
    <3>1. \A u \in Threads : u # t => ~Setting(u)
      BY <1>3, <2>2, <2>3 DEF IInv, Exclusion, Setting
    <3>2. \A f \in Fields : field[f] = field[1] BY <2>1, <3>1 DEF ConfigInv, FieldsFit
    <3> QED BY <1>1, <1>6, <2>2, <2>3, <3>1, <3>2 DEF FieldsFit, Fields
  <2>4. CASE ~Setting(t)'
    BY <1>1, <1>6, <2>1, <2>2, <2>4 DEF ConfigInv, FieldsFit
  <2> QED BY <2>3, <2>4
<1>10. CopiesFit'
  <2>1. Len(got'[t]) = 0 BY <1>6
  <2>2. c.next - 1 = 0 BY <1>6
  <2> QED BY <1>1, <1>5, <1>6, <2>1, <2>2 DEF ConfigInv, CopiesFit
<1> QED BY <1>3, <1>7, <1>8, <1>9, <1>10 DEF ConfigInv

\* The lock is taken after a wait, or a setter's deadline fires.
LEMMA WaitKeeps ==
    ASSUME ~IgnoredFailures, ConfigInv, NEW t \in Threads, Wait(t)
    PROVE  ConfigInv'
<1>1. /\ \/ RdResume(t) \/ WrResume(t) \/ SpuriousWakeup(t)
         \/ Checked(call[t].op) /\ WrTimeout(t)
      /\ UNCHANGED <<object, call, field, got>>
  BY DEF Wait, configVars
<1>2. IInv' BY <1>1, RdKeeps, WrKeeps, LeaveKeeps DEF ConfigInv
<1>3. \/ /\ pc[t] \in {"r_asleep", "r_woken"}
         /\ pc' \in {[pc EXCEPT ![t] = l] : l \in {"r_asleep", "r_woken", "reading"}}
      \/ /\ pc[t] \in {"w_asleep", "w_woken"}
         /\ pc' \in {[pc EXCEPT ![t] = l] : l \in {"w_asleep", "w_woken", "writing"}}
      \/ /\ pc[t] = "w_asleep" /\ call[t].op = "set"
         /\ pc' = [pc EXCEPT ![t] = "w_timedout"]
  BY <1>1 DEF RdResume, WrResume, RdLoop, WrLoop, SpuriousWakeup, WrTimeout, Checked
<1>4. /\ \/ pc[t] \in {"r_asleep", "r_woken"} /\ pc'[t] \in {"r_asleep", "r_woken", "reading"}
         \/ pc[t] \in {"w_asleep", "w_woken"} /\ pc'[t] \in {"w_asleep", "w_woken", "writing"}
         \/ pc[t] = "w_asleep" /\ call[t].op = "set" /\ pc'[t] = "w_timedout"
      /\ \A u \in Threads : u # t => pc'[u] = pc[u]
  BY <1>3 DEF ConfigInv, IInv, TypeOK
<1>5. /\ call[t] # None /\ call[t].next = 1
      /\ pc[t] \in {"r_asleep", "r_woken"} => got[t] = <<>>
  BY <1>4 DEF ConfigInv, CallFits, CopiesFit
<1>6. ConfigTypes' BY <1>1 DEF ConfigInv, ConfigTypes
<1>7. CallFits' BY <1>1, <1>4, <1>5 DEF ConfigInv, CallFits
<1>8. FieldsFit'
  <2>1. ~Setting(t) BY <1>4 DEF Setting
  <2>2. \A u \in Threads : u # t => (Setting(u)' <=> Setting(u)) BY <1>1, <1>4 DEF Setting
  <2>3. CASE Setting(t)'
    <3>1. \A u \in Threads : u # t => ~Setting(u)
      BY <1>2, <2>2, <2>3 DEF IInv, Exclusion, Setting
    <3>2. \A f \in Fields : field[f] = field[1] BY <2>1, <3>1 DEF ConfigInv, FieldsFit
    <3> QED BY <1>1, <1>5, <2>2, <2>3, <3>1, <3>2 DEF FieldsFit, Fields
  <2>4. CASE ~Setting(t)'
    BY <1>1, <2>1, <2>2, <2>4 DEF ConfigInv, FieldsFit
  <2> QED BY <2>3, <2>4
<1>9. CopiesFit'
  <2>1. pc[t] \in {"r_asleep", "r_woken"} => Len(got[t]) = 0 BY <1>5
  <2>2. call[t].next - 1 = 0 BY <1>5
  <2> QED BY <1>1, <1>4, <1>5, <2>1, <2>2 DEF ConfigInv, CopiesFit
<1> QED BY <1>2, <1>6, <1>7, <1>8, <1>9 DEF ConfigInv

\* set_oversampling returns without the lock: it has changed nothing.
LEMMA GiveUpKeeps ==
    ASSUME ConfigInv, NEW t \in Threads, GiveUp(t)
    PROVE  ConfigInv'
<1>1. pc[t] # "r_timedout" BY DEF ConfigInv, CallFits
<1>2. /\ WrGiveUp(t) /\ pc[t] = "w_timedout" /\ pc' = [pc EXCEPT ![t] = "idle"]
      /\ UNCHANGED <<object, field, got>>
  BY <1>1 DEF GiveUp, RdGiveUp, WrGiveUp
<1>3. IInv' BY <1>2, LeaveKeeps DEF ConfigInv
<1>4. call[t] # None /\ call[t].op = "set" BY <1>2 DEF ConfigInv, CallFits
<1>5. call' = [call EXCEPT ![t] = None] BY <1>4 DEF GiveUp, Checked
<1>6. /\ pc'[t] = "idle" /\ call'[t] = None
      /\ \A u \in Threads : u # t => pc'[u] = pc[u] /\ call'[u] = call[u]
  BY <1>2, <1>5 DEF ConfigInv, IInv, TypeOK, ConfigTypes
<1>7. ConfigTypes' BY <1>2, <1>5 DEF ConfigInv, ConfigTypes
<1>8. CallFits' BY <1>2, <1>6 DEF ConfigInv, CallFits
<1>9. FieldsFit'
  <2>1. ~Setting(t) /\ ~Setting(t)' BY <1>2, <1>6 DEF Setting
  <2>2. \A u \in Threads : u # t => (Setting(u)' <=> Setting(u)) BY <1>6 DEF Setting
  <2> QED BY <1>2, <1>6, <2>1, <2>2 DEF ConfigInv, FieldsFit
<1>10. CopiesFit' BY <1>2, <1>6 DEF ConfigInv, CopiesFit
<1> QED BY <1>3, <1>7, <1>8, <1>9, <1>10 DEF ConfigInv

\* One field is written or copied, or the sensor is changed, under the lock.
LEMMA AccessKeeps ==
    ASSUME ConfigInv, NEW t \in Threads, Access(t)
    PROVE  ConfigInv'
<1> DEFINE k == call[t].next
           stop == call[t].op = "set" /\ call[t].v = Invalid
           n == IF stop THEN 4 ELSE k + 1
<1>1. /\ call[t] # None /\ k \in 1..3
      /\ call' = [call EXCEPT ![t].next = n]
      /\ field' = IF call[t].op = "set" /\ ~stop THEN [field EXCEPT ![k] = call[t].v] ELSE field
      /\ got' = IF call[t].op = "get" THEN [got EXCEPT ![t] = Append(@, field[k])] ELSE got
      /\ UNCHANGED <<object, pc>> /\ UNCHANGED vars
  BY DEF Access, Accesses, Fields, vars
<1>2. pc[t] \in {"reading", "writing"} BY DEF Access, Accesses, ConfigInv, CallFits
<1>3. IInv'
  BY <1>1 DEF vars, ConfigInv, IInv, TypeOK, CountersAgree, Exclusion, WritersNotStranded
<1>4. call[t] \in [op : Ops, v : Settings \cup {Invalid}, next : 1..4]
  BY <1>1 DEF ConfigInv, ConfigTypes
<1>5. n \in 1..4 BY <1>1
<1>6. /\ call'[t] = [call[t] EXCEPT !.next = n]
      /\ \A u \in Threads : u # t => call'[u] = call[u]
  BY <1>1 DEF ConfigInv, ConfigTypes
<1>7. /\ call'[t].op = call[t].op /\ call'[t].v = call[t].v /\ call'[t].next = n
      /\ call'[t] \in [op : Ops, v : Settings \cup {Invalid}, next : 1..4]
  BY <1>4, <1>5, <1>6
<1>8. call'[t] # None BY <1>7 DEF None, Ops
<1>9. ConfigTypes'
  <2>1. field' \in [Fields -> Settings]
    BY <1>1, <1>4 DEF ConfigInv, ConfigTypes, Fields
  <2>2. field[k] \in Settings BY <1>1 DEF ConfigInv, ConfigTypes, Fields
  <2>3. Append(got[t], field[k]) \in Seq(Settings) BY <2>2 DEF ConfigInv, ConfigTypes
  <2>4. got' \in [Threads -> Seq(Settings)] BY <1>1, <2>3 DEF ConfigInv, ConfigTypes
  <2>5. call' \in [Threads -> {None} \cup [op : Ops, v : Settings \cup {Invalid}, next : 1..4]]
    <3>1. [call[t] EXCEPT !.next = n] \in [op : Ops, v : Settings \cup {Invalid}, next : 1..4]
      BY <1>6, <1>7
    <3> QED BY <1>1, <3>1 DEF ConfigInv, ConfigTypes
  <2> QED BY <1>1, <2>1, <2>4, <2>5 DEF ConfigInv, ConfigTypes
<1> HIDE DEF n, k, stop
<1>10. CallFits'
  BY <1>1, <1>2, <1>6, <1>7, <1>8 DEF ConfigInv, CallFits
<1>11. CASE call[t].op = "set"
  <2>1. /\ Setting(t) /\ Setting(t)' /\ got' = got
        /\ \A u \in Threads : u # t => ~Setting(u)' /\ pc'[u] \notin {"reading", "writing"}
    <3>1. pc[t] = "writing" BY <1>1, <1>2, <1>11 DEF ConfigInv, CallFits
    <3> QED BY <1>1, <1>7, <1>11, <3>1 DEF Setting, ConfigInv, IInv, Exclusion
  <2>2. CASE call[t].v = Invalid
    <3>1. field' = field /\ n = 4 BY <1>1, <1>11, <2>2 DEF stop, n
    <3>2. FieldsFit' BY <1>7, <2>1, <2>2, <3>1 DEF ConfigInv, FieldsFit, Fields
    <3>3. CopiesFit' BY <1>1, <1>7, <2>1 DEF ConfigInv, CopiesFit, Setting
    <3> QED BY <1>3, <1>9, <1>10, <3>2, <3>3 DEF ConfigInv
  <2>3. CASE call[t].v # Invalid
    <3>1. field' = [field EXCEPT ![k] = call[t].v] /\ n = k + 1
      BY <1>1, <1>11, <2>3 DEF stop, n
    <3>2. \A f \in Fields : field'[f] = IF f = k THEN call[t].v ELSE field[f]
      BY <3>1 DEF ConfigInv, ConfigTypes
    <3>3. /\ \A f \in Fields : f < k => field[f] = call[t].v
          /\ \A f, g \in Fields : f >= k /\ g >= k => field[f] = field[g]
      BY <2>1, <2>3 DEF ConfigInv, FieldsFit, k
    <3>4. \A f \in Fields : f < n => field'[f] = call[t].v
      BY <1>1, <3>1, <3>2, <3>3 DEF Fields
    <3>5. \A f, g \in Fields : f >= n /\ g >= n => field'[f] = field'[g]
      BY <1>1, <3>1, <3>2, <3>3 DEF Fields
    <3>6. FieldsFit' BY <1>7, <2>1, <2>3, <3>4, <3>5 DEF FieldsFit
    <3>7. CopiesFit' BY <1>1, <1>7, <2>1 DEF ConfigInv, CopiesFit, Setting
    <3> QED BY <1>3, <1>9, <1>10, <3>6, <3>7 DEF ConfigInv
  <2> QED BY <2>2, <2>3
<1>12. CASE call[t].op # "set"
  <2>1. field' = field /\ n = k + 1 BY <1>1, <1>12 DEF n, stop
  <2>2. \A u \in Threads : Setting(u)' <=> Setting(u) BY <1>1, <1>6, <1>7 DEF Setting
  <2>3. ~Setting(t) BY <1>12 DEF Setting
  <2>4. FieldsFit' BY <1>6, <2>1, <2>2, <2>3 DEF ConfigInv, FieldsFit
  <2>5. CASE call[t].op = "get"
    <3>1. pc[t] = "reading" BY <1>1, <1>2, <2>5 DEF ConfigInv, CallFits
    <3>2. field[k] = field[1] BY <1>1, <3>1, ReadersSeeWhole DEF Fields
    <3>3. /\ got'[t] = Append(got[t], field[k])
          /\ \A u \in Threads : u # t => got'[u] = got[u]
      BY <1>1, <2>5 DEF ConfigInv, ConfigTypes
    <3>4. got[t] \in Seq(Settings) /\ field[k] \in Settings
      BY <1>1 DEF ConfigInv, ConfigTypes, Fields
    <3>5. /\ Len(got'[t]) = Len(got[t]) + 1
          /\ \A i \in 1..Len(got'[t]) :
                got'[t][i] = IF i = Len(got[t]) + 1 THEN field[k] ELSE got[t][i]
      BY <3>3, <3>4
    <3>6. Len(got[t]) = k - 1 /\ \A i \in 1..Len(got[t]) : got[t][i] = field[1]
      BY <3>1 DEF ConfigInv, CopiesFit, k
    <3>7. \A i \in 1..Len(got'[t]) : got'[t][i] = field[1]
      BY <3>2, <3>4, <3>5, <3>6
    <3>8. Len(got'[t]) = n - 1 /\ 1 \in 1..Len(got'[t]) BY <1>1, <2>1, <3>5, <3>6
    <3>9. CopiesFit'
      <4>1. \A u \in Threads : u # t => pc'[u] = pc[u] /\ call'[u] = call[u] /\ got'[u] = got[u]
        BY <1>1, <1>6, <3>3
      <4>2. pc'[t] = "reading" BY <1>1, <3>1
      <4> QED BY <1>7, <2>1, <3>7, <3>8, <4>1, <4>2 DEF ConfigInv, CopiesFit
    <3> QED BY <1>3, <1>9, <1>10, <2>4, <3>9 DEF ConfigInv
  <2>6. CASE call[t].op # "get"
    <3>1. pc[t] = "writing" /\ got' = got BY <1>1, <1>2, <2>6 DEF ConfigInv, CallFits
    <3>2. CopiesFit' BY <1>1, <1>6, <2>1, <3>1 DEF ConfigInv, CopiesFit
    <3> QED BY <1>3, <1>9, <1>10, <2>4, <3>2 DEF ConfigInv
  <2> QED BY <2>5, <2>6
<1> QED BY <1>11, <1>12

\* rwlock_unlock takes its branch by the counters; with the lock held it is the
\* caller's own.  Waiters are woken and stay in their calls.
LEMMA UnlockIsLockUnlock ==
    ASSUME ConfigInv, NEW t \in Threads, Unlock(t)
    PROVE  /\ UnlockWriter(t) \/ UnlockReader(t)
           /\ pc'[t] = "idle"
           /\ \A u \in Threads : u # t =>
                 \/ pc'[u] = pc[u]
                 \/ pc[u] = "r_asleep" /\ pc'[u] = "r_woken"
                 \/ pc[u] = "w_asleep" /\ pc'[u] = "w_woken"
<1> DEFINE q == [pc EXCEPT ![t] = "idle"]
<1>1. pc[t] \in {"reading", "writing"} BY DEF Unlock, Accesses, ConfigInv, CallFits
<1>2. IInv BY DEF ConfigInv
<1>3. active_writers = 0 => active_readers > 0
  <2>1. active_writers = 0 => pc[t] = "reading" BY <1>1, <1>2, Facts
  <2> QED BY <1>2, <2>1, Facts
<1>4. ~(active_writers > 0) => active_writers = 0 BY <1>2, Facts
<1>5. UnlockWriter(t) \/ UnlockReader(t)
  <2>1. CASE active_writers > 0 BY <1>1, <2>1 DEF Unlock, UnlockWriter
  <2>2. CASE ~(active_writers > 0)
    BY <1>1, <1>3, <1>4, <2>2 DEF Unlock, UnlockReader, writerVars
  <2> QED BY <2>1, <2>2
<1>6. \/ pc' = q \/ pc' \in CondSignal(q, "w_asleep", "w_woken")
      \/ pc' = CondBroadcast(q, "r_asleep", "r_woken")
  BY DEF Unlock, WakeWriterOrReaders
<1>7. /\ Typed(Threads, Labels, q)
      /\ \A u \in Threads : q[u] = IF u = t THEN "idle" ELSE pc[u]
  BY <1>2, TypedInv DEF Typed, Labels
<1> HIDE DEF q
<1>8. \A u \in Threads :
         \/ pc'[u] = q[u]
         \/ q[u] = "r_asleep" /\ pc'[u] = "r_woken"
         \/ q[u] = "w_asleep" /\ pc'[u] = "w_woken"
  <2>1. CASE pc' = q BY <2>1
  <2>2. CASE pc' \in CondSignal(q, "w_asleep", "w_woken")
    BY <1>7, <2>2 DEF CondSignal, ThreadsAt, Typed
  <2>3. CASE pc' = CondBroadcast(q, "r_asleep", "r_woken")
    BY <1>7, <2>3 DEF CondBroadcast, Typed
  <2> QED BY <1>6, <2>1, <2>2, <2>3
<1> QED BY <1>5, <1>7, <1>8

\* The operation releases the lock and returns.
LEMMA UnlockKeeps ==
    ASSUME ConfigInv, NEW t \in Threads, Unlock(t)
    PROVE  ConfigInv'
<1>1. /\ pc[t] \in {"reading", "writing"} /\ call[t] # None /\ call[t].next = 4
      /\ call' = [call EXCEPT ![t] = None] /\ UNCHANGED <<object, field, got>>
  BY DEF Unlock, Accesses, ConfigInv, CallFits
<1>2. IInv' BY UnlockIsLockUnlock, UnlockWriterKeeps, UnlockReaderKeeps DEF ConfigInv
<1>3. /\ call'[t] = None /\ pc'[t] = "idle"
      /\ \A u \in Threads : u # t => call'[u] = call[u]
  BY <1>1, UnlockIsLockUnlock DEF ConfigInv, ConfigTypes
<1>4. \A u \in Threads : u # t =>
         \/ pc'[u] = pc[u]
         \/ pc[u] = "r_asleep" /\ pc'[u] = "r_woken"
         \/ pc[u] = "w_asleep" /\ pc'[u] = "w_woken"
  BY UnlockIsLockUnlock
<1>5. ConfigTypes' BY <1>1 DEF ConfigInv, ConfigTypes
<1>6. CallFits' BY <1>1, <1>3, <1>4 DEF ConfigInv, CallFits
<1>7. FieldsFit'
  <2>1. ~Setting(t)' BY <1>3 DEF Setting
  <2>2. \A u \in Threads : u # t => (Setting(u)' <=> Setting(u)) BY <1>3, <1>4 DEF Setting
  <2>3. CASE Setting(t)
    <3>1. \A u \in Threads : u # t => ~Setting(u)
      BY <2>3 DEF ConfigInv, IInv, Exclusion, Setting
    <3>2. \A f \in Fields : field[f] = field[1]
      BY <1>1, <2>3 DEF ConfigInv, FieldsFit, Fields
    <3> QED BY <1>1, <2>1, <2>2, <3>1, <3>2 DEF FieldsFit
  <2>4. CASE ~Setting(t)
    BY <1>1, <1>3, <2>1, <2>2, <2>4 DEF ConfigInv, FieldsFit
  <2> QED BY <2>3, <2>4
<1>8. CopiesFit' BY <1>1, <1>3, <1>4 DEF ConfigInv, CopiesFit
<1> QED BY <1>2, <1>5, <1>6, <1>7, <1>8 DEF ConfigInv

\* Every step of bme680_config.c keeps the invariant.
LEMMA ConfigStepKeeps ==
    ~IgnoredFailures /\ ConfigInv /\ [ConfigNext]_<<vars, configVars>> => ConfigInv'
<1> SUFFICES ASSUME ~IgnoredFailures, ConfigInv, [ConfigNext]_<<vars, configVars>>
             PROVE  ConfigInv'
  OBVIOUS
<1>1. CASE UNCHANGED <<vars, configVars>>
  <2>1. UNCHANGED <<object, call, field, got, pc>> /\ UNCHANGED vars BY <1>1 DEF vars, configVars
  <2>2. IInv'
    BY <2>1 DEF vars, ConfigInv, IInv, TypeOK, CountersAgree, Exclusion, WritersNotStranded
  <2>3. ConfigTypes' /\ CallFits' BY <2>1 DEF ConfigInv, ConfigTypes, CallFits
  <2>4. FieldsFit' /\ CopiesFit' BY <2>1 DEF ConfigInv, FieldsFit, Setting, CopiesFit
  <2> QED BY <2>2, <2>3, <2>4 DEF ConfigInv
<1>2. ASSUME NEW t \in Threads,
             \/ \E v \in Settings \cup {Invalid} : Call(t, "set", v)
             \/ \E op \in {"get", "one"} : Call(t, op, Invalid)
      PROVE  ConfigInv'
  BY <1>2, CallKeeps DEF Ops
<1> QED
  BY <1>1, <1>2, WaitKeeps, GiveUpKeeps, AccessKeeps, UnlockKeeps DEF ConfigNext

\* A configuration that the invariant describes is whole.
LEMMA ConfigInvWhole == ConfigInv => ConfigWhole
<1> SUFFICES ASSUME ConfigInv PROVE ConfigWhole
  OBVIOUS
<1>1. \A t \in Threads : Accesses(t) <=> call[t] # None /\ pc[t] \in {"reading", "writing"}
  BY DEF Accesses, ConfigInv, CallFits
<1>2. FieldsWhole
  <2> SUFFICES ASSUME \A t \in Threads : ~(Accesses(t) /\ call[t].op = "set")
               PROVE  \A f \in Fields : field[f] = field[1]
    BY DEF FieldsWhole
  <2>1. \A t \in Threads : ~Setting(t) BY <1>1 DEF Setting, ConfigInv, CallFits
  <2> QED BY <2>1 DEF ConfigInv, FieldsFit
<1>3. GetsWhole BY DEF GetsWhole, ConfigInv, CopiesFit, Fields
<1>4. SensorExclusive
  <2> SUFFICES ASSUME NEW t \in Threads, NEW u \in Threads, t # u, Accesses(t), Accesses(u),
                      object # "static"
               PROVE  FALSE
    BY DEF SensorExclusive
  <2>1. pc[t] = "writing" /\ pc[u] = "writing"
    BY <1>1 DEF ConfigInv, ConfigTypes, CallFits
  <2> QED BY <2>1 DEF ConfigInv, IInv, Exclusion
<1> QED BY <1>2, <1>3, <1>4 DEF ConfigWhole

\* bme680_config_init starts in it.
LEMMA ConfigInitInv == ConfigInit => ConfigInv
<1> SUFFICES ASSUME ConfigInit PROVE ConfigInv
  OBVIOUS
<1>1. IInv BY InitInv DEF ConfigInit
<1>2. \A t \in Threads : pc[t] = "idle" /\ call[t] = None /\ got[t] = <<>>
  BY DEF ConfigInit, Init
<1>3. ConfigTypes BY DEF ConfigInit, ConfigTypes
<1>4. CallFits BY <1>2 DEF CallFits
<1>5. FieldsFit BY <1>2 DEF ConfigInit, FieldsFit, Setting, Fields
<1>6. CopiesFit BY <1>2 DEF CopiesFit
<1> QED BY <1>1, <1>3, <1>4, <1>5, <1>6 DEF ConfigInv

\* As long as no lock call fails whose result the caller ignores, a configuration
\* is set and read as a whole and the sensor is changed by one thread at a time.
THEOREM ConfigAlwaysWhole ==
    ASSUME ~IgnoredFailures
    PROVE  ConfigSpec => []ConfigWhole
<1>1. ConfigInit => ConfigInv BY ConfigInitInv
<1>2. ConfigInv /\ [ConfigNext]_<<vars, configVars>> => ConfigInv' BY ConfigStepKeeps
<1>3. ConfigInv => ConfigWhole BY ConfigInvWhole
<1> QED BY <1>1, <1>2, <1>3, PTL DEF ConfigSpec
==============================================================================
