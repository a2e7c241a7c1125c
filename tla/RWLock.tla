------------------------------- MODULE RWLock -------------------------------
(***************************************************************************)
(* rwlock.c: a read-write lock that prefers writers, with timed waits and  *)
(* a limit on the waiting readers and writers.  A call over the limit      *)
(* returns -EAGAIN and changes nothing.                                    *)
(*                                                                         *)
(* pc[t]: "idle", "reading" (rdlock returned 0), "writing" (wrlock did),   *)
(*        "r_asleep"  in the timed wait on readers_proceed                 *)
(*        "r_woken"   left that wait set, wants the mutex                  *)
(*        "r_timedout" its deadline fired, wants the mutex                 *)
(*        and the same with "w_" for writer_proceed.                       *)
(***************************************************************************)
EXTENDS Pthread

CONSTANTS Threads,
          MaxWaitingReaders,  \* MAX_WAITING_READERS
          MaxWaitingWriters   \* MAX_WAITING_WRITERS

ASSUME RWLockAssumption ==
    /\ IsFiniteSet(Threads)
    /\ MaxWaitingReaders \in Nat
    /\ MaxWaitingWriters \in Nat

VARIABLES active_readers, active_writers, waiting_readers, waiting_writers, pc

readerVars == <<active_readers, waiting_readers>>
writerVars == <<active_writers, waiting_writers>>
vars == <<active_readers, active_writers, waiting_readers, waiting_writers, pc>>

Labels == {"idle", "reading", "writing",
           "r_asleep", "r_woken", "r_timedout", "w_asleep", "w_woken", "w_timedout"}
-----------------------------------------------------------------------------
\* rwlock_init.
Init ==
    /\ active_readers = 0 /\ active_writers = 0
    /\ waiting_readers = 0 /\ waiting_writers = 0
    /\ pc = [t \in Threads |-> "idle"]

\* The condition of the while loop in rwlock_rdlock.
ReaderBlocked == active_writers > 0 \/ waiting_writers > 0

\* From that loop test to the next wait or the return; waiting includes t.
RdLoop(t, waiting) ==
    /\ \/ /\ ReaderBlocked
          /\ waiting_readers' = waiting
          /\ pc' = [pc EXCEPT ![t] = "r_asleep"]
          /\ UNCHANGED active_readers
       \/ /\ ~ReaderBlocked
          /\ waiting_readers' = waiting - 1
          /\ active_readers' = active_readers + 1
          /\ pc' = [pc EXCEPT ![t] = "reading"]
    /\ UNCHANGED writerVars

\* rwlock_rdlock is called.
RdLock(t) ==
    /\ pc[t] = "idle"
    /\ waiting_readers < MaxWaitingReaders
    /\ RdLoop(t, waiting_readers + 1)

\* Its timed wait returns 0.
RdResume(t) == pc[t] = "r_woken" /\ RdLoop(t, waiting_readers)

\* Its deadline fires while it is still in the wait set.
RdTimeout(t) ==
    /\ pc[t] = "r_asleep"
    /\ pc' = [pc EXCEPT ![t] = "r_timedout"]
    /\ UNCHANGED <<readerVars, writerVars>>

RdGiveUpRetries(t) ==
    /\ pc[t] = "r_timedout"
    /\ pc' = [pc EXCEPT ![t] = "r_asleep"]
    /\ UNCHANGED <<readerVars, writerVars>>

\* Its timed wait returned an error.
RdGiveUp(t) ==
    /\ pc[t] = "r_timedout"
    /\ waiting_readers' = waiting_readers - 1
    /\ pc' = [pc EXCEPT ![t] = "idle"]
    /\ UNCHANGED <<active_readers, writerVars>>

WriterBlockedByWriters == active_writers > 0

\* The condition of the while loop in rwlock_wrlock.
WriterBlocked == active_readers > 0 \/ active_writers > 0

\* From that loop test to the next wait or the return; waiting includes t.
WrLoop(t, waiting) ==
    /\ \/ /\ WriterBlocked
          /\ waiting_writers' = waiting
          /\ pc' = [pc EXCEPT ![t] = "w_asleep"]
          /\ UNCHANGED active_writers
       \/ /\ ~WriterBlocked
          /\ waiting_writers' = waiting - 1
          /\ active_writers' = active_writers + 1
          /\ pc' = [pc EXCEPT ![t] = "writing"]
    /\ UNCHANGED readerVars

\* rwlock_wrlock is called.
WrLock(t) ==
    /\ pc[t] = "idle"
    /\ waiting_writers < MaxWaitingWriters
    /\ WrLoop(t, waiting_writers + 1)

\* Its timed wait returns 0.
WrResume(t) == pc[t] = "w_woken" /\ WrLoop(t, waiting_writers)

\* Its deadline fires while it is still in the wait set.
WrTimeout(t) ==
    /\ pc[t] = "w_asleep"
    /\ pc' = [pc EXCEPT ![t] = "w_timedout"]
    /\ UNCHANGED <<readerVars, writerVars>>

WrGiveUpForgetsToLeave(t) ==
    /\ pc[t] = "w_timedout"
    /\ pc' = [pc EXCEPT ![t] = "idle"]
    /\ UNCHANGED <<readerVars, writerVars>>

\* Its timed wait returned an error.  Nobody is told that it left.
WrGiveUp(t) ==
    /\ pc[t] = "w_timedout"
    /\ waiting_writers' = waiting_writers - 1
    /\ pc' = [pc EXCEPT ![t] = "idle"]
    /\ UNCHANGED <<readerVars, active_writers>>

\* POSIX lets a wait return without a signal.
SpuriousWakeup(t) ==
    /\ \/ pc[t] = "r_asleep" /\ pc' = [pc EXCEPT ![t] = "r_woken"]
       \/ pc[t] = "w_asleep" /\ pc' = [pc EXCEPT ![t] = "w_woken"]
    /\ UNCHANGED <<readerVars, writerVars>>

\* Who is signalled when the lock becomes free; q is pc without the caller.
WakeWriterOrReaders(q) ==
    IF waiting_writers > 0
    THEN CondSignal(q, "w_asleep", "w_woken")
    ELSE {CondBroadcast(q, "r_asleep", "r_woken")}

\* rwlock_unlock, first branch: a writer is active.
UnlockWriter(t) ==
    /\ pc[t] \in {"reading", "writing"}
    /\ active_writers > 0
    /\ active_writers' = active_writers - 1
    /\ pc' \in WakeWriterOrReaders([pc EXCEPT ![t] = "idle"])
    /\ UNCHANGED <<readerVars, waiting_writers>>

UnlockReaderSilently(t) ==
    /\ pc[t] \in {"reading", "writing"}
    /\ active_writers = 0 /\ active_readers > 0
    /\ active_readers' = active_readers - 1
    /\ pc' = [pc EXCEPT ![t] = "idle"]
    /\ UNCHANGED <<waiting_readers, writerVars>>

\* rwlock_unlock, second branch: only readers are active.
UnlockReader(t) ==
    /\ pc[t] \in {"reading", "writing"}
    /\ active_writers = 0 /\ active_readers > 0
    /\ active_readers' = active_readers - 1
    /\ LET q == [pc EXCEPT ![t] = "idle"]
       IN  pc' \in IF active_readers = 1 /\ waiting_writers > 0
                   THEN CondSignal(q, "w_asleep", "w_woken")
                   ELSE {q}
    /\ UNCHANGED <<waiting_readers, writerVars>>

Next == \E t \in Threads :
           \/ RdLock(t) \/ RdResume(t) \/ RdTimeout(t) \/ RdGiveUp(t)
           \/ WrLock(t) \/ WrResume(t) \/ WrTimeout(t) \/ WrGiveUp(t)
           \/ SpuriousWakeup(t) \/ UnlockWriter(t) \/ UnlockReader(t)

Spec == Init /\ [][Next]_vars

\* A runnable thread runs; deadlines are absolute and computed before the loop.
Fairness == \A t \in Threads :
    /\ WF_vars(RdResume(t)) /\ WF_vars(RdGiveUp(t)) /\ SF_vars(RdTimeout(t))
    /\ WF_vars(WrResume(t)) /\ WF_vars(WrGiveUp(t)) /\ SF_vars(WrTimeout(t))

FairSpec == Spec /\ Fairness
-----------------------------------------------------------------------------
\* The counters are natural numbers: the "Invalid rwlock state" returns are
\* dead code; the waiting ones respect MAX_WAITING_READERS and _WRITERS.
TypeOK ==
    /\ active_readers \in Nat /\ active_writers \in Nat
    /\ waiting_readers \in 0..MaxWaitingReaders
    /\ waiting_writers \in 0..MaxWaitingWriters
    /\ pc \in [Threads -> Labels]

\* The four counters agree with what the threads are doing, whichever way a
\* waiter left: a counter that a timeout forgot would block the lock for good.
CountersAgree ==
    /\ active_readers = NumAt(pc, "reading")
    /\ active_writers = NumAt(pc, "writing")
    /\ waiting_readers =
          NumAt(pc, "r_asleep") + NumAt(pc, "r_woken") + NumAt(pc, "r_timedout")
    /\ waiting_writers =
          NumAt(pc, "w_asleep") + NumAt(pc, "w_woken") + NumAt(pc, "w_timedout")

\* A writer has the lock alone (rwlock_rdlock and rwlock_wrlock returned 0).
Exclusion == \A t, u \in Threads :
    pc[t] = "writing" /\ u # t => pc[u] \notin {"reading", "writing"}

\* No writer sleeps beside a free lock unless another one is already on its
\* way to take it, although unlock signals a single writer.
WritersNotStranded ==
    /\ active_readers = 0 /\ active_writers = 0
    /\ \E t \in Threads : pc[t] = "w_asleep"
    => \E t \in Threads : pc[t] = "w_woken"

\* Every call of rwlock_rdlock and rwlock_wrlock returns, even if nobody unlocks.
Answered == \A t \in Threads :
    pc[t] \notin {"idle", "reading", "writing"}
        ~> pc[t] \in {"idle", "reading", "writing"}

\* Readers are concurrent: none is left asleep when no writer has the lock or
\* waits for it, which is all that the loop of rwlock_rdlock waits for.
ReadersNotStranded ==
    (\E t \in Threads : pc[t] = "r_asleep") => ReaderBlocked
==============================================================================
