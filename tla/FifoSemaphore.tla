---------------------------- MODULE FifoSemaphore ----------------------------
(***************************************************************************)
(* fifo_semaphore.c: a counting semaphore made of a mutex, a condition     *)
(* variable and a count, with a timed wait.  Its client is read_sensor     *)
(* (bme680_app.c), which posts exactly when its wait succeeded.            *)
(*                                                                         *)
(* pc[t]: "idle"      outside, or after a failed wait                      *)
(*        "asleep"    in pthread_cond_timedwait                            *)
(*        "woken"     signalled (or spuriously woken), wants the mutex     *)
(*        "timedout"  the deadline fired, wants the mutex                  *)
(*        "holding"   fifo_semaphore_wait returned 0                       *)
(***************************************************************************)
EXTENDS Pthread

CONSTANTS Threads,  \* the callers
          Value     \* the value given to fifo_semaphore_init

\* fifo_semaphore_init refuses a negative value.
ASSUME SemaphoreAssumption == IsFiniteSet(Threads) /\ Value \in Nat

VARIABLES count,  \* sem->count
          pc

vars == <<count, pc>>

Labels == {"idle", "asleep", "woken", "timedout", "holding"}
-----------------------------------------------------------------------------
Init == count = Value /\ pc = [t \in Threads |-> "idle"]

\* The condition of the while loop in fifo_semaphore_wait.
MustWait == count <= 0

\* From the loop test, with the mutex held, to the next wait or the return.
WaitLoop(t) ==
    \/ /\ MustWait
       /\ pc' = [pc EXCEPT ![t] = "asleep"]
       /\ UNCHANGED count
    \/ /\ ~MustWait
       /\ count' = count - 1
       /\ pc' = [pc EXCEPT ![t] = "holding"]

\* fifo_semaphore_wait is called.
Wait(t) == pc[t] = "idle" /\ WaitLoop(t)

\* pthread_cond_timedwait returns 0: the loop test is evaluated again.
Resume(t) == pc[t] = "woken" /\ WaitLoop(t)

\* The deadline fires while t is still in the wait set.
Timeout(t) ==
    /\ pc[t] = "asleep"
    /\ pc' = [pc EXCEPT ![t] = "timedout"]
    /\ UNCHANGED count

GiveUpAsIfAcquired(t) ==
    /\ pc[t] = "timedout"
    /\ pc' = [pc EXCEPT ![t] = "holding"]
    /\ UNCHANGED count

GiveUpKeepsWaiting(t) ==
    /\ pc[t] = "timedout"
    /\ pc' = [pc EXCEPT ![t] = "asleep"]
    /\ UNCHANGED count

\* pthread_cond_timedwait returned an error: unlock and return it.
GiveUp(t) ==
    /\ pc[t] = "timedout"
    /\ pc' = [pc EXCEPT ![t] = "idle"]
    /\ UNCHANGED count

\* POSIX lets a wait return without a signal.
SpuriousWakeup(t) ==
    /\ pc[t] = "asleep"
    /\ pc' = [pc EXCEPT ![t] = "woken"]
    /\ UNCHANGED count

PostSignalsWhenEmpty(t) ==
    /\ pc[t] = "holding"
    /\ count' = count + 1
    /\ LET q == [pc EXCEPT ![t] = "idle"]
       IN  IF count = 0 THEN pc' \in CondSignal(q, "asleep", "woken") ELSE pc' = q

\* fifo_semaphore_post: the count is incremented and one waiter is signalled.
Post(t) ==
    /\ pc[t] = "holding"
    /\ count' = count + 1
    /\ pc' \in CondSignal([pc EXCEPT ![t] = "idle"], "asleep", "woken")

Next == \E t \in Threads :
           \/ Wait(t) \/ Resume(t) \/ Timeout(t)
           \/ GiveUp(t) \/ SpuriousWakeup(t) \/ Post(t)

Spec == Init /\ [][Next]_vars

\* A runnable thread runs.  The deadline is absolute and computed once, before
\* the loop, so a thread that keeps going back to sleep times out in the end.
Fairness == \A t \in Threads :
               WF_vars(Resume(t)) /\ WF_vars(GiveUp(t)) /\ SF_vars(Timeout(t))

FairSpec == Spec /\ Fairness
-----------------------------------------------------------------------------
\* The count is never negative: the two "Invalid semaphore count" returns of
\* fifo_semaphore_wait and fifo_semaphore_post are dead code.
TypeOK == count \in Nat /\ pc \in [Threads -> Labels]

\* Permits are neither lost nor invented by timeouts, wakeups and barging:
\* what is not in sem->count is held by a thread whose wait returned 0.
PermitsConserved == count + NumAt(pc, "holding") = Value

\* No wakeup is lost although post signals once per permit and a newcomer may
\* take the permit of a signalled thread: while somebody sleeps, every permit
\* in the count is matched by a thread that is already on its way to take it.
NoLostWakeup ==
    (\E t \in Threads : pc[t] = "asleep") => count <= NumAt(pc, "woken")

\* Every call of fifo_semaphore_wait returns, even if nobody ever posts.
Answered == \A t \in Threads :
    pc[t] \in {"asleep", "woken", "timedout"} ~> pc[t] \in {"idle", "holding"}

\* First in, first out: a thread that finds a permit at once does not overtake
\* one that was waiting for it before the call.
NoOvertaking == [][\A t, u \in Threads :
    (pc[t] = "idle" /\ pc'[t] = "holding") => pc[u] \notin {"asleep", "woken"}]_vars
==============================================================================
