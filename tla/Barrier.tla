------------------------------- MODULE Barrier -------------------------------
(***************************************************************************)
(* barrier.c: a reusable barrier made of a mutex, a condition variable and *)
(* a count.  Its waiting threads test nothing when they wake up: only the  *)
(* broadcast of the last arrival may wake them.                            *)
(*                                                                         *)
(* pc[t]: "out"     outside barrier_wait                                   *)
(*        "asleep"  in pthread_cond_wait                                   *)
(*        "woken"   left the wait set, wants the mutex                     *)
(* arrivals[t] is an auxiliary count of the calls of barrier_wait.         *)
(***************************************************************************)
EXTENDS Pthread

CONSTANTS Threads,
          Total,     \* the total given to barrier_init
          MaxRounds  \* bound on the calls of each thread

\* barrier_init refuses a total below 1.  assembly_line_init makes the barrier
\* for exactly the threads that use it.
ASSUME BarrierAssumption ==
    /\ IsFiniteSet(Threads)
    /\ Total \in Nat \ {0}
    /\ Total = Cardinality(Threads)
    /\ MaxRounds \in Nat

VARIABLES count,     \* barrier->count
          pc,
          arrivals

vars == <<count, pc, arrivals>>

Labels == {"out", "asleep", "woken"}
-----------------------------------------------------------------------------
\* barrier_init.
Init ==
    /\ count = 0
    /\ pc = [t \in Threads |-> "out"]
    /\ arrivals = [t \in Threads |-> 0]

MustWaitOneLess == count + 1 < Total - 1

\* The test of barrier_wait, after its increment.
MustWait == count + 1 < Total

\* The last arrival resets the count and wakes everybody.
ReleaseAll ==
    /\ count' = 0
    /\ pc' = CondBroadcast(pc, "asleep", "woken")

\* barrier_wait is called.
Arrive(t) ==
    /\ pc[t] = "out"
    /\ arrivals[t] < MaxRounds
    /\ arrivals' = [arrivals EXCEPT ![t] = @ + 1]
    /\ \/ /\ MustWait
          /\ count' = count + 1
          /\ pc' = [pc EXCEPT ![t] = "asleep"]
       \/ /\ ~MustWait
          /\ ReleaseAll

\* A woken thread gets the mutex, releases it and returns.
Leave(t) ==
    /\ pc[t] = "woken"
    /\ pc' = [pc EXCEPT ![t] = "out"]
    /\ UNCHANGED <<count, arrivals>>

Next == \E t \in Threads : Arrive(t) \/ Leave(t)

Spec == Init /\ [][Next]_vars

\* POSIX lets pthread_cond_wait return without a signal.
SpuriousWakeup(t) ==
    /\ pc[t] = "asleep"
    /\ pc' = [pc EXCEPT ![t] = "woken"]
    /\ UNCHANGED <<count, arrivals>>

\* The threads keep coming back (stage_thread loops) and a woken thread runs.
SpuriousSpec ==
    /\ Init /\ [][Next \/ \E t \in Threads : SpuriousWakeup(t)]_vars
    /\ \A t \in Threads : WF_vars(Arrive(t)) /\ WF_vars(Leave(t))
-----------------------------------------------------------------------------
\* The count stays below the total, which is what barrier_wait's `<' test relies
\* on from one round to the next; every thread is at a known point.
TypeOK ==
    /\ count \in 0..(Total - 1)
    /\ pc \in [Threads -> Labels]
    /\ arrivals \in [Threads -> 0..MaxRounds]

\* The count is the number of threads that sleep, also while the threads of
\* the last round are still leaving and the next round has begun.
CountAgrees == count = NumAt(pc, "asleep")

\* Nobody gets past its n-th barrier before everybody has arrived n times, and
\* nobody laps the others: a fast thread that comes back early neither slips
\* through on the old count nor takes the place of a slow one.
NoEarlyRelease == \A t, u \in Threads :
    pc[t] # "asleep" => arrivals[t] <= arrivals[u]
==============================================================================
