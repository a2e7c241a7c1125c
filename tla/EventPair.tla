------------------------------ MODULE EventPair ------------------------------
(***************************************************************************)
(* event_pair.c: one state word and two condition variables.  signal1 and  *)
(* wait1 use state 1 and cond1, signal2 and wait2 use state 2 and cond2;   *)
(* k below is that number.                                                 *)
(*                                                                         *)
(* pc[t]: <<"idle">>, or, in the wait for k: <<"asleep", k>> in the timed  *)
(* wait, <<"woken", k>> left the wait set, <<"timedout", k>> deadline      *)
(* fired; the last two still want the mutex.                               *)
(***************************************************************************)
EXTENDS Pthread

CONSTANT Threads

Sides == {1, 2}

VARIABLES state,  \* ep->state, 0: idle
          pc

vars == <<state, pc>>
-----------------------------------------------------------------------------
\* event_pair_init.
Init ==
    /\ state = 0
    /\ pc = [t \in Threads |-> <<"idle">>]

SignalOther(t, k) ==
    /\ pc[t] = <<"idle">>
    /\ state' = k
    /\ pc' \in CondSignal(pc, <<"asleep", 3 - k>>, <<"woken", 3 - k>>)

\* event_pair_signal1 and event_pair_signal2.
Signal(t, k) ==
    /\ pc[t] = <<"idle">>
    /\ state' = k
    /\ pc' \in CondSignal(pc, <<"asleep", k>>, <<"woken", k>>)

\* From the loop test of a wait, with the mutex held, to the next wait or return.
WaitLoop(t, k) ==
    \/ /\ state # k
       /\ pc' = [pc EXCEPT ![t] = <<"asleep", k>>]
       /\ UNCHANGED state
    \/ /\ state = k
       /\ state' = 0
       /\ pc' = [pc EXCEPT ![t] = <<"idle">>]

\* event_pair_wait1 or event_pair_wait2 is called.
Wait(t, k) == pc[t] = <<"idle">> /\ WaitLoop(t, k)

\* The timed wait returns 0.
Resume(t, k) == pc[t] = <<"woken", k>> /\ WaitLoop(t, k)

\* The deadline fires while t is in the wait set.
Timeout(t, k) ==
    /\ pc[t] = <<"asleep", k>>
    /\ pc' = [pc EXCEPT ![t] = <<"timedout", k>>]
    /\ UNCHANGED state

\* The timed wait returned ETIMEDOUT.
GiveUp(t, k) ==
    /\ pc[t] = <<"timedout", k>>
    /\ pc' = [pc EXCEPT ![t] = <<"idle">>]
    /\ UNCHANGED state

\* POSIX lets a wait return without a signal.
SpuriousWakeup(t, k) ==
    /\ pc[t] = <<"asleep", k>>
    /\ pc' = [pc EXCEPT ![t] = <<"woken", k>>]
    /\ UNCHANGED state

Next == \E t \in Threads, k \in Sides :
           \/ Signal(t, k) \/ Wait(t, k) \/ Resume(t, k)
           \/ Timeout(t, k) \/ GiveUp(t, k) \/ SpuriousWakeup(t, k)

Spec == Init /\ [][Next]_vars

\* A runnable thread runs; the deadline is absolute, computed before the loop.
Fairness == \A t \in Threads :
    /\ \A k \in Sides : WF_vars(Resume(t, k)) /\ WF_vars(GiveUp(t, k))
    /\ SF_vars(\E k \in Sides : Timeout(t, k))

FairSpec == Spec /\ Fairness
-----------------------------------------------------------------------------
\* The state is nothing pending or one of the two sides, and every thread is
\* outside the event pair or at a known point of the wait for one side.
TypeOK ==
    /\ state \in Sides \cup {0}
    /\ pc \in [Threads -> {<<"idle">>} \cup ({"asleep", "woken", "timedout"} \X Sides)]

\* While an event is pending, nobody sleeps for it unless somebody is already
\* on the way to take it, although the two sides overwrite each other's state
\* and one signal wakes one thread.
NoLostWakeup == \A k \in Sides :
    state = k /\ (\E t \in Threads : pc[t] = <<"asleep", k>>)
        => \E t \in Threads : pc[t] = <<"woken", k>>

\* Every wait returns, even if the other side never answers.
Answered == \A t \in Threads : pc[t] # <<"idle">> ~> pc[t] = <<"idle">>

\* Two-way synchronisation: the event of one side is not destroyed by the
\* signal of the other side; it stays until a wait has taken it.
EventsKept == [][state # 0 /\ state' # state => state' = 0]_vars
==============================================================================
