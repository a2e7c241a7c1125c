------------------------------- MODULE Pthread -------------------------------
(***************************************************************************)
(* POSIX condition variables as the user-space sources use them.  A module *)
(* keeps a function pc from threads to labels; the wait set of a condition *)
(* variable is the set of threads at that variable's "asleep" label.  A    *)
(* woken thread has left the wait set and still has to reacquire the mutex *)
(* before pthread_cond_(timed)wait returns.  Code that runs from a         *)
(* pthread_mutex_lock to the matching unlock (or to a wait) is one atomic  *)
(* step of the models, except where the code gives the mutex up early or   *)
(* loses it: there the mutex is a variable.                                *)
(***************************************************************************)
EXTENDS Integers, FiniteSets

\* The threads at a label, and how many they are.
ThreadsAt(pc, label) == {t \in DOMAIN pc : pc[t] = label}
NumAt(pc, label) == Cardinality(ThreadsAt(pc, label))

\* pthread_cond_signal: the possible outcomes; nothing happens when nobody waits.
CondSignal(pc, asleep, woken) ==
    IF ThreadsAt(pc, asleep) = {}
    THEN {pc}
    ELSE {[pc EXCEPT ![t] = woken] : t \in ThreadsAt(pc, asleep)}

\* pthread_cond_broadcast: everybody is woken.
CondBroadcast(pc, asleep, woken) ==
    [t \in DOMAIN pc |-> IF pc[t] = asleep THEN woken ELSE pc[t]]
==============================================================================
