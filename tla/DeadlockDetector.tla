-------------------------- MODULE DeadlockDetector --------------------------
(***************************************************************************)
(* deadlock_detector.c: a table with one record per lock number, kept      *)
(* under a mutex of its own.  deadlock_detector_lock looks for a lock i of *)
(* another thread and a lock j > i of the caller, refuses with -EDEADLK if *)
(* there is one, and otherwise writes the caller into the record, whatever *)
(* the record said before.  It locks nothing itself.                       *)
(*                                                                         *)
(* granted[t] is auxiliary: the lock numbers for which t's call returned 0 *)
(* and t has not called deadlock_detector_unlock since.                    *)
(***************************************************************************)
EXTENDS Integers

CONSTANTS Threads, None,
          NumMutexes  \* the num_mutexes given to deadlock_detector_init

Ids == 0..(NumMutexes - 1)

VARIABLES locks,   \* locks[i]: the owner in dd->locks[i], None when not locked
          granted

vars == <<locks, granted>>
-----------------------------------------------------------------------------
\* deadlock_detector_init.
Init ==
    /\ locks = [i \in Ids |-> None]
    /\ granted = [t \in Threads |-> {}]

\* The two nested loops of deadlock_detector_lock.
Suspicious(t) == \E i, j \in Ids :
    locks[i] \notin {None, t} /\ locks[j] = t /\ j > i

\* deadlock_detector_lock returns 0.
Lock(t, id) ==
    /\ ~Suspicious(t)
    /\ locks' = [locks EXCEPT ![id] = t]
    /\ granted' = [granted EXCEPT ![t] = @ \cup {id}]

\* deadlock_detector_lock returns an error: -EDEADLK when the order test fires,
\* -ETIMEDOUT when another caller has dd->mutex.  The deadline is 5 s ahead on
\* the monotonic clock but compared with the real-time clock, hence long past,
\* and the lock fails at once.  calling: the threads at a call of the detector.
Refuse(t, calling) ==
    /\ Suspicious(t) \/ calling \ {t} # {}
    /\ UNCHANGED vars

\* deadlock_detector_unlock: -EPERM, and no change, unless t is the owner.
Unlock(t, id) ==
    /\ id \in granted[t]
    /\ locks' = [locks EXCEPT ![id] = IF @ = t THEN None ELSE @]
    /\ granted' = [granted EXCEPT ![t] = @ \ {id}]

Next == \E t \in Threads, id \in Ids :
    Lock(t, id) \/ Refuse(t, Threads) \/ Unlock(t, id)

Spec == Init /\ [][Next]_vars

\* A thread gives back what it was granted.
FairSpec == Spec /\ \A t \in Threads, id \in Ids : WF_vars(Unlock(t, id))
-----------------------------------------------------------------------------
\* The table of the detector maps each lock id to one thread or to nobody.
TypeOK ==
    /\ locks \in [Ids -> Threads \cup {None}]
    /\ granted \in [Threads -> SUBSET Ids]

\* "Deadlock detection by tracking lock ownership": a thread that holds a lock
\* is on record as its owner.
OwnershipTracked == \A t \in Threads, i \in Ids : i \in granted[t] => locks[i] = t
==============================================================================
