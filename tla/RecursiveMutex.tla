--------------------------- MODULE RecursiveMutex ---------------------------
(***************************************************************************)
(* recursive_mutex.c: an owner and a count around a pthread mutex.  The    *)
(* owner is read and written outside the mutex: by a caller that does not  *)
(* hold it yet, and by the last unlock before it gives the mutex back.     *)
(* Each access to the shared fields is a step of its own.                  *)
(*                                                                         *)
(* pc[t]: "out"     in neither function                                    *)
(*        "lock"    past the owner test, wants the pthread mutex           *)
(*        "own"     has it, about to write owner; "count": to write count  *)
(*        "disown"  in unlock with count 0, about to clear owner           *)
(*        "release" about to unlock the pthread mutex                      *)
(* depth[t] is auxiliary: the locks minus the unlocks of t's own calls.    *)
(***************************************************************************)
EXTENDS Integers

CONSTANTS Threads, None,
          MaxDepth  \* bound on the nesting of a client

ASSUME RecursiveMutexAssumption == None \notin Threads /\ MaxDepth \in Nat

VARIABLES mutex,  \* the holder of the pthread mutex
          nest,   \* its own count: it is a PTHREAD_MUTEX_RECURSIVE
          owner,  \* rmutex->owner
          count,  \* rmutex->count
          depth,
          pc

vars == <<mutex, nest, owner, count, depth, pc>>
-----------------------------------------------------------------------------
\* recursive_mutex_init.
Init ==
    /\ mutex = None /\ nest = 0
    /\ owner = None /\ count = 0
    /\ depth = [t \in Threads |-> 0]
    /\ pc = [t \in Threads |-> "out"]

\* recursive_mutex_lock by the owner.
LockAgain(t) ==
    /\ pc[t] = "out" /\ owner = t
    /\ depth[t] < MaxDepth
    /\ count' = count + 1
    /\ depth' = [depth EXCEPT ![t] = @ + 1]
    /\ UNCHANGED <<mutex, nest, owner, pc>>

\* recursive_mutex_lock by anybody else, up to pthread_mutex_lock.
Lock(t) ==
    /\ pc[t] = "out" /\ owner # t
    /\ pc' = [pc EXCEPT ![t] = "lock"]
    /\ UNCHANGED <<mutex, nest, owner, count, depth>>

\* pthread_mutex_lock returns: the mutex is free, or t's own (it is recursive).
Acquire(t) ==
    /\ pc[t] = "lock"
    /\ mutex \in {None, t}
    /\ mutex' = t /\ nest' = nest + 1
    /\ pc' = [pc EXCEPT ![t] = "own"]
    /\ UNCHANGED <<owner, count, depth>>

SetOwner(t) ==
    /\ pc[t] = "own"
    /\ owner' = t
    /\ pc' = [pc EXCEPT ![t] = "count"]
    /\ UNCHANGED <<mutex, nest, count, depth>>

SetCountToZero(t) ==
    /\ pc[t] = "count"
    /\ count' = 0
    /\ depth' = [depth EXCEPT ![t] = 1]
    /\ pc' = [pc EXCEPT ![t] = "out"]
    /\ UNCHANGED <<mutex, nest, owner>>

\* The last assignment of recursive_mutex_lock; it returns 0.
SetCount(t) ==
    /\ pc[t] = "count"
    /\ count' = 1
    /\ depth' = [depth EXCEPT ![t] = 1]
    /\ pc' = [pc EXCEPT ![t] = "out"]
    /\ UNCHANGED <<mutex, nest, owner>>

UnlockAtOnce(t) ==
    /\ pc[t] = "out" /\ owner = t
    /\ count' = count - 1
    /\ depth' = [depth EXCEPT ![t] = @ - 1]
    /\ pc' = [pc EXCEPT ![t] = "disown"]
    /\ UNCHANGED <<mutex, nest, owner>>

\* recursive_mutex_unlock by the owner; by anybody else it returns -EPERM.
Unlock(t) ==
    /\ pc[t] = "out" /\ owner = t
    /\ count' = count - 1
    /\ depth' = [depth EXCEPT ![t] = @ - 1]
    /\ pc' = [pc EXCEPT ![t] = IF count' = 0 THEN "disown" ELSE "out"]
    /\ UNCHANGED <<mutex, nest, owner>>

\* pthread_mutex_unlock.
MutexUnlock == nest' = nest - 1 /\ mutex' = IF nest = 1 THEN None ELSE mutex

ReleaseThenDisown(t) ==
    /\ \/ /\ pc[t] = "disown" /\ MutexUnlock
          /\ pc' = [pc EXCEPT ![t] = "release"]
          /\ UNCHANGED owner
       \/ /\ pc[t] = "release" /\ owner' = None
          /\ pc' = [pc EXCEPT ![t] = "out"]
          /\ UNCHANGED <<mutex, nest>>
    /\ UNCHANGED <<count, depth>>

\* The end of the last unlock: clear the owner, then free the mutex.
DisownThenRelease(t) ==
    /\ \/ /\ pc[t] = "disown" /\ owner' = None
          /\ pc' = [pc EXCEPT ![t] = "release"]
          /\ UNCHANGED <<mutex, nest>>
       \/ /\ pc[t] = "release" /\ MutexUnlock
          /\ pc' = [pc EXCEPT ![t] = "out"]
          /\ UNCHANGED owner
    /\ UNCHANGED <<count, depth>>

Next == \E t \in Threads :
           \/ LockAgain(t) \/ Lock(t) \/ Acquire(t) \/ SetOwner(t) \/ SetCount(t)
           \/ Unlock(t) \/ DisownThenRelease(t)

Spec == Init /\ [][Next]_vars
-----------------------------------------------------------------------------
\* The mutex and the owner field name a thread or nobody, and the nesting
\* count never goes below zero.
TypeOK ==
    /\ mutex \in Threads \cup {None} /\ nest \in Nat
    /\ owner \in Threads \cup {None} /\ count \in Nat
    /\ depth \in [Threads -> Nat]
    /\ pc \in [Threads -> {"out", "lock", "own", "count", "disown", "release"}]

\* Between the first lock and the last unlock of a thread nobody else is inside.
Exclusion == \A t, u \in Threads : depth[t] > 0 /\ depth[u] > 0 => t = u

\* The shared count is the nesting of the thread that is inside: it is neither
\* clobbered by another thread's SetCount nor left over from an earlier owner.
CountIsDepth == \A t \in Threads : depth[t] > 0 => count = depth[t]

\* The unprotected owner test is right although owner changes under it: who
\* finds itself the owner has the pthread mutex, and nobody ever locks the
\* pthread mutex twice (only one unlock would follow).
OwnerIsHolder == (owner # None => mutex = owner) /\ nest <= 1
==============================================================================
