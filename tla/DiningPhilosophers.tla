------------------------- MODULE DiningPhilosophers -------------------------
(***************************************************************************)
(* dining_philosophers.c: a ring of forks, one pthread mutex each.  The    *)
(* stages of the assembly line are the philosophers; each calls eat and    *)
(* then done.  The flag running is cleared only by dining_philosophers_-   *)
(* destroy, which the assembly line calls after it has joined every stage, *)
(* so the -EAGAIN returns are never taken by a live philosopher.           *)
(*                                                                         *)
(* doing[p]: "thinking"  outside                                           *)
(*           "first"     in eat, blocked on or about to take the first fork *)
(*           "second"    in eat, has the first fork and wants the second   *)
(*           "eating"    eat returned 0                                    *)
(*           "leaving"   in done, between its two unlocks                  *)
(***************************************************************************)
EXTENDS Integers

CONSTANT N  \* num_philosophers

\* dining_philosophers_init refuses a number below 1.
ASSUME DiningAssumption == N \in Nat \ {0}

Philosophers == 0..(N - 1)

\* No philosopher.
Nobody == -1

VARIABLES owner,  \* owner[f]: the philosopher who has locked dp->forks[f]
          doing

table == <<owner, doing>>

Right(p) == (p + 1) % N

FirstAlwaysOwn(p) == p

\* The order in which dining_philosophers_eat locks the forks of p.
First(p)  == IF p % 2 = 0 THEN p ELSE Right(p)
Second(p) == IF p % 2 = 0 THEN Right(p) ELSE p
-----------------------------------------------------------------------------
\* dining_philosophers_init.
DiningInit ==
    /\ owner = [f \in Philosophers |-> Nobody]
    /\ doing = [p \in Philosophers |-> "thinking"]

\* dining_philosophers_eat is called.
Eat(p) ==
    /\ doing[p] = "thinking"
    /\ doing' = [doing EXCEPT ![p] = "first"]
    /\ UNCHANGED owner

\* pthread_mutex_lock on the first fork returns.
TakeFirst(p) ==
    /\ doing[p] = "first"
    /\ owner[First(p)] = Nobody
    /\ owner' = [owner EXCEPT ![First(p)] = p]
    /\ doing' = [doing EXCEPT ![p] = "second"]

TakeSecondUnlocked(p) ==
    /\ doing[p] = "second"
    /\ owner' = [owner EXCEPT ![Second(p)] = p]
    /\ doing' = [doing EXCEPT ![p] = "eating"]

\* pthread_mutex_lock on the second fork returns, and eat returns.
TakeSecond(p) ==
    /\ doing[p] = "second"
    /\ owner[Second(p)] = Nobody
    /\ owner' = [owner EXCEPT ![Second(p)] = p]
    /\ doing' = [doing EXCEPT ![p] = "eating"]

\* dining_philosophers_done: first unlock, of the fork with p's own number.
PutOwn(p) ==
    /\ doing[p] = "eating"
    /\ owner' = [owner EXCEPT ![p] = Nobody]
    /\ doing' = [doing EXCEPT ![p] = "leaving"]

\* dining_philosophers_done: second unlock.
PutRight(p) ==
    /\ doing[p] = "leaving"
    /\ owner' = [owner EXCEPT ![Right(p)] = Nobody]
    /\ doing' = [doing EXCEPT ![p] = "thinking"]

DiningNext == \E p \in Philosophers :
           Eat(p) \/ TakeFirst(p) \/ TakeSecond(p) \/ PutOwn(p) \/ PutRight(p)

DiningSpec == DiningInit /\ [][DiningNext]_table

\* A philosopher inside eat or done runs whenever its mutex is free.
DiningFairSpec == DiningSpec /\ \A p \in Philosophers :
    WF_table(TakeFirst(p)) /\ WF_table(TakeSecond(p)) /\ WF_table(PutOwn(p)) /\ WF_table(PutRight(p))
-----------------------------------------------------------------------------
\* A fork's mutex is free or locked by one of the philosophers, and every
\* philosopher is at a known point of eat or done.
DiningTypeOK ==
    /\ owner \in [Philosophers -> Philosophers \cup {Nobody}]
    /\ doing \in [Philosophers -> {"thinking", "first", "second", "eating", "leaving"}]

\* The forks that p has locked at each point of eat and done.
Holds(p) == {f \in Philosophers :
    \/ doing[p] = "second" /\ f = First(p)
    \/ doing[p] = "eating" /\ f \in {p, Right(p)}
    \/ doing[p] = "leaving" /\ f = Right(p)}

\* A mutex is locked by the philosopher who thinks so and by nobody else: done
\* unlocks exactly the forks that eat locked.
ForksAgree == \A f \in Philosophers, p \in Philosophers :
    owner[f] = p <=> f \in Holds(p)

\* Two neighbours never eat at the same time.
NeighboursExclusive == \A p \in Philosophers :
    Right(p) # p => ~(doing[p] = "eating" /\ doing[Right(p)] = "eating")

\* p is blocked in pthread_mutex_lock on a fork of q.
WaitsFor(p, q) ==
    \/ doing[p] = "first" /\ owner[First(p)] = q
    \/ doing[p] = "second" /\ owner[Second(p)] = q

\* The order of the locks avoids deadlock: no set of philosophers waits only
\* for itself.
NoCircularWait == \A D \in SUBSET Philosophers :
    D # {} => \E p \in D : \A q \in D : ~WaitsFor(p, q)
==============================================================================
