----------------------------- MODULE ThreadPool -----------------------------
(***************************************************************************)
(* thread_pool.c: a linked list of tasks and a fixed set of workers, each  *)
(* of which takes a task under the pool's mutex, meets the others at a     *)
(* barrier, runs the task and starts over.                                 *)
(*                                                                         *)
(* Tasks are numbered in the order in which they are linked, so the list   *)
(* from tp->head to tp->tail is head..last and task->next is task + 1.     *)
(* The mutex is a bit: with glibc an unlock clears it whoever holds it.    *)
(*                                                                         *)
(* pc[w]: "top" the outer loop test, "lock" wants the mutex, "loop" the    *)
(* inner loop test, "asleep", "woken", "timedout" at the condition         *)
(* variable, "take" has read tp->head, "arrive" calls barrier_wait,        *)
(* "barrier" sleeps there, "run" is past the barrier, "done" returned.     *)
(***************************************************************************)
EXTENDS Pthread

CONSTANTS Workers,
          MaxTasks  \* bound on the calls of thread_pool_enqueue

ASSUME PoolAssumption == IsFiniteSet(Workers) /\ Workers # {} /\ MaxTasks \in Nat

VARIABLES head, last,  \* the list of tasks
          locked,      \* tp->mutex
          shutdown,    \* tp->shutdown
          count,       \* the count of tp->barrier
          task,        \* task[w]: the local variable task of w, 0: none
          ran,         \* auxiliary: the tasks whose function was called
          freed,       \* auxiliary: the tasks freed by thread_pool_destroy
          pc

list == <<head, last>>
vars == <<list, locked, shutdown, count, task, ran, freed, pc>>

Empty == head > last
-----------------------------------------------------------------------------
\* thread_pool_init.
Init ==
    /\ head = 1 /\ last = 0
    /\ locked = FALSE /\ shutdown = FALSE
    /\ count = 0
    /\ task = [w \in Workers |-> 0]
    /\ ran = {} /\ freed = {}
    /\ pc = [w \in Workers |-> "top"]

EnqueueSignalsWhenEmpty ==
    /\ last < MaxTasks /\ ~shutdown
    /\ ~locked
    /\ last' = last + 1
    /\ pc' \in IF Empty THEN CondSignal(pc, "asleep", "woken") ELSE {pc}
    /\ UNCHANGED <<head, locked, shutdown, count, task, ran, freed>>

\* thread_pool_enqueue, called by the event loop, which main joins before it
\* destroys the pool.
Enqueue ==
    /\ last < MaxTasks /\ ~shutdown
    /\ ~locked
    /\ last' = last + 1
    /\ pc' \in CondSignal(pc, "asleep", "woken")
    /\ UNCHANGED <<head, locked, shutdown, count, task, ran, freed>>

DestroySignals ==
    /\ ~shutdown /\ ~locked
    /\ shutdown' = TRUE
    /\ pc' \in CondSignal(pc, "asleep", "woken")
    /\ UNCHANGED <<list, locked, count, task, ran, freed>>

\* thread_pool_destroy up to its joins, which wait until every pc is "done".
Destroy ==
    /\ ~shutdown /\ ~locked
    /\ shutdown' = TRUE
    /\ pc' = CondBroadcast(pc, "asleep", "woken")
    /\ UNCHANGED <<list, locked, count, task, ran, freed>>

\* The rest of thread_pool_destroy: every worker is joined, and the tasks that
\* are still in the list are freed.
Free ==
    /\ shutdown /\ ~Empty
    /\ \A w \in Workers : pc[w] = "done"
    /\ freed' = head..last
    /\ head' = last + 1
    /\ UNCHANGED <<last, locked, shutdown, count, task, ran, pc>>

\* The outer loop test of worker_thread.
Start(w) ==
    /\ pc[w] = "top"
    /\ pc' = [pc EXCEPT ![w] = IF shutdown THEN "done" ELSE "lock"]
    /\ UNCHANGED <<list, locked, shutdown, count, task, ran, freed>>

LockUnchecked(w) ==
    /\ pc[w] \in {"lock", "woken"}
    /\ locked' = TRUE
    /\ pc' = [pc EXCEPT ![w] = "loop"]
    /\ UNCHANGED <<list, shutdown, count, task, ran, freed>>

\* pthread_mutex_lock, or the lock at the end of a wait that was signalled.
Lock(w) ==
    /\ pc[w] \in {"lock", "woken"}
    /\ ~locked
    /\ locked' = TRUE
    /\ pc' = [pc EXCEPT ![w] = "loop"]
    /\ UNCHANGED <<list, shutdown, count, task, ran, freed>>

\* The inner loop test, and the read of tp->head that ends the loop.
Loop(w) ==
    /\ pc[w] = "loop"
    /\ \/ /\ Empty /\ ~shutdown
          /\ locked' = FALSE
          /\ pc' = [pc EXCEPT ![w] = "asleep"]
          /\ UNCHANGED task
       \/ /\ shutdown
          /\ locked' = FALSE
          /\ pc' = [pc EXCEPT ![w] = "done"]
          /\ UNCHANGED task
       \/ /\ ~Empty /\ ~shutdown
          /\ task' = [task EXCEPT ![w] = head]
          /\ pc' = [pc EXCEPT ![w] = "take"]
          /\ UNCHANGED locked
    /\ UNCHANGED <<list, shutdown, count, ran, freed>>

\* tp->head = task->next; unlock.
Take(w) ==
    /\ pc[w] = "take"
    /\ head' = task[w] + 1
    /\ locked' = FALSE
    /\ pc' = [pc EXCEPT ![w] = "arrive"]
    /\ UNCHANGED <<last, shutdown, count, task, ran, freed>>

\* The total that thread_pool_init gives to barrier_init.
BarrierTotal == Cardinality(Workers) + 1

\* barrier_wait(tp->barrier).
BarrierWait(w) ==
    /\ pc[w] = "arrive"
    /\ IF count + 1 < BarrierTotal
       THEN /\ count' = count + 1
            /\ pc' = [pc EXCEPT ![w] = "barrier"]
       ELSE /\ count' = 0
            /\ pc' = CondBroadcast([pc EXCEPT ![w] = "run"], "barrier", "run")
    /\ UNCHANGED <<list, locked, shutdown, task, ran, freed>>

\* The task's function is called; signal1 and the timed wait2 on the pool's own
\* event pair, which nobody else uses, return; the task is freed.
Run(w) ==
    /\ pc[w] = "run"
    /\ ran' = ran \cup {task[w]}
    /\ task' = [task EXCEPT ![w] = 0]
    /\ pc' = [pc EXCEPT ![w] = "top"]
    /\ UNCHANGED <<list, locked, shutdown, count, freed>>

\* The deadline fires in the wait.
Timeout(w) ==
    /\ pc[w] = "asleep"
    /\ pc' = [pc EXCEPT ![w] = "timedout"]
    /\ UNCHANGED <<list, locked, shutdown, count, task, ran, freed>>

\* The wait returns ETIMEDOUT with the mutex, the worker unlocks it, and the
\* continue goes to the test of the inner loop: on from here without the mutex.
Continue(w) ==
    /\ pc[w] = "timedout"
    /\ ~locked
    /\ pc' = [pc EXCEPT ![w] = "loop"]
    /\ UNCHANGED <<list, locked, shutdown, count, task, ran, freed>>

Work(w) == Start(w) \/ Lock(w) \/ Loop(w) \/ Take(w) \/ BarrierWait(w)

\* Every task arrives within the five seconds that a worker waits.
Next == Enqueue \/ Destroy \/ Free \/ \E w \in Workers : Work(w)

\* Waits may time out, and what waits behind the barrier may run.
TimedNext == Next \/ \E w \in Workers : Timeout(w) \/ Continue(w) \/ Run(w)

\* A worker that can go on does.
FairSpec == Init /\ [][Next]_vars /\ \A w \in Workers : WF_vars(Work(w))

TimedSpec ==
    /\ Init /\ [][TimedNext]_vars
    /\ \A w \in Workers : SF_vars(Work(w)) /\ WF_vars(Continue(w)) /\ WF_vars(Run(w))
-----------------------------------------------------------------------------
\* The list stays well formed: its head never runs past its last task, and the
\* pool's barrier never counts as many workers as it waits for.
TypeOK ==
    /\ head \in 1..(MaxTasks + 1) /\ last \in 0..MaxTasks /\ head <= last + 1
    /\ locked \in BOOLEAN /\ shutdown \in BOOLEAN
    /\ count \in 0..(BarrierTotal - 1)
    /\ task \in [Workers -> 0..MaxTasks] /\ ran \subseteq 1..MaxTasks

\* The workers that own a task: they took it off the list and will free it.
Owners == {w \in Workers : pc[w] \in {"arrive", "barrier", "run"}}

\* No task is run and freed twice: two workers never own the same one.
TakenOnce == \A w, u \in Owners : task[w] = task[u] => w = u

\* No task falls out of the list without an owner: those before tp->head are
\* owned, were run, or were freed at the end, and none of them twice.
TasksAccounted ==
    /\ 1..(head - 1) = {task[w] : w \in Owners} \cup ran \cup freed
    /\ TakenOnce /\ ran \cap freed = {} /\ \A w \in Owners : task[w] \notin ran \cup freed

\* One signal per task is enough: while a worker sleeps, every task in the list
\* has a worker of its own on the way to it.
NoLostWakeup ==
    ThreadsAt(pc, "asleep") # {} =>
        last + 1 - head <= Cardinality({w \in Workers : pc[w] \in {"woken", "loop", "take"}})

\* Destroy reaches every worker, wherever its broadcast meets it: each returns
\* or is behind the barrier.
ShutdownReachesAll == shutdown ~> \A w \in Workers : pc[w] \in {"done", "barrier"}

\* "Thread pool for parallel task execution": a task is executed unless the
\* pool is destroyed first.
TasksRun == \A i \in 1..MaxTasks : last >= i ~> (i \in ran \/ shutdown)
==============================================================================
