---------------------------- MODULE ForkHandler ----------------------------
(***************************************************************************)
(* fork_handler.c: threads that log once a second, and fork_handler_fork,  *)
(* which forks and waits for the child with fh->mutex locked.  The child   *)
(* has a copy of every mutex as it was at the fork, and none of the other  *)
(* threads: one that was locked by another thread stays locked there.  The *)
(* level lets all messages pass, as the application sets it.               *)
(*                                                                         *)
(* worker[w]: at its loop "test", "log" (wants logger.mutex), "logging",   *)
(*            "sleep", "done"                                              *)
(* forker:    "idle", "parent" (about to log), "waitpid"                   *)
(* child:     "none", "running", "gone"                                    *)
(* destroyer: "none", "lock" (wants fh->mutex), "join", "done"             *)
(***************************************************************************)
EXTENDS Integers

CONSTANT Workers

VARIABLES running,        \* fh->running
          locked,         \* fh->mutex is locked
          logger_locked,  \* logger.mutex is locked
          inherited,      \* the child's copy of it
          worker, forker, child, destroyer

vars == <<running, locked, logger_locked, inherited, worker, forker, child, destroyer>>
-----------------------------------------------------------------------------
\* fork_handler_init.
Init ==
    /\ running = TRUE /\ locked = FALSE
    /\ logger_locked = FALSE /\ inherited = FALSE
    /\ worker = [w \in Workers |-> "test"]
    /\ forker = "idle" /\ child = "none" /\ destroyer = "none"

Worker(w, from, to) ==
    /\ worker[w] = from
    /\ worker' = [worker EXCEPT ![w] = to]
    /\ UNCHANGED <<running, locked, inherited, forker, child, destroyer>>

\* worker_thread of fork_handler.c.
Work(w) ==
    \/ running /\ Worker(w, "test", "log") /\ UNCHANGED logger_locked
    \/ ~logger_locked /\ Worker(w, "log", "logging") /\ logger_locked' = TRUE
    \/ Worker(w, "logging", "sleep") /\ logger_locked' = FALSE
    \/ Worker(w, "sleep", "test") /\ UNCHANGED logger_locked
    \/ ~running /\ Worker(w, "test", "done") /\ UNCHANGED logger_locked

\* fork_handler_fork up to fork; when the mutex is locked it returns at once,
\* as in PubSub.  Nobody calls it once the handler is being destroyed.
Fork ==
    /\ forker = "idle" /\ destroyer = "none" /\ ~locked
    /\ locked' = TRUE
    /\ inherited' = logger_locked
    /\ forker' = "parent" /\ child' = "running"
    /\ UNCHANGED <<running, logger_locked, worker, destroyer>>

\* The parent logs, and goes on to waitpid.
ParentLogs ==
    /\ forker = "parent" /\ ~logger_locked
    /\ forker' = "waitpid"
    /\ UNCHANGED <<running, locked, logger_locked, inherited, worker, child, destroyer>>

\* The child logs, unlocks its copy of fh->mutex, logs again and exits.  Its
\* pthread_cancel finds no threads.
ChildExits ==
    /\ child = "running" /\ ~inherited
    /\ child' = "gone"
    /\ UNCHANGED <<running, locked, logger_locked, inherited, worker, forker, destroyer>>

\* waitpid returns.
Reap ==
    /\ forker = "waitpid" /\ child = "gone"
    /\ forker' = "idle" /\ child' = "none" /\ inherited' = FALSE
    /\ locked' = FALSE
    /\ UNCHANGED <<running, logger_locked, worker, destroyer>>

\* fork_handler_destroy is called;
Destroy ==
    /\ destroyer = "none" /\ destroyer' = "lock"
    /\ UNCHANGED <<running, locked, logger_locked, inherited, worker, forker, child>>

\* it stops the workers under the mutex;
StopWorkers ==
    /\ destroyer = "lock" /\ ~locked
    /\ destroyer' = "join" /\ running' = FALSE
    /\ UNCHANGED <<locked, logger_locked, inherited, worker, forker, child>>

\* it has joined them.
JoinWorkers ==
    /\ destroyer = "join" /\ \A w \in Workers : worker[w] = "done"
    /\ destroyer' = "done"
    /\ UNCHANGED <<running, locked, logger_locked, inherited, worker, forker, child>>

\* fork_handler_init again.
InitAgain ==
    /\ destroyer = "done"
    /\ destroyer' = "none" /\ running' = TRUE
    /\ worker' = [w \in Workers |-> "test"]
    /\ UNCHANGED <<locked, logger_locked, inherited, forker, child>>

Step == ParentLogs \/ ChildExits \/ Reap \/ StopWorkers \/ JoinWorkers

Next == Fork \/ Destroy \/ InitAgain \/ Step \/ \E w \in Workers : Work(w)

\* A thread or process that can go on does; logger.mutex is not kept from one
\* for ever.
Fairness == SF_vars(Step) /\ \A w \in Workers : SF_vars(Work(w))

Spec == Init /\ [][Next]_vars /\ Fairness
-----------------------------------------------------------------------------
\* fork_handler_fork and fork_handler_destroy return, also when they meet, unless
\* a thread was logging at the moment of the fork.
ReturnsIfQuiet ==
    /\ (forker # "idle" /\ ~inherited) ~> forker = "idle"
    /\ (destroyer = "lock" /\ ~inherited) ~> destroyer = "done"

\* "Ensure no deadlocks": fork_handler_fork returns.
ForkReturns == forker # "idle" ~> forker = "idle"
=============================================================================
