------------------------------- MODULE Logger -------------------------------
(***************************************************************************)
(* logger.c: one log file, one level and one (not recursive) mutex, used   *)
(* by every thread.  logger_log tests the level before it takes the mutex; *)
(* logger_set_level and logger_destroy call logger_log while they hold it. *)
(*                                                                         *)
(* at[t]: <<"idle">>, <<"lock", f>> wants the mutex for function f,        *)
(* <<"in", f>> has it; while f is "set" or "destroy" <<"nested", f>> is in *)
(* the inner logger_log, past its level test.                              *)
(***************************************************************************)
EXTENDS Integers

CONSTANTS Threads, None,
          SetLevels  \* the levels given to logger_set_level, which refuses
                     \* those that are not in Levels

Debug == 0
Info == 1
Warning == 2
Error == 3
Levels == Debug..Error

VARIABLES level,  \* logger.level
          file,   \* whether logger.log_file is open
          mutex,  \* who holds logger.mutex
          arg,    \* arg[t]: the level that t passed
          at,
          lines   \* auxiliary: the threads whose lines are partly written

vars == <<level, file, mutex, arg, at, lines>>

Goto(t, label) == at' = [at EXCEPT ![t] = label]
-----------------------------------------------------------------------------
\* logger_init, up to and including its own line at level Info.
Init ==
    /\ level = Info
    /\ file = TRUE
    /\ mutex = None
    /\ arg = [t \in Threads |-> Debug]
    /\ at = [t \in Threads |-> <<"idle">>]
    /\ lines = {}

\* The state after logger_set_level(LOG_WARNING).
QuietInit ==
    /\ level = Warning
    /\ file = TRUE
    /\ mutex = None
    /\ arg = [t \in Threads |-> Debug]
    /\ at = [t \in Threads |-> <<"idle">>]
    /\ lines = {}

\* logger_log is called: a line below the level is dropped at once.
Log(t, l) ==
    /\ at[t] = <<"idle">>
    /\ l >= level
    /\ Goto(t, <<"lock", "log">>)
    /\ UNCHANGED <<level, file, mutex, arg, lines>>

\* logger_set_level is called with a valid level.
SetLevel(t, l) ==
    /\ at[t] = <<"idle">>
    /\ arg' = [arg EXCEPT ![t] = l]
    /\ Goto(t, <<"lock", "set">>)
    /\ UNCHANGED <<level, file, mutex, lines>>

\* logger_destroy is called, by the last lines of app_cleanup.
Destroy(t) ==
    /\ at[t] = <<"idle">>
    /\ file /\ \A u \in Threads : at[u] \notin ({"lock", "in", "nested"} \X {"destroy"})
    /\ Goto(t, <<"lock", "destroy">>)
    /\ UNCHANGED <<level, file, mutex, arg, lines>>

LockUnchecked(t) ==
    /\ at[t][1] = "lock"
    /\ mutex' = t
    /\ Goto(t, <<"in", at[t][2]>>)
    /\ UNCHANGED <<level, file, arg, lines>>

\* pthread_mutex_lock(&logger.mutex), outermost.
Lock(t) ==
    /\ at[t][1] = "lock"
    /\ mutex = None
    /\ mutex' = t
    /\ Goto(t, <<"in", at[t][2]>>)
    /\ UNCHANGED <<level, file, arg, lines>>

Unlock(t) == mutex' = None /\ Goto(t, <<"idle">>)

\* logger_log inside the mutex: the timestamp is written, then the message.
Write(t) ==
    /\ at[t] = <<"in", "log">>
    /\ \/ /\ file /\ t \notin lines
          /\ lines' = lines \cup {t}
          /\ UNCHANGED <<mutex, at>>
       \/ /\ ~file \/ t \in lines
          /\ lines' = lines \ {t}
          /\ Unlock(t)
    /\ UNCHANGED <<level, file, arg>>

\* logger_log(LOG_INFO, ...) called with the mutex held: it returns at once, or
\* blocks on the mutex of its own thread.
LogNested(t, newLevel) ==
    IF Info < newLevel THEN Unlock(t) ELSE mutex' = mutex /\ Goto(t, <<"nested", at[t][2]>>)

\* logger_set_level inside the mutex.
InSet(t) ==
    /\ at[t] = <<"in", "set">>
    /\ level' = arg[t]
    /\ LogNested(t, arg[t])
    /\ UNCHANGED <<file, arg, lines>>

InDestroyKeepsMutex(t) ==
    /\ at[t] = <<"in", "destroy">>
    /\ file' = FALSE
    /\ Goto(t, <<"idle">>)
    /\ UNCHANGED <<level, mutex, arg, lines>>

\* logger_destroy inside the mutex.
InDestroy(t) ==
    /\ at[t] = <<"in", "destroy">>
    /\ LogNested(t, level)
    /\ file' = IF Info < level THEN FALSE ELSE file
    /\ UNCHANGED <<level, arg, lines>>

Step(t) == Lock(t) \/ Write(t) \/ InSet(t) \/ InDestroy(t)

Next == \E t \in Threads :
           \/ \E l \in Levels : Log(t, l)
           \/ \E l \in SetLevels : SetLevel(t, l)
           \/ Destroy(t) \/ Step(t)

\* A thread that can go on does; the mutex goes to everyone in the end.
Fairness == \A t \in Threads : SF_vars(Step(t))

Spec == Init /\ [][Next]_vars /\ Fairness

-----------------------------------------------------------------------------
\* The level is one of the four that logger_set_level lets through, and the
\* logger's mutex is free or has one holder.
TypeOK ==
    /\ level \in Levels /\ file \in BOOLEAN
    /\ mutex \in Threads \cup {None}
    /\ arg \in [Threads -> Levels]
    /\ lines \subseteq Threads

\* A line is written whole: while its pieces are on their way to the file the
\* writer has the mutex, and nobody closes the file under it.
LinesWhole == \A t \in lines : mutex = t /\ file

\* "Ensure no ... deadlocks": no thread waits for a mutex that it holds itself.
NoSelfDeadlock == \A t \in Threads : ~(at[t][1] = "nested" /\ mutex = t)

\* Every call of the logger returns.
Returns == \A t \in Threads : at[t] # <<"idle">> ~> at[t] = <<"idle">>
==============================================================================
