----------------------------- MODULE MCMutexes -----------------------------
(***************************************************************************)
(* The components built around one mutex that a thread may ask for again   *)
(* while it holds it, for model checking: the recursive mutex, which       *)
(* allows it, the logger, which must not let it happen, pubsub.c, which    *)
(* turns the inner call away, and fork_handler.c, whose child inherits it. *)
(* They share no state; a behaviour is one of a single part.               *)
(***************************************************************************)
EXTENDS RecursiveMutex

CONSTANTS SetLevels,     \* the levels given to logger_set_level
          Topics, Names, \* of PubSub
          Workers        \* of ForkHandler

ASSUME PubSubAssumption == 0 \notin Threads  \* PubSub's Nobody

VARIABLES part,  \* which of the four the threads use
          level, file, lmutex, arg, at, lines,
          list, pmutex, gone, topic, todo, calls, ppc,
          running, locked, logger_locked, inherited, worker, forker, child, destroyer

L == INSTANCE Logger WITH mutex <- lmutex
P == INSTANCE PubSub WITH mutex <- pmutex, pc <- ppc
F == INSTANCE ForkHandler

loggerVars == <<level, file, lmutex, arg, at, lines>>
pubsubVars == <<list, pmutex, gone, topic, todo, calls, ppc>>
forkVars == <<running, locked, logger_locked, inherited, worker, forker, child, destroyer>>
mcVars == <<part, vars, loggerVars, pubsubVars, forkVars>>
-----------------------------------------------------------------------------
\* Somebody has raised the level above Info, and SetLevels keeps it
\* there (LoggerLevels.cfg is the configuration without this restriction).
MCInit ==
    /\ part \in {"mutex", "logger", "pubsub", "fork"}
    /\ Init /\ L!QuietInit /\ P!Init /\ F!Init

InMutex(action) ==
    part = "mutex" /\ action /\ UNCHANGED <<part, loggerVars, pubsubVars, forkVars>>

InLogger(action) ==
    part = "logger" /\ action /\ UNCHANGED <<part, vars, pubsubVars, forkVars>>

InPubSub(action) ==
    part = "pubsub" /\ action /\ UNCHANGED <<part, vars, loggerVars, forkVars>>

InFork(action) ==
    part = "fork" /\ action /\ UNCHANGED <<part, vars, loggerVars, pubsubVars>>

MCNext == InMutex(Next) \/ InLogger(L!Next) \/ InPubSub(P!Next) \/ InFork(F!Next)

\* The fairness of the logger, of pubsub.c and of the fork handler; the
\* recursive mutex has only safety properties.
MCFairness ==
    /\ \A t \in Threads : SF_mcVars(InLogger(L!Step(t)) \/ InPubSub(P!Step(t)))
    /\ SF_mcVars(InFork(F!Step))
    /\ \A w \in Workers : SF_mcVars(InFork(F!Work(w)))

MCSpec == MCInit /\ [][MCNext]_mcVars /\ MCFairness
-----------------------------------------------------------------------------
\* A line of the log is written whole: while its pieces are on their way to
\* the file the writer has logger.mutex, and logger_destroy has not closed it.
LinesWhole == L!LinesWhole

\* A publication that got the mutex calls every subscriber of its topic exactly
\* once, and no call works on a list that pubsub_destroy has freed.
DeliveredOnce == P!DeliveredOnce

\* Every logger_log, logger_set_level and logger_destroy returns, and so does
\* every call of pubsub.c, also one by a callback, and, if nobody logged at the
\* fork, of fork_handler.c: none of them waits for a mutex that is never
\* released, not even for its own.
CallsReturn == L!Returns /\ P!Returns /\ F!ReturnsIfQuiet
=============================================================================
