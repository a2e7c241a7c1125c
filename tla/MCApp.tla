------------------------------- MODULE MCApp -------------------------------
(***************************************************************************)
(* The application and its thread pool for model checking.  The event loop *)
(* of App only links tasks into the pool's list and waits for nothing in   *)
(* it, and the pool makes no call of the other parts, so a behaviour is    *)
(* one of the application or one of the pool.                              *)
(***************************************************************************)
EXTENDS ThreadPool

CONSTANTS MaxReadings, Size  \* of App

VARIABLES part,
          timer, taken, cancelled, tfreed, loop, handled, aran, phase, running, cleaned,
          data, mhead, tail, mcount, wpc, rpc, arg, delivered, locks, granted,
          sem, spc, event, epc

A == INSTANCE App WITH freed <- tfreed, ran <- aran, head <- mhead, count <- mcount

appVars ==
    <<timer, taken, cancelled, tfreed, loop, handled, aran, phase, running, cleaned,
      data, mhead, tail, mcount, wpc, rpc, arg, delivered, locks, granted,
      sem, spc, event, epc>>
mcVars == <<part, vars, appVars>>
-----------------------------------------------------------------------------
MCInit == part \in {"app", "pool"} /\ Init /\ A!Init

InApp(action) == part = "app" /\ action /\ UNCHANGED <<part, vars>>

InPool(action) == part = "pool" /\ action /\ UNCHANGED <<part, appVars>>

\* The fairness of App and of ThreadPool.
MCFairness ==
    /\ WF_mcVars(InApp(A!EventLoop)) /\ SF_mcVars(InApp(A!LoopTimeout))
    /\ \A w \in Workers : WF_mcVars(InPool(Work(w)))

MCSpec == MCInit /\ [][InApp(A!Next) \/ InPool(Next)]_mcVars /\ MCFairness
-----------------------------------------------------------------------------
\* read_sensor gives its permit back on every path, also when the monitor
\* refuses the reading.
PermitHome == A!PermitHome

\* app_cleanup destroys nothing under a thread that still uses it.
UsesLive == A!UsesLive

\* A reading that the monitor accepted is given to thread_pool_enqueue, unless the
\* application stops, although the event pair loses events.
ReadingsHandled == A!ReadingsHandled

\* main's join of the event loop returns, also if no reading ever comes again.
LoopStops == A!LoopStops
=============================================================================
