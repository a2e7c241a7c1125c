---------------------------- MODULE LineDestroy ----------------------------
(***************************************************************************)
(* assembly_line_destroy while the stages of AssemblyLine run: one after   *)
(* the other they are told to stop, cancelled and joined.  A cancelled     *)
(* thread ends at a cancellation point, and the only one in a stage that   *)
(* does not log is pthread_cond_wait in barrier_wait: it locks the         *)
(* barrier's mutex again first, and stage_cleanup does not unlock it.      *)
(***************************************************************************)
EXTENDS AssemblyLine

VARIABLES joined,     \* how many stages destroy has joined
          cancelled,  \* the stages that it has cancelled
          dead,       \* the stages that have ended
          orphaned    \* barrier->mutex was locked by one that ended

destroyVars == <<lineVars, joined, cancelled, dead, orphaned>>
-----------------------------------------------------------------------------
\* assembly_line_destroy may be called at any time after the init.
DestroyInit ==
    /\ LineInit
    /\ joined = 0 /\ cancelled = {} /\ dead = {} /\ orphaned = FALSE

\* running = 0 and pthread_cancel for the next stage.
Cancel ==
    /\ joined < N /\ joined \notin cancelled
    /\ cancelled' = cancelled \cup {joined}
    /\ UNCHANGED <<lineVars, joined, dead, orphaned>>

\* pthread_join returns.
Join ==
    /\ joined < N /\ joined \in dead
    /\ joined' = joined + 1
    /\ UNCHANGED <<lineVars, cancelled, dead, orphaned>>

\* A stage goes on; barrier_wait needs the mutex on its way in and out.
RunStage(s) ==
    /\ s \notin dead /\ Stage(s)
    /\ at[s] = "barrier" => ~orphaned
    /\ s \in cancelled => pc[s] = "out"
    /\ UNCHANGED <<joined, cancelled, dead, orphaned>>

\* A stage ends: its loop test sees running = 0, or it is cancelled in
\* pthread_cond_wait, once that has the mutex back.
EndStage(s) ==
    /\ s \in cancelled \ dead /\ at[s] = "barrier"
    /\ pc[s] # "out" => ~orphaned
    /\ orphaned' = (orphaned \/ pc[s] # "out")
    /\ dead' = dead \cup {s}
    /\ UNCHANGED <<lineVars, joined, cancelled>>

DestroyNext ==
    Cancel \/ Join \/ \E s \in Stages : RunStage(s) \/ EndStage(s)

DestroySpec ==
    /\ DestroyInit /\ [][DestroyNext]_destroyVars
    /\ WF_destroyVars(Cancel) /\ WF_destroyVars(Join)
    /\ \A s \in Stages : WF_destroyVars(RunStage(s)) /\ WF_destroyVars(EndStage(s))
-----------------------------------------------------------------------------
\* "No deadlocks through cleanup handlers": assembly_line_destroy returns.
DestroyReturns == <>(joined = N)
=============================================================================
