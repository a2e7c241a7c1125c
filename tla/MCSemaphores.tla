---------------------------- MODULE MCSemaphores ----------------------------
(***************************************************************************)
(* The counting semaphore, the event pair and the System V semaphore of    *)
(* ipc_sync.c for model checking.  They share no state and no thread is in *)
(* two of them at once, so a behaviour is one of a single part, with the   *)
(* others idle.                                                            *)
(***************************************************************************)
EXTENDS FifoSemaphore

CONSTANTS Processes, Samples, MaxIds  \* of IpcSync

ASSUME IpcAssumption == MaxIds \in Nat

VARIABLES part,  \* which of the three is used
          state, epc,
          latest, exists, val, mem, id, at, arg, got

EP == INSTANCE EventPair WITH pc <- epc
Ipc == INSTANCE IpcSync

ipcVars == <<latest, exists, val, mem, id, at, arg, got>>
mcVars == <<part, count, pc, state, epc, ipcVars>>
-----------------------------------------------------------------------------
MCInit == part \in {"semaphore", "events", "ipc"} /\ Init /\ EP!Init /\ Ipc!Init

InSemaphore(action) == part = "semaphore" /\ action /\ UNCHANGED <<part, state, epc, ipcVars>>

InEvents(action) == part = "events" /\ action /\ UNCHANGED <<part, count, pc, ipcVars>>

InIpc(action) == part = "ipc" /\ action /\ UNCHANGED <<part, count, pc, state, epc>>

\* The fairness of the first two; of the third only safety is checked here.
MCFairness == \A t \in Threads :
    /\ WF_mcVars(InSemaphore(Resume(t) \/ GiveUp(t)))
    /\ WF_mcVars(InEvents(\E k \in EP!Sides : EP!Resume(t, k) \/ EP!GiveUp(t, k)))
    /\ SF_mcVars(InSemaphore(Timeout(t)) \/ InEvents(\E k \in EP!Sides : EP!Timeout(t, k)))

MCNext == InSemaphore(Next) \/ InEvents(EP!Next) \/ InIpc(Ipc!Next)

MCSpec == MCInit /\ [][MCNext]_mcVars /\ MCFairness
-----------------------------------------------------------------------------
\* Every fifo_semaphore_wait and every event_pair_wait returns, also if nobody
\* ever posts or signals.
WaitsAnswered == Answered /\ EP!Answered

\* No signal of an event is lost: while an event is pending, nobody sleeps for
\* it unless somebody is on the way to take it, although the two sides
\* overwrite each other's state and event_pair_signal wakes one thread.
EventsWake == EP!NoLostWakeup

\* ipc_sync_read never returns a mixture of two samples, although ids are
\* removed under processes that copy, and calls give up.
ReadsWhole == Ipc!ReadsWhole

\* The System V semaphore is home when nobody copies, whichever way the calls
\* returned: one that kept it would lock out every process.
SemaphoreHome == Ipc!SemaphoreHome
=============================================================================
