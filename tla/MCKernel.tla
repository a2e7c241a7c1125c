------------------------------ MODULE MCKernel ------------------------------
(***************************************************************************)
(* The four parts of the kernel module for model checking: the core        *)
(* driver with the chip, the paged SPI bus, the polling thread with the    *)
(* threshold timer and the driver's removal, and the alerts of             *)
(* bme680_ipc.c.  Each module abstracts from the state of the others, so a *)
(* behaviour is one of a single part and the others stay in one fixed      *)
(* initial state.                                                          *)
(***************************************************************************)
EXTENDS Bme680Core

CONSTANTS Addrs, Values, FailedWritesLand,    \* of SpiBus
          Capacity, MaxReadings, MaxRetries,  \* of DataFifo
          QueueSize, SendRetries              \* of IpcAlerts

VARIABLES part,
          current_page, page, mem, op,
          high, taken, fifo, thread, armed, handler, retries, checked, alerted, lost,
          removal,
          task, chan, above, holder, tries, queue, puts, failed, cleanup

busVars == <<current_page, page, mem, op>>
fifoVars ==
    <<high, taken, fifo, thread, armed, handler, retries, checked, alerted, lost, removal>>
alertVars == <<task, chan, above, holder, tries, queue, puts, failed, cleanup>>
mcVars == <<part, vars, busVars, fifoVars, alertVars>>

Bus == INSTANCE SpiBus
Fifo == INSTANCE DataFifo
Alerts == INSTANCE IpcAlerts
-----------------------------------------------------------------------------
MCInit ==
    /\ part \in {"core", "bus", "fifo", "alerts"}
    /\ Init /\ Bus!Init /\ Fifo!Init /\ Alerts!Init
    /\ part # "core" => ctrl_meas.mode = Sleep /\ ~new_data
    /\ part # "bus" => page = 0 /\ \A r, s \in Bus!Registers : mem[r] = mem[s]
    /\ part # "fifo" => high = {}

InCore(action) == part = "core" /\ action /\ UNCHANGED <<part, busVars, fifoVars, alertVars>>

InBus(action) == part = "bus" /\ action /\ UNCHANGED <<part, vars, fifoVars, alertVars>>

InFifo(action) == part = "fifo" /\ action /\ UNCHANGED <<part, vars, busVars, alertVars>>

InAlerts(action) == part = "alerts" /\ action /\ UNCHANGED <<part, vars, busVars, fifoVars>>

MCNext == InCore(Next) \/ InBus(Bus!Next) \/ InFifo(Fifo!Next) \/ InAlerts(Alerts!Next)

\* A job inside the driver goes on, the chip ends its measurements; and the
\* fairness of DataFifo and of IpcAlerts.
MCFairness ==
    /\ WF_mcVars(InCore(Step) \/ InFifo(Fifo!CoreTask) \/ InAlerts(Alerts!Task))
    /\ WF_mcVars(InCore(Measure) \/ InFifo(Fifo!PollThread))
    /\ SF_mcVars(InFifo(Fifo!DelTimerSync)) /\ WF_mcVars(InFifo(Fifo!ThreadStopped))

MCSpec == MCInit /\ [][MCNext]_mcVars /\ MCFairness
-----------------------------------------------------------------------------
\* Every entry point of the core driver returns and gives data->lock back,
\* whatever the chip's new-data bit does under bme680_wait_for_eoc, and so do
\* bme680_core_remove and the alert callback of bme680_ipc.c.
JobsReturn == (part = "core" => Returns) /\ Fifo!RemoveReturns /\ Alerts!AlertsReturn

\* The SPI bus implements the register file that the core driver relies on:
\* every access reaches the register it was meant for, and no other.
RegisterFileSpec == Bus!RegisterFileSpec

\* The readings of bme680_poll_thread are checked by the timer in the order in
\* which they were taken and at most once, whatever kfifo_put dropped.
InOrder == Fifo!InOrder

\* A reading above a threshold that made it into the FIFO is checked and its
\* alert tried, unless the driver is removed.
QueuedTried == Fifo!QueuedTried

\* When bme680_core_remove returns, neither the timer nor the polling thread
\* will touch the driver's data again, wherever the removal met them.
QuietAfterRemove == Fifo!QuietAfterRemove

\* A callback of bme680_ipc.c sends exactly one alert for every channel above
\* its threshold whose sending did not fail for good.
SentOnce == Alerts!SentOnce
=============================================================================
