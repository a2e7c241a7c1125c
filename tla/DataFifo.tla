------------------------------ MODULE DataFifo ------------------------------
(***************************************************************************)
(* The kernel's alert path: bme680_poll_thread puts readings into the      *)
(* kfifo data_fifo, and the handler of threshold_timer takes them out and  *)
(* sends an alert for one above a threshold.  There are two handlers named *)
(* check_threshold_task for that timer, in bme680.c and in bme680_ipc.c.   *)
(* Each access to the FIFO is between down and up of fifo_sem, hence one   *)
(* step; fifo_sem is taken to be initialised to 1 and the thread and the   *)
(* timer to be started, which no code of the repository does.              *)
(*                                                                         *)
(* Readings are numbered in the order in which they are taken; high says   *)
(* which of them exceed a threshold.  The result of the sending is looked  *)
(* at nowhere.                                                             *)
(***************************************************************************)
EXTENDS Integers, Sequences

CONSTANTS Capacity,    \* the 1024 of data_fifo
          MaxReadings, \* bound on the readings
          MaxRetries   \* the retries = 3 of bme680_ipc.c

Readings == 1..MaxReadings

VARIABLES high,
          taken,    \* the number of readings so far
          fifo,     \* data->data_fifo
          thread,   \* bme680_poll_thread: at its loop "test", in a "round", "exited"
          armed,    \* threshold_timer is pending
          handler,  \* its handler: "off", "get" or "rearm"
          retries,  \* of the handler of bme680_ipc.c, 0: it is not running
          checked,  \* the latest reading that a handler took out
          alerted,  \* the readings for which an alert was sent
          lost,     \* the readings for which one could not be sent
          removal   \* bme680_core_remove: "none", "timer", "thread", "done"

timerVars == <<armed, handler, retries>>
vars == <<high, taken, fifo, thread, timerVars, checked, alerted, lost, removal>>
-----------------------------------------------------------------------------
Init ==
    /\ high \in SUBSET Readings
    /\ taken = 0 /\ fifo = <<>> /\ thread = "test"
    /\ armed = TRUE /\ handler = "off" /\ retries = 0
    /\ checked = 0 /\ alerted = {} /\ lost = {} /\ removal = "none"

\* The loop test of bme680_poll_thread.
PollTest ==
    /\ thread = "test"
    /\ thread' = IF removal = "thread" THEN "exited" ELSE "round"
    /\ UNCHANGED <<high, taken, fifo, timerVars, checked, alerted, lost, removal>>

PollOverwrites ==
    /\ thread = "round" /\ thread' = "test"
    /\ taken < MaxReadings
    /\ taken' = taken + 1
    /\ fifo' = IF Len(fifo) < Capacity THEN Append(fifo, taken')
               ELSE <<taken'>> \o Tail(fifo)
    /\ UNCHANGED <<high, timerVars, checked, alerted, lost, removal>>

\* A round that got a reading; kfifo_put on a full FIFO returns 0 and drops it,
\* and the result is not looked at.
Poll ==
    /\ thread = "round" /\ thread' = "test"
    /\ taken < MaxReadings
    /\ taken' = taken + 1
    /\ fifo' = IF Len(fifo) < Capacity THEN Append(fifo, taken') ELSE fifo
    /\ UNCHANGED <<high, timerVars, checked, alerted, lost, removal>>

\* A round in which the sensor could not be read.
PollFails ==
    /\ thread = "round" /\ thread' = "test"
    /\ UNCHANGED <<high, taken, fifo, timerVars, checked, alerted, lost, removal>>

\* bme680_netlink_send for the channels of r above their thresholds, up to
\* four times: each may find no memory or no listener.
NetlinkSend(r) == \E sent, unsent \in SUBSET {r} :
    /\ sent \cup unsent = {r}
    /\ alerted' = alerted \cup sent
    /\ lost' = lost \cup unsent

\* kfifo_get on a FIFO that is not empty, and the four threshold tests.
Check ==
    /\ fifo # <<>>
    /\ fifo' = Tail(fifo)
    /\ checked' = Head(fifo)
    /\ \/ Head(fifo) \in high /\ NetlinkSend(Head(fifo))
       \/ Head(fifo) \notin high /\ UNCHANGED <<alerted, lost>>

\* The timer expires, and the handler of bme680.c runs.
Fire ==
    /\ armed /\ handler = "off"
    /\ armed' = FALSE /\ handler' = "get"
    /\ UNCHANGED <<high, taken, fifo, thread, retries, checked, alerted, lost, removal>>

GetArmsAfterReading ==
    /\ handler = "get"
    /\ \/ Check /\ handler' = "rearm"
       \/ fifo = <<>> /\ handler' = "off" /\ UNCHANGED <<fifo, checked, alerted, lost>>
    /\ UNCHANGED <<high, taken, thread, armed, retries, removal>>

\* check_threshold_task of bme680.c goes on to mod_timer in any case,
Get ==
    /\ handler = "get" /\ handler' = "rearm"
    /\ \/ Check
       \/ fifo = <<>> /\ UNCHANGED <<fifo, checked, alerted, lost>>
    /\ UNCHANGED <<high, taken, thread, armed, retries, removal>>

\* which arms the timer again.
Rearm ==
    /\ handler = "rearm" /\ handler' = "off"
    /\ armed' = TRUE
    /\ UNCHANGED <<high, taken, fifo, thread, retries, checked, alerted, lost, removal>>

\* check_threshold_task of bme680_ipc.c: the timer fires;
IpcTask ==
    /\ armed
    /\ armed' = FALSE /\ retries' = MaxRetries
    /\ UNCHANGED <<high, taken, fifo, thread, handler, checked, alerted, lost, removal>>

\* it tries, and gives up after the last try without arming the timer.
IpcTry ==
    /\ retries > 0
    /\ \/ Check /\ armed' = TRUE /\ retries' = 0
       \/ /\ fifo = <<>>
          /\ retries' = retries - 1
          /\ UNCHANGED <<fifo, checked, alerted, lost, armed>>
    /\ UNCHANGED <<high, taken, thread, handler, removal>>

\* bme680_core_remove is called by the bus driver's remove.
Remove ==
    /\ removal = "none" /\ removal' = "timer"
    /\ UNCHANGED <<high, taken, fifo, thread, timerVars, checked, alerted, lost>>

DelTimerOnly ==
    /\ removal = "timer" /\ removal' = "thread"
    /\ armed' = FALSE
    /\ UNCHANGED <<high, taken, fifo, thread, handler, retries, checked, alerted, lost>>

\* del_timer_sync: the timer is stopped once its handler does not run.
\* kthread_stop is called next.
DelTimerSync ==
    /\ removal = "timer" /\ removal' = "thread"
    /\ handler = "off" /\ armed' = FALSE
    /\ UNCHANGED <<high, taken, fifo, thread, handler, retries, checked, alerted, lost>>

\* kthread_stop returns: the thread has left its loop.
ThreadStopped ==
    /\ removal = "thread" /\ thread = "exited"
    /\ removal' = "done"
    /\ UNCHANGED <<high, taken, fifo, thread, timerVars, checked, alerted, lost>>

\* The bus driver's probe binds the device again: new data, with an empty FIFO.
Bind ==
    /\ removal = "done" /\ removal' = "none"
    /\ fifo' = <<>> /\ thread' = "test"
    /\ armed' = TRUE /\ handler' = "off" /\ retries' = 0
    /\ UNCHANGED <<high, taken, checked, alerted, lost>>

PollThread == PollTest \/ Poll \/ PollFails
CoreTask == Fire \/ Get \/ Rearm
CoreRemove == Remove \/ DelTimerSync \/ ThreadStopped

\* The timer of bme680.c.
Next == PollThread \/ CoreTask \/ CoreRemove \/ Bind

\* The thread runs, the timer fires, and the loop of del_timer_sync meets it
\* between two runs of its handler, which are a second apart.
Fairness ==
    /\ WF_vars(PollThread) /\ WF_vars(CoreTask)
    /\ SF_vars(DelTimerSync) /\ WF_vars(ThreadStopped)

Spec == Init /\ [][Next]_vars /\ Fairness

\* The timer of bme680_ipc.c.
IpcSpec ==
    /\ Init /\ [][PollThread \/ IpcTask \/ IpcTry]_vars
    /\ WF_vars(IpcTask) /\ WF_vars(IpcTry)
-----------------------------------------------------------------------------
\* The FIFO never holds more than its capacity, no task retries more often than
\* its limit, and only readings above a threshold are reported.
TypeOK ==
    /\ taken \in 0..MaxReadings /\ checked \in 0..MaxReadings
    /\ fifo \in Seq(Readings) /\ Len(fifo) <= Capacity
    /\ thread \in {"test", "round", "exited"} /\ handler \in {"off", "get", "rearm"}
    /\ armed \in BOOLEAN /\ retries \in 0..MaxRetries
    /\ alerted \subseteq high /\ lost \subseteq high

\* Readings are checked in the order in which they were taken, each at most
\* once, whatever was dropped in between.
InOrder ==
    /\ \A i \in DOMAIN fifo : checked < fifo[i] /\ fifo[i] <= taken
    /\ \A i, j \in DOMAIN fifo : i < j => fifo[i] < fifo[j]

InFifo(r) == \E i \in DOMAIN fifo : fifo[i] = r

\* A reading above a threshold that made it into the FIFO is checked and its
\* alert tried, unless the driver is removed: the timer never stops arming
\* itself.
QueuedTried == \A r \in Readings :
    (r \in high /\ InFifo(r)) ~> (r \in alerted \cup lost \/ removal # "none")

\* "Send alerts via IPC when thresholds are exceeded": the alert of such a
\* reading is sent.
QueuedAlerted == \A r \in Readings :
    (r \in high /\ InFifo(r)) ~> (r \in alerted \/ removal # "none")

\* When bme680_core_remove returns, neither the timer nor the thread will touch
\* the driver's data again, wherever the removal met them: the timer arms
\* itself and the thread tests its flag only once per round.
QuietAfterRemove ==
    removal = "done" => ~armed /\ handler = "off" /\ thread = "exited"

\* The removal does not wait for ever, for the timer or for the thread.
RemoveReturns == removal = "timer" ~> removal = "done"

\* The same of every reading above a threshold, in the FIFO or not: it is
\* reported, unless the driver is removed.
HighAlerted == \A r \in Readings :
    (r \in high /\ taken >= r) ~> (r \in alerted \/ removal # "none")
==============================================================================
