----------------------------- MODULE IpcAlerts -----------------------------
(***************************************************************************)
(* The alerts of bme680_ipc.c: every second a thread of timer.c runs the   *)
(* second check_threshold_task, which tests four channels in turn and      *)
(* sends an alert for one above its threshold, over netlink or to a System *)
(* V message queue, under ipc_data->lock; bme680_ipc_cleanup ends it.      *)
(*                                                                         *)
(* task: "sleep" between two callbacks, "test" of channel chan, "lock"     *)
(*       (wants the lock), "send", "gone"                                  *)
(***************************************************************************)
EXTENDS Integers

CONSTANTS QueueSize,   \* messages that fit into the queue
          SendRetries  \* the retries = 3 of bme680_send_sysv_alert

\* In the order of the tests: temperature, gas, pressure, humidity.
Channels == 1..4
Netlink == {1, 3}

VARIABLES task, chan,
          above,    \* the channels above their thresholds in this callback
          holder,   \* who has ipc_data->lock: "none", "task", "cleanup"
          tries,    \* the tries that are left
          queue,    \* number of messages in the queue
          puts,     \* puts[c]: alerts sent for channel c in this callback
          failed,   \* the channels whose alert could not be sent
          cleanup   \* "none", "cancelled" (in timer_destroy), "done"

vars == <<task, chan, above, holder, tries, queue, puts, failed, cleanup>>
-----------------------------------------------------------------------------
\* bme680_ipc_init.
Init ==
    /\ task = "sleep" /\ chan = 1 /\ above = {}
    /\ holder = "none" /\ tries = 0 /\ queue = 0
    /\ puts = [c \in Channels |-> 0] /\ failed = {}
    /\ cleanup = "none"

\* The timer's thread calls check_threshold_task.
Callback ==
    /\ task = "sleep" /\ task' = "test"
    /\ chan' = 1
    /\ above' \in SUBSET Channels
    /\ puts' = [c \in Channels |-> 0] /\ failed' = {}
    /\ UNCHANGED <<holder, tries, queue, cleanup>>

\* The test of the next channel, and the end after the last one.
Test ==
    /\ task = "test"
    /\ \/ chan > 4 /\ task' = "sleep" /\ UNCHANGED chan
       \/ chan \in above /\ task' = "lock" /\ UNCHANGED chan
       \/ chan \in Channels \ above /\ chan' = chan + 1 /\ UNCHANGED task
    /\ UNCHANGED <<above, holder, tries, queue, puts, failed, cleanup>>

\* mutex_lock returns.
Lock ==
    /\ task = "lock" /\ task' = "send"
    /\ holder = "none" /\ holder' = "task"
    /\ tries' = SendRetries
    /\ UNCHANGED <<chan, above, queue, puts, failed, cleanup>>

\* mutex_unlock, and back to check_threshold_task.
Return == task' = "test" /\ chan' = chan + 1 /\ holder' = "none" /\ tries' = 0

Sent == puts' = [puts EXCEPT ![chan] = @ + 1]

\* bme680_send_netlink_alert finds no memory for its message, before it locks.
NetlinkNoMemory ==
    /\ task = "lock" /\ chan \in Netlink
    /\ task' = "test" /\ chan' = chan + 1
    /\ failed' = failed \cup {chan}
    /\ UNCHANGED <<above, holder, tries, queue, puts, cleanup>>

\* nlmsg_multicast sends it, or fails.
SendNetlink ==
    /\ task = "send" /\ chan \in Netlink
    /\ Return
    /\ \/ Sent /\ UNCHANGED failed
       \/ failed' = failed \cup {chan} /\ UNCHANGED puts
    /\ UNCHANGED <<above, queue, cleanup>>

SysvSentGoesOn ==
    /\ queue < QueueSize /\ queue' = queue + 1
    /\ Sent
    /\ tries' = tries - 1
    /\ IF tries = 1 THEN task' = "test" /\ chan' = chan + 1 /\ holder' = "none"
                    ELSE UNCHANGED <<task, chan, holder>>
    /\ UNCHANGED failed

\* msgsnd succeeds.
SysvSent ==
    /\ queue < QueueSize /\ queue' = queue + 1
    /\ Sent /\ Return
    /\ UNCHANGED failed

\* It fails for another reason than a full queue.
SysvError ==
    /\ failed' = failed \cup {chan} /\ Return
    /\ UNCHANGED <<queue, puts>>

\* The queue is full: sleep and try again, up to the last try.
SysvFull ==
    /\ queue = QueueSize
    /\ \/ /\ tries > 1 /\ tries' = tries - 1
          /\ UNCHANGED <<task, chan, holder, failed>>
       \/ /\ tries = 1 /\ failed' = failed \cup {chan} /\ Return
    /\ UNCHANGED <<queue, puts>>

\* bme680_send_sysv_alert: one round of its loop.
SendSysv ==
    /\ task = "send" /\ chan \notin Netlink
    /\ SysvSent \/ SysvError \/ SysvFull
    /\ UNCHANGED <<above, cleanup>>

\* A user process takes a message out of the queue.
Receive ==
    /\ queue > 0 /\ queue' = queue - 1
    /\ UNCHANGED <<task, chan, above, holder, tries, puts, failed, cleanup>>

Task == Test \/ Lock \/ NetlinkNoMemory \/ SendNetlink \/ SendSysv
Next == Callback \/ Task \/ Receive

Spec == Init /\ [][Next]_vars /\ WF_vars(Task)

\* bme680_ipc_cleanup takes the lock and calls timer_destroy, which cancels the
\* thread;
CleanupLock ==
    /\ cleanup = "none" /\ cleanup' = "cancelled"
    /\ holder = "none" /\ holder' = "cleanup"
    /\ UNCHANGED <<task, chan, above, tries, queue, puts, failed>>

\* the thread ends at its next cancellation point, its sleep;
ThreadEnds ==
    /\ cleanup = "cancelled" /\ task = "sleep"
    /\ task' = "gone"
    /\ UNCHANGED <<chan, above, holder, tries, queue, puts, failed, cleanup>>

\* timer_destroy joins it, and everything is released.
CleanupEnds ==
    /\ cleanup = "cancelled" /\ task = "gone"
    /\ cleanup' = "done" /\ holder' = "none"
    /\ UNCHANGED <<task, chan, above, tries, queue, puts, failed>>

Cleanup == CleanupLock \/ ThreadEnds \/ CleanupEnds

CleanupSpec ==
    /\ Init /\ [][Next \/ Cleanup]_vars
    /\ WF_vars(Task) /\ WF_vars(ThreadEnds) /\ WF_vars(CleanupEnds)
-----------------------------------------------------------------------------
\* A callback sends one alert for every channel above its threshold and none for
\* the others, unless the sending failed for good: retries send no duplicates,
\* and neither a failure nor a full queue makes it skip a later channel.
SentOnce == \A c \in Channels :
    /\ puts[c] = (IF c \in above /\ c < chan THEN 1 ELSE 0) - (IF c \in failed THEN 1 ELSE 0)
    /\ c \in failed => c \in above /\ c < chan

\* Every callback returns, also with a queue that nobody empties.
AlertsReturn == task # "sleep" ~> task = "sleep"

\* "No deadlocks through cleanup handlers": bme680_ipc_cleanup returns.
CleanupReturns == cleanup = "cancelled" ~> cleanup = "done"
=============================================================================
