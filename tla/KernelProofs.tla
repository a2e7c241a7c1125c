---------------------------- MODULE KernelProofs ----------------------------
(***************************************************************************)
(* The safety of the kernel side (bme680.c, bme680_spi.c, bme680_ipc.c)    *)
(* for every capacity, number of readings and retries, set of addresses    *)
(* and values.                                                             *)
(***************************************************************************)
EXTENDS MCKernel, SequenceTheorems, TLAPS

-----------------------------------------------------------------------------
(***************************************************************************)
(* DataFifo: the polling thread, the timer and the removal.                *)
(***************************************************************************)

\* InOrder is inductive once the numbers are known to be numbers: a new reading
\* is the largest so far, and the one that is checked is the smallest queued.
FifoInv ==
    /\ taken \in Nat /\ checked \in Nat /\ checked <= taken
    /\ fifo \in Seq(Nat)
    /\ InOrder

\* kfifo_put of the newest reading keeps the order.
LEMMA AppendKeepsOrder ==
    ASSUME FifoInv, checked' = checked, taken' = taken + 1, fifo' = Append(fifo, taken')
    PROVE  FifoInv'
<1>1. /\ taken' \in Nat /\ checked' \in Nat /\ checked' <= taken'
      /\ fifo' \in Seq(Nat) /\ Len(fifo') = Len(fifo) + 1
  BY DEF FifoInv
<1>2. \A i \in DOMAIN fifo' : fifo'[i] = IF i <= Len(fifo) THEN fifo[i] ELSE taken'
  BY DEF FifoInv
<1>3. /\ \A i \in DOMAIN fifo : fifo[i] \in Nat /\ checked < fifo[i] /\ fifo[i] <= taken
      /\ \A i, j \in DOMAIN fifo : i < j => fifo[i] < fifo[j]
      /\ DOMAIN fifo = 1..Len(fifo) /\ DOMAIN fifo' = 1..(Len(fifo) + 1)
  BY DEF FifoInv, InOrder, Fifo!InOrder
<1>4. InOrder' BY <1>1, <1>2, <1>3 DEF FifoInv, InOrder, Fifo!InOrder
<1> QED BY <1>1, <1>4 DEF FifoInv

\* kfifo_get of the oldest reading keeps it.
LEMMA CheckKeepsOrder ==
    ASSUME FifoInv, Fifo!Check, taken' = taken
    PROVE  FifoInv'
<1> USE DEF FifoInv, Fifo!Check
<1>1. /\ fifo' \in Seq(Nat) /\ Len(fifo') = Len(fifo) - 1 /\ Len(fifo) \in Nat \ {0}
      /\ DOMAIN fifo = 1..Len(fifo) /\ DOMAIN fifo' = 1..(Len(fifo) - 1)
  OBVIOUS
<1>2. /\ \A i \in DOMAIN fifo' : fifo'[i] = fifo[i + 1]
      /\ checked' = fifo[1] /\ 1 \in DOMAIN fifo
  BY <1>1
<1>3. /\ \A i \in DOMAIN fifo : fifo[i] \in Nat /\ checked < fifo[i] /\ fifo[i] <= taken
      /\ \A i, j \in DOMAIN fifo : i < j => fifo[i] < fifo[j]
  BY <1>1 DEF InOrder, Fifo!InOrder
<1> HIDE DEF FifoInv, Fifo!Check
<1>4. \A i \in DOMAIN fifo' : i \in Int /\ i + 1 \in DOMAIN fifo /\ 1 < i + 1
  BY <1>1
<1>5. \A i \in DOMAIN fifo' : checked' < fifo'[i] /\ fifo'[i] <= taken'
  BY <1>2, <1>3, <1>4
<1>6. \A i, j \in DOMAIN fifo' : i < j => fifo'[i] < fifo'[j]
  <2> TAKE i, j \in DOMAIN fifo'
  <2> HAVE i < j
  <2>1. i + 1 \in DOMAIN fifo /\ j + 1 \in DOMAIN fifo /\ i + 1 < j + 1
    BY <1>4
  <2> QED BY <1>2, <1>3, <2>1
<1>7. taken' \in Nat /\ checked' \in Nat /\ checked' <= taken'
  BY <1>2, <1>3 DEF FifoInv
<1> QED BY <1>1, <1>5, <1>6, <1>7 DEF FifoInv, InOrder, Fifo!InOrder

\* Every step of the polling thread, the timer, the removal and a new probe.
LEMMA FifoStep == FifoInv /\ [Fifo!Next]_(Fifo!vars) => FifoInv'
<1> SUFFICES ASSUME FifoInv, [Fifo!Next]_(Fifo!vars) PROVE FifoInv'
  OBVIOUS
<1>1. CASE UNCHANGED <<taken, fifo, checked>>
  BY <1>1 DEF FifoInv, InOrder, Fifo!InOrder
<1>2. CASE Fifo!Poll
  <2>1. CASE fifo' = Append(fifo, taken')
    BY <1>2, <2>1, AppendKeepsOrder DEF Fifo!Poll
  <2>2. CASE fifo' = fifo
    BY <1>2, <2>2 DEF Fifo!Poll, FifoInv, InOrder, Fifo!InOrder
  <2> QED BY <1>2, <2>1, <2>2 DEF Fifo!Poll
<1>3. CASE Fifo!Get
  <2>1. (Fifo!Check /\ taken' = taken) \/ UNCHANGED <<taken, fifo, checked>>
    BY <1>3 DEF Fifo!Get
  <2> QED BY <1>1, <2>1, CheckKeepsOrder
<1>4. CASE Fifo!Bind
  BY <1>4 DEF Fifo!Bind, FifoInv, InOrder, Fifo!InOrder
<1>5. Fifo!Poll \/ Fifo!Get \/ Fifo!Bind \/ UNCHANGED <<taken, fifo, checked>>
  BY DEF Fifo!vars, Fifo!timerVars, Fifo!Next, Fifo!PollThread, Fifo!CoreTask, Fifo!CoreRemove,
         Fifo!PollTest, Fifo!PollFails, Fifo!Fire, Fifo!Rearm, Fifo!Remove,
         Fifo!DelTimerSync, Fifo!ThreadStopped
<1> QED BY <1>1, <1>2, <1>3, <1>4, <1>5

\* The readings of bme680_poll_thread are checked by the handler of
\* threshold_timer in the order in which they were taken and at most once, for
\* every capacity of data_fifo and however many of them kfifo_put drops.
THEOREM ReadingsInOrder == Fifo!Spec => []InOrder
<1>1. Fifo!Init => FifoInv BY DEF Fifo!Init, FifoInv, InOrder, Fifo!InOrder
<1>2. FifoInv => InOrder BY DEF FifoInv
<1> QED BY <1>1, <1>2, FifoStep, PTL DEF Fifo!Spec

\* What bme680_core_remove has achieved at each of its steps: the timer is
\* stopped before the thread is, and neither comes back.
RemovalInv ==
    /\ removal \in {"thread", "done"} => ~armed /\ handler = "off"
    /\ QuietAfterRemove

\* Every step keeps it, wherever the removal meets the timer and the thread.
LEMMA RemovalStep == RemovalInv /\ [Fifo!Next]_(Fifo!vars) => RemovalInv'
<1> SUFFICES ASSUME RemovalInv, [Fifo!Next]_(Fifo!vars) PROVE RemovalInv'
  OBVIOUS
<1> USE DEF RemovalInv, QuietAfterRemove, Fifo!QuietAfterRemove, Fifo!timerVars
<1>1. CASE Fifo!PollThread
  BY <1>1 DEF Fifo!PollThread, Fifo!PollTest, Fifo!Poll, Fifo!PollFails
<1>2. CASE Fifo!CoreTask
  BY <1>2 DEF Fifo!CoreTask, Fifo!Fire, Fifo!Get, Fifo!Rearm
<1>3. CASE Fifo!CoreRemove
  BY <1>3 DEF Fifo!CoreRemove, Fifo!Remove, Fifo!DelTimerSync, Fifo!ThreadStopped
<1>4. CASE Fifo!Bind
  BY <1>4 DEF Fifo!Bind
<1>5. CASE UNCHANGED Fifo!vars
  BY <1>5 DEF Fifo!vars
<1> QED BY <1>1, <1>2, <1>3, <1>4, <1>5 DEF Fifo!Next

\* When bme680_core_remove returns, neither the timer nor the polling thread
\* will touch the driver's data again, wherever the removal met them.
THEOREM QuietAfterRemoval == Fifo!Spec => []QuietAfterRemove
<1>1. Fifo!Init => RemovalInv
  BY DEF Fifo!Init, RemovalInv, QuietAfterRemove, Fifo!QuietAfterRemove
<1>2. RemovalInv => QuietAfterRemove BY DEF RemovalInv
<1> QED BY <1>1, <1>2, RemovalStep, PTL DEF Fifo!Spec
-----------------------------------------------------------------------------
(***************************************************************************)
(* IpcAlerts: the callback of bme680_ipc.c.                                *)
(***************************************************************************)

\* SentOnce in the form in which the steps change it: every channel that was
\* tested counts one alert or one failure, the others neither.
Settled == \A c \in 1..4 :
    /\ c \in failed => c \in above /\ c < chan /\ puts[c] = 0
    /\ c \notin failed /\ c \in above /\ c < chan => puts[c] = 1
    /\ c \notin above \/ ~(c < chan) => puts[c] = 0

\* The two forms say the same.
LEMMA SettledSentOnce == Settled <=> SentOnce
<1>1. ASSUME NEW c \in 1..4
      PROVE  /\ puts[c] = (IF c \in above /\ c < chan THEN 1 ELSE 0)
                          - (IF c \in failed THEN 1 ELSE 0)
             /\ c \in failed => c \in above /\ c < chan
             <=>
             /\ c \in failed => c \in above /\ c < chan /\ puts[c] = 0
             /\ c \notin failed /\ c \in above /\ c < chan => puts[c] = 1
             /\ c \notin above \/ ~(c < chan) => puts[c] = 0
  <2>1. CASE c \in failed /\ c \in above /\ c < chan BY <2>1
  <2>2. CASE c \in failed /\ ~(c \in above /\ c < chan) BY <2>2
  <2>3. CASE c \notin failed /\ c \in above /\ c < chan BY <2>3
  <2>4. CASE c \notin failed /\ ~(c \in above /\ c < chan) BY <2>4
  <2> QED BY <2>1, <2>2, <2>3, <2>4
<1> QED BY <1>1 DEF Settled, SentOnce, Alerts!SentOnce, Alerts!Channels

\* SentOnce with the types, and with what check_threshold_task knows while it
\* sends: the channel is above its threshold, and nothing was recorded for it.
AlertsInv ==
    /\ chan \in 1..5 /\ above \subseteq 1..4
    /\ failed \subseteq 1..4 /\ puts \in [1..4 -> Int]
    /\ task \in {"lock", "send"} => chan \in above
    /\ Settled

\* The alert for the current channel was sent, or failed for good, and
\* check_threshold_task goes on to the next one.
LEMMA ChannelDone ==
    ASSUME AlertsInv, task \in {"lock", "send"}, task' = "test", chan' = chan + 1, above' = above,
           \/ puts' = [puts EXCEPT ![chan] = @ + 1] /\ failed' = failed
           \/ puts' = puts /\ failed' = failed \cup {chan}
    PROVE  AlertsInv'
<1> USE DEF AlertsInv
<1>1. chan \in 1..4 /\ chan \in above /\ chan \notin failed /\ puts[chan] = 0
  BY DEF Settled
<1>2. /\ chan' \in 1..5 /\ above' \subseteq 1..4
      /\ failed' \subseteq 1..4 /\ puts' \in [1..4 -> Int]
  <2>1. chan' \in 1..5 /\ above' \subseteq 1..4 BY <1>1
  <2>2. failed' \subseteq 1..4 BY <1>1
  <2>3. puts' \in [1..4 -> Int] BY <1>1
  <2> QED BY <2>1, <2>2, <2>3
<1>3. ASSUME NEW c \in 1..4
      PROVE  /\ c \in failed' => c \in above' /\ c < chan' /\ puts'[c] = 0
             /\ c \notin failed' /\ c \in above' /\ c < chan' => puts'[c] = 1
             /\ c \notin above' \/ ~(c < chan') => puts'[c] = 0
  <2>1. CASE c = chan BY <1>1, <1>2, <2>1
  <2>2. CASE c # chan
    <3>1. /\ puts'[c] = puts[c] /\ (c \in failed' <=> c \in failed)
          /\ (c < chan' <=> c < chan)
      BY <1>1, <2>2
    <3> QED BY <3>1 DEF Settled
  <2> QED BY <2>1, <2>2
<1> QED BY <1>2, <1>3 DEF Settled

\* Every step of the callback and of the queue's reader keeps the invariant.
LEMMA AlertsStep == AlertsInv /\ [Alerts!Next]_(Alerts!vars) => AlertsInv'
<1> SUFFICES ASSUME AlertsInv, [Alerts!Next]_(Alerts!vars) PROVE AlertsInv'
  OBVIOUS
<1>1. CASE Alerts!Callback
  BY <1>1 DEF Alerts!Callback, AlertsInv, Settled, Alerts!Channels
<1>2. CASE Alerts!Test
  <2>1. CASE UNCHANGED chan
    BY <1>2, <2>1
    DEF Alerts!Test, AlertsInv, Settled, Alerts!Channels
  <2>2. CASE chan \in Alerts!Channels \ above /\ chan' = chan + 1
    <3>1. \A c \in 1..4 : c \in above => (c < chan + 1 <=> c < chan)
      BY <2>2 DEF Alerts!Channels
    <3>2. chan' \in 1..5 BY <2>2 DEF Alerts!Channels
    <3> QED
      BY <1>2, <2>2, <3>1, <3>2
      DEF Alerts!Test, AlertsInv, Settled, Alerts!Channels
  <2> QED BY <1>2, <2>1, <2>2 DEF Alerts!Test
<1>3. CASE Alerts!Lock
  BY <1>3 DEF Alerts!Lock, AlertsInv, Settled, Alerts!Channels
<1>4. CASE Alerts!NetlinkNoMemory
  BY <1>4, ChannelDone DEF Alerts!NetlinkNoMemory
<1>5. CASE Alerts!SendNetlink
  BY <1>5, ChannelDone DEF Alerts!SendNetlink, Alerts!Return, Alerts!Sent
<1>6. CASE Alerts!SendSysv
  <2>1. CASE Alerts!SysvSent \/ Alerts!SysvError
    BY <1>6, <2>1, ChannelDone
    DEF Alerts!SendSysv, Alerts!SysvSent, Alerts!SysvError, Alerts!Return, Alerts!Sent
  <2>2. CASE Alerts!SysvFull
    <3>1. CASE UNCHANGED <<task, chan, failed>>
      BY <1>6, <2>2, <3>1
      DEF Alerts!SendSysv, Alerts!SysvFull, AlertsInv, Settled,
          Alerts!Channels
    <3>2. CASE failed' = failed \cup {chan} /\ Alerts!Return
      BY <1>6, <2>2, <3>2, ChannelDone
      DEF Alerts!SendSysv, Alerts!SysvFull, Alerts!Return
    <3> QED BY <2>2, <3>1, <3>2 DEF Alerts!SysvFull
  <2> QED BY <1>6, <2>1, <2>2 DEF Alerts!SendSysv
<1>7. CASE Alerts!Receive
  BY <1>7 DEF Alerts!Receive, AlertsInv, Settled, Alerts!Channels
<1>8. CASE UNCHANGED Alerts!vars
  BY <1>8 DEF Alerts!vars, AlertsInv, Settled, Alerts!Channels
<1> QED
  BY <1>1, <1>2, <1>3, <1>4, <1>5, <1>6, <1>7, <1>8 DEF Alerts!Next, Alerts!Task

\* A callback sends exactly one alert for every channel above its threshold
\* whose sending did not fail for good, for every size of the message queue and
\* every number of retries of bme680_send_sysv_alert.
THEOREM AlertsSentOnce == Alerts!Spec => []SentOnce
<1>1. Alerts!Init => AlertsInv
  BY DEF Alerts!Init, AlertsInv, Settled, Alerts!Channels
<1>2. AlertsInv => SentOnce BY SettledSentOnce DEF AlertsInv
<1> QED BY <1>1, <1>2, AlertsStep, PTL DEF Alerts!Spec
-----------------------------------------------------------------------------
(***************************************************************************)
(* SpiBus: the paged bus implements RegisterFile when a write that the     *)
(* controller reports as failed did not reach the chip.                    *)
(***************************************************************************)

\* The page that bme680_spi.c remembers is the chip's, or it knows that it does
\* not know.
BusInv == Bus!TypeOK /\ Bus!PageAgrees

\* When bme680_regmap_spi_select_page returns 0, the chip is on page p.
LEMMA Selected ==
    ASSUME BusInv, NEW p \in Bus!Pages, Bus!Select(p)
    PROVE  page' = p /\ current_page' = p
BY DEF BusInv, Bus!TypeOK, Bus!PageAgrees, Bus!Select, Bus!Pages, Bus!Undefined

\* An access of the bus to r keeps the invariant and is one of the register file.
LEMMA AccessKeeps ==
    ASSUME ~FailedWritesLand, BusInv, NEW r \in Bus!Registers,
           \/ Bus!SelectFails(r) \/ Bus!Read(r) \/ Bus!ReadFails(r)
           \/ \E v \in Values : Bus!Write(r, v) \/ Bus!WriteFails(r, v)
    PROVE  /\ BusInv'
           /\ \/ Bus!RF!Read(r) \/ Bus!RF!Fail(r)
              \/ \E v \in Values : Bus!RF!Write(r, v)
<1>1. /\ r[1] \in Bus!Pages /\ r = <<r[1], r[2]>>
      /\ mem \in [Bus!Registers -> Values] /\ page \in Bus!Pages
  BY DEF BusInv, Bus!TypeOK, Bus!Registers
<1>2. ASSUME page' = r[1], current_page' = r[1], mem' \in [Bus!Registers -> Values]
      PROVE  BusInv'
  BY <1>1, <1>2 DEF BusInv, Bus!TypeOK, Bus!PageAgrees
<1>3. CASE Bus!SelectFails(r)
  <2>1. UNCHANGED <<page, current_page, mem>> /\ op' = <<"failed", r>>
    BY <1>3 DEF Bus!SelectFails, Bus!AfterFailure
  <2> QED BY <2>1 DEF BusInv, Bus!TypeOK, Bus!PageAgrees, Bus!RF!Fail
<1>4. CASE Bus!Read(r)
  <2>1. page' = r[1] /\ current_page' = r[1] BY <1>1, <1>4, Selected DEF Bus!Read
  <2> QED BY <1>1, <1>2, <1>4, <2>1 DEF Bus!Read, Bus!RF!Read
<1>5. CASE Bus!ReadFails(r)
  <2>1. page' = r[1] /\ current_page' = r[1] BY <1>1, <1>5, Selected DEF Bus!ReadFails
  <2> QED BY <1>1, <1>2, <1>5, <2>1 DEF Bus!ReadFails, Bus!RF!Fail
<1>6. ASSUME NEW v \in Values, Bus!Write(r, v)
      PROVE  BusInv' /\ Bus!RF!Write(r, v)
  <2>1. page' = r[1] /\ current_page' = r[1] BY <1>1, <1>6, Selected DEF Bus!Write
  <2> QED BY <1>1, <1>2, <1>6, <2>1 DEF Bus!Write, Bus!RF!Write
<1>7. ASSUME NEW v \in Values, Bus!WriteFails(r, v)
      PROVE  BusInv' /\ Bus!RF!Fail(r)
  <2>1. page' = r[1] /\ current_page' = r[1] BY <1>1, <1>7, Selected DEF Bus!WriteFails
  <2>2. mem' = mem /\ op' = <<"failed", r>> BY <1>7 DEF Bus!WriteFails, Bus!AfterFailure
  <2> QED BY <1>1, <1>2, <2>1, <2>2 DEF Bus!RF!Fail
<1> QED BY <1>3, <1>4, <1>5, <1>6, <1>7

\* Every step keeps the invariant and is a step of the register file or leaves
\* its registers alone.
LEMMA BusStep ==
    ASSUME ~FailedWritesLand
    PROVE  BusInv /\ [Bus!Next]_(Bus!vars)
              => BusInv' /\ [Bus!RF!Next]_<<mem, op>>
<1> SUFFICES ASSUME BusInv, [Bus!Next]_(Bus!vars)
             PROVE  BusInv' /\ [Bus!RF!Next]_<<mem, op>>
  OBVIOUS
<1>1. CASE Bus!Probe
  BY <1>1 DEF Bus!Probe, BusInv, Bus!TypeOK, Bus!PageAgrees, Bus!Undefined
<1>2. CASE UNCHANGED Bus!vars
  BY <1>2 DEF Bus!vars, BusInv, Bus!TypeOK, Bus!PageAgrees
<1>3. ASSUME NEW r \in Bus!Registers,
             \/ Bus!SelectFails(r) \/ Bus!Read(r) \/ Bus!ReadFails(r)
             \/ \E v \in Values : Bus!Write(r, v) \/ Bus!WriteFails(r, v)
      PROVE  BusInv' /\ Bus!RF!Next
  BY <1>3, AccessKeeps DEF Bus!RF!Next
<1> QED BY <1>1, <1>2, <1>3 DEF Bus!Next

\* bme680_spi.c implements the register file that the core driver relies on:
\* for every set of addresses and values, whichever transfers fail, an access
\* reaches the register it was meant for and no other, provided that a write
\* that the controller reports as failed did not reach the chip.
THEOREM BusIsRegisterFile == ~FailedWritesLand /\ Bus!Spec => RegisterFileSpec
<1> SUFFICES ASSUME ~FailedWritesLand PROVE Bus!Spec => RegisterFileSpec
  OBVIOUS
<1>1. Bus!Init => BusInv /\ Bus!RF!Init
  BY DEF Bus!Init, BusInv, Bus!TypeOK, Bus!PageAgrees, Bus!RF!Init
<1>2. BusInv /\ [Bus!Next]_(Bus!vars) => BusInv' /\ [Bus!RF!Next]_<<mem, op>>
  BY BusStep
<1> QED
  BY <1>1, <1>2, PTL DEF Bus!Spec, RegisterFileSpec, Bus!RegisterFileSpec, Bus!RF!Spec
-----------------------------------------------------------------------------
(***************************************************************************)
(* Bme680Core: the configuration on the chip.                              *)
(***************************************************************************)

\* The records of the chip and of the job have their fields, and what is cached
\* for the heater fits the u8 of bme680_set_gas_config.
CoreTypes ==
    /\ osr = [c \in Channels |-> osr[c]]
    /\ heater_dur \in 0..255
    /\ ctrl_meas = [osr |-> ctrl_meas.osr, mode |-> ctrl_meas.mode]
    /\ job = [kind |-> job.kind, step |-> job.step, reg |-> job.reg, tries |-> job.tries]
    /\ synced \subseteq {"osr", "gas"}

\* What a configuration has written so far at each of its steps, and that what
\* it is about to overwrite is not promised to user space in the meantime.
ConfigInv ==
    /\ CoreTypes
    /\ job.step \in {"identify", "temp_r", "temp_w", "press_r", "press_w", "humid"} => synced = {}
    /\ job.step \in {"gas", "heat"} => "gas" \notin synced
    /\ job.step \in {"gas", "heat"} /\ job.kind # "heater" => synced = {}
    /\ job.step = "humid" => ctrl_meas.osr = osr["press"]
    /\ job.step \in {"gas", "heat"} /\ job.kind # "heater" =>
          ctrl_meas.osr = osr["press"] /\ ctrl_hum = osr["humid"]
    /\ job.step = "heat" => gas_wait = heater_dur
    /\ ConfigOnChip

\* The job stays where it is, or goes to a step outside every configuration.
Elsewhere ==
    \/ job' = job
    \/ /\ job' = [kind |-> job'.kind, step |-> job'.step, reg |-> job'.reg,
                  tries |-> job'.tries]
       /\ job'.step \notin {"identify", "temp_r", "temp_w", "press_r", "press_w",
                            "humid", "gas", "heat"}

\* A step that leaves the settings, the promises and the oversampling on the
\* chip alone keeps the invariant if the job does not enter a configuration.
LEMMA HarmlessStep ==
    ASSUME ConfigInv, UNCHANGED <<settings, ctrl_hum, gas_wait, synced>>, Elsewhere,
           ctrl_meas' = [osr |-> ctrl_meas.osr, mode |-> ctrl_meas'.mode]
    PROVE  ConfigInv'
<1>1. ctrl_meas'.osr = ctrl_meas.osr OBVIOUS
<1>2. CoreTypes' BY <1>1 DEF ConfigInv, CoreTypes, settings, Elsewhere
<1> QED BY <1>1, <1>2 DEF ConfigInv, ConfigOnChip, settings, Elsewhere

\* The steps of the chip, of bme680_read_raw and of the rest of bme680_probe.
LEMMA OtherSteps ==
    ASSUME ConfigInv,
           \/ Fail \/ Measure \/ Probe \/ BeginRead \/ FinishProbe
           \/ GetMode \/ ForceMode \/ WaitForEoc \/ BulkRead
    PROVE  ConfigInv'
<1>1. /\ ctrl_meas = [osr |-> ctrl_meas.osr, mode |-> ctrl_meas.mode]
      /\ job = [kind |-> job.kind, step |-> job.step, reg |-> job.reg, tries |-> job.tries]
  BY DEF ConfigInv, CoreTypes
<1> USE DEF Goto, Return, Idle, Begin, chip, Elsewhere
<1>2. CASE Fail BY <1>1, <1>2, HarmlessStep DEF Fail
<1>3. CASE Measure BY <1>1, <1>3, HarmlessStep DEF Measure
<1>4. CASE Probe BY <1>1, <1>4, HarmlessStep DEF Probe
<1>5. CASE BeginRead BY <1>1, <1>5, HarmlessStep DEF BeginRead
<1>6. CASE FinishProbe BY <1>1, <1>6, HarmlessStep DEF FinishProbe, WriteMeas
<1>7. CASE GetMode BY <1>1, <1>7, HarmlessStep DEF GetMode
<1>8. CASE ForceMode BY <1>1, <1>8, HarmlessStep DEF ForceMode, WriteMeas
<1>9. CASE WaitForEoc BY <1>1, <1>9, HarmlessStep DEF WaitForEoc
<1>10. CASE BulkRead BY <1>1, <1>10, HarmlessStep DEF BulkRead
<1> QED BY <1>2, <1>3, <1>4, <1>5, <1>6, <1>7, <1>8, <1>9, <1>10

\* The steps of bme680_probe, bme680_chip_config and bme680_set_gas_config that
\* write the configuration to the chip.
LEMMA ConfigSteps ==
    ASSUME ConfigInv, Reset \/ Identify \/ ChipConfig \/ SetGasConfig
    PROVE  ConfigInv'
<1>1. CoreTypes BY DEF ConfigInv
<1> USE DEF Goto, Return, Idle, settings, chip
<1>2. CASE Reset
  <2>1. CoreTypes' BY <1>1, <1>2 DEF Reset, CoreTypes
  <2> QED BY <1>1, <1>2, <2>1 DEF Reset, ConfigInv, CoreTypes, ConfigOnChip
<1>3. CASE Identify
  <2>1. CoreTypes' BY <1>1, <1>3 DEF Identify, CoreTypes
  <2> QED BY <1>1, <1>3, <2>1 DEF Identify, ConfigInv, CoreTypes, ConfigOnChip
<1>4. ASSUME SetOversampling("temp", "temp_r", "temp_w", "press_r") PROVE ConfigInv'
  <2>1. synced' = {} /\ job'.step \in {"temp_w", "press_r"}
    BY <1>1, <1>4 DEF SetOversampling, ConfigInv, CoreTypes
  <2>2. CoreTypes' BY <1>1, <1>4 DEF SetOversampling, WriteMeas, CoreTypes
  <2> QED BY <2>1, <2>2 DEF ConfigInv, ConfigOnChip
<1>5. ASSUME SetOversampling("press", "press_r", "press_w", "humid") PROVE ConfigInv'
  <2>1. /\ synced' = {} /\ job'.step \in {"press_w", "humid"}
        /\ job'.step = "humid" => ctrl_meas'.osr = osr'["press"]
    <3>1. synced' = {} BY <1>5 DEF SetOversampling, ConfigInv
    <3>2. CASE job.step = "press_r"
      BY <1>1, <1>5, <3>1, <3>2 DEF SetOversampling, CoreTypes
    <3>3. CASE job.step = "press_w"
      BY <1>1, <1>5, <3>1, <3>3 DEF SetOversampling, WriteMeas, CoreTypes
    <3> QED BY <1>5, <3>2, <3>3 DEF SetOversampling
  <2>2. CoreTypes' BY <1>1, <1>5 DEF SetOversampling, WriteMeas, CoreTypes
  <2> QED BY <2>1, <2>2 DEF ConfigInv, ConfigOnChip
<1>6. ASSUME job.step = "humid", ctrl_hum' = osr["humid"], Goto("gas"),
             UNCHANGED <<settings, ctrl_meas, gas_wait, synced>>
      PROVE  ConfigInv'
  <2>1. CoreTypes' BY <1>1, <1>6 DEF CoreTypes
  <2>2. job'.step = "gas" BY <1>1, <1>6 DEF CoreTypes
  <2> QED BY <1>6, <2>1, <2>2 DEF ConfigInv, ConfigOnChip
<1>7. ASSUME job.step = "gas", gas_wait' = heater_dur % 256, Goto("heat"),
             UNCHANGED <<settings, ctrl_meas, ctrl_hum, synced>>
      PROVE  ConfigInv'
  <2>1. CoreTypes' BY <1>1, <1>7 DEF CoreTypes
  <2>2. job'.step = "heat" /\ job'.kind = job.kind BY <1>1, <1>7 DEF CoreTypes
  <2>3. heater_dur % 256 = heater_dur BY <1>1 DEF CoreTypes
  <2> QED BY <1>7, <2>1, <2>2, <2>3 DEF ConfigInv, ConfigOnChip
<1>8. ASSUME job.step = "heat",
             IF job.kind = "probe" THEN Goto("power") ELSE Return,
             synced' = synced \cup (IF job.kind = "heater" THEN {"gas"} ELSE {"osr", "gas"}),
             UNCHANGED <<settings, chip>>
      PROVE  ConfigInv'
  <2>1. CoreTypes' BY <1>1, <1>8 DEF CoreTypes
  <2>2. job'.step \in {"power", "none"} BY <1>1, <1>8 DEF CoreTypes
  <2>3. ConfigOnChip' BY <1>8 DEF ConfigInv, ConfigOnChip
  <2> QED BY <2>1, <2>2, <2>3 DEF ConfigInv
<1> QED BY <1>2, <1>3, <1>4, <1>5, <1>6, <1>7, <1>8 DEF ChipConfig, SetGasConfig

\* bme680_write_raw stores a setting and withdraws the promise about it before
\* the first bus access.
LEMMA WriteSteps ==
    ASSUME Durations \subseteq 0..255, ConfigInv,
           \/ WriteHeater
           \/ \E c \in Channels, r \in Ratios : WriteOversampling(c, r)
           \/ \E d \in Durations : WriteHeaterDur(d)
    PROVE  ConfigInv'
<1>1. CoreTypes BY DEF ConfigInv
<1> USE DEF Begin, settings, chip
<1>2. CASE WriteHeater
  <2>1. CoreTypes' BY <1>1, <1>2 DEF WriteHeater, CoreTypes
  <2> QED BY <1>2, <2>1 DEF WriteHeater, ConfigInv, ConfigOnChip
<1>3. ASSUME NEW c \in Channels, NEW r \in Ratios, WriteOversampling(c, r)
      PROVE  ConfigInv'
  <2>1. CoreTypes' BY <1>1, <1>3 DEF WriteOversampling, CoreTypes
  <2> QED BY <1>3, <2>1 DEF WriteOversampling, ConfigInv, ConfigOnChip
<1>4. ASSUME NEW d \in Durations, WriteHeaterDur(d)
      PROVE  ConfigInv'
  <2>1. CoreTypes' BY <1>1, <1>4 DEF WriteHeaterDur, CoreTypes
  <2> QED BY <1>4, <2>1 DEF WriteHeaterDur, ConfigInv, ConfigOnChip
<1> QED BY <1>2, <1>3, <1>4

\* What user space was told is set stays on the chip, for every set of ratios
\* and number of polls, while the heater durations that user space writes fit
\* the u8 of bme680_set_gas_config.
THEOREM ConfigStaysOnChip ==
    ASSUME Durations \subseteq 0..255
    PROVE  Spec => []ConfigOnChip
<1>1. Init => ConfigInv
  BY DEF Init, Begin, ConfigInv, CoreTypes, ConfigOnChip
<1>2. ConfigInv /\ [Next]_vars => ConfigInv'
  <2> SUFFICES ASSUME ConfigInv, [Next]_vars PROVE ConfigInv'
    OBVIOUS
  <2>1. CASE UNCHANGED vars
    BY <2>1 DEF vars, settings, chip, ConfigInv, CoreTypes, ConfigOnChip
  <2> QED BY <2>1, OtherSteps, ConfigSteps, WriteSteps DEF Next, Step
<1>3. ConfigInv => ConfigOnChip BY DEF ConfigInv
<1> QED BY <1>1, <1>2, <1>3, PTL DEF Spec
=============================================================================
