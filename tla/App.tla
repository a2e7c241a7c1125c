-------------------------------- MODULE App --------------------------------
(***************************************************************************)
(* bme680_app.c and timer.c: the running application.  The timer's thread  *)
(* calls read_sensor, the event loop consumes what it wrote, and main ends *)
(* both and destroys everything.  The monitor, the semaphore and the event *)
(* pair between them are the modules Monitor, FifoSemaphore and EventPair; *)
(* a reading is its number.                                                *)
(*                                                                         *)
(* timer: "sleep" between two callbacks; in read_sensor "permit" (has the  *)
(*        semaphore), "write", "written" (in monitor_write, the latter     *)
(*        with the reading stored), "signal", "post"; "gone"               *)
(* loop:  "new", "test" (the test of running), "read", "fetched" (in       *)
(*        monitor_read), "wait" (event_pair_wait1), "process", "signal",   *)
(*        "done"                                                           *)
(* phase: where main is: "boot" (timer_init returned, the rest is not yet  *)
(*        initialised), "run", "join", "cleanup", "join timer"             *)
(***************************************************************************)
EXTENDS Integers, Sequences

CONSTANTS MaxReadings,  \* bound on the readings of the sensor
          Size          \* the size given to bme680_monitor_init

T == "timer"
L == "loop"
Readings == 1..MaxReadings

VARIABLES timer, taken,              \* the timer's thread, readings so far
          cancelled, freed,          \* pthread_cancel was called; struct timer
          loop, handled,             \* the event loop, its calls of thread_pool_enqueue
          ran,                       \* tasks that a worker has run
          phase, running, cleaned,   \* main, app->running, steps of cleanup
          data, head, tail, count, wpc, rpc, arg, delivered, locks, granted,
          sem, spc,                  \* the semaphore's count and its user
          event, epc                 \* the event pair's state and its users

timerVars == <<timer, taken, cancelled, freed>>
loopVars == <<loop, handled, ran>>
mainVars == <<phase, running, cleaned>>
monitorVars == <<data, head, tail, count, wpc, rpc, arg, delivered, locks, granted>>
semVars == <<sem, spc>>
eventVars == <<event, epc>>
vars == <<timerVars, loopVars, mainVars, monitorVars, semVars, eventVars>>

Mon == INSTANCE Monitor WITH Writers <- {T}, Readers <- {L}, None <- "none",
                             Values <- Readings, NoValue <- 0
Sem == INSTANCE FifoSemaphore WITH Threads <- {T}, Value <- 1, count <- sem, pc <- spc
EP == INSTANCE EventPair WITH Threads <- {T, L}, state <- event, pc <- epc
-----------------------------------------------------------------------------
Start(p, r, l) ==
    /\ timer = "sleep" /\ taken = 0 /\ cancelled = FALSE /\ freed = FALSE
    /\ loop = l /\ handled = <<>> /\ ran = 0
    /\ phase = p /\ running = r /\ cleaned = 0
    /\ Mon!Init /\ Sem!Init /\ EP!Init

\* main has created the event loop.
Init == Start("run", TRUE, "test")

\* main has just started the timer, and not yet opened the device.
BootInit == Start("boot", FALSE, "new")

\* The rest of main's initialisation, up to pthread_create.
Boot ==
    /\ phase = "boot"
    /\ phase' = "run" /\ running' = TRUE /\ loop' = "test"
    /\ UNCHANGED <<timerVars, handled, ran, cleaned, monitorVars, semVars, eventVars>>

Timer(from, to) == timer = from /\ timer' = to /\ UNCHANGED <<cancelled, freed>>

\* timer_task calls read_sensor: the sensor is read and the permit taken.  A
\* read that fails changes nothing.
ReadSensor ==
    /\ taken < MaxReadings
    /\ Timer("sleep", "permit")
    /\ taken' = taken + 1
    /\ Sem!Wait(T)
    /\ UNCHANGED <<loopVars, mainVars, monitorVars, eventVars>>

MonitorRefusedKeepsPermit ==
    /\ Timer("permit", "sleep")
    /\ \/ Mon!WriteInvalid(T)
       \/ loop \in {"test", "read", "fetched"} /\ Mon!WriteRefused(T)
    /\ UNCHANGED <<taken, loopVars, mainVars, semVars, eventVars>>

\* bme680_monitor_write refuses the reading at once: it is out of range, or the
\* event loop is in the monitor's detector, at the start or the end of a read.
MonitorRefused ==
    /\ Timer("permit", "post")
    /\ \/ Mon!WriteInvalid(T)
       \/ loop \in {"test", "read", "fetched"} /\ Mon!WriteRefused(T)
    /\ UNCHANGED <<taken, loopVars, mainVars, semVars, eventVars>>

\* bme680_monitor_write, from its call to its return.
MonitorWrite ==
    /\ \/ Timer("permit", "write") /\ Mon!WriteBegin(T, taken)
       \/ Timer("write", "written") /\ Mon!WriteLoop(T) /\ wpc'[T] = "exit"
       \/ Timer("write", "write") /\ Mon!WriteLoop(T) /\ wpc'[T] = "asleep"
       \/ Timer("write", "write") /\ Mon!WriteTimeout(T)
    /\ UNCHANGED <<taken, loopVars, mainVars, semVars, eventVars>>

\* It returns: the event is signalled only if it returned 0.
MonitorWrote ==
    /\ Timer("written", "signal") \/ Timer("write", "post")
    /\ Mon!WriteEnd(T)
    /\ UNCHANGED <<taken, loopVars, mainVars, semVars, eventVars>>

\* event_pair_signal1, then fifo_semaphore_post and back to the timer's sleep.
Signal1 ==
    /\ Timer("signal", "post")
    /\ EP!Signal(T, 1)
    /\ UNCHANGED <<taken, loopVars, mainVars, monitorVars, semVars>>
Post ==
    /\ Timer("post", "sleep")
    /\ Sem!Post(T)
    /\ UNCHANGED <<taken, loopVars, mainVars, monitorVars, eventVars>>

\* The timer's thread ends: it sees running = 0 before its next callback, or it
\* is cancelled in clock_nanosleep, in the monitor's wait or in one of the
\* writes of logger_log that end every step; then timer_cleanup frees timer.
TimerEnds ==
    /\ cancelled
    /\ timer # "gone" /\ timer' = "gone"
    /\ freed' \in IF timer = "sleep" THEN BOOLEAN ELSE {TRUE}
    /\ UNCHANGED <<taken, cancelled, loopVars, mainVars, monitorVars, semVars, eventVars>>

TimerThread == ReadSensor \/ MonitorRefused \/ MonitorWrite \/ MonitorWrote
                  \/ Signal1 \/ Post \/ TimerEnds

Loop(from, to) == loop = from /\ loop' = to /\ UNCHANGED ran

\* The test of event_loop, and bme680_monitor_read up to its return; refused
\* because the timer's thread is in the detector, the loop tests again.
MonitorRead ==
    /\ \/ running /\ Loop("test", "read") /\ Mon!ReadBegin(L)
       \/ /\ running /\ Loop("test", "test")
          /\ timer \in {"permit", "write", "written"} /\ Mon!ReadRefused(L)
       \/ Loop("read", "fetched") /\ Mon!ReadLoop(L) /\ rpc'[L] = "exit"
       \/ Loop("read", "read") /\ Mon!ReadLoop(L) /\ rpc'[L] = "asleep"
       \/ Loop("read", "read") /\ rpc[L] = "timedout" /\ Mon!ReadTimeout(L)
       \/ Loop("read", "test") /\ Mon!ReadEnd(L)
       \/ Loop("fetched", "wait") /\ Mon!ReadEnd(L)
    /\ UNCHANGED <<handled, timerVars, mainVars, semVars, eventVars>>

Wait1Checked ==
    /\ \/ epc[L] = <<"idle">> /\ EP!Wait(L, 1)
       \/ EP!Resume(L, 1) \/ EP!GiveUp(L, 1)
    /\ Loop("wait", IF epc'[L] # <<"idle">> THEN "wait"
                    ELSE IF epc[L] = <<"timedout", 1>> THEN "test" ELSE "process")
    /\ UNCHANGED <<handled, timerVars, mainVars, monitorVars, semVars>>

\* event_pair_wait1, whose result is not looked at.
Wait1 ==
    /\ \/ epc[L] = <<"idle">> /\ EP!Wait(L, 1)
       \/ EP!Resume(L, 1) \/ EP!GiveUp(L, 1)
    /\ Loop("wait", IF epc'[L] = <<"idle">> THEN "process" ELSE "wait")
    /\ UNCHANGED <<handled, timerVars, mainVars, monitorVars, semVars>>

\* assembly_line_process, assembly_line_get_result and thread_pool_enqueue of
\* the address of the loop's variable, which bme680_monitor_read fills.
Process ==
    /\ Loop("process", "signal")
    /\ handled' = Append(handled, delivered)
    /\ UNCHANGED <<timerVars, mainVars, monitorVars, semVars, eventVars>>

\* event_pair_signal2, which nobody waits for.
Signal2 ==
    /\ Loop("signal", "test")
    /\ EP!Signal(L, 2)
    /\ UNCHANGED <<handled, timerVars, mainVars, monitorVars, semVars>>

LoopEnds ==
    /\ ~running /\ Loop("test", "done")
    /\ UNCHANGED <<handled, timerVars, mainVars, monitorVars, semVars, eventVars>>

EventLoop == MonitorRead \/ Wait1 \/ Process \/ Signal2 \/ LoopEnds

\* A deadline of the event loop fires in one of its two timed waits.
LoopTimeout ==
    /\ \/ rpc[L] = "asleep" /\ Mon!ReadTimeout(L) /\ UNCHANGED eventVars
       \/ EP!Timeout(L, 1) /\ UNCHANGED monitorVars
    /\ UNCHANGED <<loopVars, timerVars, mainVars, semVars>>

\* POSIX lets a wait return without a signal.
SpuriousWakeup ==
    /\ \/ Mon!SpuriousWakeup /\ timer # "gone" /\ UNCHANGED eventVars
       \/ EP!SpuriousWakeup(L, 1) /\ UNCHANGED monitorVars
    /\ UNCHANGED <<loopVars, timerVars, mainVars, semVars>>

\* A worker of the pool runs the oldest task: process_data reads the variable.
RunTask ==
    /\ ran < Len(handled)
    /\ ran' = ran + 1
    /\ UNCHANGED <<loop, handled, timerVars, mainVars, monitorVars, semVars, eventVars>>
-----------------------------------------------------------------------------
OrderTimerLate == <<"fork_handler", "ipc_sync", "rwlock", "recursive_mutex",
    "deadlock_detector", "dining_philosophers", "barrier", "assembly_line",
    "event_pair", "semaphore", "monitor", "timer", "thread_pool", "dev", "pubsub", "logger">>

\* The order in which app_cleanup destroys things.
CleanupOrder == <<"fork_handler", "ipc_sync", "rwlock", "recursive_mutex",
    "deadlock_detector", "dining_philosophers", "barrier", "assembly_line",
    "timer", "event_pair", "semaphore", "monitor", "thread_pool", "dev", "pubsub", "logger">>

Destroyed == {CleanupOrder[i] : i \in 1..cleaned}
Destroying(c) == phase \in {"cleanup", "join timer"} /\ cleaned < Len(CleanupOrder)
                 /\ CleanupOrder[cleaned + 1] = c

\* The end of main: running = 0, and the event loop is joined.
Stop ==
    /\ phase = "run"
    /\ phase' = "join" /\ running' = FALSE
    /\ UNCHANGED <<cleaned, timerVars, loopVars, monitorVars, semVars, eventVars>>

JoinLoop ==
    /\ phase = "join" /\ loop = "done"
    /\ phase' = "cleanup"
    /\ UNCHANGED <<running, cleaned, timerVars, loopVars, monitorVars, semVars, eventVars>>

\* One call of app_cleanup, apart from timer_destroy; none has to return.
Clean ==
    /\ phase = "cleanup" /\ cleaned < Len(CleanupOrder) /\ ~Destroying("timer")
    /\ cleaned' = cleaned + 1
    /\ UNCHANGED <<phase, running, timerVars, loopVars, monitorVars, semVars, eventVars>>

\* timer_destroy: running = 0 and pthread_cancel; timer->thread is read for the
\* join; the join returns.
TimerDestroy ==
    /\ Destroying("timer")
    /\ \/ ~cancelled /\ cancelled' = TRUE /\ UNCHANGED <<phase, cleaned>>
       \/ cancelled /\ phase = "cleanup" /\ phase' = "join timer" /\ UNCHANGED <<cancelled, cleaned>>
       \/ phase = "join timer" /\ timer = "gone" /\ phase' = "cleanup" /\ cleaned' = cleaned + 1
          /\ UNCHANGED cancelled
    /\ UNCHANGED <<running, timer, taken, freed, loopVars, monitorVars, semVars, eventVars>>

Main == Stop \/ JoinLoop \/ Clean \/ TimerDestroy

Next == TimerThread \/ EventLoop \/ LoopTimeout \/ SpuriousWakeup \/ Main

\* The event loop runs when it can, is not refused by the detector for ever, and
\* its absolute deadlines fire.  Nothing is assumed of the timer or the sensor.
Fairness == WF_vars(EventLoop) /\ SF_vars(LoopTimeout)

Spec == Init /\ [][Next]_vars /\ Fairness

\* From the start of the timer on, and with workers that get past the barrier
\* of the pool.
FullSpec == BootInit /\ [][Next \/ Boot \/ RunTask]_vars
-----------------------------------------------------------------------------
\* read_sensor gives its permit back on every path, also when the monitor
\* refuses the reading: a permit lost once would stop the sensor for good.
PermitHome == timer = "sleep" => sem = 1

\* app_cleanup destroys nothing under a thread that still uses it: the timer's
\* thread, the event loop, and the workers, which publish and log.
UsesLive ==
    /\ timer # "gone" => Destroyed \cap {"dev", "semaphore", "monitor", "event_pair"} = {}
    /\ loop # "done" => Destroyed \cap {"monitor", "event_pair", "assembly_line", "thread_pool"} = {}
    /\ Destroyed \cap {"pubsub", "logger"} # {} => "thread_pool" \in Destroyed

\* A reading that the monitor accepted is given to thread_pool_enqueue, unless the
\* application stops, although signals merge and signal2 overwrites them: an
\* event that never comes only delays its reading.
ReadingsHandled == \A r \in Readings :
    (\E i \in DOMAIN Mon!Contents : Mon!Contents[i] = r)
        ~> (~running \/ \E i \in DOMAIN handled : handled[i] = r)

\* main's join of the event loop returns, also if no reading ever comes again.
LoopStops == ~running ~> loop = "done"

\* "Ensure no crashes": timer_destroy reads timer->thread for its join before
\* the cancelled thread has freed timer.
TimerOutlivesJoin == [][phase' = "join timer" /\ phase # phase' => ~freed]_vars

\* "Ensure no crashes": the sensor is not read before app.dev is set.
DeviceReady == [][taken' # taken => phase # "boot"]_vars

\* A task works on the reading that it was enqueued for.
TaskSeesItsReading == [][ran' # ran => delivered = handled[ran']]_vars
=============================================================================
