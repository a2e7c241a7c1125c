# TLA+ models of the BME680 driver and its multithreaded application

The repository holds a Linux driver for the BME680 environmental sensor (kernel
space) and an application around it (user space) that is built from hand-written
synchronisation primitives.  Both live in
`src/BME680-kernel-module-thread-design-Advance/`; file names below are relative
to it.  This directory models the parts whose correctness depends on
interleavings, timeouts, failures and limits, checks them with TLC on small
instances, and proves with TLAPS, for every value of the constants, each safety
invariant that the passing runs check and both refinements.

Contents: 1 Inventory - 2 Modules and how they correspond to the code -
3 Runs - 4 Bounds - 5 Fairness - 6 Proofs - 7 Where code and documentation
disagree - 8 Not modelled - 9 Plan.

## 1. Inventory

### User space

| Component | State | Operations | Hard behaviour | What makes it correct |
|---|---|---|---|---|
| FIFO semaphore, `fifo_semaphore.c` | mutex, condition variable, `count` | `wait` (5 s deadline), `post` | a post's signal races a timeout or a newcomer | permits conserved; nobody sleeps beside a free permit; each wait returns |
| Read-write lock, `rwlock.c` | two active and two waiting counters, two condition variables, limits | `rdlock`, `wrlock` (deadlines), `unlock` | writer preference; giving up; limits | exclusion; counters match threads; nobody stranded |
| Barrier, `barrier.c` | `count`, `total`, condition variable | `wait` | reuse: rounds overlap; wakeups that nobody sent | nobody passes before all have arrived |
| Dining philosophers, `dining_philosophers.c` | one mutex per fork | `eat`, `think`, `done` | circular wait | neighbours exclusive; no circular wait |
| Recursive mutex, `recursive_mutex.c` | pthread mutex, `owner`, `count` | `lock`, `unlock` | `owner` is read without the mutex | exclusion; count is the nesting |
| Event pair, `event_pair.c` | one `state` word, two condition variables | `signal1/2`, `wait1/2` | both directions share the word | no lost wakeup; each wait returns |
| Deadlock detector, `deadlock_detector.c` | table of lock owners | `lock`, `unlock` | records left behind on error paths; a contended mutex refuses the caller | only threads inside are on record; a refused caller leaves nothing behind |
| Monitor, `monitor.c` | ring buffer, two condition variables, a detector | `write`, `read` (deadlines) | full/empty, timeouts, several exits | a bounded FIFO queue |
| Thread pool, `thread_pool.c` | task list, shutdown flag, barrier, event pair | `enqueue`, `destroy`, worker loop | timeouts, one signal per task, shutdown | each task taken once, none lost; shutdown reaches all |
| Assembly line, `assembly_line.c` | shared sample, stage threads, barrier, forks | `process`, `get_result`, stage loop, `destroy` | barrier and forks combined; unlocked sample | stages in step; nobody starves |
| Logger, `logger.c` | file, level, mutex | `init`, `log`, `set_level`, `destroy` | it calls itself under its own mutex | lines whole; calls return |
| Configuration, `bme680_config.c` | three fields, a read-write lock | setters, getter | lock failures are ignored | settings are set and read as a whole |
| Publish-subscribe, `pubsub.c` | list of subscribers, mutex, event pair | `subscribe`, `publish`, `destroy` | callbacks under the mutex that call back; a handshake nobody answers | each subscriber called once; no use of a freed list; calls return |
| Timer, `timer.c` | a thread, interval, callback | `init`, `destroy` | cancellation in the callback; the cleanup handler frees the timer | the join returns, what the callback uses is alive |
| Fork handler, `fork_handler.c` | worker threads, mutex | `fork`, `destroy` | mutexes inherited locked | calls return |
| IPC sync, `ipc_sync.c` | System V semaphore and segment | `init`, `destroy`, `write`, `read` | ids removed under users, processes that die | samples read whole; semaphore is given back |
| Application, `bme680_app.c` | all of the above | timer callback `read_sensor`, `event_loop`, `app_cleanup` | order of destruction; lost events; stack data queued | accepted readings are handled; the loop stops; nothing is destroyed under its users |

### Kernel space

| Component | State | Operations | Hard behaviour | What makes it correct |
|---|---|---|---|---|
| Core driver, `bme680.c` | cached settings, registers of the chip, `data->lock` | probe, `read_raw`, `write_raw`, trigger handler, heater attribute | any bus access may fail half-way; the chip runs beside it | the chip has what user space was told; calls return |
| SPI bus, `bme680_spi.c` | remembered page | register read and write, page selection, probe | failed transfers leave page and memory apart | a plain register file |
| Alert path, `bme680.c`, `bme680_ipc.c` | kfifo, threshold timer | polling thread, timer handler, `core_remove` | full FIFO; timer not armed again; removal beside both | readings checked in order and alerts tried; nothing runs after the removal |
| I2C bus, `bme680_i2c.c` | a static mutex | probe, remove, suspend, resume | remove while polling goes on | the core driver is bound and unbound cleanly |
| IPC alerts, `bme680_ipc.c` | message queue, netlink socket, lock | send, init, cleanup | full queue, retries under the lock; cleanup waits under the lock | each alert sent once or given up; callbacks return |

### Interactions

- The timer's thread calls `read_sensor`: it reads the sensor, takes the FIFO
  semaphore, writes to the monitor, signals the event pair and posts.
- The event loop reads the monitor, waits on the event pair, hands the sample to
  the assembly line and enqueues a task in the thread pool, which publishes it.
- `main` starts the timer, then everything else, clears `running` after a minute,
  joins the loop and takes everything apart in the order of `app_cleanup`.
- The monitor uses a deadlock detector and a read-write lock inside its mutex.
- The assembly line uses the barrier and the dining philosophers; the thread
  pool uses the barrier and an event pair.
- The configuration uses the read-write lock, publish-subscribe an event pair.
- Everybody logs; a forked child inherits the logger's mutex.
- The core driver reaches the chip through a regmap bus (I2C or SPI) under
  `data->lock`; the polling thread and the timer share the kfifo under `fifo_sem`.

## 2. Modules and how they correspond to the code

Conventions used everywhere.

- A critical section under a pthread mutex is one step: nobody can see its
  inside.  Code outside a mutex that touches shared fields is one step per
  access (`RecursiveMutex`, `DiningPhilosophers`, `AssemblyLine`).
- `pthread_cond_(timed)wait` is split.  A thread is *asleep* (in the wait set,
  mutex released), then *woken* (signalled, or spuriously) or *timedout*, and in
  both cases has to get the mutex back before it goes on: newcomers run in
  between.
- Deadlines are computed with `CLOCK_MONOTONIC` while the condition variables use
  the realtime clock, so a deadline is usually in the past already.  A timeout may
  therefore happen at any moment of a wait.
- A return that changes nothing (`-EINVAL`, `-EAGAIN`, `-EPERM`) is a stuttering
  step.  It has an action of its own where its caller holds something at that
  moment or a property speaks of it: `Refuse` of `DeadlockDetector`,
  `WriteInvalid`, `WriteRefused` and `ReadRefused` of `Monitor`, which `App` turns
  into `MonitorRefused`, taken with the semaphore's permit, and into another turn
  of the event loop.
- Operators whose name extends a definition's name (`PostSignalsWhenEmpty` next to
  `Post`) are wrong variants of that definition.  They are used by no
  specification; putting one in place of the original must break a property.

| Module | Models | State and actions |
|---|---|---|
| `Pthread` | condition variables | `CondSignal` (any one sleeper, or nothing), `CondBroadcast`, counting of threads by label |
| `FifoSemaphore` | `fifo_semaphore.c` | `count`; `Wait`, `Resume`, `Timeout`, `GiveUp`, `SpuriousWakeup`, `Post` |
| `EventPair` | `event_pair.c` | `state`; `Signal`, `Wait`, `Resume`, `Timeout`, `GiveUp`, for the sides 1 and 2 |
| `RWLock` | `rwlock.c` | the four counters; `RdLock`, `RdResume`, `RdTimeout`, `RdGiveUp`, the same for writers, `UnlockReader`, `UnlockWriter` |
| `Barrier` | `barrier.c` | `count`; `Arrive`, `Leave`; `SpuriousWakeup` in `SpuriousSpec` only |
| `DiningPhilosophers` | `dining_philosophers.c` | `owner` of each fork; one action per mutex operation |
| `AssemblyLine` | `assembly_line.c`, extends the two above | the shared sample, where each stage is in its loop; `BarrierWait`, `Load`, `Store`, `Dine`, `Finish`, and `Process`, `GetResult` of the event loop |
| `RecursiveMutex` | `recursive_mutex.c` | the pthread mutex with its own nesting, `owner`, `count`; one action per access |
| `DeadlockDetector` | `deadlock_detector.c` | `locks`; `Lock`, `Refuse`, `Unlock`, the order test `Suspicious` |
| `Monitor` | `monitor.c`, instantiates `DeadlockDetector` | ring, waits of writers and readers, detector; every way out included, those at the start (`WriteInvalid`, `WriteRefused`, `ReadRefused`) too |
| `BoundedQueue` | what the monitor promises | a FIFO queue of `Size` values |
| `ThreadPool` | `thread_pool.c` | list `head..last`, `tp->mutex` as a bit, `shutdown`, the barrier's count; worker loop statement by statement |
| `LineDestroy` | `assembly_line_destroy`, extends `AssemblyLine` | stages cancelled and joined one by one, and whether one died with the barrier's mutex; `Cancel`, `Join`, `RunStage`, `EndStage` |
| `Config` | `bme680_config.c`, extends `RWLock` | the fields, what each caller has copied; `Call`, `Wait`, `GiveUp`, `Access` (one field), `Unlock` by whoever calls it |
| `IpcSync` | `ipc_sync.c` | generations of ids, semaphore, the two halves of the shared sample; `Create`, `Destroy`, `Call`, `Down`, `Fail`, `Copy`, `Post`; `Crash` in `PeersSpec` |
| `PubSub` | `pubsub.c` | the list, its mutex, how far each publication is; `Subscribe`, `Publish`, `Walk`, `Callback`, `Nested`, `Answer`, `Destroy` |
| `ForkHandler` | `fork_handler.c` | its mutex, the logger's mutex and the child's copy of it; workers, `Fork`, `ParentLogs`, `ChildExits`, `Reap`, destruction |
| `App` | `bme680_app.c` and `timer.c`, instantiates `Monitor`, `FifoSemaphore`, `EventPair` | the timer's thread, the event loop, `main`; `ReadSensor`, `MonitorRefused`, `MonitorWrite` .. `Post`, `MonitorRead` .. `Signal2`, `Stop`, `JoinLoop`, `Clean`, `TimerDestroy` |
| `Logger` | `logger.c` | level, file, mutex; the nested `logger_log` of `set_level` and `destroy` |
| `SpiBus` | `bme680_spi.c` | remembered page, the chip's page and registers; each transfer may fail |
| `RegisterFile` | what a regmap bus promises the core | registers addressed by page and address |
| `Bme680Core` | `bme680.c`: probe, readings, settings | cached settings, chip registers, one job at a time (`data->lock`), one step per bus access, each of which may fail |
| `DataFifo` | `bme680.c` polling thread, timer and removal, timer of `bme680_ipc.c`, probe and remove of `bme680_i2c.c` | the kfifo, the thread, the timer and its handler, the readings whose alert was sent and those whose alert failed (`NetlinkSend`), how far the removal is |
| `IpcAlerts` | `bme680_ipc.c`: alerts on a timer thread | the channel being tested, `ipc_data->lock`, the message queue; `Callback`, `Test`, `Lock`, the sending with its retries, `Cleanup...` in `CleanupSpec` |
| `MCSemaphores` (semaphore, event pair, `IpcSync`), `MCRWLock` (lock, `Config`), `MCMutexes` (recursive mutex, `Logger`, `PubSub`, `ForkHandler`), `MCKernel` (`Bme680Core`, `SpiBus`, `DataFifo`, `IpcAlerts`), `MCApp` (`App`, `ThreadPool`) | - | put components that share no state side by side for one TLC run: a variable `part`, chosen initially, says which of them moves |
| `PthreadTheorems`, `*Proofs` | - | lemmas and theorems, section 6 |

Points where the model decides something that the code leaves open:

- `ThreadPool`: the deadline branch of `worker_thread` goes on without the mutex.
  `FairSpec` leaves timeouts out (every task arrives within the five seconds that a
  worker means to wait), `TimedSpec` has them.  The passing run thus says that
  everything apart from that branch is right; `thread_pool_timeouts` says what
  the branch does.
- `Barrier`: `Spec` has no spurious wakeups, `SpuriousSpec` has them.
- `Logger`: the passing run keeps the level above `LOG_INFO`, at which the nested
  calls return at once; `logger_levels` lifts this.
- `SpiBus`: `FailedWritesLand` says whether a transfer that was reported as failed
  may have reached the chip.
- `Bme680Core`: the passing run uses heater durations that fit eight bits.
- `Config`: `IgnoredFailures` says whether the lock calls fail whose result nobody
  looks at.  The passing run has only the failures that are looked at (those of
  `set_oversampling`); `config_torn` has all of them.  The three fields and
  `rwlock_timedwrlock` are not declared anywhere; the model takes the evident
  meaning.
- `PubSub`, `ForkHandler`, `DeadlockDetector`: `pthread_mutex_timedlock` gets a
  deadline of the monotonic clock, long past on the realtime clock it is compared
  with: it succeeds at once or fails at once.  So a caller of the monitor may be
  refused with `-EDEADLK` whenever another thread is at a call of the detector, which
  is at the start and the end of every write and read.  In `PubSub` a callback may call back into `pubsub.c` once.
- `IpcSync`: `Spec` is the application's use (one process makes the ids, forked ones
  inherit them); `PeersSpec` has processes that each call `ipc_sync_init`, and die.
- `ForkHandler`: `CallsReturn` claims a return only for forks at a moment when no
  worker is logging; `ForkReturns` (section 7) lifts this.
- `App`: the sensor may be read at any time and may fail; a reading is its number.
  Data out of range, which `bme680_monitor_write` refuses, may come at any time.
  `handled` are the calls of `thread_pool_enqueue`, whose result (`-ENOMEM`) the loop
  ignores.  The timer's thread is cancelled wherever it sleeps, waits or logs.  `timer_init`
  stores its object in its own parameter; the model takes the caller's pointer as
  set.  `Spec` starts when `main` has created the event loop, `FullSpec` when it
  has started the timer.
- `IpcAlerts` leaves `bme680_ipc_cleanup` to `CleanupSpec`.  `msgsnd` and the timer
  thread are not available to kernel code; the model takes their user-space meaning.
- `DataFifo` takes `fifo_sem` as initialised and thread and timer as started; no
  code in the repository does so.  Likewise several `*_init(x)` functions allocate
  into their own parameter, some macros (`BME680_OSR_MASK`) and functions
  (`rwlock_timedwrlock`) are not defined anywhere; the models take the evident
  meaning.

## 3. Runs

| Run | Question | Result |
|---|---|---|
| `semaphores` | Do timeouts, spurious wakeups and barging lose a permit, an event or a wakeup, or leave a wait without an answer?  Is a sample in shared memory read whole, and its semaphore given back, while ids are removed under their users? | nothing is lost; samples are whole |
| `rwlock` | Do the four counters stay right when waits give up or are refused, is exclusion kept, is a writer stranded on a free lock, does every call return?  Is the configuration set and read as a whole? | they do; no writer is stranded; it is |
| `assembly_line` | Do barrier and forks, each right alone, work together: stages in step, no circular wait, every stage completes every round with unfair mutexes? | yes |
| `monitor` | Is the ring a bounded FIFO queue under all interleavings (refinement of `BoundedQueue`), does any way out leave a record in the detector, so that its order test refuses a later call? | it is; none does, and a refusal is always a contended `dd->mutex` |
| `mutexes` | Is the unprotected owner test of the recursive mutex sound?  Are log lines whole?  Does a publication reach each subscriber once while others subscribe, publish and destroy?  Do the calls of logger, publish-subscribe and fork handler return? | yes |
| `kernel` | Do failing bus accesses leave the chip with other settings than user space was told?  Does the paged bus reach the register that was meant?  Are queued readings checked in order and their alerts tried?  Is anything left running by a removal?  Is an alert sent twice by the retries, or a channel skipped? | settings agree, the bus is a register file, readings are checked and alerts tried, removal leaves nothing, alerts of `bme680_ipc.c` are sent once |
| `app` | Is an accepted reading handled although its event may be lost or overwritten?  Does the loop stop, is the semaphore's permit always home, also when the monitor refuses the reading, is anything destroyed under its users?  Without timeouts: is each task of the pool taken by one worker, is none lost, does shutdown reach every worker? | handled, at the latest after a timeout; yes; nothing; yes |
| `fifo_semaphore_order` | Is the FIFO semaphore first in, first out? | no |
| `thread_pool_timeouts` | Is a task taken once if waits time out? | no |
| `logger_levels` | Can the logger deadlock on itself? | yes, at `LOG_INFO` and below |
| `assembly_line_destroy` | Does `assembly_line_destroy` return? | no, if it cancels a stage in the barrier |
| `config_torn` | Does `get_oversampling` return one setting, also after a failed lock call? | no |

## 4. Bounds

- Threads: four for the semaphore, event pair and read-write lock.  The
  interesting cases need a waiter that is woken, one that still sleeps, a
  newcomer and a holder.  Limits of 2 on waiting readers and writers are reached.
- `assembly_line`: three stages (an odd ring, where two neighbours have the same
  parity nowhere but at the seam), two rounds so that rounds overlap, one sample.
- `monitor`: a ring of two cells with two values and two writers: wrap-around,
  full and empty happen, and order is visible.  One reader, as in the application.
- `semaphores`, shared memory: three processes, of which one makes the ids, two
  generations of ids so that one is removed under its users.
- `rwlock`, configuration: two settings and an invalid one, the three fields
  accessed one by one.
- `app`: four readings for a monitor of two cells, so that it is full, empty and
  wraps around; three workers and five tasks: more tasks than workers.
- `mutexes`: three threads, nesting up to 3; for publish-subscribe two subscribers
  of each of two topics; for the fork handler two workers.
- `kernel`: two polls instead of ten before `bme680_wait_for_eoc` gives up, two
  ratios next to the defaults and one duration next to the default, two addresses
  in two pages, a FIFO of two for three readings so that it overflows, a message
  queue of two, four channels and three tries as in the code.
- Counters that only grow in the code (rounds, tasks, readings, samples) are bounded
  by `MaxRounds`, `MaxTasks`, `MaxReadings`, `MaxSamples` in the guards.  Runs whose
  clients stop at such a bound, or whose system ends (`app`), say
  `CHECK_DEADLOCK FALSE` (`assembly_line`, `app` and the violations of the same
  modules); elsewhere deadlock is checked.

## 5. Fairness

- Weak fairness of a thread's own steps: the scheduler runs a runnable thread.
- Strong fairness of a timeout: the deadline is absolute and computed once before
  the loop, so a thread that is woken and goes back to sleep again and again does
  run into it.
- `Logger`, `ForkHandler`: strong fairness of a thread's steps, i.e. the mutex is not
  refused to the same thread for ever.
- `App`: the event loop runs and its deadlines fire, and its reads are not refused
  by the detector for ever: its tries are 100 ms apart, and the timer's thread has
  `dd->mutex` for a moment twice per reading.  Nothing is assumed of the timer
  and the sensor: `LoopStops` holds also if no reading ever comes again.
- `PubSub`: callbacks return.
- `LineDestroy`: every stage that can go on does, and so do cancel and join.
- `AssemblyLine` assumes only weak fairness, nothing about the order in which a
  mutex is handed over.  That every stage eats is due to the barrier.
- `Bme680Core`: a job inside the driver goes on, and the chip ends a measurement.
  `DataFifo`: the armed timer fires, the polling thread runs, and `del_timer_sync`,
  which loops until it finds the handler off, does so at some time.  `IpcAlerts`: a
  callback that can go on does; nobody has to empty the message queue.
- No caller is assumed to post, signal, unlock, write or enqueue, except that the
  stages of the assembly line loop, as `stage_thread` does.

## 6. Proofs

Every invariant of a passing run, and both refinements, are theorems.  They hold
for every finite set of threads and every value of the constants that the named
assumptions and hypotheses allow; `tlapm` checks them to the last leaf.

| Module | Theorems | Inductive invariant and argument |
|---|---|---|
| `PthreadTheorems` | `NumType`, `NumZero`, `MoveNum`, `SignalNum`, `BroadcastNum` | what a move of one thread, a signal and a broadcast do to the number of threads at a label; rests on the cardinality theorems of the library |
| `SemaphoresProofs`, semaphore | `TypeCorrect`, `PermitsAreConserved`, `WakeupsAreNotLost` | the conjunction of the three.  `NoLostWakeup` needs counting: a post raises `count` and the woken threads by one each, and a barging newcomer lowers only `count` |
| event pair | `EventsAlwaysWake` | inductive with the types: a signal of the own side wakes a sleeper, one of the other side ends the premise |
| `IpcSync` | `ReadsAlwaysWhole`, `SemaphoreAlwaysHome` | said of each generation of ids, since a removed one keeps its users: `OneCopier` per id, `Home` (0 iff the copier exists), `MemWhole` (halves differ only under a writer between them), `GotWhole`, `HalfDone` |
| `RWLockProofs`, lock | `TypeCorrect`, `CountersAlwaysAgree`, `MutualExclusion`, `WritersAreNotStranded` | the conjunction of the four.  Exclusion is decided on counters, so it needs `CountersAgree`; unlock chooses its branch by `active_writers`, so `CountersAgree` needs `Exclusion` |
| configuration | `ConfigAlwaysWhole` | the lock's invariant, `CallFits` (where a thread can be in `rwlock.c` follows from its operation), `FieldsFit` (fields before the next one are new, the others alike), `CopiesFit` |
| `AssemblyLineProofs`, barrier | `BarrierTypeCorrect`, `CountAlwaysAgrees`, `BarrierHolds` | type, `CountAgrees`, and `InPhase`: for some round r the sleeping threads have arrived r + 1 times and all others r times.  The last arrival is last because `Total` is the number of threads |
| forks | `DiningTypeCorrect`, `ForksAlwaysAgree`, `NeighboursAreExclusive`, `DeadlockFree` | type and `ForksAgree`.  In a set that waits only for itself everybody has a fork; neighbours of different parity want the same fork first or hold the same one, and the ring has such a pair even if N is odd |
| line | `LineIsBarrier`, `LineIsTable`, `LineKeepsBoth`, `StagesInStep` | each step of a stage is a step of one component or of none, so the line implements both and inherits what is proved of them; `MealsFit` ties a stage's meals to its arrivals by where it is in its loop |
| `MutexesProofs`, recursive mutex | `TypeCorrect`, `MutualExclusion`, `CountAlwaysDepth`, `OwnerAlwaysHolder` | per thread: having the mutex and being named by `owner` are determined by the program point, so a thread's own owner test cannot be changed by others |
| logger | `LinesAlwaysWhole` | who is inside has the mutex, and lines are written from inside; at every level, also where calls block |
| publish-subscribe | `DeliveredExactlyOnce` | `Progress` of each publication: it has called the subscribers of its topic in the part of the list that it has passed, and what is left is the rest of the list, which nobody changes under its mutex |
| `MonitorProofs` | `TypeCorrect`, `WakeupsAreNotLost`, `DetectorAlwaysAgrees`, `MonitorIsQueue` | `RingFits` (`tail` is `count` cells after `head`), `ArgFits`, `NoLostWakeup` (by the lemmas on counting), `TableFits` (lock 0 is recorded for writers inside only, lock 1 for readers, and the order test needs a caller that is recorded for 1 while another is for 0).  Refused calls change nothing.  Refinement: a store appends to `Contents`, a fetch takes its head, all other steps stutter |
| `KernelProofs`, polling | `ReadingsInOrder`, `QuietAfterRemoval` | a new reading is the largest, the next one checked the smallest; `removal` past the timer means that timer and handler are off |
| alerts | `AlertsSentOnce` | `Settled`: for every channel already tested one alert or one failure, for the others neither |
| bus | `BusIsRegisterFile` | `PageAgrees`: the remembered page is the chip's, or undefined |
| core | `ConfigStaysOnChip` | `ConfigInv`: for every step of a job, which settings are already on the chip and which are claimed to be |
| `AppProofs`, application | `PermitAlwaysHome`, `CleanupUsesLive` | where the permit is follows from where the timer's thread is, on each of the four ways out of the monitor (stored, timed out, out of range, refused by the detector); `app_cleanup` is past its call of `timer_destroy` only if that thread is gone, and starts only when the loop is done |
| thread pool | `TasksAlwaysAccounted`, `WakeupsAreNotLost` | one worker holds the mutex and what it has read of `tp->head` is current (`MutexFits`), nobody sleeps after the shutdown (`ShutdownFits`), tasks in the list are matched by workers on the way (`Awaited`) |

Assumptions on constants, all evaluated by TLC in the runs: finite sets of threads
and natural numbers for the limits (`SemaphoreAssumption`, `RWLockAssumption`,
`MonitorAssumption`, `PoolAssumption`, `BarrierAssumption`, `LineAssumption`,
`DiningAssumption`, `CoreAssumption`, `IpcAssumption`); the total of the barrier is
the number of its threads, as `assembly_line_init` makes it; the names for "nobody"
are not threads (`RecursiveMutexAssumption`, `MonitorAssumption`,
`PubSubAssumption`).

Hypotheses that some theorems state because the property is false without them.
For each the run or configuration that shows so is named:

| Theorem | Hypothesis | Without it |
|---|---|---|
| the forks' theorems, `LineKeepsBoth` | N > 1 | `NoCircularWait` with N = 1 (section 7) |
| `BarrierHolds`, `StagesInStep` | `Spec`: no spurious wakeups | `BarrierSpurious.cfg` |
| `ConfigAlwaysWhole` | `~IgnoredFailures` | run `config_torn` |
| `BusIsRegisterFile` | `~FailedWritesLand` | section 7 |
| `ConfigStaysOnChip` | durations of at most 255 ms | `Bme680Core.cfg` |
| `TasksAlwaysAccounted`, `WakeupsAreNotLost` of `AppProofs` | `FairSpec`: no worker times out | run `thread_pool_timeouts` |
| `ReadsAlwaysWhole`, `SemaphoreAlwaysHome` | `Spec`: one process makes the ids, nobody dies | `IpcSyncPeers.cfg` |

The theorems are about the components' own specifications; the MC modules only put
components side by side.  For the assembly line, a real composition, `LineIsBarrier`
and `LineIsTable` carry the theorems over.

Only model-checked: everything that is live (`WaitsAnswered`, `LocksAnswered`,
`Answered`, `EveryStageEats`, `CallsReturn`, `JobsReturn`, `QueuedTried`,
`ReadingsHandled`, `LoopStops`, `ShutdownReachesAll`), because liveness under
fairness is outside what the prover handles, and the violations of section 7, which
are counterexamples.

## 7. Where code and documentation disagree

Recorded as findings, each with its run: the semaphore is not FIFO
(`fifo_semaphore_order`), a timed-out worker goes on without the mutex
(`thread_pool_timeouts`), the logger locks itself out (`logger_levels`), a stage
cancelled in the barrier takes the barrier's mutex with it
(`assembly_line_destroy`), and a getter that did not get its lock reads anyway
(`config_torn`).

Further disagreements met while modelling.  Each has a property that states what
the documentation or a header says and a configuration with which TLC finds it
violated:

| Configuration | Module | Property | What happens |
|---|---|---|---|
| `RWLockReaders.cfg` | `RWLock` | `ReadersNotStranded` | a writer that gives up wakes nobody (`rwlock.c:99`); the readers that waited because of it sleep on although the lock is free |
| `DetectorOwnership.cfg` | `DeadlockDetector` | `OwnershipTracked` | a lock id that one thread has is granted to another and its record overwritten (`deadlock_detector.c:71`) |
| `AlertsLost.cfg` | `DataFifo` | `QueuedAlerted` | the reading is out of the FIFO and the result of `bme680_netlink_send` is ignored: after one failed send the alert is lost (`bme680.c:258`) |
| `BarrierSpurious.cfg` | `Barrier` | `NoEarlyRelease` | `barrier_wait` waits under an `if`: a spurious wakeup lets a thread through early (`barrier.c:51`) |
| `AssemblyLineRaces.cfg` | `AssemblyLine` | `NoLostUpdate` | stages add to the sample without a lock (`assembly_line.c:40`) |
| | | `ResultProcessed` | the result is fetched before the stages have worked (`assembly_line.c:111`) |
| `Bme680Core.cfg` | `Bme680Core` | `ConfigOnChip` | a heater duration above 255 ms is cut to eight bits (`bme680.c:616`) |
| | | `TempOversamplingOnChip` | pressure and temperature are written through one mask (`bme680.c:648`) |
| | | `RatioHonoured` | `ilog2` of the ratio is one below the chip's code (`bme680.c:745`) |
| | | `FreshReading` | the wait for the end of conversion ends while there is no new data (`bme680.c:571`) |
| `App.cfg` | `App` | `DeviceReady` | the timer runs before `app.dev` is set (`bme680_app.c:252`, `:266`) |
| | | `TimerOutlivesJoin` | the cancelled thread frees `timer` before `timer_destroy` reads `timer->thread` (`timer.c:64`) |
| | | `TaskSeesItsReading` | a task is given the address of a variable that the loop overwrites (`bme680_app.c:201`) |
| `IpcSyncPeers.cfg` | `IpcSync` | `ReadsWhole` | `ipc_sync_init` of a second process sets the semaphore to 1 while a first one copies (`ipc_sync.c:60`) |
| | | `SemaphoreHome` | a process that dies while it copies never gives the semaphore back, which is used without `SEM_UNDO` (`ipc_sync.c:19`) |
| `IpcAlertsCleanup.cfg` | `IpcAlerts` | `CleanupReturns` | `bme680_ipc_cleanup` joins the timer's thread under the lock that the thread's callback waits for (`bme680_ipc.c:186`) |

Where a configuration lists several properties, TLC stops at the first one that
fails; leave the others out, or add `-continue` for invariants.  Eight more need
no configuration of their own, only another property, specification or constant:
`EventsKept` of `EventPair` under `FairSpec` (a signal of one side overwrites the
pending event of the other, `event_pair.c:42`); `TasksRun` of `ThreadPool` under
`TimedSpec` with two workers and two tasks (the barrier is made for one thread more
than there are workers, `thread_pool.c:93`: no task is executed); `ForkReturns` of
`ForkHandler` (the child of a fork during which a worker logs waits for a copy of a
mutex that nobody unlocks, `fork_handler.c:92`); `NoCircularWait` of
`DiningPhilosophers` with N = 1 (one philosopher locks the same mutex twice,
`dining_philosophers.c:90`); `RegisterFileSpec` of `SpiBus` with `FailedWritesLand =
TRUE` (a page write that took effect although it failed leaves the remembered page
stale, `bme680_spi.c:54`); `QueuedTried` of `DataFifo` under `IpcSpec` with deadlock
not checked (the timer of `bme680_ipc.c` is not armed again after an empty FIFO,
`bme680_ipc.c:69`); `HighAlerted` of `DataFifo` with more readings than the FIFO
holds (`bme680.c:235`); `NothingDropped` of `PubSub`
with two threads (a publication that finds the mutex locked is dropped,
`pubsub.c:89`).

Read but not stated as properties, since they are visible in one line: `timer_init`
and `fork_handler_init` never set the caller's pointer; the `goto cleanup` of `main`
joins a thread that was not created; `signal_handler` is never installed;
`nlmsg_multicast` consumes the buffer that is freed again on its error
(`bme680_ipc.c:98`); `ipc_sync.c` gives `semtimedop` an absolute time as a relative
one; `bme680_netlink_send` allocates with `GFP_KERNEL` and `down` may sleep, both
in a timer's handler (`bme680.c:254`); `bme680_i2c_lock` of `bme680.c:161` is not the static one of `bme680_i2c.c`; the
setters of one setting and `set_oversampling` use different locks.

## 8. Not modelled

- The compensation formulas: 64-bit arithmetic on calibration data with no
  reference in the repository to compare with, beyond TLC's 32-bit integers.
- The ioctl and sysfs copies, the IIO buffer, device tree, build files: no state
  beyond what is modelled, or declarative.
- Suspend and resume: they lock and unlock and change nothing.
- The register functions of `bme680_i2c.c`: one smbus call each, and not wired to
  the regmap.
- `1.c`: an older copy of the core driver that the Makefile does not build.
- `test_assembly_line` and the first `event_loop` of `bme680_app.c`: the former calls
  operations that are modelled, the latter is a stale duplicate.
- The allocation and freeing around the primitives, and `_destroy` functions that
  only free.

## 9. Plan

1. Done: all components of section 1 with the exceptions of section 8; theorems
   for every invariant of a passing run and for both refinements.
2. Next: theorems about what no run lists yet - the fork handler's and the timer's
   mutexes, the order in which `assembly_line_destroy` joins, `IpcAlerts` with
   its cleanup - and action properties (a reading is never checked twice, a freed
   list is never walked, a retired id never comes back).
