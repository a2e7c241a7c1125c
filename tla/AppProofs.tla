------------------------------ MODULE AppProofs ------------------------------
(***************************************************************************)
(* The safety of bme680_app.c with timer.c, and of thread_pool.c for any   *)
(* number of workers and tasks.                                            *)
(*                                                                         *)
(* Application.  The timer's thread has the permit exactly between its     *)
(* wait and its post, and app_cleanup passes timer_destroy only when that  *)
(* thread is gone.                                                         *)
(*                                                                         *)
(* Pool.  One worker at a time is between pthread_mutex_lock and unlock,   *)
(* and what it has read of tp->head is still tp->head; nobody sleeps once  *)
(* the pool is shut down.  The waits of the pool do not time out here,     *)
(* which is what FairSpec of ThreadPool says.                              *)
(***************************************************************************)
EXTENDS MCApp, Sequences, PthreadTheorems

\* The permit is in the semaphore, or with the timer's thread inside
\* read_sensor.
PermitFits ==
    /\ sem \in Int /\ spc \in [{"timer"} -> A!Sem!Labels]
    /\ timer = "sleep" => sem = 1 /\ spc["timer"] = "idle"
    /\ timer \in {"permit", "write", "written", "signal", "post"} =>
          sem = 0 /\ spc["timer"] = "holding"
    /\ timer \in {"sleep", "permit", "write", "written", "signal", "post", "gone"}

\* app_cleanup starts when the event loop has ended, and goes past timer_destroy,
\* its ninth call, when the timer's thread has.
CleanupFits ==
    /\ cleaned \in 0..16
    /\ cleaned > 8 => timer = "gone"
    /\ (cleaned # 0 \/ phase \in {"cleanup", "join timer"}) => loop = "done"

AppInv == PermitFits /\ CleanupFits

\* What read_sensor does with the semaphore.
LEMMA PermitKeeps ==
    ASSUME PermitFits, [A!Next]_(A!vars)
    PROVE  PermitFits'
<1>0. A!T = "timer" BY DEF A!T
<1>1. CASE A!ReadSensor
  <2>1. timer = "sleep" /\ timer' = "permit" /\ A!Sem!Wait("timer")
    BY <1>0, <1>1 DEF A!ReadSensor, A!Timer
  <2>2. sem' = 0 /\ spc' = [spc EXCEPT !["timer"] = "holding"]
    BY <2>1 DEF PermitFits, A!Sem!Wait, A!Sem!WaitLoop, A!Sem!MustWait
  <2> QED BY <2>1, <2>2 DEF PermitFits, A!Sem!Labels
<1>2. CASE A!Post
  <2>1. timer = "post" /\ timer' = "sleep" /\ A!Sem!Post("timer")
    BY <1>0, <1>2 DEF A!Post, A!Timer
  <2>2. sem' = 1 /\ spc' \in A!Sem!CondSignal([spc EXCEPT !["timer"] = "idle"], "asleep", "woken")
    BY <2>1 DEF PermitFits, A!Sem!Post
  <2>3. spc' = [spc EXCEPT !["timer"] = "idle"]
    BY <2>2 DEF PermitFits, A!Sem!CondSignal, A!Sem!ThreadsAt
  <2> QED BY <2>1, <2>2, <2>3 DEF PermitFits, A!Sem!Labels
<1>3. CASE UNCHANGED <<sem, spc>> /\ (UNCHANGED timer \/ timer' = "gone")
  BY <1>3 DEF PermitFits
<1>4. CASE A!MonitorRefused \/ A!MonitorWrite \/ A!MonitorWrote \/ A!Signal1
  <2>1. /\ UNCHANGED <<sem, spc>>
        /\ timer \in {"permit", "write", "written", "signal"}
        /\ timer' \in {"write", "written", "signal", "post"}
    BY <1>4 DEF A!MonitorRefused, A!MonitorWrite, A!MonitorWrote, A!Signal1, A!Timer, A!semVars
  <2> QED BY <2>1 DEF PermitFits
<1>5. CASE A!TimerEnds BY <1>3, <1>5 DEF A!TimerEnds, A!semVars
<1>6. CASE A!EventLoop
  BY <1>3, <1>6 DEF A!EventLoop, A!MonitorRead, A!Wait1, A!Process, A!Signal2, A!LoopEnds,
                    A!timerVars, A!semVars
<1>7. CASE A!LoopTimeout \/ A!SpuriousWakeup
  BY <1>3, <1>7 DEF A!LoopTimeout, A!SpuriousWakeup, A!timerVars, A!semVars
<1>8. CASE A!Main
  BY <1>3, <1>8 DEF A!Main, A!Stop, A!JoinLoop, A!Clean, A!TimerDestroy, A!timerVars, A!semVars
<1>9. CASE UNCHANGED A!vars BY <1>3, <1>9 DEF A!vars, A!timerVars, A!semVars
<1> QED
  BY <1>1, <1>2, <1>4, <1>5, <1>6, <1>7, <1>8, <1>9 DEF A!Next, A!TimerThread

\* The calls of app_cleanup by their number.
LEMMA CleanupNumbers ==
    /\ A!CleanupOrder[9] = "timer" /\ Len(A!CleanupOrder) = 16
    /\ \A i \in 1..16 :
          /\ A!CleanupOrder[i] \in {"dev", "semaphore", "monitor", "event_pair"} => i > 9
          /\ A!CleanupOrder[i] \in {"pubsub", "logger"} => i > 13
    /\ A!CleanupOrder[13] = "thread_pool"
BY DEF A!CleanupOrder

\* What ends when, and what app_cleanup waits for.
LEMMA CleanupKeeps ==
    ASSUME CleanupFits, PermitFits, [A!Next]_(A!vars)
    PROVE  CleanupFits'
<1>0. ASSUME UNCHANGED <<cleaned, phase>>, timer = "gone" => timer' = "gone",
             loop = "done" => loop' = "done"
      PROVE  CleanupFits'
  BY <1>0 DEF CleanupFits
<1>1. CASE A!TimerThread
  BY <1>0, <1>1 DEF A!TimerThread, A!ReadSensor, A!MonitorRefused, A!MonitorWrite,
                    A!MonitorWrote, A!Signal1, A!Post, A!TimerEnds,
                    A!Timer, A!loopVars, A!mainVars
<1>2. CASE A!EventLoop
  BY <1>0, <1>2 DEF A!EventLoop, A!MonitorRead, A!Wait1, A!Process, A!Signal2, A!LoopEnds,
                    A!Loop, A!timerVars, A!mainVars
<1>3. CASE A!LoopTimeout \/ A!SpuriousWakeup
  BY <1>0, <1>3 DEF A!LoopTimeout, A!SpuriousWakeup, A!timerVars, A!loopVars, A!mainVars
<1>4. CASE A!Stop \/ A!JoinLoop
  BY <1>4 DEF CleanupFits, A!Stop, A!JoinLoop, A!timerVars, A!loopVars
<1>5. CASE A!Clean
  <2>1. /\ phase = "cleanup" /\ cleaned < 16 /\ cleaned' = cleaned + 1
        /\ UNCHANGED <<phase, timer, loop>>
    BY <1>5, CleanupNumbers DEF A!Clean, A!timerVars, A!loopVars
  <2>2. cleaned # 8
    <3>1. ~A!Destroying("timer") BY <1>5 DEF A!Clean
    <3>2. ASSUME cleaned = 8 PROVE cleaned + 1 = 9 BY <3>2
    <3> QED BY <2>1, <3>1, <3>2, CleanupNumbers DEF A!Destroying
  <2> QED BY <2>1, <2>2 DEF CleanupFits
<1>6. CASE A!TimerDestroy
  <2>1. /\ phase \in {"cleanup", "join timer"} /\ phase' \in {"cleanup", "join timer"}
        /\ UNCHANGED <<timer, loop>> /\ cleaned < 16
        /\ cleaned' = cleaned \/ (timer = "gone" /\ cleaned' = cleaned + 1)
    BY <1>6, CleanupNumbers DEF A!TimerDestroy, A!Destroying, A!loopVars
  <2>2. loop = "done" /\ cleaned \in 0..16 /\ (timer = "gone" \/ ~(cleaned > 8))
    BY <2>1 DEF CleanupFits
  <2>3. cleaned' \in 0..16 /\ (timer = "gone" \/ ~(cleaned' > 8))
    <3>1. CASE cleaned' = cleaned BY <2>2, <3>1
    <3>2. CASE timer = "gone" /\ cleaned' = cleaned + 1
      <4>1. cleaned \in 0..16 /\ cleaned < 16 BY <2>1, <2>2
      <4>2. cleaned + 1 \in 0..16 BY <4>1
      <4> QED BY <3>2, <4>2
    <3> QED BY <2>1, <3>1, <3>2
  <2> QED BY <2>1, <2>2, <2>3 DEF CleanupFits
<1>7. CASE UNCHANGED A!vars
  BY <1>0, <1>7 DEF A!vars, A!timerVars, A!loopVars, A!mainVars
<1> QED
  BY <1>1, <1>2, <1>3, <1>4, <1>5, <1>6, <1>7 DEF A!Next, A!TimerThread, A!Main

\* main has created the event loop.
LEMMA AppInitInv == A!Init => AppInv
BY DEF A!Init, A!Start, A!Sem!Init, A!Sem!Labels, A!T, AppInv, PermitFits, CleanupFits

\* The inductive invariant holds in every reachable state.
LEMMA AppInvariance == A!Spec => []AppInv
<1>1. AppInv /\ [A!Next]_(A!vars) => AppInv' BY PermitKeeps, CleanupKeeps DEF AppInv
<1> QED BY <1>1, AppInitInv, PTL DEF A!Spec

\* What the order of app_cleanup destroys is used by nobody any more.
LEMMA CleanupIsSafe == AppInv => UsesLive
<1> SUFFICES ASSUME AppInv PROVE A!UsesLive
  BY DEF UsesLive
<1>0. cleaned \in 0..16 BY DEF AppInv, CleanupFits
<1>1. A!Destroyed = {A!CleanupOrder[i] : i \in 1..cleaned} BY DEF A!Destroyed
<1>2. timer # "gone" => A!Destroyed \cap {"dev", "semaphore", "monitor", "event_pair"} = {}
  <2> SUFFICES ASSUME timer # "gone", NEW i \in 1..cleaned,
                      A!CleanupOrder[i] \in {"dev", "semaphore", "monitor", "event_pair"}
               PROVE  FALSE
    BY <1>1
  <2>1. i \in 1..16 BY <1>0
  <2>2. i > 9 BY <2>1, CleanupNumbers
  <2>3. ~(cleaned > 8) BY DEF AppInv, CleanupFits
  <2> QED BY <1>0, <2>2, <2>3
<1>3. loop # "done" => A!Destroyed = {}
  <2> SUFFICES ASSUME loop # "done" PROVE A!Destroyed = {}
    OBVIOUS
  <2>1. cleaned = 0 BY <1>0 DEF AppInv, CleanupFits
  <2>2. 1..cleaned = {} BY <2>1
  <2> QED BY <1>1, <2>2
<1>4. A!Destroyed \cap {"pubsub", "logger"} # {} => "thread_pool" \in A!Destroyed
  <2> SUFFICES ASSUME NEW i \in 1..cleaned, A!CleanupOrder[i] \in {"pubsub", "logger"}
               PROVE  "thread_pool" \in A!Destroyed
    BY <1>1
  <2>1. i \in 1..16 BY <1>0
  <2>2. 13 \in 1..cleaned BY <1>0, <2>1, CleanupNumbers
  <2> QED BY <1>1, <2>2, CleanupNumbers
<1> QED BY <1>2, <1>3, <1>4 DEF A!UsesLive

\* read_sensor gives its permit back on every path.
THEOREM PermitAlwaysHome == A!Spec => []PermitHome
<1>1. AppInv => PermitHome BY DEF AppInv, PermitFits, PermitHome, A!PermitHome
<1> QED BY <1>1, AppInvariance, PTL

\* app_cleanup destroys nothing under a thread that still uses it.
THEOREM CleanupUsesLive == A!Spec => []UsesLive
BY AppInvariance, CleanupIsSafe, PTL
-----------------------------------------------------------------------------
(***************************************************************************)
(* thread_pool.c                                                           *)
(***************************************************************************)
PoolLabels ==
    {"top", "lock", "loop", "asleep", "woken", "take", "arrive", "barrier", "run", "done"}

PoolTypes ==
    /\ head \in Nat \ {0} /\ last \in Nat /\ head <= last + 1
    /\ task \in [Workers -> Nat] /\ pc \in [Workers -> PoolLabels]
    /\ ran = {}

\* Inside the mutex there is one worker, and what it has read of tp->head holds.
MutexFits ==
    /\ \A w \in Workers : pc[w] \in {"loop", "take"} => locked
    /\ \A w, u \in Workers :
          pc[w] \in {"loop", "take"} /\ pc[u] \in {"loop", "take"} => w = u
    /\ \A w \in Workers : pc[w] = "take" => task[w] = head /\ head <= last

\* Nobody sleeps after the shutdown, and what was freed was freed at the end.
ShutdownFits ==
    /\ shutdown => \A w \in Workers : pc[w] # "asleep"
    /\ freed # {} => Empty /\ shutdown /\ \A w \in Workers : pc[w] = "done"

\* The workers on their way to the list.
OnWay == {w \in Workers : pc[w] \in {"woken", "loop", "take"}}

Awaited == (\E w \in Workers : pc[w] = "asleep") => last + 1 - head <= Cardinality(OnWay)

PoolInv == PoolTypes /\ MutexFits /\ ShutdownFits /\ TasksAccounted /\ Awaited

\* How many are on their way when one joins or leaves them.
LEMMA OnWayCount ==
    /\ IsFiniteSet(OnWay) /\ Cardinality(OnWay) \in Nat
    /\ \A w \in Workers : Cardinality(OnWay \cup {w}) = IF w \in OnWay THEN Cardinality(OnWay)
                                                       ELSE Cardinality(OnWay) + 1
    /\ \A w \in OnWay : Cardinality(OnWay \ {w}) = Cardinality(OnWay) - 1
<1>1. IsFiniteSet(OnWay) BY PoolAssumption, FS_Subset DEF OnWay
<1>2. Cardinality(OnWay) \in Nat BY <1>1, FS_CardinalityType
<1>3. \A w : Cardinality(OnWay \cup {w}) = IF w \in OnWay THEN Cardinality(OnWay)
                                           ELSE Cardinality(OnWay) + 1
  BY <1>1, FS_AddElement
<1>4. \A w \in OnWay : Cardinality(OnWay \ {w}) = Cardinality(OnWay) - 1
  BY <1>1, FS_RemoveElement
<1> QED BY <1>1, <1>2, <1>3, <1>4

\* A step that changes neither the list nor an owner accounts for the tasks as
\* before.
LEMMA SameAccounts ==
    ASSUME TasksAccounted, UNCHANGED <<head, ran, freed>>,
           Owners' = Owners, \A w \in Owners : task'[w] = task[w]
    PROVE  TasksAccounted'
<1>1. {task'[w] : w \in Owners'} = {task[w] : w \in Owners} OBVIOUS
<1>2. TakenOnce' BY DEF TasksAccounted, TakenOnce
<1> QED BY <1>1, <1>2 DEF TasksAccounted

\* thread_pool_enqueue wakes a worker for its task.
LEMMA EnqueueKeeps ==
    ASSUME PoolInv, Enqueue
    PROVE  PoolInv'
<1>1. /\ ~locked /\ ~shutdown /\ last' = last + 1
      /\ pc' \in CondSignal(pc, "asleep", "woken")
      /\ UNCHANGED <<head, locked, shutdown, task, ran, freed>>
  BY DEF Enqueue
<1>2. PoolTypes /\ MutexFits /\ ShutdownFits /\ TasksAccounted /\ Awaited BY DEF PoolInv
<1>3. \/ pc' = pc /\ \A u \in Workers : pc[u] # "asleep"
      \/ \E u \in Workers : pc[u] = "asleep" /\ pc' = [pc EXCEPT ![u] = "woken"]
  BY <1>1, <1>2 DEF CondSignal, ThreadsAt, PoolTypes
<1>4. freed = {} BY <1>1, <1>2 DEF ShutdownFits
<1>5. CASE pc' = pc /\ \A u \in Workers : pc[u] # "asleep"
  <2>1. PoolTypes' BY <1>1, <1>2, <1>5 DEF PoolTypes
  <2>2. MutexFits' BY <1>1, <1>2, <1>5 DEF MutexFits, PoolTypes
  <2>3. ShutdownFits' BY <1>1, <1>4 DEF ShutdownFits
  <2>4. Owners' = Owners BY <1>5 DEF Owners
  <2>5. TasksAccounted' BY <1>1, <1>2, <2>4, SameAccounts
  <2>6. Awaited' BY <1>5 DEF Awaited
  <2> QED BY <2>1, <2>2, <2>3, <2>5, <2>6 DEF PoolInv
<1>6. CASE \E u \in Workers : pc[u] = "asleep" /\ pc' = [pc EXCEPT ![u] = "woken"]
  <2>0. PICK u \in Workers : pc[u] = "asleep" /\ pc' = [pc EXCEPT ![u] = "woken"] BY <1>6
  <2>1. PoolTypes' BY <1>1, <1>2, <2>0 DEF PoolTypes, PoolLabels
  <2>2. pc'[u] = "woken" /\ \A v \in Workers : v # u => pc'[v] = pc[v]
    BY <1>2, <2>0 DEF PoolTypes
  <2>3. MutexFits' BY <1>1, <1>2, <2>2 DEF MutexFits, PoolTypes
  <2>4. ShutdownFits' BY <1>1, <1>4 DEF ShutdownFits
  <2>5. Owners' = Owners BY <2>0, <2>2 DEF Owners
  <2>6. TasksAccounted' BY <1>1, <1>2, <2>5, SameAccounts
  <2>7. OnWay' = OnWay \cup {u} /\ u \notin OnWay BY <2>0, <2>2 DEF OnWay
  <2>8. Cardinality(OnWay') = Cardinality(OnWay) + 1 /\ Cardinality(OnWay) \in Nat
    BY <2>7, OnWayCount
  <2>9. last + 1 - head <= Cardinality(OnWay) BY <1>2, <2>0 DEF Awaited
  <2>10. (last + 1) + 1 - head <= Cardinality(OnWay) + 1 BY <1>2, <2>8, <2>9 DEF PoolTypes
  <2>11. Awaited' BY <1>1, <2>8, <2>10 DEF Awaited
  <2> QED BY <2>1, <2>3, <2>4, <2>6, <2>11 DEF PoolInv
<1> QED BY <1>3, <1>5, <1>6

\* The broadcast of thread_pool_destroy leaves nobody asleep.
LEMMA DestroyKeeps ==
    ASSUME PoolInv, Destroy
    PROVE  PoolInv'
<1>1. /\ ~locked /\ ~shutdown /\ shutdown'
      /\ pc' = CondBroadcast(pc, "asleep", "woken")
      /\ UNCHANGED <<head, last, locked, task, ran, freed>>
  BY DEF Destroy, list
<1>2. PoolTypes /\ MutexFits /\ ShutdownFits /\ TasksAccounted /\ Awaited BY DEF PoolInv
<1>3. /\ pc' \in [Workers -> PoolLabels]
      /\ \A u \in Workers : pc'[u] = IF pc[u] = "asleep" THEN "woken" ELSE pc[u]
  BY <1>1, <1>2 DEF CondBroadcast, PoolTypes, PoolLabels
<1>4. PoolTypes' BY <1>1, <1>2, <1>3 DEF PoolTypes
<1>5. MutexFits' BY <1>1, <1>2, <1>3 DEF MutexFits
<1>6. ShutdownFits' BY <1>1, <1>2, <1>3 DEF ShutdownFits
<1>7. Owners' = Owners BY <1>3 DEF Owners
<1>8. TasksAccounted' BY <1>1, <1>2, <1>7, SameAccounts
<1>9. Awaited' BY <1>3 DEF Awaited
<1> QED BY <1>4, <1>5, <1>6, <1>8, <1>9 DEF PoolInv

\* The rest of thread_pool_destroy: nobody has a task any more.
LEMMA FreeKeeps ==
    ASSUME PoolInv, Free
    PROVE  PoolInv'
<1>1. /\ shutdown /\ ~Empty /\ \A w \in Workers : pc[w] = "done"
      /\ freed' = head..last /\ head' = last + 1
      /\ UNCHANGED <<last, locked, shutdown, task, ran, pc>>
  BY DEF Free
<1>2. PoolTypes /\ MutexFits /\ ShutdownFits /\ TasksAccounted /\ Awaited BY DEF PoolInv
<1>3. freed = {} /\ Owners = {} /\ ran = {}
  BY <1>1, <1>2 DEF ShutdownFits, Owners, PoolTypes
<1>4. 1..(head - 1) = {} BY <1>2, <1>3 DEF TasksAccounted
<1>5. head = 1
  <2>1. head # 1 => 1 \in 1..(head - 1) BY <1>2 DEF PoolTypes
  <2> QED BY <1>4, <2>1
<1>6. PoolTypes' BY <1>1, <1>2 DEF PoolTypes
<1>7. MutexFits' BY <1>1 DEF MutexFits
<1>8. ShutdownFits'
  <2>1. Empty' BY <1>1, <1>2 DEF Empty, PoolTypes
  <2> QED BY <1>1, <2>1 DEF ShutdownFits
<1>9. Owners' = {} BY <1>1 DEF Owners
<1>10. 1..(head' - 1) = freed' BY <1>1, <1>2, <1>5 DEF PoolTypes
<1>11. TasksAccounted' BY <1>1, <1>3, <1>9, <1>10 DEF TasksAccounted, TakenOnce
<1>12. Awaited' BY <1>1 DEF Awaited
<1> QED BY <1>6, <1>7, <1>8, <1>11, <1>12 DEF PoolInv

\* A worker moves between labels that say nothing about mutex, list and tasks.
LEMMA StartKeeps ==
    ASSUME PoolInv, NEW w \in Workers, Start(w)
    PROVE  PoolInv'
<1>1. /\ pc[w] = "top"
      /\ pc' = [pc EXCEPT ![w] = "done"] \/ pc' = [pc EXCEPT ![w] = "lock"]
      /\ UNCHANGED <<head, last, locked, shutdown, task, ran, freed>>
  BY DEF Start, list
<1>2. PoolTypes /\ MutexFits /\ ShutdownFits /\ TasksAccounted /\ Awaited BY DEF PoolInv
<1>3. /\ pc'[w] \in {"done", "lock"} /\ \A v \in Workers : v # w => pc'[v] = pc[v]
      /\ pc' \in [Workers -> PoolLabels]
  BY <1>1, <1>2 DEF PoolTypes, PoolLabels
<1>4. PoolTypes' BY <1>1, <1>2, <1>3 DEF PoolTypes
<1>5. MutexFits' BY <1>1, <1>2, <1>3 DEF MutexFits
<1>6. ShutdownFits' BY <1>1, <1>2, <1>3 DEF ShutdownFits, Empty
<1>7. Owners' = Owners /\ OnWay' = OnWay BY <1>1, <1>3 DEF Owners, OnWay
<1>8. TasksAccounted' BY <1>1, <1>2, <1>7, SameAccounts
<1>9. Awaited' BY <1>1, <1>2, <1>3, <1>7 DEF Awaited
<1> QED BY <1>4, <1>5, <1>6, <1>8, <1>9 DEF PoolInv

\* pthread_mutex_lock returns: a worker is alone inside the mutex.
LEMMA LockKeeps ==
    ASSUME PoolInv, NEW w \in Workers, Lock(w)
    PROVE  PoolInv'
<1>1. /\ pc[w] \in {"lock", "woken"} /\ ~locked /\ locked'
      /\ pc' = [pc EXCEPT ![w] = "loop"]
      /\ UNCHANGED <<head, last, shutdown, task, ran, freed>>
  BY DEF Lock, list
<1>2. PoolTypes /\ MutexFits /\ ShutdownFits /\ TasksAccounted /\ Awaited BY DEF PoolInv
<1>3. /\ pc'[w] = "loop" /\ \A v \in Workers : v # w => pc'[v] = pc[v]
      /\ pc' \in [Workers -> PoolLabels]
  BY <1>1, <1>2 DEF PoolTypes, PoolLabels
<1>4. PoolTypes' BY <1>1, <1>2, <1>3 DEF PoolTypes
<1>5. MutexFits' BY <1>1, <1>2, <1>3 DEF MutexFits
<1>6. ShutdownFits' BY <1>1, <1>2, <1>3 DEF ShutdownFits, Empty
<1>7. Owners' = Owners /\ OnWay' = OnWay \cup {w} BY <1>1, <1>3 DEF Owners, OnWay
<1>8. TasksAccounted' BY <1>1, <1>2, <1>7, SameAccounts
<1>9. Cardinality(OnWay') >= Cardinality(OnWay) /\ Cardinality(OnWay) \in Nat
      /\ Cardinality(OnWay') \in Nat
  BY <1>7, OnWayCount
<1>10. last + 1 - head \in Int BY <1>2 DEF PoolTypes
<1>11. Awaited' BY <1>1, <1>2, <1>3, <1>9, <1>10 DEF Awaited
<1> QED BY <1>4, <1>5, <1>6, <1>8, <1>11 DEF PoolInv

\* The inner loop of worker_thread.
LEMMA LoopKeeps ==
    ASSUME PoolInv, NEW w \in Workers, Loop(w)
    PROVE  PoolInv'
<1>0. pc[w] = "loop" /\ UNCHANGED <<head, last, shutdown, ran, freed>>
  BY DEF Loop, list
<1>1. PoolTypes /\ MutexFits /\ ShutdownFits /\ TasksAccounted /\ Awaited BY DEF PoolInv
<1>2. freed = {} BY <1>0, <1>1 DEF ShutdownFits
<1>3. \A v \in Workers : v # w => pc[v] \notin {"loop", "take"} BY <1>0, <1>1 DEF MutexFits
<1>4. CASE /\ pc' = [pc EXCEPT ![w] = "asleep"] /\ task' = task
           /\ Empty /\ ~shutdown
  <2>1. /\ pc'[w] = "asleep" /\ \A v \in Workers : v # w => pc'[v] = pc[v]
        /\ pc' \in [Workers -> PoolLabels]
    BY <1>1, <1>4 DEF PoolTypes, PoolLabels
  <2>2. PoolTypes' BY <1>0, <1>1, <1>4, <2>1 DEF PoolTypes
  <2>3. MutexFits' BY <1>3, <2>1 DEF MutexFits
  <2>4. ShutdownFits' BY <1>0, <1>2, <1>4 DEF ShutdownFits
  <2>5. Owners' = Owners BY <1>0, <2>1 DEF Owners
  <2>6. TasksAccounted' BY <1>0, <1>1, <1>4, <2>5, SameAccounts
  <2>7. IsFiniteSet(OnWay') BY PoolAssumption, FS_Subset DEF OnWay
  <2>8. Cardinality(OnWay') \in Nat BY <2>7, FS_CardinalityType
  <2>9. Awaited' BY <1>0, <1>1, <1>4, <2>8 DEF Awaited, Empty, PoolTypes
  <2> QED BY <2>2, <2>3, <2>4, <2>6, <2>9 DEF PoolInv
<1>5. CASE pc' = [pc EXCEPT ![w] = "done"] /\ task' = task /\ shutdown
  <2>1. /\ pc'[w] = "done" /\ \A v \in Workers : v # w => pc'[v] = pc[v]
        /\ pc' \in [Workers -> PoolLabels]
    BY <1>1, <1>5 DEF PoolTypes, PoolLabels
  <2>2. PoolTypes' BY <1>0, <1>1, <1>5, <2>1 DEF PoolTypes
  <2>3. MutexFits' BY <1>3, <2>1 DEF MutexFits
  <2>4. \A v \in Workers : pc'[v] # "asleep" BY <1>1, <1>5, <2>1 DEF ShutdownFits
  <2>5. ShutdownFits' BY <1>0, <1>2, <2>4 DEF ShutdownFits
  <2>6. Owners' = Owners BY <1>0, <2>1 DEF Owners
  <2>7. TasksAccounted' BY <1>0, <1>1, <1>5, <2>6, SameAccounts
  <2>8. Awaited' BY <2>4 DEF Awaited
  <2> QED BY <2>2, <2>3, <2>5, <2>7, <2>8 DEF PoolInv
<1>6. CASE /\ task' = [task EXCEPT ![w] = head] /\ pc' = [pc EXCEPT ![w] = "take"]
           /\ ~Empty /\ locked' = locked
  <2>1. /\ pc'[w] = "take" /\ task'[w] = head
        /\ \A v \in Workers : v # w => pc'[v] = pc[v] /\ task'[v] = task[v]
        /\ pc' \in [Workers -> PoolLabels] /\ task' \in [Workers -> Nat]
    BY <1>1, <1>6 DEF PoolTypes, PoolLabels
  <2>2. PoolTypes' BY <1>0, <1>1, <2>1 DEF PoolTypes
  <2>3. locked BY <1>0, <1>1 DEF MutexFits
  <2>4. head <= last BY <1>1, <1>6 DEF Empty, PoolTypes
  <2>5. MutexFits' BY <1>0, <1>3, <1>6, <2>1, <2>3, <2>4 DEF MutexFits
  <2>6. ShutdownFits' BY <1>0, <1>1, <1>2, <2>1 DEF ShutdownFits
  <2>7. Owners' = Owners /\ w \notin Owners /\ OnWay' = OnWay
    BY <1>0, <2>1 DEF Owners, OnWay
  <2>8. \A v \in Owners : task'[v] = task[v] BY <2>1, <2>7 DEF Owners
  <2>9. TasksAccounted' BY <1>0, <1>1, <2>7, <2>8, SameAccounts
  <2>10. Awaited' BY <1>0, <1>1, <2>1, <2>7 DEF Awaited
  <2> QED BY <2>2, <2>5, <2>6, <2>9, <2>10 DEF PoolInv
<1> QED BY <1>4, <1>5, <1>6 DEF Loop

\* The task leaves the list and has an owner in the same step.
LEMMA TakeKeeps ==
    ASSUME PoolInv, NEW w \in Workers, Take(w)
    PROVE  PoolInv'
<1>0. /\ pc[w] = "take" /\ head' = task[w] + 1 /\ pc' = [pc EXCEPT ![w] = "arrive"]
      /\ UNCHANGED <<last, shutdown, task, ran, freed>>
  BY DEF Take
<1>1. PoolTypes /\ MutexFits /\ ShutdownFits /\ TasksAccounted /\ Awaited BY DEF PoolInv
<1>2. freed = {} BY <1>0, <1>1 DEF ShutdownFits
<1>3. \A v \in Workers : v # w => pc[v] \notin {"loop", "take"} BY <1>0, <1>1 DEF MutexFits
<1>4. task[w] = head /\ head <= last BY <1>0, <1>1 DEF MutexFits
<1>5. /\ pc'[w] = "arrive" /\ \A v \in Workers : v # w => pc'[v] = pc[v]
      /\ pc' \in [Workers -> PoolLabels]
  BY <1>0, <1>1 DEF PoolTypes, PoolLabels
<1>6. head' = head + 1 /\ head \in Nat \ {0} /\ last \in Nat
  BY <1>0, <1>1, <1>4 DEF PoolTypes
<1>7. PoolTypes' BY <1>0, <1>1, <1>4, <1>5, <1>6 DEF PoolTypes
<1>8. MutexFits' BY <1>3, <1>5 DEF MutexFits
<1>9. ShutdownFits' BY <1>0, <1>1, <1>2, <1>5 DEF ShutdownFits
<1>10. Owners' = Owners \cup {w} /\ w \notin Owners BY <1>0, <1>5 DEF Owners
<1>11. \A u \in Owners : task[u] \in 1..(head - 1)
  BY <1>1 DEF TasksAccounted
<1>12. TasksAccounted'
  <2>1. head \notin 1..(head - 1) /\ 1..(head' - 1) = 1..(head - 1) \cup {head} BY <1>6
  <2>2. {task'[u] : u \in Owners'} = {task[u] : u \in Owners} \cup {head}
    BY <1>0, <1>4, <1>10
  <2>3. 1..(head' - 1) = {task'[u] : u \in Owners'} \cup ran' \cup freed'
    BY <1>0, <1>1, <2>1, <2>2 DEF TasksAccounted
  <2>4. \A u \in Owners : task[u] # head BY <1>11, <2>1
  <2>5. TakenOnce' BY <1>0, <1>1, <1>4, <1>10, <2>4 DEF TasksAccounted, TakenOnce
  <2> QED BY <1>0, <1>1, <1>2, <2>3, <2>5 DEF TasksAccounted, PoolTypes
<1>13. OnWay' = OnWay \ {w} /\ w \in OnWay BY <1>0, <1>5 DEF OnWay
<1>14. Cardinality(OnWay') = Cardinality(OnWay) - 1 /\ Cardinality(OnWay) \in Nat
  BY <1>13, OnWayCount
<1>15. Awaited' BY <1>0, <1>1, <1>5, <1>6, <1>14 DEF Awaited
<1> QED BY <1>7, <1>8, <1>9, <1>12, <1>15 DEF PoolInv

\* barrier_wait keeps the owners, whoever it lets through.
LEMMA BarrierWaitKeeps ==
    ASSUME PoolInv, NEW w \in Workers, BarrierWait(w)
    PROVE  PoolInv'
<1>0. pc[w] = "arrive" /\ UNCHANGED <<head, last, locked, shutdown, task, ran, freed>>
  BY DEF BarrierWait, list
<1>1. PoolTypes /\ MutexFits /\ ShutdownFits /\ TasksAccounted /\ Awaited BY DEF PoolInv
<1>2. /\ pc' \in [Workers -> PoolLabels]
      /\ \A u \in Workers :
            \/ pc'[u] = pc[u]
            \/ pc[u] \in {"arrive", "barrier"} /\ pc'[u] \in {"barrier", "run"}
  <2>1. CASE pc' = [pc EXCEPT ![w] = "barrier"]
    BY <1>0, <1>1, <2>1 DEF PoolTypes, PoolLabels
  <2>2. CASE pc' = CondBroadcast([pc EXCEPT ![w] = "run"], "barrier", "run")
    BY <1>0, <1>1, <2>2 DEF CondBroadcast, PoolTypes, PoolLabels
  <2> QED BY <2>1, <2>2 DEF BarrierWait
<1>3. PoolTypes' BY <1>0, <1>1, <1>2 DEF PoolTypes
<1>4. MutexFits' BY <1>0, <1>1, <1>2 DEF MutexFits
<1>5. ShutdownFits' BY <1>0, <1>1, <1>2 DEF ShutdownFits, Empty
<1>6. Owners' = Owners /\ OnWay' = OnWay BY <1>2 DEF Owners, OnWay
<1>7. TasksAccounted' BY <1>0, <1>1, <1>6, SameAccounts
<1>8. Awaited' BY <1>0, <1>1, <1>2, <1>6 DEF Awaited
<1> QED BY <1>3, <1>4, <1>5, <1>7, <1>8 DEF PoolInv

\* Every step of thread_pool.c keeps the invariant.
LEMMA PoolStepKeeps == PoolInv /\ [Next]_vars => PoolInv'
<1> SUFFICES ASSUME PoolInv, [Next]_vars PROVE PoolInv'
  OBVIOUS
<1>1. CASE UNCHANGED vars
  BY <1>1 DEF vars, list, PoolInv, PoolTypes, MutexFits, ShutdownFits, TasksAccounted,
              TakenOnce, Awaited, OnWay, Owners, Empty
<1> QED
  BY <1>1, EnqueueKeeps, DestroyKeeps, FreeKeeps, StartKeeps, LockKeeps, LoopKeeps,
     TakeKeeps, BarrierWaitKeeps DEF Next, Work

\* thread_pool_init: no task, no worker inside the mutex.
LEMMA PoolInitInv == Init => PoolInv
<1> SUFFICES ASSUME Init PROVE PoolInv
  OBVIOUS
<1>1. \A w \in Workers : pc[w] = "top" BY DEF Init
<1>2. Owners = {} BY <1>1 DEF Owners
<1>3. PoolTypes BY DEF Init, PoolTypes, PoolLabels
<1>4. MutexFits /\ ShutdownFits /\ Awaited
  BY <1>1 DEF Init, MutexFits, ShutdownFits, Awaited
<1>5. TasksAccounted BY <1>2 DEF Init, TasksAccounted, TakenOnce
<1> QED BY <1>3, <1>4, <1>5 DEF PoolInv

\* The inductive invariant holds in every reachable state.
LEMMA PoolInvariance == FairSpec => []PoolInv
BY PoolInitInv, PoolStepKeeps, PTL DEF FairSpec

\* Every task that left the list has an owner or was freed, and none has two.
THEOREM TasksAlwaysAccounted == FairSpec => []TasksAccounted
BY PoolInvariance, PTL DEF PoolInv

\* One signal per task loses no wakeup.
THEOREM WakeupsAreNotLost == FairSpec => []NoLostWakeup
<1>1. PoolInv => NoLostWakeup
  <2> SUFFICES ASSUME PoolInv, ThreadsAt(pc, "asleep") # {}
               PROVE  last + 1 - head <= Cardinality(OnWay)
    BY DEF NoLostWakeup, OnWay
  <2>1. \E w \in Workers : pc[w] = "asleep" BY DEF ThreadsAt, PoolInv, PoolTypes
  <2> QED BY <2>1 DEF PoolInv, Awaited
<1> QED BY <1>1, PoolInvariance, PTL
==============================================================================
