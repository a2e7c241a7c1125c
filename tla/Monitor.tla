------------------------------- MODULE Monitor -------------------------------
(***************************************************************************)
(* monitor.c: a ring buffer between the threads that read the sensor and   *)
(* the event loop.  A write (read) registers lock 0 (1) with the monitor's *)
(* deadlock detector, enters the monitor's mutex, waits there with a       *)
(* deadline while the ring is full (empty), and deregisters on every way   *)
(* out.  The rwlock inside is taken and released under the mutex by        *)
(* everybody, so it is never contended and is part of the atomic step.     *)
(* A call may be refused at its start: the data is out of the sensor's     *)
(* range, or the detector returns an error, which a caller sees as         *)
(* -EDEADLK.                                                               *)
(*                                                                         *)
(* pc[t]: "idle", "enter" registered and about to enter the mutex,         *)
(*        "asleep", "woken", "timedout" at the condition variable,         *)
(*        "exit" out of the mutex, about to deregister                     *)
(* Writers sleep on not_full, readers on not_empty.                        *)
(***************************************************************************)
EXTENDS Pthread, Sequences

CONSTANTS Writers, Readers, None,
          Values, NoValue,  \* valid sensor readings, and none
          Size              \* the size given to bme680_monitor_init

ASSUME MonitorAssumption ==
    /\ IsFiniteSet(Writers) /\ IsFiniteSet(Readers)
    /\ Writers \cap Readers = {} /\ None \notin Writers \cup Readers
    /\ NoValue \notin Values
    /\ Size \in Nat \ {0}

Threads == Writers \cup Readers

VARIABLES data, head, tail, count,  \* the fields of struct bme680_monitor
          wpc, rpc,                 \* pc of the writers and of the readers
          arg,                      \* arg[w]: the value that w wants to write
          delivered,                \* the value that the latest read returned
          locks, granted            \* the deadlock detector of the monitor

ring == <<data, head, tail, count>>
detector == <<locks, granted>>
vars == <<ring, wpc, rpc, arg, delivered, detector>>

Detector == INSTANCE DeadlockDetector WITH NumMutexes <- 2

Labels == {"idle", "enter", "asleep", "woken", "timedout", "exit"}
-----------------------------------------------------------------------------
\* bme680_monitor_init.
Init ==
    /\ data = [i \in 0..(Size - 1) |-> NoValue]
    /\ head = 0 /\ tail = 0 /\ count = 0
    /\ wpc = [w \in Writers |-> "idle"]
    /\ rpc = [r \in Readers |-> "idle"]
    /\ arg = [w \in Writers |-> NoValue]
    /\ delivered = NoValue
    /\ Detector!Init

\* The threads that are at a call of the detector or may come to one.
Calling == {w \in Writers : wpc[w] \in {"idle", "exit"}}
              \cup {r \in Readers : rpc[r] \in {"idle", "exit"}}

\* bme680_monitor_write returns -EINVAL for data out of range,
WriteInvalid(w) == wpc[w] = "idle" /\ UNCHANGED vars

\* or -EDEADLK for any error of the detector.
WriteRefused(w) ==
    /\ wpc[w] = "idle"
    /\ Detector!Refuse(w, Calling)
    /\ UNCHANGED <<ring, wpc, rpc, arg, delivered>>

\* bme680_monitor_write is called with a valid value, up to the detector.
WriteBegin(w, v) ==
    /\ wpc[w] = "idle"
    /\ Detector!Lock(w, 0)
    /\ wpc' = [wpc EXCEPT ![w] = "enter"]
    /\ arg' = [arg EXCEPT ![w] = v]
    /\ UNCHANGED <<ring, rpc, delivered>>

\* The loop test of bme680_monitor_write.
Full == count = Size

StoreAtHead(w) ==
    /\ data' = [data EXCEPT ![head] = arg[w]]
    /\ tail' = (tail + 1) % Size
    /\ count' = count + 1
    /\ wpc' = [wpc EXCEPT ![w] = "exit"]
    /\ rpc' \in CondSignal(rpc, "asleep", "woken")
    /\ UNCHANGED head

\* The rest of bme680_monitor_write inside the mutex.
Store(w) ==
    /\ data' = [data EXCEPT ![tail] = arg[w]]
    /\ tail' = (tail + 1) % Size
    /\ count' = count + 1
    /\ wpc' = [wpc EXCEPT ![w] = "exit"]
    /\ rpc' \in CondSignal(rpc, "asleep", "woken")
    /\ UNCHANGED head

\* The writer has the mutex, at the call or after a wakeup.
WriteLoop(w) ==
    /\ wpc[w] \in {"enter", "woken"}
    /\ \/ /\ Full
          /\ wpc' = [wpc EXCEPT ![w] = "asleep"]
          /\ UNCHANGED <<ring, rpc>>
       \/ /\ ~Full
          /\ Store(w)
    /\ UNCHANGED <<arg, delivered, detector>>

\* Its deadline fires; having the mutex again it leaves with an error.
WriteTimeout(w) ==
    /\ \/ wpc[w] = "asleep" /\ wpc' = [wpc EXCEPT ![w] = "timedout"]
       \/ wpc[w] = "timedout" /\ wpc' = [wpc EXCEPT ![w] = "exit"]
    /\ UNCHANGED <<ring, rpc, arg, delivered, detector>>

WriteEndUnregistered(w) ==
    /\ wpc[w] = "exit"
    /\ wpc' = [wpc EXCEPT ![w] = "idle"]
    /\ arg' = [arg EXCEPT ![w] = NoValue]
    /\ UNCHANGED <<ring, rpc, delivered, detector>>

\* Every way out of bme680_monitor_write ends in deadlock_detector_unlock.
WriteEnd(w) ==
    /\ wpc[w] = "exit"
    /\ Detector!Unlock(w, 0)
    /\ wpc' = [wpc EXCEPT ![w] = "idle"]
    /\ arg' = [arg EXCEPT ![w] = NoValue]
    /\ UNCHANGED <<ring, rpc, delivered>>

\* bme680_monitor_read returns -EDEADLK for any error of the detector.
ReadRefused(r) ==
    /\ rpc[r] = "idle"
    /\ Detector!Refuse(r, Calling)
    /\ UNCHANGED <<ring, wpc, rpc, arg, delivered>>

\* bme680_monitor_read is called, up to the detector.
ReadBegin(r) ==
    /\ rpc[r] = "idle"
    /\ Detector!Lock(r, 1)
    /\ rpc' = [rpc EXCEPT ![r] = "enter"]
    /\ UNCHANGED <<ring, wpc, arg, delivered>>

FetchSignalsWhenFull(r) ==
    /\ delivered' = data[head]
    /\ head' = (head + 1) % Size
    /\ count' = count - 1
    /\ rpc' = [rpc EXCEPT ![r] = "exit"]
    /\ wpc' \in IF count = Size THEN CondSignal(wpc, "asleep", "woken") ELSE {wpc}
    /\ UNCHANGED <<data, tail>>

\* The rest of bme680_monitor_read inside the mutex.
Fetch(r) ==
    /\ delivered' = data[head]
    /\ head' = (head + 1) % Size
    /\ count' = count - 1
    /\ rpc' = [rpc EXCEPT ![r] = "exit"]
    /\ wpc' \in CondSignal(wpc, "asleep", "woken")
    /\ UNCHANGED <<data, tail>>

\* The reader has the mutex, at the call or after a wakeup.
ReadLoop(r) ==
    /\ rpc[r] \in {"enter", "woken"}
    /\ \/ /\ count = 0
          /\ rpc' = [rpc EXCEPT ![r] = "asleep"]
          /\ UNCHANGED <<ring, wpc, delivered>>
       \/ /\ count # 0
          /\ Fetch(r)
    /\ UNCHANGED <<arg, detector>>

ReadTimeoutRetries(r) ==
    /\ \/ rpc[r] = "asleep" /\ rpc' = [rpc EXCEPT ![r] = "timedout"]
       \/ rpc[r] = "timedout" /\ rpc' = [rpc EXCEPT ![r] = "asleep"]
    /\ UNCHANGED <<ring, wpc, arg, delivered, detector>>

\* Its deadline fires; having the mutex again it leaves with an error.
ReadTimeout(r) ==
    /\ \/ rpc[r] = "asleep" /\ rpc' = [rpc EXCEPT ![r] = "timedout"]
       \/ rpc[r] = "timedout" /\ rpc' = [rpc EXCEPT ![r] = "exit"]
    /\ UNCHANGED <<ring, wpc, arg, delivered, detector>>

\* Every way out of bme680_monitor_read ends in deadlock_detector_unlock.
ReadEnd(r) ==
    /\ rpc[r] = "exit"
    /\ Detector!Unlock(r, 1)
    /\ rpc' = [rpc EXCEPT ![r] = "idle"]
    /\ UNCHANGED <<ring, wpc, arg, delivered>>

\* POSIX lets a wait return without a signal.
SpuriousWakeup ==
    /\ \/ \E w \in Writers : /\ wpc[w] = "asleep"
                             /\ wpc' = [wpc EXCEPT ![w] = "woken"]
                             /\ UNCHANGED rpc
       \/ \E r \in Readers : /\ rpc[r] = "asleep"
                             /\ rpc' = [rpc EXCEPT ![r] = "woken"]
                             /\ UNCHANGED wpc
    /\ UNCHANGED <<ring, arg, delivered, detector>>

Write(w) ==
    \/ WriteInvalid(w) \/ WriteRefused(w)
    \/ \E v \in Values : WriteBegin(w, v)
    \/ WriteLoop(w) \/ WriteTimeout(w) \/ WriteEnd(w)
Read(r) ==
    ReadRefused(r) \/ ReadBegin(r) \/ ReadLoop(r) \/ ReadTimeout(r) \/ ReadEnd(r)

Next ==
    \/ \E w \in Writers : Write(w)
    \/ \E r \in Readers : Read(r)
    \/ SpuriousWakeup

Spec == Init /\ [][Next]_vars

\* Runnable threads run, and absolute deadlines fire.
Fairness ==
    /\ \A w \in Writers :
          WF_vars(WriteLoop(w)) /\ SF_vars(WriteTimeout(w)) /\ WF_vars(WriteEnd(w))
    /\ \A r \in Readers :
          WF_vars(ReadLoop(r)) /\ SF_vars(ReadTimeout(r)) /\ WF_vars(ReadEnd(r))

FairSpec == Spec /\ Fairness
-----------------------------------------------------------------------------
\* The indices of the ring stay inside data[] and the count never exceeds the
\* size, although a writer and a reader move them between the waits of others.
TypeOK ==
    /\ data \in [0..(Size - 1) -> Values \cup {NoValue}]
    /\ head \in 0..(Size - 1) /\ tail \in 0..(Size - 1) /\ count \in 0..Size
    /\ wpc \in [Writers -> Labels] /\ rpc \in [Readers -> Labels]
    /\ arg \in [Writers -> Values \cup {NoValue}]
    /\ delivered \in Values \cup {NoValue}

\* What the ring holds, oldest first.
Contents == [i \in 1..count |-> data[(head + i - 1) % Size]]

\* The ring implements the queue, whatever the interleaving of writers,
\* readers, timeouts and wakeups.
Queue == INSTANCE BoundedQueue WITH queue <- Contents
QueueSpec == Queue!Spec

\* Nobody sleeps beside work: while a writer sleeps every free cell, and while
\* a reader sleeps every value, is matched by a woken thread on its way to it.
NoLostWakeup ==
    /\ ThreadsAt(wpc, "asleep") # {} => Size - count <= NumAt(wpc, "woken")
    /\ ThreadsAt(rpc, "asleep") # {} => count <= NumAt(rpc, "woken")

\* No call leaves a record behind in the detector, on any way out and although
\* records of threads inside are overwritten: whoever is on record is inside,
\* and the order test fires for nobody who calls.  So the -EDEADLK that a
\* caller of the monitor sees is always a contended dd->mutex, never a
\* suspected deadlock.
DetectorAgrees ==
    /\ locks[0] # None => locks[0] \in Writers /\ wpc[locks[0]] # "idle"
    /\ locks[1] # None => locks[1] \in Readers /\ rpc[locks[1]] # "idle"
    /\ \A w \in Writers : wpc[w] = "idle" => ~Detector!Suspicious(w)
    /\ \A r \in Readers : rpc[r] = "idle" => ~Detector!Suspicious(r)

\* Every call of bme680_monitor_write and bme680_monitor_read returns.
Answered ==
    /\ \A w \in Writers : wpc[w] # "idle" ~> wpc[w] = "idle"
    /\ \A r \in Readers : rpc[r] # "idle" ~> rpc[r] = "idle"
==============================================================================
