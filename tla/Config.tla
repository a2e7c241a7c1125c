------------------------------- MODULE Config -------------------------------
(***************************************************************************)
(* bme680_config.c over the read-write lock of RWLock.  Two locks guard    *)
(* two things: the static object holds the three oversampling fields that  *)
(* set_oversampling and get_oversampling use; an object of                 *)
(* bme680_config_init guards the sensor, which the setters of one setting  *)
(* change through bme680_set_sensor_settings.  object tells which of the   *)
(* two a behaviour is about.                                               *)
(*                                                                         *)
(* Only set_oversampling looks at the result of its lock call.  The other  *)
(* operations go on and unlock whether they have the lock or not, which    *)
(* is pc[t] = "idle" inside a call.                                        *)
(***************************************************************************)
EXTENDS RWLock, Sequences

CONSTANTS Settings,        \* what set_oversampling writes; one value per call
          Invalid,         \* values above 16
          IgnoredFailures  \* whether a lock call fails whose result is ignored

ASSUME ConfigAssumption == IgnoredFailures \in BOOLEAN

VARIABLES object,  \* "static" or "allocated"
          call,    \* of each thread: its operation, value and next step
          field,   \* the three fields of the static object
          got      \* what get_oversampling has copied of them

configVars == <<object, call, field, got>>

Fields == 1..3
None == [op |-> "none"]
Accesses(t) == call[t] # None /\ pc[t] \in {"idle", "reading", "writing"}
-----------------------------------------------------------------------------
\* bme680_config_init.
ConfigInit ==
    /\ Init
    /\ object \in {"static", "allocated"}
    /\ call = [t \in Threads |-> None]
    /\ \E v \in Settings : field = [f \in Fields |-> v]
    /\ got = [t \in Threads |-> <<>>]

\* What is done with a lock call that fails.
Checked(op) == op = "set"

\* An operation is called, up to its lock call.  A call that the lock's limit
\* refuses fails at once.
Call(t, op, v) ==
    /\ call[t] = None
    /\ op \in (IF object = "static" THEN {"set", "get"} ELSE {"one"})
    /\ \/ IF op = "get" THEN RdLock(t) ELSE WrLock(t)
       \/ /\ IgnoredFailures /\ ~Checked(op)
          /\ IF op = "get" THEN waiting_readers >= MaxWaitingReaders
                           ELSE waiting_writers >= MaxWaitingWriters
          /\ UNCHANGED vars
    /\ call' = [call EXCEPT ![t] = [op |-> op, v |-> v, next |-> 1]]
    /\ got' = [got EXCEPT ![t] = <<>>]
    /\ UNCHANGED <<object, field>>

\* The rest of the lock call.
Wait(t) ==
    /\ \/ RdResume(t) \/ WrResume(t) \/ SpuriousWakeup(t)
       \/ IgnoredFailures /\ RdTimeout(t)
       \/ (IgnoredFailures \/ Checked(call[t].op)) /\ WrTimeout(t)
    /\ UNCHANGED configVars

GiveUpUnchecked(t) ==
    /\ RdGiveUp(t) \/ WrGiveUp(t)
    /\ UNCHANGED <<object, call, field, got>>

\* The lock call returns an error.
GiveUp(t) ==
    /\ RdGiveUp(t) \/ WrGiveUp(t)
    /\ call' = IF Checked(call[t].op) THEN [call EXCEPT ![t] = None] ELSE call
    /\ UNCHANGED <<object, field, got>>

\* One of the three accesses: set_oversampling writes a field, unless a value is
\* invalid, get_oversampling copies one, and the sensor is being changed.
Access(t) ==
    /\ Accesses(t) /\ call[t].next \in Fields
    /\ LET k == call[t].next
           stop == call[t].op = "set" /\ call[t].v = Invalid
       IN  /\ call' = [call EXCEPT ![t].next = IF stop THEN 4 ELSE k + 1]
           /\ field' = IF call[t].op = "set" /\ ~stop
                       THEN [field EXCEPT ![k] = call[t].v] ELSE field
           /\ got' = IF call[t].op = "get"
                     THEN [got EXCEPT ![t] = Append(@, field[k])] ELSE got
    /\ UNCHANGED <<object, vars>>

\* rwlock_unlock, by a thread that has the lock or not: the counters decide what
\* is released.
Unlock(t) ==
    /\ Accesses(t) /\ call[t].next = 4
    /\ call' = [call EXCEPT ![t] = None]
    /\ LET q == [pc EXCEPT ![t] = "idle"]
       IN  IF active_writers > 0
           THEN /\ active_writers' = active_writers - 1
                /\ pc' \in WakeWriterOrReaders(q)
                /\ UNCHANGED readerVars
           ELSE /\ active_readers' = IF active_readers > 0 THEN active_readers - 1 ELSE 0
                /\ pc' \in IF active_readers = 1 /\ waiting_writers > 0
                           THEN CondSignal(q, "w_asleep", "w_woken")
                           ELSE {q}
                /\ UNCHANGED <<waiting_readers, active_writers>>
    /\ UNCHANGED <<waiting_writers, object, field, got>>

ConfigNext == \E t \in Threads :
    \/ \E v \in Settings \cup {Invalid} : Call(t, "set", v)
    \/ \E op \in {"get", "one"} : Call(t, op, Invalid)
    \/ Wait(t) \/ GiveUp(t) \/ Access(t) \/ Unlock(t)

ConfigSpec == ConfigInit /\ [][ConfigNext]_<<vars, configVars>>
-----------------------------------------------------------------------------
\* Whenever no set_oversampling is between them, the fields come from one call.
FieldsWhole ==
    (\A t \in Threads : ~(Accesses(t) /\ call[t].op = "set"))
        => \A f \in Fields : field[f] = field[1]

\* "Thread-safe configuration management": what get_oversampling has copied is a
\* setting that one call of set_oversampling has made.
GetsWhole == \A t \in Threads :
    Len(got[t]) = 3 => \A f \in Fields : got[t][f] = got[t][1]

\* One thread at a time changes the sensor.
SensorExclusive == \A t, u \in Threads :
    t # u /\ Accesses(t) /\ Accesses(u) => object = "static"

\* A configuration is set and read as a whole, with setters that give up, values
\* that are refused and threads that wait for the lock in any order.
ConfigWhole == FieldsWhole /\ GetsWhole /\ SensorExclusive
=============================================================================
