---------------------------- MODULE AssemblyLine ----------------------------
(***************************************************************************)
(* assembly_line.c: N stage threads that go round a loop: meet at the      *)
(* barrier, think, add to the sample's temperature, take two forks, put    *)
(* them back.  It composes Barrier and DiningPhilosophers: a stage is a    *)
(* thread of the one and a philosopher of the other.  The event loop       *)
(* (bme680_app.c) stores a sample with assembly_line_process and fetches   *)
(* it with assembly_line_get_result, under a mutex that no stage takes.    *)
(*                                                                         *)
(* al->data is abstracted to [of, plus]: which sample it holds and how     *)
(* often its temperature was raised.                                       *)
(*                                                                         *)
(* at[s]: "barrier" (before or in barrier_wait), "read" and "write" (the   *)
(* two halves of temp += 1.0), "table" (in eat and done).                  *)
(***************************************************************************)
EXTENDS Barrier, DiningPhilosophers

CONSTANT MaxSamples  \* bound on the samples of the event loop

\* assembly_line_init makes as many stages as philosophers, and the barrier for
\* all of them; stages are numbered as philosophers are.
ASSUME LineAssumption ==
    /\ Total = N
    /\ Threads = Philosophers
    /\ MaxSamples \in Nat

Stages == Threads

VARIABLES at,
          data,     \* al->data
          seen,     \* seen[s]: what s read of it in its round
          result,   \* what the event loop fetched last
          fetched,  \* whether it is between fetch and store
          sent,     \* how many samples it has stored
          work,     \* auxiliary: the raises since the last store
          meals     \* auxiliary: meals[s] the rounds s completed

barrier == <<count, pc, arrivals>>
loop == <<result, fetched, sent>>
lineVars == <<barrier, table, at, data, seen, loop, work, meals>>
-----------------------------------------------------------------------------
Unset == [of |-> 0, plus |-> 0]

\* assembly_line_init; al->data is not initialised, sample 0 stands for that.
LineInit ==
    /\ Init /\ DiningInit
    /\ at = [s \in Stages |-> "barrier"]
    /\ data = Unset
    /\ seen = [s \in Stages |-> Unset]
    /\ result = Unset /\ fetched = TRUE /\ sent = 0
    /\ work = 0
    /\ meals = [s \in Stages |-> 0]

\* barrier_wait: the last stage to arrive goes straight on, a woken one follows.
BarrierWait(s) ==
    /\ at[s] = "barrier"
    /\ Arrive(s) \/ Leave(s)
    /\ at' = [at EXCEPT ![s] = IF pc'[s] = "out" THEN "read" ELSE "barrier"]
    /\ UNCHANGED <<table, data, seen, loop, work, meals>>

\* dining_philosophers_think, and the load of s->al->data->temp.
Load(s) ==
    /\ at[s] = "read"
    /\ seen' = [seen EXCEPT ![s] = data]
    /\ at' = [at EXCEPT ![s] = "write"]
    /\ UNCHANGED <<barrier, table, data, loop, work, meals>>

\* The store of s->al->data->temp, and the call of dining_philosophers_eat.
Store(s) ==
    /\ at[s] = "write"
    /\ data' = [seen[s] EXCEPT !.plus = @ + 1]
    /\ seen' = [seen EXCEPT ![s] = Unset]
    /\ work' = work + 1
    /\ Eat(s)
    /\ at' = [at EXCEPT ![s] = "table"]
    /\ UNCHANGED <<barrier, loop, meals>>

\* The steps of dining_philosophers_eat and _done up to the last unlock.
Dine(s) ==
    /\ at[s] = "table"
    /\ TakeFirst(s) \/ TakeSecond(s) \/ PutOwn(s)
    /\ UNCHANGED <<barrier, at, data, seen, loop, work, meals>>

FinishWithoutLastFork(s) ==
    /\ at[s] = "table" /\ doing[s] = "leaving"
    /\ doing' = [doing EXCEPT ![s] = "thinking"]
    /\ at' = [at EXCEPT ![s] = "barrier"]
    /\ meals' = [meals EXCEPT ![s] = @ + 1]
    /\ UNCHANGED <<barrier, owner, data, seen, loop, work>>

FinishAtRead(s) ==
    /\ at[s] = "table"
    /\ PutRight(s)
    /\ at' = [at EXCEPT ![s] = "read"]
    /\ meals' = [meals EXCEPT ![s] = @ + 1]
    /\ UNCHANGED <<barrier, data, seen, loop, work>>

\* The last unlock, and back to the top of the loop.
Finish(s) ==
    /\ at[s] = "table"
    /\ PutRight(s)
    /\ at' = [at EXCEPT ![s] = "barrier"]
    /\ meals' = [meals EXCEPT ![s] = @ + 1]
    /\ UNCHANGED <<barrier, data, seen, loop, work>>

Stage(s) == BarrierWait(s) \/ Load(s) \/ Store(s) \/ Dine(s) \/ Finish(s)

\* assembly_line_process with the next sample.
Process ==
    /\ fetched /\ sent < MaxSamples
    /\ sent' = sent + 1
    /\ data' = [of |-> sent + 1, plus |-> 0]
    /\ work' = 0
    /\ fetched' = FALSE
    /\ UNCHANGED <<barrier, table, at, seen, result, meals>>

\* assembly_line_get_result, which the event loop calls right after it.
GetResult ==
    /\ ~fetched
    /\ result' = data
    /\ fetched' = TRUE
    /\ UNCHANGED <<barrier, table, at, data, seen, sent, work, meals>>

LineNext == (\E s \in Stages : Stage(s)) \/ Process \/ GetResult

\* A stage that can go on does.  Nothing is assumed of the order in which a
\* mutex is handed over.
LineSpec ==
    LineInit /\ [][LineNext]_lineVars /\ \A s \in Stages : WF_lineVars(Stage(s))
-----------------------------------------------------------------------------
\* Barrier and forks are well typed inside the assembly line too, and the data
\* has been written by the stages at most once per round.
LineTypeOK ==
    /\ TypeOK /\ DiningTypeOK
    /\ at \in [Stages -> {"barrier", "read", "write", "table"}]
    /\ data.of \in 0..MaxSamples /\ data.plus \in 0..(N * MaxRounds)
    /\ fetched \in BOOLEAN

\* The stages stay in step: when one has passed its n-th barrier, every other
\* has put its forks of round n - 1 back, and none has eaten more than n times.
InStep == \A s, u \in Stages :
    at[s] # "barrier" => meals[u] \in {arrivals[s] - 1, arrivals[s]}

\* Barrier and forks together neither deadlock nor starve anybody: every stage
\* completes every round, although the forks' mutexes are not fair.
EveryStageEats == <>(\A s \in Stages : meals[s] = MaxRounds)

\* Races are prevented: no stage's addition to the sample is lost.
NoLostUpdate == data.plus >= work

\* "Pipeline for processing sensor data in stages": what the event loop gets
\* back is the sample that it stored, with the work of every stage.
ResultProcessed == [][fetched' /\ ~fetched => result'.plus = N]_lineVars
==============================================================================
