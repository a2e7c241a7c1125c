-------------------------- MODULE SemaphoresProofs --------------------------
(***************************************************************************)
(* The safety of fifo_semaphore.c, event_pair.c and ipc_sync.c for any     *)
(* number of threads, processes, samples and ids.                          *)
(***************************************************************************)
EXTENDS MCSemaphores, Sequences, PthreadTheorems
-----------------------------------------------------------------------------
(***************************************************************************)
(* FifoSemaphore.  TypeOK, PermitsConserved and NoLostWakeup are inductive *)
(* together: the wakeups are right because each permit that is posted      *)
(* moves one thread from asleep to woken, and only that thread, or a       *)
(* newcomer that takes the permit away, changes the balance.               *)
(***************************************************************************)

\* What every step of the semaphore preserves.
IInv == TypeOK /\ PermitsConserved /\ NoLostWakeup

\* The numbers the invariant compares are natural numbers.
LEMMA Numbers ==
    ASSUME TypeOK
    PROVE  /\ Typed(Threads, Labels, pc)
           /\ count \in Nat
           /\ NumAt(pc, "holding") \in Nat
           /\ NumAt(pc, "woken") \in Nat
<1>1. Typed(Threads, Labels, pc) /\ count \in Nat
  BY SemaphoreAssumption DEF TypeOK, Typed
<1> QED BY <1>1, NumType

\* A thread at the loop test of fifo_semaphore_wait keeps the invariant.
LEMMA LoopKeepsInv ==
    ASSUME IInv, NEW t \in Threads, pc[t] \in {"idle", "woken"}, WaitLoop(t)
    PROVE  IInv'
<1>1. TypeOK /\ PermitsConserved /\ NoLostWakeup BY DEF IInv
<1>2. TypeOK' BY <1>1 DEF WaitLoop, TypeOK, Labels, MustWait
<1>3. CASE count = 0 /\ pc' = [pc EXCEPT ![t] = "asleep"] /\ UNCHANGED count
  <2>0. Moves(Threads, Labels, pc, pc', t, pc[t], "asleep")
    BY <1>1, <1>3, Numbers DEF Moves, Typed, Labels
  <2>1. NumAt(pc', "holding") = NumAt(pc, "holding") BY <2>0, MoveNum
  <2>2. NumAt(pc', "woken") \in Nat BY <2>0, MoveNum, NumType
  <2> QED BY <1>1, <1>2, <1>3, <2>1, <2>2 DEF IInv, PermitsConserved, NoLostWakeup
<1>4. CASE count' = count - 1 /\ pc' = [pc EXCEPT ![t] = "holding"]
  <2>0. Moves(Threads, Labels, pc, pc', t, pc[t], "holding")
    BY <1>1, <1>4, Numbers DEF Moves, Typed, Labels
  <2>1. NumAt(pc', "holding") = NumAt(pc, "holding") + 1 BY <2>0, MoveNum
  <2>2. \/ NumAt(pc', "woken") = NumAt(pc, "woken") - 1
        \/ NumAt(pc', "woken") = NumAt(pc, "woken")
    BY <2>0, MoveNum
  <2>3. (\E u \in Threads : pc'[u] = "asleep") => \E u \in Threads : pc[u] = "asleep"
    BY <1>1, <1>4 DEF TypeOK
  <2>4. PermitsConserved'
    BY <1>1, <1>4, <2>1, Numbers, SemaphoreAssumption DEF PermitsConserved
  <2>5. NoLostWakeup'
    BY <1>1, <1>4, <2>2, <2>3, Numbers DEF NoLostWakeup
  <2> QED BY <1>2, <2>4, <2>5 DEF IInv
<1> QED BY <1>1, <1>3, <1>4 DEF WaitLoop, MustWait, TypeOK

\* fifo_semaphore_post: the count rises by one and, when somebody sleeps, so
\* does the number of woken threads.
LEMMA PostKeepsInv ==
    ASSUME IInv, NEW t \in Threads, Post(t)
    PROVE  IInv'
<1>1. TypeOK /\ PermitsConserved /\ NoLostWakeup BY DEF IInv
<1> DEFINE q == [pc EXCEPT ![t] = "idle"]
<1>2. /\ q \in [Threads -> Labels]
      /\ pc[t] = "holding" /\ count' = count + 1
      /\ pc' \in CondSignal(q, "asleep", "woken")
      /\ \A u \in Threads : q[u] = "asleep" => pc[u] = "asleep"
  BY <1>1 DEF TypeOK, Labels, Post
<1>3. /\ NumAt(q, "holding") = NumAt(pc, "holding") - 1
      /\ NumAt(q, "woken") = NumAt(pc, "woken")
  <2>1. Moves(Threads, Labels, pc, q, t, "holding", "idle")
    BY <1>1, <1>2, Numbers DEF Moves, Typed, Labels
  <2> HIDE DEF q
  <2> QED BY <2>1, MoveNum
<1> HIDE DEF q
<1>4. CASE pc' = q /\ \A u \in Threads : q[u] # "asleep"
  <2>1. TypeOK' BY <1>1, <1>2, <1>4 DEF TypeOK
  <2>2. PermitsConserved'
    BY <1>1, <1>2, <1>3, <1>4, Numbers, SemaphoreAssumption DEF PermitsConserved
  <2> QED BY <1>4, <2>1, <2>2 DEF IInv, NoLostWakeup
<1>5. CASE \E u \in Threads : q[u] = "asleep" /\ pc' = [q EXCEPT ![u] = "woken"]
  <2>1. PICK u \in Threads : q[u] = "asleep" /\ pc' = [q EXCEPT ![u] = "woken"]
    BY <1>5
  <2>2. TypeOK' BY <1>1, <1>2, <2>1 DEF TypeOK, Labels
  <2>3. /\ NumAt(pc', "woken") = NumAt(q, "woken") + 1
        /\ NumAt(pc', "holding") = NumAt(q, "holding")
    <3>1. Moves(Threads, Labels, q, pc', u, "asleep", "woken")
      BY <1>2, <2>1, SemaphoreAssumption DEF Moves, Typed, Labels
    <3> QED BY <3>1, MoveNum
  <2>4. PermitsConserved'
    BY <1>1, <1>2, <1>3, <2>3, Numbers, SemaphoreAssumption DEF PermitsConserved
  <2>5. count <= NumAt(pc, "woken") BY <1>1, <1>2, <2>1 DEF NoLostWakeup
  <2>6. NoLostWakeup'
    BY <1>1, <1>2, <1>3, <2>3, <2>5, Numbers DEF NoLostWakeup
  <2> QED BY <2>2, <2>4, <2>6 DEF IInv
<1>6. Typed(Threads, Labels, q) BY <1>2, SemaphoreAssumption DEF Typed
<1>7. "woken" \in Labels BY DEF Labels
<1> QED BY <1>2, <1>4, <1>5, <1>6, SignalNum, <1>7

\* Every step of the specification keeps the inductive invariant.
LEMMA StepKeepsInv == IInv /\ [Next]_vars => IInv'
<1> SUFFICES ASSUME IInv, [Next]_vars PROVE IInv'
  OBVIOUS
<1>0. TypeOK /\ PermitsConserved /\ NoLostWakeup BY DEF IInv
<1>1. ASSUME NEW t \in Threads, Wait(t) \/ Resume(t) PROVE IInv'
  BY <1>1, LoopKeepsInv DEF Wait, Resume
<1>2. ASSUME NEW t \in Threads, NEW new \in {"timedout", "woken"},
             pc[t] = "asleep", pc' = [pc EXCEPT ![t] = new], UNCHANGED count
      PROVE  IInv'
  <2>1. TypeOK' BY <1>0, <1>2 DEF TypeOK, Labels
  <2>0. Moves(Threads, Labels, pc, pc', t, "asleep", new) BY <1>0, <1>2, Numbers DEF Moves, Typed, Labels
  <2>2. NumAt(pc', "holding") = NumAt(pc, "holding") BY <2>0, MoveNum
  <2>3. \/ NumAt(pc', "woken") = NumAt(pc, "woken")
        \/ NumAt(pc', "woken") = NumAt(pc, "woken") + 1
    BY <2>0, MoveNum
  <2>4. count <= NumAt(pc, "woken") BY <1>0, <1>2 DEF NoLostWakeup
  <2>5. NoLostWakeup' BY <1>0, <1>2, <2>3, <2>4, Numbers DEF NoLostWakeup
  <2> QED BY <1>0, <1>2, <2>1, <2>2, <2>5 DEF IInv, PermitsConserved
<1>3. ASSUME NEW t \in Threads, GiveUp(t) PROVE IInv'
  <2>1. TypeOK' BY <1>0, <1>3 DEF GiveUp, TypeOK, Labels
  <2>2. /\ NumAt(pc', "holding") = NumAt(pc, "holding")
        /\ NumAt(pc', "woken") = NumAt(pc, "woken")
    <3>1. Moves(Threads, Labels, pc, pc', t, "timedout", "idle")
      BY <1>0, <1>3, Numbers DEF Moves, Typed, Labels, GiveUp
    <3> QED BY <3>1, MoveNum
  <2>3. (\E u \in Threads : pc'[u] = "asleep") => \E u \in Threads : pc[u] = "asleep"
    BY <1>0, <1>3 DEF GiveUp, TypeOK
  <2> QED
    BY <1>0, <1>3, <2>1, <2>2, <2>3 DEF GiveUp, IInv, PermitsConserved, NoLostWakeup
<1>4. ASSUME NEW t \in Threads, Post(t) PROVE IInv'
  BY <1>4, PostKeepsInv
<1>5. CASE UNCHANGED vars
  BY <1>5 DEF vars, IInv, TypeOK, PermitsConserved, NoLostWakeup
<1> QED
  BY <1>1, <1>2, <1>3, <1>4, <1>5 DEF Next, Timeout, SpuriousWakeup

\* fifo_semaphore_init establishes it: nobody holds, nobody sleeps.
LEMMA InitInv == Init => IInv
<1> SUFFICES ASSUME Init PROVE IInv
  OBVIOUS
<1>1. TypeOK BY SemaphoreAssumption DEF Init, TypeOK, Labels
<1>2. \A u \in Threads : pc[u] = "idle" BY DEF Init
<1>3. NumAt(pc, "holding") = 0
  <2>1. \A u \in Threads : pc[u] # "holding" BY <1>2
  <2>2. Typed(Threads, Labels, pc) BY <1>1, Numbers
  <2> QED BY <2>1, <2>2, NumZero
<1> QED
  BY <1>1, <1>2, <1>3, SemaphoreAssumption
  DEF IInv, Init, PermitsConserved, NoLostWakeup

\* The inductive invariant holds in every reachable state.
LEMMA Invariance == Spec => []IInv
BY InitInv, StepKeepsInv, PTL DEF Spec

\* The count of fifo_semaphore.c never becomes negative.
THEOREM TypeCorrect == Spec => []TypeOK
BY Invariance, PTL DEF IInv

\* fifo_semaphore_wait and fifo_semaphore_post conserve permits, whatever the
\* number of threads and the order of timeouts, wakeups and newcomers.
THEOREM PermitsAreConserved == Spec => []PermitsConserved
BY Invariance, PTL DEF IInv

\* One signal per fifo_semaphore_post is enough: no thread sleeps beside a
\* permit that nobody is on the way to take.
THEOREM WakeupsAreNotLost == Spec => []NoLostWakeup
BY Invariance, PTL DEF IInv
-----------------------------------------------------------------------------
(***************************************************************************)
(* EventPair.  EventsWake is inductive with the types: only a signal makes *)
(* an event pending, and it wakes a sleeper of the same side if there is   *)
(* one; a woken thread leaves that state only when it takes the event.     *)
(***************************************************************************)

\* Every step of event_pair.c keeps the types and the wakeups.
LEMMA EventStep == EP!TypeOK /\ EventsWake /\ [EP!Next]_(EP!vars) => EP!TypeOK' /\ EventsWake'
<1> SUFFICES ASSUME EP!TypeOK, EventsWake, [EP!Next]_(EP!vars)
             PROVE  EP!TypeOK' /\ EventsWake'
  OBVIOUS
<1> USE DEF EP!TypeOK, EP!Sides, EventsWake, EP!NoLostWakeup
<1>1. ASSUME NEW t \in Threads, NEW k \in EP!Sides, EP!Signal(t, k)
      PROVE  EP!TypeOK' /\ EventsWake'
  <2>1. CASE epc' = epc /\ \A u \in Threads : epc[u] # <<"asleep", k>>
    BY <1>1, <2>1 DEF EP!Signal
  <2>2. CASE \E u \in Threads : epc[u] = <<"asleep", k>> /\ epc' = [epc EXCEPT ![u] = <<"woken", k>>]
    <3>1. PICK u \in Threads : epc[u] = <<"asleep", k>> /\ epc' = [epc EXCEPT ![u] = <<"woken", k>>]
      BY <2>2
    <3>2. EP!TypeOK' BY <1>1, <3>1 DEF EP!Signal
    <3>3. epc'[u] = <<"woken", k>> BY <3>1
    <3>4. EventsWake' BY <1>1, <3>2, <3>3 DEF EP!Signal
    <3> QED BY <3>2, <3>4
  <2> QED BY <1>1, <2>1, <2>2 DEF EP!Signal, EP!CondSignal, EP!ThreadsAt
<1>2. ASSUME NEW t \in Threads, NEW k \in EP!Sides, EP!Wait(t, k) \/ EP!Resume(t, k)
      PROVE  EP!TypeOK' /\ EventsWake'
  BY <1>2 DEF EP!Wait, EP!Resume, EP!WaitLoop
<1>3. ASSUME NEW t \in Threads, NEW k \in EP!Sides,
             EP!Timeout(t, k) \/ EP!GiveUp(t, k) \/ EP!SpuriousWakeup(t, k)
      PROVE  EP!TypeOK' /\ EventsWake'
  BY <1>3 DEF EP!Timeout, EP!GiveUp, EP!SpuriousWakeup
<1>4. CASE UNCHANGED EP!vars
  BY <1>4 DEF EP!vars
<1> QED BY <1>1, <1>2, <1>3, <1>4 DEF EP!Next

\* No signal of event_pair.c is lost, for any number of threads on both sides:
\* while an event is pending, nobody sleeps for it unless a woken thread is on
\* the way to take it.
THEOREM EventsAlwaysWake == EP!Spec => []EventsWake
<1>1. EP!Init => EP!TypeOK /\ EventsWake
  BY DEF EP!Init, EP!TypeOK, EventsWake, EP!NoLostWakeup, EP!Sides
<1> QED BY <1>1, EventStep, PTL DEF EP!Spec
-----------------------------------------------------------------------------
(***************************************************************************)
(* IpcSync.  Removed ids keep their users, so everything is said of each   *)
(* generation of ids: at most one process copies between its two           *)
(* operations on a semaphore, and a shared memory is whole unless that     *)
(* process is in the middle of a write.                                    *)
(***************************************************************************)

Cells == Samples \cup {0}

\* The ids that processes have were made, and are kept while they are used.
IpcTypes ==
    /\ latest \in 0..MaxIds /\ exists \in BOOLEAN
    /\ mem \in [1..MaxIds -> [1..2 -> Cells]]
    /\ id \in [Processes -> 0..MaxIds]
    /\ at \in [Processes -> {"out", "idle", "wait", "first", "second", "post"}]
    /\ arg \in [Processes -> Cells] /\ got \in [Processes -> Seq(Cells)]
    /\ \A p \in Processes : id[p] <= latest /\ (at[p] # "out" => id[p] >= 1)

\* One process at a time copies to or from the memory of an id, also after the
\* id was removed.
OneCopier == \A p, q \in Processes :
    Ipc!Copies(p) /\ Ipc!Copies(q) /\ id[p] = id[q] => p = q

\* The latest semaphore is 0 while somebody copies and 1 otherwise.
Home ==
    exists => /\ (\E p \in Processes : id[p] = latest /\ Ipc!Copies(p)) => val = 0
              /\ ~(\E p \in Processes : id[p] = latest /\ Ipc!Copies(p)) => val = 1

\* A memory whose halves differ has a writer between them.
MemWhole == \A g \in 1..MaxIds :
    mem[g][1] = mem[g][2] \/ \E p \in Processes : id[p] = g /\ at[p] = "second" /\ arg[p] # 0

\* What ipc_sync_read has got so far: nothing, the first half, or all of it.
GotWhole == \A p \in Processes :
    \/ got[p] = <<>>
    \/ at[p] = "second" /\ arg[p] = 0 /\ Len(got[p]) = 1 /\ got[p][1] = mem[id[p]][1]
    \/ at[p] = "post" /\ Len(got[p]) = 2 /\ got[p][1] = got[p][2]

\* Between the halves a reader has the first one, and a writer has written it.
HalfDone == \A p \in Processes : at[p] = "second" =>
    /\ arg[p] = 0 => Len(got[p]) = 1
    /\ arg[p] # 0 => mem[id[p]][1] = arg[p]

IpcInv == IpcTypes /\ OneCopier /\ Home /\ MemWhole /\ GotWhole /\ HalfDone

\* The calls that change no memory and no copying process.
LEMMA IpcOutside ==
    ASSUME IpcInv, NEW p \in Processes,
           \/ ~exists /\ Ipc!Create(p)
           \/ \E q \in Processes : Ipc!Inherit(p, q)
           \/ Ipc!Destroy(p)
           \/ \E s \in Samples \cup {Ipc!Blank} : Ipc!Call(p, s)
           \/ Ipc!Fail(p)
    PROVE  IpcInv'
<1> USE DEF Ipc!Goto, Ipc!Return, Ipc!Blank, Cells
<1>1. IpcTypes'
  <2>1. CASE ~exists /\ Ipc!Create(p)
    <3>1. latest' = latest + 1 /\ latest < MaxIds /\ exists' = TRUE
      BY <2>1 DEF Ipc!Create
    <3> QED BY <2>1, <3>1, IpcAssumption DEF IpcInv, IpcTypes, Ipc!Create
  <2>2. ASSUME NEW q \in Processes, Ipc!Inherit(p, q) PROVE IpcTypes'
    BY <2>2 DEF IpcInv, IpcTypes, Ipc!Inherit
  <2>3. CASE Ipc!Destroy(p)
    <3>1. exists' \in BOOLEAN BY <2>3, Zenon DEF Ipc!Destroy
    <3> QED BY <2>3, <3>1, IpcAssumption DEF IpcInv, IpcTypes, Ipc!Destroy
  <2>4. ASSUME NEW s \in Samples \cup {Ipc!Blank}, Ipc!Call(p, s) PROVE IpcTypes'
    BY <2>4 DEF IpcInv, IpcTypes, Ipc!Call
  <2>5. CASE Ipc!Fail(p) BY <2>5 DEF IpcInv, IpcTypes, Ipc!Fail
  <2> QED BY <2>1, <2>2, <2>3, <2>4, <2>5
<1>2. /\ at[p] \in {"out", "idle", "wait"} /\ at'[p] \in {"out", "idle", "wait"}
      /\ mem' = mem /\ (got' = got \/ got' = [got EXCEPT ![p] = <<>>])
      /\ \A q \in Processes \ {p} : id'[q] = id[q] /\ at'[q] = at[q] /\ arg'[q] = arg[q]
  BY DEF IpcInv, IpcTypes, Ipc!Create, Ipc!Inherit, Ipc!Destroy, Ipc!Call, Ipc!Fail
<1>3. \A q \in Processes : /\ Ipc!Copies(q)' <=> Ipc!Copies(q)
                           /\ Ipc!Copies(q) => q # p /\ id'[q] = id[q]
  BY <1>2 DEF Ipc!Copies
<1>4. OneCopier' BY <1>3 DEF IpcInv, OneCopier
<1>5. MemWhole' BY <1>2 DEF IpcInv, MemWhole
<1>6. GotWhole'
  BY <1>2 DEF IpcInv, IpcTypes, GotWhole
<1>7. HalfDone' BY <1>2 DEF IpcInv, IpcTypes, HalfDone
<1>8. Home'
  <2>1. CASE ~exists /\ Ipc!Create(p)
    <3>1. latest' = latest + 1 /\ val' = 1 /\ \A q \in Processes \ {p} : id'[q] <= latest
      BY <1>2, <2>1 DEF IpcInv, IpcTypes, Ipc!Create
    <3>2. ~\E q \in Processes : id'[q] = latest' /\ Ipc!Copies(q)'
      BY <1>1, <1>3, <3>1 DEF IpcInv, IpcTypes
    <3> QED BY <3>1, <3>2 DEF Home
  <2>2. CASE ~(~exists /\ Ipc!Create(p))
    <3>1. latest' = latest /\ val' = val /\ (exists' => exists)
      <4>1. CASE Ipc!Destroy(p) BY <4>1, Zenon DEF Ipc!Destroy
      <4> QED BY <2>2, <4>1 DEF Ipc!Inherit, Ipc!Call, Ipc!Fail
    <3>2. (\E q \in Processes : id'[q] = latest' /\ Ipc!Copies(q)')
             <=> \E q \in Processes : id[q] = latest /\ Ipc!Copies(q)
      BY <1>3, <3>1
    <3> QED BY <3>1, <3>2 DEF IpcInv, Home
  <2> QED BY <2>1, <2>2
<1> QED BY <1>1, <1>4, <1>5, <1>6, <1>7, <1>8 DEF IpcInv

\* semtimedop takes the semaphore: nobody else copies with this id.
LEMMA IpcDown ==
    ASSUME IpcInv, NEW p \in Processes, Ipc!Down(p)
    PROVE  IpcInv'
<1> USE DEF Ipc!Goto, Ipc!Valid
<1>1. IpcTypes' BY DEF IpcInv, IpcTypes, Ipc!Down
<1>2. /\ exists /\ id[p] = latest /\ val > 0 /\ val' = val - 1
      /\ at[p] = "wait" /\ at' = [at EXCEPT ![p] = "first"]
      /\ UNCHANGED <<latest, exists, mem, id, arg, got>>
  BY DEF Ipc!Down
<1>3. val = 1 /\ \A q \in Processes : id[q] = latest => ~Ipc!Copies(q)
  BY <1>2 DEF IpcInv, Home
<1>4. \A q \in Processes : /\ Ipc!Copies(q)' <=> Ipc!Copies(q) \/ q = p
                           /\ q # p => at'[q] = at[q]
  BY <1>2 DEF IpcInv, IpcTypes, Ipc!Copies
<1>5. OneCopier' BY <1>2, <1>3, <1>4 DEF IpcInv, OneCopier
<1>6. Home' BY <1>2, <1>3, <1>4 DEF Home
<1>7. MemWhole' BY <1>2, <1>4 DEF IpcInv, MemWhole
<1>8. GotWhole' /\ HalfDone'
  BY <1>2 DEF IpcInv, IpcTypes, GotWhole, HalfDone
<1> QED BY <1>1, <1>5, <1>6, <1>7, <1>8 DEF IpcInv

\* The call returns after semop: the memory is whole again.
LEMMA IpcPost ==
    ASSUME IpcInv, NEW p \in Processes, Ipc!Post(p)
    PROVE  IpcInv'
<1> USE DEF Ipc!Goto, Ipc!Return, Ipc!Blank, Cells
<1>1. IpcTypes' BY DEF IpcInv, IpcTypes, Ipc!Post
<1>2. /\ at[p] = "post" /\ at' = [at EXCEPT ![p] = "idle"]
      /\ arg' = [arg EXCEPT ![p] = 0] /\ got' = [got EXCEPT ![p] = <<>>]
      /\ UNCHANGED <<latest, exists, mem, id>>
  BY DEF Ipc!Post
<1>3. \A q \in Processes : /\ Ipc!Copies(q)' <=> Ipc!Copies(q) /\ q # p
                           /\ q # p => at'[q] = at[q] /\ arg'[q] = arg[q] /\ got'[q] = got[q]
  BY <1>2 DEF IpcInv, IpcTypes, Ipc!Copies
<1>4. Ipc!Copies(p) BY <1>2 DEF Ipc!Copies
<1>5. OneCopier' BY <1>2, <1>3 DEF IpcInv, OneCopier
<1>6. Home'
  <2>1. CASE exists /\ id[p] = latest
    <3>1. val = 0 BY <1>4, <2>1 DEF IpcInv, Home
    <3>2. val' = 1 BY <2>1, <3>1 DEF Ipc!Post, Ipc!Valid
    <3>3. ~\E q \in Processes : id'[q] = latest' /\ Ipc!Copies(q)'
      BY <1>2, <1>3, <1>4, <2>1 DEF IpcInv, OneCopier
    <3> QED BY <3>2, <3>3 DEF Home
  <2>2. CASE exists /\ id[p] # latest
    <3>1. val' = val BY <2>2 DEF Ipc!Post, Ipc!Valid
    <3>2. (\E q \in Processes : id'[q] = latest' /\ Ipc!Copies(q)')
             <=> \E q \in Processes : id[q] = latest /\ Ipc!Copies(q)
      BY <1>2, <1>3, <2>2
    <3> QED BY <1>2, <3>1, <3>2 DEF IpcInv, Home
  <2>3. CASE ~exists BY <1>2, <2>3 DEF Home
  <2> QED BY <2>1, <2>2, <2>3
<1>7. MemWhole' BY <1>2, <1>3 DEF IpcInv, MemWhole
<1>8. GotWhole' /\ HalfDone'
  BY <1>2, <1>3 DEF IpcInv, IpcTypes, GotWhole, HalfDone
<1> QED BY <1>1, <1>5, <1>6, <1>7, <1>8 DEF IpcInv

\* Half of the memcpy, of a read or of a write.
LEMMA IpcCopy ==
    ASSUME IpcInv, NEW p \in Processes, Ipc!Copy(p)
    PROVE  IpcInv'
<1> USE DEF Ipc!Goto, Ipc!Blank, Cells
<1> DEFINE k == IF at[p] = "first" THEN 1 ELSE 2
           g == id[p]
<1>1. /\ at[p] \in {"first", "second"} /\ k \in 1..2
      /\ at' = [at EXCEPT ![p] = IF at[p] = "first" THEN "second" ELSE "post"]
      /\ arg[p] = 0 => got' = [got EXCEPT ![p] = Append(@, mem[g][k])] /\ mem' = mem
      /\ arg[p] # 0 => mem' = [mem EXCEPT ![g][k] = arg[p]] /\ got' = got
      /\ UNCHANGED <<latest, exists, val, id, arg>>
  BY DEF Ipc!Copy
<1>2. g \in 1..MaxIds /\ mem[g] \in [1..2 -> Cells] /\ arg[p] \in Cells /\ got[p] \in Seq(Cells)
  BY <1>1, IpcAssumption DEF IpcInv, IpcTypes
<1> HIDE DEF k, g
<1>3. IpcTypes'
  <2>1. mem' \in [1..MaxIds -> [1..2 -> Cells]]
    <3>1. CASE arg[p] = 0 BY <1>1, <3>1 DEF IpcInv, IpcTypes
    <3>2. CASE arg[p] # 0
      <4>1. [mem[g] EXCEPT ![k] = arg[p]] \in [1..2 -> Cells] BY <1>1, <1>2
      <4> QED BY <1>1, <1>2, <3>2, <4>1 DEF IpcInv, IpcTypes
    <3> QED BY <3>1, <3>2
  <2>2. got' \in [Processes -> Seq(Cells)]
    <3>1. CASE arg[p] = 0
      <4>1. Append(got[p], mem[g][k]) \in Seq(Cells) BY <1>1, <1>2
      <4> QED BY <1>1, <3>1, <4>1 DEF IpcInv, IpcTypes
    <3>2. CASE arg[p] # 0 BY <1>1, <3>2 DEF IpcInv, IpcTypes
    <3> QED BY <3>1, <3>2
  <2> QED BY <1>1, <2>1, <2>2 DEF IpcInv, IpcTypes
<1>4. /\ \A q \in Processes : /\ Ipc!Copies(q)' <=> Ipc!Copies(q)
                              /\ q # p => at'[q] = at[q] /\ got'[q] = got[q]
      /\ Ipc!Copies(p)
  BY <1>1 DEF IpcInv, IpcTypes, Ipc!Copies
<1>5. OneCopier' BY <1>1, <1>4 DEF IpcInv, OneCopier
<1>6. Home' BY <1>1, <1>4 DEF IpcInv, Home
<1>7. \A q \in Processes \ {p} : at[q] \in {"first", "second", "post"} => id[q] # g
  BY <1>4 DEF IpcInv, OneCopier, Ipc!Copies, g
<1>8. \A h \in 1..MaxIds \ {g} : mem'[h] = mem[h]
  BY <1>1, <1>2 DEF IpcInv, IpcTypes
<1>9. \A q \in Processes \ {p} :
         \/ got'[q] = <<>>
         \/ at'[q] = "second" /\ arg'[q] = 0 /\ Len(got'[q]) = 1 /\ got'[q][1] = mem'[id'[q]][1]
         \/ at'[q] = "post" /\ Len(got'[q]) = 2 /\ got'[q][1] = got'[q][2]
  <2> TAKE q \in Processes \ {p}
  <2>1. at'[q] = at[q] /\ got'[q] = got[q] /\ arg'[q] = arg[q] /\ id'[q] = id[q]
    BY <1>1, <1>4
  <2>2. at[q] = "second" => mem'[id[q]] = mem[id[q]]
    BY <1>7, <1>8, IpcAssumption DEF IpcInv, IpcTypes
  <2> QED BY <2>1, <2>2 DEF IpcInv, GotWhole
<1>10. \A q \in Processes \ {p} : at'[q] = "second" =>
          /\ arg'[q] = 0 => Len(got'[q]) = 1
          /\ arg'[q] # 0 => mem'[id'[q]][1] = arg'[q]
  <2> TAKE q \in Processes \ {p}
  <2>1. at'[q] = at[q] /\ got'[q] = got[q] /\ arg'[q] = arg[q] /\ id'[q] = id[q]
    BY <1>1, <1>4
  <2>2. at[q] = "second" => mem'[id[q]] = mem[id[q]]
    BY <1>7, <1>8, IpcAssumption DEF IpcInv, IpcTypes
  <2> QED BY <2>1, <2>2 DEF IpcInv, HalfDone
<1>11. \A h \in 1..MaxIds \ {g} : 
          mem'[h][1] = mem'[h][2] \/ \E q \in Processes : id'[q] = h /\ at'[q] = "second" /\ arg'[q] # 0
  BY <1>1, <1>4, <1>8 DEF IpcInv, MemWhole, g
<1>12. CASE at[p] = "first"
  <2>1. k = 1 /\ at'[p] = "second" /\ got[p] = <<>>
    BY <1>1, <1>12 DEF k, IpcInv, IpcTypes, GotWhole
  <2>2. CASE arg[p] = 0
    <3>1. Len(got'[p]) = 1 /\ got'[p][1] = mem'[g][1]
      BY <1>1, <1>2, <2>1, <2>2 DEF IpcInv, IpcTypes
    <3>2. mem'[g][1] = mem'[g][2]
      BY <1>1, <1>2, <1>7, <1>12, <2>2 DEF IpcInv, MemWhole
    <3>3. MemWhole' BY <1>11, <3>2 DEF MemWhole
    <3>4. GotWhole' BY <1>1, <1>9, <2>1, <2>2, <3>1 DEF GotWhole, g
    <3>5. HalfDone' BY <1>1, <1>10, <2>2, <3>1 DEF HalfDone
    <3> QED BY <1>3, <1>5, <1>6, <3>3, <3>4, <3>5 DEF IpcInv
  <2>3. CASE arg[p] # 0
    <3>1. MemWhole' BY <1>1, <1>11, <2>1, <2>3 DEF MemWhole, g
    <3>2. GotWhole' BY <1>1, <1>9, <2>1, <2>3 DEF GotWhole
    <3>3. mem'[g][1] = arg[p] BY <1>1, <1>2, <2>1, <2>3 DEF IpcInv, IpcTypes
    <3>4. HalfDone' BY <1>1, <1>10, <2>3, <3>3 DEF HalfDone, g
    <3> QED BY <1>3, <1>5, <1>6, <3>1, <3>2, <3>4 DEF IpcInv
  <2> QED BY <2>2, <2>3
<1>13. CASE at[p] = "second"
  <2>1. k = 2 /\ at'[p] = "post" BY <1>1, <1>13 DEF k, IpcInv, IpcTypes
  <2>2. HalfDone' BY <1>10, <2>1 DEF HalfDone
  <2>3. CASE arg[p] = 0
    <3>1. mem'[g][1] = mem'[g][2] /\ mem' = mem
      BY <1>1, <1>2, <1>7, <1>13, <2>3 DEF IpcInv, MemWhole
    <3>2. Len(got[p]) = 1 /\ got[p][1] = mem[g][1]
      BY <1>13, <2>3 DEF IpcInv, GotWhole, HalfDone, g
    <3>3. Len(got'[p]) = 2 /\ got'[p][1] = mem[g][1] /\ got'[p][2] = mem[g][2]
      <4>1. got'[p] = Append(got[p], mem[g][2])
        BY <1>1, <2>1, <2>3 DEF IpcInv, IpcTypes
      <4>2. mem[g][2] \in Cells BY <1>2
      <4> QED BY <1>2, <3>2, <4>1, <4>2
    <3>4. MemWhole' BY <1>11, <3>1 DEF MemWhole
    <3>5. GotWhole' BY <1>9, <2>1, <3>1, <3>3 DEF GotWhole
    <3> QED BY <1>3, <1>5, <1>6, <2>2, <3>4, <3>5 DEF IpcInv
  <2>4. CASE arg[p] # 0
    <3>1. mem'[g] = [mem[g] EXCEPT ![2] = arg[p]]
      BY <1>1, <1>2, <2>1, <2>4 DEF IpcInv, IpcTypes
    <3>2. mem[g][1] = arg[p] BY <1>13, <2>4 DEF IpcInv, HalfDone, g
    <3>3. mem'[g][1] = mem'[g][2] BY <1>2, <3>1, <3>2
    <3>4. MemWhole' BY <1>11, <3>3 DEF MemWhole
    <3>5. got'[p] = <<>> BY <1>1, <1>13, <2>4 DEF IpcInv, GotWhole
    <3>6. GotWhole' BY <1>9, <3>5 DEF GotWhole
    <3> QED BY <1>3, <1>5, <1>6, <2>2, <3>4, <3>6 DEF IpcInv
  <2> QED BY <2>3, <2>4
<1> QED BY <1>1, <1>12, <1>13

\* ipc_sync_init, ipc_sync_destroy, ipc_sync_write and ipc_sync_read keep the
\* invariant.
LEMMA IpcStep == IpcInv /\ [Ipc!Next]_(Ipc!vars) => IpcInv'
<1> SUFFICES ASSUME IpcInv, [Ipc!Next]_(Ipc!vars) PROVE IpcInv'
  OBVIOUS
<1>1. CASE UNCHANGED Ipc!vars
  BY <1>1 DEF Ipc!vars, IpcInv, IpcTypes, OneCopier, Home, MemWhole, GotWhole, HalfDone,
              Ipc!Copies
<1> QED
  BY <1>1, IpcOutside, IpcDown, IpcCopy, IpcPost DEF Ipc!Next, Ipc!Use, Ipc!Step

\* Before any process has called ipc_sync_init there is nothing to agree.
LEMMA IpcInit == Ipc!Init => IpcInv
<1> SUFFICES ASSUME Ipc!Init PROVE IpcInv
  OBVIOUS
<1>1. IpcTypes
  <2>1. <<0, 0>> \in [1..2 -> Cells] /\ <<>> \in Seq(Cells) /\ 0 \in Cells BY DEF Cells
  <2>2. mem \in [1..MaxIds -> [1..2 -> Cells]] BY <2>1 DEF Ipc!Init, Ipc!Blank
  <2>3. arg \in [Processes -> Cells] /\ got \in [Processes -> Seq(Cells)]
    BY <2>1 DEF Ipc!Init, Ipc!Blank
  <2>4. latest \in 0..MaxIds /\ id \in [Processes -> 0..MaxIds]
    BY IpcAssumption DEF Ipc!Init
  <2>5. /\ at \in [Processes -> {"out", "idle", "wait", "first", "second", "post"}]
        /\ \A p \in Processes : id[p] <= latest /\ at[p] = "out"
    BY DEF Ipc!Init
  <2>6. exists \in BOOLEAN BY DEF Ipc!Init
  <2> QED BY <2>2, <2>3, <2>4, <2>5, <2>6 DEF IpcTypes
<1> QED
  BY <1>1 DEF Ipc!Init, IpcInv, OneCopier, Home, MemWhole, GotWhole, HalfDone, Ipc!Copies

\* ipc_sync_read never returns a mixture of two samples, for any number of
\* processes, samples and removed ids.
THEOREM ReadsAlwaysWhole == Ipc!Spec => []ReadsWhole
<1>1. IpcInv => ReadsWhole
  <2>1. Len(<<>>) = 0 OBVIOUS
  <2> QED BY <2>1 DEF IpcInv, GotWhole, ReadsWhole, Ipc!ReadsWhole
<1> QED BY <1>1, IpcInit, IpcStep, PTL DEF Ipc!Spec

\* The System V semaphore is 1 whenever nobody is between its two operations,
\* whichever way the calls of ipc_sync.c returned.
THEOREM SemaphoreAlwaysHome == Ipc!Spec => []SemaphoreHome
<1>1. IpcInv => SemaphoreHome
  BY DEF IpcInv, Home, SemaphoreHome, Ipc!SemaphoreHome
<1> QED BY <1>1, IpcInit, IpcStep, PTL DEF Ipc!Spec
==============================================================================
