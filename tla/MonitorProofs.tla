---------------------------- MODULE MonitorProofs ----------------------------
(***************************************************************************)
(* The safety of monitor.c for any number of writers and readers and any   *)
(* size of the ring.                                                       *)
(*                                                                         *)
(* RingFits (tail is count cells after head) makes the ring a queue, and   *)
(* ArgFits says that only valid readings are stored.  NoLostWakeup is      *)
(* inductive by itself.  For the detector, TableFits: lock 0 is only ever  *)
(* recorded for a writer inside the monitor and lock 1 for a reader, so    *)
(* that a caller on its way in owns nothing.                               *)
(***************************************************************************)
EXTENDS Monitor, PthreadTheorems, SequenceTheorems

RingFits == tail = (head + count) % Size

ArgFits == \A w \in Writers : wpc[w] # "idle" => arg[w] \in Values

TableFits ==
    /\ locks \in [0..1 -> Writers \cup Readers \cup {None}]
    /\ locks[0] # None => locks[0] \in Writers /\ wpc[locks[0]] # "idle"
    /\ locks[1] # None => locks[1] \in Readers /\ rpc[locks[1]] # "idle"

IInv == TypeOK /\ RingFits /\ ArgFits /\ NoLostWakeup /\ TableFits

\* The modulus of the ring's indices, without the modulus.
LEMMA RingMod ==
    ASSUME NEW a \in 0..(Size - 1), NEW b \in 0..Size
    PROVE  /\ (a + b) % Size = IF a + b < Size THEN a + b ELSE a + b - Size
           /\ (a + b) % Size \in 0..(Size - 1)
<1>0. Size \in Nat \ {0} BY MonitorAssumption
<1>1. CASE a + b < Size
  <2>1. a + b \in 0..(Size - 1) BY <1>0, <1>1
  <2>2. (a + b) % Size = a + b BY <1>0, <2>1
  <2> QED BY <1>1, <2>1, <2>2
<1>2. CASE ~(a + b < Size)
  <2> DEFINE y == a + b - Size
  <2>1. y \in 0..(Size - 1) /\ a + b = y + Size BY <1>0, <1>2
  <2>2. ASSUME NEW z \in 0..(Size - 1) PROVE (z + Size) % Size = z BY <1>0
  <2>3. (a + b) % Size = y BY <2>1, <2>2
  <2> QED BY <1>2, <2>1, <2>3
<1> QED BY <1>1, <1>2

\* While somebody of f sleeps, n cells are matched by woken threads.
Matched(P, f, n) == (\E u \in P : f[u] = "asleep") => n <= NumAt(f, "woken")

\* A thread that goes anywhere but to sleep uses up at most its own wakeup.
LEMMA MoveMatches ==
    ASSUME NEW P, NEW f, Typed(P, Labels, f), NEW t \in P,
           NEW new \in Labels \ {"asleep"}, f[t] # new,
           NEW g, g = [f EXCEPT ![t] = new],
           NEW n \in Int, Matched(P, f, n)
    PROVE  /\ Typed(P, Labels, g)
           /\ Matched(P, g, IF f[t] = "woken" THEN n - 1 ELSE n)
<1>1. Moves(P, Labels, f, g, t, f[t], new) BY DEF Moves
<1>2. /\ Typed(P, Labels, g)
      /\ NumAt(g, "woken") =
            IF new = "woken" THEN NumAt(f, "woken") + 1
            ELSE IF f[t] = "woken" THEN NumAt(f, "woken") - 1 ELSE NumAt(f, "woken")
  BY <1>1, MoveNum
<1>3. NumAt(f, "woken") \in Nat BY NumType
<1>4. \A u \in P : g[u] = "asleep" => f[u] = "asleep" BY DEF Typed
<1> QED BY <1>2, <1>3, <1>4 DEF Matched

\* A signal matches one cell more.
LEMMA SignalMatches ==
    ASSUME NEW P, NEW f, Typed(P, Labels, f),
           NEW g \in CondSignal(f, "asleep", "woken"),
           NEW n \in Int, Matched(P, f, n)
    PROVE  /\ Typed(P, Labels, g)
           /\ Matched(P, g, n + 1)
           /\ \A u \in P : g[u] = f[u] \/ (f[u] = "asleep" /\ g[u] = "woken")
<1>0. "woken" \in Labels BY DEF Labels
<1>1. CASE g = f /\ \A u \in P : f[u] # "asleep"
  BY <1>1 DEF Matched
<1>2. CASE \E u \in P : f[u] = "asleep" /\ g = [f EXCEPT ![u] = "woken"]
  <2>1. PICK t \in P : f[t] = "asleep" /\ g = [f EXCEPT ![t] = "woken"] BY <1>2
  <2>2. Moves(P, Labels, f, g, t, "asleep", "woken") BY <1>0, <2>1 DEF Moves
  <2>3. Typed(P, Labels, g) /\ NumAt(g, "woken") = NumAt(f, "woken") + 1 BY <2>2, MoveNum
  <2>5. NumAt(f, "woken") \in Nat BY NumType
  <2>6. \A u \in P : g[u] = f[u] \/ (f[u] = "asleep" /\ g[u] = "woken") BY <2>1 DEF Typed
  <2> QED BY <2>1, <2>3, <2>5, <2>6 DEF Matched
<1> QED BY <1>0, <1>1, <1>2, SignalNum

\* NoLostWakeup speaks of the two condition variables alike.
LEMMA Matches ==
    ASSUME wpc \in [Writers -> Labels], rpc \in [Readers -> Labels]
    PROVE  NoLostWakeup <=> Matched(Writers, wpc, Size - count) /\ Matched(Readers, rpc, count)
<1>1. ThreadsAt(wpc, "asleep") # {} <=> \E u \in Writers : wpc[u] = "asleep"
  BY DEF ThreadsAt
<1>2. ThreadsAt(rpc, "asleep") # {} <=> \E u \in Readers : rpc[u] = "asleep"
  BY DEF ThreadsAt
<1> QED BY <1>1, <1>2 DEF NoLostWakeup, Matched

\* The invariant in the form the provers use it.
LEMMA Facts ==
    ASSUME IInv
    PROVE  /\ Typed(Writers, Labels, wpc) /\ Typed(Readers, Labels, rpc)
           /\ Matched(Writers, wpc, Size - count) /\ Matched(Readers, rpc, count)
           /\ Size \in Nat \ {0} /\ count \in 0..Size
           /\ head \in 0..(Size - 1) /\ tail \in 0..(Size - 1)
<1>1. TypeOK /\ NoLostWakeup BY DEF IInv
<1>2. /\ Typed(Writers, Labels, wpc) /\ Typed(Readers, Labels, rpc)
      /\ Size \in Nat \ {0} /\ count \in 0..Size
      /\ head \in 0..(Size - 1) /\ tail \in 0..(Size - 1)
  BY <1>1, MonitorAssumption DEF TypeOK, Typed
<1> QED BY <1>1, <1>2, Matches DEF Typed

\* The same, of the state after a step.
LEMMA MatchesAfter ==
    ASSUME TypeOK', Matched(Writers, wpc', Size - count'), Matched(Readers, rpc', count')
    PROVE  NoLostWakeup'
<1>1. ThreadsAt(wpc', "asleep") # {} <=> \E u \in Writers : wpc'[u] = "asleep"
  BY DEF ThreadsAt, TypeOK
<1>2. ThreadsAt(rpc', "asleep") # {} <=> \E u \in Readers : rpc'[u] = "asleep"
  BY DEF ThreadsAt, TypeOK
<1> QED BY <1>1, <1>2 DEF NoLostWakeup, Matched

\* monitor_write enters the detector's table, or leaves it.
LEMMA WriteBeginKeeps ==
    ASSUME IInv, NEW w \in Writers, NEW v \in Values, WriteBegin(w, v)
    PROVE  IInv'
<1>1. /\ wpc[w] = "idle" /\ wpc' = [wpc EXCEPT ![w] = "enter"]
      /\ arg' = [arg EXCEPT ![w] = v] /\ locks' = [locks EXCEPT ![0] = w]
      /\ UNCHANGED <<data, head, tail, count, rpc, delivered>>
  BY DEF WriteBegin, ring, Detector!Lock
<1>2. "enter" \in Labels \ {"asleep"} BY DEF Labels
<1>3. Matched(Writers, wpc', Size - count)
  <2>1. Size - count \in Int BY Facts
  <2> QED BY <1>1, <1>2, <2>1, Facts, MoveMatches
<1>4. TypeOK' BY <1>1, <1>2 DEF IInv, TypeOK
<1>5. RingFits' BY <1>1 DEF IInv, RingFits
<1>6. wpc'[w] = "enter" /\ \A u \in Writers : u # w => wpc'[u] = wpc[u]
  BY <1>1 DEF IInv, TypeOK
<1>7. ArgFits' BY <1>1, <1>6 DEF IInv, TypeOK, ArgFits
<1>8. NoLostWakeup' BY <1>1, <1>3, <1>4, Facts, MatchesAfter
<1>9. TableFits' BY <1>1, <1>6 DEF IInv, TableFits
<1> QED BY <1>4, <1>5, <1>7, <1>8, <1>9 DEF IInv

\* A writer leaves, and with it its record in the detector's table.
LEMMA WriteEndKeeps ==
    ASSUME IInv, NEW w \in Writers, WriteEnd(w)
    PROVE  IInv'
<1>1. /\ wpc[w] = "exit" /\ wpc' = [wpc EXCEPT ![w] = "idle"]
      /\ arg' = [arg EXCEPT ![w] = NoValue]
      /\ locks' = [locks EXCEPT ![0] = IF @ = w THEN None ELSE @]
      /\ UNCHANGED <<data, head, tail, count, rpc, delivered>>
  BY DEF WriteEnd, ring, Detector!Unlock
<1>2. "idle" \in Labels \ {"asleep"} BY DEF Labels
<1>3. Matched(Writers, wpc', Size - count)
  <2>1. Size - count \in Int BY Facts
  <2> QED BY <1>1, <1>2, <2>1, Facts, MoveMatches
<1>4. TypeOK' BY <1>1, <1>2 DEF IInv, TypeOK
<1>5. RingFits' BY <1>1 DEF IInv, RingFits
<1>6. wpc'[w] = "idle" /\ \A u \in Writers : u # w => wpc'[u] = wpc[u]
  BY <1>1 DEF IInv, TypeOK
<1>7. ArgFits' BY <1>1, <1>6 DEF IInv, TypeOK, ArgFits
<1>8. NoLostWakeup' BY <1>1, <1>3, <1>4, Facts, MatchesAfter
<1>9. TableFits' BY <1>1, <1>6 DEF IInv, TableFits
<1> QED BY <1>4, <1>5, <1>7, <1>8, <1>9 DEF IInv

\* monitor_read enters the detector's table, or leaves it.
LEMMA ReadBeginKeeps ==
    ASSUME IInv, NEW r \in Readers, ReadBegin(r)
    PROVE  IInv'
<1>1. /\ rpc[r] = "idle" /\ rpc' = [rpc EXCEPT ![r] = "enter"]
      /\ locks' = [locks EXCEPT ![1] = r]
      /\ UNCHANGED <<data, head, tail, count, wpc, arg, delivered>>
  BY DEF ReadBegin, ring, Detector!Lock
<1>2. "enter" \in Labels \ {"asleep"} BY DEF Labels
<1>3. Matched(Readers, rpc', count)
  <2>1. count \in Int BY Facts
  <2> QED BY <1>1, <1>2, <2>1, Facts, MoveMatches
<1>4. TypeOK' BY <1>1, <1>2 DEF IInv, TypeOK
<1>5. RingFits' /\ ArgFits' BY <1>1 DEF IInv, RingFits, ArgFits
<1>6. rpc'[r] = "enter" /\ \A u \in Readers : u # r => rpc'[u] = rpc[u]
  BY <1>1 DEF IInv, TypeOK
<1>7. NoLostWakeup' BY <1>1, <1>3, <1>4, Facts, MatchesAfter
<1>8. TableFits' BY <1>1, <1>6 DEF IInv, TableFits
<1> QED BY <1>4, <1>5, <1>7, <1>8 DEF IInv

\* A reader leaves in the same way.
LEMMA ReadEndKeeps ==
    ASSUME IInv, NEW r \in Readers, ReadEnd(r)
    PROVE  IInv'
<1>1. /\ rpc[r] = "exit" /\ rpc' = [rpc EXCEPT ![r] = "idle"]
      /\ locks' = [locks EXCEPT ![1] = IF @ = r THEN None ELSE @]
      /\ UNCHANGED <<data, head, tail, count, wpc, arg, delivered>>
  BY DEF ReadEnd, ring, Detector!Unlock
<1>2. "idle" \in Labels \ {"asleep"} BY DEF Labels
<1>3. Matched(Readers, rpc', count)
  <2>1. count \in Int BY Facts
  <2> QED BY <1>1, <1>2, <2>1, Facts, MoveMatches
<1>4. TypeOK' BY <1>1, <1>2 DEF IInv, TypeOK
<1>5. RingFits' /\ ArgFits' BY <1>1 DEF IInv, RingFits, ArgFits
<1>6. rpc'[r] = "idle" /\ \A u \in Readers : u # r => rpc'[u] = rpc[u]
  BY <1>1 DEF IInv, TypeOK
<1>7. NoLostWakeup' BY <1>1, <1>3, <1>4, Facts, MatchesAfter
<1>8. TableFits' BY <1>1, <1>6 DEF IInv, TableFits
<1> QED BY <1>4, <1>5, <1>7, <1>8 DEF IInv

\* A thread goes to sleep, wakes up by itself or times out.
WriterMoves(w) ==
    \/ wpc[w] \in {"enter", "woken"} /\ count = Size
       /\ wpc' = [wpc EXCEPT ![w] = "asleep"]
    \/ wpc[w] = "asleep" /\ wpc' = [wpc EXCEPT ![w] = "timedout"]
    \/ wpc[w] = "timedout" /\ wpc' = [wpc EXCEPT ![w] = "exit"]
    \/ wpc[w] = "asleep" /\ wpc' = [wpc EXCEPT ![w] = "woken"]

ReaderMoves(r) ==
    \/ rpc[r] \in {"enter", "woken"} /\ count = 0
       /\ rpc' = [rpc EXCEPT ![r] = "asleep"]
    \/ rpc[r] = "asleep" /\ rpc' = [rpc EXCEPT ![r] = "timedout"]
    \/ rpc[r] = "timedout" /\ rpc' = [rpc EXCEPT ![r] = "exit"]
    \/ rpc[r] = "asleep" /\ rpc' = [rpc EXCEPT ![r] = "woken"]

Waits ==
    /\ UNCHANGED <<data, head, tail, count, arg, delivered, locks>>
    /\ \/ UNCHANGED rpc /\ \E w \in Writers : WriterMoves(w)
       \/ UNCHANGED wpc /\ \E r \in Readers : ReaderMoves(r)

\* That changes nothing in the ring.
LEMMA WaitsKeeps ==
    ASSUME IInv, Waits
    PROVE  IInv'
<1>0. {"asleep", "timedout", "exit", "woken"} \subseteq Labels BY DEF Labels
<1>1. ASSUME NEW P, NEW f, Typed(P, Labels, f)
      PROVE  Matched(P, f, 0)
  BY <1>1, NumType DEF Matched
<1>2. CASE UNCHANGED rpc /\ \E w \in Writers : WriterMoves(w)
  <2>1. PICK w \in Writers : WriterMoves(w)
    BY <1>2
  <2>2. wpc' \in [Writers -> Labels] BY <1>0, <2>1 DEF IInv, TypeOK, WriterMoves
  <2>3. Typed(Writers, Labels, wpc') BY <2>2, MonitorAssumption DEF Typed
  <2>4. Size - count \in Int BY Facts
  <2>6. ASSUME count # Size PROVE Matched(Writers, wpc', Size - count)
    <3>1. PICK new \in Labels \ {"asleep"} :
              wpc[w] # "woken" /\ wpc[w] # new /\ wpc' = [wpc EXCEPT ![w] = new]
      BY <1>0, <2>1, <2>6 DEF WriterMoves
    <3>2. Matched(Writers, wpc', IF wpc[w] = "woken" THEN (Size - count) - 1 ELSE Size - count)
      BY <2>4, <3>1, Facts, MoveMatches
    <3> QED BY <3>1, <3>2
  <2>7. Matched(Writers, wpc', Size - count)
    <3>1. count = Size => Size - count = 0 BY Facts
    <3> QED BY <1>1, <2>3, <2>6, <3>1
  <2>9. \A u \in Writers : wpc'[u] # "idle" <=> wpc[u] # "idle"
    BY <2>1 DEF IInv, TypeOK, WriterMoves
  <2>10. TypeOK' /\ RingFits' BY <1>2, <2>2 DEF Waits, IInv, TypeOK, RingFits
  <2>8. NoLostWakeup' BY <1>2, <2>7, <2>10, Facts, MatchesAfter DEF Waits
  <2>11. ArgFits' /\ TableFits' BY <1>2, <2>9 DEF Waits, IInv, ArgFits, TableFits
  <2> QED BY <2>8, <2>10, <2>11 DEF IInv
<1>3. CASE UNCHANGED wpc /\ \E r \in Readers : ReaderMoves(r)
  <2>1. PICK r \in Readers : ReaderMoves(r)
    BY <1>3
  <2>2. rpc' \in [Readers -> Labels] BY <1>0, <2>1 DEF IInv, TypeOK, ReaderMoves
  <2>3. Typed(Readers, Labels, rpc') BY <2>2, MonitorAssumption DEF Typed
  <2>4. count \in Int BY Facts
  <2>5. ASSUME count # 0 PROVE Matched(Readers, rpc', count)
    <3>1. PICK new \in Labels \ {"asleep"} :
              rpc[r] # "woken" /\ rpc[r] # new /\ rpc' = [rpc EXCEPT ![r] = new]
      BY <1>0, <2>1, <2>5 DEF ReaderMoves
    <3>2. Matched(Readers, rpc', IF rpc[r] = "woken" THEN (count) - 1 ELSE count)
      BY <2>4, <3>1, Facts, MoveMatches
    <3> QED BY <3>1, <3>2
  <2>6. Matched(Readers, rpc', count) BY <1>1, <2>3, <2>5
  <2>8. \A u \in Readers : rpc'[u] # "idle" <=> rpc[u] # "idle"
    BY <2>1 DEF IInv, TypeOK, ReaderMoves
  <2>9. TypeOK' /\ RingFits' BY <1>3, <2>2 DEF Waits, IInv, TypeOK, RingFits
  <2>7. NoLostWakeup' BY <1>3, <2>6, <2>9, Facts, MatchesAfter DEF Waits
  <2>10. ArgFits' /\ TableFits' BY <1>3, <2>8 DEF Waits, IInv, ArgFits, TableFits
  <2> QED BY <2>7, <2>9, <2>10 DEF IInv
<1> QED BY <1>2, <1>3 DEF Waits

\* A writer stores its value, and signals one reader.
Stores(w) ==
    /\ wpc[w] \in {"enter", "woken"} /\ count # Size /\ Store(w)
    /\ UNCHANGED <<arg, delivered, locks>>

\* A reader fetches the oldest value, and signals one writer.
Fetches(r) ==
    /\ rpc[r] \in {"enter", "woken"} /\ count # 0 /\ Fetch(r)
    /\ UNCHANGED <<arg, locks>>

\* A store uses up a free cell and makes a full one, for which it wakes a reader.
LEMMA StoresKeeps ==
    ASSUME IInv, NEW w \in Writers, Stores(w)
    PROVE  IInv'
<1>1. /\ wpc[w] \in {"enter", "woken"} /\ wpc' = [wpc EXCEPT ![w] = "exit"]
      /\ data' = [data EXCEPT ![tail] = arg[w]] /\ tail' = (tail + 1) % Size
      /\ count' = count + 1 /\ count # Size
      /\ rpc' \in CondSignal(rpc, "asleep", "woken")
      /\ UNCHANGED <<head, arg, delivered, locks>>
  BY DEF Stores, Store
<1>2. "exit" \in Labels \ {"asleep"} BY DEF Labels
<1>3. count \in Int /\ Size - count \in Int /\ count + 1 \in 0..Size BY <1>1, Facts
<1>4. /\ Typed(Readers, Labels, rpc') /\ Matched(Readers, rpc', count + 1)
      /\ \A u \in Readers : rpc'[u] = rpc[u] \/ (rpc[u] = "asleep" /\ rpc'[u] = "woken")
  BY <1>1, <1>3, Facts, SignalMatches
<1>5. Matched(Writers, wpc', Size - (count + 1))
  <2>0. wpc[w] # "exit" BY <1>1
  <2>1. Matched(Writers, wpc', IF wpc[w] = "woken" THEN (Size - count) - 1 ELSE Size - count)
    BY <1>1, <1>2, <1>3, <2>0, Facts, MoveMatches
  <2>2. Typed(Writers, Labels, wpc') BY <1>1, <1>2, <1>3, Facts, MoveMatches
  <2>3. NumAt(wpc', "woken") \in Nat BY <2>2, NumType
  <2> QED BY <1>3, <2>1, <2>3, Facts DEF Matched
<1>6. 1 \in 0..Size /\ tail \in 0..(Size - 1) BY Facts
<1>7. tail' \in 0..(Size - 1) BY <1>1, <1>6, RingMod
<1>8. TypeOK'
  <2>1. data' \in [0..(Size - 1) -> Values \cup {NoValue}] BY <1>1 DEF IInv, TypeOK
  <2>2. rpc' \in [Readers -> Labels] BY <1>4 DEF Typed
  <2>3. wpc' \in [Writers -> Labels] BY <1>1, <1>2 DEF IInv, TypeOK
  <2> QED BY <1>1, <1>3, <1>7, <2>1, <2>2, <2>3 DEF IInv, TypeOK
<1>9. RingFits'
  <2>1. tail = IF head + count < Size THEN head + count ELSE head + count - Size
    BY Facts, RingMod DEF IInv, RingFits
  <2>2. tail' = IF tail + 1 < Size THEN tail + 1 ELSE tail + 1 - Size
    BY <1>1, <1>6, RingMod
  <2>3. (head + (count + 1)) % Size =
           IF head + (count + 1) < Size THEN head + (count + 1) ELSE head + (count + 1) - Size
    BY <1>3, Facts, RingMod
  <2>4. tail' = (head + (count + 1)) % Size BY <1>3, <2>1, <2>2, <2>3, Facts
  <2> QED BY <1>1, <2>4 DEF RingFits
<1>10. wpc'[w] = "exit" /\ \A u \in Writers : u # w => wpc'[u] = wpc[u]
  BY <1>1 DEF IInv, TypeOK
<1>11. ArgFits' BY <1>1, <1>10 DEF IInv, ArgFits
<1>12. NoLostWakeup' BY <1>1, <1>4, <1>5, <1>8, MatchesAfter
<1>13. TableFits'
  <2>1. \A u \in Readers : rpc[u] # "idle" => rpc'[u] # "idle" BY <1>4
  <2>2. \A u \in Writers : wpc[u] # "idle" => wpc'[u] # "idle" BY <1>10
  <2> QED BY <1>1, <2>1, <2>2 DEF IInv, TableFits
<1> QED BY <1>8, <1>9, <1>11, <1>12, <1>13 DEF IInv

\* A fetch uses up a full cell and makes a free one, for which it wakes a writer.
LEMMA FetchesKeeps ==
    ASSUME IInv, NEW r \in Readers, Fetches(r)
    PROVE  IInv'
<1>1. /\ rpc[r] \in {"enter", "woken"} /\ rpc' = [rpc EXCEPT ![r] = "exit"]
      /\ delivered' = data[head] /\ head' = (head + 1) % Size
      /\ count' = count - 1 /\ count # 0
      /\ wpc' \in CondSignal(wpc, "asleep", "woken")
      /\ UNCHANGED <<data, tail, arg, locks>>
  BY DEF Fetches, Fetch
<1>2. "exit" \in Labels \ {"asleep"} BY DEF Labels
<1>3. /\ count \in Int /\ Size - count \in Int /\ count - 1 \in 0..Size
      /\ (Size - count) + 1 = Size - (count - 1)
  BY <1>1, Facts
<1>4. /\ Typed(Writers, Labels, wpc') /\ Matched(Writers, wpc', (Size - count) + 1)
      /\ \A u \in Writers : wpc'[u] = wpc[u] \/ (wpc[u] = "asleep" /\ wpc'[u] = "woken")
  BY <1>1, <1>3, Facts, SignalMatches
<1>5. Matched(Readers, rpc', count - 1)
  <2>0. rpc[r] # "exit" BY <1>1
  <2>1. Matched(Readers, rpc', IF rpc[r] = "woken" THEN count - 1 ELSE count)
    BY <1>1, <1>2, <1>3, <2>0, Facts, MoveMatches
  <2>2. Typed(Readers, Labels, rpc') BY <1>1, <1>2, <1>3, Facts, MoveMatches
  <2>3. NumAt(rpc', "woken") \in Nat BY <2>2, NumType
  <2> QED BY <1>3, <2>1, <2>3, Facts DEF Matched
<1>6. 1 \in 0..Size /\ head \in 0..(Size - 1) BY Facts
<1>7. head' \in 0..(Size - 1) BY <1>1, <1>6, RingMod
<1>8. TypeOK'
  <2>1. data[head] \in Values \cup {NoValue} BY Facts DEF IInv, TypeOK
  <2>2. wpc' \in [Writers -> Labels] BY <1>4 DEF Typed
  <2>3. rpc' \in [Readers -> Labels] BY <1>1, <1>2 DEF IInv, TypeOK
  <2> QED BY <1>1, <1>3, <1>7, <2>1, <2>2, <2>3 DEF IInv, TypeOK
<1>9. RingFits'
  <2>1. tail = IF head + count < Size THEN head + count ELSE head + count - Size
    BY Facts, RingMod DEF IInv, RingFits
  <2>2. head' = IF head + 1 < Size THEN head + 1 ELSE head + 1 - Size
    BY <1>1, <1>6, RingMod
  <2>3. (head' + (count - 1)) % Size =
           IF head' + (count - 1) < Size THEN head' + (count - 1) ELSE head' + (count - 1) - Size
    BY <1>3, <1>7, RingMod
  <2>4. tail = (head' + (count - 1)) % Size
    <3>1. ASSUME NEW h \in Int, NEW c \in Int, NEW z \in Int, NEW k \in Int, c >= 1, c <= z,
                 h >= 0, h < z, k = IF h + 1 < z THEN h + 1 ELSE h + 1 - z
          PROVE  (IF k + (c - 1) < z THEN k + (c - 1) ELSE k + (c - 1) - z)
                    = IF h + c < z THEN h + c ELSE h + c - z
      BY <3>1
    <3>2. head' \in Int /\ count >= 1 BY <1>1, <1>7, Facts
    <3> QED BY <2>1, <2>2, <2>3, <3>1, <3>2, Facts
  <2> QED BY <1>1, <2>4 DEF RingFits
<1>10. rpc'[r] = "exit" /\ \A u \in Readers : u # r => rpc'[u] = rpc[u]
  BY <1>1 DEF IInv, TypeOK
<1>11. \A u \in Writers : wpc[u] # "idle" <=> wpc'[u] # "idle" BY <1>4
<1>12. ArgFits' BY <1>1, <1>11 DEF IInv, ArgFits
<1>13. NoLostWakeup'
  <2>1. Matched(Writers, wpc', Size - count') BY <1>1, <1>3, <1>4
  <2> QED BY <1>1, <1>5, <1>8, <2>1, MatchesAfter
<1>14. TableFits'
  <2>1. \A u \in Readers : rpc[u] # "idle" => rpc'[u] # "idle" BY <1>10
  <2> QED BY <1>1, <1>11, <2>1 DEF IInv, TableFits
<1> QED BY <1>8, <1>9, <1>12, <1>13, <1>14 DEF IInv

\* Every step of monitor.c is one of those above.
LEMMA Steps ==
    ASSUME [Next]_vars
    PROVE  \/ UNCHANGED <<data, head, tail, count, wpc, rpc, arg, delivered, locks>>
           \/ \E w \in Writers, v \in Values : WriteBegin(w, v)
           \/ \E w \in Writers : WriteEnd(w) \/ Stores(w)
           \/ \E r \in Readers : ReadBegin(r) \/ ReadEnd(r) \/ Fetches(r)
           \/ Waits
<1>1. CASE UNCHANGED vars BY <1>1 DEF vars, ring, detector
<1>2. ASSUME NEW w \in Writers, WriteLoop(w) PROVE Waits \/ Stores(w)
  BY <1>2 DEF WriteLoop, Full, Waits, WriterMoves, Stores, ring, detector
<1>3. ASSUME NEW w \in Writers, WriteTimeout(w) PROVE Waits
  BY <1>3 DEF WriteTimeout, Waits, WriterMoves, ring, detector
<1>4. ASSUME NEW r \in Readers, ReadLoop(r) PROVE Waits \/ Fetches(r)
  BY <1>4 DEF ReadLoop, Waits, ReaderMoves, Fetches, ring, detector
<1>5. ASSUME NEW r \in Readers, ReadTimeout(r) PROVE Waits
  BY <1>5 DEF ReadTimeout, Waits, ReaderMoves, ring, detector
<1>6. ASSUME SpuriousWakeup PROVE Waits
  BY <1>6 DEF SpuriousWakeup, Waits, WriterMoves, ReaderMoves, ring, detector
<1>7. ASSUME NEW w \in Writers, WriteInvalid(w) \/ WriteRefused(w) PROVE UNCHANGED vars
  BY <1>7 DEF WriteInvalid, WriteRefused, Detector!Refuse, Detector!vars, vars, detector
<1>8. ASSUME NEW r \in Readers, ReadRefused(r) PROVE UNCHANGED vars
  BY <1>8 DEF ReadRefused, Detector!Refuse, Detector!vars, vars, detector
<1> QED BY <1>1, <1>2, <1>3, <1>4, <1>5, <1>6, <1>7, <1>8 DEF Next, Write, Read

\* The invariant is inductive.
LEMMA StepKeepsInv == IInv /\ [Next]_vars => IInv'
<1> SUFFICES ASSUME IInv, [Next]_vars PROVE IInv'
  OBVIOUS
<1>1. CASE UNCHANGED <<data, head, tail, count, wpc, rpc, arg, delivered, locks>>
  BY <1>1 DEF IInv, TypeOK, RingFits, ArgFits, NoLostWakeup, TableFits
<1> QED
  BY <1>1, Steps, WriteBeginKeeps, WriteEndKeeps, StoresKeeps, ReadBeginKeeps,
     ReadEndKeeps, FetchesKeeps, WaitsKeeps

\* bme680_monitor_init: the ring is empty and nobody is inside.
LEMMA InitInv == Init => IInv
<1> SUFFICES ASSUME Init PROVE IInv
  OBVIOUS
<1>0. Size \in Nat \ {0} BY MonitorAssumption
<1>1. TypeOK BY <1>0 DEF Init, TypeOK, Labels
<1>2. RingFits BY <1>0 DEF Init, RingFits
<1>3. ArgFits BY DEF Init, ArgFits
<1>4. NoLostWakeup BY DEF Init, NoLostWakeup, ThreadsAt
<1>5. TableFits BY DEF Init, TableFits, Detector!Init, Detector!Ids
<1> QED BY <1>1, <1>2, <1>3, <1>4, <1>5 DEF IInv

\* The inductive invariant holds in every reachable state.
LEMMA Invariance == Spec => []IInv
BY InitInv, StepKeepsInv, PTL DEF Spec

\* The order test fires for nobody who calls: of two records, lock 0 is a
\* writer's and lock 1 a reader's, and both are inside.
LEMMA TableAgrees == IInv => DetectorAgrees
<1> SUFFICES ASSUME IInv PROVE DetectorAgrees
  OBVIOUS
<1>1. ASSUME NEW w \in Writers PROVE ~Detector!Suspicious(w)
  BY MonitorAssumption DEF Detector!Suspicious, Detector!Ids, IInv, TableFits
<1>2. ASSUME NEW r \in Readers, rpc[r] = "idle" PROVE ~Detector!Suspicious(r)
  BY <1>2, MonitorAssumption DEF Detector!Suspicious, Detector!Ids, IInv, TableFits
<1> QED BY <1>1, <1>2 DEF DetectorAgrees, IInv, TableFits

\* What the ring holds, as a sequence.
ContentsFit ==
    /\ Contents \in Seq(Values \cup {NoValue}) /\ Len(Contents) = count
    /\ \A i \in 1..count : Contents[i] =
          data[IF head + (i - 1) < Size THEN head + (i - 1) ELSE head + (i - 1) - Size]

\* The refinement mapping is a sequence of count values, oldest first.
LEMMA ContentsFacts == IInv => ContentsFit
<1> SUFFICES ASSUME IInv PROVE ContentsFit
  OBVIOUS
<1>1. ASSUME NEW i \in 1..count
      PROVE  /\ (head + i - 1) % Size =
                   IF head + (i - 1) < Size THEN head + (i - 1) ELSE head + (i - 1) - Size
             /\ (head + i - 1) % Size \in 0..(Size - 1)
  <2>1. i - 1 \in 0..Size /\ head \in 0..(Size - 1) /\ head + i - 1 = head + (i - 1) BY Facts
  <2>2. (head + i - 1) % Size = (head + (i - 1)) % Size BY <2>1
  <2> QED BY <2>1, <2>2, RingMod
<1>2. \A i \in 1..count : data[(head + i - 1) % Size] \in Values \cup {NoValue}
  BY <1>1 DEF IInv, TypeOK
<1>3. count \in Nat BY Facts
<1>4. Contents \in Seq(Values \cup {NoValue}) /\ Len(Contents) = count
  BY <1>2, <1>3 DEF Contents
<1> QED BY <1>1, <1>4 DEF ContentsFit, Contents

\* A store puts the writer's value at the end of the queue.
LEMMA StoreIsPut ==
    ASSUME IInv, IInv', NEW w \in Writers, Stores(w)
    PROVE  Queue!Next
<1> DEFINE V == Values \cup {NoValue}
<1>1. /\ data' = [data EXCEPT ![tail] = arg[w]] /\ count' = count + 1 /\ count # Size
      /\ wpc[w] # "idle" /\ UNCHANGED <<head, delivered>>
  BY DEF Stores, Store
<1>2. arg[w] \in Values BY <1>1 DEF IInv, ArgFits
<1>3. /\ Contents \in Seq(V) /\ Len(Contents) = count
      /\ \A i \in 1..count : Contents[i] =
            data[IF head + (i - 1) < Size THEN head + (i - 1) ELSE head + (i - 1) - Size]
  BY ContentsFacts DEF ContentsFit
<1>4. /\ Contents' \in Seq(V) /\ Len(Contents') = count + 1
      /\ \A i \in 1..(count + 1) : Contents'[i] =
            data'[IF head + (i - 1) < Size THEN head + (i - 1) ELSE head + (i - 1) - Size]
  <2>1. /\ Contents' \in Seq(V) /\ Len(Contents') = count'
        /\ \A i \in 1..count' : Contents'[i] =
              data'[IF head' + (i - 1) < Size THEN head' + (i - 1) ELSE head' + (i - 1) - Size]
    <3>1. ContentsFit' BY ContentsFacts, PTL
    <3> QED BY <3>1 DEF ContentsFit
  <2> QED BY <1>1, <2>1
<1>5. tail = IF head + count < Size THEN head + count ELSE head + count - Size
  BY Facts, RingMod DEF IInv, RingFits
<1>6. \A j \in 0..(Size - 1) : data'[j] = IF j = tail THEN arg[w] ELSE data[j]
  BY <1>1, Facts DEF IInv, TypeOK
<1>7. Contents'[count + 1] = arg[w]
  <2>1. count + 1 \in 1..(count + 1) /\ (count + 1) - 1 = count BY Facts
  <2>2. Contents'[count + 1] = data'[tail] BY <1>4, <1>5, <2>1
  <2> QED BY <1>6, <2>2, Facts
<1>8. ASSUME NEW i \in 1..count PROVE Contents'[i] = Contents[i]
  <2> DEFINE j == IF head + (i - 1) < Size THEN head + (i - 1) ELSE head + (i - 1) - Size
  <2>1. j \in 0..(Size - 1) /\ j # tail /\ i \in 1..(count + 1) BY <1>1, <1>5, Facts
  <2>2. Contents[i] = data[j] /\ Contents'[i] = data'[j] BY <1>3, <1>4, <2>1
  <2> QED BY <1>6, <2>1, <2>2
<1>9. Contents' = Append(Contents, arg[w])
  <2>1. /\ Append(Contents, arg[w]) \in Seq(V) /\ Len(Append(Contents, arg[w])) = count + 1
        /\ \A i \in 1..count : Append(Contents, arg[w])[i] = Contents[i]
        /\ Append(Contents, arg[w])[count + 1] = arg[w]
    BY <1>2, <1>3, AppendProperties
  <2>2. \A i \in 1..(count + 1) : Contents'[i] = Append(Contents, arg[w])[i]
    BY <1>7, <1>8, <2>1, Facts
  <2> HIDE DEF V
  <2> QED BY <1>4, <2>1, <2>2, SeqEqual
<1>10. Len(Contents) < Size BY <1>1, <1>3, Facts
<1> QED BY <1>1, <1>2, <1>9, <1>10 DEF Queue!Next, Queue!Put

\* A fetch takes the oldest value out of the queue.
LEMMA FetchIsTake ==
    ASSUME IInv, IInv', NEW r \in Readers, Fetches(r)
    PROVE  Queue!Next
<1> DEFINE V == Values \cup {NoValue}
<1>1. /\ delivered' = data[head] /\ head' = (head + 1) % Size /\ count' = count - 1
      /\ count # 0 /\ UNCHANGED data
  BY DEF Fetches, Fetch
<1>2. /\ Contents \in Seq(V) /\ Len(Contents) = count
      /\ \A i \in 1..count : Contents[i] =
            data[IF head + (i - 1) < Size THEN head + (i - 1) ELSE head + (i - 1) - Size]
  BY ContentsFacts DEF ContentsFit
<1>3. /\ Contents' \in Seq(V) /\ Len(Contents') = count - 1
      /\ \A i \in 1..(count - 1) : Contents'[i] =
            data[IF head' + (i - 1) < Size THEN head' + (i - 1) ELSE head' + (i - 1) - Size]
  <2>1. /\ Contents' \in Seq(V) /\ Len(Contents') = count'
        /\ \A i \in 1..count' : Contents'[i] =
              data'[IF head' + (i - 1) < Size THEN head' + (i - 1) ELSE head' + (i - 1) - Size]
    <3>1. ContentsFit' BY ContentsFacts, PTL
    <3> QED BY <3>1 DEF ContentsFit
  <2> QED BY <1>1, <2>1
<1>4. Contents # <<>> /\ count \in Nat \ {0} BY <1>1, <1>2, Facts
<1>5. Head(Contents) = data[head]
  <2>1. Head(Contents) = Contents[1] BY <1>2, <1>4
  <2>2. 1 \in 1..count /\ head + (1 - 1) = head /\ head < Size BY <1>4, Facts
  <2> QED BY <1>2, <2>1, <2>2
<1>6. head' = IF head + 1 < Size THEN head + 1 ELSE head + 1 - Size
  <2>1. 1 \in 0..Size /\ head \in 0..(Size - 1) BY Facts
  <2> QED BY <1>1, <2>1, RingMod
<1>7. ASSUME NEW i \in 1..(count - 1) PROVE Contents'[i] = Contents[i + 1]
  <2>1. (IF head' + (i - 1) < Size THEN head' + (i - 1) ELSE head' + (i - 1) - Size)
           = (IF head + ((i + 1) - 1) < Size THEN head + ((i + 1) - 1)
              ELSE head + ((i + 1) - 1) - Size)
    <3>1. ASSUME NEW h \in Int, NEW c \in Int, NEW z \in Int, NEW k \in Int, c >= 1, c < z,
                 h >= 0, h < z, k = IF h + 1 < z THEN h + 1 ELSE h + 1 - z
          PROVE  (IF k + (c - 1) < z THEN k + (c - 1) ELSE k + (c - 1) - z)
                    = (IF h + ((c + 1) - 1) < z THEN h + ((c + 1) - 1) ELSE h + ((c + 1) - 1) - z)
      BY <3>1
    <3>2. head' \in Int /\ i >= 1 /\ i < Size /\ i \in Int BY <1>6, Facts
    <3> QED BY <1>6, <3>1, <3>2, Facts
  <2>2. i + 1 \in 1..count BY <1>4
  <2>3. Contents[i + 1] = data[IF head + ((i + 1) - 1) < Size THEN head + ((i + 1) - 1)
                               ELSE head + ((i + 1) - 1) - Size]
    BY <1>2, <2>2
  <2>4. Contents'[i] =
            data[IF head' + (i - 1) < Size THEN head' + (i - 1) ELSE head' + (i - 1) - Size]
    BY <1>3
  <2> QED BY <2>1, <2>3, <2>4
<1>8. Contents' = Tail(Contents)
  <2>1. /\ Tail(Contents) \in Seq(V) /\ Len(Tail(Contents)) = count - 1
        /\ \A i \in 1..(count - 1) : Tail(Contents)[i] = Contents[i + 1]
    BY <1>2, <1>4, HeadTailProperties
  <2>2. \A i \in 1..(count - 1) : Contents'[i] = Tail(Contents)[i] BY <1>7, <2>1
  <2> HIDE DEF V
  <2> QED BY <1>3, <2>1, <2>2, SeqEqual
<1> QED BY <1>1, <1>4, <1>5, <1>8 DEF Queue!Next, Queue!Take

\* Every step of the monitor is a step of the queue or leaves it alone.
LEMMA StepIsQueueStep ==
    ASSUME IInv, IInv', [Next]_vars
    PROVE  [Queue!Next]_<<Contents, delivered>>
<1>1. CASE UNCHANGED <<data, head, count, delivered>>
  <2>1. Contents' = Contents BY <1>1 DEF Contents
  <2> QED BY <1>1, <2>1
<1>2. ASSUME NEW w \in Writers, NEW v \in Values, WriteBegin(w, v)
      PROVE  UNCHANGED <<data, head, count, delivered>>
  BY <1>2 DEF WriteBegin, ring
<1>3. ASSUME NEW w \in Writers, WriteEnd(w)
      PROVE  UNCHANGED <<data, head, count, delivered>>
  BY <1>3 DEF WriteEnd, ring
<1>4. ASSUME NEW r \in Readers, ReadBegin(r) \/ ReadEnd(r)
      PROVE  UNCHANGED <<data, head, count, delivered>>
  BY <1>4 DEF ReadBegin, ReadEnd, ring
<1>5. Waits => UNCHANGED <<data, head, count, delivered>> BY DEF Waits
<1> QED BY <1>1, <1>2, <1>3, <1>4, <1>5, Steps, StoreIsPut, FetchIsTake

\* The indices of the ring stay inside data[].
THEOREM TypeCorrect == Spec => []TypeOK
BY Invariance, PTL DEF IInv

\* One signal per store and per fetch loses no wakeup.
THEOREM WakeupsAreNotLost == Spec => []NoLostWakeup
BY Invariance, PTL DEF IInv

\* The detector's records are of threads inside the monitor only, and its order
\* test refuses no caller: a refusal comes from a contended dd->mutex.
THEOREM DetectorAlwaysAgrees == Spec => []DetectorAgrees
BY Invariance, TableAgrees, PTL

\* The ring buffer of monitor.c implements a first-in first-out queue.
THEOREM MonitorIsQueue == Spec => QueueSpec
<1>1. Init => Queue!Init
  <2>1. ASSUME Init PROVE Contents = <<>> BY <2>1 DEF Init, Contents
  <2> QED BY <2>1 DEF Init, Queue!Init
<1>2. IInv /\ IInv' /\ [Next]_vars => [Queue!Next]_<<Contents, delivered>>
  BY StepIsQueueStep
<1> QED BY <1>1, <1>2, Invariance, PTL DEF Spec, QueueSpec, Queue!Spec
==============================================================================
