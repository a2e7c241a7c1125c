---------------------------- MODULE BoundedQueue ----------------------------
(***************************************************************************)
(* What the monitor promises: a first-in first-out queue of bounded length *)
(* that loses, invents and reorders nothing, and delivers each value once. *)
(***************************************************************************)
EXTENDS Naturals, Sequences

CONSTANTS Values, NoValue, Size

VARIABLES queue,
          delivered  \* the value that the latest read delivered

Init == queue = <<>> /\ delivered = NoValue

Put(v) ==
    /\ Len(queue) < Size
    /\ queue' = Append(queue, v)
    /\ UNCHANGED delivered

Take ==
    /\ queue # <<>>
    /\ delivered' = Head(queue)
    /\ queue' = Tail(queue)

Next == Take \/ \E v \in Values : Put(v)

Spec == Init /\ [][Next]_<<queue, delivered>>
==============================================================================
