---------------------------- MODULE RegisterFile ----------------------------
(***************************************************************************)
(* What a regmap bus promises the core driver: registers addressed by      *)
(* page and address.  An access that fails changes nothing else than, at   *)
(* most, the register that it was meant for.                               *)
(***************************************************************************)
CONSTANTS Registers, Values

VARIABLES mem,  \* mem[r]: the value of register r
          op    \* the latest access: what it did, to which register, the value

Init == mem \in [Registers -> Values] /\ op = <<"none">>

Write(r, v) == op' = <<"wrote", r, v>> /\ mem' = [mem EXCEPT ![r] = v]

Read(r) == op' = <<"read", r, mem[r]>> /\ UNCHANGED mem

Fail(r) ==
    /\ op' = <<"failed", r>>
    /\ UNCHANGED mem \/ \E v \in Values : mem' = [mem EXCEPT ![r] = v]

Next == \E r \in Registers :
           Read(r) \/ Fail(r) \/ \E v \in Values : Write(r, v)

Spec == Init /\ [][Next]_<<mem, op>>
==============================================================================
