------------------------------- MODULE SpiBus -------------------------------
(***************************************************************************)
(* bme680_spi.c: a SPI frame carries seven address bits, a page bit in the *)
(* chip's status register selects the half of the registers that they      *)
(* address, and the driver remembers the page that it selected last.       *)
(* regmap calls one bus function at a time (it holds its own lock), so a   *)
(* call is one step; each of its SPI transfers may fail.                   *)
(***************************************************************************)
EXTENDS Integers

CONSTANTS Addrs,            \* seven-bit register addresses
          Values,
          FailedWritesLand  \* whether a write that the controller reports as
                            \* failed may have reached the chip

Pages == {0, 1}
Undefined == 255            \* "Undefined on warm boot"
Registers == Pages \X Addrs \* <<page, address>>

VARIABLES current_page,  \* ctx->current_page
          page,          \* the page bit of the chip
          mem,           \* the registers of the chip
          op             \* auxiliary: the latest call, its register and value

vars == <<current_page, page, mem, op>>
-----------------------------------------------------------------------------
\* bme680_spi_probe on a chip that was left in any state.
Init ==
    /\ current_page = Undefined
    /\ page \in Pages
    /\ mem \in [Registers -> Values]
    /\ op = <<"none">>

\* The driver is unbound and probed again; the chip keeps its state.
Probe ==
    /\ current_page' = Undefined
    /\ UNCHANGED <<page, mem, op>>

SelectWithoutWrite(p) ==
    /\ page' = IF current_page = Undefined THEN p ELSE page
    /\ current_page' = p

\* bme680_regmap_spi_select_page returns 0: nothing to do, or both transfers of
\* the read-modify-write of the page bit succeed.
Select(p) ==
    /\ page' = IF p = current_page THEN page ELSE p
    /\ current_page' = p

\* What a failed write of new over old leaves behind.
AfterFailure(old, new) == IF FailedWritesLand THEN {old, new} ELSE {old}

\* It returns an error, and so does the call for r that it was a part of; the
\* page bit may have been changed all the same.
SelectFails(r) ==
    /\ r[1] # current_page
    /\ page' \in AfterFailure(page, r[1])
    /\ op' = <<"failed", r>>
    /\ UNCHANGED <<current_page, mem>>

\* bme680_regmap_spi_write: r is where the driver means to write, the chip
\* writes at that address in its own page.
Write(r, v) ==
    /\ Select(r[1])
    /\ mem' = [mem EXCEPT ![<<page', r[2]>>] = v]
    /\ op' = <<"wrote", r, v>>

\* Its second transfer fails.
WriteFails(r, v) ==
    /\ Select(r[1])
    /\ mem' \in AfterFailure(mem, [mem EXCEPT ![<<page', r[2]>>] = v])
    /\ op' = <<"failed", r>>

\* bme680_regmap_spi_read.
Read(r) ==
    /\ Select(r[1])
    /\ op' = <<"read", r, mem[<<page', r[2]>>]>>
    /\ UNCHANGED mem

\* Its second transfer fails.
ReadFails(r) == Select(r[1]) /\ op' = <<"failed", r>> /\ UNCHANGED mem

Next ==
    \/ Probe
    \/ \E r \in Registers :
          \/ SelectFails(r) \/ Read(r) \/ ReadFails(r)
          \/ \E v \in Values : Write(r, v) \/ WriteFails(r, v)

\* The driver keeps using the bus.
Spec == Init /\ [][Next]_vars /\ WF_vars(Next)
-----------------------------------------------------------------------------
\* The page that the driver remembers is one of the two or the undefined one of
\* probe; the registers hold values of their width.
TypeOK ==
    /\ current_page \in Pages \cup {Undefined}
    /\ page \in Pages
    /\ mem \in [Registers -> Values]

\* The remembered page is the chip's, whatever sequence of failed selections,
\* failed transfers and new probes led here: a stale one would send the next
\* access to the register of the same address in the other page.
PageAgrees == current_page # Undefined => current_page = page

\* The bus implements the register file: every access reaches the register it
\* was meant for, and no other.
RF == INSTANCE RegisterFile
RegisterFileSpec == RF!Spec
==============================================================================
