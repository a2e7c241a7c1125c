----------------------------- MODULE Bme680Core -----------------------------
(***************************************************************************)
(* bme680.c: the core driver and the chip behind it.  Every entry point of *)
(* the driver (read_raw, write_raw, the trigger handler, the heater        *)
(* attribute) does its bus accesses under data->lock, and bme680_probe     *)
(* runs before any of them exists: one job at a time is inside the driver, *)
(* and the chip works beside it.  Each bus access is a step and may fail;  *)
(* the job then returns the error and leaves things as they are.           *)
(*                                                                         *)
(* The chip's CTRL_MEAS register is [osr, mode]: bme680_set_oversampling   *)
(* uses one mask for it, whichever channel it is called for.               *)
(*                                                                         *)
(* job.step: "none", or the next bus access of job.kind:                   *)
(*   probe    reset, identify, config..., power, sleep_r, sleep_w,         *)
(*            register                                                     *)
(*   config   temp_r, temp_w, press_r, press_w, humid, gas, heat           *)
(*   heater   gas, heat                                                    *)
(*   read     mode, force_r, force_w, eoc, bulk                            *)
(*   trigger  eoc, bulk                                                    *)
(***************************************************************************)
EXTENDS Integers

CONSTANTS Ratios,     \* oversampling ratios written by user space
          Durations,  \* heater durations written by user space, in ms
          Tries       \* the 10 of bme680_wait_for_eoc

ASSUME CoreAssumption ==
    /\ Ratios \subseteq {1, 2, 4, 8, 16}
    /\ Durations \subseteq 0..65535
    /\ Tries \in Nat \ {0}

Channels == {"temp", "press", "humid"}
Sleep == 0
Forced == 1

VARIABLES osr,         \* data->oversampling_*
          heater_dur,  \* data->heater_dur
          registered,  \* devm_iio_device_register was reached
          job,
          ctrl_meas, ctrl_hum, gas_wait,  \* registers of the chip
          new_data,    \* its new-data bit
          fresh,       \* auxiliary: a measurement ended since the job began
          stale,       \* auxiliary: the latest read_raw was not fresh
          synced,      \* auxiliary: the groups of settings whose latest
                       \* configuration returned 0
          asked        \* auxiliary: asked[c]: the ratio last written to c

chip == <<ctrl_meas, ctrl_hum, gas_wait, new_data>>
settings == <<osr, heater_dur, asked>>
vars == <<settings, registered, job, chip, fresh, stale, synced>>

Idle == [kind |-> "none", step |-> "none", reg |-> Sleep, tries |-> 0]
Begin(kind, step) == [kind |-> kind, step |-> step, reg |-> Sleep, tries |-> Tries]

\* ilog2 of the kernel, on the ratios.
ilog2(r) == CHOOSE n \in 0..4 : 2^n = r

\* bme680_oversampling_t: x1 is 1, 0 skips the measurement.
Code(r) == ilog2(r) + 1
-----------------------------------------------------------------------------
\* The driver is loaded and bme680_probe has set its defaults (x8, x4, x2 and
\* 150 ms).  The chip is in any state.
Init ==
    /\ asked = [temp |-> 8, press |-> 4, humid |-> 2]
    /\ osr = [c \in Channels |-> Code(asked[c])]
    /\ heater_dur = 150
    /\ registered = FALSE
    /\ job = Begin("probe", "reset")
    /\ ctrl_meas \in [osr : {0}, mode : {Sleep, Forced}]
    /\ ctrl_hum = 0 /\ gas_wait = 0 /\ new_data \in BOOLEAN
    /\ fresh = FALSE /\ stale = FALSE /\ synced = {}

\* The job goes on to its next bus access, or returns 0.
Goto(step) == job' = [job EXCEPT !.step = step]
Return == job' = Idle

\* A bus access fails: the job returns the error.  A probe that fails is over.
Fail ==
    /\ job.step # "none"
    /\ Return
    /\ UNCHANGED <<settings, registered, chip, fresh, stale, synced>>

\* A probe that failed is tried again (deferred probing, or a new bind).
Probe ==
    /\ ~registered /\ job = Idle
    /\ job' = Begin("probe", "reset")
    /\ UNCHANGED <<settings, registered, chip, fresh, stale, synced>>

\* A write to CTRL_MEAS: mode Forced starts a measurement.
WriteMeas(value) ==
    /\ ctrl_meas' = value
    /\ new_data' = (new_data /\ value.mode # Forced)
    /\ UNCHANGED <<ctrl_hum, gas_wait>>

\* The chip ends a measurement and goes back to sleep.
Measure ==
    /\ ctrl_meas.mode = Forced
    /\ ctrl_meas' = [ctrl_meas EXCEPT !.mode = Sleep]
    /\ new_data' = TRUE /\ fresh' = TRUE
    /\ UNCHANGED <<settings, registered, job, ctrl_hum, gas_wait, stale, synced>>

\* bme680_probe: soft reset, then chip id and calibration (reads only).
Reset ==
    /\ job.step = "reset"
    /\ ctrl_meas' = [osr |-> 0, mode |-> Sleep]
    /\ ctrl_hum' = 0 /\ gas_wait' = 0 /\ new_data' = FALSE
    /\ Goto("identify")
    /\ synced' = {}
    /\ UNCHANGED <<settings, registered, fresh, stale>>

Identify ==
    /\ job.step = "identify"
    /\ Goto("temp_r")
    /\ UNCHANGED <<settings, registered, chip, fresh, stale, synced>>

\* bme680_set_oversampling on CTRL_MEAS: regmap_update_bits reads the register
\* and, if the field has to change, writes all of it, the mode bits included.
SetOversampling(c, read, write, next) ==
    \/ /\ job.step = read
       /\ job' = [job EXCEPT !.reg = ctrl_meas.mode,
                             !.step = IF ctrl_meas.osr = osr[c] THEN next ELSE write]
       /\ UNCHANGED <<settings, registered, chip, fresh, stale, synced>>
    \/ /\ job.step = write
       /\ WriteMeas([osr |-> osr[c], mode |-> job.reg])
       /\ Goto(next)
       /\ UNCHANGED <<settings, registered, fresh, stale, synced>>

\* bme680_chip_config: temperature and pressure go to CTRL_MEAS, humidity to
\* CTRL_HUM; no property is about the filter, which is set next.
ChipConfig ==
    \/ SetOversampling("temp", "temp_r", "temp_w", "press_r")
    \/ SetOversampling("press", "press_r", "press_w", "humid")
    \/ /\ job.step = "humid"
       /\ ctrl_hum' = osr["humid"]
       /\ Goto("gas")
       /\ UNCHANGED <<settings, registered, ctrl_meas, gas_wait, new_data, fresh, stale, synced>>

\* bme680_set_gas_config: the duration, which is a u8 there and a u16 in
\* bme680_data, then the heater's resistance and the heater itself.
SetGasConfig ==
    \/ /\ job.step = "gas"
       /\ gas_wait' = heater_dur % 256
       /\ Goto("heat")
       /\ UNCHANGED <<settings, registered, ctrl_meas, ctrl_hum, new_data, fresh, stale, synced>>
    \/ /\ job.step = "heat"
       /\ IF job.kind = "probe" THEN Goto("power") ELSE Return
       /\ synced' = synced \cup (IF job.kind = "heater" THEN {"gas"} ELSE {"osr", "gas"})
       /\ UNCHANGED <<settings, registered, chip, fresh, stale>>

\* The end of bme680_probe: the supplies, sleep mode, and everything that has
\* to be registered.
FinishProbe ==
    \/ /\ job.step = "power"
       /\ Goto("sleep_r")
       /\ UNCHANGED <<settings, registered, chip, fresh, stale, synced>>
    \/ /\ job.step = "sleep_r"
       /\ Goto("sleep_w")
       /\ UNCHANGED <<settings, registered, chip, fresh, stale, synced>>
    \/ /\ job.step = "sleep_w"
       /\ WriteMeas([ctrl_meas EXCEPT !.mode = Sleep])
       /\ Goto("register")
       /\ UNCHANGED <<settings, registered, fresh, stale, synced>>
    \/ /\ job.step = "register"
       /\ Return
       /\ registered' = TRUE
       /\ UNCHANGED <<settings, chip, fresh, stale, synced>>

\* bme680_write_raw of an oversampling ratio, up to the first bus access.
WriteOversampling(c, r) ==
    /\ registered /\ job = Idle
    /\ osr' = [osr EXCEPT ![c] = ilog2(r)]
    /\ asked' = [asked EXCEPT ![c] = r]
    /\ job' = Begin("config", "temp_r")
    /\ synced' = {}
    /\ UNCHANGED <<heater_dur, registered, chip, fresh, stale>>

\* bme680_write_raw of the heater duration, up to the first bus access.
WriteHeaterDur(d) ==
    /\ registered /\ job = Idle
    /\ heater_dur' = d
    /\ job' = Begin("heater", "gas")
    /\ synced' = synced \ {"gas"}
    /\ UNCHANGED <<osr, asked, registered, chip, fresh, stale>>

\* bme680_write_raw of the heater's temperature, and bme680_heater_current_store:
\* they configure the heater again, and what they store never reaches the chip.
WriteHeater ==
    /\ registered /\ job = Idle
    /\ job' = Begin("heater", "gas")
    /\ synced' = synced \ {"gas"}
    /\ UNCHANGED <<settings, registered, chip, fresh, stale>>

\* bme680_read_raw, and bme680_trigger_handler, which does not start a
\* measurement itself.
BeginRead ==
    /\ registered /\ job = Idle
    /\ job' \in {Begin("read", "mode"), Begin("trigger", "eoc")}
    /\ fresh' = FALSE
    /\ UNCHANGED <<settings, registered, chip, stale, synced>>

\* bme680_get_mode, and the test of its result.
GetMode ==
    /\ job.step = "mode"
    /\ Goto(IF ctrl_meas.mode = Sleep THEN "force_r" ELSE "eoc")
    /\ UNCHANGED <<settings, registered, chip, fresh, stale, synced>>

ForceModeWritesModeOnly ==
    \/ /\ job.step = "force_r"
       /\ Goto("force_w")
       /\ UNCHANGED <<settings, registered, chip, fresh, stale, synced>>
    \/ /\ job.step = "force_w"
       /\ WriteMeas([osr |-> 0, mode |-> Forced])
       /\ Goto("eoc")
       /\ UNCHANGED <<settings, registered, fresh, stale, synced>>

\* bme680_set_mode(BME680_MODE_FORCED): read, then write back.
ForceMode ==
    \/ /\ job.step = "force_r"
       /\ Goto("force_w")
       /\ UNCHANGED <<settings, registered, chip, fresh, stale, synced>>
    \/ /\ job.step = "force_w"
       /\ WriteMeas([ctrl_meas EXCEPT !.mode = Forced])
       /\ Goto("eoc")
       /\ UNCHANGED <<settings, registered, fresh, stale, synced>>

WaitForEocForever ==
    /\ job.step = "eoc"
    /\ \/ /\ ~new_data
          /\ Goto("bulk")
       \/ /\ new_data
          /\ UNCHANGED job
    /\ UNCHANGED <<settings, registered, chip, fresh, stale, synced>>

\* bme680_wait_for_eoc: it leaves its loop when the new-data bit is clear.
WaitForEoc ==
    /\ job.step = "eoc"
    /\ \/ /\ ~new_data
          /\ Goto("bulk")
       \/ /\ new_data
          /\ job' = IF job.tries = 1 THEN Idle ELSE [job EXCEPT !.tries = @ - 1]
    /\ UNCHANGED <<settings, registered, chip, fresh, stale, synced>>

\* The bulk read of the data registers; the job returns what they hold.
BulkRead ==
    /\ job.step = "bulk"
    /\ Return
    /\ stale' = IF job.kind = "read" THEN ~fresh ELSE stale
    /\ UNCHANGED <<settings, registered, chip, fresh, synced>>

Step ==
    \/ Reset \/ Identify \/ ChipConfig \/ SetGasConfig \/ FinishProbe
    \/ GetMode \/ ForceMode \/ WaitForEoc \/ BulkRead

Next ==
    \/ Step \/ Fail \/ Measure \/ Probe \/ BeginRead \/ WriteHeater
    \/ \E c \in Channels, r \in Ratios : WriteOversampling(c, r)
    \/ \E d \in Durations : WriteHeaterDur(d)

\* A job inside the driver goes on, and the chip ends its measurements.
Spec == Init /\ [][Next]_vars /\ WF_vars(Step) /\ WF_vars(Measure)
-----------------------------------------------------------------------------
\* The cached configuration fits its fields and registers (u8, u16), and no job
\* polls for the end of conversion more often than bme680_wait_for_eoc allows.
TypeOK ==
    /\ osr \in [Channels -> 0..5] /\ heater_dur \in 0..65535
    /\ registered \in BOOLEAN
    /\ job.reg \in {Sleep, Forced} /\ job.tries \in 0..Tries
    /\ ctrl_meas \in [osr : 0..5, mode : {Sleep, Forced}]
    /\ ctrl_hum \in 0..5 /\ gas_wait \in 0..255 /\ new_data \in BOOLEAN
    /\ fresh \in BOOLEAN /\ stale \in BOOLEAN /\ synced \subseteq {"osr", "gas"}

\* What user space was told is set is on the chip, and stays there while
\* readings rewrite CTRL_MEAS and other jobs fail half-way: after a successful
\* configuration the registers hold the cached pressure and humidity settings
\* and the heater's duration.
ConfigOnChip ==
    /\ "osr" \in synced => ctrl_meas.osr = osr["press"] /\ ctrl_hum = osr["humid"]
    /\ "gas" \in synced => gas_wait = heater_dur

\* Every entry point returns and gives data->lock back, whatever the chip's
\* new-data bit does under bme680_wait_for_eoc.
Returns == job.step # "none" ~> job.step = "none"

\* Temperature and pressure have oversampling fields of their own in CTRL_MEAS
\* (BME680_OSRS_TEMP_MSK, BME680_OSRS_PRESS_MSK): what was set for the
\* temperature is in the register.
TempOversamplingOnChip == "osr" \in synced => ctrl_meas.osr = osr["temp"]

\* The ratio that was written is the one that the chip applies, by the codes of
\* bme680_oversampling_t.
RatioHonoured == "osr" \in synced => ctrl_hum = Code(asked["humid"])

\* "Real-time sensor data": a reading belongs to a measurement that ended
\* after the reading was asked for.
FreshReading == ~stale
==============================================================================
