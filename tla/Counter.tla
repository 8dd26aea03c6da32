-------------------------------- MODULE Counter --------------------------------
(***************************************************************************)
(* A flow counter (base_counter): it adds up the differences of a raw      *)
(* count that overflows, and watches that the count moves while the pump   *)
(* runs.                                                                   *)
(*                                                                         *)
(* The raw count is that of the meter, 0..MaxRaw; a quantity is an integer.*)
(* The totals of the day are the absolute total over again and left out.   *)
(***************************************************************************)
EXTENDS Integers

CONSTANTS
    MaxRaw,         \* get_max_raw_value(): the count overflows to 0
    MaxOverflow,    \* MAX_OVERFLOW: a larger step back is a restart
    PulsesPerScan,  \* bound: pulses between two evaluations
    StandTime,      \* get_pump_dt(), in scans
    MaxTotal        \* bound on the absolute total

ASSUME CounterAssumption ==
    /\ MaxRaw \in Nat \ {0} /\ MaxOverflow \in Nat
    /\ PulsesPerScan \in Nat \ {0} /\ 2 * PulsesPerScan <= MaxOverflow
    /\ 2 * PulsesPerScan < MaxRaw
    /\ StandTime \in Nat /\ MaxTotal \in Nat

VARIABLES
    meter,          \* the raw count, and the pulses since the last scan
    counter,        \* the device, see CounterTypeOK
    pumping,        \* a linked motor runs and the flow is above P_MIN_FLOW
    flow            \* history: what flowed, see CounterTypeOK
counterVars == <<meter, counter, pumping, flow>>

(* value and abs: the two totals, each with the raw count it has seen and  *)
(* whether it has seen one; age: scans since the count was seen to move,   *)
(* -1 while nothing is pumped.  flow.through: the pulses outside pauses,   *)
(* since the total was last set to zero; unseen: those of them that no scan*)
(* in work has followed yet; lost: those that no scan will count.          *)
Tally == [sum: Int, last: 0..MaxRaw, first: BOOLEAN]
CounterTypeOK ==
    /\ meter \in [raw: 0..MaxRaw, fresh: 0..PulsesPerScan]
    /\ counter \in [state: {"work", "pause", "error"}, value: Tally, abs: Tally,
                    prev: Int, age: -1..StandTime]
    /\ pumping \in BOOLEAN /\ flow \in [through: Int, unseen: Nat, lost: Nat]

CounterInit ==
    LET zero == [sum |-> 0, last |-> 0, first |-> TRUE] IN
    /\ meter = [raw |-> 0, fresh |-> 0]
    /\ counter = [state |-> "work", value |-> zero, abs |-> zero, prev |-> 0, age |-> -1]
    /\ pumping = FALSE /\ flow = [through |-> 0, unseen |-> 0, lost |-> 0]

-----------------------------------------------------------------------------
(* The plant.  An overflow costs one pulse: MaxRaw - last + raw.  A counter*)
(* in error counts again only after its pump has run for two scans; until  *)
(* then pulses wait, and an overflow among many may be missed.  Steady is  *)
(* the assumption that the plant does nothing else in the meantime.        *)
(* Missed: the pulse of the overflow, and those before the first reading   *)
(* that is not zero, which only sets the raw count to go on from.          *)
Steady == counter.state = "error" => meter.raw = counter.value.last
Missed == counter.value.first \/ meter.raw = MaxRaw
Pulse ==
    /\ meter.fresh < PulsesPerScan /\ counter.abs.sum < MaxTotal
    /\ pumping \/ counter.state # "error"
    /\ meter' = [raw |-> IF meter.raw < MaxRaw THEN meter.raw + 1 ELSE 0, fresh |-> meter.fresh + 1]
    /\ flow' = CASE counter.state = "pause" -> flow
                 [] counter.state # "pause" /\ ~ Missed ->
                      [flow EXCEPT !.through = @ + 1, !.unseen = @ + 1]
                 [] OTHER -> [flow EXCEPT !.through = @ + 1, !.lost = @ + 1]
    /\ UNCHANGED <<counter, pumping>>
Switch ==
    /\ Steady
    /\ pumping' = ~ pumping
    /\ UNCHANGED <<meter, counter, flow>>

-----------------------------------------------------------------------------
(* calculate_quantity.                                                     *)
Delta(last, raw) ==
    LET back == MaxRaw - last + raw
    IN IF raw >= last THEN raw - last
       ELSE IF back > MaxOverflow /\ raw < back THEN raw ELSE back
Add(t, raw) ==
    IF t.first THEN IF raw = 0 THEN t ELSE [t EXCEPT !.last = raw, !.first = FALSE]
    ELSE [t EXCEPT !.last = raw, !.sum = @ + Delta(t.last, raw)]

(* get_state: the count must move within StandTime while something flows.  *)
Watched(c) ==
    CASE ~ pumping -> [c EXCEPT !.age = -1]
      [] pumping /\ (c.state = "pause" \/ c.age = -1) -> [c EXCEPT !.age = 0, !.prev = c.abs.sum]
      [] pumping /\ c.state # "pause" /\ c.age >= 0 /\ c.abs.sum # c.prev ->
           [c EXCEPT !.age = 0, !.prev = c.abs.sum, !.state = "work"]
      [] OTHER -> IF c.age < StandTime THEN [c EXCEPT !.age = @ + 1]
                  ELSE [c EXCEPT !.state = "error"]

(* evaluate_io: the total is counted in work, the absolute one always.     *)
EvaluateCounter ==
    LET c == Watched(counter) IN
    /\ counter' = [c EXCEPT !.abs = Add(@, meter.raw),
                            !.value = IF c.state = "work" THEN Add(@, meter.raw) ELSE @]
    /\ meter' = [meter EXCEPT !.fresh = 0]
    /\ flow' = IF c.state = "work" THEN [flow EXCEPT !.unseen = 0] ELSE flow
    /\ UNCHANGED pumping

(* pause does not look at the count, although its comment says that the    *)
(* value is calculated once more: what no scan has seen is lost.           *)
PauseCounter ==
    /\ counter.state # "pause"
    /\ counter' = [counter EXCEPT !.state = "pause"]
    /\ flow' = [flow EXCEPT !.lost = @ + flow.unseen, !.unseen = 0]
    /\ UNCHANGED <<meter, pumping>>

(* start: after a pause the count goes on from the present raw count.      *)
(* Mutant: it goes on from where the pause began.                          *)
StartedBefore(c) == [c EXCEPT !.state = "work", !.age = -1]
Started(c) ==
    [c EXCEPT !.state = "work", !.age = -1,
              !.value.last = IF c.state = "pause" THEN meter.raw ELSE @]
StartCounter ==
    /\ counter.state # "work"
    /\ counter' = Started(counter)
    /\ UNCHANGED <<meter, pumping, flow>>

ResetCounter ==
    /\ counter' = [counter EXCEPT !.value.sum = 0]
    /\ flow' = [flow EXCEPT !.through = @ - counter.value.sum]
    /\ UNCHANGED <<meter, pumping>>

CounterNext ==
    \/ Pulse \/ Switch \/ EvaluateCounter \/ PauseCounter
    \/ StartCounter \/ ResetCounter

CounterSpec == CounterInit /\ [][CounterNext]_counterVars

-----------------------------------------------------------------------------
(* Every pulse outside pauses is counted once, or waits for the next scan  *)
(* in work, or is one of those the code loses: one at every overflow of the*)
(* raw count, those before the first reading that is not zero, and those   *)
(* that no scan had seen when a pause began.  So through pauses, errors,   *)
(* starts, resets of the total and overflows nothing is counted twice and  *)
(* nothing else is lost.                                                   *)
CountsWhatFlowed ==
    flow.through = counter.value.sum + flow.unseen + flow.lost
=============================================================================
