----------------------------- MODULE ValveQueue -----------------------------
(***************************************************************************)
(* The valves of the plant and the vector to_switch_off of those that      *)
(* close with a delay.  The control program calls on, off, instant_off and *)
(* set_state, which respect the manual mode; a client's command sets the   *)
(* state whatever the mode; inputs change between cycles.  valve::evaluate *)
(* runs once in every cycle of the main loop.                              *)
(*                                                                         *)
(* An entry of the vector concerns its own valve only, so the order does   *)
(* not matter: toSwitchOff counts the entries of every valve (on() and     *)
(* off() during the delay leave a second one).                             *)
(***************************************************************************)
EXTENDS ValveDrive

CONSTANTS
    Valves,
    ValveKinds,     \* the kinds these valves may be of
    MaxQueue        \* bound: entries of one valve in to_switch_off

ASSUME MaxQueueAssumption == MaxQueue \in Nat
ASSUME KindsAssumption == ValveKinds \subseteq Kinds

VARIABLES
    valve,          \* the record of every valve
    toSwitchOff,    \* how often every valve is in to_switch_off
    told            \* the last of on and off that was called for a valve

valveVars == <<valve, toSwitchOff, told>>

ValveTypeOK ==
    /\ valve \in [Valves -> Valve]
    /\ toSwitchOff \in [Valves -> 0..MaxQueue]
    /\ told \in [Valves -> {"on", "off"}]

ValveInit ==
    /\ valve \in [Valves -> {NewValve(k) : k \in ValveKinds}]
    /\ toSwitchOff = [v \in Valves |-> 0]
    /\ told = [v \in Valves |-> "off"]

ValveBecomes(v, r) == valve' = [valve EXCEPT ![v] = r]

(* Mutant: on() leaves a pending closing alone.                            *)
OnStaysPending(r) ==
    LET s == [r EXCEPT !.auto = TRUE] IN IF r.manual THEN s ELSE DirectOn(s)

(* valve::on, valve::off where it closes at once, instant_off, set_state   *)
OnOf(r) ==
    LET s == [r EXCEPT !.auto = TRUE, !.pending = FALSE]
    IN IF r.manual THEN s ELSE DirectOn(s)
OffAtOnce(r) == IF r.manual THEN r ELSE DirectOff(r)
SetStateOf(r, st) == IF r.manual THEN r ELSE SetTo(r, st)

(* off() of a valve the program has not opened, or of an open seat.        *)
NoDelay(r) == ~ r.auto \/ ValvePosition(r) \in {"V_UPPER_SEAT", "V_LOWER_SEAT"}

On(v) ==
    /\ ValveBecomes(v, OnOf(valve[v]))
    /\ told' = [told EXCEPT ![v] = "on"]
    /\ UNCHANGED toSwitchOff

Off(v) ==
    LET r == valve[v] IN
    /\ told' = [told EXCEPT ![v] = "off"]
    /\ \/ /\ NoDelay(r)
          /\ ValveBecomes(v, OffAtOnce(r))
          /\ UNCHANGED toSwitchOff
       \/ /\ ~ NoDelay(r) /\ r.pending
          /\ UNCHANGED <<valve, toSwitchOff>>
       \/ /\ ~ NoDelay(r) /\ ~ r.pending
          /\ toSwitchOff[v] < MaxQueue
          /\ ValveBecomes(v, [r EXCEPT !.pending = TRUE, !.offAge = 0])
          /\ toSwitchOff' = [toSwitchOff EXCEPT ![v] = @ + 1]

InstantOff(v) ==
    /\ ValveBecomes(v, OffAtOnce(valve[v]))
    /\ UNCHANGED <<toSwitchOff, told>>

SetState(v, st) ==
    /\ ValveBecomes(v, SetStateOf(valve[v], st))
    /\ UNCHANGED <<toSwitchOff, told>>

(* device::set_cmd of a client: the state and the manual mode.             *)
Command(v, st) ==
    /\ ValveBecomes(v, SetTo(valve[v], st))
    /\ UNCHANGED <<toSwitchOff, told>>

SetManual(v, b) ==
    /\ valve[v].manual # b
    /\ ValveBecomes(v, [valve[v] EXCEPT !.manual = b])
    /\ UNCHANGED <<toSwitchOff, told>>

(* The end switches of a valve change; an IO-Link valve tells one position *)
(* at a time or none.                                                      *)
EndsOf(k) == IF k = "iolink" THEN {{}} \union {{e} : e \in Ends}
             ELSE SUBSET {"opened", "closed"}
Sense(v, ends) ==
    /\ valve[v].fb # ends
    /\ ValveBecomes(v, [valve[v] EXCEPT !.fb = ends])
    /\ UNCHANGED <<toSwitchOff, told>>

-----------------------------------------------------------------------------
(* Mutant: a valve is done with once it has been looked at.                *)
DoneAtOnce(r) == r.kind # "bottom" \/ ~ r.closingMini \/ r.miniAge > BottomDelay

(* The first loop over to_switch_off: a valve whose delay is over closes,  *)
(* unless it is in manual mode, and is done with.                          *)
Expired(r) ==
    IF r.pending /\ r.offAge > OffDelay
    THEN [OffAtOnce(r) EXCEPT !.pending = FALSE, !.auto = FALSE]
    ELSE r

(* is_switching_off_finished, and what it does to a bottom valve.          *)
Finished(r) ==
    IF r.kind = "bottom" THEN ~ r.closingMini \/ r.miniAge > BottomDelay
    ELSE ~ r.pending

AfterFinish(r) ==
    IF r.kind = "bottom" /\ r.closingMini /\ r.miniAge > BottomDelay
    THEN DirectOff([r EXCEPT !.closingMini = FALSE])
    ELSE r

(* The entries that stay.  The first one carries out AfterFinish; the      *)
(* others are judged by what it has left.                                  *)
Remaining(n, r) ==
    IF n = 0 \/ ~ Finished(r) THEN n
    ELSE IF Finished(AfterFinish(r)) THEN 0 ELSE n - 1

(* valve::evaluate: the coils of the bistable valves, the delays that are  *)
(* over, and what is finished leaves the vector.                           *)
Coils(r) == IF r.kind = "bistable" THEN ReleasedCoils(r) ELSE r

EvaluateValves ==
    /\ valve' = [v \in Valves |->
           IF toSwitchOff[v] = 0 THEN Coils(valve[v])
           ELSE AfterFinish(Expired(Coils(valve[v])))]
    /\ toSwitchOff' = [v \in Valves |->
           Remaining(toSwitchOff[v], Expired(Coils(valve[v])))]
    /\ UNCHANGED told

TickValves ==
    /\ valve' = [v \in Valves |-> Aged(valve[v])]
    /\ UNCHANGED <<toSwitchOff, told>>

ProgramCalls(v) == On(v) \/ Off(v) \/ InstantOff(v) \/ \E st \in States : SetState(v, st)

ValveNext ==
    \/ \E v \in Valves :
        \/ ProgramCalls(v)
        \/ \E st \in States : Command(v, st)
        \/ \E b \in BOOLEAN : SetManual(v, b)
        \/ \E ends \in EndsOf(valve[v].kind) : Sense(v, ends)
    \/ EvaluateValves
    \/ TickValves

ValveSpec == ValveInit /\ [][ValveNext]_valveVars

(* The main loop evaluates the valves for ever, and time passes.           *)
FairValveSpec ==
    /\ ValveSpec
    /\ WF_valveVars(EvaluateValves) /\ WF_valveVars(TickValves)

-----------------------------------------------------------------------------
(* A valve has one way open at a time: its seats are never lifted while    *)
(* the main drive is energised, the two seats exclude each other, and the  *)
(* two coils of a bistable valve are never energised together              *)
(* (direct_on, direct_off and direct_set_state, whatever calls them).      *)
OneWayOpen ==
    \A v \in Valves :
        LET r == valve[v] IN
        /\ r.kind # "bottom" =>
               \A o, p \in r.out : o = p
        /\ "main" \in r.out => r.out \intersect {"upper", "lower"} = {}

(* A valve that waits for its delayed closing is in to_switch_off: no      *)
(* order of on(), off(), commands and cycles loses it.  The bottom valve   *)
(* is not covered (see EveryOffCompletes).                                 *)
PendingIsQueued ==
    \A v \in Valves :
        valve[v].pending /\ valve[v].kind # "bottom" => toSwitchOff[v] > 0

(* valve::evaluate closes a main drive only if off() came after the last   *)
(* on() and its delay is over: an on() during the delay keeps the valve    *)
(* open although the valve is still in the vector.                         *)
ClosesOnlyWhenTold ==
    [][\A v \in Valves :
        /\ valve[v].kind \notin {"bottom", "bistable"}
        /\ "main" \in valve[v].out /\ "main" \notin valve'[v].out
        /\ EvaluateValves
        => told[v] = "off" /\ valve[v].offAge > OffDelay]_valveVars

(* Under fair cycles and a clock what was begun comes to its end: every    *)
(* delayed closing is carried out or withdrawn, and no stroke of a         *)
(* bistable valve lasts for ever, whatever its end switches say: its coil  *)
(* is released, or the valve is told to move again.                        *)
DelayedEnds ==
    \A v \in Valves :
        /\ []<>(valve[v].kind = "bottom" \/ ~ valve[v].pending)
        /\ \A o \in {"open", "close"} :
             []<>(\/ valve[v].kind # "bistable" \/ o \notin valve[v].out
                  \/ valve[v].switchAge = 0)

(* "Выключение клапанов с задержкой" for every valve, the bottom one too.  *)
EveryOffCompletes == \A v \in Valves : []<>(~ valve[v].pending)
=============================================================================
