------------------------------ MODULE SeatWash ------------------------------
(***************************************************************************)
(* Washing the seats of mixproof valves while an operation runs            *)
(* (open_seat_action).  An operation state has two such actions, one of    *)
(* its own ("mode") and one of the active step ("step"), which may name    *)
(* the same valves; off_action keeps valves closed that nobody washes.     *)
(*                                                                         *)
(* The valves are closed mixproof valves in automatic mode that only these *)
(* actions drive, so a valve is the seat it has open.  off() closes an     *)
(* open seat at once (module ValveQueue, NoDelay).                         *)
(***************************************************************************)
EXTENDS Integers, Sequences, SequencesExt

CONSTANTS
    WashValves,
    Groups,         \* the groups of valves: [upper, lower] of every action
    KeptOff,        \* the valves of the state's off_action
    FlipTime,       \* P_MIX_FLIP_UPPER_TIME and P_MIX_FLIP_LOWER_TIME
    Totals,         \* P_MIX_FLIP_PERIOD or the set time of the step
    WordSize,       \* the unsigned wait_time wraps there (2^32 in the code)
    WashMaxAge      \* bound: the cycle time is not counted further

WashActions == {"mode", "step"}

ASSUME WashAssumption ==
    /\ Groups \in [WashActions -> [{"upper", "lower"} -> Seq(SUBSET WashValves)]]
    /\ FlipTime \in [{"upper", "lower"} -> Nat]
    /\ Totals \subseteq Nat /\ WordSize \in Nat \ {0} /\ WashMaxAge \in Nat

VARIABLES
    wash,       \* the two actions
    seat,       \* the open seat of every valve
    washed      \* the valves whose wash_flag is set

washVars == <<wash, seat, washed>>

Opposite(p) == IF p = "upper" THEN "lower" ELSE "upper"
GroupsOf(a, p) == Groups[a][p]
Count(a) == Len(GroupsOf(a, "upper")) + Len(GroupsOf(a, "lower"))
AllOf(a) == UNION (ToSet(GroupsOf(a, "upper")) \union ToSet(GroupsOf(a, "lower")))

WashTypeOK ==
    /\ wash \in [WashActions ->
           [running: BOOLEAN,
            phase: {"waiting", "upper", "lower"},
            next: {"upper", "lower"},       \* next_phase
            group: Nat,                     \* active_group_n
            wait: Nat,                      \* wait_time
            age: 0..WashMaxAge]]            \* since start_cycle_time
    /\ seat \in [WashValves -> {"closed", "upper", "lower"}]
    /\ washed \in SUBSET WashValves

Idle == [running |-> FALSE, phase |-> "waiting", next |-> "upper", group |-> 1,
         wait |-> 0, age |-> 0]

WashInit ==
    /\ wash = [a \in WashActions |-> Idle]
    /\ seat = [v \in WashValves |-> "closed"]
    /\ washed = {}

(* wait_time: what the flips leave of the total, in equal parts before,    *)
(* between and after them; unsigned.                                       *)
Longest == IF FlipTime["upper"] > FlipTime["lower"]
           THEN FlipTime["upper"] ELSE FlipTime["lower"]
WaitTime(a, total) ==
    ((total - Longest * Count(a)) % WordSize) \div (Count(a) + 1)

(* The operations below work on the whole state at once, as actions of one *)
(* cycle follow each other: s has the fields wash, seat and washed.        *)
Now == [wash |-> wash, seat |-> seat, washed |-> washed]
Set(s) == wash' = s.wash /\ seat' = s.seat /\ washed' = s.washed

Active(s, a) == GroupsOf(a, s.wash[a].phase)[s.wash[a].group]
With(s, a, r) == [s EXCEPT !.wash[a] = r]

(* switch_on_group, switch_off_group, and the latter with the check.       *)
OpenGroup(s, vs, p) ==
    [wash |-> s.wash, washed |-> {v \in WashValves : v \in vs \/ v \in s.washed},
     seat |-> [v \in WashValves |-> IF v \in vs THEN p ELSE s.seat[v]]]
CloseGroup(s, vs) ==
    [wash |-> s.wash, washed |-> s.washed \ vs,
     seat |-> [v \in WashValves |-> IF v \in vs THEN "closed" ELSE s.seat[v]]]
CloseUnwashed(s, vs) ==
    [s EXCEPT !.seat = [v \in WashValves |->
        IF v \in vs \ s.washed THEN "closed" ELSE @[v]]]

(* Mutant: an action that stops leaves its seats to the next one.          *)
LeftOpen(s, a) == s

(* open_seat_action::finalize                                              *)
Finalized(s, a) ==
    IF s.wash[a].phase = "waiting" \/ GroupsOf(a, s.wash[a].phase) = <<>> THEN s
    ELSE CloseGroup(s, Active(s, a))

(* Mutant: after the last group the action goes on with the same seats.    *)
SameSeats(a, r) ==
    IF r.group < Len(GroupsOf(a, r.phase))
    THEN [r EXCEPT !.phase = "waiting", !.age = 0, !.group = @ + 1]
    ELSE [r EXCEPT !.phase = "waiting", !.age = 0, !.group = 1]

(* The end of a flip: wait for the next group, or for the other seats.     *)
NextGroup(a, r) ==
    IF r.group < Len(GroupsOf(a, r.phase))
    THEN [r EXCEPT !.phase = "waiting", !.age = 0, !.group = @ + 1]
    ELSE [r EXCEPT !.phase = "waiting", !.age = 0, !.group = 1,
                   !.next = Opposite(r.phase)]

(* open_seat_action::evaluate                                              *)
Evaluated(s, a) ==
    LET r == s.wash[a] IN
    CASE ~ r.running \/ Count(a) = 0 -> s
      [] r.running /\ Count(a) > 0 /\ r.phase = "waiting" ->
           With(CloseUnwashed(s, AllOf(a)), a,
                IF r.age > r.wait THEN [r EXCEPT !.phase = r.next, !.age = 0] ELSE r)
      [] OTHER ->
           IF GroupsOf(a, r.phase) = <<>>
           THEN With(s, a, [r EXCEPT !.phase = Opposite(@), !.next = Opposite(r.phase)])
           ELSE IF r.age < FlipTime[r.phase]
           THEN OpenGroup(s, Active(s, a), r.phase)
           ELSE With(Finalized(s, a), a, NextGroup(a, r))

(* The state or the step becomes active (open_seat_action::init), and ends *)
(* (finalize).  The step's action runs only while the state does.          *)
StartWash(a, total) ==
    /\ ~ wash[a].running
    /\ a = "step" => wash["mode"].running
    /\ wash' = [wash EXCEPT ![a] = [Idle EXCEPT !.running = TRUE,
                    !.wait = IF Count(a) = 0 THEN 0 ELSE WaitTime(a, total)]]
    /\ UNCHANGED <<seat, washed>>

Stopped(s, a) == With(Finalized(s, a), a, [s.wash[a] EXCEPT !.running = FALSE])

StopWash(a) ==
    /\ wash[a].running
    /\ Set(IF a = "mode" /\ wash["step"].running
           THEN Stopped(Stopped(Now, "step"), "mode") ELSE Stopped(Now, a))

(* A cycle some ticks after the last one: off_action and the two actions.  *)
Later(r, dt) == [r EXCEPT !.age = IF @ + dt < WashMaxAge THEN @ + dt ELSE WashMaxAge]
WashCycle(dt) ==
    /\ wash["mode"].running
    /\ LET s == [Now EXCEPT !.wash = [a \in WashActions |-> Later(@[a], dt)]]
       IN Set(Evaluated(Evaluated(CloseUnwashed(s, KeptOff), "mode"), "step"))

WashNext ==
    \/ \E a \in WashActions : (\E t \in Totals : StartWash(a, t)) \/ StopWash(a)
    \/ \E dt \in 0..1 : WashCycle(dt)

WashSpec == WashInit /\ [][WashNext]_washVars

-----------------------------------------------------------------------------
(* A seat is open, or counted as being washed, only while a running action *)
(* has that valve in the group it washes now: no seat is forgotten open    *)
(* when a step ends, groups change or both actions wash the same valve.    *)
Washes(a, v) ==
    /\ wash[a].running
    /\ wash[a].phase # "waiting" /\ GroupsOf(a, wash[a].phase) # <<>>
    /\ v \in Active(Now, a)

SeatOwned ==
    \A v \in WashValves :
        seat[v] # "closed" \/ v \in washed => \E a \in WashActions : Washes(a, v)

(* An action that keeps running washes every seat of every group in turn,  *)
(* if its flips fit into the total time; a valve that the other action     *)
(* washes at that moment may be left out (it is closed when that ends).    *)
WashedInTurn ==
    \A a \in WashActions : \A p \in {"upper", "lower"} :
        \A i \in DOMAIN GroupsOf(a, p) :
            []<>(\/ ~ wash[a].running \/ wash[a].wait >= WashMaxAge
                 \/ /\ wash[a].phase = p /\ wash[a].group = i
                    /\ \A v \in GroupsOf(a, p)[i] :
                         seat[v] = p \/ \E b \in WashActions \ {a} : Washes(b, v))
=============================================================================
