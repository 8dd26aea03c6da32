----------------------------- MODULE ValveDrive -----------------------------
(***************************************************************************)
(* What a valve object does to its outputs: direct_on, direct_off and      *)
(* direct_set_state of the kinds of valves on discrete channels, and the   *)
(* position they conclude from outputs and feedback.  A valve is a record; *)
(* its operations return the record after.                                 *)
(*                                                                         *)
(*   "shutoff"   one coil (valve_DO1_DI2)                                  *)
(*   "bistable"  a coil for each direction, held until the end switch      *)
(*   "mixproof"  main drive and two seats                                  *)
(*   "bottom"    main drive, lower seat and a mini valve that stays open   *)
(*               for a while after the main drive is released              *)
(*   "miniflush" main drive and a mini valve                               *)
(*   "twocoil"   a coil for each direction, one of them always on          *)
(*   "terminal"  main drive and seats on a valve terminal                  *)
(*   "iolink"    main drive and seats behind IO-Link, which also tells the *)
(*               position (valve_iolink_mix_proof)                         *)
(*                                                                         *)
(* Moments are kept as ages in ticks, which stop at MaxAge.                *)
(***************************************************************************)
EXTENDS Integers

CONSTANTS
    OffDelay,       \* P_V_OFF_DELAY_TIME
    BottomDelay,    \* P_V_BOTTOM_OFF_DELAY_TIME
    OnTime,         \* P_ON_TIME of the valves
    MaxAge          \* bound: ages are not counted further

ASSUME DelayAssumption ==
    /\ OffDelay \in Nat /\ BottomDelay \in Nat /\ OnTime \in Nat
    /\ MaxAge \in Nat
    /\ OffDelay < MaxAge /\ BottomDelay < MaxAge /\ OnTime < MaxAge

Kinds == {"shutoff", "bistable", "mixproof", "bottom", "miniflush", "twocoil",
          "terminal", "iolink"}
Outputs == {"main", "open", "close", "upper", "lower", "mini"}
Ends == {"opened", "closed", "upper", "lower"}
Ages == 0..MaxAge
States == {"V_OFF", "V_ON", "V_UPPER_SEAT", "V_LOWER_SEAT", "V_STOP"}

Valve == [kind: Kinds,
          out: SUBSET Outputs,              \* the energised outputs
          fb: SUBSET Ends,                  \* the end switches
          manual: BOOLEAN,                  \* is_manual_mode
          auto: BOOLEAN,                    \* was_on_auto
          pending: BOOLEAN,                 \* is_switching_off
          closingMini: BOOLEAN,             \* is_closing_mini
          stoped: BOOLEAN,                  \* is_stoped
          moving: {"none", "opening", "closing"}, \* is_opening, is_closing
          offAge: Ages,                     \* since start_off_time
          miniAge: Ages,                    \* since start_off_time (bottom)
          switchAge: Ages]                  \* since start_switch_time

NewValve(k) == [kind |-> k, out |-> {}, fb |-> {"closed"}, manual |-> FALSE,
                auto |-> FALSE, pending |-> FALSE, closingMini |-> FALSE,
                stoped |-> FALSE, moving |-> "none", offAge |-> 0,
                miniAge |-> 0, switchAge |-> 0]

Switched(r, out) == [r EXCEPT !.out = out, !.switchAge = 0]

(* get_valve_state of a valve with one main drive.                         *)
SeatPosition(r) ==
    IF "main" \in r.out THEN "V_ON"
    ELSE IF "upper" \in r.out \/ (r.kind = "bottom" /\ "mini" \in r.out)
         THEN "V_UPPER_SEAT"
    ELSE IF "lower" \in r.out \/ "mini" \in r.out THEN "V_LOWER_SEAT"
    ELSE "V_OFF"

(* ... and of a bistable one, whose end switches come first.               *)
CoilPosition(r) ==
    IF "opened" \in r.fb THEN "V_ON"
    ELSE IF "closed" \in r.fb THEN "V_OFF"
    ELSE IF "open" \in r.out THEN "V_ON"
    ELSE IF "close" \notin r.out /\ r.stoped THEN "V_STOP"
    ELSE "V_OFF"

(* ... of one with two held coils, which reads the closing one (sic) ...   *)
TwoCoilPosition(r) == IF "close" \in r.out THEN "V_ON" ELSE "V_OFF"

(* ... and of an IO-Link valve, which tells it.                            *)
ToldPosition(r) ==
    CASE "closed" \in r.fb -> "V_OFF"
      [] r.fb \intersect {"closed", "opened"} = {"opened"} -> "V_ON"
      [] r.fb \intersect {"closed", "opened"} = {} /\ "upper" \in r.fb -> "V_UPPER_SEAT"
      [] r.fb = {"lower"} -> "V_LOWER_SEAT"
      [] OTHER -> "V_OFF"

(* Valve with the opening or the closing coil energised, but not when it   *)
(* is at that end or already on its way there.                             *)
Move(r, coil, end, dir) ==
    IF end \in r.fb \/ coil \in r.out THEN r
    ELSE [Switched(r, {coil}) EXCEPT !.moving = dir]

(* The held coils of a "twocoil" valve.                                    *)
Hold(r, coil) == IF coil \in r.out THEN r ELSE Switched(r, {coil})

IolinkOn(r) ==
    IF "opened" \in r.fb THEN [r EXCEPT !.out = {"main"}] ELSE Switched(r, {"main"})
TerminalOn(r) ==
    IF "main" \in r.out THEN r ELSE Switched(r, {"main"})

DirectOn(r) ==
    LET rest == r.out \ {"upper", "lower"} IN
    CASE r.kind = "bistable" -> Move(r, "open", "opened", "opening")
      [] r.kind = "twocoil" -> Hold(r, "open")
      [] r.kind = "terminal" -> TerminalOn(r)
      [] r.kind = "iolink" -> IolinkOn(r)
      [] r.kind = "bottom" ->
           IF "main" \in r.out THEN [r EXCEPT !.out = rest]
           ELSE Switched(r, rest \union {"main", "mini"})
      [] OTHER ->
           IF "main" \in r.out THEN [r EXCEPT !.out = rest]
           ELSE Switched(r, (rest \ {"mini"}) \union {"main"})

(* The bottom valve releases main drive or seat and leaves the mini valve  *)
(* open until BottomDelay is over.                                         *)
ReleaseBottom(r) ==
    LET a == IF SeatPosition(r) = "V_LOWER_SEAT"
             THEN Switched(r, r.out \ {"lower"}) ELSE r
        b == IF "main" \in a.out
             THEN [Switched(a, a.out \ {"main"}) EXCEPT
                      !.closingMini = TRUE, !.miniAge = 0]
             ELSE a
    IN IF "mini" \in b.out /\ ~ b.closingMini
       THEN Switched(b, b.out \ {"mini"}) ELSE b

DirectOff(r) ==
    CASE r.kind = "bistable" -> Move(r, "close", "closed", "closing")
      [] r.kind = "twocoil" -> Hold(r, "close")
      [] r.kind = "bottom" -> ReleaseBottom(r)
      [] OTHER -> IF r.out = {} THEN r ELSE Switched(r, {})

(* Mutant: the seat is lifted over the energised main drive.               *)
SeatOverDrive(r, o) == Switched(r, r.out \union {o})

(* A seat (or the mini valve) after everything else is released.           *)
OpenSeat(r, o) ==
    LET s == DirectOff(r)
    IN IF o \in s.out THEN s ELSE Switched(s, s.out \union {o})

(* A seat of an IO-Link valve and of one on a terminal.                    *)
IolinkSeat(r, o) == [DirectOff(r) EXCEPT !.out = @ \union {o}]
TerminalSeat(r, o) == [r EXCEPT !.out = {o}]

StopBistable(r) ==
    IF r.fb # {} THEN [r EXCEPT !.moving = "none"]
    ELSE [r EXCEPT !.moving = "none", !.stoped = TRUE, !.out = {}]

SeatOf == [V_UPPER_SEAT |-> "upper", V_LOWER_SEAT |-> "lower"]

(* direct_set_state with one of the seats ...                              *)
BottomSeat(r, st) ==
    IF st = "V_LOWER_SEAT" THEN OpenSeat(r, "lower")
    ELSE LET s == [DirectOff(r) EXCEPT !.closingMini = FALSE]
         IN IF "mini" \in s.out THEN s ELSE Switched(s, s.out \union {"mini"})

LiftSeat(r, st) ==
    CASE r.kind = "mixproof" -> OpenSeat(r, SeatOf[st])
      [] r.kind = "iolink" -> IolinkSeat(r, SeatOf[st])
      [] r.kind = "terminal" -> TerminalSeat(r, SeatOf[st])
      [] r.kind = "miniflush" ->
           IF st = "V_UPPER_SEAT" THEN DirectOff(r) ELSE OpenSeat(r, "mini")
      [] r.kind = "bottom" -> BottomSeat(r, st)

(* ... with a seat or V_STOP, which valves with one drive ignore ...       *)
SetOther(r, st) ==
    CASE r.kind \in {"shutoff", "twocoil"} -> r
      [] r.kind = "bistable" ->
           IF st = "V_STOP" THEN StopBistable(r) ELSE [r EXCEPT !.stoped = FALSE]
      [] OTHER -> IF st = "V_STOP" THEN DirectOn(r) ELSE LiftSeat(r, st)

(* ... and with any state.                                                 *)
SetTo(r, st) ==
    CASE st = "V_OFF" -> DirectOff([r EXCEPT !.stoped = FALSE])
      [] st = "V_ON" -> DirectOn([r EXCEPT !.stoped = FALSE])
      [] OTHER -> SetOther(r, st)

ValvePosition(r) ==
    CASE r.kind = "bistable" -> CoilPosition(r)
      [] r.kind = "twocoil" -> TwoCoilPosition(r)
      [] r.kind = "iolink" -> ToldPosition(r)
      [] OTHER -> SeatPosition(r)

(* Mutant: the coils stay energised for as long as the end switch is off.  *)
KeptCoils(r) ==
    [r EXCEPT !.out = {o \in @ : ~ (o = "open" /\ "opened" \in r.fb)
                                 /\ ~ (o = "close" /\ "closed" \in r.fb)}]

(* valve_DO2_DI2_bistable::evaluate: a coil is released at its end switch  *)
(* or when its time is over.                                               *)
ReleasedCoils(r) ==
    [r EXCEPT !.out = {o \in @ :
        ~ (/\ o \in {"open", "close"}
           /\ \/ r.switchAge > OnTime
              \/ o = "open" /\ "opened" \in r.fb
              \/ o = "close" /\ "closed" \in r.fb)}]

(* A tick of the clock.                                                    *)
Older(a) == IF a < MaxAge THEN a + 1 ELSE a
Aged(r) == [r EXCEPT !.offAge = Older(@), !.miniAge = Older(@),
                     !.switchAge = Older(@)]
=============================================================================
