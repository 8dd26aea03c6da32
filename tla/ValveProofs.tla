------------------------------- MODULE ValveProofs -------------------------------
(***************************************************************************)
(* What is proved of the valves, in two parts: how they are opened and     *)
(* closed (module ValveQueue), and the washing of their seats (SeatWash).  *)
(***************************************************************************)
EXTENDS ValveQueue, SeatWash, TLAPS

(***************************************************************************)
(* What is proved of the valves for any set of valves of any kinds and any *)
(* delays: their types, that a valve has one way open at a time, and that  *)
(* the queue of delayed closings loses no valve and closes none too early. *)
(*                                                                         *)
(* Every operation of ValveDrive keeps ValveOK of the record it changes,   *)
(* and neither the kind of the valve nor its pending closing (Kept); the   *)
(* invariant of the queue is then preserved action by action.              *)
(***************************************************************************)

(* A valve that holds only the outputs of its kind, one way at a time.     *)
OneWay(r) ==
    /\ r.kind # "bottom" => \A o, p \in r.out : o = p
    /\ "main" \in r.out => r.out \intersect {"upper", "lower"} = {}
OwnOutputs(r) ==
    r.kind \notin {"bistable", "twocoil"} => "open" \notin r.out /\ "close" \notin r.out
ValveOK(r) == r \in Valve /\ OneWay(r) /\ OwnOutputs(r)

Kept(r, s) == s.kind = r.kind /\ s.pending = r.pending /\ s.offAge = r.offAge

-----------------------------------------------------------------------------
(* Changing anything but the kind and the outputs keeps ValveOK.           *)
LEMMA SameOutputs ==
    ASSUME NEW r, NEW s, ValveOK(r), s \in Valve, s.kind = r.kind, s.out \subseteq r.out
    PROVE  ValveOK(s)
BY DEF ValveOK, OneWay, OwnOutputs

(* A valve with at most one output, which is none of another kind.         *)
LEMMA OneOutput ==
    ASSUME NEW r, NEW s, ValveOK(r), s \in Valve, s.kind = r.kind, NEW o,
           s.out \subseteq {o},
           r.kind \in {"bistable", "twocoil"} \/ o \notin {"open", "close"}
    PROVE  ValveOK(s)
BY DEF ValveOK, OneWay, OwnOutputs

(* Switching the outputs changes nothing else.                             *)
LEMMA SwitchedType ==
    ASSUME NEW r \in Valve, NEW out \in SUBSET Outputs
    PROVE  /\ Switched(r, out) \in Valve /\ Kept(r, Switched(r, out))
           /\ Switched(r, out).out = out
           /\ Switched(r, out).closingMini = r.closingMini
<1>1. 0 \in Ages
  BY DelayAssumption DEF Ages
<1>2. Switched(r, out) \in Valve
  BY <1>1 DEF Switched, Valve
<1>3. Kept(r, Switched(r, out)) /\ Switched(r, out).out = out
      /\ Switched(r, out).closingMini = r.closingMini
  BY DEF Switched, Valve, Kept
<1> QED BY <1>2, <1>3

(* A bistable valve is driven by one coil.                                 *)
LEMMA MoveKeeps ==
    ASSUME NEW r, ValveOK(r), r.kind = "bistable", NEW coil \in {"open", "close"},
           NEW end, NEW dir \in {"opening", "closing"}
    PROVE  ValveOK(Move(r, coil, end, dir)) /\ Kept(r, Move(r, coil, end, dir))
<1> DEFINE s == Switched(r, {coil})  t == [s EXCEPT !.moving = dir]
<1>1. CASE end \in r.fb \/ coil \in r.out
  BY <1>1 DEF Move, Kept
<1>2. CASE ~ (end \in r.fb \/ coil \in r.out)
  <2>1. s \in Valve /\ Kept(r, s) /\ s.out = {coil}
    BY SwitchedType DEF ValveOK, Outputs
  <2>2. t \in Valve /\ Kept(r, t) /\ t.out = {coil}
    BY <2>1 DEF Valve, Kept
  <2> QED BY <1>2, <2>2, OneOutput DEF Move, Kept
<1> QED BY <1>1, <1>2

(* A valve of two coils holds one.                                         *)
LEMMA HoldKeeps ==
    ASSUME NEW r, ValveOK(r), r.kind = "twocoil", NEW coil \in {"open", "close"}
    PROVE  ValveOK(Hold(r, coil)) /\ Kept(r, Hold(r, coil))
<1>1. Switched(r, {coil}) \in Valve /\ Kept(r, Switched(r, {coil}))
      /\ Switched(r, {coil}).out = {coil}
  BY SwitchedType DEF ValveOK, Outputs
<1> QED BY <1>1, OneOutput DEF Hold, Kept

(* On, by a terminal.                                                      *)
LEMMA TerminalOnKeeps ==
    ASSUME NEW r, ValveOK(r), r.kind = "terminal"
    PROVE  ValveOK(TerminalOn(r)) /\ Kept(r, TerminalOn(r))
<1>1. Switched(r, {"main"}) \in Valve /\ Kept(r, Switched(r, {"main"}))
      /\ Switched(r, {"main"}).out = {"main"}
  BY SwitchedType DEF ValveOK, Outputs
<1> QED BY <1>1, OneOutput DEF TerminalOn, Kept

(* On, by IO-Link.                                                         *)
LEMMA IolinkOnKeeps ==
    ASSUME NEW r, ValveOK(r), r.kind = "iolink"
    PROVE  ValveOK(IolinkOn(r)) /\ Kept(r, IolinkOn(r))
<1> DEFINE t == [r EXCEPT !.out = {"main"}]
<1>1. Switched(r, {"main"}) \in Valve /\ Kept(r, Switched(r, {"main"}))
      /\ Switched(r, {"main"}).out = {"main"}
  BY SwitchedType DEF ValveOK, Outputs
<1>2. t \in Valve /\ Kept(r, t) /\ t.out = {"main"}
  BY DEF ValveOK, Valve, Kept, Outputs
<1> QED BY <1>1, <1>2, OneOutput DEF IolinkOn, Kept

-----------------------------------------------------------------------------
(* direct_on opens the main drive after the seats are released.            *)
LEMMA DirectOnKeeps ==
    ASSUME NEW r, ValveOK(r)
    PROVE  ValveOK(DirectOn(r)) /\ Kept(r, DirectOn(r))
<1> DEFINE rest == r.out \ {"upper", "lower"}
<1>0. r \in Valve /\ r.kind \in Kinds /\ r.out \in SUBSET Outputs
  BY DEF ValveOK, Valve
<1>1. CASE r.kind = "bistable"
  <2>1. DirectOn(r) = Move(r, "open", "opened", "opening")
    BY <1>1 DEF DirectOn
  <2> QED BY <1>1, <2>1, MoveKeeps
<1>2. CASE r.kind = "twocoil"
  <2>1. DirectOn(r) = Hold(r, "open")
    BY <1>2 DEF DirectOn
  <2> QED BY <1>2, <2>1, HoldKeeps
<1>3. CASE r.kind = "terminal"
  <2>1. DirectOn(r) = TerminalOn(r)
    BY <1>3 DEF DirectOn
  <2> QED BY <1>3, <2>1, TerminalOnKeeps
<1>4. CASE r.kind = "iolink"
  <2>1. DirectOn(r) = IolinkOn(r)
    BY <1>4 DEF DirectOn
  <2> QED BY <1>4, <2>1, IolinkOnKeeps
<1>5. CASE r.kind = "bottom"
  <2> DEFINE s == Switched(r, rest \union {"main", "mini"})  t == [r EXCEPT !.out = rest]
  <2>1. DirectOn(r) = IF "main" \in r.out THEN t ELSE s
    BY <1>5 DEF DirectOn
  <2>2. s \in Valve /\ Kept(r, s) /\ s.out = rest \union {"main", "mini"}
    BY <1>0, SwitchedType DEF Outputs
  <2>3. ValveOK(s)
    BY <1>5, <2>2 DEF ValveOK, OneWay, OwnOutputs, Kept
  <2>4. t \in Valve /\ Kept(r, t) /\ t.out = rest
    BY <1>0 DEF Valve, Kept
  <2>5. ValveOK(t)
    BY <2>4, SameOutputs DEF Kept
  <2> QED BY <2>1, <2>2, <2>3, <2>4, <2>5
<1>6. CASE r.kind \in {"shutoff", "mixproof", "miniflush"}
  <2> DEFINE s == Switched(r, (rest \ {"mini"}) \union {"main"})  t == [r EXCEPT !.out = rest]
  <2>1. DirectOn(r) = IF "main" \in r.out THEN t ELSE s
    BY <1>6 DEF DirectOn
  <2>2. s \in Valve /\ Kept(r, s) /\ s.out = (rest \ {"mini"}) \union {"main"}
    BY <1>0, SwitchedType DEF Outputs
  <2>3. s.out \subseteq {"main"}
    BY <1>6, <2>2 DEF ValveOK, OwnOutputs, Valve, Outputs
  <2>4. ValveOK(s)
    BY <1>6, <2>2, <2>3, OneOutput DEF Kept
  <2>5. t \in Valve /\ Kept(r, t) /\ t.out = rest
    BY <1>0 DEF Valve, Kept
  <2>6. ValveOK(t)
    BY <2>5, SameOutputs DEF Kept
  <2> QED BY <2>1, <2>2, <2>4, <2>5, <2>6
<1> QED BY <1>0, <1>1, <1>2, <1>3, <1>4, <1>5, <1>6 DEF Kinds

-----------------------------------------------------------------------------
(* direct_off releases the main drive, whatever else it leaves.            *)
LEMMA ReleaseBottomKeeps ==
    ASSUME NEW r, ValveOK(r), r.kind = "bottom"
    PROVE  /\ ValveOK(ReleaseBottom(r)) /\ Kept(r, ReleaseBottom(r))
           /\ "main" \notin ReleaseBottom(r).out
<1> DEFINE a == IF SeatPosition(r) = "V_LOWER_SEAT"
                THEN Switched(r, r.out \ {"lower"}) ELSE r
           c == Switched(a, a.out \ {"main"})
           b == IF "main" \in a.out
                THEN [c EXCEPT !.closingMini = TRUE, !.miniAge = 0] ELSE a
           d == Switched(b, b.out \ {"mini"})
<1>0. r \in Valve /\ r.out \in SUBSET Outputs
  BY DEF ValveOK, Valve
<1>1. a \in Valve /\ Kept(r, a) /\ a.out \subseteq r.out
  BY <1>0, SwitchedType DEF Kept
<1>2. c \in Valve /\ Kept(r, c) /\ c.out = a.out \ {"main"}
  BY <1>0, <1>1, SwitchedType DEF Kept
<1>3. 0 \in Ages
  BY DelayAssumption DEF Ages
<1>4. [c EXCEPT !.closingMini = TRUE, !.miniAge = 0] \in Valve
  BY <1>2, <1>3 DEF Valve
<1>5. /\ Kept(r, [c EXCEPT !.closingMini = TRUE, !.miniAge = 0])
      /\ [c EXCEPT !.closingMini = TRUE, !.miniAge = 0].out = c.out
  BY <1>2 DEF Valve, Kept
<1>6. b \in Valve /\ Kept(r, b) /\ b.out \subseteq r.out \ {"main"}
  BY <1>1, <1>2, <1>4, <1>5
<1>7. ReleaseBottom(r) = IF "mini" \in b.out /\ ~ b.closingMini THEN d ELSE b
  BY DEF ReleaseBottom
<1> HIDE DEF b
<1>8. d \in Valve /\ Kept(r, d) /\ d.out = b.out \ {"mini"}
  <2>1. b.out \ {"mini"} \in SUBSET Outputs
    BY <1>0, <1>6
  <2> QED BY <1>6, <2>1, SwitchedType DEF Kept
<1> HIDE DEF d
<1>9. ValveOK(b) /\ ValveOK(d)
  BY <1>6, <1>8, SameOutputs DEF Kept
<1> QED BY <1>6, <1>7, <1>8, <1>9

(* direct_off: only a valve with a coil for each way keeps an output.      *)
LEMMA DirectOffKeeps ==
    ASSUME NEW r, ValveOK(r)
    PROVE  /\ ValveOK(DirectOff(r)) /\ Kept(r, DirectOff(r))
           /\ r.kind \notin {"bistable", "twocoil"} => "main" \notin DirectOff(r).out
           /\ r.kind \notin {"bistable", "twocoil", "bottom"} => DirectOff(r).out = {}
<1>0. r \in Valve /\ r.kind \in Kinds
  BY DEF ValveOK, Valve
<1>1. CASE r.kind = "bistable"
  <2>1. DirectOff(r) = Move(r, "close", "closed", "closing")
    BY <1>1 DEF DirectOff
  <2> QED BY <1>1, <2>1, MoveKeeps
<1>2. CASE r.kind = "twocoil"
  <2>1. DirectOff(r) = Hold(r, "close")
    BY <1>2 DEF DirectOff
  <2> QED BY <1>2, <2>1, HoldKeeps
<1>3. CASE r.kind = "bottom"
  <2>1. DirectOff(r) = ReleaseBottom(r)
    BY <1>3 DEF DirectOff
  <2> QED BY <1>3, <2>1, ReleaseBottomKeeps
<1>4. CASE r.kind \notin {"bistable", "twocoil", "bottom"}
  <2>1. DirectOff(r) = IF r.out = {} THEN r ELSE Switched(r, {})
    BY <1>4 DEF DirectOff
  <2>2. /\ Switched(r, {}) \in Valve /\ Kept(r, Switched(r, {}))
        /\ Switched(r, {}).out = {}
    BY <1>0, SwitchedType
  <2>3. ValveOK(Switched(r, {}))
    BY <2>2, SameOutputs DEF Kept
  <2> QED BY <1>4, <2>1, <2>2, <2>3 DEF Kept
<1> QED BY <1>1, <1>2, <1>3, <1>4

-----------------------------------------------------------------------------
(* direct_set_state: a seat is lifted only after the main drive is off.    *)
LEMMA OpenSeatKeeps ==
    ASSUME NEW r, ValveOK(r), r.kind \in {"bottom", "mixproof", "miniflush"},
           NEW o \in {"upper", "lower", "mini"}
    PROVE  ValveOK(OpenSeat(r, o)) /\ Kept(r, OpenSeat(r, o))
<1> DEFINE s == DirectOff(r)  t == Switched(s, s.out \union {o})
<1>1. /\ ValveOK(s) /\ Kept(r, s) /\ "main" \notin s.out
      /\ r.kind # "bottom" => s.out = {}
  BY DirectOffKeeps
<1>2. s \in Valve /\ s.out \in SUBSET Outputs
  BY <1>1 DEF ValveOK, Valve
<1>3. t \in Valve /\ Kept(s, t) /\ t.out = s.out \union {o}
  BY <1>2, SwitchedType DEF Outputs
<1>4. ValveOK(t)
  BY <1>1, <1>3 DEF ValveOK, OneWay, OwnOutputs, Kept
<1>5. OpenSeat(r, o) = IF o \in s.out THEN s ELSE t
  BY DEF OpenSeat
<1> HIDE DEF s, t
<1> QED BY <1>1, <1>3, <1>4, <1>5 DEF Kept

(* A seat, by IO-Link.                                                     *)
LEMMA IolinkSeatKeeps ==
    ASSUME NEW r, ValveOK(r), r.kind = "iolink", NEW o \in {"upper", "lower"}
    PROVE  ValveOK(IolinkSeat(r, o)) /\ Kept(r, IolinkSeat(r, o))
<1> DEFINE s == DirectOff(r)
<1>1. ValveOK(s) /\ Kept(r, s) /\ s.out = {}
  BY DirectOffKeeps
<1>2. s \in Valve
  BY <1>1 DEF ValveOK
<1>3. IolinkSeat(r, o) = [s EXCEPT !.out = s.out \union {o}]
  BY DEF IolinkSeat
<1> HIDE DEF s
<1>4. /\ IolinkSeat(r, o) \in Valve /\ Kept(s, IolinkSeat(r, o))
      /\ IolinkSeat(r, o).out = {o}
  BY <1>1, <1>2, <1>3 DEF Valve, Kept, Outputs
<1> QED BY <1>1, <1>4, OneOutput DEF Kept

(* A seat, by a terminal.                                                  *)
LEMMA TerminalSeatKeeps ==
    ASSUME NEW r, ValveOK(r), r.kind = "terminal", NEW o \in {"upper", "lower"}
    PROVE  ValveOK(TerminalSeat(r, o)) /\ Kept(r, TerminalSeat(r, o))
<1>1. /\ TerminalSeat(r, o) \in Valve /\ Kept(r, TerminalSeat(r, o))
      /\ TerminalSeat(r, o).out = {o}
  BY DEF TerminalSeat, ValveOK, Valve, Kept, Outputs
<1> QED BY <1>1, OneOutput DEF Kept

(* A bistable valve is stopped where it is.                                *)
LEMMA StopBistableKeeps ==
    ASSUME NEW r, ValveOK(r)
    PROVE  ValveOK(StopBistable(r)) /\ Kept(r, StopBistable(r))
<1> DEFINE s == [r EXCEPT !.moving = "none"]
           t == [r EXCEPT !.moving = "none", !.stoped = TRUE, !.out = {}]
<1>1. s \in Valve /\ Kept(r, s) /\ s.out = r.out
  BY DEF ValveOK, Valve, Kept
<1>2. t \in Valve /\ Kept(r, t) /\ t.out = {}
  BY DEF ValveOK, Valve, Kept
<1>3. StopBistable(r) = IF r.fb # {} THEN s ELSE t
  BY DEF StopBistable
<1> HIDE DEF s, t
<1> QED BY <1>1, <1>2, <1>3, SameOutputs DEF Kept

Seats == {"V_UPPER_SEAT", "V_LOWER_SEAT"}

(* A seat of a bottom valve.                                               *)
LEMMA BottomSeatKeeps ==
    ASSUME NEW r, ValveOK(r), r.kind = "bottom", NEW st \in Seats
    PROVE  ValveOK(BottomSeat(r, st)) /\ Kept(r, BottomSeat(r, st))
<1>1. CASE st = "V_LOWER_SEAT"
  BY <1>1, OpenSeatKeeps DEF BottomSeat
<1>2. CASE st = "V_UPPER_SEAT"
  <2> DEFINE d == DirectOff(r)
             s == [d EXCEPT !.closingMini = FALSE]
             t == Switched(s, s.out \union {"mini"})
  <2>1. BottomSeat(r, st) = IF "mini" \in s.out THEN s ELSE t
    BY <1>2 DEF BottomSeat
  <2>2. ValveOK(d) /\ Kept(r, d) /\ "main" \notin d.out
    BY DirectOffKeeps
  <2> HIDE DEF d
  <2>3. s \in Valve /\ Kept(d, s) /\ s.out = d.out
    BY <2>2 DEF ValveOK, Valve, Kept
  <2>4. ValveOK(s)
    BY <2>2, <2>3, SameOutputs DEF Kept
  <2> HIDE DEF s
  <2>5. t \in Valve /\ Kept(s, t) /\ t.out = s.out \union {"mini"}
    <3>1. s.out \union {"mini"} \in SUBSET Outputs
      BY <2>3 DEF Valve, Outputs
    <3> QED BY <2>3, <3>1, SwitchedType
  <2>6. ValveOK(t)
    BY <2>2, <2>3, <2>4, <2>5 DEF ValveOK, OneWay, OwnOutputs, Kept
  <2> HIDE DEF t
  <2> QED BY <2>1, <2>2, <2>3, <2>4, <2>5, <2>6 DEF Kept
<1> QED BY <1>1, <1>2 DEF Seats

(* A seat of any valve that has one.                                       *)
LEMMA LiftSeatKeeps ==
    ASSUME NEW r, ValveOK(r), r.kind \notin {"shutoff", "twocoil", "bistable"},
           NEW st \in Seats
    PROVE  ValveOK(LiftSeat(r, st)) /\ Kept(r, LiftSeat(r, st))
<1>0. r.kind \in Kinds /\ SeatOf[st] \in {"upper", "lower"}
  BY DEF ValveOK, Valve, Seats, SeatOf
<1>1. CASE r.kind = "mixproof"
  BY <1>0, <1>1, OpenSeatKeeps DEF LiftSeat
<1>2. CASE r.kind = "iolink"
  BY <1>0, <1>2, IolinkSeatKeeps DEF LiftSeat
<1>3. CASE r.kind = "terminal"
  BY <1>0, <1>3, TerminalSeatKeeps DEF LiftSeat
<1>4. CASE r.kind = "miniflush"
  BY <1>4, OpenSeatKeeps, DirectOffKeeps DEF LiftSeat
<1>5. CASE r.kind = "bottom"
  BY <1>5, BottomSeatKeeps DEF LiftSeat
<1> QED BY <1>0, <1>1, <1>2, <1>3, <1>4, <1>5 DEF Kinds

(* A state that is set.                                                    *)
LEMMA SetToKeeps ==
    ASSUME NEW r, ValveOK(r), NEW st \in States
    PROVE  ValveOK(SetTo(r, st)) /\ Kept(r, SetTo(r, st))
<1> DEFINE n == [r EXCEPT !.stoped = FALSE]
<1>1. ValveOK(n) /\ Kept(r, n)
  <2>1. n \in Valve /\ Kept(r, n) /\ n.out = r.out
    BY DEF ValveOK, Valve, Kept
  <2> QED BY <2>1, SameOutputs DEF Kept
<1>2. SetTo(r, st) = CASE st = "V_OFF" -> DirectOff(n)
                       [] st = "V_ON" -> DirectOn(n)
                       [] OTHER -> SetOther(r, st)
  BY DEF SetTo
<1>3. CASE st \in {"V_OFF", "V_ON"}
  <2> HIDE DEF n
  <2>1. SetTo(r, st) \in {DirectOff(n), DirectOn(n)}
    BY <1>2, <1>3
  <2> QED BY <1>1, <2>1, DirectOffKeeps, DirectOnKeeps DEF Kept
<1>4. CASE st \notin {"V_OFF", "V_ON"}
  <2>1. SetTo(r, st) = SetOther(r, st)
    BY <1>2, <1>4
  <2>2. CASE r.kind \in {"shutoff", "twocoil"}
    BY <2>1, <2>2 DEF SetOther, Kept
  <2>3. CASE r.kind = "bistable"
    <3>1. SetOther(r, st) = IF st = "V_STOP" THEN StopBistable(r) ELSE n
      BY <2>3 DEF SetOther
    <3> HIDE DEF n
    <3> QED BY <1>1, <2>1, <3>1, StopBistableKeeps
  <2>4. CASE r.kind \notin {"shutoff", "twocoil", "bistable"}
    <3>1. SetOther(r, st) = IF st = "V_STOP" THEN DirectOn(r) ELSE LiftSeat(r, st)
      BY <2>4 DEF SetOther
    <3>2. st = "V_STOP" \/ st \in Seats
      BY <1>4 DEF States, Seats
    <3> QED BY <2>1, <2>4, <3>1, <3>2, DirectOnKeeps, LiftSeatKeeps
  <2> QED BY <2>2, <2>3, <2>4
<1> QED BY <1>3, <1>4

(* Cycles and the clock only release outputs and let moments grow old.     *)
LEMMA CoilsKeep ==
    ASSUME NEW r, ValveOK(r)
    PROVE  /\ ValveOK(Coils(r)) /\ Kept(r, Coils(r))
           /\ r.kind # "bistable" => Coils(r) = r
<1>1. /\ ReleasedCoils(r) \in Valve /\ Kept(r, ReleasedCoils(r))
      /\ ReleasedCoils(r).out \subseteq r.out
  BY DEF ReleasedCoils, ValveOK, Valve, Kept
<1> QED BY <1>1, SameOutputs DEF Coils, Kept

(* Time passes for a valve.                                                *)
LEMMA AgedKeeps ==
    ASSUME NEW r, ValveOK(r)
    PROVE  /\ ValveOK(Aged(r)) /\ Aged(r).kind = r.kind
           /\ Aged(r).pending = r.pending /\ Aged(r).out = r.out
<1>1. \A a \in Ages : Older(a) \in Ages
  BY DelayAssumption DEF Ages, Older
<1>2. /\ Aged(r) \in Valve /\ Aged(r).kind = r.kind
      /\ Aged(r).pending = r.pending /\ Aged(r).out = r.out
  BY <1>1 DEF Aged, ValveOK, Valve
<1> QED BY <1>2, SameOutputs
-----------------------------------------------------------------------------
(* What the program's calls do to a valve.                                 *)
LEMMA OffAtOnceKeeps ==
    ASSUME NEW r, ValveOK(r)
    PROVE  ValveOK(OffAtOnce(r)) /\ Kept(r, OffAtOnce(r))
BY DirectOffKeeps DEF OffAtOnce, Kept

(* set_state.                                                              *)
LEMMA SetStateKeeps ==
    ASSUME NEW r, ValveOK(r), NEW st \in States
    PROVE  ValveOK(SetStateOf(r, st)) /\ Kept(r, SetStateOf(r, st))
BY SetToKeeps DEF SetStateOf, Kept

(* on: what was to be switched off later is not any more.                  *)
LEMMA OnWithdraws ==
    ASSUME NEW r, ValveOK(r)
    PROVE  ValveOK(OnOf(r)) /\ ~ OnOf(r).pending /\ OnOf(r).kind = r.kind
<1> DEFINE s == [r EXCEPT !.auto = TRUE, !.pending = FALSE]
<1>1. s \in Valve /\ s.kind = r.kind /\ s.out = r.out /\ ~ s.pending
  BY DEF ValveOK, Valve
<1>2. ValveOK(s)
  BY <1>1, SameOutputs
<1>3. OnOf(r) = IF r.manual THEN s ELSE DirectOn(s)
  BY DEF OnOf
<1> HIDE DEF s
<1> QED BY <1>1, <1>2, <1>3, DirectOnKeeps DEF Kept

(* A delayed closing is carried out only when its delay is over.           *)
LEMMA ExpiredKeeps ==
    ASSUME NEW r, ValveOK(r)
    PROVE  /\ ValveOK(Expired(r)) /\ Expired(r).kind = r.kind
           /\ Expired(r).pending => r.pending
           /\ ~ (r.pending /\ r.offAge > OffDelay) => Expired(r) = r
<1> DEFINE s == OffAtOnce(r)  t == [s EXCEPT !.pending = FALSE, !.auto = FALSE]
<1>1. ValveOK(s) /\ Kept(r, s)
  BY OffAtOnceKeeps
<1> HIDE DEF s
<1>2. t \in Valve /\ t.kind = s.kind /\ t.out = s.out /\ ~ t.pending
  BY <1>1 DEF ValveOK, Valve
<1>3. ValveOK(t)
  BY <1>1, <1>2, SameOutputs
<1>4. Expired(r) = IF r.pending /\ r.offAge > OffDelay THEN t ELSE r
  BY DEF Expired, s
<1> HIDE DEF t
<1> QED BY <1>1, <1>2, <1>3, <1>4 DEF Kept

(* The mini-valve, after the end of a delayed off.                         *)
LEMMA AfterFinishKeeps ==
    ASSUME NEW r, ValveOK(r)
    PROVE  /\ ValveOK(AfterFinish(r)) /\ Kept(r, AfterFinish(r))
           /\ r.kind # "bottom" => AfterFinish(r) = r
<1> DEFINE s == [r EXCEPT !.closingMini = FALSE]
<1>1. s \in Valve /\ Kept(r, s) /\ s.out = r.out
  BY DEF ValveOK, Valve, Kept
<1>2. ValveOK(s)
  BY <1>1, SameOutputs DEF Kept
<1>3. AfterFinish(r) \in {r, DirectOff(s)} /\ (r.kind # "bottom" => AfterFinish(r) = r)
  BY DEF AfterFinish
<1> HIDE DEF s
<1> QED BY <1>1, <1>2, <1>3, DirectOffKeeps DEF Kept

(* The length of the queue after the end of a delayed off.                 *)
LEMMA RemainingKeeps ==
    ASSUME NEW n \in 0..MaxQueue, NEW r
    PROVE  /\ Remaining(n, r) \in 0..MaxQueue
           /\ r.kind # "bottom" /\ r.pending => Remaining(n, r) = n
BY MaxQueueAssumption DEF Remaining, Finished

-----------------------------------------------------------------------------
(* One cycle of the main loop, for one valve.                              *)
Cycled(n, r) == IF n = 0 THEN Coils(r) ELSE AfterFinish(Expired(Coils(r)))

(* A valve after a scan of the queue.                                      *)
LEMMA CycledKeeps ==
    ASSUME NEW r, ValveOK(r), NEW n \in 0..MaxQueue,
           r.pending /\ r.kind # "bottom" => n > 0
    PROVE  /\ ValveOK(Cycled(n, r)) /\ Cycled(n, r).kind = r.kind
           /\ Cycled(n, r).pending => r.pending
           /\ Remaining(n, Expired(Coils(r))) \in 0..MaxQueue
           /\ Cycled(n, r).pending /\ r.kind # "bottom"
                => Remaining(n, Expired(Coils(r))) > 0
           /\ r.kind \notin {"bottom", "bistable"} /\ Cycled(n, r).out # r.out
                => r.pending /\ r.offAge > OffDelay
<1> DEFINE c == Coils(r)  e == Expired(c)  f == AfterFinish(e)
<1>1. ValveOK(c) /\ Kept(r, c) /\ (r.kind # "bistable" => c = r)
  BY CoilsKeep
<1> HIDE DEF c
<1>2. /\ ValveOK(e) /\ e.kind = c.kind /\ (e.pending => c.pending)
      /\ ~ (c.pending /\ c.offAge > OffDelay) => e = c
  BY <1>1, ExpiredKeeps
<1> HIDE DEF e
<1>3. ValveOK(f) /\ Kept(e, f) /\ (e.kind # "bottom" => f = e)
  BY <1>2, AfterFinishKeeps
<1> HIDE DEF f
<1>4. /\ Remaining(n, e) \in 0..MaxQueue
      /\ e.kind # "bottom" /\ e.pending => Remaining(n, e) = n
  BY RemainingKeeps
<1>5. Cycled(n, r) = IF n = 0 THEN c ELSE f
  BY DEF Cycled, c, e, f
<1>6. Expired(Coils(r)) = e
  BY DEF c, e
<1> QED BY <1>1, <1>2, <1>3, <1>4, <1>5, <1>6 DEF Kept

-----------------------------------------------------------------------------
(* The inductive invariant: a pending closing was asked for by off() ...   *)
PendingIsTold == \A v \in Valves : valve[v].pending => told[v] = "off"

(* ... and what every valve and the queue hold.                            *)
ValveInv ==
    /\ ValveTypeOK
    /\ \A v \in Valves : ValveOK(valve[v])
    /\ PendingIsQueued
    /\ PendingIsTold

(* The invariant holds at the start.                                       *)
LEMMA ValveInitInv == ValveInit => ValveInv
<1> SUFFICES ASSUME ValveInit PROVE ValveInv
  OBVIOUS
<1>1. 0 \in Ages /\ 0 \in 0..MaxQueue
  BY DelayAssumption, MaxQueueAssumption DEF Ages
<1>2. \A k \in ValveKinds : NewValve(k) \in Valve
  BY <1>1, KindsAssumption DEF NewValve, Valve, Ends
<1>3. ASSUME NEW v \in Valves PROVE \E k \in ValveKinds : valve[v] = NewValve(k)
  BY DEF ValveInit
<1>4. ASSUME NEW v \in Valves PROVE ValveOK(valve[v]) /\ ~ valve[v].pending
  <2>1. PICK k \in ValveKinds : valve[v] = NewValve(k)
    BY <1>3
  <2>2. NewValve(k).out = {} /\ ~ NewValve(k).pending
    BY DEF NewValve
  <2> QED BY <1>2, <2>1, <2>2 DEF ValveOK, OneWay, OwnOutputs
<1>5. ValveTypeOK
  BY <1>1, <1>2 DEF ValveInit, ValveTypeOK
<1> QED BY <1>4, <1>5 DEF ValveInv, PendingIsQueued, PendingIsTold

(* A step that changes one valve and none of its entries.                  *)
LEMMA OneValveKeeps ==
    ASSUME ValveInv, NEW v \in Valves, NEW r, ValveOK(r), r.kind = valve[v].kind,
           ValveBecomes(v, r), toSwitchOff' = toSwitchOff,
           told' \in [Valves -> {"on", "off"}],
           r.pending => valve[v].pending /\ told'[v] = "off",
           \A w \in Valves \ {v} : told'[w] = told[w]
    PROVE  ValveInv'
<1>1. valve \in [Valves -> Valve] /\ r \in Valve
  BY DEF ValveInv, ValveTypeOK, ValveOK
<1>2. /\ valve' \in [Valves -> Valve] /\ valve'[v] = r
      /\ \A w \in Valves \ {v} : valve'[w] = valve[w]
  BY <1>1 DEF ValveBecomes
<1>3. ValveTypeOK'
  BY <1>2 DEF ValveTypeOK, ValveInv
<1>4. \A w \in Valves : ValveOK(valve'[w])
  BY <1>2 DEF ValveInv
<1>5. PendingIsQueued'
  BY <1>2 DEF PendingIsQueued, ValveInv
<1>6. PendingIsTold'
  BY <1>2 DEF PendingIsTold, ValveInv
<1> QED BY <1>3, <1>4, <1>5, <1>6 DEF ValveInv

(* on keeps it.                                                            *)
LEMMA OnPreserves ==
    ASSUME ValveInv, NEW v \in Valves, On(v) PROVE ValveInv'
<1>1. ValveOK(valve[v])
  BY DEF ValveInv
<1>2. told \in [Valves -> {"on", "off"}]
  BY DEF ValveInv, ValveTypeOK
<1>3. /\ told' \in [Valves -> {"on", "off"}]
      /\ \A w \in Valves \ {v} : told'[w] = told[w]
  BY <1>2 DEF On
<1>4. ValveBecomes(v, OnOf(valve[v])) /\ toSwitchOff' = toSwitchOff
  BY DEF On
<1> QED BY <1>1, <1>3, <1>4, OnWithdraws, OneValveKeeps

(* off does.                                                               *)
LEMMA OffPreserves ==
    ASSUME ValveInv, NEW v \in Valves, Off(v) PROVE ValveInv'
<1> DEFINE r == valve[v]
<1>1. ValveOK(r) /\ told \in [Valves -> {"on", "off"}] /\ valve \in [Valves -> Valve]
      /\ toSwitchOff \in [Valves -> 0..MaxQueue]
  BY DEF ValveInv, ValveTypeOK
<1>2. /\ told' \in [Valves -> {"on", "off"}] /\ told'[v] = "off"
      /\ \A w \in Valves \ {v} : told'[w] = told[w]
  BY <1>1 DEF Off
<1>3. CASE ValveBecomes(v, OffAtOnce(r)) /\ UNCHANGED toSwitchOff
  BY <1>1, <1>2, <1>3, OffAtOnceKeeps, OneValveKeeps DEF Kept
<1>4. CASE r.pending /\ UNCHANGED <<valve, toSwitchOff>>
  BY <1>2, <1>4 DEF ValveInv, ValveTypeOK, PendingIsQueued, PendingIsTold
<1>5. CASE /\ toSwitchOff[v] < MaxQueue
           /\ ValveBecomes(v, [r EXCEPT !.pending = TRUE, !.offAge = 0])
           /\ toSwitchOff' = [toSwitchOff EXCEPT ![v] = @ + 1]
  <2> DEFINE s == [r EXCEPT !.pending = TRUE, !.offAge = 0]
  <2>1. 0 \in Ages
    BY DelayAssumption DEF Ages
  <2>2. s \in Valve /\ s.kind = r.kind /\ s.out = r.out
    BY <1>1, <2>1 DEF ValveOK, Valve
  <2>3. ValveOK(s)
    BY <1>1, <2>2, SameOutputs
  <2>4. /\ valve' \in [Valves -> Valve] /\ valve'[v] = s
        /\ \A w \in Valves \ {v} : valve'[w] = valve[w]
    BY <1>1, <1>5, <2>2 DEF ValveBecomes
  <2> HIDE DEF s
  <2>5. /\ toSwitchOff' \in [Valves -> 0..MaxQueue] /\ toSwitchOff'[v] > 0
        /\ \A w \in Valves \ {v} : toSwitchOff'[w] = toSwitchOff[w]
    BY <1>1, <1>5, MaxQueueAssumption
  <2>6. ValveTypeOK' /\ \A w \in Valves : ValveOK(valve'[w])
    BY <1>2, <2>3, <2>4, <2>5 DEF ValveTypeOK, ValveInv
  <2>7. PendingIsQueued' /\ PendingIsTold'
    BY <1>2, <2>4, <2>5 DEF PendingIsQueued, PendingIsTold, ValveInv
  <2> QED BY <2>6, <2>7 DEF ValveInv
<1> QED BY <1>3, <1>4, <1>5 DEF Off

(* The other calls, commands, modes and end switches change one record.    *)
LEMMA RecordPreserves ==
    ASSUME ValveInv, NEW v \in Valves, NEW r, ValveOK(r), Kept(valve[v], r),
           ValveBecomes(v, r), UNCHANGED <<toSwitchOff, told>>
    PROVE  ValveInv'
<1>1. told' \in [Valves -> {"on", "off"}] /\ \A w \in Valves : told'[w] = told[w]
  BY DEF ValveInv, ValveTypeOK
<1>2. r.pending => valve[v].pending /\ told'[v] = "off"
  BY <1>1 DEF ValveInv, PendingIsTold, Kept
<1> QED BY <1>1, <1>2, OneValveKeeps DEF Kept

(* The other calls do.                                                     *)
LEMMA OtherPreserves ==
    ASSUME ValveInv, NEW v \in Valves,
           \/ InstantOff(v)
           \/ \E st \in States : SetState(v, st) \/ Command(v, st)
           \/ \E b \in BOOLEAN : SetManual(v, b)
           \/ \E ends \in EndsOf(valve[v].kind) : Sense(v, ends)
    PROVE  ValveInv'
<1> DEFINE r == valve[v]
<1>0. ValveOK(r) /\ r \in Valve
  BY DEF ValveInv, ValveOK
<1>1. CASE InstantOff(v)
  BY <1>0, <1>1, OffAtOnceKeeps, RecordPreserves DEF InstantOff
<1>2. CASE \E st \in States : SetState(v, st)
  BY <1>0, <1>2, SetStateKeeps, RecordPreserves DEF SetState
<1>3. CASE \E st \in States : Command(v, st)
  BY <1>0, <1>3, SetToKeeps, RecordPreserves DEF Command
<1>4. ASSUME NEW b \in BOOLEAN, SetManual(v, b) PROVE ValveInv'
  <2> DEFINE s == [r EXCEPT !.manual = b]
  <2>1. s \in Valve /\ Kept(r, s) /\ s.out = r.out
    BY <1>0 DEF Valve, Kept
  <2>2. ValveOK(s) /\ ValveBecomes(v, s) /\ UNCHANGED <<toSwitchOff, told>>
    BY <1>0, <1>4, <2>1, SameOutputs DEF SetManual, Kept
  <2> HIDE DEF s
  <2> QED BY <2>1, <2>2, RecordPreserves
<1>5. ASSUME NEW ends \in EndsOf(valve[v].kind), Sense(v, ends) PROVE ValveInv'
  <2> DEFINE s == [r EXCEPT !.fb = ends]
  <2>0. ends \in SUBSET Ends
    BY DEF EndsOf, Ends
  <2>1. s \in Valve /\ Kept(r, s) /\ s.out = r.out
    BY <1>0, <2>0 DEF Valve, Kept
  <2>2. ValveOK(s) /\ ValveBecomes(v, s) /\ UNCHANGED <<toSwitchOff, told>>
    BY <1>0, <1>5, <2>1, SameOutputs DEF Sense, Kept
  <2> HIDE DEF s
  <2> QED BY <2>1, <2>2, RecordPreserves
<1> QED BY <1>1, <1>2, <1>3, <1>4, <1>5

(* In a cycle every valve is Cycled.                                       *)
LEMMA EvaluateCycles ==
    ASSUME ValveInv, EvaluateValves, NEW v \in Valves
    PROVE  /\ valve'[v] = Cycled(toSwitchOff[v], valve[v])
           /\ toSwitchOff'[v] = Remaining(toSwitchOff[v], Expired(Coils(valve[v])))
           /\ ValveOK(valve[v]) /\ toSwitchOff[v] \in 0..MaxQueue
           /\ valve[v].pending /\ valve[v].kind # "bottom" => toSwitchOff[v] > 0
BY DEF EvaluateValves, Cycled, ValveInv, ValveTypeOK, PendingIsQueued

(* A scan does.                                                            *)
LEMMA EvaluatePreserves ==
    ASSUME ValveInv, EvaluateValves PROVE ValveInv'
<1>1. \A v \in Valves :
          /\ ValveOK(valve'[v]) /\ valve'[v].kind = valve[v].kind
          /\ valve'[v].pending => valve[v].pending
          /\ toSwitchOff'[v] \in 0..MaxQueue
          /\ valve'[v].pending /\ valve[v].kind # "bottom" => toSwitchOff'[v] > 0
  <2> TAKE v \in Valves
  <2> DEFINE n == toSwitchOff[v]  r == valve[v]
  <2>1. /\ valve'[v] = Cycled(n, r) /\ toSwitchOff'[v] = Remaining(n, Expired(Coils(r)))
        /\ ValveOK(r) /\ n \in 0..MaxQueue
        /\ r.pending /\ r.kind # "bottom" => n > 0
    BY EvaluateCycles
  <2> HIDE DEF n, r
  <2>2. /\ ValveOK(Cycled(n, r)) /\ Cycled(n, r).kind = r.kind
        /\ Cycled(n, r).pending => r.pending
        /\ Remaining(n, Expired(Coils(r))) \in 0..MaxQueue
        /\ Cycled(n, r).pending /\ r.kind # "bottom"
             => Remaining(n, Expired(Coils(r))) > 0
    BY <2>1, CycledKeeps
  <2> QED BY <2>1, <2>2 DEF r
<1>2. /\ \E f : valve' = [v \in Valves |-> f[v]]
      /\ \E f : toSwitchOff' = [v \in Valves |-> f[v]]
      /\ told' = told
  BY DEF EvaluateValves
<1>3. /\ valve' \in [Valves -> Valve] /\ toSwitchOff' \in [Valves -> 0..MaxQueue]
  BY <1>1, <1>2 DEF ValveOK
<1>4. ValveTypeOK'
  BY <1>2, <1>3 DEF ValveTypeOK, ValveInv
<1> QED BY <1>1, <1>2, <1>4 DEF ValveInv, PendingIsQueued, PendingIsTold

(* Time does.                                                              *)
LEMMA TickPreserves ==
    ASSUME ValveInv, TickValves PROVE ValveInv'
<1>1. \A v \in Valves :
          /\ ValveOK(valve'[v]) /\ valve'[v].kind = valve[v].kind
          /\ valve'[v].pending = valve[v].pending
  BY AgedKeeps DEF TickValves, ValveInv
<1>2. valve' \in [Valves -> Valve]
  BY <1>1 DEF TickValves, ValveOK
<1> QED BY <1>1, <1>2 DEF TickValves, ValveInv, ValveTypeOK, PendingIsQueued, PendingIsTold

(* Every step does.                                                        *)
LEMMA ValveNextPreserves ==
    ASSUME ValveInv, [ValveNext]_valveVars PROVE ValveInv'
<1>1. CASE UNCHANGED valveVars
  BY <1>1 DEF valveVars, ValveInv, ValveTypeOK, PendingIsQueued, PendingIsTold
<1>2. CASE EvaluateValves
  BY <1>2, EvaluatePreserves
<1>3. CASE TickValves
  BY <1>3, TickPreserves
<1>4. ASSUME NEW v \in Valves,
             \/ ProgramCalls(v)
             \/ \E st \in States : Command(v, st)
             \/ \E b \in BOOLEAN : SetManual(v, b)
             \/ \E ends \in EndsOf(valve[v].kind) : Sense(v, ends)
      PROVE  ValveInv'
  BY <1>4, OnPreserves, OffPreserves, OtherPreserves DEF ProgramCalls
<1> QED BY <1>1, <1>2, <1>3, <1>4 DEF ValveNext

(* The invariant of the valves: every valve is of its kind, at most one    *)
(* coil of a pair is on, and what is to be switched off later is in the    *)
(* queue (valve::off, valve::evaluate).                                    *)
THEOREM ValveSafe == ValveSpec => []ValveInv
BY ValveInitInv, ValveNextPreserves, PTL DEF ValveSpec

(* Every valve keeps its type, and the queue its bound.                    *)
THEOREM ValvesTypeCorrect == ValveSpec => []ValveTypeOK
BY ValveSafe, PTL DEF ValveInv

(* A valve has one way open at a time, whoever calls it in whatever order. *)
THEOREM ValvesOneWayOpen == ValveSpec => []OneWayOpen
<1>1. ValveInv => OneWayOpen
  BY DEF ValveInv, ValveOK, OneWay, OneWayOpen
<1> QED BY <1>1, ValveSafe, PTL

(* No valve is lost from the vector while its closing is pending.          *)
THEOREM ValvesPendingQueued == ValveSpec => []PendingIsQueued
BY ValveSafe, PTL DEF ValveInv

(* A cycle closes a main drive only on an off() that no on() followed, and *)
(* after the delay.                                                        *)
THEOREM ValvesCloseWhenTold == ValveSpec => ClosesOnlyWhenTold
<1> DEFINE A == \A v \in Valves :
                  /\ valve[v].kind \notin {"bottom", "bistable"}
                  /\ "main" \in valve[v].out /\ "main" \notin valve'[v].out
                  /\ EvaluateValves
                  => told[v] = "off" /\ valve[v].offAge > OffDelay
<1>1. ValveInv => A
  <2> SUFFICES ASSUME ValveInv, NEW v \in Valves, EvaluateValves,
                      valve[v].kind \notin {"bottom", "bistable"},
                      "main" \in valve[v].out, "main" \notin valve'[v].out
               PROVE  told[v] = "off" /\ valve[v].offAge > OffDelay
    OBVIOUS
  <2> DEFINE n == toSwitchOff[v]  r == valve[v]
  <2>1. /\ valve'[v] = Cycled(n, r) /\ ValveOK(r) /\ n \in 0..MaxQueue
        /\ r.pending /\ r.kind # "bottom" => n > 0
    BY EvaluateCycles
  <2>2. r.kind \notin {"bottom", "bistable"} /\ Cycled(n, r).out # r.out
    BY <2>1
  <2> HIDE DEF n, r
  <2>3. r.pending /\ r.offAge > OffDelay
    BY <2>1, <2>2, CycledKeeps
  <2> QED BY <2>3 DEF r, ValveInv, PendingIsTold
<1>2. ClosesOnlyWhenTold <=> [][A]_valveVars
  BY DEF ClosesOnlyWhenTold
<1> QED BY <1>1, <1>2, ValveSafe, PTL

-----------------------------------------------------------------------------
(***************************************************************************)
(* What is proved of the washing of seats, for any valves, groups, times   *)
(* and width of the waiting time: no seat is forgotten open.               *)
(*                                                                         *)
(* A cycle is a chain of functions on the whole state, each of which keeps *)
(* the seats owned (Owned).  An action may change its record only when no  *)
(* seat hangs on it alone (FreeOf): because it washes nothing, or because  *)
(* its group has just been closed (Finalized).                             *)
(***************************************************************************)

WashesIn(s, a, v) ==
    /\ s.wash[a].running /\ s.wash[a].phase # "waiting"
    /\ GroupsOf(a, s.wash[a].phase) # <<>>
    /\ v \in Active(s, a)

IsOpen(s, v) == s.seat[v] # "closed" \/ v \in s.washed

Owned(s) ==
    \A v \in WashValves : IsOpen(s, v) => \E a \in WashActions : WashesIn(s, a, v)

(* Every open seat is also washed by another action than a.                *)
FreeOf(s, a) ==
    \A v \in WashValves : IsOpen(s, v) => \E b \in WashActions \ {a} : WashesIn(s, b, v)

Record == [running: BOOLEAN, phase: {"waiting", "upper", "lower"},
           next: {"upper", "lower"}, group: Nat, wait: Nat, age: 0..WashMaxAge]
State == [wash: [WashActions -> Record],
          seat: [WashValves -> {"closed", "upper", "lower"}],
          washed: SUBSET WashValves]

Good(s) == s \in State /\ Owned(s)

-----------------------------------------------------------------------------
(* The parameters and the functions of one record.                         *)
LEMMA CountNat == ASSUME NEW a \in WashActions PROVE Count(a) \in Nat
<1>1. /\ Groups[a]["upper"] \in Seq(SUBSET WashValves)
      /\ Groups[a]["lower"] \in Seq(SUBSET WashValves)
  BY WashAssumption
<1>2. Len(Groups[a]["upper"]) \in Nat /\ Len(Groups[a]["lower"]) \in Nat
  BY <1>1
<1> DEFINE u == Len(Groups[a]["upper"])  l == Len(Groups[a]["lower"])
<1>3. Count(a) = u + l
  BY DEF Count, GroupsOf
<1>4. u \in Nat /\ l \in Nat
  BY <1>2
<1> HIDE DEF u, l
<1>5. u + l \in Nat
  BY <1>4
<1> QED BY <1>3, <1>5

(* The wait between two washings is a natural number.                      *)
LEMMA WaitNat ==
    ASSUME NEW a \in WashActions, NEW total \in Totals PROVE WaitTime(a, total) \in Nat
<1> DEFINE n == Count(a)  x == total - Longest * n  y == x % WordSize
<1>1. n \in Nat /\ total \in Int
  BY CountNat, WashAssumption
<1>2. Longest \in Nat
  BY WashAssumption DEF Longest
<1>3. Longest * n \in Int
  <2> DEFINE f == Longest
  <2>1. f \in Nat
    BY <1>2
  <2> HIDE DEF f, n
  <2>2. f * n \in Int
    BY <1>1, <2>1
  <2> QED BY <2>2 DEF f, n
<1>4. x \in Int
  <2> DEFINE z == Longest * n
  <2>1. z \in Int
    BY <1>3
  <2> HIDE DEF z, n
  <2>2. total - z \in Int
    BY <1>1, <2>1
  <2> QED BY <2>2 DEF z, n
<1> HIDE DEF x
<1>5. y \in Nat
  BY <1>4, WashAssumption
<1> HIDE DEF y, n
<1>6. n + 1 \in Nat /\ n + 1 > 0
  BY <1>1
<1> DEFINE m == n + 1
<1>7. m \in Nat /\ m > 0
  BY <1>6
<1> HIDE DEF m
<1>8. y \div m \in Nat
  BY <1>5, <1>7
<1> QED BY <1>8 DEF WaitTime, y, x, m, n

(* Zero is an age.                                                         *)
LEMMA ZeroAge == 0 \in 0..WashMaxAge
BY WashAssumption

(* The next group of seats.                                                *)
LEMMA NextGroupTyped ==
    ASSUME NEW a, NEW r \in Record, r.phase # "waiting" PROVE NextGroup(a, r) \in Record
<1>1. r.phase \in {"upper", "lower"} /\ r.group + 1 \in Nat /\ 1 \in Nat
  BY DEF Record
<1>2. [r EXCEPT !.phase = "waiting", !.age = 0, !.group = r.group + 1] \in Record
  BY <1>1, ZeroAge DEF Record
<1>3. [r EXCEPT !.phase = "waiting", !.age = 0, !.group = 1, !.next = Opposite(r.phase)]
        \in Record
  BY <1>1, ZeroAge DEF Record, Opposite
<1> QED BY <1>2, <1>3 DEF NextGroup

(* Closing seats keeps the others owned.                                   *)
LEMMA ClosingKeeps ==
    ASSUME NEW s, Good(s), NEW t \in State, t.wash = s.wash,
           \A v \in WashValves : IsOpen(t, v) => IsOpen(s, v)
    PROVE  Good(t)
BY DEF Good, Owned, WashesIn, Active

(* Seats that are not washed are closed.                                   *)
LEMMA CloseUnwashedKeeps ==
    ASSUME NEW s, Good(s), NEW vs
    PROVE  Good(CloseUnwashed(s, vs)) /\ CloseUnwashed(s, vs).wash = s.wash
<1> DEFINE t == CloseUnwashed(s, vs)
           seats == [v \in WashValves |->
                       IF v \in vs \ s.washed THEN "closed" ELSE s.seat[v]]
<1>1. t.wash = s.wash /\ t.seat = seats /\ t.washed = s.washed
      /\ t = [wash |-> s.wash, seat |-> seats, washed |-> s.washed]
  BY DEF CloseUnwashed, Good, State
<1> HIDE DEF t
<1>2. t \in State
  BY <1>1 DEF Good, State
<1>3. \A v \in WashValves : IsOpen(t, v) => IsOpen(s, v)
  BY <1>1 DEF IsOpen
<1>4. Good(t)
  BY <1>1, <1>2, <1>3, ClosingKeeps
<1> QED BY <1>1, <1>4 DEF t

(* A running action owns the seats it opens.                               *)
LEMMA OpenGroupKeeps ==
    ASSUME NEW s, Good(s), NEW a \in WashActions, s.wash[a].running,
           s.wash[a].phase # "waiting", GroupsOf(a, s.wash[a].phase) # <<>>
    PROVE  /\ Good(OpenGroup(s, Active(s, a), s.wash[a].phase))
           /\ OpenGroup(s, Active(s, a), s.wash[a].phase).wash = s.wash
<1> DEFINE vs == Active(s, a)
           t == OpenGroup(s, vs, s.wash[a].phase)
           seats == [v \in WashValves |-> IF v \in vs THEN s.wash[a].phase ELSE s.seat[v]]
           flags == {v \in WashValves : v \in vs \/ v \in s.washed}
<1>1. t.wash = s.wash /\ t.seat = seats /\ t.washed = flags
      /\ t = [wash |-> s.wash, seat |-> seats, washed |-> flags]
  BY DEF OpenGroup
<1> HIDE DEF t
<1>2. /\ flags \in SUBSET WashValves /\ s.wash[a].phase \in {"upper", "lower"}
      /\ seats \in [WashValves -> {"closed", "upper", "lower"}]
  BY DEF Good, State, Record
<1>3. t \in State
  BY <1>1, <1>2 DEF Good, State
<1>4. ASSUME NEW v \in WashValves, IsOpen(t, v)
      PROVE  \E b \in WashActions : WashesIn(t, b, v)
  <2>1. CASE v \in vs
    BY <1>1, <2>1 DEF WashesIn, Active
  <2>2. CASE v \notin vs
    <3>1. IsOpen(s, v)
      BY <1>1, <1>4, <2>2 DEF IsOpen
    <3> QED BY <1>1, <3>1 DEF Good, Owned, WashesIn, Active
  <2> QED BY <2>1, <2>2
<1>5. Good(t)
  BY <1>3, <1>4 DEF Good, Owned
<1> QED BY <1>1, <1>5 DEF t

(* finalize closes the group that is being washed.                         *)
LEMMA FinalizedKeeps ==
    ASSUME NEW s, Good(s), NEW a \in WashActions
    PROVE  /\ Good(Finalized(s, a)) /\ Finalized(s, a).wash = s.wash
           /\ FreeOf(Finalized(s, a), a)
<1>1. CASE s.wash[a].phase = "waiting" \/ GroupsOf(a, s.wash[a].phase) = <<>>
  <2>1. Finalized(s, a) = s
    BY <1>1 DEF Finalized
  <2>2. \A v : ~ WashesIn(s, a, v)
    BY <1>1 DEF WashesIn
  <2>3. FreeOf(s, a)
    BY <2>2 DEF Good, Owned, FreeOf
  <2> QED BY <2>1, <2>3
<1>2. CASE ~ (s.wash[a].phase = "waiting" \/ GroupsOf(a, s.wash[a].phase) = <<>>)
  <2> DEFINE vs == Active(s, a)
             t == CloseGroup(s, vs)
             seats == [v \in WashValves |-> IF v \in vs THEN "closed" ELSE s.seat[v]]
             flags == s.washed \ vs
  <2>1. Finalized(s, a) = t
    BY <1>2 DEF Finalized
  <2>2. t.wash = s.wash /\ t.seat = seats /\ t.washed = flags
        /\ t = [wash |-> s.wash, seat |-> seats, washed |-> flags]
    BY DEF CloseGroup
  <2> HIDE DEF t
  <2>3. /\ flags \in SUBSET WashValves
        /\ seats \in [WashValves -> {"closed", "upper", "lower"}]
    BY DEF Good, State
  <2>4. t \in State
    BY <2>2, <2>3 DEF Good, State
  <2>5. \A v \in WashValves : IsOpen(t, v) => IsOpen(s, v) /\ v \notin vs
    BY <2>2 DEF IsOpen
  <2>6. Good(t)
    BY <2>2, <2>4, <2>5, ClosingKeeps
  <2>7. \A v \in WashValves : v \notin vs => ~ WashesIn(t, a, v)
    BY <2>2 DEF WashesIn, Active
  <2>8. FreeOf(t, a)
    BY <2>5, <2>6, <2>7 DEF Good, Owned, FreeOf
  <2> QED BY <2>1, <2>2, <2>6, <2>8
<1> QED BY <1>1, <1>2

(* An action on which no seat hangs may become anything.                   *)
LEMMA WithKeeps ==
    ASSUME NEW s, Good(s), NEW a \in WashActions, FreeOf(s, a), NEW r \in Record
    PROVE  Good(With(s, a, r)) /\ With(s, a, r).wash = [s.wash EXCEPT ![a] = r]
<1> DEFINE t == With(s, a, r)  w == [s.wash EXCEPT ![a] = r]
<1>1. t.wash = w /\ t.seat = s.seat /\ t.washed = s.washed
      /\ t = [wash |-> w, seat |-> s.seat, washed |-> s.washed]
  BY DEF With, Good, State
<1>2. /\ w[a] = r /\ w = [b \in WashActions |-> w[b]]
      /\ \A b \in WashActions \ {a} : w[b] = s.wash[b]
  BY DEF Good, State
<1> HIDE DEF t, w
<1>3. t \in State
  <2>1. \A b \in WashActions : w[b] \in Record
    BY <1>2 DEF Good, State
  <2>2. w \in [WashActions -> Record]
    <3>1. w = [b \in WashActions |-> w[b]]
      BY <1>2
    <3> QED BY <2>1, <3>1
  <2> QED BY <1>1, <2>2 DEF Good, State
<1>4. Owned(t)
  BY <1>1, <1>2 DEF FreeOf, Owned, IsOpen, WashesIn, Active
<1> QED BY <1>1, <1>3, <1>4 DEF Good, t, w

(* An action that washes no group holds no seat.                           *)
LEMMA QuietIsFree ==
    ASSUME NEW s, Good(s), NEW a \in WashActions,
           \/ ~ s.wash[a].running \/ s.wash[a].phase = "waiting"
           \/ GroupsOf(a, s.wash[a].phase) = <<>>
    PROVE  FreeOf(s, a)
BY DEF Good, Owned, FreeOf, WashesIn

-----------------------------------------------------------------------------
(* evaluate, finalize and the clock.                                       *)
LEMMA EvaluatedKeeps ==
    ASSUME NEW s, Good(s), NEW a \in WashActions
    PROVE  Good(Evaluated(s, a))
<1> DEFINE r == s.wash[a]
<1>0. r \in Record
  BY DEF Good, State
<1>1. CASE ~ r.running \/ Count(a) = 0
  BY <1>1 DEF Evaluated
<1>2. CASE ~ (~ r.running \/ Count(a) = 0) /\ r.phase = "waiting"
  <2> DEFINE t == CloseUnwashed(s, AllOf(a))
             q == IF r.age > r.wait THEN [r EXCEPT !.phase = r.next, !.age = 0] ELSE r
  <2>1. Evaluated(s, a) = With(t, a, q)
    BY <1>2, CountNat DEF Evaluated
  <2>2. Good(t) /\ t.wash = s.wash
    BY CloseUnwashedKeeps
  <2> HIDE DEF t
  <2>3. FreeOf(t, a)
    BY <1>2, <2>2, QuietIsFree
  <2>4. q \in Record
    BY <1>0, ZeroAge DEF Record
  <2> HIDE DEF q
  <2>5. Good(With(t, a, q))
    BY <2>2, <2>3, <2>4, WithKeeps
  <2> QED BY <2>1, <2>5
<1>3. CASE ~ (~ r.running \/ Count(a) = 0) /\ r.phase # "waiting"
  <2>0. Evaluated(s, a) =
          IF GroupsOf(a, r.phase) = <<>>
          THEN With(s, a, [r EXCEPT !.phase = Opposite(@), !.next = Opposite(r.phase)])
          ELSE IF r.age < FlipTime[r.phase]
          THEN OpenGroup(s, Active(s, a), r.phase)
          ELSE With(Finalized(s, a), a, NextGroup(a, r))
    BY <1>3 DEF Evaluated
  <2>1. CASE GroupsOf(a, r.phase) = <<>>
    <3>1. [r EXCEPT !.phase = Opposite(@), !.next = Opposite(r.phase)] \in Record
      BY <1>0 DEF Record, Opposite
    <3>2. FreeOf(s, a)
      BY <2>1, QuietIsFree
    <3>3. Good(With(s, a, [r EXCEPT !.phase = Opposite(@), !.next = Opposite(r.phase)]))
      BY <3>1, <3>2, WithKeeps
    <3> QED BY <2>0, <2>1, <3>3
  <2>2. CASE GroupsOf(a, r.phase) # <<>> /\ r.age < FlipTime[r.phase]
    BY <1>3, <2>0, <2>2, OpenGroupKeeps
  <2>3. CASE GroupsOf(a, r.phase) # <<>> /\ ~ (r.age < FlipTime[r.phase])
    <3> DEFINE t == Finalized(s, a)
    <3>1. Good(t) /\ FreeOf(t, a)
      BY FinalizedKeeps
    <3>2. NextGroup(a, r) \in Record
      BY <1>0, <1>3, NextGroupTyped
    <3>3. Evaluated(s, a) = With(t, a, NextGroup(a, r))
      BY <2>0, <2>3
    <3> HIDE DEF t
    <3>4. Good(With(t, a, NextGroup(a, r)))
      BY <3>1, <3>2, WithKeeps
    <3> QED BY <3>3, <3>4
  <2> QED BY <2>1, <2>2, <2>3
<1> QED BY <1>1, <1>2, <1>3

(* An action that is stopped leaves its seats.                             *)
LEMMA StoppedKeeps ==
    ASSUME NEW s, Good(s), NEW a \in WashActions
    PROVE  Good(Stopped(s, a))
<1> DEFINE t == Finalized(s, a)  q == [s.wash[a] EXCEPT !.running = FALSE]
<1>1. Good(t) /\ FreeOf(t, a)
  BY FinalizedKeeps
<1>2. q \in Record
  <2>1. s.wash[a] \in Record
    BY DEF Good, State
  <2> QED BY <2>1 DEF Record
<1>3. Stopped(s, a) = With(t, a, q)
  BY DEF Stopped
<1> HIDE DEF t, q
<1>4. Good(With(t, a, q))
  BY <1>1, <1>2, WithKeeps
<1> QED BY <1>3, <1>4

(* Time passes for the washing.                                            *)
LEMMA LaterKeeps ==
    ASSUME NEW s, Good(s), NEW dt \in 0..1
    PROVE  Good([s EXCEPT !.wash = [a \in WashActions |-> Later(@[a], dt)]])
<1> DEFINE w == [a \in WashActions |-> Later(s.wash[a], dt)]
           t == [s EXCEPT !.wash = w]
<1>1. \A a \in WashActions :
          /\ w[a] \in Record /\ w[a].running = s.wash[a].running
          /\ w[a].phase = s.wash[a].phase /\ w[a].group = s.wash[a].group
  <2>1. TAKE a \in WashActions
  <2>2. s.wash[a] \in Record
    BY DEF Good, State
  <2> DEFINE r == s.wash[a]
             n == IF r.age + dt < WashMaxAge THEN r.age + dt ELSE WashMaxAge
  <2>3. w[a] = [r EXCEPT !.age = n]
    BY DEF Later
  <2>4. n \in 0..WashMaxAge
    <3>1. r.age \in 0..WashMaxAge
      BY <2>2 DEF Record
    <3>2. \A x \in 0..WashMaxAge, d \in 0..1, m \in Nat :
              m = WashMaxAge =>
                  (IF x + d < m THEN x + d ELSE m) \in 0..m
      OBVIOUS
    <3> HIDE DEF r
    <3> QED BY <3>1, <3>2, WashAssumption
  <2> HIDE DEF n, w
  <2> QED BY <2>2, <2>3, <2>4 DEF Record
<1>2. t.wash = w /\ t.seat = s.seat /\ t.washed = s.washed
      /\ t = [wash |-> w, seat |-> s.seat, washed |-> s.washed]
  BY DEF Good, State
<1>3. w = [a \in WashActions |-> w[a]]
  OBVIOUS
<1> HIDE DEF w, t
<1>4. t \in State
  BY <1>1, <1>2, <1>3 DEF Good, State
<1>5. Owned(t)
  BY <1>1, <1>2 DEF Good, Owned, IsOpen, WashesIn, Active
<1>6. Good(t)
  BY <1>4, <1>5 DEF Good
<1> QED BY <1>6 DEF t, w

-----------------------------------------------------------------------------
SeatInv == Good(Now)

(* A state that is good stays so when it is assigned.                      *)
LEMMA SetGood ==
    ASSUME NEW s, Good(s), Set(s) PROVE SeatInv'
<1>1. Now' = s
  BY DEF Now, Set, Good, State
<1> QED BY <1>1 DEF SeatInv, Good, State, Owned, IsOpen, WashesIn, Active

(* The invariant of the washing holds at the start.                        *)
LEMMA WashInitInv == WashInit => SeatInv
BY ZeroAge DEF WashInit, SeatInv, Good, State, Record, Owned, Now, IsOpen, Idle

(* A start of the washing keeps it.                                        *)
LEMMA StartPreserves ==
    ASSUME SeatInv, NEW a \in WashActions, NEW total \in Totals, StartWash(a, total)
    PROVE  SeatInv'
<1> DEFINE r == [Idle EXCEPT !.running = TRUE,
                    !.wait = IF Count(a) = 0 THEN 0 ELSE WaitTime(a, total)]
<1>1. ~ wash[a].running /\ wash' = [wash EXCEPT ![a] = r] /\ UNCHANGED <<seat, washed>>
  BY DEF StartWash
<1>2. Good(Now) /\ FreeOf(Now, a)
  BY <1>1, QuietIsFree DEF SeatInv, Now
<1>3. r \in Record
  <2> DEFINE n == IF Count(a) = 0 THEN 0 ELSE WaitTime(a, total)
  <2>1. n \in Nat
    BY WaitNat
  <2> HIDE DEF n
  <2>2. [Idle EXCEPT !.running = TRUE, !.wait = n] \in Record
    BY <2>1, ZeroAge DEF Record, Idle
  <2> QED BY <2>2 DEF n
<1> HIDE DEF r
<1>4. Good(With(Now, a, r))
  BY <1>2, <1>3, WithKeeps
<1>5. Set(With(Now, a, r))
  BY <1>1 DEF Set, With, Now
<1> QED BY <1>4, <1>5, SetGood

(* A stop does.                                                            *)
LEMMA StopPreserves ==
    ASSUME SeatInv, NEW a \in WashActions, StopWash(a) PROVE SeatInv'
<1>1. PICK s \in {Stopped(Stopped(Now, "step"), "mode"), Stopped(Now, a)} : Set(s)
  BY DEF StopWash
<1>2. Good(s)
  BY StoppedKeeps DEF SeatInv, WashActions
<1> QED BY <1>1, <1>2, SetGood

(* A scan does.                                                            *)
LEMMA CyclePreserves ==
    ASSUME SeatInv, NEW dt \in 0..1, WashCycle(dt) PROVE SeatInv'
<1> DEFINE s == [Now EXCEPT !.wash = [a \in WashActions |-> Later(@[a], dt)]]
           t == CloseUnwashed(s, KeptOff)
           m == Evaluated(t, "mode")
           n == Evaluated(m, "step")
<1>1. Good(s)
  BY LaterKeeps DEF SeatInv
<1> HIDE DEF s
<1>2. Good(t)
  BY <1>1, CloseUnwashedKeeps
<1> HIDE DEF t
<1>3. Good(m)
  BY <1>2, EvaluatedKeeps DEF WashActions
<1> HIDE DEF m
<1>4. Good(n)
  BY <1>3, EvaluatedKeeps DEF WashActions
<1>5. Set(n)
  BY DEF WashCycle, s, t, m, n
<1> HIDE DEF n
<1> QED BY <1>4, <1>5, SetGood

(* Every step does.                                                        *)
LEMMA WashNextPreserves == SeatInv /\ [WashNext]_washVars => SeatInv'
<1>1. ASSUME SeatInv, UNCHANGED washVars PROVE SeatInv'
  <2>1. Now' = Now
    BY <1>1 DEF washVars, Now
  <2> QED BY <1>1, <2>1 DEF SeatInv, Good, State, Owned, IsOpen, WashesIn, Active
<1> QED BY <1>1, StartPreserves, StopPreserves, CyclePreserves DEF WashNext

(* A seat is open only while a running action washes its valve: none is    *)
(* forgotten when a step ends, groups change or two actions share a valve. *)
THEOREM SeatsOwned == WashSpec => []SeatOwned
<1>1. SeatInv => SeatOwned
  BY DEF SeatInv, Good, Owned, SeatOwned, IsOpen, WashesIn, Washes, Now, Active
<1> QED BY <1>1, WashInitInv, WashNextPreserves, PTL DEF WashSpec

=============================================================================
