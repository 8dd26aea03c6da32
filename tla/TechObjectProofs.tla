-------------------------- MODULE TechObjectProofs --------------------------
(***************************************************************************)
(* Theorems about TechObject, for every number of operations, every        *)
(* description of them, every set of restrictions and every environment:   *)
(* the object is well typed; an operation that is not IDLE has its bit     *)
(* set; when clients do not pause or stop idle operations, operations that *)
(* restrict each other are never on together.                              *)
(*                                                                         *)
(* The calls of TechObject work on an object t = [ops, bit, available].    *)
(* A lemma per call says which operation it may touch and what becomes of  *)
(* the bit and the state of that operation.                                *)
(***************************************************************************)
EXTENDS TechObject, OperationProofs, FiniteSetTheorems

ObjectType(t) ==
    /\ t = [ops |-> t.ops, bit |-> t.bit, available |-> t.available]
    /\ t.ops = [i \in Operations |-> t.ops[i]]
    /\ \A i \in Operations : IsOperation(Desc[i], t.ops[i])
    /\ t.bit \in [Operations -> BOOLEAN]
    /\ t.available \in [Operations -> Int]

(* Nothing but operation i differs between t and u, its display apart.     *)
Touches(t, u, i) ==
    /\ ObjectType(u)
    /\ \A j \in Operations \ {i} : u.ops[j] = t.ops[j] /\ u.bit[j] = t.bit[j]

(* i has its bit set unless it is IDLE, if it had before.                  *)
Sound(t, i) == t.ops[i].cur # "IDLE" => t.bit[i]

Keeps(t, u, i) == Touches(t, u, i) /\ (Sound(t, i) => Sound(u, i))

(* i is on in u because it was on in t or because nothing forbade it.      *)
Fresh(t, u, i) == u.bit[i] => t.bit[i] \/ ~ Forbidden(t, i)

(* Operations that restrict each other are never on together.              *)
Excluding(i, j) ==
    i # j /\ <<i, j>> \in Restrictions /\ <<j, i>> \in Restrictions

Exclusive(b) == \A i, j \in Operations : Excluding(i, j) => ~ (b[i] /\ b[j])

Safe(t, u, i) ==
    /\ Keeps(t, u, i)
    /\ Restricting /\ Exclusive(t.bit) /\ Sound(t, i) => Exclusive(u.bit)

IsOff(u, i) == u.ops[i].cur = "IDLE" /\ ~ u.bit[i]

-----------------------------------------------------------------------------
(* The parts of an object.                                                 *)

(* Every operation has a description.                                      *)
LEMMA OperationDescribed ==
    ASSUME NEW i \in Operations
    PROVE  IsDescribed(Desc[i])
BY DescAssumption DEF IsDescribed

(* Replacing an operation.                                                 *)
LEMMA WithOpType ==
    ASSUME NEW t, ObjectType(t), NEW i \in Operations,
           NEW o, IsOperation(Desc[i], o)
    PROVE  /\ Touches(t, WithOp(t, i, o), i)
           /\ WithOp(t, i, o).ops[i] = o
           /\ WithOp(t, i, o).bit = t.bit
           /\ WithOp(t, i, o).available = t.available
BY DEF ObjectType, Touches, WithOp

(* Setting a bit.                                                          *)
LEMMA WithBitType ==
    ASSUME NEW t, ObjectType(t), NEW i \in Operations, NEW b \in BOOLEAN
    PROVE  /\ Touches(t, WithBit(t, i, b), i)
           /\ WithBit(t, i, b).ops = t.ops
           /\ WithBit(t, i, b).bit[i] = b
           /\ WithBit(t, i, b).available = t.available
BY DEF ObjectType, Touches, WithBit

(* Changing only what is displayed.                                        *)
LEMMA WithAvailableType ==
    ASSUME NEW t, ObjectType(t), NEW i \in Operations,
           NEW a \in [Operations -> Int]
    PROVE  /\ Touches(t, [t EXCEPT !.available = a], i)
           /\ [t EXCEPT !.available = a].ops = t.ops
           /\ [t EXCEPT !.available = a].bit = t.bit
BY DEF ObjectType, Touches

(* lua_final_mode touches the display only.                                *)
LEMMA FinalModeType ==
    ASSUME NEW t, ObjectType(t), NEW i \in Operations
    PROVE  /\ Touches(t, FinalMode(t, i), i)
           /\ FinalMode(t, i).ops = t.ops
           /\ FinalMode(t, i).bit = t.bit
<1> DEFINE a == [j \in Operations |->
            t.available[j] - (IF j # i /\ <<j, i>> \in Restrictions THEN 1 ELSE 0)
                           + (IF <<i, j>> \in FollowUps THEN 1 ELSE 0)]
<1>1. a \in [Operations -> Int]
  BY DEF ObjectType
<1>2. FinalMode(t, i) = [t EXCEPT !.available = a]
  BY DEF FinalMode
<1> HIDE DEF a
<1> QED
  BY <1>1, <1>2, WithAvailableType

(* Counting operations gives a number.                                     *)
LEMMA CountType ==
    ASSUME NEW S \in SUBSET Operations
    PROVE  Cardinality(S) \in Nat
<1>1. IsFiniteSet(Operations)
  BY FS_Interval, NAssumption DEF Operations
<1>2. IsFiniteSet(S)
  BY <1>1, FS_Subset
<1> QED
  BY <1>2, FS_CardinalityType

(* lua_init_mode touches the display only.                                 *)
LEMMA InitModeType ==
    ASSUME NEW t, ObjectType(t), NEW i \in Operations
    PROVE  /\ Touches(t, InitMode(t, i), i)
           /\ InitMode(t, i).ops = t.ops
           /\ InitMode(t, i).bit = t.bit
<1> DEFINE on == {j \in Operations : t.bit[j]}
           by(j, J) == Cardinality({m \in J \ {j} : <<j, m>> \in Restrictions})
           a == [j \in Operations |-> by(j, on) + by(j, {i})]
<1>1. ASSUME NEW j \in Operations, NEW J \in SUBSET Operations
      PROVE  by(j, J) \in Nat
  BY CountType
<1>2. on \in SUBSET Operations /\ {i} \in SUBSET Operations
  OBVIOUS
<1>3. InitMode(t, i) = [t EXCEPT !.available = a]
  BY DEF InitMode
<1> HIDE DEF on, by
<1>4. a \in [Operations -> Int]
  BY <1>1, <1>2
<1> HIDE DEF a
<1> QED
  BY <1>3, <1>4, WithAvailableType

(* Calls that touch i, one after the other.                                *)
LEMMA TouchesTransitive ==
    ASSUME NEW t, NEW u, NEW v, NEW i \in Operations,
           Touches(t, u, i), Touches(u, v, i)
    PROVE  Touches(t, v, i)
BY DEF Touches

-----------------------------------------------------------------------------
(* The calls.                                                              *)

(* set_mode( i, OFF ) changes nothing or turns i off.                      *)
LEMMA SetModeOffCall ==
    ASSUME NEW t, ObjectType(t), NEW i \in Operations,
           NEW u \in Objects(SetModeOff(t, i))
    PROVE  u = t \/ (Touches(t, u, i) /\ IsOff(u, i))
<1> DEFINE b == WithBit(t, i, FALSE)
           o == FinalizeOperation(Desc[i], t.ops[i])
           w == WithOp(b, i, o)
<1>1. Touches(t, b, i) /\ b.bit[i] = FALSE
  BY WithBitType
<1>2. IsOperation(Desc[i], o) /\ o.cur = "IDLE"
  BY OperationDescribed, FinalizeOperationType DEF ObjectType
<1>3. PICK r \in SetModeOff(t, i) : u = r.obj
  BY DEF Objects
<1>4. \/ r \in {[obj |-> t, res |-> "already"], [obj |-> t, res |-> "refused"]}
      \/ r = [obj |-> FinalMode(w, i), res |-> "done"]
  BY <1>3 DEF SetModeOff
<1> HIDE DEF b, o
<1>5. Touches(t, w, i) /\ w.ops[i].cur = "IDLE" /\ w.bit[i] = FALSE
  BY <1>1, <1>2, WithOpType, TouchesTransitive DEF Touches
<1> HIDE DEF w
<1>6. /\ Touches(t, FinalMode(w, i), i)
      /\ FinalMode(w, i).ops[i].cur = "IDLE"
      /\ FinalMode(w, i).bit[i] = FALSE
  BY <1>5, FinalModeType, TouchesTransitive DEF Touches
<1> QED
  BY <1>3, <1>4, <1>6 DEF IsOff

(* evaluate() of the current state keeps i in its state or turns it off.   *)
LEMMA EvaluationCall ==
    ASSUME NEW t, ObjectType(t), NEW i \in Operations,
           NEW u \in Evaluations(t, i)
    PROVE  /\ Touches(t, u, i)
           /\ \/ u.bit[i] = t.bit[i] /\ u.ops[i].cur = t.ops[i].cur
              \/ IsOff(u, i)
<1>1. PICK in \in EvaluationInputs(Desc[i], t.ops[i]) :
         LET e == WithOp(t, i, EvaluateCurrent(Desc[i], t.ops[i], in))
         IN  u = e \/ u \in Objects(SetModeOff(e, i))
  BY DEF Evaluations
<1> DEFINE o == EvaluateCurrent(Desc[i], t.ops[i], in)
           e == WithOp(t, i, o)
<1>2. IsOperation(Desc[i], o) /\ o.cur = t.ops[i].cur
  BY OperationDescribed, EvaluateCurrentType DEF ObjectType
<1>3. u = e \/ u \in Objects(SetModeOff(e, i))
  BY <1>1
<1> HIDE DEF o
<1>4. Touches(t, e, i) /\ e.bit = t.bit /\ e.ops[i].cur = t.ops[i].cur
  BY <1>2, WithOpType
<1> HIDE DEF e
<1>5. u = e \/ (Touches(e, u, i) /\ IsOff(u, i))
  BY <1>3, <1>4, SetModeOffCall DEF Touches
<1> QED
  BY <1>4, <1>5, TouchesTransitive

(* The same for a call that may end with evaluate().                       *)
LEMMA EvaluatedIfCall ==
    ASSUME NEW t, ObjectType(t), NEW i \in Operations, NEW evaluates,
           NEW u \in EvaluatedIf(evaluates, t, i)
    PROVE  /\ Touches(t, u, i)
           /\ \/ u.bit[i] = t.bit[i] /\ u.ops[i].cur = t.ops[i].cur
              \/ IsOff(u, i)
BY EvaluationCall DEF EvaluatedIf, Touches

(* op->pause() keeps the bit, and IDLE stays IDLE, or turns i off.         *)
LEMMA PauseCallCall ==
    ASSUME NEW t, ObjectType(t), NEW i \in Operations,
           NEW u \in PauseCall(t, i)
    PROVE  /\ Touches(t, u, i)
           /\ \/ /\ u.bit[i] = t.bit[i]
                 /\ u.ops[i].cur = "IDLE" <=> t.ops[i].cur = "IDLE"
              \/ IsOff(u, i)
<1> DEFINE o == Pause(Desc[i], t.ops[i])
           w == WithOp(t, i, o)
<1>1. IsOperation(Desc[i], o) /\ (o.cur = "IDLE" <=> t.ops[i].cur = "IDLE")
  BY OperationDescribed, PauseType DEF ObjectType
<1>2. u \in EvaluatedIf(PauseEvaluates(t.ops[i]), w, i)
  BY DEF PauseCall
<1> HIDE DEF o
<1>3. /\ Touches(t, w, i) /\ w.bit = t.bit
      /\ w.ops[i].cur = "IDLE" <=> t.ops[i].cur = "IDLE"
  BY <1>1, WithOpType
<1> HIDE DEF w
<1>4. /\ Touches(w, u, i)
      /\ (u.bit[i] = w.bit[i] /\ u.ops[i].cur = w.ops[i].cur) \/ IsOff(u, i)
  BY <1>2, <1>3, EvaluatedIfCall DEF Touches
<1> QED
  BY <1>3, <1>4, TouchesTransitive

(* So does op->stop().                                                     *)
LEMMA StopCallCall ==
    ASSUME NEW t, ObjectType(t), NEW i \in Operations,
           NEW u \in StopCall(t, i)
    PROVE  /\ Touches(t, u, i)
           /\ \/ /\ u.bit[i] = t.bit[i]
                 /\ u.ops[i].cur = "IDLE" <=> t.ops[i].cur = "IDLE"
              \/ IsOff(u, i)
<1> DEFINE o == Stop(Desc[i], t.ops[i])
           w == WithOp(t, i, o)
<1>1. IsOperation(Desc[i], o) /\ (o.cur = "IDLE" <=> t.ops[i].cur = "IDLE")
  BY OperationDescribed, StopType DEF ObjectType
<1>2. u \in EvaluatedIf(StopEvaluates(t.ops[i]), w, i)
  BY DEF StopCall
<1> HIDE DEF o
<1>3. /\ Touches(t, w, i) /\ w.bit = t.bit
      /\ w.ops[i].cur = "IDLE" <=> t.ops[i].cur = "IDLE"
  BY <1>1, WithOpType
<1> HIDE DEF w
<1>4. /\ Touches(w, u, i)
      /\ (u.bit[i] = w.bit[i] /\ u.ops[i].cur = w.ops[i].cur) \/ IsOff(u, i)
  BY <1>2, <1>3, EvaluatedIfCall DEF Touches
<1> QED
  BY <1>3, <1>4, TouchesTransitive

(* op->start() keeps the bit or turns i off.                               *)
LEMMA StartCallCall ==
    ASSUME NEW t, ObjectType(t), NEW i \in Operations, NEW k,
           NEW u \in StartCall(t, i, k)
    PROVE  Touches(t, u, i) /\ (u.bit[i] = t.bit[i] \/ IsOff(u, i))
<1> DEFINE o == Start(Desc[i], t.ops[i], k)
           w == WithOp(t, i, o)
<1>1. IsOperation(Desc[i], o)
  BY OperationDescribed, StartType DEF ObjectType
<1>2. u \in EvaluatedIf(StartEvaluates(t.ops[i]), w, i)
  BY DEF StartCall
<1> HIDE DEF o
<1>3. Touches(t, w, i) /\ w.bit = t.bit
  BY <1>1, WithOpType
<1> HIDE DEF w
<1>4. Touches(w, u, i) /\ (u.bit[i] = w.bit[i] \/ IsOff(u, i))
  BY <1>2, <1>3, EvaluatedIfCall DEF Touches
<1> QED
  BY <1>3, <1>4, TouchesTransitive

-----------------------------------------------------------------------------
(* set_mode and what the cycle does.                                       *)

(* An object that does not change.                                         *)
LEMMA KeepsItself ==
    ASSUME NEW t, ObjectType(t), NEW i \in Operations
    PROVE  Keeps(t, t, i) /\ Fresh(t, t, i)
BY DEF Keeps, Touches, Fresh

(* An operation that is on or off afterwards.                              *)
LEMMA KeepsWhenSettled ==
    ASSUME NEW t, NEW u, NEW i \in Operations,
           Touches(t, u, i), u.bit[i] \/ IsOff(u, i)
    PROVE  Keeps(t, u, i)
BY DEF Keeps, Sound, IsOff

(* One call after the other.                                               *)
LEMMA KeepsTransitive ==
    ASSUME NEW t, NEW u, NEW v, NEW i \in Operations,
           Keeps(t, u, i), Keeps(u, v, i)
    PROVE  Keeps(t, v, i)
BY TouchesTransitive DEF Keeps

(* set_mode( i, OFF ).                                                     *)
LEMMA SetModeOffKeeps ==
    ASSUME NEW t, ObjectType(t), NEW i \in Operations,
           NEW u \in Objects(SetModeOff(t, i))
    PROVE  Keeps(t, u, i) /\ Fresh(t, u, i)
BY SetModeOffCall, KeepsItself, KeepsWhenSettled DEF IsOff, Fresh

(* set_mode( i, PAUSE ) leaves the bit set unless it ends with i off.      *)
LEMMA SetModePauseKeeps ==
    ASSUME NEW t, ObjectType(t), NEW i \in Operations,
           NEW u \in Objects(SetModePause(t, i))
    PROVE  Keeps(t, u, i)
<1> DEFINE b == WithBit(t, i, TRUE)
<1>1. Touches(t, b, i) /\ b.bit[i] = TRUE
  BY WithBitType
<1>2. PICK r \in SetModePause(t, i) : u = r.obj
  BY DEF Objects
<1>3. \/ r = [obj |-> t, res |-> "refused"]
      \/ \E w \in PauseCall(b, i) : r = [obj |-> w, res |-> "done"]
  BY DEF SetModePause
<1> HIDE DEF b
<1>4. u = t \/ u \in PauseCall(b, i)
  BY <1>2, <1>3
<1>5. ASSUME u \in PauseCall(b, i)
      PROVE  Touches(t, u, i) /\ (u.bit[i] \/ IsOff(u, i))
  BY <1>1, <1>5, PauseCallCall, TouchesTransitive DEF Touches
<1> QED
  BY <1>4, <1>5, KeepsItself, KeepsWhenSettled

(* So does set_mode( i, STOP ).                                            *)
LEMMA SetModeStopKeeps ==
    ASSUME NEW t, ObjectType(t), NEW i \in Operations,
           NEW u \in Objects(SetModeStop(t, i))
    PROVE  Keeps(t, u, i)
<1> DEFINE b == WithBit(t, i, TRUE)
<1>1. Touches(t, b, i) /\ b.bit[i] = TRUE
  BY WithBitType
<1>2. PICK r \in SetModeStop(t, i) : u = r.obj
  BY DEF Objects
<1>3. \/ r = [obj |-> t, res |-> "refused"]
      \/ \E w \in StopCall(b, i) : r = [obj |-> w, res |-> "done"]
  BY DEF SetModeStop
<1> HIDE DEF b
<1>4. u = t \/ u \in StopCall(b, i)
  BY <1>2, <1>3
<1>5. ASSUME u \in StopCall(b, i)
      PROVE  Touches(t, u, i) /\ (u.bit[i] \/ IsOff(u, i))
  BY <1>1, <1>5, StopCallCall, TouchesTransitive DEF Touches
<1> QED
  BY <1>4, <1>5, KeepsItself, KeepsWhenSettled

(* Resuming an operation whose bit is set.                                 *)
LEMMA ResumeKeeps ==
    ASSUME NEW t, ObjectType(t), NEW i \in Operations, t.bit[i],
           NEW r \in Resume(t, i)
    PROVE  /\ Keeps(t, r.obj, i) /\ Fresh(t, r.obj, i)
           /\ r.res # "done" => r.obj = t
<1>1. \/ r \in {[obj |-> t, res |-> "already"], [obj |-> t, res |-> "refused"]}
      \/ \E k \in 0..Desc[i]["RUN"].n : \E w \in StartCall(t, i, k) :
            r = [obj |-> w, res |-> "done"]
  BY DEF Resume
<1>2. CASE r \in {[obj |-> t, res |-> "already"], [obj |-> t, res |-> "refused"]}
  BY <1>2, KeepsItself
<1>3. ASSUME NEW k \in 0..Desc[i]["RUN"].n, NEW w \in StartCall(t, i, k),
             r = [obj |-> w, res |-> "done"]
      PROVE  Keeps(t, w, i) /\ Fresh(t, w, i)
  <2>1. Touches(t, w, i) /\ (w.bit[i] = t.bit[i] \/ IsOff(w, i))
    BY StartCallCall
  <2> QED
    BY <2>1, KeepsWhenSettled DEF Fresh
<1> QED
  BY <1>1, <1>2, <1>3

(* Turning on an operation: only when nothing forbids it.                  *)
LEMMA SwitchOnKeeps ==
    ASSUME NEW t, ObjectType(t), NEW i \in Operations, NEW r \in SwitchOn(t, i)
    PROVE  /\ Keeps(t, r.obj, i) /\ Fresh(t, r.obj, i)
           /\ r.res # "done" => r.obj = t
<1>1. \/ r = [obj |-> t, res |-> "refused"]
      \/ /\ ~ Forbidden(t, i)
         /\ \E u \in StartCall(t, i, t.ops[i].run_step) :
               r = [obj |-> WithBit(InitMode(u, i), i, TRUE), res |-> "done"]
  BY DEF SwitchOn
<1>2. CASE r = [obj |-> t, res |-> "refused"]
  BY <1>2, KeepsItself
<1>3. ASSUME ~ Forbidden(t, i), NEW u \in StartCall(t, i, t.ops[i].run_step),
             r = [obj |-> WithBit(InitMode(u, i), i, TRUE), res |-> "done"]
      PROVE  Keeps(t, r.obj, i) /\ Fresh(t, r.obj, i) /\ r.res = "done"
  <2> DEFINE v == InitMode(u, i)
             w == WithBit(v, i, TRUE)
  <2>1. Touches(t, u, i)
    BY StartCallCall
  <2>2. Touches(t, v, i)
    BY <2>1, InitModeType, TouchesTransitive DEF Touches
  <2> HIDE DEF v
  <2>3. Touches(t, w, i) /\ w.bit[i] = TRUE
    <3>1. ObjectType(v)
      BY <2>2 DEF Touches
    <3>2. Touches(v, w, i) /\ w.bit[i] = TRUE
      BY <3>1, WithBitType
    <3> HIDE DEF w
    <3> QED
      BY <2>2, <3>2, TouchesTransitive
  <2>4. r.obj = w
    BY <1>3 DEF v
  <2> HIDE DEF w
  <2> QED
    BY <1>3, <2>3, <2>4, KeepsWhenSettled DEF Fresh
<1> QED
  BY <1>1, <1>2, <1>3

(* set_mode( i, RUN ).                                                     *)
LEMMA SetModeRunKeeps ==
    ASSUME NEW t, ObjectType(t), NEW i \in Operations, NEW r \in SetModeRun(t, i)
    PROVE  /\ Keeps(t, r.obj, i) /\ Fresh(t, r.obj, i)
           /\ r.res # "done" => r.obj = t
BY ResumeKeeps, SwitchOnKeeps DEF SetModeRun

(* set_mode( i, mode ): whoever pauses or stops an operation that is on    *)
(* gives no operation a bit it did not have.                               *)
LEMMA SetModeKeeps ==
    ASSUME NEW t, ObjectType(t), NEW i \in Operations, NEW mode \in Modes,
           NEW u \in Objects(SetMode(t, i, mode))
    PROVE  /\ Keeps(t, u, i)
           /\ t.bit[i] \/ mode \in {"OFF", "RUN"} => Fresh(t, u, i)
<1>1. CASE mode = "OFF"
  BY <1>1, SetModeOffKeeps DEF SetMode
<1>2. CASE mode = "RUN"
  BY <1>2, SetModeRunKeeps DEF SetMode, Objects
<1>3. CASE mode = "PAUSE"
  BY <1>3, SetModePauseKeeps DEF SetMode, Fresh
<1>4. CASE mode = "STOP"
  BY <1>4, SetModeStopKeeps DEF SetMode, Fresh
<1> QED
  BY <1>1, <1>2, <1>3, <1>4 DEF Modes

(* An operation that differs in what process_auto_switch_on remembers.     *)
LEMMA SameStateKeeps ==
    ASSUME NEW t, ObjectType(t), NEW i \in Operations,
           NEW o, IsOperation(Desc[i], o), o.cur = t.ops[i].cur
    PROVE  Keeps(t, WithOp(t, i, o), i) /\ Fresh(t, WithOp(t, i, o), i)
BY WithOpType DEF Keeps, Sound, Fresh

(* process_auto_switch_on turns i on only when nothing forbids it.         *)
LEMMA AutoSwitchOnKeeps ==
    ASSUME NEW t, ObjectType(t), NEW i \in Operations,
           NEW u \in AutoSwitchOn(t, i)
    PROVE  Keeps(t, u, i) /\ Fresh(t, u, i)
<1> DEFINE o == t.ops[i]
           tried == WithOp(t, i, [o EXCEPT !.first = FALSE])
           failed == WithOp(t, i, [o EXCEPT !.failed = TRUE])
<1>1. Keeps(t, tried, i) /\ Fresh(t, tried, i)
  <2>1. /\ IsOperation(Desc[i], [o EXCEPT !.first = FALSE])
        /\ [o EXCEPT !.first = FALSE].cur = o.cur
    BY WithPartsType DEF ObjectType
  <2> QED
    BY <2>1, SameStateKeeps
<1>2. Keeps(t, failed, i) /\ Fresh(t, failed, i)
  <2>1. /\ IsOperation(Desc[i], [o EXCEPT !.failed = TRUE])
        /\ [o EXCEPT !.failed = TRUE].cur = o.cur
    BY WithPartsType DEF ObjectType
  <2> QED
    BY <2>1, SameStateKeeps
<1>3. CASE o.failed
  BY <1>3, KeepsItself DEF AutoSwitchOn
<1>4. CASE ~ o.failed /\ o.first
  <2>1. PICK r \in SetModeRun(t, i) :
           u = IF r.res = "done" THEN r.obj
               ELSE WithOp(r.obj, i, [o EXCEPT !.first = FALSE])
    BY <1>4 DEF AutoSwitchOn
  <2>2. /\ Keeps(t, r.obj, i) /\ Fresh(t, r.obj, i)
        /\ r.res # "done" => r.obj = t
    BY SetModeRunKeeps
  <2>3. CASE r.res = "done"
    BY <2>1, <2>2, <2>3
  <2>4. CASE r.res # "done"
    BY <1>1, <2>1, <2>2, <2>4
  <2> QED
    BY <2>3, <2>4
<1>5. CASE ~ o.failed /\ ~ o.first
  <2>1. u \in {t, failed} \/ u \in Objects(SetModeRun(t, i))
    BY <1>5 DEF AutoSwitchOn
  <2> HIDE DEF failed
  <2>2. u = t \/ u = failed \/ \E r \in SetModeRun(t, i) : u = r.obj
    BY <2>1 DEF Objects
  <2> QED
    BY <1>2, <2>2, KeepsItself, SetModeRunKeeps
<1> QED
  BY <1>3, <1>4, <1>5

(* What a state answers to a signal is a mode.                             *)
LEMMA ResponseType ==
    ASSUME NEW x, NEW to
    PROVE  Response(x, to) \in {"RUN", "PAUSE", "STOP", "NONE"}
<1>1. Follows(x) \in {"RUN", "PAUSE", "NONE"}
  BY DEF Follows
<1> QED
  BY <1>1 DEF Response

(* Signals pause and stop operations that are not IDLE only.               *)
LEMMA SignalsKeep ==
    ASSUME NEW t, ObjectType(t), NEW i \in Operations,
           NEW u \in Signals(t, i)
    PROVE  Keeps(t, u, i) /\ (Sound(t, i) => Fresh(t, u, i))
<1> DEFINE o == t.ops[i]
           p == [o EXCEPT !.first = TRUE]
           q == [o EXCEPT !.first = TRUE, !.failed = FALSE]
           mode(to) == Response(o.cur, to)
<1>1. u = WithOp(t, i, q)
      \/ \E to \in Request[i][o.cur] : u \in Requested(t, i, to)
  BY DEF Signals, NoRequest
<1>2. Keeps(t, WithOp(t, i, q), i) /\ Fresh(t, WithOp(t, i, q), i)
  <2>1. IsOperation(Desc[i], p) /\ p.cur = o.cur
    BY WithPartsType DEF ObjectType
  <2>2. q = [p EXCEPT !.failed = FALSE]
    OBVIOUS
  <2> HIDE DEF p, q
  <2>3. IsOperation(Desc[i], q) /\ q.cur = o.cur
    BY <2>1, <2>2, WithPartsType
  <2> QED
    BY <2>3, SameStateKeeps
<1>3. ASSUME NEW to, u \in Requested(t, i, to)
      PROVE  Keeps(t, u, i) /\ (Sound(t, i) => Fresh(t, u, i))
  <2>1. CASE o.cur = "IDLE"
    BY <1>3, <2>1, AutoSwitchOnKeeps DEF Requested
  <2>2. CASE o.cur # "IDLE" /\ mode(to) = "NONE"
    BY <1>3, <2>2, KeepsItself DEF Requested
  <2>3. CASE o.cur # "IDLE" /\ mode(to) # "NONE"
    <3>1. mode(to) \in Modes
      BY <2>3, ResponseType DEF Modes
    <3>2. u \in Objects(SetMode(t, i, mode(to)))
      BY <1>3, <2>3 DEF Requested
    <3> QED
      BY <2>3, <3>1, <3>2, SetModeKeeps DEF Sound
  <2> QED
    BY <2>1, <2>2, <2>3
<1> HIDE DEF q
<1> QED
  BY <1>1, <1>2, <1>3

(* op->pause() on its own.                                                 *)
LEMMA PauseCallKeeps ==
    ASSUME NEW t, ObjectType(t), NEW i \in Operations,
           NEW u \in PauseCall(t, i)
    PROVE  Keeps(t, u, i) /\ Fresh(t, u, i)
BY PauseCallCall DEF Keeps, Sound, Fresh, IsOff

(* evaluate() on its own.                                                  *)
LEMMA EvaluationKeeps ==
    ASSUME NEW t, ObjectType(t), NEW i \in Operations,
           NEW u \in Evaluations(t, i)
    PROVE  Keeps(t, u, i) /\ Fresh(t, u, i)
BY EvaluationCall DEF Keeps, Sound, Fresh, IsOff

-----------------------------------------------------------------------------
(* Mutual exclusion.                                                       *)

(* Turning on only what nothing forbids keeps operations that restrict     *)
(* each other apart.                                                       *)
LEMMA FreshIsSafe ==
    ASSUME NEW t, NEW u, NEW i \in Operations,
           Keeps(t, u, i), Sound(t, i) => Fresh(t, u, i)
    PROVE  Safe(t, u, i)
<1> SUFFICES ASSUME Restricting, Exclusive(t.bit), Sound(t, i),
                    NEW j \in Operations, NEW k \in Operations,
                    Excluding(j, k), u.bit[j], u.bit[k]
             PROVE  FALSE
  BY DEF Safe, Exclusive
<1>1. Fresh(t, u, i) /\ \A m \in Operations \ {i} : u.bit[m] = t.bit[m]
  BY DEF Keeps, Touches
<1>2. CASE j = i
  BY <1>1, <1>2 DEF Fresh, Forbidden, Excluding, Exclusive
<1>3. CASE k = i
  BY <1>1, <1>3 DEF Fresh, Forbidden, Excluding, Exclusive
<1>4. CASE j # i /\ k # i
  BY <1>1, <1>4 DEF Exclusive
<1> QED
  BY <1>2, <1>3, <1>4

(* One call after the other.                                               *)
LEMMA SafeTransitive ==
    ASSUME NEW t, NEW u, NEW v, NEW i \in Operations,
           Safe(t, u, i), Safe(u, v, i)
    PROVE  Safe(t, v, i)
BY KeepsTransitive DEF Safe, Keeps

(* What tech_object::evaluate checks can only pause.                       *)
LEMMA ChecksSafe ==
    ASSUME NEW t, ObjectType(t), NEW i \in Operations,
           NEW u \in Checks(t, i)
    PROVE  Safe(t, u, i)
<1>1. ASSUME NEW v, ObjectType(v), NEW w \in PauseCall(v, i) \cup {v}
      PROVE  Safe(v, w, i) /\ ObjectType(w)
  BY <1>1, KeepsItself, PauseCallKeeps, FreshIsSafe DEF Keeps, Touches
<1>2. PICK v \in CheckDevices(t, i) :
         \/ u = v
         \/ \E w \in CheckDurations(v, i) : u \in CheckMaxTime(w, i)
  BY DEF Checks
<1>3. Safe(t, v, i) /\ ObjectType(v)
  BY <1>1 DEF CheckDevices
<1>4. ASSUME NEW w \in CheckDurations(v, i), u \in CheckMaxTime(w, i)
      PROVE  Safe(v, u, i)
  <2>1. Safe(v, w, i) /\ ObjectType(w)
    BY <1>1, <1>3 DEF CheckDurations
  <2>2. Safe(w, u, i)
    BY <1>1, <1>4, <2>1 DEF CheckMaxTime
  <2> QED
    BY <2>1, <2>2, SafeTransitive
<1> QED
  BY <1>2, <1>3, <1>4, SafeTransitive

-----------------------------------------------------------------------------
(* The steps of the object.                                                *)

(* A step that leaves the object as a call does that keeps operation i     *)
(* sound, and as a safe call does.                                         *)
KeepStep(i) == \E u : Keeps(Now, u, i) /\ Becomes(u)
CallStep(i) == \E u : Safe(Now, u, i) /\ Becomes(u)

(* A type-correct object is one the calls work on.                         *)
LEMMA NowType ==
    ASSUME TypeOK
    PROVE  ObjectType(Now)
BY DEF TypeOK, ObjectType, Now

(* op->evaluate() and the signals.                                         *)
LEMMA EvaluateOperationIsCall ==
    ASSUME TypeOK, NEW i \in Operations, EvaluateOperation(i)
    PROVE  CallStep(i)
<1>1. PICK t \in Evaluations(Now, i) : \E u \in Signals(t, i) : Becomes(u)
  BY DEF EvaluateOperation
<1>2. PICK u \in Signals(t, i) : Becomes(u)
  BY <1>1
<1>3. Safe(Now, t, i) /\ ObjectType(t)
  BY NowType, EvaluationKeeps, FreshIsSafe DEF Keeps, Touches
<1>4. Safe(t, u, i)
  BY <1>3, SignalsKeep, FreshIsSafe
<1> QED
  BY <1>2, <1>3, <1>4, SafeTransitive DEF CallStep

(* The checks that follow it.                                              *)
LEMMA CheckOperationIsCall ==
    ASSUME TypeOK, NEW i \in Operations, CheckOperation(i)
    PROVE  CallStep(i)
<1>1. PICK u \in Checks(Now, i) : Becomes(u)
  BY DEF CheckOperation
<1> QED
  BY <1>1, NowType, ChecksSafe DEF CallStep

(* A step that replaces an operation by one in the same state.             *)
LEMMA OpBecomesIsCall ==
    ASSUME TypeOK, NEW i \in Operations, NEW o,
           IsOperation(Desc[i], o), o.cur = ops[i].cur, OpBecomes(i, o)
    PROVE  CallStep(i)
<1> DEFINE u == WithOp(Now, i, o)
<1>1. ObjectType(Now) /\ Now.ops[i].cur = ops[i].cur
  BY NowType DEF Now
<1>2. Safe(Now, u, i)
  BY <1>1, SameStateKeeps, FreshIsSafe
<1>3. Becomes(u)
  BY DEF OpBecomes, Becomes, WithOp, Now
<1> QED
  BY <1>2, <1>3 DEF CallStep

(* The step methods between cycles.                                        *)
StepMethods(i) ==
    \/ CallToStep(i)
    \/ CallToNextStep(i)
    \/ CallTurnOffActiveStep(i)
    \/ CallOnExtraStep(i)
    \/ CallOffExtraStep(i)
    \/ CallSwitchActiveExtraStep(i)

(* They leave the operation in its state.                                  *)
LEMMA StepMethodsAreCalls ==
    ASSUME TypeOK, NEW i \in Operations, StepMethods(i)
    PROVE  CallStep(i)
<1> DEFINE d == Desc[i]
           o == ops[i]
<1>1. IsDescribed(d) /\ IsOperation(d, o)
  BY OperationDescribed DEF TypeOK
<1>2. PICK p : /\ OpBecomes(i, p)
               /\ \E k, m, ok : p \in {OperationToStep(d, o, k),
                     OperationToNextStep(d, o), OperationTurnOffActiveStep(d, o),
                     OperationOnExtraStep(d, o, k, ok),
                     OperationOffExtraStep(d, o, k),
                     OperationSwitchActiveExtraStep(d, o, k, m)}
  BY DEF StepMethods, CallToStep, CallToNextStep, CallTurnOffActiveStep,
         CallOnExtraStep, CallOffExtraStep, CallSwitchActiveExtraStep
<1> HIDE DEF d, o
<1>3. IsOperation(d, p) /\ p.cur = o.cur
  BY <1>1, <1>2, StepMethodsType
<1> QED
  BY <1>2, <1>3, OpBecomesIsCall DEF d, o

(* Saving a duration parameter between cycles.                             *)
LEMMA SaveDurationIsCall ==
    ASSUME TypeOK, NEW i \in Operations, SaveDuration(i)
    PROVE  CallStep(i)
<1>1. PICK x \in StateIdx : \E k \in Steps(Desc[i][x]), v \in SetDur :
         OpBecomes(i, [ops[i] EXCEPT !.st[x].dur[k] = v])
  BY DEF SaveDuration
<1>2. PICK k \in Steps(Desc[i][x]), v \in SetDur :
         OpBecomes(i, [ops[i] EXCEPT !.st[x].dur[k] = v])
  BY <1>1
<1> DEFINE s == ops[i].st[x]
           e == [s.dur EXCEPT ![k] = v]
           r == [s EXCEPT !.dur = e]
           o == [ops[i] EXCEPT !.st[x] = r]
<1>3. IsOperation(Desc[i], ops[i]) /\ s \in StateType(Desc[i][x])
  BY PartsType DEF TypeOK
<1>4. e \in [Steps(Desc[i][x]) -> Durations]
  BY <1>3, DurAssumption DEF StateType, Durations
<1>5. [ops[i] EXCEPT !.st[x].dur[k] = v] = o
  OBVIOUS
<1> HIDE DEF e
<1>6. r \in StateType(Desc[i][x])
  BY <1>3, <1>4 DEF StateType
<1> HIDE DEF r
<1>7. IsOperation(Desc[i], o) /\ o.cur = ops[i].cur
  BY <1>3, <1>6, WithStateType
<1> QED
  BY <1>2, <1>5, <1>7, OpBecomesIsCall

(* A command keeps the object sound; it turns on a forbidden operation     *)
(* only if clients may pause or stop an operation that is IDLE.            *)
LEMMA CommandIsCall ==
    ASSUME TypeOK, NEW i \in Operations, Command(i)
    PROVE  /\ KeepStep(i)
           /\ Commands["IDLE"] \subseteq {"OFF", "RUN"} => CallStep(i)
<1>1. PICK mode \in Commands[ops[i].cur] :
         \E r \in SetMode(Now, i, mode) : Becomes(r.obj)
  BY DEF Command
<1>2. PICK r \in SetMode(Now, i, mode) : Becomes(r.obj)
  BY <1>1
<1> DEFINE u == r.obj
<1>3. u \in Objects(SetMode(Now, i, mode))
  BY DEF Objects
<1>4. mode \in Modes
  BY CommandsAssumption, PartsType DEF TypeOK
<1> HIDE DEF u
<1>5. /\ Keeps(Now, u, i)
      /\ Now.bit[i] \/ mode \in {"OFF", "RUN"} => Fresh(Now, u, i)
  BY <1>3, <1>4, NowType, SetModeKeeps
<1>6. ASSUME Commands["IDLE"] \subseteq {"OFF", "RUN"}
      PROVE  Safe(Now, u, i)
  <2>1. Sound(Now, i) => Now.bit[i] \/ mode \in {"OFF", "RUN"}
    BY <1>1, <1>6 DEF Sound, Now
  <2> QED
    BY <1>5, <2>1, FreshIsSafe
<1>7. Becomes(u)
  BY <1>2 DEF u
<1> QED
  BY <1>5, <1>6, <1>7 DEF KeepStep, CallStep

(* The invariants.  ActiveHasBit needs only the types, mutual exclusion    *)
(* needs ActiveHasBit and is one on the bits, not on the states: a bit may *)
(* be set while its operation is IDLE.                                     *)
SoundInv == TypeOK /\ ActiveHasBit

ExclusiveInv == SoundInv /\ Exclusive(bit)

(* The object as constructed.                                              *)
LEMMA InitSound ==
    ASSUME Init
    PROVE  ExclusiveInv
<1>1. \A i \in Operations : /\ IsOperation(Desc[i], ops[i])
                            /\ ops[i].cur = "IDLE"
  BY OperationDescribed, DurAssumption, NewOperationType DEF Init
<1>2. /\ ops = [i \in Operations |-> ops[i]]
      /\ bit \in [Operations -> BOOLEAN]
      /\ available \in [Operations -> Int]
      /\ turn \in 0..N
      /\ checking \in BOOLEAN
  <2>1. /\ ops = [i \in Operations |-> ops[i]]
        /\ bit \in [Operations -> BOOLEAN]
    BY DEF Init
  <2>2. available \in [Operations -> Int] /\ turn \in 0..N
    BY NAssumption DEF Init
  <2>3. checking \in BOOLEAN
    BY DEF Init
  <2> QED
    BY <2>1, <2>2, <2>3
<1>3. Exclusive(bit)
  BY DEF Init, Exclusive
<1> QED
  BY <1>1, <1>2, <1>3 DEF ExclusiveInv, SoundInv, TypeOK, ActiveHasBit

(* What a call leaves is sound.                                            *)
LEMMA CallKeepsSound ==
    ASSUME SoundInv, NEW i \in Operations,
           turn' \in 0..N, checking' \in BOOLEAN,
           NEW u, Keeps(Now, u, i), Becomes(u)
    PROVE  SoundInv'
<1>1. ObjectType(u) /\ ops' = u.ops /\ bit' = u.bit /\ available' = u.available
  BY DEF Keeps, Touches, Becomes
<1>2. TypeOK'
  BY <1>1 DEF ObjectType, TypeOK
<1>3. ASSUME NEW j \in Operations, u.ops[j].cur # "IDLE"
      PROVE  u.bit[j]
  <2>1. CASE j = i
    BY <1>3, <2>1 DEF Keeps, Sound, SoundInv, ActiveHasBit, Now
  <2>2. CASE j # i
    BY <1>3, <2>2 DEF Keeps, Touches, SoundInv, ActiveHasBit, Now
  <2> QED
    BY <2>1, <2>2
<1> QED
  BY <1>1, <1>2, <1>3 DEF SoundInv, ActiveHasBit

(* turn and checking stay in their ranges.                                 *)
LEMMA CycleType ==
    ASSUME TypeOK, [Next]_vars
    PROVE  turn' \in 0..N /\ checking' \in BOOLEAN
<1>1. CASE UNCHANGED <<turn, checking>>
  BY <1>1 DEF TypeOK
<1>2. CASE StartCycle
  BY <1>2, NAssumption DEF StartCycle, TypeOK
<1>3. ASSUME NEW i \in Operations, Proceed(i)
      PROVE  turn' \in 0..N /\ checking' \in BOOLEAN
  <2>1. (i + 1) % (N + 1) \in 0..N /\ i \in 0..N
    BY NAssumption DEF Operations
  <2> QED
    BY <1>3, <2>1 DEF Proceed, TypeOK
<1> QED
  BY <1>1, <1>2, <1>3
     DEF Next, vars, Tick, EvaluateOperation, CheckOperation, Command, CallToStep,
         CallToNextStep, CallTurnOffActiveStep, CallOnExtraStep, CallOffExtraStep,
         CallSwitchActiveExtraStep, SaveDuration, StepCall, Between

(* Every step is a stutter, time passing or a call.                        *)
LEMMA NextIsCall ==
    ASSUME TypeOK, [Next]_vars
    PROVE  \/ UNCHANGED <<ops, bit, available>>
           \/ Tick
           \/ \E i \in Operations : Command(i) \/ CallStep(i)
BY EvaluateOperationIsCall, CheckOperationIsCall, StepMethodsAreCalls,
   SaveDurationIsCall
   DEF Next, vars, StartCycle, StepMethods

(* Time passes without a change of states or bits.                         *)
LEMMA TickKeepsSound ==
    ASSUME SoundInv, Tick
    PROVE  SoundInv'
<1>1. \A i \in Operations : /\ IsOperation(Desc[i], ops'[i])
                            /\ ops'[i].cur = ops[i].cur
  BY TickOperationType DEF Tick, SoundInv, TypeOK
<1>2. ops' = [i \in Operations |-> ops'[i]]
  BY DEF Tick
<1>3. UNCHANGED <<bit, available, turn, checking>>
  BY DEF Tick, Between
<1> QED
  BY <1>1, <1>2, <1>3 DEF SoundInv, TypeOK, ActiveHasBit

(* SoundInv is inductive.                                                  *)
LEMMA NextKeepsSound ==
    ASSUME SoundInv, [Next]_vars
    PROVE  SoundInv'
<1>1. TypeOK /\ turn' \in 0..N /\ checking' \in BOOLEAN
  BY CycleType DEF SoundInv
<1>2. CASE UNCHANGED <<ops, bit, available>>
  BY <1>1, <1>2 DEF SoundInv, TypeOK, ActiveHasBit
<1>3. CASE Tick
  BY <1>3, TickKeepsSound
<1>4. ASSUME NEW i \in Operations, Command(i) \/ CallStep(i)
      PROVE  SoundInv'
  <2>1. PICK u : Keeps(Now, u, i) /\ Becomes(u)
    <3>1. CASE Command(i)
      BY <1>1, <3>1, CommandIsCall DEF KeepStep
    <3>2. CASE CallStep(i)
      BY <3>2 DEF CallStep, Safe
    <3> QED
      BY <1>4, <3>1, <3>2
  <2> QED
    BY <1>1, <2>1, CallKeepsSound
<1> QED
  BY <1>1, <1>2, <1>3, <1>4, NextIsCall

(* So is ExclusiveInv, under the assumptions of the theorem.               *)
LEMMA NextKeepsExclusive ==
    ASSUME ExclusiveInv, [Next]_vars,
           Restricting, Commands["IDLE"] \subseteq {"OFF", "RUN"}
    PROVE  ExclusiveInv'
<1>1. SoundInv' /\ TypeOK
  BY NextKeepsSound DEF ExclusiveInv, SoundInv
<1>2. CASE UNCHANGED <<ops, bit, available>>
  BY <1>1, <1>2 DEF ExclusiveInv, Exclusive
<1>3. CASE Tick
  BY <1>1, <1>3 DEF ExclusiveInv, Exclusive, Tick
<1>4. ASSUME NEW i \in Operations, Command(i) \/ CallStep(i)
      PROVE  ExclusiveInv'
  <2>1. PICK u : Safe(Now, u, i) /\ Becomes(u)
    <3>1. CASE Command(i)
      BY <1>1, <3>1, CommandIsCall DEF CallStep
    <3>2. CASE CallStep(i)
      BY <3>2 DEF CallStep
    <3> QED
      BY <1>4, <3>1, <3>2
  <2>2. Exclusive(Now.bit) /\ Sound(Now, i)
    BY DEF ExclusiveInv, SoundInv, ActiveHasBit, Sound, Now
  <2>3. Exclusive(u.bit) /\ bit' = u.bit
    BY <2>1, <2>2 DEF Safe, Becomes
  <2> QED
    BY <1>1, <2>3 DEF ExclusiveInv, Exclusive
<1> QED
  BY <1>1, <1>2, <1>3, <1>4, NextIsCall

-----------------------------------------------------------------------------
(* The theorems.                                                           *)

(* Type correctness: whatever clients, signals and time do, no call leaves *)
(* the object malformed, e.g. with a step out of range or with a negative  *)
(* number of entries in active_steps.                                      *)
THEOREM TypeCorrect == Spec => []TypeOK
<1>1. Init => SoundInv
  BY InitSound DEF ExclusiveInv
<1>2. SoundInv /\ [Next]_vars => SoundInv'
  BY NextKeepsSound
<1>3. SoundInv => TypeOK
  BY DEF SoundInv
<1> QED
  BY <1>1, <1>2, <1>3, PTL DEF Spec

(* An operation that is not IDLE has its bit set: tech_object::get_mode()  *)
(* answers 1 for every operation that works.                               *)
THEOREM ActiveOperationsHaveBits == Spec => []ActiveHasBit
<1>1. Init => SoundInv
  BY InitSound DEF ExclusiveInv
<1>2. SoundInv /\ [Next]_vars => SoundInv'
  BY NextKeepsSound
<1>3. SoundInv => ActiveHasBit
  BY DEF SoundInv
<1> QED
  BY <1>1, <1>2, <1>3, PTL DEF Spec

(* Operations that restrict each other are never on together: what         *)
(* lua_check_on_mode checks once, when an operation is turned on, holds    *)
(* for ever, provided clients do not pause or stop an operation that is    *)
(* IDLE (which sets its bit unchecked).                                    *)
THEOREM MutuallyExclusive ==
    ASSUME Restricting, Commands["IDLE"] \subseteq {"OFF", "RUN"}
    PROVE  Spec => []MutualExclusion
<1>1. Init => ExclusiveInv
  BY InitSound
<1>2. ExclusiveInv /\ [Next]_vars => ExclusiveInv'
  BY NextKeepsExclusive
<1>3. ExclusiveInv => MutualExclusion
  BY DEF ExclusiveInv, SoundInv, ActiveHasBit, Exclusive, Excluding,
         MutualExclusion
<1> QED
  BY <1>1, <1>2, <1>3, PTL DEF Spec
=============================================================================
