-------------------------- MODULE OperationProofs --------------------------
(***************************************************************************)
(* The functions of OperationState and Operation map well-typed values to  *)
(* well-typed values.                                                      *)
(***************************************************************************)
EXTENDS Operation, TLAPS

-----------------------------------------------------------------------------
(* The state of an operation.                                              *)

(* Steps are numbered from 1 to n; 0 stands for none and for the mode step.*)
LEMMA StepNumbers ==
    ASSUME NEW c, Description(c)
    PROVE  /\ c.n \in Nat
           /\ 0 \in 0..c.n
           /\ \A k \in Steps(c) : k \in 0..c.n /\ c.max[k] \in Nat
                                   /\ c.next[k] \in 0..c.n
<1>1. c.n \in Nat
  BY DEF Description
<1>2. ASSUME NEW k \in Steps(c)
      PROVE  k \in 0..c.n
  BY <1>1, <1>2 DEF Steps
<1>3. ASSUME NEW k \in Steps(c)
      PROVE  c.max[k] \in Nat /\ c.next[k] \in 0..c.n
  BY <1>3 DEF Description
<1> QED
  BY <1>1, <1>2, <1>3

(* Adding two clocks saturates within the range of a clock (get_eval_time).*)
LEMMA EvalTimeType ==
    ASSUME NEW c, NEW s \in StateType(c), NEW k \in Steps(c)
    PROVE  EvalTime(s, k) \in 0..MaxTick
BY MaxTickAssumption DEF EvalTime, Saturate, StateType

(* step::init of any steps.                                                *)
LEMMA InitStepsType ==
    ASSUME NEW c, Description(c), NEW s \in StateType(c),
           NEW K \in SUBSET Steps(c)
    PROVE  /\ InitSteps(c, s, K) \in StateType(c)
           /\ InitSteps(c, s, K).step = s.step
           /\ InitSteps(c, s, K).extra = s.extra
<1> DEFINE T == [k \in Steps(c) |-> IF k \in K \cap Limited(c, s) THEN 0
                                    ELSE s.time[k]]
<1>1. T \in [Steps(c) -> 0..MaxTick]
  BY MaxTickAssumption DEF StateType
<1>2. s.live \cup K \in SUBSET (0..c.n)
  BY StepNumbers DEF StateType
<1> HIDE DEF T
<1>3. InitSteps(c, s, K) = [s EXCEPT !.live = @ \cup K, !.time = T]
  BY DEF InitSteps, T
<1> QED
  BY <1>1, <1>2, <1>3 DEF StateType

(* step::evaluate of any steps.                                            *)
LEMMA EvaluateStepsType ==
    ASSUME NEW c, NEW s \in StateType(c), NEW K \in SUBSET (0..c.n)
    PROVE  /\ EvaluateSteps(s, K) \in StateType(c)
           /\ EvaluateSteps(s, K).step = s.step
           /\ EvaluateSteps(s, K).extra = s.extra
BY DEF EvaluateSteps, StateType

(* step::finalize of any steps.                                            *)
LEMMA FinalizeStepsType ==
    ASSUME NEW c, NEW s \in StateType(c), NEW K
    PROVE  /\ FinalizeSteps(c, s, K) \in StateType(c)
           /\ FinalizeSteps(c, s, K).step = s.step
           /\ FinalizeSteps(c, s, K).extra = s.extra
<1> DEFINE T == [k \in Steps(c) |-> IF k \in K THEN 0 ELSE s.dx[k]]
<1>1. T \in [Steps(c) -> 0..MaxTick]
  BY MaxTickAssumption DEF StateType
<1> HIDE DEF T
<1>2. FinalizeSteps(c, s, K) = [s EXCEPT !.live = @ \ K, !.dx = T]
  BY DEF FinalizeSteps, T
<1> QED
  BY <1>1, <1>2 DEF StateType

(* to_step: the active step is the one asked for when there is such a step.*)
LEMMA ToStepType ==
    ASSUME NEW c, Description(c), NEW s \in StateType(c), NEW k
    PROVE  /\ ToStep(c, s, k) \in StateType(c)
           /\ ToStep(c, s, k).step = IF k \in Steps(c) THEN k ELSE s.step
           /\ ToStep(c, s, k).extra = s.extra
<1>1. CASE k \notin Steps(c)
  BY <1>1 DEF ToStep
<1>2. CASE k \in Steps(c)
  <2> DEFINE f == FinalizeSteps(c, s, {s.step} \ {0})
             m == IF Debug THEN c.max[k] ELSE f.amax
             b == [f EXCEPT !.step = k, !.amax = m]
  <2>1. f \in StateType(c) /\ f.extra = s.extra
    BY FinalizeStepsType
  <2>2. k \in 0..c.n /\ m \in Nat
    BY <1>2, <2>1, StepNumbers, DebugAssumption DEF StateType
  <2> HIDE DEF f, m
  <2>3. b \in StateType(c) /\ b.step = k /\ b.extra = s.extra
    BY <2>1, <2>2 DEF StateType
  <2>4. ToStep(c, s, k) = Begun(c, b, k)
    BY <1>2 DEF ToStep, f, m
  <2> HIDE DEF b
  <2>5. CASE b.dur[k] = 0
    BY <1>2, <2>3, <2>4, <2>5 DEF Begun
  <2>6. CASE b.dur[k] # 0
    <3> DEFINE i == InitSteps(c, b, {k})
    <3>1. i \in StateType(c) /\ i.step = k /\ i.extra = s.extra
      BY <1>2, <2>3, InitStepsType
    <3>2. {k} \in SUBSET (0..c.n)
      BY <2>2
    <3>3. ToStep(c, s, k) = EvaluateSteps(i, {k})
      BY <2>4, <2>6 DEF Begun
    <3> HIDE DEF i
    <3> QED
      BY <1>2, <3>1, <3>2, <3>3, EvaluateStepsType
  <2> QED
    BY <2>5, <2>6
<1> QED
  BY <1>1, <1>2

(* to_next_step.                                                           *)
LEMMA ToNextStepType ==
    ASSUME NEW c, Description(c), NEW s \in StateType(c)
    PROVE  ToNextStep(c, s) \in StateType(c)
BY ToStepType DEF ToNextStep

(* turn_off_active_step leaves no active step.                             *)
LEMMA TurnOffActiveStepType ==
    ASSUME NEW c, Description(c), NEW s \in StateType(c)
    PROVE  TurnOffActiveStep(c, s) \in StateType(c)
<1> DEFINE f == FinalizeSteps(c, s, {s.step} \ {0})
<1>1. f \in StateType(c)
  BY FinalizeStepsType
<1>2. TurnOffActiveStep(c, s) = [f EXCEPT !.step = 0]
  BY DEF TurnOffActiveStep
<1> HIDE DEF f
<1> QED
  BY <1>1, <1>2, StepNumbers DEF StateType

(* init of a state, at any step.                                           *)
LEMMA InitStateType ==
    ASSUME NEW c, Description(c), NEW s \in StateType(c), NEW k
    PROVE  InitState(c, s, k) \in StateType(c)
<1> DEFINE r == [s EXCEPT !.live = @ \cup {0}, !.step = 0]
           t == ToStep(c, r, k)
<1>1. r \in StateType(c)
  BY StepNumbers DEF StateType
<1>2. InitState(c, s, k) = IF c.n = 0 THEN r ELSE InitSteps(c, t, Listed(c, t))
  BY DEF InitState
<1> HIDE DEF r
<1>3. t \in StateType(c)
  BY <1>1, ToStepType
<1> HIDE DEF t
<1>4. Listed(c, t) \in SUBSET Steps(c)
  BY DEF Listed
<1> QED
  BY <1>1, <1>2, <1>3, <1>4, InitStepsType

(* finalize of a state leaves no active and no extra step.                 *)
LEMMA FinalizeStateType ==
    ASSUME NEW c, Description(c), NEW s \in StateType(c)
    PROVE  FinalizeState(c, s) \in StateType(c)
<1> DEFINE f == FinalizeSteps(c, s, {0, s.step} \cup Listed(c, s))
           x == IF s.step > 0 THEN EvalTime(s, s.step) ELSE f.dxstep
<1>1. f \in StateType(c)
  BY FinalizeStepsType
<1>2. s.step > 0 => s.step \in Steps(c)
  BY StepNumbers DEF StateType, Steps
<1>3. x \in 0..MaxTick
  BY <1>1, <1>2, EvalTimeType DEF StateType
<1>4. NoExtra(c) \in [Steps(c) -> Nat]
  BY DEF NoExtra
<1>5. FinalizeState(c, s)
        = [f EXCEPT !.dxstep = x, !.step = 0, !.extra = NoExtra(c)]
  BY DEF FinalizeState
<1> HIDE DEF f, x
<1> QED
  BY <1>1, <1>3, <1>4, <1>5, StepNumbers DEF StateType

(* save, load, reset_eval_time and add_dx_step_time.                       *)
LEMMA SaveLoadType ==
    ASSUME NEW c, Description(c), NEW s \in StateType(c)
    PROVE  /\ Save(s) \in StateType(c)
           /\ Load(s) \in StateType(c)
           /\ ResetEvalTime(s) \in StateType(c)
           /\ AddDxStepTime(s) \in StateType(c)
<1>1. Save(s) \in StateType(c)
  BY DEF StateType, Save
<1>2. Load(s) \in StateType(c)
  BY DEF StateType, Load
<1>3. ResetEvalTime(s) \in StateType(c)
  BY MaxTickAssumption DEF StateType, ResetEvalTime
<1>4. [s.dx EXCEPT ![s.step] = s.dxstep] \in [Steps(c) -> 0..MaxTick]
  BY DEF StateType
<1>5. AddDxStepTime(s) \in StateType(c)
  BY <1>4 DEF StateType, AddDxStepTime
<1> QED
  BY <1>1, <1>2, <1>3, <1>5

(* Replacing the list of extra steps.                                      *)
LEMMA ExtraType ==
    ASSUME NEW c, NEW s \in StateType(c), NEW x \in [Steps(c) -> Nat]
    PROVE  /\ [s EXCEPT !.extra = x] \in StateType(c)
           /\ [s EXCEPT !.extra = x].step = s.step
BY DEF StateType

(* on_extra_step, whether its check succeeds or not.                       *)
LEMMA OnExtraStepType ==
    ASSUME NEW c, Description(c), NEW s \in StateType(c), NEW k, NEW ok
    PROVE  OnExtraStep(c, s, k, ok) \in StateType(c)
<1> SUFFICES ASSUME k \in Steps(c)
             PROVE  OnExtraStep(c, s, k, ok) \in StateType(c)
  BY DEF OnExtraStep
<1> DEFINE i == InitSteps(c, s, IF ok THEN {k} ELSE {})
           x == [i.extra EXCEPT ![k] = 1]
<1>1. i \in StateType(c)
  BY InitStepsType
<1>2. x \in [Steps(c) -> Nat]
  BY <1>1 DEF StateType
<1>3. OnExtraStep(c, s, k, ok) \in {s, [i EXCEPT !.extra = x]}
  BY DEF OnExtraStep
<1> HIDE DEF i, x
<1> QED
  BY <1>1, <1>2, <1>3, ExtraType

(* off_extra_step never counts below 0: the step is listed.                *)
LEMMA OffExtraStepType ==
    ASSUME NEW c, NEW s \in StateType(c), NEW k
    PROVE  OffExtraStep(c, s, k) \in StateType(c)
<1> SUFFICES ASSUME k \in Listed(c, s)
             PROVE  OffExtraStep(c, s, k) \in StateType(c)
  BY DEF OffExtraStep
<1> DEFINE f == FinalizeSteps(c, s, {k})
           x == [s.extra EXCEPT ![k] = @ - 1]
<1>1. f \in StateType(c) /\ f.extra = s.extra
  BY FinalizeStepsType
<1>2. x \in [Steps(c) -> Nat]
  BY DEF StateType, Listed
<1>3. OffExtraStep(c, s, k) = [f EXCEPT !.extra = x]
  BY <1>1 DEF OffExtraStep
<1> HIDE DEF f, x
<1> QED
  BY <1>1, <1>2, <1>3, ExtraType

(* switch_active_extra_step never counts below 0 either.                   *)
LEMMA SwitchActiveExtraStepType ==
    ASSUME NEW c, Description(c), NEW s \in StateType(c), NEW off, NEW on
    PROVE  SwitchActiveExtraStep(c, s, off, on) \in StateType(c)
<1> SUFFICES ASSUME on \in Steps(c), off \in Listed(c, s)
             PROVE  SwitchActiveExtraStep(c, s, off, on) \in StateType(c)
  BY DEF SwitchActiveExtraStep
<1> DEFINE f == FinalizeSteps(c, s, {off})
           i == InitSteps(c, f, {on})
           x == [k \in Steps(c) |-> s.extra[k] + (IF k = on THEN 1 ELSE 0)
                                             - (IF k = off THEN 1 ELSE 0)]
<1>1. f \in StateType(c)
  BY FinalizeStepsType
<1>2. i \in StateType(c)
  BY <1>1, InitStepsType
<1>3. x \in [Steps(c) -> Nat]
  BY DEF StateType, Listed
<1>4. SwitchActiveExtraStep(c, s, off, on) \in {s, [i EXCEPT !.extra = x]}
  BY DEF SwitchActiveExtraStep
<1> HIDE DEF f, i, x
<1> QED
  BY <1>2, <1>3, <1>4, ExtraType

(* The two loops of evaluate() over the extra steps leave the active step  *)
(* alone.                                                                  *)
LEMMA ExtraPassType ==
    ASSUME NEW c, Description(c), NEW s \in StateType(c), NEW in \in Inputs(c, s)
    PROVE  /\ ExtraPass(c, s, in) \in StateType(c)
           /\ ExtraPass(c, s, in).step = s.step
<1>0. /\ in.en \in SUBSET c.signal
      /\ in.left \in [c.turnoff -> 0..(MaxCopies - 1)]
      /\ c.turnoff \in SUBSET c.signal
      /\ c.signal \in SUBSET Steps(c)
  BY DEF Inputs, Description
<1> DEFINE drop == Droppable(c, s, in.en) \ in.skip
           run == EvaluateSteps(s, {0} \cup (Listed(c, s) \ in.skip))
           f == FinalizeSteps(c, run, drop)
           x == [k \in Steps(c) |-> IF k \in drop THEN in.left[k]
                                                 ELSE s.extra[k]]
           p == DropExtraSteps(c, s, in)
           add == {k \in in.en : k # p.step /\ p.extra[k] = 0}
           i == InitSteps(c, p, add \cap in.ok)
           y == [k \in Steps(c) |-> IF k \in add THEN 1 ELSE p.extra[k]]
<1>1. {0} \cup (Listed(c, s) \ in.skip) \in SUBSET (0..c.n)
  BY StepNumbers DEF Listed
<1>2. run \in StateType(c) /\ run.step = s.step
  BY <1>1, EvaluateStepsType
<1>3. f \in StateType(c) /\ f.step = s.step
  BY <1>2, FinalizeStepsType
<1>4. x \in [Steps(c) -> Nat]
  <2>1. \A k \in drop : in.left[k] \in Nat
    BY <1>0, MaxCopiesAssumption DEF Droppable
  <2> HIDE DEF drop
  <2> QED
    BY <2>1 DEF StateType
<1>5. p \in StateType(c) /\ p.step = s.step
  <2>1. p = [f EXCEPT !.extra = x]
    BY DEF DropExtraSteps
  <2> HIDE DEF f, x, p
  <2> QED
    BY <1>3, <1>4, <2>1, ExtraType
<1> HIDE DEF p
<1>6. add \cap in.ok \in SUBSET Steps(c)
  BY <1>0
<1>7. i \in StateType(c) /\ i.step = s.step
  BY <1>5, <1>6, InitStepsType
<1>8. y \in [Steps(c) -> Nat]
  BY <1>5 DEF StateType
<1>9. ExtraPass(c, s, in) = [i EXCEPT !.extra = y]
  BY DEF ExtraPass, EnableExtraSteps, p
<1> HIDE DEF i, y
<1> QED
  BY <1>7, <1>8, <1>9, ExtraType

(* evaluate() of a state.                                                  *)
LEMMA EvaluateStateType ==
    ASSUME NEW c, Description(c), NEW s \in StateType(c), NEW in \in Inputs(c, s)
    PROVE  EvaluateState(c, s, in) \in StateType(c)
<1> DEFINE p == ExtraPass(c, s, in)
           t == [p EXCEPT !.amax = c.max[p.step]]
           j == ToStep(c, t, in.jump)
<1>1. p \in StateType(c)
  BY ExtraPassType
<1>2. EvaluateState(c, s, in)
        = IF p.step = 0 THEN p
          ELSE IF TimeOver(p) THEN ToStep(c, t, c.next[p.step])
          ELSE EvaluateSteps(j, {j.step})
  BY DEF EvaluateState, ActiveStepPass
<1> HIDE DEF p
<1> SUFFICES ASSUME p.step # 0
             PROVE  EvaluateState(c, s, in) \in StateType(c)
  BY <1>1, <1>2
<1>3. p.step \in Steps(c)
  BY <1>1, StepNumbers DEF StateType, Steps
<1>4. t \in StateType(c)
  BY <1>1, <1>3, StepNumbers DEF StateType
<1> HIDE DEF t
<1>5. /\ ToStep(c, t, c.next[p.step]) \in StateType(c)
      /\ j \in StateType(c)
  BY <1>4, ToStepType
<1> HIDE DEF j
<1>6. {j.step} \in SUBSET (0..c.n)
  BY <1>5 DEF StateType
<1> QED
  BY <1>2, <1>5, <1>6, EvaluateStepsType

(* Time passes.                                                            *)
LEMMA TickStateType ==
    ASSUME NEW c, NEW s \in StateType(c)
    PROVE  TickState(c, s) \in StateType(c)
<1> DEFINE T == [k \in Steps(c) |-> Saturate(s.time[k] + 1)]
<1>1. T \in [Steps(c) -> 0..MaxTick]
  BY MaxTickAssumption DEF StateType, Saturate
<1>2. TickState(c, s) = [s EXCEPT !.time = T]
  BY DEF TickState
<1> HIDE DEF T
<1> QED
  BY <1>1, <1>2 DEF StateType

(* A state as constructed.                                                 *)
LEMMA NewStateType ==
    ASSUME NEW c, Description(c), NEW dur \in [Steps(c) -> Durations]
    PROVE  NewState(c, dur) \in StateType(c)
<1>1. /\ [k \in Steps(c) |-> MaxTick] \in [Steps(c) -> 0..MaxTick]
      /\ [k \in Steps(c) |-> 0] \in [Steps(c) -> 0..MaxTick]
      /\ NoExtra(c) \in [Steps(c) -> Nat]
      /\ 0 \in 0..MaxTick
  BY MaxTickAssumption DEF NoExtra
<1> QED
  BY <1>1, StepNumbers DEF NewState, StateType

-----------------------------------------------------------------------------
(* The operation.                                                          *)

IsDescribed(d) == \A x \in StateIdx : Description(d[x])

(* Replacing one of the states.                                            *)
LEMMA WithStateType ==
    ASSUME NEW d, NEW o, IsOperation(d, o), NEW x \in StateIdx,
           NEW s \in StateType(d[x])
    PROVE  /\ IsOperation(d, [o EXCEPT !.st[x] = s])
           /\ [o EXCEPT !.st[x] = s].cur = o.cur
           /\ [o EXCEPT !.st[x] = s].run_step = o.run_step
BY DEF IsOperation

(* Replacing the other parts.                                              *)
LEMMA WithPartsType ==
    ASSUME NEW d, NEW o, IsOperation(d, o)
    PROVE  /\ \A x \in StateIdx :
                 /\ IsOperation(d, [o EXCEPT !.cur = x])
                 /\ [o EXCEPT !.cur = x].cur = x
           /\ \A k \in 0..d["RUN"].n :
                 /\ IsOperation(d, [o EXCEPT !.run_step = k])
                 /\ [o EXCEPT !.run_step = k].cur = o.cur
           /\ \A b \in BOOLEAN :
                 /\ IsOperation(d, [o EXCEPT !.first = b])
                 /\ [o EXCEPT !.first = b].cur = o.cur
                 /\ IsOperation(d, [o EXCEPT !.failed = b])
                 /\ [o EXCEPT !.failed = b].cur = o.cur
BY DEF IsOperation

(* Every part has its type.                                                *)
LEMMA PartsType ==
    ASSUME NEW d, NEW o, IsOperation(d, o)
    PROVE  /\ o.cur \in StateIdx
           /\ o.run_step \in 0..d["RUN"].n
           /\ \A x \in StateIdx : o.st[x] \in StateType(d[x])
BY DEF IsOperation

(* finalize() of the current state.                                        *)
LEMMA LeaveType ==
    ASSUME NEW d, IsDescribed(d), NEW o, IsOperation(d, o)
    PROVE  /\ IsOperation(d, Leave(d, o))
           /\ Leave(d, o).cur = o.cur
           /\ Leave(d, o).run_step = o.run_step
<1> DEFINE s == FinalizeState(d[o.cur], o.st[o.cur])
<1>1. o.cur \in StateIdx
  BY PartsType
<1>2. s \in StateType(d[o.cur])
  BY <1>1, PartsType, FinalizeStateType DEF IsDescribed
<1>3. Leave(d, o) = [o EXCEPT !.st[o.cur] = s]
  BY DEF Leave
<1> HIDE DEF s
<1> QED
  BY <1>1, <1>2, <1>3, WithStateType

(* init() of another state makes it the current one.                       *)
LEMMA BeginType ==
    ASSUME NEW d, IsDescribed(d), NEW o, IsOperation(d, o), NEW x \in StateIdx
    PROVE  IsOperation(d, Begin(d, o, x)) /\ Begin(d, o, x).cur = x
<1> DEFINE s == InitState(d[x], o.st[x], 1)
           b == [o EXCEPT !.cur = x]
<1>1. s \in StateType(d[x])
  BY PartsType, InitStateType DEF IsDescribed
<1>2. IsOperation(d, b) /\ b.cur = x
  BY WithPartsType
<1>3. Begin(d, o, x) = [b EXCEPT !.st[x] = s]
  BY DEF Begin
<1> HIDE DEF s, b
<1> QED
  BY <1>1, <1>2, <1>3, WithStateType

(* From one state to another.                                              *)
LEMMA GoToType ==
    ASSUME NEW d, IsDescribed(d), NEW o, IsOperation(d, o), NEW x \in StateIdx
    PROVE  IsOperation(d, GoTo(d, o, x)) /\ GoTo(d, o, x).cur = x
BY LeaveType, BeginType DEF GoTo

(* A transitional state and the state it leads to are states.              *)
LEMMA UnlessType ==
    ASSUME NEW d, NEW x \in StateIdx, NEW y \in StateIdx
    PROVE  Unless(d, x, y) \in {x, y}
BY DEF Unless

(* save() of RUN keeps the operation in its state.                         *)
LEMMA SaveRunType ==
    ASSUME NEW d, IsDescribed(d), NEW o, IsOperation(d, o)
    PROVE  IsOperation(d, SaveRun(o)) /\ SaveRun(o).cur = o.cur
<1> DEFINE s == Save(o.st["RUN"])
           k == RunState(o).step
           b == [o EXCEPT !.run_step = k]
<1>1. "RUN" \in StateIdx
  BY DEF StateIdx
<1>2. s \in StateType(d["RUN"])
  BY <1>1, PartsType, SaveLoadType DEF IsDescribed
<1>3. k \in 0..d["RUN"].n
  BY <1>1, PartsType DEF RunState, StateType
<1>4. SaveRun(o) = [b EXCEPT !.st["RUN"] = s]
  BY DEF SaveRun
<1> HIDE DEF s, k
<1>5. IsOperation(d, b) /\ b.cur = o.cur
  BY <1>3, WithPartsType
<1> HIDE DEF b
<1> QED
  BY <1>1, <1>2, <1>4, <1>5, WithStateType

(* pause() works in RUN and PAUSING only and never ends in IDLE there.     *)
LEMMA PauseType ==
    ASSUME NEW d, IsDescribed(d), NEW o, IsOperation(d, o)
    PROVE  /\ IsOperation(d, Pause(d, o))
           /\ Pause(d, o).cur = "IDLE" <=> o.cur = "IDLE"
<1>1. {"PAUSING", "PAUSE"} \subseteq StateIdx
  BY DEF StateIdx
<1>2. CASE o.cur = "RUN"
  <2> DEFINE x == Unless(d, "PAUSING", "PAUSE")
  <2>1. x \in {"PAUSING", "PAUSE"}
    BY <1>1, UnlessType
  <2>2. Pause(d, o) = GoTo(d, SaveRun(o), x)
    BY <1>2 DEF Pause
  <2> HIDE DEF x
  <2> QED
    BY <1>1, <1>2, <2>1, <2>2, SaveRunType, GoToType
<1>3. CASE o.cur = "PAUSING"
  BY <1>1, <1>3, GoToType DEF Pause
<1>4. CASE o.cur \notin {"RUN", "PAUSING"}
  BY <1>4 DEF Pause
<1> QED
  BY <1>2, <1>3, <1>4

(* stop() never leaves IDLE and never ends there.                          *)
LEMMA StopType ==
    ASSUME NEW d, IsDescribed(d), NEW o, IsOperation(d, o)
    PROVE  /\ IsOperation(d, Stop(d, o))
           /\ Stop(d, o).cur = "IDLE" <=> o.cur = "IDLE"
<1>1. {"STOPPING", "STOP"} \subseteq StateIdx
  BY DEF StateIdx
<1>2. CASE o.cur \in {"PAUSING", "PAUSE", "UNPAUSING", "STARTING", "RUN"}
  <2> DEFINE x == Unless(d, "STOPPING", "STOP")
  <2>1. x \in {"STOPPING", "STOP"}
    BY <1>1, UnlessType
  <2>2. Stop(d, o) = GoTo(d, o, x)
    BY <1>2 DEF Stop
  <2> HIDE DEF x
  <2> QED
    BY <1>1, <1>2, <2>1, <2>2, GoToType
<1>3. CASE o.cur = "STOPPING"
  BY <1>1, <1>3, GoToType DEF Stop
<1>4. CASE o.cur \notin {"PAUSING", "PAUSE", "UNPAUSING", "STARTING", "RUN",
                         "STOPPING"}
  BY <1>4 DEF Stop
<1> QED
  BY <1>2, <1>3, <1>4

(* to_run_state ends in RUN, at whichever step it is asked to resume.      *)
LEMMA ToRunStateType ==
    ASSUME NEW d, IsDescribed(d), NEW o, IsOperation(d, o), NEW k
    PROVE  IsOperation(d, ToRunState(d, o, k)) /\ ToRunState(d, o, k).cur = "RUN"
<1> DEFINE at == ResumeStep(o, k)
           run == InitState(d["RUN"], Load(RunState(o)), at)
           r == IF at = o.run_step THEN AddDxStepTime(run) ELSE run
           b == [o EXCEPT !.cur = "RUN"]
<1>1. "RUN" \in StateIdx
  BY DEF StateIdx
<1>2. RunState(o) \in StateType(d["RUN"])
  BY <1>1, PartsType DEF RunState
<1>3. run \in StateType(d["RUN"])
  BY <1>1, <1>2, SaveLoadType, InitStateType DEF IsDescribed
<1> HIDE DEF run
<1>4. r \in StateType(d["RUN"])
  BY <1>1, <1>3, SaveLoadType DEF IsDescribed
<1>5. ToRunState(d, o, k) = [b EXCEPT !.st["RUN"] = r]
  BY DEF ToRunState, run
<1> HIDE DEF at, r
<1>6. IsOperation(d, b) /\ b.cur = "RUN"
  BY <1>1, WithPartsType
<1> HIDE DEF b
<1> QED
  BY <1>1, <1>4, <1>5, <1>6, WithStateType

(* start(), from any state.                                                *)
LEMMA StartType ==
    ASSUME NEW d, IsDescribed(d), NEW o, IsOperation(d, o), NEW k
    PROVE  /\ IsOperation(d, Start(d, o, k))
           /\ o.cur # "IDLE" => Start(d, o, k).cur # "IDLE"
<1>1. {"STARTING", "RUN", "UNPAUSING"} \subseteq StateIdx
  BY DEF StateIdx
<1>2. CASE o.cur = "IDLE"
  <2> DEFINE x == Unless(d, "STARTING", "RUN")
  <2>1. x \in {"STARTING", "RUN"}
    BY <1>1, UnlessType
  <2>2. Start(d, o, k) = GoTo(d, o, x)
    BY <1>2 DEF Start
  <2> HIDE DEF x
  <2> QED
    BY <1>1, <1>2, <2>1, <2>2, GoToType
<1>3. CASE o.cur = "STARTING"
  BY <1>1, <1>3, GoToType DEF Start
<1>4. CASE o.cur = "PAUSE"
  <2>1. CASE d["UNPAUSING"].empty
    <3>1. Start(d, o, k) = ToRunState(d, Leave(d, o), k)
      BY <1>4, <2>1 DEF Start
    <3> QED
      BY <3>1, LeaveType, ToRunStateType
  <2>2. CASE ~ d["UNPAUSING"].empty
    <3>1. Start(d, o, k) = GoTo(d, o, "UNPAUSING")
      BY <1>4, <2>2 DEF Start
    <3> QED
      BY <1>1, <3>1, GoToType
  <2> QED
    BY <2>1, <2>2
<1>5. CASE o.cur = "UNPAUSING"
  BY <1>5, ToRunStateType DEF Start
<1>6. CASE o.cur \notin {"IDLE", "STARTING", "PAUSE", "UNPAUSING"}
  BY <1>6 DEF Start
<1> QED
  BY <1>2, <1>3, <1>4, <1>5, <1>6

(* finalize() of an operation always ends in IDLE.                         *)
LEMMA FinalizeOperationType ==
    ASSUME NEW d, IsDescribed(d), NEW o, IsOperation(d, o)
    PROVE  /\ IsOperation(d, FinalizeOperation(d, o))
           /\ FinalizeOperation(d, o).cur = "IDLE"
<1>1. CASE o.cur = "IDLE"
  BY <1>1 DEF FinalizeOperation
<1>2. CASE o.cur # "IDLE"
  <2> DEFINE l == Leave(d, o)
             S == [x \in StateIdx |-> ResetEvalTime(l.st[x])]
  <2>1. IsOperation(d, l)
    BY LeaveType
  <2>2. \A x \in StateIdx : S[x] \in StateType(d[x])
    BY <2>1, PartsType, SaveLoadType DEF IsDescribed
  <2>3. FinalizeOperation(d, o) = [l EXCEPT !.cur = "IDLE", !.st = S]
    BY <1>2 DEF FinalizeOperation
  <2>4. S = [x \in StateIdx |-> S[x]]
    OBVIOUS
  <2> HIDE DEF l, S
  <2> DEFINE f == [l EXCEPT !.cur = "IDLE", !.st = S]
  <2>5. /\ f.cur = "IDLE" /\ f.st = S
        /\ f \in [cur: StateIdx, run_step: 0..d["RUN"].n, first: BOOLEAN,
                  failed: BOOLEAN, st: {S}]
    BY <2>1 DEF IsOperation, StateIdx
  <2> HIDE DEF f
  <2>6. IsOperation(d, f)
    BY <2>2, <2>4, <2>5 DEF IsOperation
  <2> QED
    BY <2>3, <2>5, <2>6 DEF f
<1> QED
  BY <1>1, <1>2

(* A function applied to the current state alone, as every step method and *)
(* evaluate() do, leaves current_state as it is.                           *)
LEMMA CurrentType ==
    ASSUME NEW d, NEW o, IsOperation(d, o), NEW s \in StateType(d[o.cur])
    PROVE  /\ IsOperation(d, [o EXCEPT !.st[o.cur] = s])
           /\ [o EXCEPT !.st[o.cur] = s].cur = o.cur
BY PartsType, WithStateType

(* evaluate() of the current state.                                        *)
LEMMA EvaluateCurrentType ==
    ASSUME NEW d, IsDescribed(d), NEW o, IsOperation(d, o),
           NEW in \in EvaluationInputs(d, o)
    PROVE  /\ IsOperation(d, EvaluateCurrent(d, o, in))
           /\ EvaluateCurrent(d, o, in).cur = o.cur
<1> DEFINE s == EvaluateState(d[o.cur], o.st[o.cur], in)
<1>1. s \in StateType(d[o.cur])
  BY PartsType, EvaluateStateType
     DEF IsDescribed, EvaluationInputs, Current
<1>2. EvaluateCurrent(d, o, in) = [o EXCEPT !.st[o.cur] = s]
  BY DEF EvaluateCurrent
<1> HIDE DEF s
<1> QED
  BY <1>1, <1>2, CurrentType

(* The step methods.                                                       *)
LEMMA StepMethodsType ==
    ASSUME NEW d, IsDescribed(d), NEW o, IsOperation(d, o),
           NEW k, NEW m, NEW ok,
           NEW p \in {OperationToStep(d, o, k), OperationToNextStep(d, o),
                      OperationTurnOffActiveStep(d, o),
                      OperationOnExtraStep(d, o, k, ok),
                      OperationOffExtraStep(d, o, k),
                      OperationSwitchActiveExtraStep(d, o, k, m)}
    PROVE  IsOperation(d, p) /\ p.cur = o.cur
<1> DEFINE c == d[o.cur]
           s == o.st[o.cur]
<1>1. Description(c) /\ s \in StateType(c)
  BY PartsType DEF IsDescribed
<1>2. /\ ToStep(c, s, k) \in StateType(c)
      /\ ToNextStep(c, s) \in StateType(c)
      /\ TurnOffActiveStep(c, s) \in StateType(c)
      /\ OnExtraStep(c, s, k, ok) \in StateType(c)
      /\ OffExtraStep(c, s, k) \in StateType(c)
      /\ SwitchActiveExtraStep(c, s, k, m) \in StateType(c)
  BY <1>1, ToStepType, ToNextStepType, TurnOffActiveStepType,
     OnExtraStepType, OffExtraStepType, SwitchActiveExtraStepType
<1>3. PICK r \in StateType(c) : p = [o EXCEPT !.st[o.cur] = r]
  BY <1>2
     DEF OperationToStep, OperationToNextStep, OperationTurnOffActiveStep,
         OperationOnExtraStep, OperationOffExtraStep,
         OperationSwitchActiveExtraStep
<1> QED
  BY <1>3, CurrentType

(* Time passes for every state of the operation.                           *)
LEMMA TickOperationType ==
    ASSUME NEW d, NEW o, IsOperation(d, o)
    PROVE  /\ IsOperation(d, TickOperation(d, o))
           /\ TickOperation(d, o).cur = o.cur
<1> DEFINE S == [x \in StateIdx |-> TickState(d[x], o.st[x])]
<1>1. \A x \in StateIdx : S[x] \in StateType(d[x])
  BY PartsType, TickStateType
<1>2. TickOperation(d, o) = [o EXCEPT !.st = S]
  BY DEF TickOperation
<1>3. S = [x \in StateIdx |-> S[x]]
  OBVIOUS
<1> HIDE DEF S
<1> QED
  BY <1>1, <1>2, <1>3 DEF IsOperation

(* An operation as constructed.                                            *)
LEMMA NewOperationType ==
    ASSUME NEW d, IsDescribed(d), NEW dur,
           \A x \in StateIdx : dur[x] \in [Steps(d[x]) -> Durations]
    PROVE  IsOperation(d, NewOperation(d, dur)) /\ NewOperation(d, dur).cur = "IDLE"
<1> DEFINE S == [x \in StateIdx |-> NewState(d[x], dur[x])]
           o == [cur |-> "IDLE", run_step |-> 0, first |-> TRUE,
                 failed |-> FALSE, st |-> S]
<1>1. \A x \in StateIdx : S[x] \in StateType(d[x])
  BY NewStateType DEF IsDescribed
<1>2. NewOperation(d, dur) = o
  BY DEF NewOperation
<1>3. S = [x \in StateIdx |-> S[x]]
  OBVIOUS
<1>4. 0 \in 0..d["RUN"].n /\ "IDLE" \in StateIdx
  BY StepNumbers DEF IsDescribed, StateIdx
<1> HIDE DEF S
<1>5. IsOperation(d, o)
  BY <1>1, <1>3, <1>4 DEF IsOperation
<1> QED
  BY <1>2, <1>5
=============================================================================
