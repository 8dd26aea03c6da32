------------------------------ MODULE StepProofs ------------------------------
(***************************************************************************)
(* Theorems about the steps and states of the operations of TechObject,    *)
(* for every number of operations, every description of them and every     *)
(* environment: nothing is left running, the active step runs once it is   *)
(* evaluated, pausing and resuming gives an operation back what it did,    *)
(* nothing disturbs what a paused operation will resume with, a failed     *)
(* automatic start is not repeated, the operations keep the promise of     *)
(* OperationLifecycle, and the restrictions shown are those in force.      *)
(*                                                                         *)
(* First come the functions of OperationState and Operation: what they do  *)
(* to the steps that run and to their clocks.  Then every step of the      *)
(* object is reduced to at most one evaluation and one call of every       *)
(* operation (NextOperation), from which the theorems follow.              *)
(***************************************************************************)
EXTENDS TechObjectProofs

-----------------------------------------------------------------------------
(* The state of an operation.                                              *)

(* From s to r no clock moves but that of a step whose clock is kept.      *)
SameClocks(c, s, r) ==
    /\ r.dur = s.dur
    /\ \A j \in Steps(c) : r.time[j] = s.time[j] \/ j \in Limited(c, s)

(* A step whose clock is not kept has run "for ever" since the start.      *)
Clocked(c, s) == \A j \in Steps(c) : j \notin Limited(c, s) => s.time[j] = MaxTick

(* The active step runs, unless it is about to be left.                    *)
ActiveRuns(s) == s.step > 0 => TimeOver(s) \/ s.step \in s.live

(* The active step is begun, unless its duration is 0.                     *)
ActiveBegun(s) == s.step > 0 => s.dur[s.step] = 0 \/ s.step \in s.live

(* Such a step runs or is about to be left.                                *)
LEMMA BegunRuns ==
    ASSUME NEW s, ActiveBegun(s)
    PROVE  ActiveRuns(s)
BY DEF ActiveBegun, ActiveRuns, TimeOver, NoTime

(* Clocks that move twice.                                                 *)
LEMMA SameClocksTransitive ==
    ASSUME NEW c, NEW s, NEW r, NEW q, SameClocks(c, s, r), SameClocks(c, r, q)
    PROVE  SameClocks(c, s, q)
BY DEF SameClocks, Limited

(* Clocked is about duration and time only.                                *)
LEMMA SameClocksClocked ==
    ASSUME NEW c, NEW s, NEW r, SameClocks(c, s, r), Clocked(c, s)
    PROVE  Clocked(c, r)
BY DEF SameClocks, Clocked, Limited

(* step::init, step::evaluate and step::finalize of the steps K.           *)
LEMMA InitStepsEffect ==
    ASSUME NEW c, NEW s \in StateType(c), NEW K
    PROVE  LET r == InitSteps(c, s, K)
           IN  /\ r.live = s.live \cup K
               /\ r.step = s.step /\ r.extra = s.extra /\ r.dur = s.dur
               /\ r.saved = s.saved /\ r.dx = s.dx /\ r.dxstep = s.dxstep
               /\ \A j \in Steps(c) :
                     r.time[j] = IF j \in K \cap Limited(c, s) THEN 0 ELSE s.time[j]
               /\ SameClocks(c, s, r)
BY DEF InitSteps, StateType, SameClocks

(* EvaluateSteps: the steps live on, nothing else changes but times.       *)
LEMMA EvaluateStepsEffect ==
    ASSUME NEW c, NEW s \in StateType(c), NEW K
    PROVE  LET r == EvaluateSteps(s, K)
           IN  /\ r.live = s.live \cup K
               /\ r.step = s.step /\ r.extra = s.extra /\ r.dur = s.dur
               /\ r.saved = s.saved /\ r.dx = s.dx /\ r.dxstep = s.dxstep
               /\ r.time = s.time
               /\ SameClocks(c, s, r)
BY DEF EvaluateSteps, StateType, SameClocks

(* FinalizeSteps: the steps are finalized, nothing else changes.           *)
LEMMA FinalizeStepsEffect ==
    ASSUME NEW c, NEW s \in StateType(c), NEW K
    PROVE  LET r == FinalizeSteps(c, s, K)
           IN  /\ r.live = s.live \ K
               /\ r.step = s.step /\ r.extra = s.extra /\ r.dur = s.dur
               /\ r.saved = s.saved /\ r.dxstep = s.dxstep
               /\ r.time = s.time
               /\ \A j \in Steps(c) : r.dx[j] = IF j \in K THEN 0 ELSE s.dx[j]
               /\ SameClocks(c, s, r)
BY DEF FinalizeSteps, StateType, SameClocks

(* to_step: the step that was active is finalised, the new one is begun,   *)
(* unless its duration is 0.                                               *)
LEMMA ToStepEffect ==
    ASSUME NEW c, Description(c), NEW s \in StateType(c), NEW k \in Steps(c)
    PROVE  LET r == ToStep(c, s, k)
           IN  /\ r.step = k /\ r.extra = s.extra /\ r.dur = s.dur
               /\ r.saved = s.saved /\ r.dxstep = s.dxstep
               /\ r.live \subseteq (s.live \ ({s.step} \ {0})) \cup {k}
               /\ s.dur[k] = 0 \/ k \in r.live
               /\ \A j \in Steps(c) :
                     /\ r.dx[j] = IF j = s.step THEN 0 ELSE s.dx[j]
                     /\ r.time[j] = IF /\ j = k /\ s.dur[k] # 0
                                       /\ k \in Limited(c, s)
                                    THEN 0 ELSE s.time[j]
               /\ SameClocks(c, s, r)
<1> DEFINE f == FinalizeSteps(c, s, {s.step} \ {0})
           m == IF Debug THEN c.max[k] ELSE f.amax
           b == [f EXCEPT !.step = k, !.amax = m]
           i == InitSteps(c, b, {k})
           r == ToStep(c, s, k)
<1>1. f \in StateType(c) /\ \A j \in Steps(c) : j # 0
  BY FinalizeStepsType DEF Steps
<1>2. /\ f.live = s.live \ ({s.step} \ {0})
      /\ f.extra = s.extra /\ f.dur = s.dur /\ f.saved = s.saved
      /\ f.dxstep = s.dxstep /\ f.time = s.time
      /\ \A j \in Steps(c) : f.dx[j] = IF j = s.step THEN 0 ELSE s.dx[j]
  BY <1>1, FinalizeStepsEffect
<1>3. k \in 0..c.n /\ m \in Nat
  BY <1>1, StepNumbers, DebugAssumption DEF StateType
<1>4. r = Begun(c, b, k)
  BY DEF ToStep
<1> HIDE DEF f, m
<1>5. /\ b \in StateType(c) /\ b.step = k
      /\ b.live = f.live /\ b.extra = f.extra /\ b.dur = f.dur
      /\ b.saved = f.saved /\ b.dxstep = f.dxstep /\ b.time = f.time
      /\ b.dx = f.dx
  BY <1>1, <1>3 DEF StateType
<1> HIDE DEF b
<1>6. Limited(c, b) = Limited(c, s)
  BY <1>2, <1>5 DEF Limited
<1>7. CASE b.dur[k] = 0
  <2>1. r = b
    BY <1>4, <1>7 DEF Begun
  <2> HIDE DEF r
  <2> QED
    BY <1>2, <1>5, <1>7, <2>1 DEF SameClocks, r
<1>8. CASE b.dur[k] # 0
  <2>1. r = EvaluateSteps(i, {k})
    BY <1>4, <1>8 DEF Begun
  <2>2. i \in StateType(c)
    BY <1>5, InitStepsType
  <2>3. /\ i.live = b.live \cup {k} /\ i.step = k /\ i.extra = b.extra
        /\ i.dur = b.dur /\ i.saved = b.saved /\ i.dx = b.dx
        /\ i.dxstep = b.dxstep
        /\ \A j \in Steps(c) : i.time[j] = IF j \in {k} \cap Limited(c, b) THEN 0
                                           ELSE b.time[j]
    BY <1>5, InitStepsEffect
  <2> HIDE DEF i, r
  <2>4. /\ r.live = i.live \cup {k} /\ r.step = k /\ r.extra = i.extra
        /\ r.dur = i.dur /\ r.saved = i.saved /\ r.dx = i.dx
        /\ r.dxstep = i.dxstep /\ r.time = i.time
    BY <2>1, <2>2, <2>3, EvaluateStepsEffect
  <2> QED
    BY <1>2, <1>5, <1>6, <1>8, <2>3, <2>4 DEF SameClocks, r
<1> QED
  BY <1>7, <1>8

(* Only what is active or listed runs after to_step if it did before.      *)
LEMMA ToStepAccounted ==
    ASSUME NEW c, Description(c), NEW s \in StateType(c), NEW k
    PROVE  /\ SameClocks(c, s, ToStep(c, s, k))
           /\ Accounted(c, s) => Accounted(c, ToStep(c, s, k))
           /\ k \in Steps(c) => ActiveBegun(ToStep(c, s, k))
<1>1. CASE k \notin Steps(c)
  BY <1>1 DEF ToStep, SameClocks
<1>2. CASE k \in Steps(c)
  <2> DEFINE r == ToStep(c, s, k)
  <2>1. /\ r.step = k /\ r.extra = s.extra /\ r.dur = s.dur
        /\ r.live \subseteq (s.live \ ({s.step} \ {0})) \cup {k}
        /\ s.dur[k] = 0 \/ k \in r.live
        /\ SameClocks(c, s, r)
    BY <1>2, ToStepEffect
  <2> HIDE DEF r
  <2>2. k > 0
    BY <1>2, StepNumbers DEF Steps
  <2>3. Accounted(c, s) => Accounted(c, r)
    BY <2>1 DEF Accounted, Listed
  <2>4. ActiveBegun(r)
    BY <2>1, <2>2 DEF ActiveBegun
  <2> QED
    BY <2>1, <2>3, <2>4 DEF r
<1> QED
  BY <1>1, <1>2

(* to_next_step and turn_off_active_step.                                  *)
LEMMA ToNextStepAccounted ==
    ASSUME NEW c, Description(c), NEW s \in StateType(c)
    PROVE  /\ SameClocks(c, s, ToNextStep(c, s))
           /\ Accounted(c, s) => Accounted(c, ToNextStep(c, s))
BY ToStepAccounted DEF ToNextStep, SameClocks

(* Turning the active step off keeps the account of the steps.             *)
LEMMA TurnOffActiveStepAccounted ==
    ASSUME NEW c, Description(c), NEW s \in StateType(c)
    PROVE  /\ SameClocks(c, s, TurnOffActiveStep(c, s))
           /\ Accounted(c, s) => Accounted(c, TurnOffActiveStep(c, s))
<1> DEFINE f == FinalizeSteps(c, s, {s.step} \ {0})
           r == TurnOffActiveStep(c, s)
<1>1. /\ f \in StateType(c) /\ f.live = s.live \ ({s.step} \ {0})
      /\ f.extra = s.extra /\ SameClocks(c, s, f)
  BY FinalizeStepsType, FinalizeStepsEffect
<1>2. r = [f EXCEPT !.step = 0]
  BY DEF TurnOffActiveStep
<1> HIDE DEF f, r
<1>3. /\ r.step = 0 /\ r.live = f.live /\ r.extra = f.extra
      /\ r.dur = f.dur /\ r.time = f.time
  BY <1>1, <1>2 DEF StateType
<1>4. SameClocks(c, s, r)
  BY <1>1, <1>3 DEF SameClocks
<1>5. Accounted(c, s) => Accounted(c, r)
  BY <1>1, <1>3 DEF Accounted, Listed
<1> QED
  BY <1>4, <1>5 DEF r

(* init of a state: the active step, if there is one, and the steps listed *)
(* as extra are begun, and no other; so if nothing ran before, nothing     *)
(* else runs now.  At step k of the state the clock of k begins anew, if   *)
(* it is kept.                                                             *)
LEMMA InitStateEffect ==
    ASSUME NEW c, Description(c), NEW s \in StateType(c), NEW k
    PROVE  LET r == InitState(c, s, k)
           IN  /\ s.live = {} => Accounted(c, r)
               /\ ActiveBegun(r)
               /\ SameClocks(c, s, r)
               /\ r.extra = s.extra /\ r.dxstep = s.dxstep /\ r.dur = s.dur
               /\ k \in Steps(c) =>
                     /\ r.step = k
                     /\ s.dur[k] # 0 /\ k \in Limited(c, s) => r.time[k] = 0
                     /\ k \notin Limited(c, s) => r.time[k] = s.time[k]
                     /\ r.dx = s.dx
<1> DEFINE run == [s EXCEPT !.live = @ \cup {0}, !.step = 0]
           t == ToStep(c, run, k)
           q == InitSteps(c, t, Listed(c, t))
           r == InitState(c, s, k)
<1>1. r = IF c.n = 0 THEN run ELSE q
  BY DEF InitState
<1>2. run \in StateType(c)
  BY StepNumbers DEF StateType
<1>3. /\ run.live = s.live \cup {0} /\ run.step = 0 /\ run.extra = s.extra
      /\ run.dur = s.dur /\ run.time = s.time /\ run.dx = s.dx
      /\ run.dxstep = s.dxstep
  BY DEF StateType
<1>4. /\ (s.live = {} => Accounted(c, run)) /\ ActiveBegun(run) /\ SameClocks(c, s, run)
      /\ Limited(c, run) = Limited(c, s)
  BY <1>3 DEF Accounted, ActiveBegun, SameClocks, Limited
<1> HIDE DEF run
<1>5. /\ t \in StateType(c) /\ t.extra = s.extra
      /\ t.step = IF k \in Steps(c) THEN k ELSE 0
      /\ (s.live = {} => Accounted(c, t)) /\ SameClocks(c, run, t) /\ ActiveBegun(t)
  <2>1. /\ t \in StateType(c) /\ t.extra = s.extra
        /\ t.step = IF k \in Steps(c) THEN k ELSE 0
        /\ (s.live = {} => Accounted(c, t)) /\ SameClocks(c, run, t)
        /\ k \in Steps(c) => ActiveBegun(t)
    BY <1>2, <1>3, <1>4, ToStepType, ToStepAccounted
  <2> HIDE DEF t
  <2> QED
    BY <2>1 DEF ActiveBegun
<1>6. t.dxstep = s.dxstep /\ t.dur = s.dur
  <2>1. CASE k \in Steps(c)
    BY <1>2, <1>3, <2>1, ToStepEffect
  <2>2. CASE k \notin Steps(c)
    BY <1>3, <2>2 DEF ToStep
  <2> QED
    BY <2>1, <2>2
<1>7. ASSUME k \in Steps(c)
      PROVE  /\ s.dur[k] # 0 /\ k \in Limited(c, s) => t.time[k] = 0
             /\ k \notin Limited(c, s) => t.time[k] = s.time[k]
             /\ t.dx = s.dx
  <2>1. \A j \in Steps(c) :
           /\ t.dx[j] = IF j = 0 THEN 0 ELSE s.dx[j]
           /\ t.time[j] = IF j = k /\ s.dur[k] # 0 /\ k \in Limited(c, s) THEN 0
                          ELSE s.time[j]
    BY <1>2, <1>3, <1>4, <1>7, ToStepEffect
  <2> HIDE DEF t
  <2>2. \A j \in Steps(c) : t.dx[j] = s.dx[j]
    BY <2>1 DEF Steps
  <2>3. t.dx = s.dx
    BY <1>5, <2>2 DEF StateType
  <2> QED
    BY <1>7, <2>1, <2>3
<1> HIDE DEF t
<1>8. /\ q.live = t.live \cup Listed(c, t) /\ q.step = t.step
      /\ q.extra = t.extra /\ q.dur = t.dur /\ q.dxstep = t.dxstep /\ q.dx = t.dx
      /\ \A j \in Steps(c) :
            q.time[j] = IF j \in Listed(c, t) \cap Limited(c, t) THEN 0
                        ELSE t.time[j]
      /\ SameClocks(c, t, q)
  BY <1>5, InitStepsEffect
<1>10. Limited(c, t) = Limited(c, s)
  BY <1>6 DEF Limited
<1> HIDE DEF q
<1>11. s.live = {} => Accounted(c, q)
  BY <1>5, <1>8 DEF Accounted, Listed
<1>12. ActiveBegun(q)
  <2>1. t.step > 0 => t.dur[t.step] = 0 \/ t.step \in t.live
    BY <1>5 DEF ActiveBegun
  <2> QED
    BY <1>8, <2>1 DEF ActiveBegun
<1>13. SameClocks(c, s, q)
  BY <1>4, <1>5, <1>8, SameClocksTransitive
<1>14. CASE c.n = 0
  <2>1. k \notin Steps(c)
    BY <1>14 DEF Steps
  <2> QED
    BY <1>1, <1>3, <1>4, <1>14, <2>1
<1>15. CASE c.n # 0
  <2>1. r = q
    BY <1>1, <1>15
  <2> HIDE DEF r
  <2>2. ASSUME k \in Steps(c)
        PROVE  /\ q.step = k /\ q.dx = s.dx
               /\ s.dur[k] # 0 /\ k \in Limited(c, s) => q.time[k] = 0
               /\ k \notin Limited(c, s) => q.time[k] = s.time[k]
    BY <1>5, <1>7, <1>8, <1>10, <2>2
  <2> QED
    BY <1>5, <1>6, <1>8, <1>11, <1>12, <1>13, <2>1, <2>2 DEF r
<1> QED
  BY <1>14, <1>15

(* finalize of a state leaves it with neither an active nor an extra step, *)
(* and with nothing that runs if it was accounted for.                     *)
LEMMA FinalizeStateEffect ==
    ASSUME NEW c, Description(c), NEW s \in StateType(c)
    PROVE  LET r == FinalizeState(c, s)
           IN  /\ r.step = 0 /\ Listed(c, r) = {}
               /\ Accounted(c, s) => Quiet(c, r)
               /\ SameClocks(c, s, r)
               /\ r.saved = s.saved /\ r.dur = s.dur /\ r.time = s.time
               /\ s.step > 0 =>
                     r.dxstep = EvalTime(s, s.step) /\ r.dx[s.step] = 0
<1> DEFINE all == {0, s.step} \cup Listed(c, s)
           f == FinalizeSteps(c, s, all)
           x == IF s.step > 0 THEN EvalTime(s, s.step) ELSE f.dxstep
           r == FinalizeState(c, s)
<1>1. /\ f \in StateType(c) /\ f.live = s.live \ all
      /\ f.dur = s.dur /\ f.saved = s.saved /\ f.time = s.time
      /\ \A j \in Steps(c) : f.dx[j] = IF j \in all THEN 0 ELSE s.dx[j]
      /\ SameClocks(c, s, f)
  BY FinalizeStepsType, FinalizeStepsEffect
<1>2. r = [f EXCEPT !.dxstep = x, !.step = 0, !.extra = NoExtra(c)]
  BY DEF FinalizeState
<1>3. s.step > 0 => s.step \in Steps(c) /\ s.step \in all
  BY StepNumbers DEF StateType, Steps
<1> HIDE DEF f, x, r
<1>4. /\ r.step = 0 /\ r.extra = NoExtra(c) /\ r.dxstep = x
      /\ r.live = f.live /\ r.saved = f.saved /\ r.dur = f.dur
      /\ r.time = f.time /\ r.dx = f.dx
  BY <1>1, <1>2 DEF StateType
<1>5. Listed(c, r) = {}
  BY <1>4 DEF Listed, NoExtra
<1>6. Accounted(c, s) => Quiet(c, r)
  BY <1>1, <1>4, <1>5 DEF Accounted, Quiet
<1>7. SameClocks(c, s, r)
  BY <1>1, <1>4 DEF SameClocks
<1>8. s.step > 0 => r.dxstep = EvalTime(s, s.step) /\ r.dx[s.step] = 0
  BY <1>1, <1>3, <1>4 DEF x
<1> QED
  BY <1>1, <1>4, <1>5, <1>6, <1>7, <1>8 DEF r

(* on_extra_step.                                                          *)
LEMMA OnExtraStepAccounted ==
    ASSUME NEW c, Description(c), NEW s \in StateType(c), NEW k, NEW ok
    PROVE  /\ SameClocks(c, s, OnExtraStep(c, s, k, ok))
           /\ Accounted(c, s) => Accounted(c, OnExtraStep(c, s, k, ok))
<1> DEFINE K == IF ok THEN {k} ELSE {}
           i == InitSteps(c, s, K)
           r == OnExtraStep(c, s, k, ok)
<1>1. CASE k \notin Steps(c) \/ k = s.step \/ s.extra[k] > 0
  BY <1>1 DEF OnExtraStep, SameClocks
<1>2. CASE ~ (k \notin Steps(c) \/ k = s.step \/ s.extra[k] > 0)
  <2>1. /\ i \in StateType(c) /\ i.live = s.live \cup K /\ i.step = s.step
        /\ i.extra = s.extra /\ SameClocks(c, s, i)
    BY <1>2, InitStepsType, InitStepsEffect
  <2>2. r = [i EXCEPT !.extra[k] = 1]
    BY <1>2 DEF OnExtraStep
  <2> HIDE DEF i, r
  <2>3. /\ r.live = i.live /\ r.step = i.step /\ r.dur = i.dur
        /\ r.time = i.time /\ r.extra = [s.extra EXCEPT ![k] = 1]
    BY <2>1, <2>2 DEF StateType
  <2>4. SameClocks(c, s, r)
    BY <2>1, <2>3 DEF SameClocks
  <2>5. Listed(c, s) \cup {k} \subseteq Listed(c, r)
    BY <1>2, <2>3 DEF Listed, StateType
  <2>6. Accounted(c, s) => Accounted(c, r)
    BY <2>1, <2>3, <2>5 DEF Accounted
  <2> QED
    BY <2>4, <2>6 DEF r
<1> QED
  BY <1>1, <1>2

(* off_extra_step.                                                         *)
LEMMA OffExtraStepAccounted ==
    ASSUME NEW c, Description(c), NEW s \in StateType(c), NEW k
    PROVE  /\ SameClocks(c, s, OffExtraStep(c, s, k))
           /\ Accounted(c, s) => Accounted(c, OffExtraStep(c, s, k))
<1> DEFINE f == FinalizeSteps(c, s, {k})
           r == OffExtraStep(c, s, k)
<1>1. CASE k \notin Listed(c, s)
  BY <1>1 DEF OffExtraStep, SameClocks
<1>2. CASE k \in Listed(c, s)
  <2>1. /\ f \in StateType(c) /\ f.live = s.live \ {k} /\ f.step = s.step
        /\ f.extra = s.extra /\ SameClocks(c, s, f)
    BY FinalizeStepsType, FinalizeStepsEffect
  <2>2. r = [f EXCEPT !.extra[k] = @ - 1]
    BY <1>2 DEF OffExtraStep
  <2> HIDE DEF f, r
  <2>3. /\ r.live = f.live /\ r.step = f.step /\ r.dur = f.dur
        /\ r.time = f.time /\ r.extra = [s.extra EXCEPT ![k] = @ - 1]
    BY <2>1, <2>2 DEF StateType
  <2>4. SameClocks(c, s, r)
    BY <2>1, <2>3 DEF SameClocks
  <2>5. Listed(c, s) \ {k} \subseteq Listed(c, r)
    BY <2>3 DEF Listed, StateType
  <2>6. Accounted(c, s) => Accounted(c, r)
    BY <2>1, <2>3, <2>5 DEF Accounted
  <2> QED
    BY <2>4, <2>6 DEF r
<1> QED
  BY <1>1, <1>2

(* switch_active_extra_step.                                               *)
LEMMA SwitchActiveExtraStepAccounted ==
    ASSUME NEW c, Description(c), NEW s \in StateType(c), NEW off, NEW on
    PROVE  /\ SameClocks(c, s, SwitchActiveExtraStep(c, s, off, on))
           /\ Accounted(c, s) => Accounted(c, SwitchActiveExtraStep(c, s, off, on))
<1> DEFINE f == FinalizeSteps(c, s, {off})
           i == InitSteps(c, f, {on})
           x == [k \in Steps(c) |-> s.extra[k] + (IF k = on THEN 1 ELSE 0)
                                             - (IF k = off THEN 1 ELSE 0)]
           r == SwitchActiveExtraStep(c, s, off, on)
<1>1. CASE on \notin Steps(c) \/ on = s.step \/ off \notin Listed(c, s)
  BY <1>1 DEF SwitchActiveExtraStep, SameClocks
<1>2. CASE ~ (on \notin Steps(c) \/ on = s.step \/ off \notin Listed(c, s))
  <2>1. /\ f \in StateType(c) /\ f.live = s.live \ {off} /\ f.step = s.step
        /\ SameClocks(c, s, f)
    BY FinalizeStepsType, FinalizeStepsEffect
  <2> HIDE DEF f
  <2>2. /\ i \in StateType(c) /\ i.live = f.live \cup {on} /\ i.step = f.step
        /\ SameClocks(c, f, i)
    BY <1>2, <2>1, InitStepsType, InitStepsEffect
  <2>3. r = [i EXCEPT !.extra = x]
    BY <1>2 DEF SwitchActiveExtraStep, f
  <2> HIDE DEF i, r
  <2>4. /\ r.live = i.live /\ r.step = i.step /\ r.dur = i.dur
        /\ r.time = i.time /\ r.extra = x
    BY <2>2, <2>3 DEF StateType
  <2>5. SameClocks(c, s, r)
    <3>1. SameClocks(c, s, i)
      BY <2>1, <2>2, SameClocksTransitive
    <3> QED
      BY <2>4, <3>1 DEF SameClocks
  <2>6. (Listed(c, s) \ {off}) \cup {on} \subseteq Listed(c, r)
    BY <1>2, <2>4 DEF Listed, StateType
  <2>7. Accounted(c, s) => Accounted(c, r)
    BY <2>1, <2>2, <2>4, <2>6 DEF Accounted
  <2> QED
    BY <2>5, <2>7 DEF r
<1> QED
  BY <1>1, <1>2

(* The two loops of evaluate() over the extra steps: what is dropped does  *)
(* not run, what is enabled is listed.                                     *)
LEMMA ExtraPassAccounted ==
    ASSUME NEW c, Description(c), NEW s \in StateType(c), NEW in \in Inputs(c, s)
    PROVE  /\ SameClocks(c, s, ExtraPass(c, s, in))
           /\ Accounted(c, s) => Accounted(c, ExtraPass(c, s, in))
<1>0. /\ in.en \in SUBSET c.signal /\ in.ok \in SUBSET c.signal
      /\ in.left \in [c.turnoff -> 0..(MaxCopies - 1)]
      /\ c.turnoff \in SUBSET c.signal
      /\ c.signal \in SUBSET Steps(c)
  BY DEF Inputs, Description
<1> DEFINE drop == Droppable(c, s, in.en) \ in.skip
           K == {0} \cup (Listed(c, s) \ in.skip)
           run == EvaluateSteps(s, K)
           f == FinalizeSteps(c, run, drop)
           x == [k \in Steps(c) |-> IF k \in drop THEN in.left[k]
                                                 ELSE s.extra[k]]
           p == DropExtraSteps(c, s, in)
           add == {k \in in.en : k # p.step /\ p.extra[k] = 0}
           i == InitSteps(c, p, add \cap in.ok)
           y == [k \in Steps(c) |-> IF k \in add THEN 1 ELSE p.extra[k]]
           r == ExtraPass(c, s, in)
<1>1. K \in SUBSET (0..c.n)
  BY StepNumbers DEF Listed
<1>2. /\ run \in StateType(c) /\ run.live = s.live \cup K /\ run.step = s.step
      /\ SameClocks(c, s, run)
  BY <1>1, EvaluateStepsType, EvaluateStepsEffect
<1> HIDE DEF run
<1>3. /\ f \in StateType(c) /\ f.live = run.live \ drop /\ f.step = s.step
      /\ SameClocks(c, run, f)
  BY <1>2, FinalizeStepsType, FinalizeStepsEffect
<1>4. x \in [Steps(c) -> Nat]
  <2>1. \A k \in drop : in.left[k] \in Nat
    BY <1>0, MaxCopiesAssumption DEF Droppable
  <2> HIDE DEF drop
  <2> QED
    BY <2>1 DEF StateType
<1>5. p = [f EXCEPT !.extra = x]
  BY DEF DropExtraSteps, run
<1> HIDE DEF f, p
<1>6. /\ p \in StateType(c) /\ p.extra = x /\ p.live = f.live /\ p.step = s.step
      /\ p.dur = f.dur /\ p.time = f.time
  BY <1>3, <1>4, <1>5, ExtraType DEF StateType
<1>7. SameClocks(c, s, p)
  <2>1. SameClocks(c, s, f)
    BY <1>2, <1>3, SameClocksTransitive
  <2> QED
    BY <1>6, <2>1 DEF SameClocks
<1>8. Accounted(c, s) => Accounted(c, p)
  <2> SUFFICES ASSUME Accounted(c, s), NEW k \in p.live, k \notin {0, p.step}
               PROVE  k \in Listed(c, p)
    BY DEF Accounted
  <2>1. k \in Listed(c, s) /\ k \notin drop
    BY <1>2, <1>3, <1>6 DEF Accounted
  <2> HIDE DEF drop
  <2> QED
    BY <1>6, <2>1 DEF Listed
<1> HIDE DEF x, drop
<1>9. add \cap in.ok \in SUBSET Steps(c) /\ add \subseteq Steps(c)
  BY <1>0
<1>10. /\ i \in StateType(c) /\ i.live = p.live \cup (add \cap in.ok)
       /\ i.step = s.step /\ i.extra = p.extra /\ SameClocks(c, p, i)
  BY <1>6, <1>9, InitStepsType, InitStepsEffect
<1>11. r = [i EXCEPT !.extra = y]
  BY DEF ExtraPass, EnableExtraSteps, p
<1> HIDE DEF i, r, add
<1>12. /\ r.extra = y /\ r.live = i.live /\ r.step = s.step
       /\ r.dur = i.dur /\ r.time = i.time
  BY <1>10, <1>11 DEF StateType
<1>13. SameClocks(c, s, r)
  <2>1. SameClocks(c, s, i)
    BY <1>7, <1>10, SameClocksTransitive
  <2> QED
    BY <1>12, <2>1 DEF SameClocks
<1>14. Listed(c, p) \cup add \subseteq Listed(c, r)
  BY <1>9, <1>12 DEF Listed
<1>15. Accounted(c, s) => Accounted(c, r)
  BY <1>6, <1>8, <1>10, <1>12, <1>14 DEF Accounted
<1> QED
  BY <1>13, <1>15 DEF r

(* evaluate() of a state: afterwards its active step runs.                 *)
LEMMA EvaluateStateEffect ==
    ASSUME NEW c, Description(c), NEW s \in StateType(c), NEW in \in Inputs(c, s)
    PROVE  LET r == EvaluateState(c, s, in)
           IN  /\ SameClocks(c, s, r)
               /\ Accounted(c, s) => Accounted(c, r)
               /\ ActiveRuns(r)
<1> DEFINE p == ExtraPass(c, s, in)
           t == [p EXCEPT !.amax = c.max[p.step]]
           j == ToStep(c, t, in.jump)
           e == EvaluateSteps(j, {j.step})
           r == EvaluateState(c, s, in)
<1>1. p \in StateType(c) /\ SameClocks(c, s, p) /\ (Accounted(c, s) => Accounted(c, p))
  BY ExtraPassType, ExtraPassAccounted
<1>2. r = IF p.step = 0 THEN p
          ELSE IF TimeOver(p) THEN ToStep(c, t, c.next[p.step]) ELSE e
  BY DEF EvaluateState, ActiveStepPass
<1> HIDE DEF p
<1>3. CASE p.step = 0
  BY <1>1, <1>2, <1>3 DEF ActiveRuns
<1>4. CASE p.step # 0
  <2>1. p.step \in Steps(c)
    BY <1>1, <1>4, StepNumbers DEF StateType, Steps
  <2>2. /\ t \in StateType(c) /\ t.live = p.live /\ t.step = p.step
        /\ t.extra = p.extra /\ t.dur = p.dur /\ t.time = p.time /\ t.dx = p.dx
    BY <1>1, <2>1, StepNumbers DEF StateType
  <2> HIDE DEF t
  <2>3. /\ SameClocks(c, p, t) /\ (Accounted(c, p) => Accounted(c, t))
        /\ TimeOver(p) => TimeOver(t)
    BY <2>2 DEF SameClocks, Accounted, Listed, TimeOver, EvalTime
  <2>4. ASSUME NEW k
        PROVE  /\ SameClocks(c, s, ToStep(c, t, k))
               /\ Accounted(c, s) => Accounted(c, ToStep(c, t, k))
    BY <1>1, <2>2, <2>3, ToStepAccounted, SameClocksTransitive
  <2>5. CASE TimeOver(p)
    <3> DEFINE k == c.next[p.step]
    <3>1. r = ToStep(c, t, k)
      BY <1>2, <1>4, <2>5
    <3>2. ActiveRuns(ToStep(c, t, k))
      <4>1. CASE k \in Steps(c)
        BY <2>2, <4>1, ToStepAccounted, BegunRuns
      <4>2. CASE k \notin Steps(c)
        BY <2>3, <2>5, <4>2 DEF ToStep, ActiveRuns
      <4> QED
        BY <4>1, <4>2
    <3> HIDE DEF k, r
    <3> QED
      BY <2>4, <3>1, <3>2 DEF r
  <2>6. CASE ~ TimeOver(p)
    <3>1. j \in StateType(c) /\ SameClocks(c, s, j)
          /\ (Accounted(c, s) => Accounted(c, j))
      BY <2>2, <2>4, ToStepType
    <3>2. r = e
      BY <1>2, <1>4, <2>6
    <3> HIDE DEF j, r
    <3>3. /\ e.live = j.live \cup {j.step} /\ e.step = j.step
          /\ e.extra = j.extra /\ SameClocks(c, j, e)
      BY <3>1, EvaluateStepsEffect
    <3> HIDE DEF e
    <3>4. Accounted(c, j) => Accounted(c, e)
      BY <3>3 DEF Accounted, Listed
    <3>5. SameClocks(c, s, e)
      BY <3>1, <3>3, SameClocksTransitive
    <3>6. ActiveRuns(e)
      BY <3>3 DEF ActiveRuns
    <3> QED
      BY <3>1, <3>2, <3>4, <3>5, <3>6 DEF r
  <2> QED
    BY <2>5, <2>6
<1> QED
  BY <1>3, <1>4

(* Time passes; load, save, reset_eval_time and add_dx_step_time change    *)
(* neither what runs nor the clocks.                                       *)
LEMMA TickStateEffect ==
    ASSUME NEW c, NEW s \in StateType(c)
    PROVE  /\ Clocked(c, s) => Clocked(c, TickState(c, s))
           /\ Accounted(c, s) => Accounted(c, TickState(c, s))
           /\ Quiet(c, s) => Quiet(c, TickState(c, s))
<1> DEFINE T == [k \in Steps(c) |-> Saturate(s.time[k] + 1)]
           r == TickState(c, s)
<1>1. r = [s EXCEPT !.time = T]
  BY DEF TickState
<1>2. \A k \in Steps(c) : s.time[k] = MaxTick => T[k] = MaxTick
  BY MaxTickAssumption DEF Saturate
<1> HIDE DEF T, r
<1>3. /\ r.time = T /\ r.dur = s.dur /\ r.live = s.live /\ r.step = s.step
      /\ r.extra = s.extra
  BY <1>1 DEF StateType
<1>4. /\ Clocked(c, s) => Clocked(c, r)
      /\ Accounted(c, s) => Accounted(c, r)
      /\ Quiet(c, s) => Quiet(c, r)
  BY <1>2, <1>3 DEF Clocked, Limited, Accounted, Quiet, Listed
<1> QED
  BY <1>4 DEF r

(* Saving and loading of the step leave what runs as it is.                *)
LEMMA SaveLoadEffect ==
    ASSUME NEW c, NEW s \in StateType(c),
           NEW r \in {Save(s), Load(s), ResetEvalTime(s), AddDxStepTime(s)}
    PROVE  /\ r.live = s.live /\ r.step = s.step
           /\ r.dur = s.dur /\ r.time = s.time
           /\ SameClocks(c, s, r)
<1>1. CASE r = Save(s) \/ r = Load(s) \/ r = ResetEvalTime(s)
  BY <1>1 DEF Save, Load, ResetEvalTime, StateType, SameClocks
<1>2. CASE r = AddDxStepTime(s)
  BY <1>2 DEF AddDxStepTime, StateType, SameClocks
<1> QED
  BY <1>1, <1>2

-----------------------------------------------------------------------------
(* The operation.                                                          *)

AllClocked(d, o) == \A x \in StateIdx : Clocked(d[x], o.st[x])

(* Nothing runs in any state, UNPAUSING apart.                             *)
AtRest(d, o) == \A x \in StateIdx \ {"UNPAUSING"} : Quiet(d[x], o.st[x])

(* Only what the current state accounts for runs.                          *)
InOrder(d, o) ==
    /\ \A x \in StateIdx \ {"UNPAUSING"} :
          IF x = o.cur THEN Accounted(d[x], o.st[x]) ELSE Quiet(d[x], o.st[x])
    /\ AllClocked(d, o)

(* The active step of the current state runs.                              *)
CurrentRuns(o) == ActiveRuns(o.st[o.cur])

(* The states of an operation one of whose states is replaced.             *)
LEMMA WithStateEffect ==
    ASSUME NEW d, NEW o, IsOperation(d, o), NEW x \in StateIdx, NEW s
    PROVE  LET p == [o EXCEPT !.st[x] = s]
           IN  /\ p.cur = o.cur /\ p.run_step = o.run_step
               /\ p.first = o.first /\ p.failed = o.failed
               /\ p.st[x] = s
               /\ \A y \in StateIdx \ {x} : p.st[y] = o.st[y]
BY DEF IsOperation

(* A quiet state is one that only runs what it accounts for.               *)
LEMMA QuietAccounted ==
    ASSUME NEW c, NEW s, Quiet(c, s)
    PROVE  Accounted(c, s) /\ s.live = {} /\ ActiveRuns(s)
BY DEF Quiet, Accounted, ActiveRuns

(* Replacing the current state by one that is accounted for.               *)
LEMMA CurrentInOrder ==
    ASSUME NEW d, NEW o, IsOperation(d, o), InOrder(d, o), NEW s,
           SameClocks(d[o.cur], o.st[o.cur], s),
           Accounted(d[o.cur], o.st[o.cur]) => Accounted(d[o.cur], s)
    PROVE  InOrder(d, [o EXCEPT !.st[o.cur] = s])
<1> DEFINE p == [o EXCEPT !.st[o.cur] = s]
<1>1. o.cur \in StateIdx
  BY PartsType
<1>2. /\ p.cur = o.cur /\ p.st[o.cur] = s
      /\ \A y \in StateIdx \ {o.cur} : p.st[y] = o.st[y]
  BY <1>1, WithStateEffect
<1> HIDE DEF p
<1>3. Clocked(d[o.cur], s)
  BY <1>1, SameClocksClocked DEF InOrder, AllClocked
<1> SUFFICES InOrder(d, p)
  BY DEF p
<1> QED
  BY <1>2, <1>3 DEF InOrder, AllClocked

(* finalize() of the current state leaves an operation at rest.            *)
LEMMA LeaveEffect ==
    ASSUME NEW d, IsDescribed(d), NEW o, IsOperation(d, o), InOrder(d, o)
    PROVE  LET p == Leave(d, o)
           IN  /\ AtRest(d, p) /\ AllClocked(d, p)
               /\ p.st[o.cur] = FinalizeState(d[o.cur], o.st[o.cur])
               /\ \A y \in StateIdx \ {o.cur} : p.st[y] = o.st[y]
<1> DEFINE s == FinalizeState(d[o.cur], o.st[o.cur])
           p == Leave(d, o)
<1>1. o.cur \in StateIdx /\ o.st[o.cur] \in StateType(d[o.cur])
  BY PartsType
<1>2. p = [o EXCEPT !.st[o.cur] = s]
  BY DEF Leave
<1>3. /\ Accounted(d[o.cur], o.st[o.cur]) => Quiet(d[o.cur], s)
      /\ SameClocks(d[o.cur], o.st[o.cur], s)
  BY <1>1, FinalizeStateEffect DEF IsDescribed
<1> HIDE DEF s, p
<1>4. /\ p.st[o.cur] = s
      /\ \A y \in StateIdx \ {o.cur} : p.st[y] = o.st[y]
  BY <1>1, <1>2, WithStateEffect
<1>5. Clocked(d[o.cur], s)
  BY <1>1, <1>3, SameClocksClocked DEF InOrder, AllClocked
<1>6. AtRest(d, p) /\ AllClocked(d, p)
  BY <1>3, <1>4, <1>5 DEF InOrder, AtRest, AllClocked
<1> QED
  BY <1>4, <1>6 DEF p, s

(* init() of a state of an operation at rest.                              *)
LEMMA BeginEffect ==
    ASSUME NEW d, IsDescribed(d), NEW o, IsOperation(d, o),
           AtRest(d, o), AllClocked(d, o), NEW x \in StateIdx
    PROVE  LET p == Begin(d, o, x)
           IN  /\ InOrder(d, p) /\ CurrentRuns(p) /\ p.cur = x
               /\ p.run_step = o.run_step
               /\ \A y \in StateIdx \ {x} : p.st[y] = o.st[y]
<1> DEFINE s == InitState(d[x], o.st[x], 1)
           b == [o EXCEPT !.cur = x]
           p == Begin(d, o, x)
<1>1. /\ o.st[x].live = {} => Accounted(d[x], s)
      /\ ActiveRuns(s) /\ SameClocks(d[x], o.st[x], s)
  BY PartsType, InitStateEffect, BegunRuns DEF IsDescribed
<1>2. /\ IsOperation(d, b) /\ b.cur = x /\ b.st = o.st
      /\ b.run_step = o.run_step
  BY WithPartsType DEF IsOperation
<1>3. p = [b EXCEPT !.st[x] = s]
  BY DEF Begin
<1> HIDE DEF s, b, p
<1>4. /\ p.cur = x /\ p.run_step = o.run_step /\ p.st[x] = s
      /\ \A y \in StateIdx \ {x} : p.st[y] = o.st[y]
  BY <1>2, <1>3, WithStateEffect
<1>5. Clocked(d[x], s)
  BY <1>1, SameClocksClocked DEF AllClocked
<1>6. x # "UNPAUSING" => Accounted(d[x], s)
  BY <1>1 DEF AtRest, Quiet
<1>7. InOrder(d, p) /\ CurrentRuns(p)
  BY <1>1, <1>4, <1>5, <1>6 DEF InOrder, AtRest, AllClocked, CurrentRuns
<1> QED
  BY <1>4, <1>7 DEF p

(* From one state to another.                                              *)
LEMMA GoToEffect ==
    ASSUME NEW d, IsDescribed(d), NEW o, IsOperation(d, o), InOrder(d, o),
           NEW x \in StateIdx
    PROVE  LET p == GoTo(d, o, x)
           IN  /\ InOrder(d, p) /\ CurrentRuns(p) /\ p.cur = x
               /\ p.run_step = o.run_step
               /\ \A y \in StateIdx \ {o.cur, x} : p.st[y] = o.st[y]
               /\ o.cur # x =>
                     p.st[o.cur] = FinalizeState(d[o.cur], o.st[o.cur])
<1> DEFINE l == Leave(d, o)
<1>1. IsOperation(d, l) /\ l.run_step = o.run_step
  BY LeaveType
<1>2. /\ AtRest(d, l) /\ AllClocked(d, l)
      /\ l.st[o.cur] = FinalizeState(d[o.cur], o.st[o.cur])
      /\ \A y \in StateIdx \ {o.cur} : l.st[y] = o.st[y]
  BY LeaveEffect
<1>3. o.cur \in StateIdx
  BY PartsType
<1>4. GoTo(d, o, x) = Begin(d, l, x)
  BY DEF GoTo
<1> HIDE DEF l
<1> DEFINE p == Begin(d, l, x)
<1>5. /\ InOrder(d, p) /\ CurrentRuns(p) /\ p.cur = x
      /\ p.run_step = l.run_step
      /\ \A y \in StateIdx \ {x} : p.st[y] = l.st[y]
  BY <1>1, <1>2, BeginEffect
<1> HIDE DEF p
<1> QED
  BY <1>1, <1>2, <1>3, <1>4, <1>5 DEF p

(* The states of the life cycle, and what the calls promise about the      *)
(* resume point.                                                           *)
Edge(d, x, y) ==
    \/ x = "IDLE" /\ y = Unless(d, "STARTING", "RUN")
    \/ x \in {"STARTING", "UNPAUSING"} /\ y = "RUN"
    \/ x = "RUN" /\ y = Unless(d, "PAUSING", "PAUSE")
    \/ x = "PAUSING" /\ y = "PAUSE"
    \/ x = "PAUSE" /\ y = Unless(d, "UNPAUSING", "RUN")
    \/ x = "STOPPING" /\ y = "STOP"
    \/ /\ x \in {"STARTING", "RUN", "PAUSING", "PAUSE", "UNPAUSING"}
       /\ y = Unless(d, "STOPPING", "STOP")

KeepsResumePoint(o, p) ==
    o.cur \in PausedStates /\ p.cur \in PausedStates =>
        ResumePoint(p) = ResumePoint(o)

(* What pause(), stop() and start() promise.                               *)
Promised(d, o, p) ==
    /\ InOrder(d, p)
    /\ CurrentRuns(o) => CurrentRuns(p)
    /\ p.cur = o.cur \/ Edge(d, o.cur, p.cur)
    /\ KeepsResumePoint(o, p)

(* An operation that stays as it is.                                       *)
LEMMA SamePromised ==
    ASSUME NEW d, NEW o, InOrder(d, o)
    PROVE  Promised(d, o, o)
BY DEF Promised, KeepsResumePoint

(* GoTo along an edge that leaves RUN alone.                               *)
LEMMA GoToPromised ==
    ASSUME NEW d, IsDescribed(d), NEW o, IsOperation(d, o), InOrder(d, o),
           NEW x \in StateIdx, Edge(d, o.cur, x),
           o.cur \in PausedStates /\ x \in PausedStates => o.cur # x
    PROVE  Promised(d, o, GoTo(d, o, x))
<1> DEFINE p == GoTo(d, o, x)
<1>1. /\ InOrder(d, p) /\ CurrentRuns(p) /\ p.cur = x
      /\ p.run_step = o.run_step
      /\ \A y \in StateIdx \ {o.cur, x} : p.st[y] = o.st[y]
  BY GoToEffect
<1> HIDE DEF p
<1>2. "RUN" \in StateIdx /\ "RUN" \notin PausedStates
  BY DEF StateIdx, PausedStates
<1>3. KeepsResumePoint(o, p)
  BY <1>1, <1>2 DEF KeepsResumePoint, ResumePoint, RunState
<1> QED
  BY <1>1, <1>3 DEF Promised, p

(* save() of RUN.                                                          *)
LEMMA SaveRunEffect ==
    ASSUME NEW d, IsDescribed(d), NEW o, IsOperation(d, o), InOrder(d, o)
    PROVE  LET p == SaveRun(o)
           IN  /\ InOrder(d, p) /\ p.cur = o.cur
               /\ p.run_step = RunState(o).step
               /\ p.st["RUN"] = Save(o.st["RUN"])
<1> DEFINE s == Save(o.st["RUN"])
           b == [o EXCEPT !.run_step = RunState(o).step]
           p == SaveRun(o)
<1>1. "RUN" \in StateIdx
  BY DEF StateIdx
<1>2. o.st["RUN"] \in StateType(d["RUN"])
  BY <1>1, PartsType
<1>3. RunState(o).step \in 0..d["RUN"].n
  BY <1>2 DEF RunState, StateType
<1>4. /\ s.live = o.st["RUN"].live /\ s.step = o.st["RUN"].step
      /\ s.extra = o.st["RUN"].extra /\ SameClocks(d["RUN"], o.st["RUN"], s)
  BY <1>2, SaveLoadEffect DEF Save, StateType
<1>5. /\ IsOperation(d, b) /\ b.cur = o.cur /\ b.st = o.st
      /\ b.run_step = RunState(o).step
  BY <1>3, WithPartsType DEF IsOperation
<1>6. p = [b EXCEPT !.st["RUN"] = s]
  BY DEF SaveRun
<1> HIDE DEF s, b, p
<1>7. /\ p.cur = o.cur /\ p.run_step = RunState(o).step /\ p.st["RUN"] = s
      /\ \A y \in StateIdx \ {"RUN"} : p.st[y] = o.st[y]
  BY <1>1, <1>5, <1>6, WithStateEffect
<1>8. Clocked(d["RUN"], s)
  BY <1>1, <1>4, SameClocksClocked DEF InOrder, AllClocked
<1>9. InOrder(d, p)
  BY <1>4, <1>7, <1>8 DEF InOrder, AllClocked, Accounted, Quiet, Listed
<1> QED
  BY <1>7, <1>9 DEF p, s

(* pause(); an operation in RUN is in RUN no more.                         *)
LEMMA PauseEffect ==
    ASSUME NEW d, IsDescribed(d), NEW o, IsOperation(d, o), InOrder(d, o)
    PROVE  /\ Promised(d, o, Pause(d, o))
           /\ o.cur = "RUN" => Pause(d, o).cur \in {"PAUSING", "PAUSE"}
<1>1. {"PAUSING", "PAUSE"} \subseteq StateIdx
  BY DEF StateIdx
<1>2. CASE o.cur = "RUN"
  <2> DEFINE x == Unless(d, "PAUSING", "PAUSE")
             b == SaveRun(o)
             p == GoTo(d, b, x)
  <2>1. x \in {"PAUSING", "PAUSE"}
    BY <1>1, UnlessType
  <2>2. Pause(d, o) = p
    BY <1>2 DEF Pause
  <2>3. IsOperation(d, b) /\ InOrder(d, b) /\ b.cur = o.cur
    BY SaveRunType, SaveRunEffect
  <2>4. Edge(d, o.cur, x)
    BY <1>2 DEF Edge
  <2> HIDE DEF b, x
  <2>5. InOrder(d, p) /\ CurrentRuns(p) /\ p.cur = x
    BY <1>1, <2>1, <2>3, GoToEffect
  <2> HIDE DEF p
  <2>6. KeepsResumePoint(o, p)
    BY <1>2 DEF KeepsResumePoint, PausedStates
  <2> QED
    BY <2>1, <2>2, <2>4, <2>5, <2>6 DEF Promised
<1>3. CASE o.cur = "PAUSING"
  <2>1. Pause(d, o) = GoTo(d, o, "PAUSE")
    BY <1>3 DEF Pause
  <2>2. Edge(d, o.cur, "PAUSE") /\ o.cur # "PAUSE"
    BY <1>3 DEF Edge
  <2> QED
    BY <1>1, <1>3, <2>1, <2>2, GoToPromised
<1>4. CASE o.cur \notin {"RUN", "PAUSING"}
  BY <1>4, SamePromised DEF Pause
<1> QED
  BY <1>2, <1>3, <1>4

(* stop().                                                                 *)
LEMMA StopEffect ==
    ASSUME NEW d, IsDescribed(d), NEW o, IsOperation(d, o), InOrder(d, o)
    PROVE  Promised(d, o, Stop(d, o))
<1>1. {"STOPPING", "STOP"} \subseteq StateIdx
  BY DEF StateIdx
<1>2. CASE o.cur \in {"PAUSING", "PAUSE", "UNPAUSING", "STARTING", "RUN"}
  <2> DEFINE x == Unless(d, "STOPPING", "STOP")
  <2>1. x \in {"STOPPING", "STOP"}
    BY <1>1, UnlessType
  <2>2. Stop(d, o) = GoTo(d, o, x) /\ Edge(d, o.cur, x)
    BY <1>2 DEF Stop, Edge
  <2> HIDE DEF x
  <2> QED
    BY <1>1, <2>1, <2>2, GoToPromised DEF PausedStates
<1>3. CASE o.cur = "STOPPING"
  <2>1. Stop(d, o) = GoTo(d, o, "STOP") /\ Edge(d, o.cur, "STOP")
    BY <1>3 DEF Stop, Edge
  <2> QED
    BY <1>1, <1>3, <2>1, GoToPromised DEF PausedStates
<1>4. CASE o.cur \notin {"PAUSING", "PAUSE", "UNPAUSING", "STARTING", "RUN",
                         "STOPPING"}
  BY <1>4, SamePromised DEF Stop
<1> QED
  BY <1>2, <1>3, <1>4

(* to_run_state of an operation at rest.                                   *)
LEMMA ToRunStateEffect ==
    ASSUME NEW d, IsDescribed(d), NEW o, IsOperation(d, o),
           AtRest(d, o), AllClocked(d, o), NEW k
    PROVE  LET p == ToRunState(d, o, k)
           IN  InOrder(d, p) /\ CurrentRuns(p) /\ p.cur = "RUN"
<1> DEFINE c == d["RUN"]
           l == Load(RunState(o))
           at == ResumeStep(o, k)
           run == InitState(c, l, at)
           r == IF at = o.run_step THEN AddDxStepTime(run) ELSE run
           b == [o EXCEPT !.cur = "RUN"]
           p == ToRunState(d, o, k)
<1>1. "RUN" \in StateIdx /\ Description(c)
  BY DEF StateIdx, IsDescribed
<1>2. RunState(o) \in StateType(c) /\ RunState(o) = o.st["RUN"]
  BY <1>1, PartsType DEF RunState
<1>3. /\ l \in StateType(c) /\ l.live = {} /\ l.dur = RunState(o).dur
      /\ SameClocks(c, RunState(o), l)
  <2>1. l \in StateType(c)
    BY <1>1, <1>2, SaveLoadType
  <2>2. /\ l.live = RunState(o).live /\ l.dur = RunState(o).dur
        /\ SameClocks(c, RunState(o), l)
    BY <1>2, SaveLoadEffect
  <2>3. "RUN" \in StateIdx \ {"UNPAUSING"}
    BY <1>1
  <2>4. RunState(o).live = {}
    BY <1>2, <2>3 DEF AtRest, Quiet
  <2> HIDE DEF l
  <2> QED
    BY <2>1, <2>2, <2>4
<1> HIDE DEF l
<1>4. /\ run \in StateType(c) /\ Accounted(c, run) /\ ActiveBegun(run)
      /\ SameClocks(c, l, run)
  BY <1>1, <1>3, InitStateType, InitStateEffect
<1>5. /\ b.cur = "RUN" /\ b.st = o.st /\ IsOperation(d, b)
  BY <1>1, WithPartsType DEF IsOperation
<1>6. p = [b EXCEPT !.st["RUN"] = r]
  BY DEF ToRunState, l
<1> HIDE DEF run, at
<1>7. /\ r.live = run.live /\ r.step = run.step /\ r.dur = run.dur
      /\ r.extra = run.extra /\ SameClocks(c, run, r)
  <2>1. CASE at = o.run_step
    BY <1>4, <2>1, SaveLoadEffect DEF AddDxStepTime, StateType
  <2>2. CASE at # o.run_step
    BY <2>2 DEF SameClocks
  <2> QED
    BY <2>1, <2>2
<1> HIDE DEF r, b, p
<1>8. /\ p.cur = "RUN" /\ p.st["RUN"] = r
      /\ \A y \in StateIdx \ {"RUN"} : p.st[y] = o.st[y]
  BY <1>1, <1>5, <1>6, WithStateEffect
<1>9. Clocked(c, r)
  <2>1. Clocked(c, RunState(o))
    BY <1>1, <1>2 DEF AllClocked
  <2> QED
    BY <1>3, <1>4, <1>7, <2>1, SameClocksClocked
<1>10. Accounted(c, r) /\ ActiveRuns(r)
  <2>1. Accounted(c, r) /\ ActiveBegun(r)
    BY <1>4, <1>7 DEF Accounted, ActiveBegun, Listed
  <2> QED
    BY <2>1, BegunRuns
<1>11. InOrder(d, p) /\ CurrentRuns(p)
  BY <1>8, <1>9, <1>10 DEF InOrder, AtRest, AllClocked, CurrentRuns
<1> QED
  BY <1>8, <1>11 DEF p

(* start().                                                                *)
LEMMA StartEffect ==
    ASSUME NEW d, IsDescribed(d), NEW o, IsOperation(d, o), InOrder(d, o), NEW k
    PROVE  /\ Promised(d, o, Start(d, o, k))
           /\ o.cur = "IDLE" => Start(d, o, k).cur = Unless(d, "STARTING", "RUN")
<1>1. {"STARTING", "RUN", "UNPAUSING"} \subseteq StateIdx
  BY DEF StateIdx
<1>2. CASE o.cur = "IDLE"
  <2> DEFINE x == Unless(d, "STARTING", "RUN")
  <2>1. x \in {"STARTING", "RUN"}
    BY <1>1, UnlessType
  <2>2. Start(d, o, k) = GoTo(d, o, x) /\ Edge(d, o.cur, x)
    BY <1>2 DEF Start, Edge
  <2> HIDE DEF x
  <2>3. Promised(d, o, GoTo(d, o, x)) /\ GoTo(d, o, x).cur = x
    BY <1>1, <1>2, <2>1, <2>2, GoToPromised, GoToEffect DEF PausedStates
  <2> QED
    BY <2>2, <2>3 DEF x
<1>3. CASE o.cur = "STARTING"
  <2>1. Start(d, o, k) = GoTo(d, o, "RUN") /\ Edge(d, o.cur, "RUN")
    BY <1>3 DEF Start, Edge
  <2> QED
    BY <1>1, <1>3, <2>1, GoToPromised DEF PausedStates
<1>4. ASSUME NEW l, IsOperation(d, l), AtRest(d, l), AllClocked(d, l),
             Edge(d, o.cur, "RUN"), o.cur # "IDLE",
             Start(d, o, k) = ToRunState(d, l, k)
      PROVE  Promised(d, o, Start(d, o, k))
  <2> DEFINE p == ToRunState(d, l, k)
  <2>1. InOrder(d, p) /\ CurrentRuns(p) /\ p.cur = "RUN"
    BY <1>4, ToRunStateEffect
  <2> HIDE DEF p
  <2>2. KeepsResumePoint(o, p)
    BY <2>1 DEF KeepsResumePoint, PausedStates
  <2> QED
    BY <1>4, <2>1, <2>2 DEF Promised, p
<1>5. CASE o.cur = "PAUSE"
  <2>1. CASE d["UNPAUSING"].empty
    <3>1. Start(d, o, k) = ToRunState(d, Leave(d, o), k)
      BY <1>5, <2>1 DEF Start
    <3>2. Edge(d, o.cur, "RUN")
      BY <1>5, <2>1 DEF Edge, Unless
    <3> QED
      BY <1>4, <1>5, <3>1, <3>2, LeaveType, LeaveEffect
  <2>2. CASE ~ d["UNPAUSING"].empty
    <3>1. Start(d, o, k) = GoTo(d, o, "UNPAUSING")
      BY <1>5, <2>2 DEF Start
    <3>2. Edge(d, o.cur, "UNPAUSING")
      BY <1>5, <2>2 DEF Edge, Unless
    <3> QED
      BY <1>1, <1>5, <3>1, <3>2, GoToPromised
  <2> QED
    BY <1>5, <2>1, <2>2
<1>6. CASE o.cur = "UNPAUSING"
  <2>1. Start(d, o, k) = ToRunState(d, o, k) /\ Edge(d, o.cur, "RUN")
    BY <1>6 DEF Start, Edge
  <2>2. AtRest(d, o) /\ AllClocked(d, o)
    BY <1>6 DEF InOrder, AtRest
  <2> QED
    BY <1>4, <1>6, <2>1, <2>2
<1>7. CASE o.cur \notin {"IDLE", "STARTING", "PAUSE", "UNPAUSING"}
  BY <1>7, SamePromised DEF Start
<1> QED
  BY <1>2, <1>3, <1>5, <1>6, <1>7

(* What one call leaves: an operation along an edge, or turned off.        *)
Answered(d, o, p) ==
    /\ InOrder(d, p)
    /\ CurrentRuns(o) => CurrentRuns(p)
    /\ \/ p.cur = o.cur
       \/ Edge(d, o.cur, p.cur)
       \/ p.cur = "IDLE"
    /\ KeepsResumePoint(o, p)

(* What evaluate() leaves.                                                 *)
Evaluated(d, o, p) ==
    /\ InOrder(d, p)
    /\ CurrentRuns(p)
    /\ p.cur \in {o.cur, "IDLE"}
    /\ p.failed = o.failed
    /\ KeepsResumePoint(o, p)

(* finalize() of the operation.                                            *)
LEMMA FinalizeOperationEffect ==
    ASSUME NEW d, IsDescribed(d), NEW o, IsOperation(d, o), InOrder(d, o)
    PROVE  LET p == FinalizeOperation(d, o)
           IN  /\ InOrder(d, p) /\ p.cur = "IDLE" /\ p.failed = o.failed
               /\ CurrentRuns(o) => CurrentRuns(p)
<1>1. CASE o.cur = "IDLE"
  BY <1>1 DEF FinalizeOperation
<1>2. CASE o.cur # "IDLE"
  <2> DEFINE l == Leave(d, o)
             S == [x \in StateIdx |-> ResetEvalTime(l.st[x])]
             p == [l EXCEPT !.cur = "IDLE", !.st = S]
  <2>1. IsOperation(d, l) /\ AtRest(d, l) /\ AllClocked(d, l)
    BY LeaveType, LeaveEffect
  <2>2. l.failed = o.failed
    BY DEF Leave, IsOperation
  <2>3. FinalizeOperation(d, o) = p
    BY <1>2 DEF FinalizeOperation
  <2> HIDE DEF l
  <2>4. ASSUME NEW x \in StateIdx
        PROVE  /\ Quiet(d[x], l.st[x]) => Quiet(d[x], S[x])
               /\ Clocked(d[x], S[x])
    <3>1. l.st[x] \in StateType(d[x]) /\ S[x] = ResetEvalTime(l.st[x])
      BY <2>1, PartsType
    <3>2. /\ S[x].live = l.st[x].live /\ S[x].step = l.st[x].step
          /\ S[x].extra = l.st[x].extra /\ S[x].dur = l.st[x].dur
          /\ S[x].time = l.st[x].time
      BY <3>1 DEF ResetEvalTime, StateType
    <3>3. Clocked(d[x], l.st[x])
      BY <2>1 DEF AllClocked
    <3> HIDE DEF S
    <3> QED
      BY <3>2, <3>3 DEF Quiet, Clocked, Limited, Listed
  <2> HIDE DEF S
  <2>5. p.cur = "IDLE" /\ p.st = S /\ p.failed = l.failed
    BY <2>1 DEF IsOperation
  <2> HIDE DEF p
  <2>6. \A x \in StateIdx \ {"UNPAUSING"} : Quiet(d[x], p.st[x])
    BY <2>1, <2>4, <2>5 DEF AtRest
  <2>7. Accounted(d["IDLE"], p.st["IDLE"]) /\ CurrentRuns(p)
    BY <2>5, <2>6, QuietAccounted DEF StateIdx, CurrentRuns
  <2>8. AllClocked(d, p)
    BY <2>4, <2>5 DEF AllClocked
  <2>9. InOrder(d, p)
    BY <2>5, <2>6, <2>7, <2>8 DEF InOrder
  <2> QED
    BY <2>2, <2>3, <2>5, <2>7, <2>9
<1> QED
  BY <1>1, <1>2

(* evaluate() of the current state; in a paused operation RUN stays as it  *)
(* is.                                                                     *)
LEMMA EvaluateCurrentEffect ==
    ASSUME NEW d, IsDescribed(d), NEW o, IsOperation(d, o), InOrder(d, o),
           NEW in \in EvaluationInputs(d, o)
    PROVE  Evaluated(d, o, EvaluateCurrent(d, o, in))
<1> DEFINE s == EvaluateState(d[o.cur], o.st[o.cur], in)
           p == [o EXCEPT !.st[o.cur] = s]
<1>1. o.cur \in StateIdx /\ o.st[o.cur] \in StateType(d[o.cur])
  BY PartsType
<1>2. /\ SameClocks(d[o.cur], o.st[o.cur], s)
      /\ Accounted(d[o.cur], o.st[o.cur]) => Accounted(d[o.cur], s)
      /\ ActiveRuns(s)
  BY <1>1, EvaluateStateEffect DEF IsDescribed, EvaluationInputs, Current
<1>3. EvaluateCurrent(d, o, in) = p
  BY DEF EvaluateCurrent
<1> HIDE DEF s
<1>4. InOrder(d, p)
  BY <1>2, CurrentInOrder
<1>5. /\ p.cur = o.cur /\ p.run_step = o.run_step /\ p.failed = o.failed
      /\ p.st[o.cur] = s
      /\ \A y \in StateIdx \ {o.cur} : p.st[y] = o.st[y]
  BY <1>1, WithStateEffect
<1> HIDE DEF p
<1>6. CurrentRuns(p)
  BY <1>2, <1>5 DEF CurrentRuns
<1>7. KeepsResumePoint(o, p)
  BY <1>5 DEF KeepsResumePoint, ResumePoint, RunState, PausedStates, StateIdx
<1> QED
  BY <1>3, <1>4, <1>5, <1>6, <1>7 DEF Evaluated

(* The step methods: what they did in a paused operation is forgotten when *)
(* that state is left.                                                     *)
LEMMA StepMethodsEffect ==
    ASSUME NEW d, IsDescribed(d), NEW o, IsOperation(d, o), InOrder(d, o),
           NEW k, NEW m, NEW ok,
           NEW p \in {OperationToStep(d, o, k), OperationToNextStep(d, o),
                      OperationTurnOffActiveStep(d, o),
                      OperationOnExtraStep(d, o, k, ok),
                      OperationOffExtraStep(d, o, k),
                      OperationSwitchActiveExtraStep(d, o, k, m)}
    PROVE  InOrder(d, p) /\ p.cur = o.cur /\ KeepsResumePoint(o, p)
<1> DEFINE c == d[o.cur]
           s == o.st[o.cur]
           Fine(r) == SameClocks(c, s, r) /\ (Accounted(c, s) => Accounted(c, r))
<1>1. o.cur \in StateIdx /\ Description(c) /\ s \in StateType(c)
  BY PartsType DEF IsDescribed
<1>2. /\ Fine(ToStep(c, s, k)) /\ Fine(ToNextStep(c, s))
      /\ Fine(TurnOffActiveStep(c, s)) /\ Fine(OnExtraStep(c, s, k, ok))
      /\ Fine(OffExtraStep(c, s, k)) /\ Fine(SwitchActiveExtraStep(c, s, k, m))
  BY <1>1, ToStepAccounted, ToNextStepAccounted, TurnOffActiveStepAccounted,
     OnExtraStepAccounted, OffExtraStepAccounted, SwitchActiveExtraStepAccounted
<1> HIDE DEF Fine
<1>3. PICK r : p = [o EXCEPT !.st[o.cur] = r] /\ Fine(r)
  BY <1>2
     DEF OperationToStep, OperationToNextStep, OperationTurnOffActiveStep,
         OperationOnExtraStep, OperationOffExtraStep,
         OperationSwitchActiveExtraStep
<1>4. InOrder(d, p)
  BY <1>3, CurrentInOrder DEF Fine
<1>5. /\ p.cur = o.cur /\ p.run_step = o.run_step
      /\ \A y \in StateIdx \ {o.cur} : p.st[y] = o.st[y]
  BY <1>1, <1>3, WithStateEffect
<1>6. KeepsResumePoint(o, p)
  BY <1>5 DEF KeepsResumePoint, ResumePoint, RunState, PausedStates, StateIdx
<1> QED
  BY <1>4, <1>5, <1>6

(* Time passes for every state.                                            *)
LEMMA TickOperationEffect ==
    ASSUME NEW d, NEW o, IsOperation(d, o), InOrder(d, o)
    PROVE  LET p == TickOperation(d, o)
           IN  InOrder(d, p) /\ p.cur = o.cur /\ KeepsResumePoint(o, p)
<1> DEFINE S == [x \in StateIdx |-> TickState(d[x], o.st[x])]
           p == [o EXCEPT !.st = S]
<1>1. TickOperation(d, o) = p
  BY DEF TickOperation
<1>2. ASSUME NEW x \in StateIdx
      PROVE  /\ Clocked(d[x], o.st[x]) => Clocked(d[x], S[x])
             /\ Accounted(d[x], o.st[x]) => Accounted(d[x], S[x])
             /\ Quiet(d[x], o.st[x]) => Quiet(d[x], S[x])
             /\ S[x].saved = o.st[x].saved /\ S[x].dxstep = o.st[x].dxstep
  <2>1. o.st[x] \in StateType(d[x])
    BY PartsType
  <2>2. /\ TickState(d[x], o.st[x]).saved = o.st[x].saved
        /\ TickState(d[x], o.st[x]).dxstep = o.st[x].dxstep
    BY <2>1 DEF TickState, StateType
  <2> QED
    BY <2>1, <2>2, TickStateEffect
<1> HIDE DEF S
<1>3. p.cur = o.cur /\ p.st = S /\ p.run_step = o.run_step
  BY DEF IsOperation
<1> HIDE DEF p
<1>4. InOrder(d, p)
  BY <1>2, <1>3 DEF InOrder, AllClocked
<1>5. "RUN" \in StateIdx
  BY DEF StateIdx
<1>6. KeepsResumePoint(o, p)
  BY <1>2, <1>3, <1>5 DEF KeepsResumePoint, ResumePoint, RunState
<1> QED
  BY <1>1, <1>3, <1>4, <1>6

(* A new value of a duration: a step that had none has one from now on.    *)
LEMMA SaveDurationEffect ==
    ASSUME NEW d, NEW o, IsOperation(d, o), InOrder(d, o),
           NEW x \in StateIdx, NEW k \in Steps(d[x]), NEW v \in 0..(MaxTick - 1)
    PROVE  LET p == [o EXCEPT !.st[x].dur[k] = v]
           IN  InOrder(d, p) /\ p.cur = o.cur /\ KeepsResumePoint(o, p)
<1> DEFINE s == o.st[x]
           r == [s EXCEPT !.dur[k] = v]
           p == [o EXCEPT !.st[x] = r]
<1>1. s \in StateType(d[x])
  BY PartsType
<1>2. /\ r.live = s.live /\ r.step = s.step /\ r.extra = s.extra
      /\ r.saved = s.saved /\ r.dxstep = s.dxstep /\ r.time = s.time
      /\ \A j \in Steps(d[x]) : r.dur[j] = IF j = k THEN v ELSE s.dur[j]
  BY <1>1 DEF StateType
<1>3. [o EXCEPT !.st[x].dur[k] = v] = p
  OBVIOUS
<1>4. v # NoTime
  BY MaxTickAssumption DEF NoTime
<1> HIDE DEF r
<1>5. /\ Accounted(d[x], s) => Accounted(d[x], r)
      /\ Quiet(d[x], s) => Quiet(d[x], r)
  BY <1>2 DEF Accounted, Quiet, Listed
<1>6. Clocked(d[x], s) => Clocked(d[x], r)
  BY <1>2, <1>4 DEF Clocked, Limited
<1>7. /\ p.cur = o.cur /\ p.run_step = o.run_step /\ p.st[x] = r
      /\ \A y \in StateIdx \ {x} : p.st[y] = o.st[y]
  BY WithStateEffect
<1> HIDE DEF p
<1>8. InOrder(d, p)
  BY <1>5, <1>6, <1>7 DEF InOrder, AllClocked
<1>9. KeepsResumePoint(o, p)
  BY <1>2, <1>7 DEF KeepsResumePoint, ResumePoint, RunState, StateIdx
<1> QED
  BY <1>3, <1>7, <1>8, <1>9

(* An operation as constructed.                                            *)
LEMMA NewOperationEffect ==
    ASSUME NEW d, NEW dur
    PROVE  InOrder(d, NewOperation(d, dur))
<1> DEFINE o == NewOperation(d, dur)
<1>1. o.cur = "IDLE" /\ \A x \in StateIdx : o.st[x] = NewState(d[x], dur[x])
  BY DEF NewOperation
<1> HIDE DEF o
<1>2. ASSUME NEW x \in StateIdx
      PROVE  Quiet(d[x], o.st[x]) /\ Clocked(d[x], o.st[x])
  <2> DEFINE s == o.st[x]
  <2>1. s = NewState(d[x], dur[x])
    BY <1>1
  <2> HIDE DEF s
  <2>2. /\ s.step = 0 /\ s.live = {} /\ s.extra = [k \in Steps(d[x]) |-> 0]
        /\ s.time = [k \in Steps(d[x]) |-> MaxTick]
    BY <2>1 DEF NewState, NoExtra
  <2>3. Quiet(d[x], s) /\ Clocked(d[x], s)
    BY <2>2 DEF Quiet, Clocked, Listed
  <2> QED
    BY <2>3 DEF s
<1>3. InOrder(d, o)
  BY <1>1, <1>2, QuietAccounted DEF InOrder, AllClocked
<1> QED
  BY <1>3 DEF o

(* What the operation remembers of refused requests to start.              *)
LEMMA RemembersAnswered ==
    ASSUME NEW d, NEW o, InOrder(d, o), NEW p,
           p.cur = o.cur, p.st = o.st, p.run_step = o.run_step
    PROVE  Answered(d, o, p)
BY DEF Answered, InOrder, AllClocked, CurrentRuns, KeepsResumePoint, ResumePoint,
       RunState

(* A call on its own, and one that ends with evaluate().                   *)
LEMMA PromisedAnswered ==
    ASSUME NEW d, NEW o, NEW w, Promised(d, o, w), NEW p,
           p = w \/ Evaluated(d, w, p)
    PROVE  Answered(d, o, p)
<1>1. CASE p = w
  BY <1>1 DEF Promised, Answered
<1>2. CASE Evaluated(d, w, p)
  <2>1. KeepsResumePoint(o, p)
    <3>1. SUFFICES ASSUME o.cur \in PausedStates, p.cur \in PausedStates
                   PROVE  ResumePoint(p) = ResumePoint(o)
      BY DEF KeepsResumePoint
    <3>2. w.cur = p.cur
      BY <1>2, <3>1 DEF Evaluated, PausedStates
    <3> QED
      BY <1>2, <3>1, <3>2 DEF Evaluated, Promised, KeepsResumePoint
  <2> QED
    BY <1>2, <2>1 DEF Evaluated, Promised, Answered
<1> QED
  BY <1>1, <1>2

-----------------------------------------------------------------------------
(* The calls of the object.                                                *)

(* Operation i of the object t.                                            *)
Ready(t, i) == ObjectType(t) /\ InOrder(Desc[i], t.ops[i])

(* What a call leaves of operation i.                                      *)
Answers(t, u, i) == Answered(Desc[i], t.ops[i], u.ops[i])

(* An object that does not change.                                         *)
LEMMA AnswersItself ==
    ASSUME NEW t, NEW i \in Operations, Ready(t, i)
    PROVE  Answers(t, t, i)
BY RemembersAnswered DEF Ready, Answers

(* set_mode( i, OFF ).                                                     *)
LEMMA SetModeOffAnswers ==
    ASSUME NEW t, NEW i \in Operations, ObjectType(t),
           NEW u \in Objects(SetModeOff(t, i))
    PROVE  \/ u.ops[i] = t.ops[i]
           \/ u.ops[i] = FinalizeOperation(Desc[i], t.ops[i])
<1> DEFINE b == WithBit(t, i, FALSE)
           o == FinalizeOperation(Desc[i], t.ops[i])
           w == WithOp(b, i, o)
<1>1. ObjectType(b)
  BY WithBitType DEF Touches
<1>2. IsOperation(Desc[i], o)
  BY OperationDescribed, FinalizeOperationType DEF ObjectType
<1>3. PICK r \in SetModeOff(t, i) : u = r.obj
  BY DEF Objects
<1>4. \/ r \in {[obj |-> t, res |-> "already"], [obj |-> t, res |-> "refused"]}
      \/ r = [obj |-> FinalMode(w, i), res |-> "done"]
  BY <1>3 DEF SetModeOff
<1> HIDE DEF b, o
<1>5. ObjectType(w) /\ w.ops[i] = o
  BY <1>1, <1>2, WithOpType DEF Touches
<1> HIDE DEF w
<1>6. FinalMode(w, i).ops[i] = o
  BY <1>5, FinalModeType
<1> QED
  BY <1>3, <1>4, <1>6 DEF o

(* evaluate().                                                             *)
LEMMA EvaluationAnswers ==
    ASSUME NEW t, NEW i \in Operations, Ready(t, i), NEW u \in Evaluations(t, i)
    PROVE  Evaluated(Desc[i], t.ops[i], u.ops[i])
<1>1. PICK in \in EvaluationInputs(Desc[i], t.ops[i]) :
         LET e == WithOp(t, i, EvaluateCurrent(Desc[i], t.ops[i], in))
         IN  u = e \/ u \in Objects(SetModeOff(e, i))
  BY DEF Evaluations
<1> DEFINE d == Desc[i]
           o == EvaluateCurrent(d, t.ops[i], in)
           e == WithOp(t, i, o)
           f == FinalizeOperation(d, o)
<1>2. IsDescribed(d) /\ IsOperation(d, t.ops[i]) /\ InOrder(d, t.ops[i])
  BY OperationDescribed DEF Ready, ObjectType
<1>3. IsOperation(d, o) /\ Evaluated(d, t.ops[i], o)
  BY <1>2, EvaluateCurrentType, EvaluateCurrentEffect
<1>4. u = e \/ u \in Objects(SetModeOff(e, i))
  BY <1>1
<1> HIDE DEF d, o
<1>5. ObjectType(e) /\ e.ops[i] = o
  BY <1>3, WithOpType DEF Ready, Touches, d
<1> HIDE DEF e
<1>6. u.ops[i] = o \/ u.ops[i] = f
  BY <1>4, <1>5, SetModeOffAnswers DEF d
<1>7. InOrder(d, f) /\ f.cur = "IDLE" /\ f.failed = o.failed /\ CurrentRuns(f)
  BY <1>2, <1>3, FinalizeOperationEffect DEF Evaluated
<1> HIDE DEF f
<1>8. Evaluated(d, t.ops[i], f)
  BY <1>3, <1>7 DEF Evaluated, KeepsResumePoint, PausedStates
<1> QED
  BY <1>3, <1>6, <1>8 DEF d

(* A call that ends with evaluate(), or does not.                          *)
LEMMA EvaluatedIfAnswers ==
    ASSUME NEW t, NEW i \in Operations, Ready(t, i), NEW o,
           IsOperation(Desc[i], o), Promised(Desc[i], t.ops[i], o),
           NEW evaluates, NEW u \in EvaluatedIf(evaluates, WithOp(t, i, o), i)
    PROVE  /\ Answers(t, u, i)
           /\ u.ops[i].cur \in {o.cur, "IDLE"}
           /\ ~ evaluates => u.ops[i] = o
<1> DEFINE w == WithOp(t, i, o)
<1>1. ObjectType(w) /\ w.ops[i] = o
  BY WithOpType DEF Ready, Touches
<1>2. Ready(w, i)
  BY <1>1 DEF Ready, Promised
<1>3. u \in EvaluatedIf(evaluates, w, i)
  OBVIOUS
<1> HIDE DEF w
<1>4. u = w \/ (evaluates /\ u \in Evaluations(w, i))
  BY <1>3 DEF EvaluatedIf
<1>5. u.ops[i] = o \/ (evaluates /\ Evaluated(Desc[i], o, u.ops[i]))
  BY <1>1, <1>2, <1>4, EvaluationAnswers
<1>6. u.ops[i].cur \in {o.cur, "IDLE"}
  BY <1>5 DEF Evaluated
<1>7. ~ evaluates => u.ops[i] = o
  BY <1>5
<1> QED
  BY <1>5, <1>6, <1>7, PromisedAnswered DEF Answers

(* op->pause(); an operation in RUN is in RUN no more.                     *)
LEMMA PauseCallAnswers ==
    ASSUME NEW t, NEW i \in Operations, Ready(t, i), NEW u \in PauseCall(t, i)
    PROVE  /\ Answers(t, u, i)
           /\ t.ops[i].cur = "RUN" => u.ops[i].cur \in {"PAUSING", "PAUSE", "IDLE"}
<1> DEFINE d == Desc[i]
           o == Pause(d, t.ops[i])
<1>1. IsDescribed(d) /\ IsOperation(d, t.ops[i]) /\ InOrder(d, t.ops[i])
  BY OperationDescribed DEF Ready, ObjectType
<1>2. /\ IsOperation(d, o) /\ Promised(d, t.ops[i], o)
      /\ t.ops[i].cur = "RUN" => o.cur \in {"PAUSING", "PAUSE"}
  BY <1>1, PauseType, PauseEffect
<1>3. u \in EvaluatedIf(PauseEvaluates(t.ops[i]), WithOp(t, i, o), i)
  BY DEF PauseCall
<1> HIDE DEF o
<1>4. Answers(t, u, i) /\ u.ops[i].cur \in {o.cur, "IDLE"}
  BY <1>2, <1>3, EvaluatedIfAnswers
<1> QED
  BY <1>2, <1>4

(* op->stop().                                                             *)
LEMMA StopCallAnswers ==
    ASSUME NEW t, NEW i \in Operations, Ready(t, i), NEW u \in StopCall(t, i)
    PROVE  Answers(t, u, i)
<1> DEFINE d == Desc[i]
           o == Stop(d, t.ops[i])
<1>1. IsDescribed(d) /\ IsOperation(d, t.ops[i]) /\ InOrder(d, t.ops[i])
  BY OperationDescribed DEF Ready, ObjectType
<1>2. IsOperation(d, o) /\ Promised(d, t.ops[i], o)
  BY <1>1, StopType, StopEffect
<1>3. u \in EvaluatedIf(StopEvaluates(t.ops[i]), WithOp(t, i, o), i)
  BY DEF StopCall
<1> HIDE DEF o
<1> QED
  BY <1>2, <1>3, EvaluatedIfAnswers

(* op->start().                                                            *)
LEMMA StartCallAnswers ==
    ASSUME NEW t, NEW i \in Operations, Ready(t, i), NEW k,
           NEW u \in StartCall(t, i, k)
    PROVE  Answers(t, u, i)
<1> DEFINE d == Desc[i]
           o == Start(d, t.ops[i], k)
<1>1. IsDescribed(d) /\ IsOperation(d, t.ops[i]) /\ InOrder(d, t.ops[i])
  BY OperationDescribed DEF Ready, ObjectType
<1>2. IsOperation(d, o) /\ Promised(d, t.ops[i], o)
  BY <1>1, StartType, StartEffect
<1>3. u \in EvaluatedIf(StartEvaluates(t.ops[i]), WithOp(t, i, o), i)
  BY DEF StartCall
<1> HIDE DEF o
<1> QED
  BY <1>2, <1>3, EvaluatedIfAnswers

(* An operation whose bit is set first.                                    *)
LEMMA WithBitReady ==
    ASSUME NEW t, NEW i \in Operations, Ready(t, i), NEW b \in BOOLEAN
    PROVE  Ready(WithBit(t, i, b), i) /\ WithBit(t, i, b).ops = t.ops
BY WithBitType DEF Ready, Touches

(* set_mode( i, RUN ).                                                     *)
LEMMA SetModeRunAnswers ==
    ASSUME NEW t, NEW i \in Operations, Ready(t, i), NEW r \in SetModeRun(t, i)
    PROVE  Answers(t, r.obj, i)
<1>1. CASE t.bit[i]
  <2>1. r.obj = t \/ \E k : r.obj \in StartCall(t, i, k)
    BY <1>1 DEF SetModeRun, Resume
  <2> QED
    BY <2>1, AnswersItself, StartCallAnswers
<1>2. CASE ~ t.bit[i]
  <2>1. \/ r = [obj |-> t, res |-> "refused"]
        \/ \E u \in StartCall(t, i, t.ops[i].run_step) :
              r = [obj |-> WithBit(InitMode(u, i), i, TRUE), res |-> "done"]
    BY <1>2 DEF SetModeRun, SwitchOn
  <2>2. ASSUME NEW u \in StartCall(t, i, t.ops[i].run_step),
               r = [obj |-> WithBit(InitMode(u, i), i, TRUE), res |-> "done"]
        PROVE  Answers(t, r.obj, i)
    <3>1. Answers(t, u, i) /\ ObjectType(u)
      BY StartCallAnswers, StartCallCall DEF Ready, Touches
    <3>2. ObjectType(InitMode(u, i)) /\ InitMode(u, i).ops = u.ops
      BY <3>1, InitModeType DEF Touches
    <3>3. WithBit(InitMode(u, i), i, TRUE).ops = u.ops
      BY <3>2, WithBitType
    <3>4. r.obj.ops = u.ops
      BY <2>2, <3>3
    <3> QED
      BY <3>1, <3>4 DEF Answers
  <2>3. CASE r = [obj |-> t, res |-> "refused"]
    <3>1. r.obj = t
      BY <2>3
    <3> QED
      BY <3>1, AnswersItself
  <2> QED
    BY <2>1, <2>2, <2>3
<1> QED
  BY <1>1, <1>2

(* set_mode( i, mode ).                                                    *)
LEMMA SetModeAnswers ==
    ASSUME NEW t, NEW i \in Operations, Ready(t, i), NEW mode \in Modes,
           NEW u \in Objects(SetMode(t, i, mode))
    PROVE  Answers(t, u, i)
<1>1. CASE mode = "OFF"
  <2> DEFINE d == Desc[i]
             f == FinalizeOperation(d, t.ops[i])
  <2>1. u.ops[i] = t.ops[i] \/ u.ops[i] = f
    BY <1>1, SetModeOffAnswers DEF SetMode, Ready
  <2>2. CASE u.ops[i] = t.ops[i]
    BY <2>2, AnswersItself DEF Answers
  <2>3. CASE u.ops[i] = f
    <3>1. IsDescribed(d) /\ IsOperation(d, t.ops[i]) /\ InOrder(d, t.ops[i])
      BY OperationDescribed DEF Ready, ObjectType
    <3>2. /\ InOrder(d, f) /\ f.cur = "IDLE"
          /\ CurrentRuns(t.ops[i]) => CurrentRuns(f)
      BY <3>1, FinalizeOperationEffect
    <3> HIDE DEF f
    <3> QED
      BY <2>3, <3>2 DEF Answers, Answered, KeepsResumePoint, PausedStates
  <2> QED
    BY <2>1, <2>2, <2>3
<1>2. CASE mode = "RUN"
  BY <1>2, SetModeRunAnswers DEF SetMode, Objects
<1>3. CASE mode = "PAUSE"
  <2> DEFINE b == WithBit(t, i, TRUE)
  <2>1. u = t \/ u \in PauseCall(b, i)
    <3>1. PICK r \in SetModePause(t, i) : u = r.obj
      BY <1>3 DEF SetMode, Objects
    <3>2. \/ r = [obj |-> t, res |-> "refused"]
          \/ \E w \in PauseCall(b, i) : r = [obj |-> w, res |-> "done"]
      BY DEF SetModePause
    <3> HIDE DEF b
    <3> QED
      BY <3>1, <3>2
  <2>2. Ready(b, i) /\ b.ops = t.ops
    BY WithBitReady
  <2> HIDE DEF b
  <2> QED
    BY <2>1, <2>2, AnswersItself, PauseCallAnswers DEF Answers
<1>4. CASE mode = "STOP"
  <2> DEFINE b == WithBit(t, i, TRUE)
  <2>1. u = t \/ u \in StopCall(b, i)
    <3>1. PICK r \in SetModeStop(t, i) : u = r.obj
      BY <1>4 DEF SetMode, Objects
    <3>2. \/ r = [obj |-> t, res |-> "refused"]
          \/ \E w \in StopCall(b, i) : r = [obj |-> w, res |-> "done"]
      BY DEF SetModeStop
    <3> HIDE DEF b
    <3> QED
      BY <3>1, <3>2
  <2>2. Ready(b, i) /\ b.ops = t.ops
    BY WithBitReady
  <2> HIDE DEF b
  <2> QED
    BY <2>1, <2>2, AnswersItself, StopCallAnswers DEF Answers
<1> QED
  BY <1>1, <1>2, <1>3, <1>4 DEF Modes

(* An operation that remembers something else.                             *)
LEMMA RemembersType ==
    ASSUME NEW d, NEW o, IsOperation(d, o), NEW b \in BOOLEAN,
           NEW p \in {[o EXCEPT !.first = b], [o EXCEPT !.failed = b]}
    PROVE  /\ IsOperation(d, p)
           /\ p.cur = o.cur /\ p.st = o.st /\ p.run_step = o.run_step
<1>1. IsOperation(d, p)
  <2>1. /\ IsOperation(d, [o EXCEPT !.first = b])
        /\ IsOperation(d, [o EXCEPT !.failed = b])
    BY WithPartsType
  <2> QED
    BY <2>1
<1>2. p.cur = o.cur /\ p.st = o.st /\ p.run_step = o.run_step
  BY DEF IsOperation
<1> QED
  BY <1>1, <1>2

(* process_auto_switch_on; after a failure it does nothing.                *)
LEMMA AutoSwitchOnAnswers ==
    ASSUME NEW t, NEW i \in Operations, Ready(t, i), NEW u \in AutoSwitchOn(t, i)
    PROVE  /\ Answers(t, u, i)
           /\ t.ops[i].failed => u = t
<1> DEFINE o == t.ops[i]
           p == [o EXCEPT !.first = FALSE]
           q == [o EXCEPT !.failed = TRUE]
<1>1. IsOperation(Desc[i], o) /\ ObjectType(t)
  BY DEF Ready, ObjectType
<1>2. /\ IsOperation(Desc[i], p)
      /\ p.cur = o.cur /\ p.st = o.st /\ p.run_step = o.run_step
  BY <1>1, RemembersType
<1>3. /\ IsOperation(Desc[i], q)
      /\ q.cur = o.cur /\ q.st = o.st /\ q.run_step = o.run_step
  BY <1>1, RemembersType
<1> HIDE DEF p, q
<1>4. WithOp(t, i, p).ops[i] = p /\ WithOp(t, i, q).ops[i] = q
  BY <1>1, <1>2, <1>3, WithOpType
<1>5. Answers(t, WithOp(t, i, p), i) /\ Answers(t, WithOp(t, i, q), i)
  BY <1>2, <1>3, <1>4, RemembersAnswered DEF Answers, Ready
<1>6. CASE o.failed
  BY <1>6, AnswersItself DEF AutoSwitchOn
<1>7. CASE ~ o.failed /\ o.first
  <2>1. PICK r \in SetModeRun(t, i) :
           u = IF r.res = "done" THEN r.obj ELSE WithOp(r.obj, i, p)
    BY <1>7 DEF AutoSwitchOn, p
  <2>2. r.res # "done" => r.obj = t
    BY <1>1, SetModeRunKeeps
  <2>3. u = r.obj \/ u = WithOp(t, i, p)
    BY <2>1, <2>2
  <2> QED
    BY <1>5, <1>7, <2>3, SetModeRunAnswers
<1>8. CASE ~ o.failed /\ ~ o.first
  <2>1. u \in {t, WithOp(t, i, q)} \/ \E r \in SetModeRun(t, i) : u = r.obj
    BY <1>8 DEF AutoSwitchOn, Objects, q
  <2> QED
    BY <1>5, <1>8, <2>1, AnswersItself, SetModeRunAnswers
<1> QED
  BY <1>6, <1>7, <1>8

(* The signals, after evaluate().                                          *)
LEMMA SignalsAnswer ==
    ASSUME NEW t, NEW i \in Operations, Ready(t, i), NEW u \in Signals(t, i)
    PROVE  /\ Answers(t, u, i)
           /\ t.ops[i].cur = "IDLE" /\ t.ops[i].failed => u.ops[i].cur = "IDLE"
<1> DEFINE o == t.ops[i]
           p == [o EXCEPT !.first = TRUE]
           q == [o EXCEPT !.first = TRUE, !.failed = FALSE]
           mode(to) == Response(o.cur, to)
<1>1. u = WithOp(t, i, q)
      \/ \E to \in Request[i][o.cur] : u \in Requested(t, i, to)
  BY DEF Signals, NoRequest
<1>2. IsOperation(Desc[i], o) /\ ObjectType(t)
  BY DEF Ready, ObjectType
<1>3. CASE u = WithOp(t, i, q)
  <2>1. /\ IsOperation(Desc[i], p)
        /\ p.cur = o.cur /\ p.st = o.st /\ p.run_step = o.run_step
    BY <1>2, RemembersType
  <2>2. q = [p EXCEPT !.failed = FALSE]
    OBVIOUS
  <2> HIDE DEF p, q
  <2>4. /\ IsOperation(Desc[i], q)
        /\ q.cur = o.cur /\ q.st = o.st /\ q.run_step = o.run_step
    BY <2>1, <2>2, RemembersType
  <2>5. u.ops[i] = q
    BY <1>2, <1>3, <2>4, WithOpType
  <2> QED
    BY <2>4, <2>5, RemembersAnswered DEF Answers, Ready
<1>4. ASSUME NEW to, u \in Requested(t, i, to)
      PROVE  Answers(t, u, i) /\ (o.cur = "IDLE" /\ o.failed => u.ops[i].cur = "IDLE")
  <2>1. CASE o.cur = "IDLE"
    BY <1>4, <2>1, AutoSwitchOnAnswers DEF Requested
  <2>2. CASE o.cur # "IDLE" /\ mode(to) = "NONE"
    BY <1>4, <2>2, AnswersItself DEF Requested
  <2>3. CASE o.cur # "IDLE" /\ mode(to) # "NONE"
    <3>1. mode(to) \in Modes
      BY <2>3, ResponseType DEF Modes
    <3>2. u \in Objects(SetMode(t, i, mode(to)))
      BY <1>4, <2>3 DEF Requested
    <3> HIDE DEF mode
    <3> QED
      BY <2>3, <3>1, <3>2, SetModeAnswers
  <2> QED
    BY <2>1, <2>2, <2>3
<1> QED
  BY <1>1, <1>3, <1>4

(* The checks: only an operation in RUN is paused, and only once.          *)
LEMMA ChecksAnswer ==
    ASSUME NEW t, NEW i \in Operations, Ready(t, i), NEW u \in Checks(t, i)
    PROVE  /\ Answers(t, u, i)
           /\ t.ops[i].cur # "RUN" => u = t
<1>1. PICK v \in CheckDevices(t, i) :
         IF Running(v, i)
         THEN \E w \in CheckDurations(v, i) : u \in CheckMaxTime(w, i)
         ELSE u = v
  BY DEF Checks
<1>2. CASE ~ Running(t, i)
  BY <1>1, <1>2, AnswersItself DEF CheckDevices, Running
<1>3. CASE Running(t, i)
  <2>1. ASSUME NEW w \in PauseCall(t, i)
        PROVE  Answers(t, w, i) /\ ~ Running(w, i) /\ ~ OverMaxTime(Desc[i]["RUN"], RunState(w.ops[i]))
    <3>1. Answers(t, w, i) /\ w.ops[i].cur \in {"PAUSING", "PAUSE", "IDLE"}
      BY <1>3, PauseCallAnswers DEF Running
    <3>2. "RUN" \in StateIdx \ {"UNPAUSING"} /\ w.ops[i].cur # "RUN"
      BY <3>1 DEF StateIdx
    <3>3. Quiet(Desc[i]["RUN"], RunState(w.ops[i]))
      BY <3>1, <3>2 DEF Answers, Answered, InOrder, RunState
    <3>4. ~ OverMaxTime(Desc[i]["RUN"], RunState(w.ops[i]))
      BY <3>3 DEF Quiet, OverMaxTime, ActiveStepOverMax, ExtraStepsOverMax
    <3> QED
      BY <3>1, <3>2, <3>4 DEF Running
  <2>2. u = t \/ u \in PauseCall(t, i)
    <3>1. CASE v = t
      <4>1. PICK w \in CheckDurations(t, i) : u \in CheckMaxTime(w, i)
        BY <1>1, <1>3, <3>1
      <4>2. w = t \/ w \in PauseCall(t, i)
        BY DEF CheckDurations
      <4> QED
        BY <2>1, <4>1, <4>2 DEF CheckMaxTime
    <3>2. CASE v # t
      <4>1. v \in PauseCall(t, i)
        BY <3>2 DEF CheckDevices
      <4> QED
        BY <1>1, <2>1, <4>1
    <3> QED
      BY <3>1, <3>2
  <2> QED
    BY <1>3, <2>1, <2>2, AnswersItself DEF Running
<1> QED
  BY <1>2, <1>3

-----------------------------------------------------------------------------
(* The steps of the object.                                                *)

(* What one step of the object leaves of an operation.                     *)
Stepped(d, o, p) ==
    /\ InOrder(d, p)
    /\ \/ p.cur = o.cur
       \/ Edge(d, o.cur, p.cur)
       \/ o.cur # "IDLE" /\ p.cur \in {"IDLE", Unless(d, "STARTING", "RUN")}
    /\ KeepsResumePoint(o, p)

(* evaluate() and the answer to a signal.                                  *)
LEMMA EvaluatedAnsweredStepped ==
    ASSUME NEW d, NEW o, NEW e, NEW p, Evaluated(d, o, e), Answered(d, e, p)
    PROVE  Stepped(d, o, p) /\ CurrentRuns(p)
<1>1. CASE e.cur = o.cur
  BY <1>1 DEF Evaluated, Answered, Stepped, KeepsResumePoint
<1>2. CASE e.cur = "IDLE" /\ o.cur # "IDLE"
  <2>1. p.cur \in {"IDLE", Unless(d, "STARTING", "RUN")}
    BY <1>2 DEF Answered, Edge
  <2>2. p.cur \notin PausedStates
    BY <2>1 DEF Unless, PausedStates
  <2> QED
    BY <1>2, <2>1, <2>2 DEF Evaluated, Answered, Stepped, KeepsResumePoint
<1> QED
  BY <1>1, <1>2 DEF Evaluated

(* The answer to a command or a check.                                     *)
LEMMA AnsweredStepped ==
    ASSUME NEW d, NEW o, NEW p, Answered(d, o, p)
    PROVE  Stepped(d, o, p)
BY DEF Answered, Stepped

AllInOrder == \A i \in Operations : InOrder(Desc[i], ops[i])

(* Operation i makes a step, the others stay as they are.                  *)
OperationStep(i) ==
    /\ Stepped(Desc[i], ops[i], ops'[i])
    /\ \A j \in Operations \ {i} : ops'[j] = ops[j]

(* The object before a step.                                               *)
LEMMA NowReady ==
    ASSUME TypeOK, AllInOrder, NEW i \in Operations
    PROVE  Ready(Now, i) /\ Now.ops = ops
BY NowType DEF AllInOrder, Ready, Now

(* The cycle evaluates operation i.                                        *)
LEMMA EvaluateOperationSteps ==
    ASSUME TypeOK, AllInOrder, NEW i \in Operations, EvaluateOperation(i)
    PROVE  /\ OperationStep(i) /\ CurrentRuns(ops'[i])
           /\ ops[i].cur = "IDLE" /\ ops[i].failed => ops'[i].cur = "IDLE"
<1>1. PICK t \in Evaluations(Now, i) : \E u \in Signals(t, i) : Becomes(u)
  BY DEF EvaluateOperation
<1>2. PICK u \in Signals(t, i) : Becomes(u)
  BY <1>1
<1>3. Ready(Now, i) /\ Now.ops = ops
  BY NowReady
<1>4. Touches(Now, t, i)
  BY <1>3, EvaluationCall DEF Ready
<1>5. Evaluated(Desc[i], ops[i], t.ops[i])
  BY <1>3, EvaluationAnswers
<1>6. Ready(t, i)
  BY <1>4, <1>5 DEF Ready, Touches, Evaluated
<1>7. Touches(t, u, i)
  BY <1>6, SignalsKeep DEF Ready, Keeps
<1>8. /\ Answered(Desc[i], t.ops[i], u.ops[i])
      /\ t.ops[i].cur = "IDLE" /\ t.ops[i].failed => u.ops[i].cur = "IDLE"
  BY <1>6, SignalsAnswer DEF Answers
<1>9. ops' = u.ops /\ \A j \in Operations \ {i} : u.ops[j] = ops[j]
  BY <1>2, <1>3, <1>4, <1>7 DEF Becomes, Touches
<1>10. Stepped(Desc[i], ops[i], u.ops[i]) /\ CurrentRuns(u.ops[i])
  BY <1>5, <1>8, EvaluatedAnsweredStepped
<1>11. ops[i].cur = "IDLE" /\ ops[i].failed => u.ops[i].cur = "IDLE"
  BY <1>5, <1>8 DEF Evaluated
<1> QED
  BY <1>9, <1>10, <1>11 DEF OperationStep

(* The cycle checks operation i.                                           *)
LEMMA CheckOperationSteps ==
    ASSUME TypeOK, AllInOrder, NEW i \in Operations, CheckOperation(i)
    PROVE  /\ OperationStep(i)
           /\ ops[i].cur = "IDLE" => ops'[i].cur = "IDLE"
<1>1. PICK u \in Checks(Now, i) : Becomes(u)
  BY DEF CheckOperation
<1>2. Ready(Now, i) /\ Now.ops = ops
  BY NowReady
<1>3. Touches(Now, u, i)
  BY <1>2, ChecksSafe DEF Ready, Safe, Keeps
<1>4. Answered(Desc[i], ops[i], u.ops[i]) /\ (ops[i].cur # "RUN" => u = Now)
  BY <1>2, ChecksAnswer DEF Answers
<1>5. ops' = u.ops /\ \A j \in Operations \ {i} : u.ops[j] = ops[j]
  BY <1>1, <1>2, <1>3 DEF Becomes, Touches
<1> QED
  BY <1>2, <1>4, <1>5, AnsweredStepped DEF OperationStep

(* A command for operation i.                                              *)
LEMMA CommandSteps ==
    ASSUME TypeOK, AllInOrder, NEW i \in Operations, Command(i)
    PROVE  OperationStep(i)
<1>1. PICK mode \in Commands[ops[i].cur] :
         \E r \in SetMode(Now, i, mode) : Becomes(r.obj)
  BY DEF Command
<1>2. PICK r \in SetMode(Now, i, mode) : Becomes(r.obj)
  BY <1>1
<1> DEFINE u == r.obj
<1>3. u \in Objects(SetMode(Now, i, mode))
  BY DEF Objects
<1>4. mode \in Modes
  BY CommandsAssumption, PartsType DEF TypeOK
<1>5. Becomes(u)
  BY <1>2
<1> HIDE DEF u
<1>6. Ready(Now, i) /\ Now.ops = ops
  BY NowReady
<1>7. Touches(Now, u, i) /\ Answered(Desc[i], ops[i], u.ops[i])
  BY <1>3, <1>4, <1>6, SetModeKeeps, SetModeAnswers DEF Ready, Keeps, Answers
<1>8. ops' = u.ops /\ \A j \in Operations \ {i} : u.ops[j] = ops[j]
  BY <1>5, <1>6, <1>7 DEF Becomes, Touches
<1> QED
  BY <1>7, <1>8, AnsweredStepped DEF OperationStep

(* A step method for operation i, or a new value of a duration.            *)
LEMMA OpBecomesSteps ==
    ASSUME TypeOK, NEW i \in Operations, NEW p, OpBecomes(i, p),
           InOrder(Desc[i], p), p.cur = ops[i].cur, KeepsResumePoint(ops[i], p)
    PROVE  OperationStep(i)
<1>1. ops = [j \in Operations |-> ops[j]] /\ ops' = [ops EXCEPT ![i] = p]
  BY DEF TypeOK, OpBecomes
<1>2. ops'[i] = p /\ \A j \in Operations \ {i} : ops'[j] = ops[j]
  BY <1>1
<1> QED
  BY <1>2 DEF OperationStep, Stepped

(* The methods of a step that a program may call.                          *)
LEMMA StepMethodsStep ==
    ASSUME TypeOK, AllInOrder, NEW i \in Operations, StepMethods(i)
    PROVE  OperationStep(i)
<1> DEFINE d == Desc[i]
           o == ops[i]
<1>1. IsDescribed(d) /\ IsOperation(d, o) /\ InOrder(d, o)
  BY OperationDescribed DEF TypeOK, AllInOrder
<1>2. PICK p : /\ OpBecomes(i, p)
               /\ \E k, m, ok : p \in {OperationToStep(d, o, k),
                     OperationToNextStep(d, o), OperationTurnOffActiveStep(d, o),
                     OperationOnExtraStep(d, o, k, ok),
                     OperationOffExtraStep(d, o, k),
                     OperationSwitchActiveExtraStep(d, o, k, m)}
  BY DEF StepMethods, CallToStep, CallToNextStep, CallTurnOffActiveStep,
         CallOnExtraStep, CallOffExtraStep, CallSwitchActiveExtraStep
<1> HIDE DEF d, o
<1>3. InOrder(d, p) /\ p.cur = o.cur /\ KeepsResumePoint(o, p)
  BY <1>1, <1>2, StepMethodsEffect
<1> QED
  BY <1>2, <1>3, OpBecomesSteps DEF d, o

(* A new duration of a step.                                               *)
LEMMA SaveDurationSteps ==
    ASSUME TypeOK, AllInOrder, NEW i \in Operations, SaveDuration(i)
    PROVE  OperationStep(i)
<1>1. PICK x \in StateIdx : \E k \in Steps(Desc[i][x]), v \in SetDur :
         OpBecomes(i, [ops[i] EXCEPT !.st[x].dur[k] = v])
  BY DEF SaveDuration
<1>2. PICK k \in Steps(Desc[i][x]), v \in SetDur :
         OpBecomes(i, [ops[i] EXCEPT !.st[x].dur[k] = v])
  BY <1>1
<1> DEFINE p == [ops[i] EXCEPT !.st[x].dur[k] = v]
<1>3. IsOperation(Desc[i], ops[i]) /\ InOrder(Desc[i], ops[i])
  BY DEF TypeOK, AllInOrder
<1>4. v \in 0..(MaxTick - 1)
  BY DurAssumption
<1>5. InOrder(Desc[i], p) /\ p.cur = ops[i].cur /\ KeepsResumePoint(ops[i], p)
  BY <1>3, <1>4, SaveDurationEffect
<1>6. OpBecomes(i, p)
  BY <1>2
<1> HIDE DEF p
<1> QED
  BY <1>5, <1>6, OpBecomesSteps

(* Time passes for all operations.                                         *)
LEMMA TickSteps ==
    ASSUME TypeOK, AllInOrder, Tick, NEW i \in Operations
    PROVE  /\ InOrder(Desc[i], ops'[i]) /\ ops'[i].cur = ops[i].cur
           /\ KeepsResumePoint(ops[i], ops'[i])
<1>1. ops'[i] = TickOperation(Desc[i], ops[i])
  BY DEF Tick
<1>2. IsOperation(Desc[i], ops[i]) /\ InOrder(Desc[i], ops[i])
  BY DEF TypeOK, AllInOrder
<1> QED
  BY <1>1, <1>2, TickOperationEffect

(* Every step of the object.                                               *)
LEMMA NextStepped ==
    ASSUME TypeOK, AllInOrder, [Next]_vars
    PROVE  \/ UNCHANGED ops
           \/ Tick
           \/ \E i \in Operations : OperationStep(i)
BY EvaluateOperationSteps, CheckOperationSteps, CommandSteps, StepMethodsStep,
   SaveDurationSteps
   DEF Next, vars, StartCycle, StepMethods

(* The inductive invariant.                                                *)
StepInv == SoundInv /\ AllInOrder

(* Operations start in order.                                              *)
LEMMA InitInOrder ==
    ASSUME Init
    PROVE  StepInv
<1>1. \A i \in Operations : ops[i] = NewOperation(Desc[i], InitialDur[i])
  BY DEF Init
<1> QED
  BY <1>1, InitSound, NewOperationEffect DEF StepInv, ExclusiveInv, AllInOrder

(* ... and stay so.                                                        *)
LEMMA NextKeepsInOrder ==
    ASSUME StepInv, [Next]_vars
    PROVE  StepInv'
<1>1. SoundInv' /\ TypeOK /\ AllInOrder
  BY NextKeepsSound DEF StepInv, SoundInv
<1>2. CASE UNCHANGED ops
  BY <1>1, <1>2 DEF AllInOrder, StepInv
<1>3. CASE Tick
  BY <1>1, <1>3, TickSteps DEF AllInOrder, StepInv
<1>4. ASSUME NEW i \in Operations, OperationStep(i)
      PROVE  AllInOrder'
  BY <1>1, <1>4 DEF AllInOrder, OperationStep, Stepped
<1> QED
  BY <1>1, <1>2, <1>3, <1>4, NextStepped DEF StepInv

-----------------------------------------------------------------------------
(* Pausing and resuming.                                                   *)

(* An operation paused in RUN and at rest again: RUN is finalised, and its *)
(* step and its extra steps are remembered.                                *)
Rested(d, o, q) ==
    /\ IsOperation(d, q) /\ InOrder(d, q)
    /\ q.run_step = RunState(o).step
    /\ q.st["RUN"] = FinalizeState(d["RUN"], Save(RunState(o)))

(* A running operation that is paused, and paused again while it is        *)
(* pausing, rests.                                                         *)
LEMMA PausedRests ==
    ASSUME NEW d, IsDescribed(d), NEW o, IsOperation(d, o), InOrder(d, o),
           o.cur = "RUN"
    PROVE  LET paused == Pause(d, o)
               rested == IF paused.cur = "PAUSING" THEN Pause(d, paused)
                         ELSE paused
           IN  Rested(d, o, rested) /\ rested.cur = "PAUSE"
<1> DEFINE x == Unless(d, "PAUSING", "PAUSE")
           b == SaveRun(o)
           p == GoTo(d, b, x)
           q == GoTo(d, p, "PAUSE")
<1>1. {"RUN", "PAUSING", "PAUSE"} \subseteq StateIdx
  BY DEF StateIdx
<1>2. x \in {"PAUSING", "PAUSE"}
  BY <1>1, UnlessType
<1>3. /\ IsOperation(d, b) /\ InOrder(d, b) /\ b.cur = "RUN"
      /\ b.run_step = RunState(o).step /\ b.st["RUN"] = Save(RunState(o))
  BY SaveRunType, SaveRunEffect DEF RunState
<1>4. Pause(d, o) = p
  BY DEF Pause
<1> HIDE DEF x, b
<1>5. Rested(d, o, p) /\ p.cur = x
  <2>1. IsOperation(d, p)
    BY <1>1, <1>2, <1>3, GoToType
  <2>2. /\ InOrder(d, p) /\ p.cur = x /\ p.run_step = b.run_step
        /\ p.st["RUN"] = FinalizeState(d["RUN"], b.st["RUN"])
    BY <1>1, <1>2, <1>3, GoToEffect
  <2> QED
    BY <1>3, <2>1, <2>2 DEF Rested
<1> HIDE DEF p
<1>6. CASE x = "PAUSE"
  BY <1>4, <1>5, <1>6
<1>7. CASE x = "PAUSING"
  <2>1. Pause(d, p) = q
    BY <1>5, <1>7 DEF Pause
  <2>2. IsOperation(d, q)
    BY <1>1, <1>5, GoToType DEF Rested
  <2>3. /\ InOrder(d, q) /\ q.cur = "PAUSE" /\ q.run_step = p.run_step
        /\ q.st["RUN"] = p.st["RUN"]
    BY <1>1, <1>5, <1>7, GoToEffect DEF Rested
  <2>4. Rested(d, o, q)
    BY <1>5, <2>2, <2>3 DEF Rested
  <2> QED
    BY <1>4, <1>5, <1>7, <2>1, <2>3, <2>4
<1> QED
  BY <1>2, <1>6, <1>7

(* to_run_state gives RUN back what it did.                                *)
LEMMA ToRunStateRestores ==
    ASSUME NEW d, IsDescribed(d), NEW o, IsOperation(d, o), InOrder(d, o),
           RunState(o).step > 0,
           NEW q, IsOperation(d, q), q.run_step = RunState(o).step,
           q.st["RUN"] = FinalizeState(d["RUN"], Save(RunState(o)))
    PROVE  LET s == RunState(o)
               p == ToRunState(d, q, 0)
               r == RunState(p)
           IN  /\ p.cur = "RUN"
               /\ r.step = s.step
               /\ r.extra = s.extra
               /\ s.dur[s.step] # 0 => EvalTime(r, s.step) = EvalTime(s, s.step)
<1> DEFINE c == d["RUN"]
           s == RunState(o)
           k == s.step
           v == Save(s)
           f == FinalizeState(c, v)
           l == Load(f)
           run == InitState(c, l, k)
           r == AddDxStepTime(run)
           p == ToRunState(d, q, 0)
<1>1. "RUN" \in StateIdx /\ Description(c)
  BY DEF StateIdx, IsDescribed
<1>2. s \in StateType(c) /\ Clocked(c, s)
  BY <1>1, PartsType DEF RunState, InOrder, AllClocked
<1>3. k \in Steps(c) /\ k > 0
  BY <1>1, <1>2, StepNumbers DEF StateType, Steps
<1>4. /\ v \in StateType(c) /\ v.step = k /\ v.saved = s.extra
      /\ v.dur = s.dur /\ v.time = s.time /\ v.dx = s.dx
  BY <1>1, <1>2, SaveLoadType DEF Save, StateType
<1>5. p.cur = "RUN" /\ RunState(p) = r
  <2>1. ResumeStep(q, 0) = k
    BY <1>3 DEF ResumeStep
  <2>2. p = [q EXCEPT !.cur = "RUN", !.st["RUN"] = r]
    BY <2>1 DEF ToRunState, RunState
  <2> HIDE DEF r, p
  <2> QED
    BY <1>1, <2>2 DEF IsOperation, RunState
<1> HIDE DEF s, k, v, p
<1>6. /\ f \in StateType(c) /\ f.saved = s.extra /\ f.dur = s.dur
      /\ f.time = s.time /\ f.dxstep = EvalTime(v, k)
  BY <1>1, <1>3, <1>4, FinalizeStateType, FinalizeStateEffect
<1>7. EvalTime(v, k) = EvalTime(s, k)
  BY <1>4 DEF EvalTime
<1> HIDE DEF f
<1>8. /\ l \in StateType(c) /\ l.extra = s.extra /\ l.dur = s.dur
      /\ l.time = s.time /\ l.dxstep = EvalTime(s, k)
  BY <1>1, <1>6, <1>7, SaveLoadType DEF Load, StateType
<1> HIDE DEF l
<1>9. /\ run \in StateType(c) /\ run.step = k /\ run.extra = s.extra
      /\ run.dxstep = EvalTime(s, k)
      /\ s.dur[k] # 0 /\ k \in Limited(c, l) => run.time[k] = 0
      /\ k \notin Limited(c, l) => run.time[k] = s.time[k]
  BY <1>1, <1>3, <1>8, InitStateType, InitStateEffect
<1> HIDE DEF run
<1>10. /\ r.step = k /\ r.extra = s.extra /\ r.time = run.time
       /\ r.dx[k] = EvalTime(s, k)
  BY <1>3, <1>9 DEF AddDxStepTime, StateType
<1> HIDE DEF r
<1>11. ASSUME s.dur[k] # 0
       PROVE  EvalTime(r, k) = EvalTime(s, k)
  <2>1. EvalTime(s, k) \in 0..MaxTick
    BY <1>2, <1>3, EvalTimeType
  <2>2. CASE k \in Limited(c, l)
    <3>1. r.time[k] + r.dx[k] = EvalTime(s, k)
      BY <1>9, <1>10, <1>11, <2>1, <2>2
    <3>2. Saturate(EvalTime(s, k)) = EvalTime(s, k)
      BY <2>1, MaxTickAssumption DEF Saturate
    <3>3. EvalTime(r, k) = Saturate(r.time[k] + r.dx[k])
      BY DEF EvalTime
    <3> QED
      BY <3>1, <3>2, <3>3
  <2>3. CASE k \notin Limited(c, l)
    <3>1. k \notin Limited(c, s)
      BY <1>8, <2>3 DEF Limited
    <3>2. s.time[k] = MaxTick /\ r.time[k] = MaxTick
      BY <1>2, <1>3, <1>9, <1>10, <2>3, <3>1 DEF Clocked
    <3>3. \A n \in 0..MaxTick : Saturate(MaxTick + n) = MaxTick
      BY MaxTickAssumption DEF Saturate
    <3>4. s.dx[k] \in 0..MaxTick
      BY <1>2, <1>3 DEF StateType
    <3>5. EvalTime(s, k) = MaxTick
      BY <3>2, <3>3, <3>4 DEF EvalTime
    <3>6. EvalTime(r, k) = MaxTick
      BY <1>10, <2>1, <3>2, <3>3 DEF EvalTime
    <3> QED
      BY <3>5, <3>6
  <2> QED
    BY <2>2, <2>3
<1> QED
  BY <1>5, <1>10, <1>11 DEF s, k, p

(* Pausing and resuming gives an operation back what it did.               *)
LEMMA PausedAndResumedRestores ==
    ASSUME NEW d, IsDescribed(d), NEW o, IsOperation(d, o), InOrder(d, o),
           o.cur = "RUN", RunState(o).step > 0
    PROVE  LET s == RunState(o)
               p == PausedAndResumed(d, o)
               r == RunState(p)
           IN  /\ p.cur = "RUN"
               /\ r.step = s.step
               /\ r.extra = s.extra
               /\ s.dur[s.step] # 0 => EvalTime(r, s.step) = EvalTime(s, s.step)
<1> DEFINE paused == Pause(d, o)
           rested == IF paused.cur = "PAUSING" THEN Pause(d, paused) ELSE paused
           started == Start(d, rested, 0)
           p == PausedAndResumed(d, o)
<1>1. p = IF started.cur = "UNPAUSING" THEN Start(d, started, 0) ELSE started
  BY DEF PausedAndResumed
<1>2. Rested(d, o, rested) /\ rested.cur = "PAUSE"
  BY PausedRests
<1>3. {"RUN", "PAUSE", "UNPAUSING"} \subseteq StateIdx
  BY DEF StateIdx
<1> HIDE DEF rested, p
<1> SUFFICES \E q : /\ IsOperation(d, q) /\ q.run_step = RunState(o).step
                    /\ q.st["RUN"] = FinalizeState(d["RUN"], Save(RunState(o)))
                    /\ p = ToRunState(d, q, 0)
  BY ToRunStateRestores DEF p
<1>4. CASE d["UNPAUSING"].empty
  <2> DEFINE q == Leave(d, rested)
  <2>1. started = ToRunState(d, q, 0)
    BY <1>2, <1>4 DEF Start
  <2>2. IsOperation(d, q) /\ q.run_step = rested.run_step
    BY <1>2, LeaveType DEF Rested
  <2>3. q.st["RUN"] = rested.st["RUN"]
    BY <1>2, <1>3, LeaveEffect DEF Rested
  <2> HIDE DEF q, started
  <2>4. started.cur = "RUN"
    BY <2>1, <2>2, ToRunStateType
  <2>5. p = ToRunState(d, q, 0)
    BY <1>1, <2>1, <2>4
  <2> QED
    BY <1>2, <2>2, <2>3, <2>5 DEF Rested
<1>5. CASE ~ d["UNPAUSING"].empty
  <2> DEFINE q == GoTo(d, rested, "UNPAUSING")
  <2>1. started = q
    BY <1>2, <1>5 DEF Start
  <2>2. IsOperation(d, q) /\ q.cur = "UNPAUSING"
    BY <1>2, <1>3, GoToType DEF Rested
  <2>3. q.run_step = rested.run_step /\ q.st["RUN"] = rested.st["RUN"]
    BY <1>2, <1>3, GoToEffect DEF Rested
  <2> HIDE DEF q, started
  <2>4. p = ToRunState(d, q, 0)
    BY <1>1, <2>1, <2>2 DEF Start
  <2> QED
    BY <1>2, <2>2, <2>3, <2>4 DEF Rested
<1> QED
  BY <1>4, <1>5

-----------------------------------------------------------------------------
(* The theorems.                                                           *)

(* No step is left running: whatever commands, step calls, signals, checks *)
(* and time do, only the active step and the listed extra steps of the     *)
(* current state run (operation_state::finalize reaches all of them) and   *)
(* nothing runs in any other state, UNPAUSING apart.                       *)
THEOREM NothingIsLeftRunning == Spec => []NothingLeftRunning
<1>1. Init => StepInv
  BY InitInOrder
<1>2. StepInv /\ [Next]_vars => StepInv'
  BY NextKeepsInOrder
<1>3. StepInv => NothingLeftRunning
  BY DEF StepInv, AllInOrder, InOrder, NothingLeftRunning
<1> QED
  BY <1>1, <1>2, <1>3, PTL DEF Spec

(* Pausing and resuming gives an operation back its active step, its extra *)
(* steps and the time the step had run, wherever a sequence of calls has   *)
(* brought it: a step without duration or maximal time never had its clock *)
(* started (Clocked), so it has run "for ever" before and after.           *)
THEOREM ResumeGivesBack == Spec => []ResumeRestoresRun
<1>1. Init => StepInv
  BY InitInOrder
<1>2. StepInv /\ [Next]_vars => StepInv'
  BY NextKeepsInOrder
<1>3. StepInv => ResumeRestoresRun
  <2> SUFFICES ASSUME StepInv, NEW i \in Operations,
                      ops[i].cur = "RUN", RunState(ops[i]).step > 0
               PROVE  LET s == RunState(ops[i])
                          o == PausedAndResumed(Desc[i], ops[i])
                          r == RunState(o)
                      IN  /\ o.cur = "RUN"
                          /\ r.step = s.step
                          /\ r.extra = s.extra
                          /\ s.dur[s.step] # 0 =>
                                EvalTime(r, s.step) = EvalTime(s, s.step)
    BY DEF ResumeRestoresRun
  <2>1. /\ IsDescribed(Desc[i]) /\ IsOperation(Desc[i], ops[i])
        /\ InOrder(Desc[i], ops[i])
    BY OperationDescribed DEF StepInv, SoundInv, TypeOK, AllInOrder
  <2> QED
    BY <2>1, PausedAndResumedRestores
<1> QED
  BY <1>1, <1>2, <1>3, PTL DEF Spec

(* While an operation is paused nothing changes what it will resume with:  *)
(* neither cycles nor commands nor step calls reach RUN.                   *)
THEOREM ResumePointIsKept == Spec => ResumePointKept
<1>1. Init => StepInv
  BY InitInOrder
<1>2. StepInv /\ [Next]_vars => StepInv'
  BY NextKeepsInOrder
<1> DEFINE Kept == \A i \in Operations :
                      ops[i].cur \in PausedStates /\ ops'[i].cur \in PausedStates =>
                          ResumePoint(ops'[i]) = ResumePoint(ops[i])
<1>3. ASSUME StepInv, [Next]_vars
      PROVE  Kept
  <2>1. TypeOK /\ AllInOrder
    BY <1>3 DEF StepInv, SoundInv
  <2>2. CASE UNCHANGED ops
    BY <2>2
  <2>3. CASE Tick
    BY <2>1, <2>3, TickSteps DEF KeepsResumePoint
  <2>4. ASSUME NEW i \in Operations, OperationStep(i)
        PROVE  Kept
    BY <2>4 DEF OperationStep, Stepped, KeepsResumePoint
  <2> QED
    BY <1>3, <2>1, <2>2, <2>3, <2>4, NextStepped
<1>4. StepInv /\ [Next]_vars => [Kept]_vars
  BY <1>3
<1> QED
  BY <1>1, <1>2, <1>4, PTL DEF Spec, ResumePointKept

(* The active step of an operation runs once the cycle has evaluated it.   *)
EvaluatedRuns ==
    /\ turn = 0 => ~ checking
    /\ \A i \in Operations : turn = i /\ checking => CurrentRuns(ops[i])

RunsInv == StepInv /\ EvaluatedRuns

(* RunsInv is inductive: checking is set by the evaluation of an operation *)
(* alone, and only the check of that operation comes next.                 *)
LEMMA NextKeepsEvaluatedRuns ==
    ASSUME RunsInv, [Next]_vars
    PROVE  RunsInv'
<1>1. StepInv' /\ TypeOK /\ AllInOrder
  BY NextKeepsInOrder DEF RunsInv, StepInv, SoundInv
<1>2. checking \in BOOLEAN /\ \A i \in Operations : i # 0
  BY <1>1, NAssumption DEF TypeOK, Operations
<1>3. CASE UNCHANGED vars
  BY <1>1, <1>3 DEF RunsInv, EvaluatedRuns, vars
<1>4. CASE StartCycle
  BY <1>1, <1>4, <1>2 DEF RunsInv, EvaluatedRuns, StartCycle
<1>5. CASE turn = 0 /\ UNCHANGED <<turn, checking>>
  BY <1>1, <1>2, <1>5 DEF RunsInv, EvaluatedRuns
<1>6. ASSUME NEW i \in Operations, EvaluateOperation(i)
      PROVE  RunsInv'
  <2>1. turn' = i /\ CurrentRuns(ops'[i])
    BY <1>1, <1>6, EvaluateOperationSteps DEF EvaluateOperation, Proceed
  <2> QED
    BY <1>1, <1>2, <2>1 DEF RunsInv, EvaluatedRuns
<1>7. ASSUME NEW i \in Operations, CheckOperation(i)
      PROVE  RunsInv'
  <2>1. checking' = FALSE
    BY <1>7 DEF CheckOperation, Proceed
  <2> QED
    BY <1>1, <2>1 DEF RunsInv, EvaluatedRuns
<1> QED
  BY <1>3, <1>4, <1>5, <1>6, <1>7
     DEF Next, Tick, Command, CallToStep, CallToNextStep,
         CallTurnOffActiveStep, CallOnExtraStep, CallOffExtraStep,
         CallSwitchActiveExtraStep, SaveDuration, StepCall, Between

(* After the cycle has evaluated an operation its active step runs or is   *)
(* about to be left, even if a step call turned it off in between.         *)
THEOREM ActiveStepsRun == Spec => []ActiveStepRuns
<1>1. Init => RunsInv
  BY InitInOrder, NAssumption DEF RunsInv, EvaluatedRuns, Init, Operations
<1>2. RunsInv /\ [Next]_vars => RunsInv'
  BY NextKeepsEvaluatedRuns
<1>3. RunsInv => ActiveStepRuns
  BY DEF RunsInv, EvaluatedRuns, ActiveStepRuns, CurrentRuns, ActiveRuns, Current
<1> QED
  BY <1>1, <1>2, <1>3, PTL DEF Spec

(* A request to start that was refused until the waiting time was over     *)
(* starts the operation no more, neither in a cycle's evaluation nor in    *)
(* its checks: only a command does.                                        *)
THEOREM FailedStartIsNotRepeated == Spec => NoAutoStartAfterFailure
<1>1. Init => StepInv
  BY InitInOrder
<1>2. StepInv /\ [Next]_vars => StepInv'
  BY NextKeepsInOrder
<1> DEFINE Waits == \A i \in Operations :
                       ops[i].cur = "IDLE" /\ ops[i].failed /\ ops'[i].cur # "IDLE"
                           => turn = 0
<1>3. ASSUME StepInv, [Next]_vars
      PROVE  Waits \/ UNCHANGED vars
  <2>1. TypeOK /\ AllInOrder
    BY <1>3 DEF StepInv, SoundInv
  <2>2. CASE turn = 0
    BY <2>2
  <2>3. ASSUME NEW i \in Operations, EvaluateOperation(i)
        PROVE  Waits
    BY <2>1, <2>3, EvaluateOperationSteps DEF OperationStep
  <2>4. ASSUME NEW i \in Operations, CheckOperation(i)
        PROVE  Waits
    BY <2>1, <2>4, CheckOperationSteps DEF OperationStep
  <2> HIDE DEF Waits
  <2> QED
    BY <1>3, <2>2, <2>3, <2>4
       DEF Next, StartCycle, Tick, Command, CallToStep, CallToNextStep,
           CallTurnOffActiveStep, CallOnExtraStep, CallOffExtraStep,
           CallSwitchActiveExtraStep, SaveDuration, StepCall, Between
<1>4. StepInv /\ [Next]_vars => [Waits]_vars
  BY <1>3
<1> QED
  BY <1>1, <1>2, <1>4, PTL DEF Spec, NoAutoStartAfterFailure

-----------------------------------------------------------------------------
(* TechObject implements OperationLifecycle.                               *)

(* A step of an operation is a move, an end or no step of the life cycle.  *)
LEMMA SteppedIsMove ==
    ASSUME TypeOK, TypeOK', NEW i \in Operations, OperationStep(i)
    PROVE  \/ Lifecycle!Move(i)
           \/ Lifecycle!End(i)
           \/ [j \in Operations |-> ops[j].cur]' = [j \in Operations |-> ops[j].cur]
<1> DEFINE d == Desc[i]
           x == ops[i].cur
           y == ops'[i].cur
           state == [j \in Operations |-> ops[j].cur]
           Des == [j \in Operations |-> {z \in StateIdx : ~ Desc[j][z].empty}]
<1>1. x \in StateIdx /\ y \in StateIdx
  BY PartsType DEF TypeOK
<1>2. state' = [state EXCEPT ![i] = y]
  BY DEF OperationStep
<1>3. \A z \in StateIdx : z \in Des[i] <=> ~ d[z].empty
  OBVIOUS
<1>4. \A z, target : z \in StateIdx => Lifecycle!Through(i, z, target) = Unless(d, z, target)
  BY <1>3 DEF Lifecycle!Through, Unless
<1>5. /\ Lifecycle!Started(i) = Unless(d, "STARTING", "RUN")
      /\ Lifecycle!Stopped(i) = Unless(d, "STOPPING", "STOP")
      /\ Lifecycle!Through(i, "PAUSING", "PAUSE") = Unless(d, "PAUSING", "PAUSE")
      /\ Lifecycle!Through(i, "UNPAUSING", "RUN") = Unless(d, "UNPAUSING", "RUN")
  BY <1>4 DEF Lifecycle!Started, Lifecycle!Stopped, StateIdx
<1>6. \/ y = x
      \/ Edge(d, x, y)
      \/ x # "IDLE" /\ y \in {"IDLE", Unless(d, "STARTING", "RUN")}
  BY DEF OperationStep, Stepped
<1>7. CASE y = x
  <2>1. \A j \in Operations : ops'[j].cur = ops[j].cur
    BY <1>7 DEF OperationStep
  <2> QED
    BY <2>1
<1>8. CASE Edge(d, x, y)
  <2>1. <<x, y>> \in Lifecycle!Edges(i)
    BY <1>5, <1>8 DEF Edge, Lifecycle!Edges
  <2>2. y \in {e[2] : e \in {g \in Lifecycle!Edges(i) : g[1] = state[i]}}
    BY <2>1
  <2> HIDE DEF x, y
  <2> QED
    BY <1>2, <2>2 DEF Lifecycle!Move
<1>9. CASE x # "IDLE" /\ y \in {"IDLE", Unless(d, "STARTING", "RUN")}
  <2>1. state[i] # "IDLE" /\ y \in {"IDLE", Lifecycle!Started(i)}
    BY <1>5, <1>9
  <2> HIDE DEF x, y
  <2> QED
    BY <1>2, <2>1 DEF Lifecycle!End
<1> QED
  BY <1>6, <1>7, <1>8, <1>9

(* The operations keep the promise of OperationLifecycle: they move along  *)
(* its edges only, one at a time, never past a described transitional      *)
(* state, and leave STOP only to be turned off.                            *)
THEOREM LifecycleIsKept == Spec => KeepsLifecycle
<1>1. Init => StepInv
  BY InitInOrder
<1>2. StepInv /\ [Next]_vars => StepInv'
  BY NextKeepsInOrder
<1>3. Init => Lifecycle!Init
  BY DEF Init, Lifecycle!Init, NewOperation
<1>4. ASSUME StepInv, [Next]_vars
      PROVE  \/ Lifecycle!Next
             \/ UNCHANGED [i \in Operations |-> ops[i].cur]
  <2>1. StepInv' /\ TypeOK /\ TypeOK' /\ AllInOrder
    BY <1>4, <1>2 DEF StepInv, SoundInv
  <2>2. CASE UNCHANGED ops
    BY <2>2
  <2>3. CASE Tick
    BY <2>1, <2>3, TickSteps
  <2>4. ASSUME NEW m \in Operations, OperationStep(m)
        PROVE  \/ Lifecycle!Next
               \/ UNCHANGED [i \in Operations |-> ops[i].cur]
    BY <2>1, <2>4, SteppedIsMove DEF Lifecycle!Next
  <2> QED
    BY <1>4, <2>1, <2>2, <2>3, <2>4, NextStepped
<1>5. StepInv /\ [Next]_vars
        => [Lifecycle!Next]_[i \in Operations |-> ops[i].cur]
  BY <1>4
<1>6. Spec => []StepInv
  BY <1>1, <1>2, PTL DEF Spec
<1>7. Spec => [][Lifecycle!Next]_[i \in Operations |-> ops[i].cur]
  BY <1>5, <1>6, PTL DEF Spec
<1>8. Spec => Lifecycle!Init
  BY <1>3, PTL DEF Spec
<1> QED
  BY <1>7, <1>8, PTL DEF KeepsLifecycle, Lifecycle!Spec

-----------------------------------------------------------------------------
(* The restrictions shown.                                                 *)

(* The operations that are on and restrict j, and those that are off and   *)
(* that j must not follow.                                                 *)
RestrictedBy(b, j) == {m \in Operations \ {j} : b[m] /\ <<j, m>> \in Restrictions}
MayFollow(b, j) == {m \in Operations : ~ b[m] /\ <<m, j>> \in FollowUps}

(* What is shown is what is in force and at most one for every operation   *)
(* that j must not follow and that is off: one that is on will add it when *)
(* it is turned off.                                                       *)
Shown(a, b, j) ==
    a[j] - Cardinality(RestrictedBy(b, j)) \in 0..Cardinality(MayFollow(b, j))

Counted(t) == \A j \in Operations : Shown(t.available, t.bit, j)

(* What an operation counts for when its bit is set or cleared.            *)
LEMMA CountChange ==
    ASSUME NEW b, NEW c, NEW i \in Operations, NEW j \in Operations,
           b[i], ~ c[i], \A m \in Operations \ {i} : b[m] = c[m]
    PROVE  /\ Cardinality(RestrictedBy(b, j)) = Cardinality(RestrictedBy(c, j))
                + (IF j # i /\ <<j, i>> \in Restrictions THEN 1 ELSE 0)
           /\ Cardinality(MayFollow(c, j)) = Cardinality(MayFollow(b, j))
                + (IF <<i, j>> \in FollowUps THEN 1 ELSE 0)
           /\ Cardinality(RestrictedBy(c, j)) \in Nat
           /\ Cardinality(MayFollow(b, j)) \in Nat
<1> DEFINE R == RestrictedBy(c, j)
           M == MayFollow(b, j)
<1>1. IsFiniteSet(Operations)
  BY FS_Interval, NAssumption DEF Operations
<1>2. R \in SUBSET Operations /\ M \in SUBSET Operations
  BY DEF RestrictedBy, MayFollow
<1>3. i \notin R /\ i \notin M
  BY DEF RestrictedBy, MayFollow
<1>4. RestrictedBy(b, j) = IF j # i /\ <<j, i>> \in Restrictions THEN R \cup {i}
                           ELSE R
  BY DEF RestrictedBy
<1>5. MayFollow(c, j) = IF <<i, j>> \in FollowUps THEN M \cup {i} ELSE M
  BY DEF MayFollow
<1> HIDE DEF R, M
<1>6. IsFiniteSet(R) /\ IsFiniteSet(M)
  BY <1>1, <1>2, FS_Subset
<1>7. Cardinality(R \cup {i}) = Cardinality(R) + 1
  BY <1>3, <1>6, FS_AddElement
<1>8. Cardinality(M \cup {i}) = Cardinality(M) + 1
  BY <1>3, <1>6, FS_AddElement
<1>9. Cardinality(R) \in Nat /\ Cardinality(M) \in Nat
  BY <1>6, FS_CardinalityType
<1>10. Cardinality(RestrictedBy(b, j))
         = Cardinality(R) + (IF j # i /\ <<j, i>> \in Restrictions THEN 1 ELSE 0)
  BY <1>4, <1>7, <1>9
<1>11. Cardinality(MayFollow(c, j))
         = Cardinality(M) + (IF <<i, j>> \in FollowUps THEN 1 ELSE 0)
  BY <1>5, <1>8, <1>9
<1> QED
  BY <1>9, <1>10, <1>11 DEF R, M

(* lua_final_mode of an operation whose bit was set.                       *)
LEMMA FinalModeCounted ==
    ASSUME NEW t, ObjectType(t), NEW i \in Operations, t.bit[i], Counted(t),
           NEW w, ObjectType(w), w.available = t.available,
           ~ w.bit[i], \A m \in Operations \ {i} : t.bit[m] = w.bit[m]
    PROVE  Counted(FinalMode(w, i))
<1> DEFINE v == FinalMode(w, i)
           a == [j \in Operations |->
            w.available[j] - (IF j # i /\ <<j, i>> \in Restrictions THEN 1 ELSE 0)
                           + (IF <<i, j>> \in FollowUps THEN 1 ELSE 0)]
<1>1. v = [w EXCEPT !.available = a]
  BY DEF FinalMode
<1> HIDE DEF a
<1>2. v.bit = w.bit /\ v.available = a
  BY <1>1 DEF ObjectType
<1> HIDE DEF v
<1>3. ASSUME NEW j \in Operations
      PROVE  Shown(a, w.bit, j)
  <2> DEFINE r == IF j # i /\ <<j, i>> \in Restrictions THEN 1 ELSE 0
             f == IF <<i, j>> \in FollowUps THEN 1 ELSE 0
             R == Cardinality(RestrictedBy(w.bit, j))
             M == Cardinality(MayFollow(t.bit, j))
  <2>1. /\ Cardinality(RestrictedBy(t.bit, j)) = R + r
        /\ Cardinality(MayFollow(w.bit, j)) = M + f
        /\ R \in Nat /\ M \in Nat
    BY CountChange
  <2>2. t.available[j] - Cardinality(RestrictedBy(t.bit, j))
           \in 0..Cardinality(MayFollow(t.bit, j))
    BY DEF Counted, Shown
  <2>3. a[j] = t.available[j] - r + f /\ t.available[j] \in Int
    BY DEF a, ObjectType
  <2>4. r \in {0, 1} /\ f \in {0, 1}
    OBVIOUS
  <2> HIDE DEF r, f, R, M
  <2>5. t.available[j] - (R + r) \in 0..M
    BY <2>1, <2>2 DEF M
  <2>6. a[j] - R \in 0..(M + f)
    BY <2>1, <2>3, <2>4, <2>5
  <2> QED
    BY <2>1, <2>6 DEF Shown, R
<1>4. Counted(v)
  BY <1>2, <1>3 DEF Counted
<1> QED
  BY <1>4 DEF v

(* What a call does to the bits and to what is shown.                      *)
SameCount(t, u) == u.bit = t.bit /\ u.available = t.available

CountsOn(t, u, i) ==
    /\ Counted(t) => Counted(u)
    /\ ~ t.bit[i] => SameCount(t, u)

(* The count depends on the counters and the operations only.              *)
LEMMA SameCounted ==
    ASSUME NEW t, NEW u, SameCount(t, u), Counted(t)
    PROVE  Counted(u)
BY DEF SameCount, Counted

(* set_mode( i, OFF ).                                                     *)
LEMMA SetModeOffCounted ==
    ASSUME NEW t, NEW i \in Operations, ObjectType(t),
           NEW u \in Objects(SetModeOff(t, i))
    PROVE  CountsOn(t, u, i)
<1> DEFINE b == WithBit(t, i, FALSE)
           o == FinalizeOperation(Desc[i], t.ops[i])
           w == WithOp(b, i, o)
<1>1. Touches(t, b, i) /\ b.bit[i] = FALSE /\ b.available = t.available
  BY WithBitType
<1>2. IsOperation(Desc[i], o)
  BY OperationDescribed, FinalizeOperationType DEF ObjectType
<1>3. PICK r \in SetModeOff(t, i) : u = r.obj
  BY DEF Objects
<1>4. \/ r \in {[obj |-> t, res |-> "already"], [obj |-> t, res |-> "refused"]}
      \/ t.bit[i] /\ r = [obj |-> FinalMode(w, i), res |-> "done"]
  BY <1>3 DEF SetModeOff
<1> HIDE DEF b, o
<1>5. ObjectType(w) /\ w.bit = b.bit /\ w.available = b.available
  BY <1>1, <1>2, WithOpType DEF Touches
<1> HIDE DEF w
<1>6. u = t \/ (t.bit[i] /\ u = FinalMode(w, i))
  BY <1>3, <1>4
<1>7. ASSUME t.bit[i], Counted(t)
      PROVE  Counted(FinalMode(w, i))
  BY <1>1, <1>5, <1>7, FinalModeCounted DEF Touches
<1> QED
  BY <1>6, <1>7 DEF CountsOn, SameCount

(* Calls that count, one after the other.                                  *)
LEMMA CountsAfter ==
    ASSUME NEW t, NEW w, NEW u, NEW i \in Operations,
           SameCount(t, w), CountsOn(w, u, i)
    PROVE  CountsOn(t, u, i)
BY SameCounted DEF CountsOn, SameCount

(* evaluate().                                                             *)
LEMMA EvaluationCounted ==
    ASSUME NEW t, NEW i \in Operations, ObjectType(t), NEW u \in Evaluations(t, i)
    PROVE  CountsOn(t, u, i)
<1>1. PICK in \in EvaluationInputs(Desc[i], t.ops[i]) :
         LET e == WithOp(t, i, EvaluateCurrent(Desc[i], t.ops[i], in))
         IN  u = e \/ u \in Objects(SetModeOff(e, i))
  BY DEF Evaluations
<1> DEFINE o == EvaluateCurrent(Desc[i], t.ops[i], in)
           e == WithOp(t, i, o)
<1>2. IsOperation(Desc[i], o)
  BY OperationDescribed, EvaluateCurrentType DEF ObjectType
<1>3. u = e \/ u \in Objects(SetModeOff(e, i))
  BY <1>1
<1> HIDE DEF o
<1>4. ObjectType(e) /\ SameCount(t, e)
  BY <1>2, WithOpType DEF Touches, SameCount
<1> HIDE DEF e
<1>5. CountsOn(e, u, i)
  BY <1>3, <1>4, SetModeOffCounted DEF CountsOn, SameCount
<1> QED
  BY <1>4, <1>5, CountsAfter

(* A call that replaces the operation and may end with evaluate().         *)
LEMMA EvaluatedIfCounted ==
    ASSUME NEW t, NEW i \in Operations, ObjectType(t), NEW o,
           IsOperation(Desc[i], o),
           NEW evaluates, NEW u \in EvaluatedIf(evaluates, WithOp(t, i, o), i)
    PROVE  CountsOn(t, u, i)
<1> DEFINE w == WithOp(t, i, o)
<1>1. ObjectType(w) /\ SameCount(t, w)
  BY WithOpType DEF Touches, SameCount
<1>2. u \in EvaluatedIf(evaluates, w, i)
  OBVIOUS
<1> HIDE DEF w
<1>3. u = w \/ u \in Evaluations(w, i)
  BY <1>2 DEF EvaluatedIf
<1>4. CountsOn(w, u, i)
  BY <1>1, <1>3, EvaluationCounted DEF CountsOn, SameCount
<1> QED
  BY <1>1, <1>4, CountsAfter

(* Every call of the object counts.                                        *)
LEMMA CallsCounted ==
    ASSUME NEW t, NEW i \in Operations, ObjectType(t), NEW k,
           NEW u \in PauseCall(t, i) \cup StopCall(t, i) \cup StartCall(t, i, k)
    PROVE  CountsOn(t, u, i)
<1>1. IsDescribed(Desc[i]) /\ IsOperation(Desc[i], t.ops[i])
  BY OperationDescribed DEF ObjectType
<1>2. CASE u \in PauseCall(t, i)
  BY <1>1, <1>2, PauseType, EvaluatedIfCounted DEF PauseCall
<1>3. CASE u \in StopCall(t, i)
  BY <1>1, <1>3, StopType, EvaluatedIfCounted DEF StopCall
<1>4. CASE u \in StartCall(t, i, k)
  BY <1>1, <1>4, StartType, EvaluatedIfCounted DEF StartCall
<1> QED
  BY <1>2, <1>3, <1>4

(* lua_init_mode before the bit is set: everything is counted anew.        *)
LEMMA InitModeCounted ==
    ASSUME NEW t, NEW i \in Operations, ObjectType(t), ~ t.bit[i]
    PROVE  Counted(WithBit(InitMode(t, i), i, TRUE))
<1> DEFINE on == {j \in Operations : t.bit[j]}
           by(j, J) == Cardinality({m \in J \ {j} : <<j, m>> \in Restrictions})
           a == [j \in Operations |-> by(j, on) + by(j, {i})]
           v == InitMode(t, i)
           w == WithBit(v, i, TRUE)
<1>1. v = [t EXCEPT !.available = a]
  BY DEF InitMode
<1>2. ASSUME NEW j \in Operations
      PROVE  by(j, on) = Cardinality(RestrictedBy(t.bit, j))
  <2>1. {m \in on \ {j} : <<j, m>> \in Restrictions} = RestrictedBy(t.bit, j)
    BY DEF RestrictedBy
  <2> QED
    BY <2>1
<1>3. ASSUME NEW j \in Operations
      PROVE  by(j, {i}) = IF j # i /\ <<j, i>> \in Restrictions THEN 1 ELSE 0
  <2>1. {m \in {i} \ {j} : <<j, m>> \in Restrictions}
           = IF j # i /\ <<j, i>> \in Restrictions THEN {i} ELSE {}
    OBVIOUS
  <2>2. Cardinality({i}) = 1 /\ Cardinality({}) = 0
    BY FS_Singleton, FS_EmptySet
  <2> QED
    BY <2>1, <2>2
<1> HIDE DEF on, by
<1>4. \A j \in Operations :
         a[j] = Cardinality(RestrictedBy(t.bit, j))
                  + (IF j # i /\ <<j, i>> \in Restrictions THEN 1 ELSE 0)
  BY <1>2, <1>3
<1> HIDE DEF a
<1>5. ObjectType(v) /\ v.bit = t.bit
  BY InitModeType DEF Touches
<1>6. v.available = a
  BY <1>1 DEF ObjectType
<1> HIDE DEF v
<1>7. Touches(v, w, i) /\ w.bit[i] = TRUE /\ w.available = a
  BY <1>5, <1>6, WithBitType
<1> HIDE DEF w
<1>8. ASSUME NEW j \in Operations, NEW b, b[i],
             \A m \in Operations \ {i} : b[m] = t.bit[m]
      PROVE  Shown(a, b, j)
  <2> DEFINE R == Cardinality(RestrictedBy(t.bit, j))
             M == Cardinality(MayFollow(b, j))
             r == IF j # i /\ <<j, i>> \in Restrictions THEN 1 ELSE 0
  <2>1. /\ Cardinality(RestrictedBy(b, j)) = R + r
        /\ Cardinality(MayFollow(t.bit, j))
              = M + (IF <<i, j>> \in FollowUps THEN 1 ELSE 0)
        /\ R \in Nat /\ M \in Nat
    BY <1>8, CountChange
  <2>2. a[j] = R + r /\ r \in {0, 1}
    BY <1>4
  <2> HIDE DEF R, M, r
  <2>3. a[j] - (R + r) = 0 /\ 0 \in 0..M
    BY <2>1, <2>2
  <2> QED
    BY <2>1, <2>3 DEF Shown, M
<1>9. Counted(w)
  BY <1>5, <1>7, <1>8 DEF Counted, Touches
<1> QED
  BY <1>9 DEF w, v

(* set_mode( i, RUN ).                                                     *)
LEMMA SetModeRunCounted ==
    ASSUME NEW t, NEW i \in Operations, ObjectType(t), Counted(t),
           NEW r \in SetModeRun(t, i)
    PROVE  Counted(r.obj)
<1>1. CASE t.bit[i]
  <2>1. r.obj = t \/ \E k : r.obj \in StartCall(t, i, k)
    BY <1>1 DEF SetModeRun, Resume
  <2> QED
    BY <2>1, CallsCounted DEF CountsOn
<1>2. CASE ~ t.bit[i]
  <2>1. \/ r = [obj |-> t, res |-> "refused"]
        \/ \E u \in StartCall(t, i, t.ops[i].run_step) :
              r = [obj |-> WithBit(InitMode(u, i), i, TRUE), res |-> "done"]
    BY <1>2 DEF SetModeRun, SwitchOn
  <2>2. ASSUME NEW u \in StartCall(t, i, t.ops[i].run_step),
               r = [obj |-> WithBit(InitMode(u, i), i, TRUE), res |-> "done"]
        PROVE  Counted(r.obj)
    <3>1. ObjectType(u) /\ u.bit = t.bit
      BY <1>2, StartCallCall, CallsCounted DEF Touches, CountsOn, SameCount
    <3>2. Counted(WithBit(InitMode(u, i), i, TRUE))
      BY <1>2, <3>1, InitModeCounted
    <3> QED
      BY <2>2, <3>2
  <2>3. CASE r = [obj |-> t, res |-> "refused"]
    <3>1. r.obj = t
      BY <2>3
    <3> QED
      BY <3>1
  <2> QED
    BY <2>1, <2>2, <2>3
<1> QED
  BY <1>1, <1>2

(* Setting a bit that is set.                                              *)
LEMMA WithBitSame ==
    ASSUME NEW t, NEW i \in Operations, ObjectType(t), t.bit[i]
    PROVE  ObjectType(WithBit(t, i, TRUE)) /\ SameCount(t, WithBit(t, i, TRUE))
<1> DEFINE b == WithBit(t, i, TRUE)
<1>1. Touches(t, b, i) /\ b.bit[i] = TRUE /\ b.available = t.available
  BY WithBitType
<1>2. t.bit[i] = TRUE
  BY DEF ObjectType
<1>3. b.bit \in [Operations -> BOOLEAN] /\ t.bit \in [Operations -> BOOLEAN]
  BY <1>1 DEF Touches, ObjectType
<1>4. \A m \in Operations : b.bit[m] = t.bit[m]
  BY <1>1, <1>2 DEF Touches
<1> HIDE DEF b
<1>5. b.bit = t.bit
  BY <1>3, <1>4
<1> QED
  BY <1>1, <1>5 DEF Touches, SameCount, b

(* set_mode( i, mode ), unless an operation whose bit is not set is paused *)
(* or stopped.                                                             *)
LEMMA SetModeCounted ==
    ASSUME NEW t, NEW i \in Operations, ObjectType(t), Counted(t),
           NEW mode \in Modes, t.bit[i] \/ mode \in {"OFF", "RUN"},
           NEW u \in Objects(SetMode(t, i, mode))
    PROVE  Counted(u)
<1>1. CASE mode = "OFF"
  BY <1>1, SetModeOffCounted DEF SetMode, CountsOn
<1>2. CASE mode = "RUN"
  BY <1>2, SetModeRunCounted DEF SetMode, Objects
<1>3. CASE mode \in {"PAUSE", "STOP"}
  <2> DEFINE b == WithBit(t, i, TRUE)
  <2>1. u = t \/ u \in PauseCall(b, i) \cup StopCall(b, i)
    <3>1. PICK r \in SetModePause(t, i) \cup SetModeStop(t, i) : u = r.obj
      BY <1>3 DEF SetMode, Objects
    <3>2. \/ r = [obj |-> t, res |-> "refused"]
          \/ \E w \in PauseCall(b, i) \cup StopCall(b, i) :
                r = [obj |-> w, res |-> "done"]
      BY DEF SetModePause, SetModeStop
    <3> HIDE DEF b
    <3> QED
      BY <3>1, <3>2
  <2>2. t.bit[i]
    BY <1>3
  <2>3. ObjectType(b) /\ SameCount(t, b)
    BY <2>2, WithBitSame
  <2> HIDE DEF b
  <2>4. Counted(b)
    BY <2>3, SameCounted
  <2>5. CASE u = t
    BY <2>5
  <2>6. CASE u \in PauseCall(b, i) \cup StopCall(b, i)
    BY <2>3, <2>4, <2>6, CallsCounted DEF CountsOn
  <2> QED
    BY <2>1, <2>5, <2>6
<1> QED
  BY <1>1, <1>2, <1>3 DEF Modes

(* An operation that remembers something else.                             *)
LEMMA WithOpCounted ==
    ASSUME NEW t, NEW i \in Operations, ObjectType(t), Counted(t),
           NEW o, IsOperation(Desc[i], o)
    PROVE  Counted(WithOp(t, i, o))
BY WithOpType, SameCounted DEF SameCount

(* process_auto_switch_on.                                                 *)
LEMMA AutoSwitchOnCounted ==
    ASSUME NEW t, NEW i \in Operations, ObjectType(t), Counted(t),
           NEW u \in AutoSwitchOn(t, i)
    PROVE  Counted(u)
<1> DEFINE o == t.ops[i]
           p == [o EXCEPT !.first = FALSE]
           q == [o EXCEPT !.failed = TRUE]
<1>1. IsOperation(Desc[i], p) /\ IsOperation(Desc[i], q)
  BY WithPartsType DEF ObjectType
<1>2. Counted(WithOp(t, i, p)) /\ Counted(WithOp(t, i, q))
  BY <1>1, WithOpCounted
<1>3. \A r \in SetModeRun(t, i) :
         Counted(r.obj) /\ (r.res # "done" => r.obj = t)
  BY SetModeRunCounted, SetModeRunKeeps
<1>4. CASE o.failed
  BY <1>4 DEF AutoSwitchOn
<1>5. CASE ~ o.failed /\ o.first
  <2>1. PICK r \in SetModeRun(t, i) :
           u = IF r.res = "done" THEN r.obj ELSE WithOp(r.obj, i, p)
    BY <1>5 DEF AutoSwitchOn
  <2> HIDE DEF p
  <2>2. u = r.obj \/ u = WithOp(t, i, p)
    BY <1>3, <2>1
  <2> QED
    BY <1>2, <1>3, <2>2
<1>6. CASE ~ o.failed /\ ~ o.first
  <2>1. u \in {t, WithOp(t, i, q)} \/ \E r \in SetModeRun(t, i) : u = r.obj
    BY <1>6 DEF AutoSwitchOn, Objects
  <2> QED
    BY <1>2, <1>3, <2>1
<1> QED
  BY <1>4, <1>5, <1>6

(* The signals: they pause and stop what is not IDLE only.                 *)
LEMMA SignalsCounted ==
    ASSUME NEW t, NEW i \in Operations, ObjectType(t), Counted(t), Sound(t, i),
           NEW u \in Signals(t, i)
    PROVE  Counted(u)
<1> DEFINE o == t.ops[i]
           p == [o EXCEPT !.first = TRUE]
           q == [o EXCEPT !.first = TRUE, !.failed = FALSE]
           mode(to) == Response(o.cur, to)
<1>1. u = WithOp(t, i, q)
      \/ \E to \in Request[i][o.cur] : u \in Requested(t, i, to)
  BY DEF Signals, NoRequest
<1>2. CASE u = WithOp(t, i, q)
  <2>1. IsOperation(Desc[i], p)
    BY WithPartsType DEF ObjectType
  <2>2. q = [p EXCEPT !.failed = FALSE]
    OBVIOUS
  <2> HIDE DEF p, q
  <2>3. IsOperation(Desc[i], q)
    BY <2>1, <2>2, RemembersType
  <2> QED
    BY <1>2, <2>3, WithOpCounted
<1>3. ASSUME NEW to, u \in Requested(t, i, to)
      PROVE  Counted(u)
  <2>1. CASE o.cur = "IDLE"
    BY <1>3, <2>1, AutoSwitchOnCounted DEF Requested
  <2>2. CASE o.cur # "IDLE" /\ mode(to) = "NONE"
    BY <1>3, <2>2 DEF Requested
  <2>3. CASE o.cur # "IDLE" /\ mode(to) # "NONE"
    <3>1. mode(to) \in Modes
      BY <2>3, ResponseType DEF Modes
    <3>2. u \in Objects(SetMode(t, i, mode(to)))
      BY <1>3, <2>3 DEF Requested
    <3>3. t.bit[i]
      BY <2>3 DEF Sound
    <3> HIDE DEF mode
    <3> QED
      BY <3>1, <3>2, <3>3, SetModeCounted
  <2> QED
    BY <2>1, <2>2, <2>3
<1> QED
  BY <1>1, <1>2, <1>3

(* The checks.                                                             *)
LEMMA ChecksCounted ==
    ASSUME NEW t, NEW i \in Operations, ObjectType(t), Counted(t),
           NEW u \in Checks(t, i)
    PROVE  Counted(u)
<1>1. ASSUME NEW v, ObjectType(v), Counted(v), NEW w \in PauseCall(v, i) \cup {v}
      PROVE  Counted(w) /\ ObjectType(w)
  BY <1>1, CallsCounted, PauseCallCall DEF CountsOn, Touches
<1>2. PICK v \in CheckDevices(t, i) :
         \/ u = v
         \/ \E w \in CheckDurations(v, i) : u \in CheckMaxTime(w, i)
  BY DEF Checks
<1>3. Counted(v) /\ ObjectType(v)
  BY <1>1 DEF CheckDevices
<1>4. ASSUME NEW w \in CheckDurations(v, i), u \in CheckMaxTime(w, i)
      PROVE  Counted(u)
  <2>1. Counted(w) /\ ObjectType(w)
    BY <1>1, <1>3 DEF CheckDurations
  <2> QED
    BY <1>1, <1>4, <2>1 DEF CheckMaxTime
<1> QED
  BY <1>2, <1>3, <1>4

CountInv == SoundInv /\ Counted(Now)

(* The counts survive every step.                                          *)
LEMMA NextKeepsCounted ==
    ASSUME CountInv, [Next]_vars, Commands["IDLE"] \subseteq {"OFF", "RUN"}
    PROVE  CountInv'
<1>1. SoundInv' /\ TypeOK /\ ObjectType(Now) /\ Counted(Now)
  BY NextKeepsSound, NowType DEF CountInv, SoundInv
<1>2. \A i \in Operations : Sound(Now, i)
  BY DEF CountInv, SoundInv, ActiveHasBit, Sound, Now
<1>3. CASE UNCHANGED <<bit, available>>
  BY <1>1, <1>3 DEF CountInv, Counted, Now
<1>4. ASSUME NEW u, Becomes(u), Counted(u)
      PROVE  Counted(Now)'
  BY <1>4 DEF Becomes, Counted, Now
<1>5. ASSUME NEW i \in Operations, EvaluateOperation(i)
      PROVE  Counted(Now)'
  <2>1. PICK t \in Evaluations(Now, i) : \E u \in Signals(t, i) : Becomes(u)
    BY <1>5 DEF EvaluateOperation
  <2>2. PICK u \in Signals(t, i) : Becomes(u)
    BY <2>1
  <2>3. Counted(t) /\ ObjectType(t) /\ Sound(t, i)
    BY <1>1, <1>2, EvaluationCounted, EvaluationKeeps DEF CountsOn, Keeps, Touches
  <2>4. Counted(u)
    BY <2>3, SignalsCounted
  <2> QED
    BY <1>4, <2>2, <2>4
<1>6. ASSUME NEW i \in Operations, CheckOperation(i)
      PROVE  Counted(Now)'
  <2>1. PICK u \in Checks(Now, i) : Becomes(u)
    BY <1>6 DEF CheckOperation
  <2> QED
    BY <1>1, <1>4, <2>1, ChecksCounted
<1>7. ASSUME NEW i \in Operations, Command(i)
      PROVE  Counted(Now)'
  <2>1. PICK mode \in Commands[ops[i].cur] :
           \E r \in SetMode(Now, i, mode) : Becomes(r.obj)
    BY <1>7 DEF Command
  <2>2. PICK r \in SetMode(Now, i, mode) : Becomes(r.obj)
    BY <2>1
  <2> DEFINE u == r.obj
  <2>3. u \in Objects(SetMode(Now, i, mode))
    BY DEF Objects
  <2>4. mode \in Modes
    BY <1>1, CommandsAssumption, PartsType DEF TypeOK
  <2>5. Becomes(u)
    BY <2>2
  <2> HIDE DEF u
  <2>6. Now.bit[i] \/ mode \in {"OFF", "RUN"}
    BY <1>2, <2>1 DEF Sound, Now
  <2> QED
    BY <1>1, <1>4, <2>3, <2>4, <2>5, <2>6, SetModeCounted
<1> QED
  BY <1>1, <1>3, <1>5, <1>6, <1>7
     DEF CountInv, Next, vars, StartCycle, Tick, CallToStep, CallToNextStep,
         CallTurnOffActiveStep, CallOnExtraStep, CallOffExtraStep,
         CallSwitchActiveExtraStep, SaveDuration, OpBecomes

(* The restrictions shown for an operation are those of the operations     *)
(* that are on, and at most one for every operation it must not follow:    *)
(* the counting of lua_init_mode and lua_final_mode never drifts, provided *)
(* clients do not pause or stop an operation that is IDLE (its bit is set  *)
(* without lua_init_mode).                                                 *)
THEOREM RestrictionsAreCounted ==
    ASSUME Commands["IDLE"] \subseteq {"OFF", "RUN"}
    PROVE  Spec => []AvailableCounts
<1>1. Init => CountInv
  <2> SUFFICES ASSUME Init PROVE CountInv
    OBVIOUS
  <2>1. ASSUME NEW j \in Operations
        PROVE  Shown(available, bit, j)
    <3>1. available[j] = 0 /\ RestrictedBy(bit, j) = {}
      BY DEF Init, RestrictedBy
    <3>2. Cardinality(MayFollow(bit, j)) \in Nat
      BY CountType DEF MayFollow
    <3>3. Cardinality(RestrictedBy(bit, j)) = 0
      BY <3>1, FS_EmptySet
    <3> QED
      BY <3>1, <3>2, <3>3 DEF Shown
  <2> QED
    BY <2>1, InitSound DEF CountInv, ExclusiveInv, Counted, Now
<1>2. CountInv /\ [Next]_vars => CountInv'
  BY NextKeepsCounted
<1>3. CountInv => AvailableCounts
  <2> SUFFICES ASSUME CountInv, NEW j \in Operations
               PROVE  available[j] - Cardinality(RestrictedBy(bit, j))
                        \in 0..Cardinality({m \in Operations : <<m, j>> \in FollowUps})
    BY DEF AvailableCounts, RestrictedBy
  <2> DEFINE F == {m \in Operations : <<m, j>> \in FollowUps}
  <2>1. Shown(available, bit, j) /\ available[j] \in Int
    BY DEF CountInv, Counted, Now, SoundInv, TypeOK
  <2>2. IsFiniteSet(F)
    <3>1. IsFiniteSet(Operations)
      BY FS_Interval, NAssumption DEF Operations
    <3>2. F \in SUBSET Operations
      OBVIOUS
    <3> HIDE DEF F
    <3> QED
      BY <3>1, <3>2, FS_Subset
  <2>3. MayFollow(bit, j) \in SUBSET F
    BY DEF MayFollow
  <2>4. Cardinality(MayFollow(bit, j)) <= Cardinality(F)
    BY <2>2, <2>3, FS_Subset
  <2>5. Cardinality(F) \in Nat /\ Cardinality(MayFollow(bit, j)) \in Nat
        /\ Cardinality(RestrictedBy(bit, j)) \in Nat
    BY CountType DEF MayFollow, RestrictedBy
  <2> HIDE DEF F
  <2>6. available[j] - Cardinality(RestrictedBy(bit, j)) \in 0..Cardinality(F)
    BY <2>1, <2>4, <2>5 DEF Shown
  <2> QED
    BY <2>6 DEF F
<1> QED
  BY <1>1, <1>2, <1>3, PTL DEF Spec
=============================================================================
