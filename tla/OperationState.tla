--------------------------- MODULE OperationState ---------------------------
(***************************************************************************)
(* One state of an operation (class operation_state of operation_mngr.cpp) *)
(* as a value and the functions its methods compute on that value.         *)
(*                                                                         *)
(* A state has a numbered list of steps.  At most one of them is the       *)
(* active step; any number of others may be listed as extra steps that run *)
(* in parallel.  Step 0 is the "mode step" whose actions run for as long   *)
(* as the state does.                                                      *)
(*                                                                         *)
(* What is abstracted.  The devices of a step are abstracted to one bit:   *)
(* the step is `live' from its init() or evaluate() until its finalize().  *)
(* active_steps is a bag (how often each step is listed): its order only   *)
(* decides which elements one pass of evaluate() skips, and that choice is *)
(* an input.  Times are counted in ticks and saturate at MaxTick; the      *)
(* clock of a step with neither a duration nor a maximal time, which the   *)
(* code only displays, is not kept.                                        *)
(***************************************************************************)
EXTENDS Integers

CONSTANTS
    MaxTick,    \* ticks at which every clock saturates
    MaxCopies,  \* bound: entries of one step in active_steps
    Debug       \* G_DEBUG: to_step() then also refreshes active_step_max_time

ASSUME MaxTickAssumption == MaxTick \in Nat \ {0}
ASSUME MaxCopiesAssumption == MaxCopies \in Nat \ {0}
ASSUME DebugAssumption == Debug \in BOOLEAN

(***************************************************************************)
(* The description c of a state, fixed when the project is loaded:         *)
(*   n        number of steps                                              *)
(*   next     next_step_ns, 0 for the code's -1                            *)
(*   max      maximal time of a step in ticks, 0 for none                  *)
(*   jump     the steps A_JUMP_IF of a step may name                       *)
(*   signal   steps with a non-empty "enable step by signal" action        *)
(*   turnoff  those of them with should_turn_off                           *)
(*   empty    is_empty(): no device in any action of any step              *)
(***************************************************************************)
Steps(c) == 1..c.n

(* NoTime is the value of a step's duration without a duration parameter.  *)
NoTime == -1
Durations == {NoTime} \cup 0..(MaxTick - 1)

Description(c) ==
    /\ c.n \in Nat
    /\ c.next \in [Steps(c) -> 0..c.n]
    /\ c.max \in [Steps(c) -> Nat]
    /\ c.jump \in [Steps(c) -> SUBSET Steps(c)]
    /\ c.signal \in SUBSET Steps(c)
    /\ c.turnoff \in SUBSET c.signal
    /\ c.empty \in BOOLEAN

(***************************************************************************)
(* The value s of a state:                                                 *)
(*   step     active_step(), 0 for none                                    *)
(*   extra    active_steps, how often each step is listed                  *)
(*   saved    saved_active_steps                                           *)
(*   live     steps begun and not finalised since                          *)
(*   time     ticks since a step's start_time                              *)
(*   dx       dx_time of a step                                            *)
(*   dxstep   dx_step_time                                                 *)
(*   amax     active_step_max_time                                         *)
(*   dur      the current values of the steps' duration parameters         *)
(***************************************************************************)
StateType(c) ==
    [step: 0..c.n,
     extra: [Steps(c) -> Nat],
     saved: [Steps(c) -> Nat],
     live: SUBSET (0..c.n),
     time: [Steps(c) -> 0..MaxTick],
     dx: [Steps(c) -> 0..MaxTick],
     dxstep: 0..MaxTick,
     amax: Nat,
     dur: [Steps(c) -> Durations]]

NoExtra(c) == [k \in Steps(c) |-> 0]

(* A state as constructed: start_time is 0, so every step has run "for     *)
(* ever" until it is initialised.                                          *)
NewState(c, dur) ==
    [step |-> 0, extra |-> NoExtra(c), saved |-> NoExtra(c), live |-> {},
     time |-> [k \in Steps(c) |-> MaxTick], dx |-> [k \in Steps(c) |-> 0],
     dxstep |-> 0, amax |-> 0, dur |-> dur]

Listed(c, s) == {k \in Steps(c) : s.extra[k] > 0}

Saturate(t) == IF t > MaxTick THEN MaxTick ELSE t

(* get_eval_time(): the dx_time of a resumed step counts.                  *)
EvalTime(s, k) == Saturate(s.time[k] + s.dx[k])

(***************************************************************************)
(* step::init, step::evaluate and step::finalize.                          *)
(***************************************************************************)
Limited(c, s) == {k \in Steps(c) : s.dur[k] # NoTime \/ c.max[k] > 0}

InitSteps(c, s, K) ==
    [s EXCEPT !.live = @ \cup K,
              !.time = [k \in Steps(c) |-> IF k \in K \cap Limited(c, s) THEN 0
                                          ELSE s.time[k]]]

EvaluateSteps(s, K) == [s EXCEPT !.live = @ \cup K]

FinalizeSteps(c, s, K) ==
    [s EXCEPT !.live = @ \ K,
              !.dx = [k \in Steps(c) |-> IF k \in K THEN 0 ELSE s.dx[k]]]

(***************************************************************************)
(* operation_state::to_step.  A step whose duration parameter is 0 becomes *)
(* the active one without being initialised: evaluate() then leaves it at  *)
(* once.                                                                   *)
(***************************************************************************)
Begun(c, s, k) ==
    IF s.dur[k] = 0 THEN s ELSE EvaluateSteps(InitSteps(c, s, {k}), {k})

ToStep(c, s, k) ==
    IF k \notin Steps(c) THEN s
    ELSE Begun(c, [FinalizeSteps(c, s, {s.step} \ {0}) EXCEPT
                      !.step = k,
                      !.amax = IF Debug THEN c.max[k] ELSE @],
               k)

(* operation_state::to_next_step                                           *)
ToNextStep(c, s) ==
    IF s.step = 0 THEN s
    ELSE ToStep(c, s, IF c.next[s.step] = 0 THEN s.step + 1 ELSE c.next[s.step])

(* operation_state::turn_off_active_step                                   *)
TurnOffActiveStep(c, s) ==
    [FinalizeSteps(c, s, {s.step} \ {0}) EXCEPT !.step = 0]

(***************************************************************************)
(* operation_state::init.  The steps still listed as extra are begun too;  *)
(* nothing is finalised here.                                              *)
(***************************************************************************)
InitState(c, s, start) ==
    LET running == [s EXCEPT !.live = @ \cup {0}, !.step = 0]
        stepped == ToStep(c, running, start)
    IN  IF c.n = 0 THEN running
        ELSE InitSteps(c, stepped, Listed(c, stepped))

(* Mutant: finalize() forgets the extra steps.                             *)
FinalizeActiveOnly(c, s) ==
    [FinalizeSteps(c, s, {0, s.step}) EXCEPT
        !.dxstep = IF s.step > 0 THEN EvalTime(s, s.step) ELSE @,
        !.step = 0,
        !.extra = NoExtra(c)]

(* operation_state::finalize                                               *)
FinalizeState(c, s) ==
    LET all == {0, s.step} \cup Listed(c, s)
    IN  [FinalizeSteps(c, s, all) EXCEPT
            !.dxstep = IF s.step > 0 THEN EvalTime(s, s.step) ELSE @,
            !.step = 0,
            !.extra = NoExtra(c)]

(* operation_state::save, load, reset_eval_time and add_dx_step_time       *)
Save(s) == [s EXCEPT !.saved = s.extra]
Load(s) == [s EXCEPT !.extra = s.saved]
ResetEvalTime(s) == [s EXCEPT !.dxstep = 0]
AddDxStepTime(s) ==
    IF s.step = 0 THEN s ELSE [s EXCEPT !.dx[s.step] = s.dxstep]

(***************************************************************************)
(* operation_state::on_extra_step: the step is listed before its check()   *)
(* and stays listed when the check fails.                                  *)
(***************************************************************************)
OnExtraStep(c, s, k, ok) ==
    IF k \notin Steps(c) \/ k = s.step \/ s.extra[k] > 0 THEN s
    ELSE [InitSteps(c, s, IF ok THEN {k} ELSE {}) EXCEPT !.extra[k] = 1]

(* Mutant: off_extra_step does not look whether the step is listed.        *)
OffExtraStepUnlisted(c, s, k) ==
    IF k \notin Steps(c) THEN s
    ELSE [FinalizeSteps(c, s, {k}) EXCEPT !.extra[k] = @ - 1]

(* operation_state::off_extra_step finalises the step and removes the      *)
(* first of its entries.                                                   *)
OffExtraStep(c, s, k) ==
    IF k \notin Listed(c, s) THEN s
    ELSE [FinalizeSteps(c, s, {k}) EXCEPT !.extra[k] = @ - 1]

(* operation_state::switch_active_extra_step: the entry of off becomes an  *)
(* entry of on, whether or not on is listed already.                       *)
SwitchActiveExtraStep(c, s, off, on) ==
    IF on \notin Steps(c) \/ on = s.step \/ off \notin Listed(c, s) THEN s
    ELSE [InitSteps(c, FinalizeSteps(c, s, {off}), {on}) EXCEPT
             !.extra = [k \in Steps(c) |->
                          s.extra[k] + (IF k = on THEN 1 ELSE 0)
                                     - (IF k = off THEN 1 ELSE 0)]]

(***************************************************************************)
(* operation_state::evaluate.  What the devices say during one call:       *)
(*   en     steps whose enabling signals are active                        *)
(*   ok     steps whose check() would succeed                              *)
(*   jump   the step A_JUMP_IF asks for, 0 for none                        *)
(*   skip   extra steps the loop passes over: erasing an element moves the *)
(*          next one into its place                                        *)
(*   left   entries left of a step that is listed several times            *)
(***************************************************************************)
Droppable(c, s, en) == (Listed(c, s) \cap c.turnoff) \ en

Jumps(c, s) == {0} \cup (IF s.step = 0 THEN {} ELSE c.jump[s.step])

(* The loop passes over nothing unless it erases something, and the first  *)
(* step that has lost its signal is always reached.                        *)
Inputs(c, s) ==
    {in \in [en: SUBSET c.signal, ok: SUBSET c.signal, jump: Jumps(c, s),
             skip: SUBSET Listed(c, s), left: [c.turnoff -> 0..(MaxCopies - 1)]] :
        LET D == Droppable(c, s, in.en)
        IN  /\ in.skip # {} => (D # {} /\ ~ D \subseteq in.skip)
            /\ \A k \in c.turnoff :
                  IF k \in D \ in.skip THEN in.left[k] < s.extra[k]
                                       ELSE in.left[k] = 0}

(* First loop: evaluate the extra steps, turn off those without a signal.  *)
DropExtraSteps(c, s, in) ==
    LET drop == Droppable(c, s, in.en) \ in.skip
        run == EvaluateSteps(s, {0} \cup (Listed(c, s) \ in.skip))
    IN  [FinalizeSteps(c, run, drop) EXCEPT
            !.extra = [k \in Steps(c) |->
                         IF k \in drop THEN in.left[k] ELSE s.extra[k]]]

(* Second loop: on_extra_step for every step with a signal.                *)
EnableExtraSteps(c, s, in) ==
    LET add == {k \in in.en : k # s.step /\ s.extra[k] = 0}
    IN  [InitSteps(c, s, add \cap in.ok) EXCEPT
            !.extra = [k \in Steps(c) |-> IF k \in add THEN 1 ELSE s.extra[k]]]

ExtraPass(c, s, in) == EnableExtraSteps(c, DropExtraSteps(c, s, in), in)

(* The active step has a duration parameter and it has elapsed, or is 0.   *)
TimeOver(s) ==
    /\ s.step > 0
    /\ s.dur[s.step] # NoTime
    /\ s.dur[s.step] = 0 \/ EvalTime(s, s.step) > s.dur[s.step]

(* The end of the last step: the owner is asked to turn the operation off. *)
LastStepOver(c, s, in) ==
    LET p == ExtraPass(c, s, in) IN TimeOver(p) /\ c.next[p.step] = 0

(* Mutant: a step that goes on is initialised again.                       *)
RestartActiveStep(c, s, in) ==
    LET timed == [s EXCEPT !.amax = c.max[s.step]]
        jumped == ToStep(c, timed, in.jump)
    IN  IF TimeOver(s) THEN ToStep(c, timed, c.next[s.step])
        ELSE InitSteps(c, jumped, {jumped.step})

(* The active step: leave it when its time is over, or else jump when the  *)
(* condition holds and evaluate the step that is active then.              *)
ActiveStepPass(c, s, in) ==
    LET timed == [s EXCEPT !.amax = c.max[s.step]]
        jumped == ToStep(c, timed, in.jump)
    IN  IF TimeOver(s) THEN ToStep(c, timed, c.next[s.step])
        ELSE EvaluateSteps(jumped, {jumped.step})

(* Mutant: the extra steps are evaluated after the active one.             *)
EvaluateActiveFirst(c, s, in) ==
    ExtraPass(c, IF s.step = 0 THEN s ELSE ActiveStepPass(c, s, in), in)

EvaluateState(c, s, in) ==
    LET p == ExtraPass(c, s, in)
    IN  IF p.step = 0 THEN p ELSE ActiveStepPass(c, p, in)

(***************************************************************************)
(* operation_state::check_steps_params and check_max_step_time.            *)
(***************************************************************************)
NoStepHasTime(c, s) == c.n > 0 /\ \A k \in Steps(c) : s.dur[k] = 0

ActiveStepOverMax(s) == s.step > 0 /\ s.amax > 0 /\ s.time[s.step] >= s.amax

ExtraStepsOverMax(c, s) ==
    {k \in Listed(c, s) : c.max[k] > 0 /\ s.time[k] >= c.max[k]}

OverMaxTime(c, s) == ActiveStepOverMax(s) \/ ExtraStepsOverMax(c, s) # {}

(* Time passes for every step alike.                                       *)
TickState(c, s) == [s EXCEPT !.time = [k \in Steps(c) |-> Saturate(s.time[k] + 1)]]
=============================================================================
