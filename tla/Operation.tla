----------------------------- MODULE Operation -----------------------------
(***************************************************************************)
(* An operation (class operation of operation_mngr.cpp) as a value and the *)
(* functions its methods compute on it: the state machine IDLE, RUN, PAUSE,*)
(* STOP with the transitional states STARTING, PAUSING, UNPAUSING and      *)
(* STOPPING, over one operation_state for each of them.                    *)
(***************************************************************************)
EXTENDS OperationState

StateIdx == {"IDLE", "RUN", "PAUSE", "STOP",
             "STARTING", "PAUSING", "UNPAUSING", "STOPPING"}

(***************************************************************************)
(* The description d of an operation gives every state its description.    *)
(* The value o of an operation:                                            *)
(*   cur         current_state                                             *)
(*   run_step    the RUN step to resume at; the code's -1 is 0 here, since *)
(*               only run_step > 0 and equality with a positive step are   *)
(*               ever tested                                               *)
(*   first       is_first_goto_next_state                                  *)
(*   failed      was_fail                                                  *)
(*   st          the operation_state objects                               *)
(***************************************************************************)
IsOperation(d, o) ==
    /\ o \in [cur: StateIdx, run_step: 0..d["RUN"].n, first: BOOLEAN,
              failed: BOOLEAN, st: {o.st}]
    /\ o.st = [x \in StateIdx |-> o.st[x]]
    /\ \A x \in StateIdx : o.st[x] \in StateType(d[x])

NewOperation(d, dur) ==
    [cur |-> "IDLE", run_step |-> 0, first |-> TRUE, failed |-> FALSE,
     st |-> [x \in StateIdx |-> NewState(d[x], dur[x])]]

Current(o) == o.st[o.cur]
RunState(o) == o.st["RUN"]

(* Leave the current state with finalize() and begin x with init().        *)
Leave(d, o) == [o EXCEPT !.st[o.cur] = FinalizeState(d[o.cur], @)]
Begin(d, o, x) == [o EXCEPT !.cur = x, !.st[x] = InitState(d[x], @, 1)]
GoTo(d, o, x) == Begin(d, Leave(d, o), x)

(* Mutant: the transitional states are always passed over.                 *)
AlwaysPassOver(d, x, target) == target

(* The transitional state x is passed over when nothing is described in it.*)
Unless(d, x, target) == IF d[x].empty THEN target ELSE x

(***************************************************************************)
(* operation::pause, stop, start, to_run_state up to the evaluate() that   *)
(* ends some of them; EvaluatesAfter... say when it does.                  *)
(***************************************************************************)
SaveRun(o) == [o EXCEPT !.run_step = RunState(o).step, !.st["RUN"] = Save(@)]

(* Mutant: PAUSING is saved like RUN when it is left.                      *)
PauseSavesAgain(d, o) ==
    CASE o.cur = "RUN" -> GoTo(d, SaveRun(o), Unless(d, "PAUSING", "PAUSE"))
      [] o.cur = "PAUSING" -> GoTo(d, SaveRun(o), "PAUSE")
      [] OTHER -> o

Pause(d, o) ==
    CASE o.cur = "RUN" -> GoTo(d, SaveRun(o), Unless(d, "PAUSING", "PAUSE"))
      [] o.cur = "PAUSING" -> GoTo(d, o, "PAUSE")
      [] OTHER -> o

PauseEvaluates(o) == o.cur = "RUN"

Stop(d, o) ==
    CASE o.cur \in {"PAUSING", "PAUSE", "UNPAUSING", "STARTING", "RUN"} ->
            GoTo(d, o, Unless(d, "STOPPING", "STOP"))
      [] o.cur = "STOPPING" -> GoTo(d, o, "STOP")
      [] OTHER -> o

StopEvaluates(o) == o.cur \notin {"IDLE", "STOP"}

(* to_run_state: resume at the step asked for, or at the step that was     *)
(* active when the operation was paused, or begin at the first one.  The   *)
(* time the step had run is given back to it.                              *)
ResumeStep(o, k) ==
    IF k > 0 THEN k ELSE IF o.run_step > 0 THEN o.run_step ELSE 1

(* Mutant: the saved extra steps are not loaded.                           *)
ToRunStateUnloaded(d, o, k) ==
    LET at == ResumeStep(o, k)
        run == InitState(d["RUN"], RunState(o), at)
    IN  [o EXCEPT !.cur = "RUN",
                  !.st["RUN"] = IF at = o.run_step THEN AddDxStepTime(run)
                                                   ELSE run]

ToRunState(d, o, k) ==
    LET at == ResumeStep(o, k)
        run == InitState(d["RUN"], Load(RunState(o)), at)
    IN  [o EXCEPT !.cur = "RUN",
                  !.st["RUN"] = IF at = o.run_step THEN AddDxStepTime(run)
                                                   ELSE run]

(* From UNPAUSING the code enters RUN without finalising UNPAUSING.        *)
Start(d, o, k) ==
    CASE o.cur = "IDLE" -> GoTo(d, o, Unless(d, "STARTING", "RUN"))
      [] o.cur = "STARTING" -> GoTo(d, o, "RUN")
      [] o.cur = "PAUSE" ->
            IF d["UNPAUSING"].empty THEN ToRunState(d, Leave(d, o), k)
            ELSE GoTo(d, o, "UNPAUSING")
      [] o.cur = "UNPAUSING" -> ToRunState(d, o, k)
      [] OTHER -> o

StartEvaluates(o) == o.cur \in {"PAUSE", "UNPAUSING"}

(* operation::finalize leaves the current state and forgets every          *)
(* dx_step_time; IDLE is not begun.                                        *)
FinalizeOperation(d, o) ==
    LET left == Leave(d, o)
    IN  IF o.cur = "IDLE" THEN o
        ELSE [left EXCEPT !.cur = "IDLE",
                          !.st = [x \in StateIdx |-> ResetEvalTime(left.st[x])]]

(***************************************************************************)
(* evaluate() of the current state, with its inputs.                       *)
(***************************************************************************)
EvaluationInputs(d, o) == Inputs(d[o.cur], Current(o))

EvaluateCurrent(d, o, in) ==
    [o EXCEPT !.st[o.cur] = EvaluateState(d[o.cur], @, in)]

AsksOff(d, o, in) == LastStepOver(d[o.cur], Current(o), in)

(***************************************************************************)
(* The step methods act on the current state, whichever it is.             *)
(***************************************************************************)
OperationToStep(d, o, k) == [o EXCEPT !.st[o.cur] = ToStep(d[o.cur], @, k)]

OperationToNextStep(d, o) == [o EXCEPT !.st[o.cur] = ToNextStep(d[o.cur], @)]

OperationTurnOffActiveStep(d, o) ==
    [o EXCEPT !.st[o.cur] = TurnOffActiveStep(d[o.cur], @)]

OperationOnExtraStep(d, o, k, ok) ==
    [o EXCEPT !.st[o.cur] = OnExtraStep(d[o.cur], @, k, ok)]

OperationOffExtraStep(d, o, k) ==
    [o EXCEPT !.st[o.cur] = OffExtraStep(d[o.cur], @, k)]

OperationSwitchActiveExtraStep(d, o, off, on) ==
    [o EXCEPT !.st[o.cur] = SwitchActiveExtraStep(d[o.cur], @, off, on)]

TickOperation(d, o) ==
    [o EXCEPT !.st = [x \in StateIdx |-> TickState(d[x], o.st[x])]]
=============================================================================
