----------------------------- MODULE TechObject -----------------------------
(***************************************************************************)
(* A technological object (class tech_object of tech_def.cpp): its         *)
(* operations, the bit per operation that says it is on, the restrictions  *)
(* between operations, and the cycle of the controller that evaluates the  *)
(* operations one after another and then handles commands.                 *)
(*                                                                         *)
(* The program has one thread: a cycle (tech_object::evaluate) runs to its *)
(* end before a command of a client or a script is handled.  turn says     *)
(* where the cycle is; between cycles it is 0.                             *)
(*                                                                         *)
(* Lua callbacks that check something (check_on_..., user_check_...) and   *)
(* the feedback of devices may answer anything; callbacks that themselves  *)
(* call set_mode are not modelled.                                         *)
(***************************************************************************)
EXTENDS Operation, FiniteSets

CONSTANTS
    N,              \* operations_count
    Desc,           \* the description of every operation
    InitialDur,     \* the initial values of the duration parameters
    SetDur,         \* values a client may save to a duration parameter
    Request,        \* targets of the "jump to state" action of every state
    Restrictions,   \* <<i, j>>: restrictions[ obj ][ i ][ 1 ][ j ] is set
    FollowUps,      \* <<i, j>>: restrictions[ obj ][ i ][ 3 ][ j ] is set
    Restricting,    \* P_RESTRICTIONS_MODE is 0
    AutoPause,      \* P_AUTO_PAUSE_OPER_ON_DEV_ERR is 0
    Commands,       \* set_mode targets a client may send to an operation in
                    \* a given state
    StepCalls       \* clients and scripts call the step methods

Operations == 1..N
Modes == {"OFF", "RUN", "PAUSE", "STOP"}

ASSUME NAssumption == N \in Nat \ {0}
ASSUME DescAssumption ==
    \A i \in Operations : \A x \in StateIdx : Description(Desc[i][x])
ASSUME DurAssumption ==
    /\ \A i \in Operations : \A x \in StateIdx :
          InitialDur[i][x] \in [Steps(Desc[i][x]) -> Durations]
    /\ SetDur \subseteq 0..(MaxTick - 1)
ASSUME RequestAssumption ==
    \A i \in Operations : \A x \in StateIdx : Request[i][x] \subseteq StateIdx
ASSUME RestrictionsAssumption ==
    /\ Restrictions \subseteq Operations \X Operations
    /\ FollowUps \subseteq Operations \X Operations
ASSUME CommandsAssumption == \A x \in StateIdx : Commands[x] \subseteq Modes
ASSUME SwitchesAssumption ==
    Restricting \in BOOLEAN /\ AutoPause \in BOOLEAN /\ StepCalls \in BOOLEAN

VARIABLES
    ops,        \* the operations
    bit,        \* state: the bit of every operation, get_mode()
    available,  \* restrictions in force on every operation, for display
    turn,       \* the operation the cycle evaluates, 0 between cycles
    checking    \* it has been evaluated, its checks are next

vars == <<ops, bit, available, turn, checking>>

TypeOK ==
    /\ ops = [i \in Operations |-> ops[i]]
    /\ \A i \in Operations : IsOperation(Desc[i], ops[i])
    /\ bit \in [Operations -> BOOLEAN]
    /\ available \in [Operations -> Int]
    /\ turn \in 0..N
    /\ checking \in BOOLEAN

Init ==
    /\ ops = [i \in Operations |-> NewOperation(Desc[i], InitialDur[i])]
    /\ bit = [i \in Operations |-> FALSE]
    /\ available = [i \in Operations |-> 0]
    /\ turn = 0
    /\ checking = FALSE

(***************************************************************************)
(* A call is a function from the object to the set of objects it may       *)
(* leave; t stands for the object while a call is under way.               *)
(***************************************************************************)
Now == [ops |-> ops, bit |-> bit, available |-> available]

Becomes(t) == ops' = t.ops /\ bit' = t.bit /\ available' = t.available

WithOp(t, i, o) == [t EXCEPT !.ops[i] = o]
WithBit(t, i, b) == [t EXCEPT !.bit[i] = b]

(* lua_final_mode: the operations i restricted are restricted no more by   *)
(* it, the ones that must not follow it are.                               *)
FinalMode(t, i) ==
    [t EXCEPT !.available =
        [j \in Operations |->
            t.available[j] - (IF j # i /\ <<j, i>> \in Restrictions THEN 1 ELSE 0)
                           + (IF <<i, j>> \in FollowUps THEN 1 ELSE 0)]]

(* Mutant: the operation is not finalised.                                 *)
SetModeOffUnfinished(t, i) ==
    IF ~ t.bit[i] THEN {[obj |-> t, res |-> "already"]}
    ELSE {[obj |-> t, res |-> "refused"],
          [obj |-> FinalMode(WithBit(t, i, FALSE), i), res |-> "done"]}

(* set_mode( i, OFF ).                                                     *)
SetModeOff(t, i) ==
    LET off == WithOp(WithBit(t, i, FALSE), i,
                      FinalizeOperation(Desc[i], t.ops[i]))
    IN  IF ~ t.bit[i] THEN {[obj |-> t, res |-> "already"]}
        ELSE {[obj |-> t, res |-> "refused"],
              [obj |-> FinalMode(off, i), res |-> "done"]}

Objects(results) == {r.obj : r \in results}

(* evaluate() of the current state of an operation; when its last step is  *)
(* over the state calls off_mode(), that is, set_mode( i, OFF ).           *)
Evaluations(t, i) ==
    UNION { LET e == WithOp(t, i, EvaluateCurrent(Desc[i], t.ops[i], in))
            IN  IF AsksOff(Desc[i], t.ops[i], in) THEN Objects(SetModeOff(e, i))
                ELSE {e}
            : in \in EvaluationInputs(Desc[i], t.ops[i]) }

EvaluatedIf(evaluates, t, i) == IF evaluates THEN Evaluations(t, i) ELSE {t}

(* op->pause(), op->stop() and op->start( k ) with their evaluate().       *)
PauseCall(t, i) ==
    EvaluatedIf(PauseEvaluates(t.ops[i]),
                WithOp(t, i, Pause(Desc[i], t.ops[i])), i)

StopCall(t, i) ==
    EvaluatedIf(StopEvaluates(t.ops[i]),
                WithOp(t, i, Stop(Desc[i], t.ops[i])), i)

StartCall(t, i, k) ==
    EvaluatedIf(StartEvaluates(t.ops[i]),
                WithOp(t, i, Start(Desc[i], t.ops[i], k)), i)

(* set_mode( i, PAUSE ) and set_mode( i, STOP ): the bit is set whatever   *)
(* state the operation is in.                                              *)
SetModePause(t, i) ==
    {[obj |-> t, res |-> "refused"]} \cup
    {[obj |-> u, res |-> "done"] : u \in PauseCall(WithBit(t, i, TRUE), i)}

SetModeStop(t, i) ==
    {[obj |-> t, res |-> "refused"]} \cup
    {[obj |-> u, res |-> "done"] : u \in StopCall(WithBit(t, i, TRUE), i)}

(* Mutant: only operations in RUN forbid others.                           *)
ForbiddenByRunning(t, i) ==
    Restricting /\ \E j \in Operations :
                      <<i, j>> \in Restrictions /\ t.ops[j].cur = "RUN"

(* lua_check_on_mode: an operation that is on forbids i.                   *)
Forbidden(t, i) ==
    Restricting /\ \E j \in Operations : <<i, j>> \in Restrictions /\ t.bit[j]

(* Mutant: the counts are not reset.                                       *)
InitModeUnreset(t, i) ==
    LET on == {j \in Operations : t.bit[j]}
        by(j, J) == Cardinality({m \in J \ {j} : <<j, m>> \in Restrictions})
    IN  [t EXCEPT !.available =
            [j \in Operations |-> t.available[j] + by(j, on) + by(j, {i})]]

(* lua_init_mode: count the restrictions anew; the bit of i is not set yet.*)
InitMode(t, i) ==
    LET on == {j \in Operations : t.bit[j]}
        by(j, J) == Cardinality({m \in J \ {j} : <<j, m>> \in Restrictions})
    IN  [t EXCEPT !.available =
            [j \in Operations |-> by(j, on) + by(j, {i})]]

(* set_mode( i, RUN ).  An operation whose bit is set is resumed, from the *)
(* step get_run_step_after_pause gives (0: none); any other is turned on   *)
(* unless its devices, a restriction or a check forbid it.                 *)
Resume(t, i) ==
    IF t.ops[i].cur = "RUN" THEN {[obj |-> t, res |-> "already"]}
    ELSE {[obj |-> t, res |-> "refused"]} \cup
         UNION { {[obj |-> u, res |-> "done"] : u \in StartCall(t, i, k)}
                 : k \in 0..Desc[i]["RUN"].n }

SwitchOn(t, i) ==
    {[obj |-> t, res |-> "refused"]} \cup
    IF Forbidden(t, i) THEN {}
    ELSE {[obj |-> WithBit(InitMode(u, i), i, TRUE), res |-> "done"]
          : u \in StartCall(t, i, t.ops[i].run_step)}

SetModeRun(t, i) == IF t.bit[i] THEN Resume(t, i) ELSE SwitchOn(t, i)

SetMode(t, i, mode) ==
    CASE mode = "OFF"   -> SetModeOff(t, i)
      [] mode = "RUN"   -> SetModeRun(t, i)
      [] mode = "PAUSE" -> SetModePause(t, i)
      [] mode = "STOP"  -> SetModeStop(t, i)

(***************************************************************************)
(* operation::process_auto_switch_on: the first request is tried at once;  *)
(* while it is refused it is tried again whenever the operation could be   *)
(* turned on, until the waiting time is over.                              *)
(***************************************************************************)
(* Mutant: was_fail is not asked.                                          *)
AutoSwitchOnAgain(t, i) ==
    LET o == t.ops[i]
        tries == SetModeRun(t, i)
    IN  IF o.first
        THEN {IF r.res = "done" THEN r.obj
              ELSE WithOp(r.obj, i, [o EXCEPT !.first = FALSE]) : r \in tries}
        ELSE {t, WithOp(t, i, [o EXCEPT !.failed = TRUE])}
             \cup (IF Forbidden(t, i) THEN {} ELSE Objects(tries))

AutoSwitchOn(t, i) ==
    LET o == t.ops[i]
        tries == SetModeRun(t, i)
    IN  IF o.failed THEN {t}
        ELSE IF o.first
        THEN {IF r.res = "done" THEN r.obj
              ELSE WithOp(r.obj, i, [o EXCEPT !.first = FALSE]) : r \in tries}
        ELSE {t, WithOp(t, i, [o EXCEPT !.failed = TRUE])}
             \cup (IF Forbidden(t, i) THEN {} ELSE Objects(tries))

(***************************************************************************)
(* operation::evaluate, process_new_state_from_run and                     *)
(* default_process_new_state: the state entered when the jump condition of *)
(* state x names `to', "NONE" when it is ignored.                          *)
(***************************************************************************)
Follows(x) ==
    CASE x = "RUN" -> "PAUSE"   [] x = "STARTING" -> "RUN"
      [] x = "PAUSING" -> "PAUSE" [] x = "UNPAUSING" -> "RUN"
      [] OTHER -> "NONE"

Response(x, to) ==
    CASE x = "STOPPING" -> "STOP"
      [] x \in {"RUN", "STARTING", "PAUSING", "UNPAUSING"} /\ to = "STOP" -> "STOP"
      [] to = Follows(x) -> to
      [] OTHER -> "NONE"

NoRequest(t, i) ==
    WithOp(t, i, [t.ops[i] EXCEPT !.first = TRUE, !.failed = FALSE])

Requested(t, i, to) ==
    LET x == t.ops[i].cur
        mode == Response(x, to)
    IN  IF x = "IDLE" THEN AutoSwitchOn(t, i)
        ELSE IF mode = "NONE" THEN {t}
        ELSE Objects(SetMode(t, i, mode))

Signals(t, i) ==
    {NoRequest(t, i)} \cup
    UNION {Requested(t, i, to) : to \in Request[i][t.ops[i].cur]}

(***************************************************************************)
(* What tech_object::evaluate checks after evaluating an operation that is *)
(* in RUN: the devices, the durations, the maximal times.                  *)
(***************************************************************************)
Running(t, i) == t.ops[i].cur = "RUN"

CheckDevices(t, i) ==
    {t} \cup (IF AutoPause /\ Running(t, i) THEN PauseCall(t, i) ELSE {})

CheckDurations(t, i) ==
    IF NoStepHasTime(Desc[i]["RUN"], RunState(t.ops[i])) THEN PauseCall(t, i)
    ELSE {t}

CheckMaxTime(t, i) ==
    IF OverMaxTime(Desc[i]["RUN"], RunState(t.ops[i])) THEN PauseCall(t, i)
    ELSE {t}

Checks(t, i) ==
    UNION { IF Running(u, i)
            THEN UNION {CheckMaxTime(v, i) : v \in CheckDurations(u, i)}
            ELSE {u}
            : u \in CheckDevices(t, i) }

(***************************************************************************)
(* The cycle.                                                              *)
(***************************************************************************)
StartCycle ==
    /\ turn = 0
    /\ turn' = 1
    /\ UNCHANGED <<ops, bit, available, checking>>

(* The cycle goes on from operation i: first its evaluation, then checks.  *)
Proceed(i) ==
    /\ turn = i
    /\ checking' = ~ checking
    /\ turn' = IF checking THEN (i + 1) % (N + 1) ELSE i

EvaluateOperation(i) ==
    /\ ~ checking /\ Proceed(i)
    /\ \E t \in Evaluations(Now, i) : \E u \in Signals(t, i) : Becomes(u)

CheckOperation(i) ==
    /\ checking /\ Proceed(i)
    /\ \E t \in Checks(Now, i) : Becomes(t)

(***************************************************************************)
(* Between cycles: time passes, clients and scripts call methods.          *)
(***************************************************************************)
Between == turn = 0 /\ UNCHANGED <<turn, checking>>

Tick ==
    /\ Between
    /\ ops' = [i \in Operations |-> TickOperation(Desc[i], ops[i])]
    /\ UNCHANGED <<bit, available>>

Command(i) ==
    /\ Between
    /\ \E mode \in Commands[ops[i].cur] :
          \E r \in SetMode(Now, i, mode) : Becomes(r.obj)

OpBecomes(i, o) == ops' = [ops EXCEPT ![i] = o] /\ UNCHANGED <<bit, available>>

CurrentSteps(i) == Steps(Desc[i][ops[i].cur])

StepCall == StepCalls /\ Between

CallToStep(i) ==
    /\ StepCall
    /\ \E k \in CurrentSteps(i) :
          OpBecomes(i, OperationToStep(Desc[i], ops[i], k))

CallToNextStep(i) ==
    /\ StepCall
    /\ OpBecomes(i, OperationToNextStep(Desc[i], ops[i]))

CallTurnOffActiveStep(i) ==
    /\ StepCall
    /\ OpBecomes(i, OperationTurnOffActiveStep(Desc[i], ops[i]))

CallOnExtraStep(i) ==
    /\ StepCall
    /\ \E k \in CurrentSteps(i), ok \in BOOLEAN :
          OpBecomes(i, OperationOnExtraStep(Desc[i], ops[i], k, ok))

CallOffExtraStep(i) ==
    /\ StepCall
    /\ \E k \in CurrentSteps(i) :
          OpBecomes(i, OperationOffExtraStep(Desc[i], ops[i], k))

(* MaxCopies bounds how often a step is listed.                            *)
CallSwitchActiveExtraStep(i) ==
    /\ StepCall
    /\ \E off \in CurrentSteps(i), on \in CurrentSteps(i) :
          /\ Current(ops[i]).extra[on] < MaxCopies
          /\ OpBecomes(i, OperationSwitchActiveExtraStep(Desc[i], ops[i], off, on))

(* S_PAR_F: a client saves a new value of a duration parameter.            *)
SaveDuration(i) ==
    /\ Between
    /\ \E x \in StateIdx : \E k \in Steps(Desc[i][x]), v \in SetDur :
          /\ InitialDur[i][x][k] # NoTime
          /\ OpBecomes(i, [ops[i] EXCEPT !.st[x].dur[k] = v])

Next ==
    \/ StartCycle
    \/ Tick
    \/ \E i \in Operations :
          \/ EvaluateOperation(i)
          \/ CheckOperation(i)
          \/ Command(i)
          \/ CallToStep(i)
          \/ CallToNextStep(i)
          \/ CallTurnOffActiveStep(i)
          \/ CallOnExtraStep(i)
          \/ CallOffExtraStep(i)
          \/ CallSwitchActiveExtraStep(i)
          \/ SaveDuration(i)

Spec == Init /\ [][Next]_vars

(* The clock advances and the main loop never stops (an operation can      *)
(* always be evaluated and checked, so Proceed is all there is to ask);    *)
(* what clients, scripts and signals do is up to them.                     *)
Fairness ==
    /\ SF_vars(Tick)
    /\ WF_vars(StartCycle)
    /\ \A i \in Operations : WF_<<turn, checking>>(Proceed(i))

FairSpec == Spec /\ Fairness

-----------------------------------------------------------------------------
(***************************************************************************)
(* Safety.                                                                 *)
(***************************************************************************)
Quiet(c, s) == s.step = 0 /\ s.live = {} /\ Listed(c, s) = {}
Accounted(c, s) == s.live \subseteq {0, s.step} \cup Listed(c, s)

(* No step is left running: in the current state only the active step and  *)
(* the listed extra steps run, so finalize() reaches all of them, and in   *)
(* the other states nothing does.  UNPAUSING is the exception:             *)
(* operation::start() leaves it without finalize().                        *)
NothingLeftRunning ==
    \A i \in Operations : \A x \in StateIdx \ {"UNPAUSING"} :
        IF x = ops[i].cur THEN Accounted(Desc[i][x], ops[i].st[x])
                          ELSE Quiet(Desc[i][x], ops[i].st[x])

(* An operation that is not IDLE has its bit set: get_mode() and the       *)
(* restrictions of set_mode() never overlook an operation that works.      *)
ActiveHasBit == \A i \in Operations : ops[i].cur # "IDLE" => bit[i]

(* Pausing and resuming at once, through PAUSING and UNPAUSING where they  *)
(* are described, gives the operation back its active step, its extra      *)
(* steps and the time the active step had run.                             *)
PausedAndResumed(d, o) ==
    LET paused == Pause(d, o)
        rested == IF paused.cur = "PAUSING" THEN Pause(d, paused) ELSE paused
        started == Start(d, rested, 0)
    IN  IF started.cur = "UNPAUSING" THEN Start(d, started, 0) ELSE started

ResumeRestoresRun ==
    \A i \in Operations :
        LET s == RunState(ops[i])
            o == PausedAndResumed(Desc[i], ops[i])
            r == RunState(o)
        IN  ops[i].cur = "RUN" /\ s.step > 0 =>
              /\ o.cur = "RUN"
              /\ r.step = s.step
              /\ r.extra = s.extra
              /\ s.dur[s.step] # 0 => EvalTime(r, s.step) = EvalTime(s, s.step)

(* While an operation is paused nothing changes what it will resume with,  *)
(* whatever commands, step calls and cycles come in between.               *)
PausedStates == {"PAUSING", "PAUSE", "UNPAUSING"}
ResumePoint(o) == <<o.run_step, RunState(o).saved, RunState(o).dxstep>>

ResumePointKept ==
    [][\A i \in Operations :
          ops[i].cur \in PausedStates /\ ops'[i].cur \in PausedStates =>
              ResumePoint(ops'[i]) = ResumePoint(ops[i])]_vars

(* After the cycle has evaluated an operation its active step runs, even   *)
(* when the same step was turned off as an extra step before.  (A step     *)
(* without duration or whose time is over is about to be left.)            *)
ActiveStepRuns ==
    \A i \in Operations :
        LET s == Current(ops[i])
        IN  turn = i /\ checking /\ s.step > 0 /\ ~ TimeOver(s) =>
              s.step \in s.live

(* An operation whose request to start was refused until the waiting time  *)
(* was over is not started by that request any more.                       *)
NoAutoStartAfterFailure ==
    [][\A i \in Operations :
          ops[i].cur = "IDLE" /\ ops[i].failed /\ ops'[i].cur # "IDLE" =>
              turn = 0]_vars

(* The operations keep the promise of OperationLifecycle: TechObject       *)
(* implements it under this mapping.                                       *)
Lifecycle == INSTANCE OperationLifecycle
    WITH state <- [i \in Operations |-> ops[i].cur],
         Described <- [i \in Operations |->
                         {x \in StateIdx : ~ Desc[i][x].empty}]

KeepsLifecycle == Lifecycle!Spec

(* Operations that restrict each other are never on together.              *)
MutualExclusion ==
    \A i, j \in Operations :
        /\ i # j /\ <<i, j>> \in Restrictions /\ <<j, i>> \in Restrictions
        => ops[i].cur = "IDLE" \/ ops[j].cur = "IDLE"

(* The restrictions shown for an operation are those of the operations     *)
(* that are on, and at most one for every operation it must not follow:    *)
(* counting up and down in lua_init_mode and lua_final_mode never drifts.  *)
AvailableCounts ==
    \A j \in Operations :
        available[j] - Cardinality({m \in Operations \ {j} :
                                      bit[m] /\ <<j, m>> \in Restrictions})
            \in 0..Cardinality({m \in Operations : <<m, j>> \in FollowUps})

(* At most one state of an operation has an active step: "У операции может *)
(* быть активным (выполняться) только один шаг".                           *)
OneActiveStep ==
    \A i \in Operations : \A x, y \in StateIdx :
        ops[i].st[x].step > 0 /\ ops[i].st[y].step > 0 => x = y

(* active_step_max_time is the maximal time of the active step whenever    *)
(* tech_object::evaluate checks it.                                        *)
OwnMaxTime ==
    \A i \in Operations :
        LET s == RunState(ops[i])
        IN  turn = i /\ checking /\ ops[i].cur = "RUN" /\ ActiveStepOverMax(s) =>
              s.amax = Desc[i]["RUN"].max[s.step]

(***************************************************************************)
(* Liveness: a timed step with a successor is left.                        *)
(***************************************************************************)
InTimedStep(i, k) ==
    /\ ops[i].cur = "RUN" /\ RunState(ops[i]).step = k
    /\ RunState(ops[i]).dur[k] # NoTime
    /\ Desc[i]["RUN"].next[k] # 0

TimedStepEnds ==
    \A i \in Operations : \A k \in Steps(Desc[i]["RUN"]) :
        InTimedStep(i, k) ~> ~ InTimedStep(i, k)
=============================================================================
