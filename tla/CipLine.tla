------------------------------- MODULE CipLine -------------------------------
(***************************************************************************)
(* The lines of a washing station (cipline_tech_object): the commands of   *)
(* the operator, the scan of a running line, errors and resumption, and    *)
(* scline, the line that cleans the tanks of the station itself.           *)
(*                                                                         *)
(* An action is one evaluate() of one line with at most one request.  The  *)
(* answers of the plant are free: a step goes on, ends, or fails.  The     *)
(* devices of the object (OnRecipeDevices), the regulators and the         *)
(* statistics are left out; the program of part 10 is a Lua script.  The   *)
(* valves of the tanks are shared by the lines: they are kept with the     *)
(* line that opened them.                                                  *)
(***************************************************************************)
EXTENDS CipValves, FiniteSets

CONSTANTS
    Lines,      \* numbers of the lines (nmr)
    Plans       \* what the operators of a behaviour do: see CipInit

ASSUME LinesAssumption == 0 \notin Lines

VARIABLES
    line,       \* line[l]: the state of line l
    scline,     \* the line that cleans the tanks, 0 for none
    plan        \* the plan of this behaviour; never changes
cipVars == <<line, scline, plan>>

LineStates == {"idle", "run", "paused", "blocked", "object", "error",
               "conflict", "wrong", "acid"}
Commands == {"next", "pause", "reset", "ret", "lock", "reload", "reselect", "stray"}
(* What init_object_devices keeps of P_PODP_CIRC.                          *)
Flags == [circ: SUBSET {"S", "K"}, feed: SUBSET {"S", "K", "W"}, noStop: BOOLEAN]
NoFlags == [circ |-> {}, feed |-> {}, noStop |-> FALSE]
NoProgram == [parts |-> {}, noRinse |-> FALSE, rinseTo |-> "TANK_W"]

ASSUME PlansAssumption ==
    Plans \subseteq [lines: SUBSET Lines, blank: Recipe, commands: SUBSET Commands,
                     recipes: SUBSET Recipe, programs: SUBSET Program]

(* A line is always at a step of the part it washes, and the part is one   *)
(* of its program: no jump of GoToStep leads into another part.            *)
StepsOfPart(p) ==
    CASE p = 11 -> 151..188 [] p = 10 -> {300} [] p = 9 -> 105..111 [] p = 8 -> 115..121
      [] p = 7 -> 5..9 \union {16} [] p = 6 -> 10..15 [] p \in {5, 3} -> 22..40
      [] p = 4 -> 42..60 [] p = 2 -> 61..67 [] p = 1 -> 71..79 [] p = 0 -> 81..91
      [] OTHER -> {}
StepOfPart ==
    \A l \in Lines : line[l].step \notin {0, Done} =>
        /\ line[l].step \in Steps \intersect StepsOfPart(line[l].part)
        /\ line[l].part \in line[l].prog.parts

LineRecord ==
    [state: LineStates, step: Nat, part: Parts \union {-1}, blocked: BOOLEAN,
     prog: Program, obj: Recipe, hasRecipe: BOOLEAN, flags: Flags,
     conflict: BOOLEAN, reset: BOOLEAN, ret: BOOLEAN, forced: BOOLEAN,
     open: SUBSET (Station \union TankValves), dosing: SUBSET Dosers]

CipTypeOK ==
    /\ line \in [Lines -> LineRecord]
    /\ StepOfPart
    /\ scline \in Lines \union {0}
    /\ plan \in Plans

(* A plan: the lines that wash, the recipes and programs that are chosen,  *)
(* and the commands besides EVALUATE; "reload" and "reselect" choose a     *)
(* recipe and a program while the line is not idle, "stray" unlocks a line *)
(* that is not locked.                                                     *)
BlankLine(p) ==
    [state |-> "idle", step |-> 0, part |-> -1, blocked |-> FALSE, prog |-> NoProgram,
     obj |-> p.blank, hasRecipe |-> FALSE, flags |-> NoFlags, conflict |-> FALSE,
     reset |-> FALSE, ret |-> FALSE, forced |-> FALSE, open |-> {}, dosing |-> {}]
CipInit ==
    /\ plan \in Plans
    /\ line = [l \in Lines |-> BlankLine(plan)]
    /\ scline = 0

-----------------------------------------------------------------------------
(* Mutant: an object that lost its readiness keeps all its valves.         *)
StopDevLate(l, r) ==
    [r EXCEPT !.ret = FALSE, !.forced = FALSE,
              !.open = @ \intersect ((IF r.state = "object" THEN Station ELSE {})
                                     \union (IF scline = l THEN {} ELSE TankValves))]

(* StopDev: an object that lost its readiness keeps its way back.          *)
StopDev(l, r) ==
    [r EXCEPT !.ret = FALSE, !.forced = FALSE,
              !.open = @ \intersect ((IF r.state = "object" THEN Returns ELSE {})
                                     \union (IF scline = l THEN {} ELSE TankValves))]

Stop(l, r) ==
    [StopDev(l, r) EXCEPT !.state = "idle",
        !.dosing = CASE r.step \in {105, 109} -> @ \ {"NS"}
                     [] r.step \in {115, 119} -> @ \ {"NK"}
                     [] OTHER -> @]

(* The recipe as the steps read it: P_PODP_CIRC only through its flags.    *)
Configured(r) ==
    [r.obj EXCEPT !.circ = r.flags.circ, !.feed = r.flags.feed, !.noStop = r.flags.noStop]

(* The return pump: as it was, or as the step switches it.                 *)
RetPump(now, free) == IF free THEN BOOLEAN ELSE {now}

(* InitStep: the line may be left in one of several ways.                  *)
Entered(r, open, on) ==
    [r EXCEPT !.forced = FALSE, !.open = open, !.ret = on, !.dosing = InitDosing(r.step, @)]
InitStep(l, r) ==
    LET stops == r.step \in {0, Done}
        base == IF stops THEN StopDev(l, r) ELSE r
    IN {Entered(base, o, on) : o \in InitOpen(r.step, base.open, r.prog, Configured(r)),
                               on \in RetPump(FALSE, ~ stops)}

(* GoToStep and, when the step changes, InitStep.                          *)
AtStep(r, n) == [r EXCEPT !.step = n[1], !.part = n[2], !.state = "run"]
GoOn(l, r, answer) ==
    UNION {InitStep(l, AtStep(r, n)) :
             n \in Following(r.step, r.part, answer, r.prog, Configured(r))}

LineBecomes(l, records) == \E r \in records : line' = [line EXCEPT ![l] = r]

-----------------------------------------------------------------------------
(* The operator.                                                           *)
Lock(l) ==
    /\ "lock" \in plan.commands /\ ~ line[l].blocked
    /\ LET r == [line[l] EXCEPT !.blocked = TRUE]
           stopped == IF r.state = "run" THEN Stop(l, r) ELSE r
       IN LineBecomes(l, {StopDev(l, [stopped EXCEPT !.state = "blocked"])})
    /\ UNCHANGED <<scline, plan>>

Unlock(l) ==
    /\ line[l].blocked \/ "stray" \in plan.commands
    /\ LineBecomes(l, {[line[l] EXCEPT !.blocked = FALSE,
                       !.state = IF line[l].step > 0 THEN "paused" ELSE "idle"]})
    /\ UNCHANGED <<scline, plan>>

(* EvalRecipes: a recipe or a program is chosen, whatever the line does.   *)
Select(l) ==
    /\ ~ line[l].blocked
    /\ \/ /\ line[l].state = "idle" \/ "reload" \in plan.commands
          /\ \E o \in plan.recipes :
               LineBecomes(l, {[line[l] EXCEPT !.obj = o, !.hasRecipe = TRUE]})
       \/ /\ line[l].state = "idle" \/ "reselect" \in plan.commands
          /\ \E p \in plan.programs : LineBecomes(l, {[line[l] EXCEPT !.prog = p]})
    /\ UNCHANGED <<scline, plan>>

NextStep(l) ==
    /\ "next" \in plan.commands /\ ~ line[l].blocked
    /\ line[l].state # "idle" /\ line[l].step # Done
    /\ LineBecomes(l, GoOn(l, line[l], 0))
    /\ UNCHANGED <<scline, plan>>

Pause(l) ==
    /\ "pause" \in plan.commands
    /\ line[l].state = "run" /\ line[l].step # Done
    /\ LineBecomes(l, {[Stop(l, line[l]) EXCEPT !.state = "paused"]})
    /\ UNCHANGED <<scline, plan>>

Reset(l) ==
    /\ "reset" \in plan.commands /\ ~ line[l].blocked
    /\ IF line[l].state # "idle"
       THEN LineBecomes(l, InitStep(l, [Stop(l, line[l]) EXCEPT !.step = Done,
                                       !.reset = TRUE, !.state = "run"]))
       ELSE LineBecomes(l, {[line[l] EXCEPT !.prog = NoProgram, !.hasRecipe = FALSE]})
    /\ UNCHANGED <<scline, plan>>

ForceRet(l) ==
    /\ "ret" \in plan.commands /\ ~ line[l].blocked /\ line[l].state # "idle"
    /\ \E on \in BOOLEAN : LineBecomes(l, {[line[l] EXCEPT !.ret = on, !.forced = TRUE]})
    /\ UNCHANGED <<scline, plan>>

(* EVALUATE on an idle line.                                               *)
SelfClean(prog) == prog.parts = {11}
Chosen(r) ==
    /\ r.prog.parts # {}
    /\ r.hasRecipe \/ \E p \in r.prog.parts : p >= 8
(* Mutant: it is not looked at whether other lines wash.                   *)
StartsBeside(l) == scline \in {0, l}
MayStart(l) ==
    /\ scline \in {0, l}
    /\ scline = 0 /\ SelfClean(line[l].prog) => \A m \in Lines \ {l} : line[m].state = "idle"
(* getValvesConflict compares the recipes of the lines that are not idle.  *)
Conflicts(l) ==
    IF \E m \in Lines \ {l} : line[m].state # "idle" /\ line[m].hasRecipe
    THEN BOOLEAN ELSE {FALSE}
(* init_object_devices: the flags first; then the recipe may contradict    *)
(* itself or name devices that are not there.                              *)
WithFlags(r) ==
    [r EXCEPT !.flags = [circ |-> r.obj.circ, feed |-> r.obj.feed, noStop |-> r.obj.noStop]]
WrongObject(r) == IF r.obj.circ \intersect r.obj.feed # {} THEN {TRUE} ELSE BOOLEAN
AcidOverdue(r) == IF 5 \in r.prog.parts /\ 4 \notin r.prog.parts THEN BOOLEAN ELSE {FALSE}

Start(l) ==
    LET r == line[l] IN
    /\ r.state = "idle" /\ ~ r.blocked /\ Chosen(r) /\ MayStart(l)
    /\ scline' = IF SelfClean(r.prog) THEN l ELSE scline
    /\ \E conflict \in Conflicts(l), wrong \in WrongObject(r), overdue \in AcidOverdue(r) :
         LET ready == WithFlags([r EXCEPT !.conflict = FALSE]) IN
         LineBecomes(l, CASE conflict -> {[r EXCEPT !.conflict = TRUE, !.state = "conflict"]}
                      [] ~ conflict /\ wrong -> {[ready EXCEPT !.state = "wrong"]}
                      [] ~ conflict /\ ~ wrong /\ overdue -> {[ready EXCEPT !.state = "acid"]}
                      [] OTHER -> InitStep(l, [ready EXCEPT !.state = "run"]))
    /\ UNCHANGED plan

(* EVALUATE on a line that stands in a pause or an error; one that needs   *)
(* an acid wash goes on waiting for it.                                    *)
Resume(l) ==
    LET r == WithFlags(line[l]) IN
    /\ line[l].state \notin {"idle", "run"} /\ ~ line[l].blocked /\ ~ line[l].conflict
    /\ \E wrong \in WrongObject(r) :
         LineBecomes(l, CASE wrong -> {[r EXCEPT !.state = "wrong"]}
                       [] ~ wrong /\ r.state = "acid" -> {r}
                       [] OTHER -> InitStep(l, [r EXCEPT !.state = "run"]))
    /\ UNCHANGED <<scline, plan>>

-----------------------------------------------------------------------------
(* The scan of a running line.                                             *)
Going(r, open, on) == [r EXCEPT !.open = open, !.ret = on]
Ran(r) ==
    {Going(r, o, on) : o \in RunOpen(r.step, r.open, r.prog, Configured(r)),
                       on \in RetPump(r.ret, ~ r.forced /\ r.step # 0)}
Answers(s) == IF Work[s].do = "checkRR" THEN {1, 2} ELSE {1}
Instant(r) == r.obj.isLine /\ Work[r.step].do = "emptyObject"

StepGoesOn(l) ==
    /\ line[l].state = "run" /\ line[l].step \in Steps \ {Done} /\ ~ Instant(line[l])
    /\ LineBecomes(l, Ran(line[l]))
    /\ UNCHANGED <<scline, plan>>

StepIsOver(l) ==
    /\ line[l].state = "run" /\ line[l].step \in Steps \ {Done}
    /\ \E r \in Ran(line[l]), a \in Answers(line[l].step) : LineBecomes(l, GoOn(l, r, a))
    /\ UNCHANGED <<scline, plan>>

(* CheckErr, before the step does anything, and the step's own errors.     *)
StepFails(l) ==
    /\ line[l].state = "run" /\ line[l].step # Done
    /\ \E f \in {"object", "error"} :
         LineBecomes(l, {[Stop(l, [line[l] EXCEPT !.state = f]) EXCEPT !.state = f]})
    /\ UNCHANGED <<scline, plan>>

(* Step 555: after a delay the line forgets the names of its recipe and    *)
(* program; the parameters of the recipe stay.                             *)
Finish(l) ==
    /\ line[l].state = "run" /\ line[l].step = Done
    /\ LineBecomes(l, {[BlankLine(plan) EXCEPT !.obj = line[l].obj, !.dosing = line[l].dosing,
                                           !.open = Stop(l, line[l]).open]})
    /\ scline' = IF scline = l THEN 0 ELSE scline
    /\ UNCHANGED plan

(* EvalCipInError: the object is ready again.                              *)
ObjectReady(l) ==
    /\ line[l].state = "object"
    /\ LineBecomes(l, InitStep(l, [line[l] EXCEPT !.state = "run"]))
    /\ UNCHANGED <<scline, plan>>

CipNext ==
    \E l \in plan.lines :
        \/ Lock(l) \/ Unlock(l) \/ Select(l) \/ NextStep(l) \/ Pause(l) \/ Reset(l)
        \/ ForceRet(l) \/ Start(l) \/ Resume(l) \/ StepGoesOn(l) \/ StepIsOver(l)
        \/ StepFails(l) \/ Finish(l) \/ ObjectReady(l)
CipSpec == CipInit /\ [][CipNext]_cipVars

-----------------------------------------------------------------------------
(* What makes the station correct.                                         *)
Washing(l) == line[l].state = "run" /\ line[l].part # 11 /\ line[l].step \in Steps

(* Outside the self-cleaning the media stay apart whatever a step inherits *)
(* from the one before: never acid and caustic together on the supply or   *)
(* on the return, none of them into the tank of the other, one way back at *)
(* a time (two while fresh water fills the circulation tank), and never    *)
(* through the object and past it at once.                                 *)
TanksApart ==
    \A l \in Lines : Washing(l) =>
        LET o == line[l].open  fill == Work[line[l].step].do = "fillTank"
            fresh == fill /\ Work[line[l].step].from = "WATER"
        IN /\ ~ {"V02", "V03"} \subseteq o /\ ~ {"V08", "V09"} \subseteq o
           /\ ~ {"V03", "V08"} \subseteq o /\ ~ {"V02", "V09"} \subseteq o
           /\ ~ {"V05", "V06"} \subseteq o
           /\ fresh \/ Cardinality(o \intersect Returns) <= 1

(* Fresh water runs into the circulation tank only during a step that      *)
(* closes V00 at the upper level or ends there, and never while the line   *)
(* stands: nothing else looks at the level.  (Self-cleaning and the script *)
(* of part 10 leave V00 as they find it.)                                  *)
FreshWaterWatched ==
    \A l \in Lines : "V00" \in line[l].open /\ line[l].part \notin {10, 11} =>
        /\ line[l].state = "run" /\ line[l].step \in Steps
        /\ \/ Work[line[l].step].do \in {"refill", "fillTank"} \/ Instant(line[l])
           \/ \E c \in IntakeChoices(line[l].step, line[l].open, line[l].prog,
                                      Configured(line[l])) : "V00" \notin c

(* While a line cleans the tanks of the station no other line washes, nor  *)
(* stands in the middle of a wash it could resume.                         *)
SelfCleanAlone ==
    \A l \in Lines : line[l].state = "run" /\ line[l].part = 11 /\ line[l].step # Done =>
        \A m \in Lines \ {l} : line[m].state \in {"idle", "blocked"} /\ line[m].step = 0

(* A line that does not run pumps nothing: its supply pump and supplies    *)
(* are off, no concentrate is dosed, and its return pump runs only when    *)
(* the operator forces it; concentrate is dosed only in its step.          *)
StoppedIsStill ==
    \A l \in Lines :
        /\ line[l].state # "run" \/ line[l].reset =>
             /\ line[l].open \intersect (Intake \union {"NP", "V05", "V06"}) = {}
             /\ line[l].ret => line[l].forced
        /\ line[l].dosing # {} => line[l].state = "run" /\ line[l].step \in {109, 119}
=============================================================================
