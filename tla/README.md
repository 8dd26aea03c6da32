# Verification of ptusa_main

`ptusa_main` is the run-time of a process controller for food plants: a C++ program that polls the
inputs of a controller, evaluates the technological objects of a project described in Lua (tanks,
lines, boilers), writes the outputs and serves the operator's clients. This directory holds TLA+
models of its control logic, TLC configurations that check them on small instances, and theorems
checked by TLAPS.

## 1. The system

The program has one thread. `main.cpp` repeats a cycle:

    read inputs -> device_manager::evaluate_io -> valve::evaluate
      -> tech_object_manager::evaluate (every object: every operation)
      -> write outputs -> communicator (commands of clients) -> OPC UA, IoT
      -> PAC_info -> critical errors -> errors_manager::evaluate -> siren

so nothing runs concurrently inside a cycle; what interleaves are the cycles, the commands of
clients between them, the clock, and signals of the plant. What is hard is the length of the
histories: state kept over hundreds of cycles (steps, resume points, retries, alarms), changed by
commands, signals, timeouts and checks in any order, and by calls nested in one another.

| component | state it keeps | operations | interacts with | what makes it correct |
|---|---|---|---|---|
| operation manager (`operation_mngr`) | per operation: state, one active step, extra steps, their clocks, the resume point; the groups of seats under washing | start, pause, stop, finalize, evaluate, step calls, wash | calls `set_mode`/`off_mode` of its object; switches devices | what runs is accounted for; a pause loses nothing; the life cycle is kept; timed steps end; no seat is forgotten open |
| technological object (`tech_def`) | a bit per operation, counts of restrictions, errors, parameters | `set_mode`, `set_cmd`, `evaluate`, telemetry | operations, Lua callbacks, clients | bits agree with states; restricted operations exclude each other; a failed request is not retried for ever |
| alarms (`g_errors`, `PAC_err`) and siren | alarm state per device, message list per object, flags over all, version numbers for clients | evaluate, accept, suppress, set/reset critical error | devices, objects, clients, siren | an alarm is shown until it is over and accepted; clients see a new version on each change |
| valves (`device/valve`) | outputs, end switches, seats, times, the queue `to_switch_off` | on, off, instant_off, set_state, evaluate | steps, clients, I/O | one way open at a time; a delayed closing happens, and only if it is still wanted |
| AS-interface valves | a nibble of a byte two valves share | on, off, seats | I/O image | a valve does not disturb its neighbour |
| counters (`device/device`) | raw count last seen, totals, state | evaluate, pause, start, reset | steps | nothing is lost or counted twice |
| frequency converter (`IoT/iot_altivar`) with the TCP and Modbus clients | step of the exchange, command, connection, result of the request, delay of attempts | on, off, evaluate, connect, send, time out | motor, communicator, remote device | answers belong to their requests; the last command arrives or the loss is shown |
| I/O couplers (`bus_coupler_io`, `uni_bus_coupler_io`) | connection, buffers, delays, alarm | read inputs, write outputs, reconnect | sockets, devices, critical errors | a dead node is reported and retried; outputs arrive |
| parameters, NV memory (`param_ex`) | values, stored copies, the size as a mark of the owner | init, save, reset | NV RAM | what is read back is what this program saved, or its defaults |
| CIP station (`cip_tech_def`) | per line: state, step, program, recipe, valves; the line that cleans the station itself | commands, evaluate, step changes | object to wash, pumps, valves | media stay apart; fresh water is watched; self-cleaning is alone; a stopped line is still |
| communicator (`tcp_cmctr`, `l_tcp_cmctr`) | client sockets, service registry | accept, receive, answer | all components through services | every client is served; a dead one is removed |
| recipes, Modbus server, OPC UA, Profibus, RFID, PID, PAC info, Lua and project managers, platform code | see "Not modelled" | | | |

`PROJECT.json` lists each with its sources and status, and under `hazards` what in this code is
hard to test, each at its line.

## 2. Structure and plan

| part of the system | modules | composed by | abstract specification | proofs |
|---|---|---|---|---|
| operations and objects (section 3) | `OperationState`, `Operation`, `TechObject` | `TechObject`, `MCTechObject` | `OperationLifecycle` | `OperationProofs`, `TechObjectProofs`, `StepProofs` |
| alarms (section 4) | `Errors`, `Siren`, `AlarmList` | `Siren`, `AlarmList` | `AlarmLifecycle` | `AlarmProofs` |
| valves, seats (section 5) | `ValveDrive`, `ValveQueue`, `SeatWash`, `AsInterface` | `ValveQueue`, `MCPlant` | | `ValveProofs` (valves, seats), `IoProofs` (AS-interface) |
| I/O, memory, counter, converter (section 6) | `Coupler`, `Params`, `Counter`, `Drive` | `MCPlant` | | `IoProofs` |
| washing station (section 7) | `CipSteps`, `CipValves`, `CipLine` | `CipLine`, `MCPlant` | | `StationProofs` |
| the main loop around them (section 8) | `MCPlant` | | | `PlantProofs` |

Next, in order of importance:

1. the washing station: regulators and timers of a step, `OnRecipeDevices`, the statistics that are
   saved over a power failure;
2. recipes of the station (`mcaRec`) and of objects, with a restart between writing and selecting;
3. the alarms after a restart (the first number chosen freely), and the suppress field of an answer;
4. composing a step of `TechObject` with the valves of `ValveQueue` instead of one bit per step.

What is proved and what is not: every safety and action property that a passing run checks is a
theorem, for every value of the constants that the named assumptions allow. One thing stays with TLC:
liveness (`TimedStepEnds`, `FailureIsShown`, `DelayedEnds`, `WashedInTurn`, `OutputsArrive`,
`CommandArrivesOrLost`) is out of the provers' reach. A component is proved about without its fairness
(`ValveSpec`; `FairValveSpec` adds it), so its theorems hold of `PlantSpec` too (`PlantProofs`).

Induction over the devices or the operations is done on sets of numbers (a non-empty one has a least element, `WFMin` of the library); the induction theorems that
take an operator cannot be used with the installed provers, nor can anything be proved about
RECURSIVE operators, so no module that is proved about has one.

## 3. Operations and objects

### Modules and how they correspond to the code

* **`OperationState`** - `operation_state` and `step` as a record and functions from record to
  record; each is named for the method it translates (`to_step` -> `ToStep`, `on_extra_step` ->
  `OnExtraStep`, ...). The devices of a step are one bit: the step is in `live` from its `init()` or
  `evaluate()` to its `finalize()`. `active_steps`, a vector that may hold a step twice
  (`switch_active_extra_step`), is a bag; `evaluate()` erases from it while walking over it, and which
  elements that makes it pass over is the input `skip`. Signals, checks and jump conditions are
  inputs too.
* **`Operation`** - class `operation`: eight states over one `OperationState` each; `pause`, `stop`,
  `start`, `to_run_state`, `finalize`.
* **`TechObject`** - class `tech_object`: the state machine that composes the operations. A call such
  as `set_mode` is a function from the object to the set of objects it may leave, so that nested calls
  (`evaluate` -> `off_mode` -> `set_mode`) compose as they do in the code. A cycle evaluates operation
  `turn`, then (`checking`) applies its checks; commands and step calls happen between cycles
  (`turn = 0`). Lua's `check_on_...` and `user_check_...` callbacks may answer anything.
* **`OperationLifecycle`** - the abstract specification: along which edges an operation moves.
  `KeepsLifecycle` states that `TechObject` implements it under
  `state <- [i |-> ops[i].cur]`.
* **`MCTechObject`** - the instances.

### Runs and bounds

| run | instance | shows |
|---|---|---|
| `steps` | 1 operation, 2 steps (timed; extra by signal; jump back), PAUSING/UNPAUSING described, step calls | type; no step left running; resuming restores step, extra steps and time; the resume point is stable while paused; the active step runs after evaluation; life cycle |
| `restricted` | 3 operations, 1 and 2 mutually restricted, 3 restricted by 1 and not to follow 2, 3 driven by signals | bits; mutual exclusion; counts; no restart after a failed automatic start |
| `timed` | 2 timed steps, durations changed by a client | liveness: a timed step is left |
| `unpausing`, `paused_idle`, `skipped_step` | | the three findings below |

Bounds: clocks saturate at `MaxTick` (2 ticks: shorter than, equal to and longer than the duration of
one tick are told apart); `MaxCopies` = 2 entries of one extra step (one more than the code
intends). Two steps suffice for a successor, a jump, and a step that is both active and extra; three
operations for a restriction, its converse and a third party.

Fairness (`timed` only): `WF` on starting a cycle and on its going on (`Proceed`, which is always
enabled within a cycle) because the main loop never blocks in it, and `SF` on `Tick`: between two
cycles the clock can always advance and the loop sleeps in every cycle. Commands, signals and saves
are never fair.

Deadlock is checked in every run.

### Findings

* `unpausing`: `operation::start` leaves UNPAUSING without `finalize()`, so a step of UNPAUSING stays
  active besides one of RUN. `NothingLeftRunning` excepts that state and no other.
* `paused_idle`: PAUSE or STOP sent to an operation that is off marks it as on; RUN then skips the
  restrictions. `restricted` and the theorem `MutuallyExclusive` therefore assume that an operation
  that is off gets no such command.
* `skipped_step`: a step entered with duration 0 is checked against its predecessor's maximal time.

### Proofs

`OperationProofs` has lemmas about every function of `OperationState` and `Operation`: each maps
values of the type to values of the type. `TechObjectProofs` proves, for every value of the constants
that satisfies the assumptions:

* `TypeCorrect`: `Spec => []TypeOK`. Inductive by itself given the lemmas; one lemma per call.
* `ActiveOperationsHaveBits`: `Spec => []ActiveHasBit`, from the inductive `SoundInv == TypeOK /\
  ActiveHasBit`. The argument follows the calls: a call changes the bit and state of its own
  operation only, and each result of it satisfies "not IDLE implies bit" again - `off_mode` nested in
  an evaluation clears both.
* `MutuallyExclusive`: with restrictions in force and only OFF and RUN sent to an IDLE operation,
  `Spec => []MutualExclusion`. `MutualExclusion` is about states and is not inductive: an operation
  may be IDLE with its bit set (a start whose evaluation turned it off again), and the check reads
  bits. `ExclusiveInv` strengthens it to exclusion of bits.

`StepProofs` goes on from there to the steps. Every call is described by what it promises of an
operation (`Promised`, and `Evaluated`, `Answered`, `Stepped` for the results of an evaluation, of a
request and of a step call); `NextStepped` says that a step of the specification takes every operation
along one of these. The invariants are:

* `StepInv == SoundInv /\ AllInOrder`: in the current state nothing runs but the active step and
  the listed extra steps (`Accounted`); other states are quiet, UNPAUSING apart; the
  clock of a step whose time nobody keeps counts as run out (`Clocked`). It gives `NothingIsLeftRunning`,
  `ResumeGivesBack`, `ResumePointIsKept`, `FailedStartIsNotRepeated` and `LifecycleIsKept`, the last
  being the refinement of `OperationLifecycle`.
* `RunsInv` adds what the evaluation of operation `turn` has left behind: `ActiveStepsRun`.
* `CountInv` counts the restrictions in force and compares them with what each object shows:
  `RestrictionsAreCounted`, which assumes that an IDLE operation gets OFF and RUN only. Without this
  the count does drift: PAUSE sets the bit of an IDLE operation without `lua_init_mode`
  (finding `paused_idle`).

Only model-checked: `TimedStepEnds` (liveness).

## 4. Alarms

### Modules and how they correspond to the code

* **`Errors`** - what `errors_manager` and `PAC_critical_errors_manager` keep: the state of every
  device's alarm (`tech_dev_error`), the list of messages of every object (`tech_object::errors`, as
  `tech_obj_error` sees it), the critical errors, and the version of each (`errors_id`, 16 bits). In a
  cycle devices fail or recover, objects give messages and clients send commands (`Before`), then
  `EvaluateAlarms` is one call of `errors_manager::evaluate()`. `WithDevice` is what one device does to
  the static flags (`is_any_error`, ...), `Flags` what is left of them after all devices in their
  order.
* **`Siren`** - extends it by `siren_lights_manager::eval()`, which runs right after the evaluation.
* **`AlarmList`** - extends it by the answers to CMD_GET_PAC_ERRORS with their static variables
  (`answers`), which all clients share, and by clients that keep the list they show while the number
  of the answer stays the same. Clients are external: that they do so is how the number is meant.
* **`AlarmLifecycle`** - the abstract specification: an alarm is raised unaccepted, is listed until it
  is over and accepted, and is accepted once per raise. `KeepsAlarmLifecycle` states that the alarms
  implement it, `active` and `accepted` being read off the alarm state.

### Runs and bounds

| run | instance | shows |
|---|---|---|
| `alarms` | 3 devices, 1 critical error, 4 changes of the alarms, 2 of the critical errors | red lamp and siren follow the alarms that are not masked; life cycle |
| `alarm_list` | 1 device, 1 object with room for 1 message, 2 messages, 1 critical error, 1 client and others that poll as well, 3 and 2 changes | no change is hidden behind an old number; a lasting failure is shown in the end |
| `masked_alarm` | 2 devices | the finding below |

Three devices tell a suppressed device apart from one before and one after it. Two messages are the
least that can leave the size of a list as it was. One client is looked at; `OtherPoll` stands for any
number of others, which matter only through the shared variables. `MaxId` and `MaxCritId` bound the
changes, so that versions do not wrap in the runs (a hazard listed without a property).

Fairness (`alarm_list` only): `WF` on the evaluation and on the next cycle, because the main loop
always reaches them; `SF` on the end of the 5 s delay, since time passes in every cycle; and `SF` on
`Poll(c)`, an assumption on the client: it asks again and again. Failures, commands and critical
errors are never fair.

### Finding

* `masked_alarm`: a suppressed device in failure does not just stay out of the flags `is_any_error`,
  `is_new_error` and `is_any_no_ack_error`; it resets them for all devices before it. A suppressed
  device added after one in alarm turns off the lamp and the siren for that one. `RedFollowsAlarms` and
  `SirenFollowsAlarms` describe what the code does (`Unmasked`).

### Proofs

`AlarmProofs` proves about `Siren!Spec`, for any number of devices, objects and critical errors:

* `AlarmsTypeCorrect`: `Spec => []ErrorsTypeOK`, which is inductive; its arithmetic part is that a list
  of messages never exceeds `MaxErrors` (`MessageCount`, from the library's theorems on finite sets).
* `AlarmsKeepLifecycle`: `Spec => KeepsAlarmLifecycle`. `LifecycleMoves` says that a step in which
  every device makes one of six moves is a step of the life cycle; only `Accept` and `EvaluateAlarms`
  move devices, the second all of them at once.
* `RedFollows`, `SirenFollows`: the flags are computed device by device, a recursive function of the
  number of devices looked at; that they say what `Unmasked` says is shown by induction on that number
  (`LeastNumber`: if it failed there would be a first device where it does).
* `ClientsAreTold`, about `ListSpec` of `AlarmList`: `Spec => []ClientsShowAlarms`, by `ListInv`. Its
  parts: how often alarms and critical errors can have changed (`Bounded`), what an evaluated cycle
  leaves (`Settled`), which changes no answer has told yet (`Untold`), that the number of the answers
  moves with every change told (`Counting`, `Numbered`), what critical errors withhold (`Withheld`), and
  for each client that it shows what was told with the number it keeps (`Kept`). `VersionsAssumption`
  (`MaxId + 1 + MaxCritId < 2^16`) keeps the numbers from coming round, which is a hazard of its own.

Only model-checked: `FailureIsShown` (liveness).

## 5. Valves

### Modules and how they correspond to the code

* **`ValveDrive`** - one valve as a record: `on`, `off`, `direct_set_state`, the end switches and the
  coils with their times, for eight kinds (`shutoff`: one output; `twocoil`, `bistable`: two coils;
  `mixproof`, `bottom`, `miniflush`: seats and a mini valve; `terminal` and `iolink`, which differ in
  where their state is read). Functions on the record are named for what the method does to it.
* **`ValveQueue`** - the valves and the static vector `to_switch_off`. The program calls `on`, `off`,
  `instant_off` and `set_state`, which respect the manual mode; a client's command does not; end
  switches answer when they like or never. `EvaluateValves` is one `valve::evaluate()`: it takes the
  valves whose delay is over, closes them and releases coils. The vector may hold a valve twice
  (`on()` and `off()` within the delay), so the queue is a bag. `told` is a history variable: the last
  of `on()` and `off()` that was called.
* **`SeatWash`** - `open_seat_action` twice, as the action of an operation's state and as that of its
  active step, together with `off_action`. Both may name the same mixproof valve; a cycle ends groups,
  flips to the next one and opens its seats. `WordSize` is the width of the unsigned waiting time, which
  wraps around when the flips do not fit into the time in which a wash repeats (`Totals` contains such
  a time; the code then waits until the clock comes round).
* **`AsInterface`** - valves on AS-interface: two of them write and read one byte, each its own
  nibble; `Reversed` valves have the coils of their seats exchanged.

### What the run `plant` shows of them

* `OneWayOpen`: no valve has a seat lifted under an open main drive, both seats lifted, or both coils
  energised, whoever calls it in whatever order.
* `PendingIsQueued`, `ClosesOnlyWhenTold`, `DelayedEnds`: a closing that is pending is in the queue;
  the queue closes a valve only when `off()` was the last call and the delay is over, although an
  `on()` leaves its old entry behind; every delay ends. Bottom valves are excepted from the first and
  the last, see the finding.
* `SeatOwned`, `WashedInTurn`: an open seat is being washed by somebody, also after pausing, changing
  step, or when the other action ends; groups are washed in turn.
* `AsIndependent`: a command to one valve leaves the coils of the other.

Finding, run `bottom_valve`: `valve_bottom_mix_proof::is_switching_off_finished()` is true until the
mini valve is closing, so the first cycle after a delayed `off()` throws the entry out of the queue
and the valve stays open.

### Proofs

* `ValveProofs` (any valves, kinds and delays): `ValveInv` consists of `ValveOK` of every record (type,
  one way, only outputs of its kind), `PendingIsQueued`, the bound of the queue and `PendingIsTold` (what
  is pending was told to close). `PendingIsQueued` alone is not inductive for the action property, since
  the queue may hold stale entries; `PendingIsTold` says why these are harmless. Results:
  `ValvesTypeCorrect`, `ValvesOneWayOpen`, `ValvesPendingQueued`, `ValvesCloseWhenTold`.
* `ValveProofs`, second part (any valves, groups, times and widths): `SeatsOwned`. A cycle is a chain of functions on
  the whole state; in the middle of it a seat may hang on an action that is about to change, so the
  invariant `Good` is complemented by `FreeOf(s, a)`: every open seat is also washed by another action
  than `a`. A function that ends a group establishes it, and one that changes the record of `a` needs it.
* `IoProofs`: `AsValvesIndependent` and `AsValvesOneWay`, for any valves numbered from 0 to 63: two
  valves in one byte have different nibbles, and a command writes within its nibble.

## 6. Couplers, memory, counter, converter

* **`Coupler`** - `uni_io_manager`: reading the inputs and writing the outputs of every coupler through
  `e_communicate`. A line is good or bad (`wire`); on a bad one a request may get lost, arrive without
  its answer arriving, or be refused. `node[n].sent` is the image the controller takes for the present
  one, `field[n]` the one the coupler has. `SentHasArrived`: the controller takes no image for sent
  that the coupler has not had. `OutputsArrive`: on a line that stays good, outputs that are wanted
  for good arrive and the alarm ends, through growing delays and resets of the connection.
* **`Params`** - `params_manager` on non-volatile memory: size check, defaults slot by slot, saving,
  reset. Power may fail between any two writes and another program may be loaded while it is off.
  `RunsOnOwnMemory`, in every state in which a program runs: the memory carries its size; every slot it
  has written since it was the first to put its size there (the history `own`) holds the last value it
  saved, and RAM has a value of its own; and it has written all slots, unless a power failure fell into
  setting up the defaults (`torn`). In that case the code does fail: the size is written before the
  defaults (`param_ex.cpp:110`), the next start sees its own size and goes on with what the other program
  left in the slots that the reset had not reached. The invariant says how far this goes: the slots it
  had reached, and all that is saved later, are never lost. Programs are assumed to differ in size
  (`ParamsAssumption`), because the size is all the code compares; two programs of equal size are not
  told apart.
* **`Counter`** - `base_counter`: totals as sums of differences of a raw count that overflows,
  watching that the count moves. The history `flow` follows the meter, not the code: `through` has every
  pulse outside pauses since the last reset of the total. `CountsWhatFlowed`, in every state: each of
  them is in the total exactly once, or waits for the next scan in work (`unseen`), or is lost (`lost`).
  Something is lost in three places only, each its own line of the model: the pulse at which the raw
  count overflows (`MaxRaw - last + raw` at `device.cpp:1129` is one short of the distance), the pulses
  before the first reading that is not zero, and those that no scan had seen when a pause began. A restart
  of the meter (a count that falls back to 0 by itself) is not modelled.
* **`Drive`** - a motor on a frequency converter (`altivar_node`) over Modbus TCP: the steps of the
  exchange, `modbus_client`'s asynchronous requests, `linux_tcp_client` with its growing delay between
  attempts, and what `tcp_communicator_linux::evaluate` does for asynchronous clients. The network is
  the record `link`: the cable may be cut at any time, a request that was given up is lost or arrives
  late (`late`), and the converter may lose its power and come back with the settings it saved or as a
  new one. `ObeysConfigured`: a converter never obeys before it has every setting, so no answer is taken
  for that of another request. `CommandArrivesOrLost`: when the cable stays as it is the last command
  arrives and is kept, or the loss is shown. A power failure in the middle of a configuration is
  excluded: the node goes on where it was, so the converter would get only the rest of its settings.

### Proofs

* `IoProofs`: `SentOutputsArrived` and `CouplersTypeCorrect` for any number of couplers; the type
  invariant carries that the delay of attempts is at most `2 * C_MAX_DELAY`.
* `IoProofs`, memory: `ProgramsRunOnOwnMemory`. `ParamsInv` is about ownership: the owner is
  forgotten when a reset is commanded, and is the program from the moment its size is written; while there
  is an owner the stored size is its size, which no other program has (`SizeInv`); outside a reset it has
  written all slots, or power failed in one (`OwnerInv`); what it wrote is what is stored (`MemoryInv`);
  within a reset it has written exactly the slots saved so far (`ResetInv`).
* `IoProofs`, counter: `CounterCountsWhatFlowed`. `CounterInv` says that every pulse is accounted for and
  that those no scan has counted are the gap between the raw count last seen and the present one, less the
  one that an overflow costs (`CountedInv`), and that this gap is small enough to be told from a restart of
  the meter: the pulses of one scan at work (`WorkInv`), of two in error, because the absolute total shows
  the movement one scan later (`ErrorInv`).
* `IoProofs`, converter: `OnlyConfiguredObeys` (`ObeysConfigured`) and `DriveTypes`, for any list of settings,
  times and delays. `DriveInv` has three parts besides the types. `Matched`: one request or one answer at
  most is on the connection, it belongs to what the node is asking (`WhatAsked`), the communicator
  waits for it, and no result is left over when nothing is asked - telegrams carry no number, so this is
  all that ties an answer to its request. `Complete`: the converter has every setting that counts as
  written, and outside the configuration all or none. `Trailing`: a setting that arrives late changes
  nothing after the configuration and saves no part of the settings. Every function of the exchange is
  shown to keep them (`DisconnectedKeeps`, `SentKeeps`, `AskedKeeps`, `CommunicatedKeeps`,
  `SteppedKeeps`). `SavedLast` is assumed, as in `iot_altivar.cpp:254`: saving is the last setting.

## 7. Washing station

* **`CipSteps`** - the parts of a program (rinse, caustic, acid, disinfection, ...), their steps, how
  `GoToStep` and `_GoToStep` choose the next one and where it jumps. **`CipValves`** - what `InitStep`
  and `DoStep` do to the valves of the station in every step. **`CipLine`** - the lines: one action is one
  `evaluate()` of a line with at most one command. Answers of the plant (levels, conductivity, time,
  volume, errors) are free: a step goes on, ends, or fails. A plan, chosen at the start, says which
  recipes, programs and commands a behaviour draws from.
* `TanksApart`: acid and caustic never together on the supply or the return, nor into each other's
  tanks, one way back at a time. `FreshWaterWatched`: fresh water runs into the circulation tank only
  where the step looks at its level, and never while a line stands. `SelfCleanAlone`: nobody washes
  while a line cleans the tanks. `StoppedIsStill`: a line that does not run pumps and doses nothing,
  through every way of stopping. `StepOfPart`, in the type invariant: no jump leaves the part.
* Finding, run `cip_selfclean`: a program chosen while a line waits in step 0 is read again when the
  step is over, so self-cleaning starts beside another wash. `plant` therefore has no `reselect` in its
  plans.
* A recipe is chosen whatever the line does (`EvalRecipes` looks at no state): the command `reload`, in a
  plan of `plant` with a line that is paused and resumed. The steps read most of a recipe when they need
  it, and the flags of `P_PODP_CIRC` as they were at the last start or resumption (`flags`, `WithFlags`).
* `init_object_devices` fails when the flags contradict each other, and may fail for any recipe because a
  device of the object is missing (`WrongObject`). A line that waits for an acid wash goes on waiting when
  it is resumed. Step 176 is initialised for one tank and run for another (`To`, `RunTo`).

### Proofs

`StationProofs` proves these properties for any lines, recipes, programs and plans. It begins with the
tables (a step has one row, `WorkRow`; what kind of step it is, `StepKind`) and with what the pure
operators do: where a step leads (`Leads`), what it sets when it is entered (`InitOpenIs`) and what it
may change later (`RunOpenIs`). The relation `Outcome` then says what any action does to the record of
its line (`ActionsAre`), and each invariant is shown to be kept by every outcome:

* `StationInv`: a line stands at a step of its part (`Placed`), and outside the self-cleaning the media
  are apart in whatever the valves inherit from the step before (`Apart`). No assumption about
  operators; gives `MediaStayApart`. `TanksApart` itself is not inductive: a step leaves alone the
  valves it does not name, so one must know which steps can come before.
* `StillInv`: a line that does not run has every device off (`Still`) and doses only at its step
  (`Dosed`). It assumes that no operator unlocks a line that is not locked (`"stray"`: a running line
  would be marked as paused and nothing stopped); gives `StandingLinesAreStill`.
* `FreshInv`: a line lets fresh water run only where it is watched (`Fresh`). Besides that it assumes that
  a line which is not idle is given only recipes for the same kind of object (`SameKind`): emptying a line
  ends at once and leaves V00 as it finds it, emptying a tank does not end and does not look at the level.
  Gives `FreshWaterIsWatched`.
* `PartInv`: the part a line washes is one of its program. It assumes that no program is chosen while a
  line runs (`"reselect"`, the finding `cip_selfclean`); gives `StationTypes`.
* `CleanInv`: the line that cleans the tanks is known to the others (`Known`, `Owns`, `Alone`). Besides
  that it assumes that a program which cleans the tanks does nothing else (`CleanHabits`): the check
  before a start compares the program with the self-cleaning exactly (`cip_tech_def.cpp:1866`), so a
  longer program that contains it is started without the check. Gives `TanksAreCleanedAlone`, which
  also allows stations where one line is used (`OneLine`, `UnusedStays`): no other can be disturbed.

## 8. `MCPlant`: one run for the components around the operations

The components of sections 5 to 7 share the main loop and none of the state modelled here. A behaviour
of `PlantSpec` follows one of them, its `focus`, and leaves the others in an initial state; a property
of a component is thus checked on exactly the behaviours of that component (and on stuttering ones,
where properties must hold as well). `OnlyIn` fixes the free choices of the other initial states.

| focus | instance | why it is enough |
|---|---|---|
| `valves` | one valve of each of eight kinds in turn, delays of 1 tick, ages to 2, two entries in the queue | an entry concerns its own valve only, so more valves add nothing to one (the theorems are for any number); before, at and after a delay are told apart; two entries are an old and a new one |
| `seats` | 2 valves, groups of 2 and 1 in one action and 1 in the other, one valve shared; total of 0 and 12, flips of 3 | a valve of each action alone, one of both, a change of groups, a total that fits the flips and one that does not |
| `as` | numbers 33 and 34 in one byte, 33 with reversed seats, 2 in another byte | two valves that share a byte and one that does not |
| `couplers` | 1 coupler, 2 images of outputs, delays of 1 to 3, silence to 6 cycles | couplers share nothing; the delay doubles past its maximum; the alarm rises and falls |
| `cip` | plans of one line with the whole wash, objects with and without tank, programs of few parts; one that gets another recipe while it runs; two lines with self-cleaning | every step and jump of the tables is reached |
| `params` | 2 programs of different sizes, 2 slots | a change of program and back; a failure before, between and after the slots |
| `counter` | raw count to 4, one pulse per scan, totals to 7 | several rounds of the raw count |
| `drive` | 3 settings (before the scanner, the scanner, saving them), commands on and off, time-outs of one cycle | a converter with no settings, some, all; a time-out with a late answer; delay below and above its maximum |

Fairness of `PlantSpec`: `WF` on evaluating valves, on time in valves and on the washing actions of one
step, on the exchange with couplers and on the cycle of the converter, because the main loop goes round
for ever and calls each of them in every cycle. Commands, inputs, failures of power or line and what
programs do are never fair. For the converter three assumptions are about its surroundings: other
clients of the controller are active again and again (`DriveCycle(TRUE)`), because
`tcp_communicator_linux::evaluate` looks at time-outs only when `select` reports some socket
(`if ( 0 == rc ) break;`, `l_tcp_cmctr.cpp:337`): with `WF` on `DriveCycle(FALSE)` instead TLC finds
`CommandArrivesOrLost` violated; a converter that is reached answers before the time is over again and
again (`SF` on `DriveAnswers`); and what is under way arrives some time.

`PlantProofs` shows that `PlantSpec` implements the specification of each of its components
(`PlantImplements`: a step is one of a component and changes no other, `PlantSteps`), and from the
theorems of sections 5 to 7 that the plant has every invariant and action property the run checks, for
every value of the constants: `PlantTypes` (`PlantTypeOK`), `PlantIsSafe` and `PlantActs`. The
assumptions about the operators of the station are those of section 7, and the plans of the run
satisfy them.

Only model-checked: `DelayedEnds`, `OutputsArrive`, `CommandArrivesOrLost` and `WashedInTurn`, which
are liveness.

## Not modelled

A large part of the sources has no behaviour of its own to check, and the map leaves it out on purpose:
`PAC_dev_lua.cpp` (16 thousand lines of generated bindings, as `PAC_dev.hh` and the other `_tolua`
files), telegrams and packing of channels (`bus_coupler_io`), sensors and the many devices that
translate one value into another (`device.cpp`, `analog_emulator`), text and telemetry of devices and
objects, statistics of the station, log, console and Windows code. Of the rest:

* operations: restrictions by operations of other objects; Lua callbacks that call `set_mode` again;
  the actions of a step other than washing, which are one bit; messages and telemetry of an object;
* alarms: texts, the yellow and green lamp, the suppress field of an answer, a restart;
* valves: errors (`get_state` only reads), emulator mode; AS-interface valves have no delays;
* couplers: the kinds of modules and what is read into devices;
* parameters: the checksum, which no code computes, the layout of offsets, run-time parameters;
* station: regulators, timers and volumes (a step may end at any time), the files of recipes,
  statistics, the car wash, what the devices of the object do;
* converter: frequency, currents, ATV630, the exchange of telegrams piece by piece;
* the communicator's own clients, Modbus server, OPC UA, Profibus, RFID, PID, PAC info, Lua and project
  managers: each with its reason in `PROJECT.json`.

### Observations made while modelling

Where the code does something a reader would not expect that no run shows as a finding: no document says
otherwise, or it is outside the models, or it is stated in the model where it happens:

* Valves: `set_state(1)` does not cancel a pending delayed closing; `off()` of a bistable valve is
  ignored while its closed switch is on; `valve_DO2_DI2` reads its state from the closing coil
  (`valve.cpp:670`).
* Couplers: when reading inputs fails and writing outputs succeeds, the inputs stay as they were
  without an alarm; a number of outputs above 255 is truncated; the delay may exceed `C_MAX_DELAY` by up to
  twice.
* Parameters: the checksum is never computed, so the check and the defaults that `param_ex.h:80` promises
  for a memory that reads wrong do not happen; a power failure inside the defaults leaves slots of the
  program before, which the next start takes for its own (`param_ex.cpp:110`, section 6); programs with
  equal sizes share a memory unnoticed; a recipe that was renamed is lost at a restart (`mcaRec.cpp:190`).
* Counter: the first reading that is not zero is only remembered, so what it stands for is not counted;
  `pause()` says that it brings the counter up to date (`device.cpp:1175`), but `get_quantity()`, which it
  calls, does not evaluate it: what flowed since the last scan is left out. Each overflow of the raw
  count loses one pulse: the distance past the largest value (`device.cpp:1355`) takes one step more than
  the difference at `device.cpp:1129`.
* Station: V00 stays open from step 0 into self-cleaning; lock and unlock in step 0 leave the state of
  the line as if it ran; NEXT passes over the checks of conflicts and overdue acid; step 176 initialises
  the valves for another tank than it then works on. EVALUATE on a line that waits for an acid wash keeps
  it waiting, but if a device is missing at that moment the line is in another error, from which the next
  EVALUATE starts the wash without the acid. A recipe for a tank that is chosen while a line is emptied
  leaves V00 open with nothing that looks at the level.
* TCP client: if `connect()` fails at once, `AsyncConnect` closes the socket and still reports
  ACS_CONNECTED (`l_tcp_client.cpp:186`, `:253`); the request is then sent on descriptor 0. The delay
  between attempts may exceed its maximum by up to twice (`tcp_client.cpp:84`).
* Converter: the command is put into the buffer before the exchange (`iot_altivar.cpp:279`) and sent
  again from there, so after an outage the converter first gets the command from before it.
