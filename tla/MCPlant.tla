-------------------------------- MODULE MCPlant --------------------------------
(***************************************************************************)
(* Small instances of the components around the operations: valves and the *)
(* queue of their closing, washing of seats, AS-interface image, exchange  *)
(* with the couplers, saved parameters, flow counter, washing station and  *)
(* frequency converter.                                                    *)
(*                                                                         *)
(* They share one main loop but none of the state modelled here, so a      *)
(* behaviour follows one of them, the one in focus, and leaves the others  *)
(* in an initial state: every property of a component is checked on all    *)
(* the behaviours of that component.                                       *)
(***************************************************************************)
EXTENDS ValveQueue, SeatWash, AsInterface, Coupler, CipLine, Params, Counter, Drive

VARIABLE focus

plantVars == <<valveVars, washVars, asVars, couplerVars, cipVars, paramVars,
               counterVars, driveVars, focus>>

Focuses == {"valves", "seats", "as", "couplers", "cip", "params", "counter",
            "drive"}

-----------------------------------------------------------------------------
(* Values of the constants.                                                *)
MCGroups == [mode |-> [upper |-> <<{1}, {2}>>, lower |-> <<{1}>>],
             step |-> [upper |-> <<>>, lower |-> <<{2}>>]]
MCFlipTime == [upper |-> 3, lower |-> 3]
MCSizeOf == [a |-> 1, b |-> 2]
MCSettings == <<"outputs", "scanner", "save">>

Blank == [isLine |-> FALSE, noTank |-> FALSE, circ |-> {}, feed |-> {},
          noStop |-> FALSE, noNeutro |-> FALSE, bothWays |-> FALSE]
Prog(parts) == [NoProgram EXCEPT !.parts = parts]

(* The whole wash of a tank and of a line; objects without the water tank, *)
(* one that is fed from where it circulates, programs of few parts and the *)
(* preparation of concentrates; a line that is given another recipe while  *)
(* it runs or stands; two lines, one of which may clean the tanks          *)
MCPlans ==
    {[lines |-> {1}, blank |-> Blank,
      commands |-> {"next", "pause", "reset", "lock"},
      recipes |-> {[Blank EXCEPT !.circ = {"S"}, !.feed = {"W"}],
                   [Blank EXCEPT !.isLine = TRUE, !.circ = {"K"}, !.feed = {"S"},
                                 !.noStop = TRUE]},
      programs |-> {Prog(0..7)}],
     [lines |-> {1}, blank |-> Blank,
      commands |-> {"next", "reset", "ret"},
      recipes |-> {[Blank EXCEPT !.noTank = TRUE, !.circ = {"S"}],
                   [Blank EXCEPT !.circ = {"S"}, !.feed = {"S"}]},
      programs |-> {Prog({0}), Prog({7}), Prog(2..3),
                    [Prog({5, 1, 0}) EXCEPT !.noRinse = TRUE], Prog({9, 8, 11})}],
     [lines |-> {1}, blank |-> Blank,
      commands |-> {"pause", "reload"},
      recipes |-> {[Blank EXCEPT !.circ = {"S"}, !.feed = {"W"}],
                   [Blank EXCEPT !.noTank = TRUE, !.circ = {"K"}, !.feed = {"S"}]},
      programs |-> {Prog({7, 5, 4, 2})}],
     [lines |-> {1, 2}, blank |-> [Blank EXCEPT !.bothWays = TRUE],
      commands |-> {"pause", "reset"},
      recipes |-> {Blank},
      programs |-> {Prog({11}), Prog({10})}]}

(* ... and two lines, where a program is also chosen while a line runs.    *)
ReselectPlans ==
    {[lines |-> {1, 2}, blank |-> Blank, commands |-> {"reselect"},
      recipes |-> {Blank}, programs |-> {Prog({11}), Prog({8})}]}

-----------------------------------------------------------------------------
OnlyIn(f, condition) == focus = f \/ condition

PlantInit ==
    /\ focus \in Focuses
    /\ ValveInit /\ WashInit /\ AsInit /\ CouplerInit
    /\ CipInit /\ ParamsInit /\ CounterInit /\ DriveInit
    /\ OnlyIn("valves", \A v \in Valves : \A k \in ValveKinds :
           valve[v].kind = CHOOSE x \in ValveKinds : TRUE)
    /\ OnlyIn("couplers", \A n \in Nodes :
           wire[n] = "good" /\ node[n].wanted = CHOOSE x \in Values : TRUE)
    /\ OnlyIn("cip", plan = CHOOSE p \in Plans : TRUE)
    /\ OnlyIn("drive", drive.saved = {})
    /\ OnlyIn("params", program = CHOOSE p \in Programs : TRUE)

InValves(A) == /\ focus = "valves" /\ A
               /\ UNCHANGED <<washVars, asVars, couplerVars, cipVars, paramVars, counterVars, driveVars,
                              focus>>
InSeats(A) == /\ focus = "seats" /\ A
              /\ UNCHANGED <<valveVars, asVars, couplerVars, cipVars, paramVars, counterVars, driveVars,
                             focus>>
InAs(A) == /\ focus = "as" /\ A
           /\ UNCHANGED <<valveVars, washVars, couplerVars, cipVars, paramVars, counterVars, driveVars,
                          focus>>
InCouplers(A) == /\ focus = "couplers" /\ A
                 /\ UNCHANGED <<valveVars, washVars, asVars, cipVars, paramVars, counterVars, driveVars,
                                focus>>
InCip(A) == /\ focus = "cip" /\ A
            /\ UNCHANGED <<valveVars, washVars, asVars, couplerVars, paramVars, counterVars, driveVars,
                           focus>>
InParams(A) == /\ focus = "params" /\ A
               /\ UNCHANGED <<valveVars, washVars, asVars, couplerVars, cipVars, counterVars, driveVars,
                              focus>>
InCounter(A) == /\ focus = "counter" /\ A
                /\ UNCHANGED <<valveVars, washVars, asVars, couplerVars, cipVars, paramVars, driveVars,
                               focus>>
InDrive(A) == /\ focus = "drive" /\ A
              /\ UNCHANGED <<valveVars, washVars, asVars, couplerVars, cipVars, paramVars,
                             counterVars, focus>>

PlantNext ==
    \/ InValves(ValveNext)
    \/ InSeats(WashNext)
    \/ InAs(AsNext)
    \/ InCouplers(CouplerNext)
    \/ InCip(CipNext)
    \/ InParams(ParamsNext)
    \/ InCounter(CounterNext)
    \/ InDrive(DriveNext)

(* The main loop goes round for ever: it evaluates the valves and the      *)
(* actions that wash seats, exchanges data with the couplers and with the  *)
(* converter, and time passes.  Other clients of the controller are active *)
(* again and again, and a converter that is reached answers in time.       *)
PlantFairness ==
    /\ WF_plantVars(InValves(EvaluateValves))
    /\ WF_plantVars(InValves(TickValves))
    /\ WF_plantVars(InSeats(WashCycle(1)))
    /\ WF_plantVars(InCouplers(Exchange))
    /\ WF_plantVars(InDrive(DriveCycle(TRUE)))
    /\ SF_plantVars(InDrive(DriveAnswers))
    /\ WF_plantVars(InDrive(DriveHearsLate))

PlantSpec == PlantInit /\ [][PlantNext]_plantVars /\ PlantFairness

-----------------------------------------------------------------------------
(* Every variable has its type: ages, counts and delays keep to their      *)
(* bounds, and the valves of the station are known ones.                   *)
PlantTypeOK ==
    /\ ValveTypeOK /\ WashTypeOK /\ AsTypeOK /\ CouplerTypeOK
    /\ CipTypeOK /\ ParamsTypeOK /\ CounterTypeOK /\ DriveTypeOK
=============================================================================
