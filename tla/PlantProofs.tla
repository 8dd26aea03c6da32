------------------------------ MODULE PlantProofs ------------------------------
(***************************************************************************)
(* The components around the operations in one loop: PlantSpec implements  *)
(* the specification of each, so what is proved of a component holds of    *)
(* the whole, for every value of the constants.                            *)
(***************************************************************************)
EXTENDS MCPlant, ValveProofs, IoProofs, StationProofs

-----------------------------------------------------------------------------
(* A step of the plant is a step of one component and changes no other.    *)
LEMMA PlantSteps ==
    ASSUME [PlantNext]_plantVars
    PROVE  /\ [ValveNext]_valveVars /\ [WashNext]_washVars /\ [AsNext]_asVars
           /\ [CouplerNext]_couplerVars /\ [CipNext]_cipVars /\ [ParamsNext]_paramVars
           /\ [CounterNext]_counterVars /\ [DriveNext]_driveVars
<1>1. CASE InValves(ValveNext)
    BY <1>1 DEF InValves
<1>2. CASE InSeats(WashNext)
    BY <1>2 DEF InSeats
<1>3. CASE InAs(AsNext)
    BY <1>3 DEF InAs
<1>4. CASE InCouplers(CouplerNext)
    BY <1>4 DEF InCouplers
<1>5. CASE InCip(CipNext)
    BY <1>5 DEF InCip
<1>6. CASE InParams(ParamsNext)
    BY <1>6 DEF InParams
<1>7. CASE InCounter(CounterNext)
    BY <1>7 DEF InCounter
<1>8. CASE InDrive(DriveNext)
    BY <1>8 DEF InDrive
<1>9. CASE UNCHANGED plantVars
    BY <1>9 DEF plantVars
<1> QED BY <1>1, <1>2, <1>3, <1>4, <1>5, <1>6, <1>7, <1>8, <1>9 DEF PlantNext

(* The main loop implements every component: between two steps of one the  *)
(* others leave it alone (main.cpp evaluates them one after the other).    *)
THEOREM PlantImplements ==
    PlantSpec => /\ ValveSpec /\ WashSpec /\ AsSpec /\ CouplerSpec
                 /\ CipSpec /\ ParamsSpec /\ CounterSpec /\ DriveSpec
<1>1. PlantInit => /\ ValveInit /\ WashInit /\ AsInit /\ CouplerInit
                   /\ CipInit /\ ParamsInit /\ CounterInit /\ DriveInit
    BY DEF PlantInit
<1> QED BY <1>1, PlantSteps, PTL DEF PlantSpec, ValveSpec, WashSpec, AsSpec,
           CouplerSpec, CipSpec, ParamsSpec, CounterSpec, DriveSpec

-----------------------------------------------------------------------------
(***************************************************************************)
(* The invariants of the components whose types are a part of them.        *)
(***************************************************************************)
(* Seats and washing actions keep their types.                             *)
LEMMA WashTypes == WashSpec => []WashTypeOK
<1>1. SeatInv => WashTypeOK
  BY DEF SeatInv, Good, Now, State, Record, WashTypeOK
<1> QED BY <1>1, WashInitInv, WashNextPreserves, PTL DEF WashSpec

(* The AS-interface bytes keep their types.                                *)
LEMMA AsTypes == AsSpec => []AsTypeOK
<1>1. AsInv => AsTypeOK
  BY DEF AsInv
<1> QED BY <1>1, AsInitInv, AsNextPreserves, PTL DEF AsSpec

(* The memory of the parameters keeps its types.                           *)
LEMMA ParamsTypes == ParamsSpec => []ParamsTypeOK
<1>1. ParamsInv => ParamsTypeOK
  BY DEF ParamsInv
<1> QED BY <1>1, ParamsInitInv, ParamsNextPreserves, PTL DEF ParamsSpec

(* The counter keeps its types.                                            *)
LEMMA CounterTypes == CounterSpec => []CounterTypeOK
<1>1. CounterInv => CounterTypeOK
  BY DEF CounterInv
<1> QED BY <1>1, CounterInitInv, CounterNextPreserves, PTL DEF CounterSpec

-----------------------------------------------------------------------------
(***************************************************************************)
(* The theorems.                                                           *)
(***************************************************************************)
(* Every component keeps its types, so the plant does: as StationTypes,    *)
(* where no program is chosen while a line of the station runs.            *)
THEOREM PlantTypes ==
    ASSUME \A p \in Plans : "reselect" \notin p.commands
    PROVE  PlantSpec => []PlantTypeOK
<1>1. CipSpec => []CipTypeOK
  BY StationTypes
<1> QED BY <1>1, PlantImplements, ValvesTypeCorrect, WashTypes, AsTypes,
           CouplersTypeCorrect, ParamsTypes, CounterTypes, DriveTypes, PTL DEF PlantTypeOK

(* In one main loop every component keeps its invariant: one way of a      *)
(* valve open, closings queued, seats owned, media apart, water watched,   *)
(* tanks cleaned alone, stopped lines still, programs on their own memory  *)
(* and every pulse accounted for; where the operators of the station       *)
(* unlock only what is locked, give a running line only recipes for the    *)
(* same kind of object, and use one line, or clean the tanks on their own. *)
THEOREM PlantIsSafe ==
    ASSUME \A p \in Plans : /\ "stray" \notin p.commands /\ SameKind(p)
                         /\ (OneLine(p) \/ CleanHabits(p))
    PROVE  PlantSpec => [](/\ OneWayOpen /\ PendingIsQueued /\ SeatOwned
                           /\ TanksApart /\ FreshWaterWatched /\ SelfCleanAlone /\ StoppedIsStill
                           /\ RunsOnOwnMemory /\ CountsWhatFlowed)
<1>1. CipSpec => []StoppedIsStill /\ []FreshWaterWatched
  BY StandingLinesAreStill, FreshWaterIsWatched
<1>2. CipSpec => []SelfCleanAlone
  BY TanksAreCleanedAlone
<1> QED BY <1>1, <1>2, PlantImplements, ValvesOneWayOpen, ValvesPendingQueued, SeatsOwned,
           MediaStayApart, ProgramsRunOnOwnMemory, CounterCountsWhatFlowed, PTL

(* ... and every component does only what it may: valves close when told,  *)
(* AS-interface valves are independent, outputs are taken for sent when    *)
(* they arrived, and a converter obeys when it is configured.              *)
THEOREM PlantActs ==
    PlantSpec => ClosesOnlyWhenTold /\ AsIndependent /\ SentHasArrived /\ ObeysConfigured
BY PlantImplements, ValvesCloseWhenTold, AsValvesIndependent, SentOutputsArrived,
   OnlyConfiguredObeys, PTL

=============================================================================
