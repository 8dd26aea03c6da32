------------------------------ MODULE CipValves ------------------------------
(***************************************************************************)
(* The valves of the washing station: what a step sets when it starts      *)
(* (InitOpen) and what it may change while it runs (RunOpen), as functions *)
(* of the set of the valves (and NP) that are open.  Levels, volumes and   *)
(* concentrations are not kept: where the code asks for one, every answer  *)
(* is possible.                                                            *)
(***************************************************************************)
EXTENDS CipSteps

Intake == {"V00"} \union Supplies
Heads == {"VWMG", "VSMG", "VKMG"}
DrainValves == {"VWDREN", "VSDREN", "VKDREN"}

SupplyOf == [t \in {"TANK_W", "TANK_K", "TANK_S"} |->
    CASE t = "TANK_W" -> "V04" [] t = "TANK_K" -> "V02" [] t = "TANK_S" -> "V03"]
ReturnOf == [t \in {"TANK_W", "TANK_K", "TANK_S"} |->
    CASE t = "TANK_W" -> "V07" [] t = "TANK_K" -> "V08" [] t = "TANK_S" -> "V09"]

Source(from) ==
    CASE from = "WATER" -> {"V00", "V01"} [] from = "none" -> {}
      [] OTHER -> {SupplyOf[from]}

(* no_neutro turns the way to the neutralisation into the drain.           *)
Neutro(obj) == IF obj.noNeutro THEN "V11" ELSE "V12"
(* The tank that is filled or washed, and the valves on the way to it.     *)
TankOf(to) ==
    CASE to = "TANK_W_MG" -> "TANK_W" [] to = "TANK_K_MG" -> "TANK_K"
      [] to = "TANK_S_MG" -> "TANK_S" [] OTHER -> to
HeadOf(to) == CASE to = "TANK_W_MG" -> {"VWMG"} [] to = "TANK_K_MG" -> {"VKMG"}
              [] to = "TANK_S_MG" -> {"VSMG"} [] OTHER -> {}
Way(to, obj) ==
    CASE to = "KANAL" -> {"V11"}
      [] to = "NEUTRO" -> {Neutro(obj)}
      [] to = "none" -> {}
      [] HeadOf(to) # {} /\ ~ obj.bothWays -> HeadOf(to)
      [] OTHER -> HeadOf(to) \union {ReturnOf[TankOf(to)]}

(* Mutant: V00 is left as it stands.                                       *)
StationKeepsV00(open, valves) == (open \ (Station \ {"V00"})) \union valves

(* Every valve of the station is set, those of the tanks are not.          *)
SetStation(open, valves) == (open \ Station) \union valves

Pumped(obj, w, from, to, open) ==
    (open \intersect {"V00"}) \union (Source(from) \ {"V00"}) \union Drains(w.step)
    \union Way(to, obj) \union (IF to = "none" THEN {} ELSE {"V06"})
    \union (IF from = "none" THEN {} ELSE {"NP"})

(* Mutant: the return to the caustic tank is not closed.                   *)
FilledKeepsReturn(w, open) ==
    IF w.from = "WATER"
    THEN (open \ {"V10", "V12", "NP"}) \union {"V00", "V01", "V11"}
    ELSE (open \ {"V00", "V06", "V07", "V08", "V11", "V12"})
         \union {"V01", "V05", "V10", "NP"}
         \union (IF w.step = 26 THEN {"V03"} ELSE IF w.step = 46 THEN {"V02"} ELSE {})

Filled(w, open) ==
    IF w.from = "WATER"
    THEN (open \ {"V10", "V12", "NP"}) \union {"V00", "V01", "V11"}
    ELSE (open \ {"V00", "V06", "V07", "V08", "V09", "V11", "V12"})
         \union {"V01", "V05", "V10", "NP"}
         \union (IF w.step = 26 THEN {"V03"} ELSE IF w.step = 46 THEN {"V02"} ELSE {})

(* Circulation through the tank of the medium (circ_tank_s, circ_tank_k)   *)
(* or through the circulation tank.                                        *)
CircWay(s, obj) ==
    CASE s = 28 /\ "S" \in obj.circ -> {"V03", "V09"}
      [] s = 48 /\ "K" \in obj.circ -> {"V02", "V08"}
      [] OTHER -> {"V01", "V10"}

(* InitStep: the sets it may leave open; at step 0 V00 opens when the      *)
(* circulation tank is not full to the middle.                             *)
InitOpen(s, open, prog, obj) ==
    LET w == Work[s]  from == From(s, prog, obj)  to == To(s, prog, obj)
        station == CASE w.do = "toObject" -> LET ways == IF to = "TANK_W" THEN {{"V07"}, {"V11"}}
                                                                         ELSE {Way(to, obj)}
                          IN {{"V05", "NP"} \union Source(from) \union r : r \in ways}
                     [] w.do = "fromObject" -> {{"V05", "NP"} \union Source(from) \union Way(to, obj)}
                     [] w.do = "emptyObject" -> {{"V05"} \union Way(to, obj)}
                     [] w.do = "emptyTank" -> {{"V01", "V05", "NP"} \union Way(to, obj)}
                     [] w.do = "circulate" -> {{"V05", "NP"} \union CircWay(s, obj)}
                     [] w.do = "dose" -> {{"V01", "V10", "V05", "NP"}}
                     [] w.do \in {"fillRR", "washRR"} ->
                          {{"V06", "NP"} \union Source("WATER") \union Way(to, obj)}
                     [] w.do \in {"circRR", "checkRR", "addRR"} ->
                          {{"V06", "NP"} \union Source(to) \union Way(to, obj)}
                     [] w.do = "refill" -> {{}, {"V00"}}
                     [] w.do = "end" -> {{"V11"}}
                     [] OTHER -> {}
    IN IF s \notin Steps THEN {open}         \* ERR_UNKNOWN_STEP
       ELSE CASE w.do = "fillTank" -> {Filled(w, open)}
              [] w.do = "pump" -> {Pumped(obj, w, from, to, open)}
              [] w.do = "custom" \/ (w.do = "emptyObject" /\ obj.isLine) -> {open}
              [] OTHER -> {SetStation(open, v) : v \in station}

(* The pumps of the concentrates that InitStep leaves on.                  *)
InitDosing(s, dosing) ==
    LET doser == IF Work[s].to = "TANK_S" THEN "NS" ELSE "NK"
    IN IF s \notin Steps THEN dosing
       ELSE CASE Work[s].do = "addRR" -> dosing \union {doser}
              [] Work[s].do \in {"circRR", "checkRR", "washRR"} -> dosing \ {doser}
              [] OTHER -> dosing

-----------------------------------------------------------------------------
(* DoStep.  Fresh water goes by the level of the circulation tank.  The    *)
(* water tank may run empty: water then comes from the circulation tank.   *)
FedBy(s) == CASE s = 28 -> "S" [] s = 48 -> "K" [] OTHER -> "W"
FeedValve(s) == CASE s = 28 -> "V03" [] s = 48 -> "V02" [] OTHER -> "V00"

IntakeChoices(s, open, prog, obj) ==
    LET w == Work[s]  from == From(s, prog, obj)  now == open \intersect Intake
    IN CASE w.do \in {"toObject", "fromObject", "fillRR", "washRR", "pump"} /\ from = "WATER" ->
              {now \ {"V00"}, now \union {"V00"}}
         [] w.do \in {"toObject", "fromObject"} /\ from = "TANK_W" ->
              {{"V04"}, {"V01"}, {"V01", "V00"}}
         [] w.do = "circulate" /\ FedBy(s) \in obj.feed ->
              {now \ {FeedValve(s)}, now \union {FeedValve(s)}}
         [] OTHER -> {now}

(* SortRR: by its concentration the return goes to its tank, to the        *)
(* neutralisation or to the drain.                                         *)
SortRR(tank, open, obj) ==
    {open \intersect Returns, {ReturnOf[tank]}, {Neutro(obj)}, {"V11"}}

ReturnChoices(s, open, prog, obj) ==
    LET w == Work[s]  from == From(s, prog, obj)  to == RunTo(s, prog, obj)
        now == open \intersect (Returns \union Heads)
    IN IF w.do = "emptyObject" /\ obj.isLine THEN {now}
       ELSE CASE w.do \in {"toObject", "fromObject", "emptyObject"} /\ to = "TANK_W" ->
                   IF w.do = "toObject" /\ from = "TANK_W" THEN {{"V11"}} ELSE {{"V07"}, {"V11"}}
              [] w.do \in {"toObject", "emptyObject", "fromObject", "washRR"}
                   /\ to \in {"TANK_K", "TANK_S"} -> SortRR(to, open, obj)
              [] w.do = "fromObject" /\ from \in {"TANK_K", "TANK_S"} -> SortRR(from, open, obj)
              [] w.do = "emptyTank" /\ to = "TANK_W" ->
                   {(now \ {"V11"}) \union {"V07"}, (now \ {"V07"}) \union {"V11"}}
              [] w.do = "circulate" /\ s \in {28, 48} /\ obj.noStop ->
                   {now, {"V10"}, {ReturnOf[IF s = 28 THEN "TANK_S" ELSE "TANK_K"]}}
              [] w.do = "pump" /\ TankOf(to) \in DOMAIN ReturnOf ->
                   {Way(to, obj)}
                   \union (IF from = TankOf(to) THEN {} ELSE {{Neutro(obj)}})
              [] OTHER -> {now}

RunOpen(s, open, prog, obj) ==
    {(open \ (Intake \union Returns \union Heads)) \union i \union r :
       i \in IntakeChoices(s, open, prog, obj), r \in ReturnChoices(s, open, prog, obj)}
=============================================================================
