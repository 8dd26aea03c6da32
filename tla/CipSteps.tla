------------------------------ MODULE CipSteps ------------------------------
(***************************************************************************)
(* The tables of the washing station: which step follows which, what a     *)
(* step does, and which valves of the station it opens.                    *)
(*                                                                         *)
(*   V00 fresh water into the circulation tank     V05 to the object       *)
(*   V01..V04 supply from the circulation tank,    V06 past the object     *)
(*            acid, caustic and water tanks                                *)
(*   V07..V12 return to the water, acid, caustic and circulation tanks,    *)
(*            to the drain and to the neutralisation                       *)
(*   NP the supply pump;  NS, NK the pumps that dose the concentrates      *)
(*   V?MG, V?DREN washing heads and drains of the tanks (self-cleaning)    *)
(*                                                                         *)
(* An object that is washed is a record of what its recipe says of it.     *)
(***************************************************************************)
EXTENDS Integers, Sequences

Parts == 0..11          \* PRG_OKO .. PRG_SELFCLEAN
Done == 555

Supplies == {"V01", "V02", "V03", "V04"}
Returns == {"V07", "V08", "V09", "V10", "V11", "V12"}
Station == Supplies \union Returns \union {"V00", "V05", "V06", "NP"}
TankValves == {"VWMG", "VSMG", "VKMG", "VWDREN", "VSDREN", "VKDREN"}
Dosers == {"NS", "NK"}

Recipe == [isLine: BOOLEAN,             \* P_OBJ_TYPE
           noTank: BOOLEAN,             \* P_DONT_USE_WATER_TANK
           circ: SUBSET {"S", "K"},     \* CIRC_TANK_S, CIRC_TANK_K
           feed: SUBSET {"S", "K", "W"},\* CIRC_PODP_*
           noStop: BOOLEAN,             \* CIRC_STOP_PUMP_MEDIUM
           noNeutro: BOOLEAN,           \* no_neutro: the drain instead
           bothWays: BOOLEAN]           \* scoldvalves = 0: head and return

Program == [parts: SUBSET Parts,        \* the bits of P_PROGRAM
            noRinse: BOOLEAN,           \* disable_final_rinsing
            rinseTo: {"TANK_W", "KANAL"}] \* clean_water_rinsing_return

-----------------------------------------------------------------------------
(* _InitStep: step, what it does, from where and to where ("kind", then    *)
(* the drains, for the self-cleaning).                                     *)
ToObjectSteps == {
    <<5, "src", "KANAL">>, <<8, "src", "KANAL">>, <<14, "src", "KANAL">>,
    <<22, "TANK_S", "KANAL">>, <<33, "media", "TANK_S">>, <<37, "media", "dest">>,
    <<42, "TANK_K", "KANAL">>, <<53, "WATER", "TANK_K">>, <<57, "WATER", "dest">>,
    <<62, "WATER", "dest">>, <<72, "WATER", "dest">>,
    <<83, "WATER", "rinse">>, <<86, "WATER", "rinse">>}
FromObjectSteps == {
    <<7, "src", "KANAL">>, <<24, "TANK_S", "KANAL">>, <<35, "media", "TANK_S">>,
    <<44, "TANK_K", "KANAL">>, <<55, "WATER", "TANK_K">>, <<64, "WATER", "dest">>,
    <<74, "WATER", "dest">>, <<85, "WATER", "rinse">>}
EmptyObjectSteps == {
    <<6, "none", "KANAL">>, <<9, "none", "KANAL">>, <<23, "none", "KANAL">>,
    <<34, "none", "TANK_S">>, <<40, "none", "dest">>, <<43, "none", "KANAL">>,
    <<54, "none", "TANK_K">>, <<60, "none", "dest">>, <<63, "none", "dest">>,
    <<73, "none", "dest">>, <<79, "none", "KANAL">>, <<84, "none", "rinse">>,
    <<91, "none", "rinse">>}
FillSteps ==
    {<<s, "RETURN", "none">> : s \in {10, 13, 26, 46}} \union
    {<<s, "WATER", "none">> : s \in {31, 61, 65, 71, 75, 81}}
CirculateSteps == {
    <<11, "WATER", "none">>, <<28, "SHCH", "none">>, <<48, "KISL", "none">>,
    <<66, "WATER", "none">>, <<77, "WATER", "none">>}
EmptyTankSteps == {
    <<12, "none", "KANAL">>, <<15, "none", "KANAL">>, <<16, "none", "KANAL">>,
    <<29, "none", "TANK_S">>, <<39, "none", "dest">>, <<49, "none", "TANK_K">>,
    <<59, "none", "dest">>, <<67, "none", "dest">>, <<78, "none", "KANAL">>}
PreparationSteps(kind, s, k) == {<<s, kind, "TANK_S">>, <<k, kind, "TANK_K">>}

PumpSteps == {
    <<151, "TANK_W", "KANAL">>, <<152, "TANK_W", "KANAL">>, <<153, "WATER", "TANK_W_MG">>,
    <<154, "none", "none">>, <<155, "TANK_S", "TANK_S">>, <<156, "TANK_S", "TANK_W_MG">>,
    <<157, "TANK_S", "TANK_W_MG">>, <<160, "WATER", "TANK_S">>, <<161, "TANK_W", "TANK_W_MG">>,
    <<162, "TANK_K", "TANK_K">>, <<163, "TANK_K", "TANK_S_MG">>, <<164, "TANK_K", "TANK_S_MG">>,
    <<167, "WATER", "TANK_K_MG">>, <<168, "TANK_S", "TANK_S_MG">>, <<169, "TANK_W", "TANK_K_MG">>,
    <<170, "TANK_W", "TANK_K_MG">>, <<173, "WATER", "TANK_W">>, <<174, "TANK_K", "TANK_K_MG">>,
    <<175, "TANK_S", "TANK_W_MG">>, <<176, "TANK_S", "NEUTRO">>, <<179, "WATER", "TANK_S_MG">>,
    <<180, "TANK_W", "TANK_W_MG">>, <<181, "TANK_K", "NEUTRO">>, <<182, "TANK_K", "NEUTRO">>,
    <<183, "TANK_W", "NEUTRO">>, <<184, "TANK_W", "NEUTRO">>, <<185, "WATER", "TANK_S_MG">>,
    <<186, "WATER", "TANK_K_MG">>, <<187, "WATER", "TANK_W_MG">>, <<188, "none", "none">>}

Drains(s) ==
    CASE s \in {154, 174} -> {"VWDREN"}
      [] s \in {161, 180} -> {"VSDREN"}
      [] s \in {168, 183, 184} -> {"VKDREN"}
      [] s = 185 -> {"VKDREN", "VWDREN"}
      [] s = 186 -> {"VSDREN", "VWDREN"}
      [] s = 187 -> {"VSDREN", "VKDREN"}
      [] s = 188 -> {"VSDREN", "VKDREN", "VWDREN"}
      [] OTHER -> {}

Rows(kind, table) == {[step |-> t[1], do |-> kind, from |-> t[2], to |-> t[3]] : t \in table}
WorkTable ==
    Rows("toObject", ToObjectSteps) \union Rows("fromObject", FromObjectSteps)
    \union Rows("emptyObject", EmptyObjectSteps) \union Rows("fillTank", FillSteps)
    \union Rows("circulate", CirculateSteps) \union Rows("emptyTank", EmptyTankSteps)
    \union Rows("dose", {<<76, "WATER", "none">>}) \union Rows("pump", PumpSteps)
    \union Rows("custom", {<<300, "none", "none">>})
    \union Rows("refill", {<<0, "none", "none">>})
    \union Rows("end", {<<Done, "none", "none">>})
    \union Rows("fillRR", PreparationSteps("WATER", 105, 115))
    \union Rows("circRR", PreparationSteps("tank", 106, 116))
    \union Rows("checkRR", PreparationSteps("tank", 108, 118))
    \union Rows("addRR", PreparationSteps("tank", 109, 119))
    \union Rows("washRR", PreparationSteps("WATER", 111, 121))
Steps == {w.step : w \in WorkTable}
Work == [s \in Steps |-> CHOOSE w \in WorkTable : w.step = s]

(* pr_media, tank_w_src, tank_w_dest and cleanrinsingto of a step.         *)
From(s, prog, obj) ==
    CASE Work[s].from = "src" -> IF obj.noTank THEN "WATER" ELSE "TANK_W"
      [] Work[s].from = "media" ->
           IF 4 \in prog.parts /\ ~ obj.noTank THEN "TANK_W" ELSE "WATER"
      [] Work[s].from = "tank" -> Work[s].to
      [] OTHER -> Work[s].from
To(s, prog, obj) ==
    CASE Work[s].to = "dest" -> IF obj.noTank THEN "KANAL" ELSE "TANK_W"
      [] Work[s].to = "rinse" -> prog.rinseTo
      [] OTHER -> Work[s].to
(* _DoStep runs step 176 into another tank than _InitStep opens.           *)
RunTo(s, prog, obj) == IF s = 176 THEN "TANK_W_MG" ELSE To(s, prog, obj)

-----------------------------------------------------------------------------
(* _LoadProgram: the next part of the program (getNexpPrg), 555 at its end.*)
EntryStep(part, prog) ==
    CASE part = 11 -> 151 [] part = 10 -> 300 [] part = 9 -> 105 [] part = 8 -> 115
      [] part = 7 -> 5 [] part = 6 -> 10 [] part \in {5, 3} -> 22 [] part = 4 -> 42
      [] part = 2 -> 61 [] part = 1 -> 71
      [] part = 0 -> IF prog.noRinse THEN 91 ELSE IF prog.parts = {0} THEN 83 ELSE 81
      [] OTHER -> Done

NextPart(part, prog) ==
    LET left == {p \in prog.parts : part < 0 \/ p < part}
    IN IF left = {} THEN -1 ELSE CHOOSE p \in left : \A q \in left : q <= p

LastSteps == {0, 9, 15, 16, 40, 60, 67, 79, 91, 111, 121, 188, 300}
Jumps == [s \in {5, 8, 26, 29, 31, 35, 37, 46, 49, 55, 57, 81, 86, 106, 116} |->
    CASE s = 5 -> 7 [] s = 8 -> 16 [] s = 26 -> 28 [] s = 29 -> 31 [] s = 31 -> 33
      [] s = 35 -> 37 [] s = 37 -> 39 [] s = 46 -> 48 [] s = 49 -> 53 [] s = 55 -> 57
      [] s = 57 -> 59 [] s = 81 -> 83 [] s = 86 -> 91 [] s = 106 -> 108 [] OTHER -> 118]

(* _GoToStep where the next step depends on more than the step: the        *)
(* answer of the concentration check (1 good, else add concentrate), the   *)
(* recipe, the program or the parameters of the self-cleaning.             *)
StepChoices(s, answer, prog, obj) ==
    CASE s = 24 -> {IF "S" \in obj.circ THEN 28 ELSE 26}
      [] s = 44 -> {IF "K" \in obj.circ THEN 48 ELSE 46}
      [] s = 61 -> {IF prog.parts \intersect {3, 4, 5} # {} THEN 66 ELSE 62}
      [] s = 108 -> {IF answer = 1 THEN 111 ELSE 109}
      [] s = 118 -> {IF answer = 1 THEN 121 ELSE 119}
      [] s = 109 -> {106} [] s = 119 -> {116} [] s = 105 -> {106} [] s = 115 -> {116}
      [] s = 157 -> {160, 161} [] s = 164 -> {167, 168} [] s = 170 -> {173, 174}
      [] s = 176 -> {179, 180}
      [] s \in DOMAIN Jumps -> {Jumps[s]}
      [] OTHER -> {s + 1}

(* Step and part after the current ones.                                   *)
Following(s, part, answer, prog, obj) ==
    IF s = 16 /\ prog.parts = {7} THEN {<<9, part>>}
    ELSE IF s \in LastSteps
    THEN LET p == NextPart(part, prog) IN {<<EntryStep(p, prog), p>>}
    ELSE {<<n, part>> : n \in StepChoices(s, answer, prog, obj)}
=============================================================================
