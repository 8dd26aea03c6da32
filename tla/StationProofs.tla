------------------------------ MODULE StationProofs ------------------------------
(***************************************************************************)
(* Proofs about the lines of the washing station (CipLine), for any lines, *)
(* recipes, programs and plans of the operators.                           *)
(*                                                                         *)
(* First the tables of the steps and the pure operators: where a step      *)
(* leads (Following), what it sets (InitOpen) and what it may change       *)
(* (RunOpen).  Then what each action does to the record of its line,       *)
(* gathered in the relation Outcome, and one invariant at a time that      *)
(* every outcome keeps.  The theorems are at the end.                      *)
(***************************************************************************)
EXTENDS CipLine, TLAPS, FiniteSetTheorems, WellFoundedInduction

-----------------------------------------------------------------------------
(* A row of a table is one of its triples.                                 *)
LEMMA RowsOf ==
    ASSUME NEW kind, NEW table, NEW w \in Rows(kind, table),
           \A t \in table : t = <<t[1], t[2], t[3]>>
    PROVE  w.do = kind /\ <<w.step, w.from, w.to>> \in table
BY DEF Rows

(* ... and every triple has its row.                                       *)
LEMMA RowsHave ==
    ASSUME NEW kind, NEW table, NEW t \in table
    PROVE  \E w \in Rows(kind, table) : w.step = t[1]
<1>. DEFINE w == [step |-> t[1], do |-> kind, from |-> t[2], to |-> t[3]]
<1>1. w \in Rows(kind, table)
  BY DEF Rows
<1>. QED BY <1>1

ToObject == {5, 8, 14, 22, 33, 37, 42, 53, 57, 62, 72, 83, 86}
FromObject == {7, 24, 35, 44, 55, 64, 74, 85}
EmptyObject == {6, 9, 23, 34, 40, 43, 54, 60, 63, 73, 79, 84, 91}
FillTank == {10, 13, 26, 46, 31, 61, 65, 71, 75, 81}
Circulate == {11, 28, 48, 66, 77}
EmptyTank == {12, 15, 16, 29, 39, 49, 59, 67, 78}
Pump == {151, 152, 153, 154, 155, 156, 157, 160, 161, 162, 163, 164, 167, 168, 169,
         170, 173, 174, 175, 176, 179, 180, 181, 182, 183, 184, 185, 186, 187, 188}
Preparation == {105, 106, 108, 109, 111, 115, 116, 118, 119, 121}

(* The row of a step: what it does, from where and to where.               *)
IsRow(s, do, from, to) ==
    \/ do = "toObject" /\ <<s, from, to>> \in ToObjectSteps
    \/ do = "fromObject" /\ <<s, from, to>> \in FromObjectSteps
    \/ do = "emptyObject" /\ <<s, from, to>> \in EmptyObjectSteps
    \/ do = "fillTank" /\ <<s, from, to>> \in FillSteps
    \/ do = "circulate" /\ <<s, from, to>> \in CirculateSteps
    \/ do = "emptyTank" /\ <<s, from, to>> \in EmptyTankSteps
    \/ do = "dose" /\ s = 76 /\ from = "WATER" /\ to = "none"
    \/ do = "pump" /\ <<s, from, to>> \in PumpSteps
    \/ do = "custom" /\ s = 300 /\ from = "none" /\ to = "none"
    \/ do = "refill" /\ s = 0 /\ from = "none" /\ to = "none"
    \/ do = "end" /\ s = Done /\ from = "none" /\ to = "none"
    \/ do = "fillRR" /\ from = "WATER" /\ <<s, to>> \in {<<105, "TANK_S">>, <<115, "TANK_K">>}
    \/ do = "circRR" /\ from = "tank" /\ <<s, to>> \in {<<106, "TANK_S">>, <<116, "TANK_K">>}
    \/ do = "checkRR" /\ from = "tank" /\ <<s, to>> \in {<<108, "TANK_S">>, <<118, "TANK_K">>}
    \/ do = "addRR" /\ from = "tank" /\ <<s, to>> \in {<<109, "TANK_S">>, <<119, "TANK_K">>}
    \/ do = "washRR" /\ from = "WATER" /\ <<s, to>> \in {<<111, "TANK_S">>, <<121, "TANK_K">>}

(* The rows of the tables are triples.                                     *)
LEMMA Triples ==
    /\ \A t \in ToObjectSteps : t = <<t[1], t[2], t[3]>>
    /\ \A t \in FromObjectSteps : t = <<t[1], t[2], t[3]>>
    /\ \A t \in EmptyObjectSteps : t = <<t[1], t[2], t[3]>>
    /\ \A t \in FillSteps : t = <<t[1], t[2], t[3]>>
    /\ \A t \in CirculateSteps : t = <<t[1], t[2], t[3]>>
    /\ \A t \in EmptyTankSteps : t = <<t[1], t[2], t[3]>>
    /\ \A t \in PumpSteps : t = <<t[1], t[2], t[3]>>
<1>1. \A t \in ToObjectSteps : t = <<t[1], t[2], t[3]>>
  BY DEF ToObjectSteps
<1>2. \A t \in FromObjectSteps : t = <<t[1], t[2], t[3]>>
  BY DEF FromObjectSteps
<1>3. \A t \in EmptyObjectSteps : t = <<t[1], t[2], t[3]>>
  BY DEF EmptyObjectSteps
<1>4. \A t \in FillSteps : t = <<t[1], t[2], t[3]>>
  BY DEF FillSteps
<1>5. \A t \in CirculateSteps : t = <<t[1], t[2], t[3]>>
  BY DEF CirculateSteps
<1>6. \A t \in EmptyTankSteps : t = <<t[1], t[2], t[3]>>
  BY DEF EmptyTankSteps
<1>7. \A t \in PumpSteps : t = <<t[1], t[2], t[3]>>
  BY DEF PumpSteps
<1>. QED BY <1>1, <1>2, <1>3, <1>4, <1>5, <1>6, <1>7

(* The steps of the tables.                                                *)
LEMMA TableSteps ==
    /\ {t[1] : t \in ToObjectSteps} = ToObject
    /\ {t[1] : t \in FromObjectSteps} = FromObject
    /\ {t[1] : t \in EmptyObjectSteps} = EmptyObject
    /\ {t[1] : t \in FillSteps} = FillTank
    /\ {t[1] : t \in CirculateSteps} = Circulate
    /\ {t[1] : t \in EmptyTankSteps} = EmptyTank
    /\ {t[1] : t \in PumpSteps} = Pump
<1>1. {t[1] : t \in ToObjectSteps} = ToObject
  BY DEF ToObjectSteps, ToObject
<1>2. {t[1] : t \in FromObjectSteps} = FromObject
  BY DEF FromObjectSteps, FromObject
<1>3. {t[1] : t \in EmptyObjectSteps} = EmptyObject
  BY DEF EmptyObjectSteps, EmptyObject
<1>4. {t[1] : t \in FillSteps} = FillTank
  <2>1. \A t \in FillSteps : t[1] \in FillTank
    BY DEF FillSteps, FillTank
  <2>2. /\ \A s \in {10, 13, 26, 46} : <<s, "RETURN", "none">> \in FillSteps
        /\ \A s \in {31, 61, 65, 71, 75, 81} : <<s, "WATER", "none">> \in FillSteps
    BY DEF FillSteps
  <2>3. ASSUME NEW s \in FillTank PROVE \E t \in FillSteps : t[1] = s
    <3>1. CASE s \in {10, 13, 26, 46}
      <4>1. <<s, "RETURN", "none">>[1] = s
        OBVIOUS
      <4>. QED BY <2>2, <3>1, <4>1
    <3>2. CASE s \in {31, 61, 65, 71, 75, 81}
      <4>1. <<s, "WATER", "none">>[1] = s
        OBVIOUS
      <4>. QED BY <2>2, <3>2, <4>1
    <3>. QED BY <3>1, <3>2 DEF FillTank
  <2>. QED BY <2>1, <2>3
<1>5. {t[1] : t \in CirculateSteps} = Circulate
  BY DEF CirculateSteps, Circulate
<1>6. {t[1] : t \in EmptyTankSteps} = EmptyTank
  BY DEF EmptyTankSteps, EmptyTank
<1>7. {t[1] : t \in PumpSteps} = Pump
  BY DEF PumpSteps, Pump
<1>. QED BY <1>1, <1>2, <1>3, <1>4, <1>5, <1>6, <1>7

(* What the table says of a step.                                          *)
LEMMA WorkRow ==
    ASSUME NEW s \in Steps
    PROVE  IsRow(s, Work[s].do, Work[s].from, Work[s].to) /\ Work[s].step = s
<1>1. \E w \in WorkTable : w.step = s
  BY DEF Steps
<1>2. Work[s] \in WorkTable /\ Work[s].step = s
  <2>1. Work[s] = CHOOSE w \in WorkTable : w.step = s
    BY DEF Work
  <2>. QED BY <1>1, <2>1
<1>. DEFINE w == Work[s]
<1>. HIDE DEF w
<1>3. w \in WorkTable /\ w.step = s
  BY <1>2 DEF w
<1>4. IsRow(s, w.do, w.from, w.to)
  <2>1. CASE w \in Rows("toObject", ToObjectSteps)
    BY <1>3, <2>1, RowsOf, Triples DEF IsRow
  <2>2. CASE w \in Rows("fromObject", FromObjectSteps)
    BY <1>3, <2>2, RowsOf, Triples DEF IsRow
  <2>3. CASE w \in Rows("emptyObject", EmptyObjectSteps)
    BY <1>3, <2>3, RowsOf, Triples DEF IsRow
  <2>4. CASE w \in Rows("fillTank", FillSteps)
    BY <1>3, <2>4, RowsOf, Triples DEF IsRow
  <2>5. CASE w \in Rows("circulate", CirculateSteps)
    BY <1>3, <2>5, RowsOf, Triples DEF IsRow
  <2>6. CASE w \in Rows("emptyTank", EmptyTankSteps)
    BY <1>3, <2>6, RowsOf, Triples DEF IsRow
  <2>7. CASE w \in Rows("pump", PumpSteps)
    BY <1>3, <2>7, RowsOf, Triples DEF IsRow
  <2>8. CASE \/ w \in Rows("dose", {<<76, "WATER", "none">>})
             \/ w \in Rows("custom", {<<300, "none", "none">>})
             \/ w \in Rows("refill", {<<0, "none", "none">>})
             \/ w \in Rows("end", {<<Done, "none", "none">>})
    BY <1>3, <2>8 DEF Rows, IsRow
  <2>9. CASE \/ w \in Rows("fillRR", PreparationSteps("WATER", 105, 115))
             \/ w \in Rows("circRR", PreparationSteps("tank", 106, 116))
             \/ w \in Rows("checkRR", PreparationSteps("tank", 108, 118))
    BY <1>3, <2>9 DEF Rows, IsRow, PreparationSteps
  <2>10. CASE \/ w \in Rows("addRR", PreparationSteps("tank", 109, 119))
              \/ w \in Rows("washRR", PreparationSteps("WATER", 111, 121))
    BY <1>3, <2>10 DEF Rows, IsRow, PreparationSteps
  <2>. QED
    BY <1>3, <2>1, <2>2, <2>3, <2>4, <2>5, <2>6, <2>7, <2>8, <2>9, <2>10 DEF WorkTable
<1>. QED BY <1>3, <1>4 DEF w

(* The steps there are.                                                    *)
LEMMA StepsAre ==
    Steps = ToObject \cup FromObject \cup EmptyObject \cup FillTank \cup Circulate
            \cup EmptyTank \cup Pump \cup Preparation \cup {0, 76, 300, Done}
<1>. DEFINE All == ToObject \cup FromObject \cup EmptyObject \cup FillTank \cup Circulate
                   \cup EmptyTank \cup Pump \cup Preparation \cup {0, 76, 300, Done}
            From1(T) == {t[1] : t \in T}
<1>1. ASSUME NEW s \in Steps PROVE s \in All
  <2>. DEFINE f == Work[s].from  t == Work[s].to  d == Work[s].do
  <2>1. IsRow(s, d, f, t)
    BY WorkRow
  <2>. HIDE DEF f, t, d
  <2>2. \A T : <<s, f, t>> \in T => s \in From1(T)
    <3>1. <<s, f, t>>[1] = s
      OBVIOUS
    <3>. QED BY <3>1
  <2>3. \/ \E T \in {ToObjectSteps, FromObjectSteps, EmptyObjectSteps, FillSteps,
                     CirculateSteps, EmptyTankSteps, PumpSteps} : <<s, f, t>> \in T
        \/ s \in Preparation \cup {0, 76, 300, Done}
    BY <2>1 DEF IsRow, Preparation
  <2>. QED BY <2>2, <2>3, TableSteps
<1>2. ASSUME NEW kind, NEW table, Rows(kind, table) \subseteq WorkTable
      PROVE  From1(table) \subseteq Steps
  BY <1>2, RowsHave DEF Steps
<1>3. ASSUME NEW s \in ToObject \cup FromObject \cup EmptyObject \cup FillTank \cup Circulate
                    \cup EmptyTank \cup Pump
      PROVE  s \in Steps
  <2>1. /\ From1(ToObjectSteps) \subseteq Steps /\ From1(FromObjectSteps) \subseteq Steps
        /\ From1(EmptyObjectSteps) \subseteq Steps /\ From1(FillSteps) \subseteq Steps
        /\ From1(CirculateSteps) \subseteq Steps /\ From1(EmptyTankSteps) \subseteq Steps
        /\ From1(PumpSteps) \subseteq Steps
    <3>1. /\ Rows("toObject", ToObjectSteps) \subseteq WorkTable
          /\ Rows("fromObject", FromObjectSteps) \subseteq WorkTable
          /\ Rows("emptyObject", EmptyObjectSteps) \subseteq WorkTable
          /\ Rows("fillTank", FillSteps) \subseteq WorkTable
          /\ Rows("circulate", CirculateSteps) \subseteq WorkTable
          /\ Rows("emptyTank", EmptyTankSteps) \subseteq WorkTable
          /\ Rows("pump", PumpSteps) \subseteq WorkTable
      BY DEF WorkTable
    <3>. QED BY <1>2, <3>1
  <2>. QED BY <2>1, TableSteps
<1>4. ASSUME NEW s \in Preparation \cup {0, 76, 300, Done} PROVE s \in Steps
  <2>1. /\ From1({<<76, "WATER", "none">>}) \subseteq Steps
        /\ From1({<<300, "none", "none">>}) \subseteq Steps
        /\ From1({<<0, "none", "none">>}) \subseteq Steps
        /\ From1({<<Done, "none", "none">>}) \subseteq Steps
    <3>1. /\ Rows("dose", {<<76, "WATER", "none">>}) \subseteq WorkTable
          /\ Rows("custom", {<<300, "none", "none">>}) \subseteq WorkTable
          /\ Rows("refill", {<<0, "none", "none">>}) \subseteq WorkTable
          /\ Rows("end", {<<Done, "none", "none">>}) \subseteq WorkTable
      BY DEF WorkTable
    <3>. QED BY <1>2, <3>1
  <2>2. /\ From1(PreparationSteps("WATER", 105, 115)) \subseteq Steps
        /\ From1(PreparationSteps("tank", 106, 116)) \subseteq Steps
        /\ From1(PreparationSteps("tank", 108, 118)) \subseteq Steps
        /\ From1(PreparationSteps("tank", 109, 119)) \subseteq Steps
        /\ From1(PreparationSteps("WATER", 111, 121)) \subseteq Steps
    <3>1. /\ Rows("fillRR", PreparationSteps("WATER", 105, 115)) \subseteq WorkTable
          /\ Rows("circRR", PreparationSteps("tank", 106, 116)) \subseteq WorkTable
          /\ Rows("checkRR", PreparationSteps("tank", 108, 118)) \subseteq WorkTable
          /\ Rows("addRR", PreparationSteps("tank", 109, 119)) \subseteq WorkTable
          /\ Rows("washRR", PreparationSteps("WATER", 111, 121)) \subseteq WorkTable
      BY DEF WorkTable
    <3>. QED BY <1>2, <3>1
  <2>3. /\ From1({<<76, "WATER", "none">>}) = {76}
        /\ From1({<<300, "none", "none">>}) = {300}
        /\ From1({<<0, "none", "none">>}) = {0}
        /\ From1({<<Done, "none", "none">>}) = {Done}
    OBVIOUS
  <2>4. \A k, a, b : From1(PreparationSteps(k, a, b)) = {a, b}
    BY DEF PreparationSteps
  <2>. HIDE DEF From1
  <2>5. {76} \subseteq Steps /\ {300} \subseteq Steps /\ {0} \subseteq Steps /\ {Done} \subseteq Steps
    BY <2>1, <2>3
  <2>6. /\ {105, 115} \subseteq Steps /\ {106, 116} \subseteq Steps /\ {108, 118} \subseteq Steps
        /\ {109, 119} \subseteq Steps /\ {111, 121} \subseteq Steps
    BY <2>2, <2>4
  <2>. QED BY <2>5, <2>6 DEF Preparation
<1>. QED BY <1>1, <1>3, <1>4

-----------------------------------------------------------------------------
(***************************************************************************)
(* Which step follows which.                                               *)
(***************************************************************************)
(* A set of numbers has a least one.                                       *)
LEMMA LeastNumber ==
    ASSUME NEW T, T \subseteq Nat, T # {}
    PROVE  \E x \in T : \A y \in T : x <= y
<1>. DEFINE R == OpToRel(<, Nat)
<1>1. IsWellFoundedOn(R, Nat)
  BY NatLessThanWellFounded
<1>2. \A x, y \in Nat : x < y => <<x, y>> \in R
  BY DEF OpToRel
<1>. HIDE DEF R
<1>3. PICK x \in T : \A y \in T : ~ (<<y, x>> \in R)
  BY <1>1, WFMin
<1>4. ASSUME NEW y \in T PROVE x <= y
  <2>1. ~ (<<y, x>> \in R) /\ x \in Nat /\ y \in Nat
    BY <1>3
  <2>2. ~ (y < x)
    BY <1>2, <2>1
  <2>. QED BY <2>1, <2>2
<1>. QED BY <1>4

(* The next part is the greatest that is left of the program.              *)
LEMMA NextPartIs ==
    ASSUME NEW prog \in Program, NEW part \in Parts \cup {-1}
    PROVE  \/ NextPart(part, prog) = -1
           \/ /\ NextPart(part, prog) \in prog.parts
              /\ NextPart(part, prog) \in Parts
              /\ part < 0 \/ NextPart(part, prog) < part
              /\ part < 0 => \A q \in prog.parts : q <= NextPart(part, prog)
<1>. DEFINE left == {p \in prog.parts : part < 0 \/ p < part}
<1>1. left \subseteq Parts /\ prog.parts \subseteq Parts
  BY DEF Program
<1>2. CASE left = {}
  BY <1>2 DEF NextPart
<1>3. CASE left # {}
  <2>. HIDE DEF left
  <2>1. \E p \in left : \A q \in left : q <= p
    <3>. DEFINE T == {11 - p : p \in left}
    <3>1. T \subseteq Nat /\ T # {}
      <4>1. ASSUME NEW p \in left PROVE 11 - p \in Nat
        BY <1>1 DEF Parts
      <4>. QED BY <1>3, <4>1
    <3>. HIDE DEF T
    <3>2. PICK x \in T : \A y \in T : x <= y
      BY <3>1, LeastNumber
    <3>. USE DEF T
    <3>3. PICK p \in left : x = 11 - p
      OBVIOUS
    <3>4. ASSUME NEW q \in left PROVE q <= p
      <4>1. 11 - q \in T
        OBVIOUS
      <4>2. 11 - p <= 11 - q
        BY <3>2, <3>3, <4>1
      <4>. QED BY <1>1, <4>2 DEF Parts
    <3>. QED BY <3>4
  <2>2. NextPart(part, prog) = CHOOSE p \in left : \A q \in left : q <= p
    BY <1>3 DEF NextPart, left
  <2>3. NextPart(part, prog) \in left /\ \A q \in left : q <= NextPart(part, prog)
    BY <2>1, <2>2
  <2>. QED BY <1>1, <2>3 DEF left
<1>. QED BY <1>2, <1>3

Entries == {151, 300, 105, 115, 5, 10, 22, 42, 61, 71, 91, 83, 81}

(* A part is entered at one of its steps.                                  *)
LEMMA EntryStepIs ==
    ASSUME NEW prog, NEW p \in Parts
    PROVE  /\ EntryStep(p, prog) \in Entries /\ EntryStep(p, prog) \in StepsOfPart(p)
           /\ EntryStep(p, prog) = 300 => p = 10
           /\ EntryStep(p, prog) = 151 <=> p = 11
<1>. USE DEF EntryStep, Entries, StepsOfPart
<1>1. CASE p = 11
  BY <1>1
<1>2. CASE p = 10
  BY <1>2
<1>3. CASE p = 9
  BY <1>3
<1>4. CASE p = 8
  BY <1>4
<1>5. CASE p = 7
  BY <1>5
<1>6. CASE p = 6
  BY <1>6
<1>7. CASE p = 5
  BY <1>7
<1>8. CASE p = 4
  BY <1>8
<1>9. CASE p = 3
  BY <1>9
<1>10. CASE p = 2
  BY <1>10
<1>11. CASE p = 1
  BY <1>11
<1>12. CASE p = 0
  <2>1. EntryStep(0, prog) = IF prog.noRinse THEN 91 ELSE IF prog.parts = {0} THEN 83 ELSE 81
    OBVIOUS
  <2>. HIDE DEF EntryStep
  <2>2. EntryStep(0, prog) = 91 \/ EntryStep(0, prog) = 83 \/ EntryStep(0, prog) = 81
    BY <2>1, Zenon
  <2>3. StepsOfPart(0) = 81..91
    OBVIOUS
  <2>4. EntryStep(p, prog) = EntryStep(0, prog) /\ StepsOfPart(p) = StepsOfPart(0)
    BY <1>12
  <2>. DEFINE e == EntryStep(p, prog)
  <2>5. e = 91 \/ e = 83 \/ e = 81
    BY <2>2, <2>4
  <2>. HIDE DEF e, StepsOfPart
  <2>6. e \in Entries /\ e \in StepsOfPart(p) /\ e # 300 /\ e # 151
    BY <2>3, <2>4, <2>5
  <2>. QED BY <1>12, <2>6 DEF e
<1>. HIDE DEF EntryStep, Entries, StepsOfPart
<1>. QED
  BY <1>1, <1>2, <1>3, <1>4, <1>5, <1>6, <1>7, <1>8, <1>9, <1>10, <1>11, <1>12 DEF Parts

(* The first steps of the parts are steps.                                 *)
LEMMA EntriesAreSteps == Entries \subseteq Steps
BY StepsAre DEF Entries, ToObject, FromObject, EmptyObject, FillTank, Preparation, Pump

(* The steps that leave valves as the step before has set them.            *)
Inheriting == EmptyObject \cup FillTank \cup {300}
FreshFill == {31, 61, 65, 71, 75, 81}

(* Circulation of caustic and of acid.                                     *)
CausticSteps == {22, 23, 24, 26, 28, 106, 108, 109}
AcidSteps == {42, 43, 44, 46, 48, 116, 118, 119}

(* What a step that inherits valves comes after.                           *)
InheritsFrom(n, s) ==
    /\ n \in EmptyObject => s \notin FreshFill
    /\ n = 300 => s \notin FreshFill
    /\ n \in {23, 26} => s \in {22, 24}
    /\ n \in {43, 46} => s \in {42, 44}
    /\ n \notin {23, 26, 43, 46} => s \notin CausticSteps \cup AcidSteps
    /\ s \in Pump => s = 188

(* No part has a step 0.                                                   *)
LEMMA PartsStartLater == \A p \in Parts : 0 \notin StepsOfPart(p)
<1>. SUFFICES ASSUME NEW p \in Parts PROVE 0 \notin StepsOfPart(p)
  OBVIOUS
<1>. USE DEF StepsOfPart
<1>1. CASE p \in {11, 10, 9, 8}
  BY <1>1
<1>2. CASE p \in {7, 6, 5, 4}
  BY <1>2
<1>3. CASE p \in {3, 2, 1, 0}
  BY <1>3
<1>. HIDE DEF StepsOfPart
<1>. QED BY <1>1, <1>2, <1>3 DEF Parts

(* Step 16 is a step of the first rinse only.                              *)
LEMMA SixteenIsOfSeven == \A p \in Parts : 16 \in StepsOfPart(p) => p = 7
<1>. SUFFICES ASSUME NEW p \in Parts, 16 \in StepsOfPart(p) PROVE p = 7
  OBVIOUS
<1>. USE DEF StepsOfPart
<1>1. CASE p \in {11, 10, 9, 8}
  BY <1>1
<1>2. CASE p \in {6, 5, 4}
  BY <1>2
<1>3. CASE p \in {3, 2, 1, 0}
  BY <1>3
<1>. HIDE DEF StepsOfPart
<1>. QED BY <1>1, <1>2, <1>3 DEF Parts

(* A step that is not the last of its part leads to a step of its part,    *)
(* and one that inherits valves comes after the steps it should.           *)
LEMMA ChoicesStay ==
    ASSUME NEW s \in Steps, NEW p \in Parts, s \in StepsOfPart(p), s \notin LastSteps,
           NEW a, NEW prog, NEW obj, NEW n \in StepChoices(s, a, prog, obj)
    PROVE  /\ n \in Steps /\ n \in StepsOfPart(p)
           /\ n \in Inheriting => InheritsFrom(n, s)
<1>. USE DEF StepsOfPart, LastSteps, StepChoices, Jumps, Inheriting, InheritsFrom,
         FreshFill, CausticSteps, AcidSteps, Parts, Done,
         ToObject, FromObject, EmptyObject, FillTank, Circulate, EmptyTank, Pump, Preparation
<1>1. CASE p = 11
  BY <1>1, StepsAre
<1>2. CASE p \in {10, 9, 8}
  BY <1>2, StepsAre
<1>3. CASE p = 7
  BY <1>3, StepsAre
<1>4. CASE p = 6
  BY <1>4, StepsAre
<1>5. CASE p \in {5, 3}
  BY <1>5, StepsAre
<1>6. CASE p = 4
  BY <1>6, StepsAre
<1>7. CASE p \in {2, 1, 0}
  BY <1>7, StepsAre
<1>. QED BY <1>1, <1>2, <1>3, <1>4, <1>5, <1>6, <1>7

(* Where a step leads: it stays in its part, or enters the next part at    *)
(* one of its first steps, or the program is over.                         *)
Leads(n, s, part, prog) ==
    \/ n[1] = Done /\ n[2] = -1
    \/ /\ s \in LastSteps /\ n[2] \in prog.parts /\ n[2] \in Parts
       /\ n[1] \in Entries /\ n[1] \in StepsOfPart(n[2])
       /\ n[2] = 11 => part < 0 \/ part > 11
       /\ n[1] = 300 => n[2] = 10
       /\ 11 \in prog.parts /\ part < 0 => n[2] = 11
    \/ /\ s \notin LastSteps /\ n[2] = part /\ s \in StepsOfPart(part)
       /\ n[1] \in StepsOfPart(part)
       /\ n[1] \in Inheriting => InheritsFrom(n[1], s)
    \/ s = 16 /\ prog.parts = {7} /\ n = <<9, part>>

(* Whatever Following answers, the step is one of the table, and leads     *)
(* where Leads says.                                                       *)
LEMMA FollowingLeads ==
    ASSUME NEW s \in Steps \ {Done}, NEW part \in Parts \cup {-1}, NEW a, NEW prog \in Program, NEW obj,
           s # 0 => part \in Parts /\ s \in StepsOfPart(part),
           NEW n \in Following(s, part, a, prog, obj)
    PROVE  /\ n = <<n[1], n[2]>> /\ n[1] \in Steps \ {0} /\ n[2] \in Parts \cup {-1}
           /\ Leads(n, s, part, prog)
<1>1. CASE s = 16 /\ prog.parts = {7}
  <2>1. n = <<9, part>>
    BY <1>1 DEF Following
  <2>2. 9 \in Steps
    BY StepsAre DEF EmptyObject
  <2>. QED BY <1>1, <2>1, <2>2 DEF Leads
<1>2. CASE ~ (s = 16 /\ prog.parts = {7}) /\ s \in LastSteps
  <2>. DEFINE p == NextPart(part, prog)
  <2>1. n = <<EntryStep(p, prog), p>>
    BY <1>2 DEF Following
  <2>2. CASE p = -1
    <3>1. EntryStep(-1, prog) = Done
      BY DEF EntryStep
    <3>2. Done \in Steps \ {0}
      BY StepsAre DEF Done
    <3>. HIDE DEF p
    <3>. QED BY <2>1, <2>2, <3>1, <3>2 DEF Leads
  <2>3. CASE p # -1
    <3>1. /\ p \in prog.parts /\ p \in Parts /\ (part < 0 \/ p < part)
          /\ part < 0 => \A q \in prog.parts : q <= p
      BY <2>3, NextPartIs
    <3>2. /\ EntryStep(p, prog) \in Entries /\ EntryStep(p, prog) \in StepsOfPart(p)
          /\ EntryStep(p, prog) = 300 => p = 10
      BY <3>1, EntryStepIs
    <3>3. 0 \notin Entries
      BY DEF Entries
    <3>4. n[1] = EntryStep(p, prog) /\ n[2] = p /\ n = <<n[1], n[2]>>
      BY <2>1
    <3>. HIDE DEF p
    <3>5. p = 11 => part < 0 \/ part > 11
      BY <3>1 DEF Parts
    <3>6. 11 \in prog.parts /\ part < 0 => p = 11
      BY <3>1 DEF Parts
    <3>. QED BY <1>2, <3>1, <3>2, <3>3, <3>4, <3>5, <3>6, EntriesAreSteps DEF Leads
  <2>. QED BY <2>2, <2>3
<1>3. CASE ~ (s = 16 /\ prog.parts = {7}) /\ s \notin LastSteps
  <2>1. PICK x \in StepChoices(s, a, prog, obj) : n = <<x, part>>
    BY <1>3 DEF Following
  <2>2. s # 0
    BY <1>3 DEF LastSteps
  <2>3. x \in Steps /\ x \in StepsOfPart(part) /\ (x \in Inheriting => InheritsFrom(x, s))
    BY <1>3, <2>2, ChoicesStay
  <2>4. x # 0
    BY <2>2, <2>3, PartsStartLater
  <2>5. n[1] = x /\ n[2] = part /\ n = <<n[1], n[2]>>
    BY <2>1
  <2>6. Leads(n, s, part, prog)
    <3>. HIDE DEF InheritsFrom
    <3>1. s \in StepsOfPart(part)
      BY <2>2
    <3>2. n[1] \in StepsOfPart(part) /\ (n[1] \in Inheriting => InheritsFrom(n[1], s))
      BY <2>3, <2>5
    <3>. QED BY <1>3, <2>5, <3>1, <3>2 DEF Leads
  <2>. QED BY <2>2, <2>3, <2>4, <2>5, <2>6
<1>. QED BY <1>1, <1>2, <1>3

-----------------------------------------------------------------------------
(***************************************************************************)
(* What a step does with the valves.                                       *)
(***************************************************************************)
Tanks == {"TANK_W", "TANK_S", "TANK_K"}
HeadTanks == {"TANK_W_MG", "TANK_S_MG", "TANK_K_MG"}

(* What a step does, and between which tanks (Work, From and To).          *)
Kind(s, do, from, to) ==
    \/ /\ do = "toObject" /\ s \in ToObject
       /\ from \in {"WATER", "TANK_W"} \cup
                   (CASE s = 22 -> {"TANK_S"} [] s = 42 -> {"TANK_K"} [] OTHER -> {})
       /\ to \in {"KANAL", "TANK_W"} \cup
                   (CASE s = 33 -> {"TANK_S"} [] s = 53 -> {"TANK_K"} [] OTHER -> {})
       /\ s \in {22, 42} => to = "KANAL"
    \/ /\ do = "fromObject" /\ s \in FromObject
       /\ from \in {"WATER", "TANK_W"} \cup
                   (CASE s = 24 -> {"TANK_S"} [] s = 44 -> {"TANK_K"} [] OTHER -> {})
       /\ to \in {"KANAL", "TANK_W"} \cup
                   (CASE s = 35 -> {"TANK_S"} [] s = 55 -> {"TANK_K"} [] OTHER -> {})
       /\ s \in {24, 44} => to = "KANAL"
    \/ /\ do = "emptyObject" /\ s \in EmptyObject /\ from = "none"
       /\ to \in {"KANAL", "TANK_W"} \cup
                   (CASE s = 34 -> {"TANK_S"} [] s = 54 -> {"TANK_K"} [] OTHER -> {})
       /\ s \in {23, 43} => to = "KANAL"
    \/ /\ do = "fillTank" /\ s \in FillTank /\ to = "none"
       /\ from = IF s \in FreshFill THEN "WATER" ELSE "RETURN"
    \/ /\ do = "circulate" /\ s \in Circulate /\ to = "none"
       /\ from \in {"WATER", "SHCH", "KISL"}
    \/ /\ do = "emptyTank" /\ s \in EmptyTank /\ from = "none"
       /\ to \in {"KANAL", "TANK_W"} \cup
                   (CASE s = 29 -> {"TANK_S"} [] s = 49 -> {"TANK_K"} [] OTHER -> {})
       /\ (s = 29 => to = "TANK_S") /\ (s = 49 => to = "TANK_K")
    \/ do = "dose" /\ s = 76 /\ from = "WATER" /\ to = "none"
    \/ /\ do = "pump" /\ s \in Pump /\ from \in {"WATER", "none"} \cup Tanks
       /\ to \in {"none", "KANAL", "NEUTRO"} \cup Tanks \cup HeadTanks
       /\ s = 188 => from = "none" /\ to = "none"
    \/ do = "custom" /\ s = 300 /\ from = "none" /\ to = "none"
    \/ do = "refill" /\ s = 0 /\ from = "none" /\ to = "none"
    \/ do = "end" /\ s = Done /\ from = "none" /\ to = "none"
    \/ /\ do \in {"fillRR", "washRR"} /\ from = "WATER" /\ (s \in {105, 115} <=> do = "fillRR")
       /\ \/ s \in {105, 111} /\ to = "TANK_S"
          \/ s \in {115, 121} /\ to = "TANK_K"
    \/ do \in {"circRR", "checkRR", "addRR"} /\ from = "TANK_S"
         /\ s \in {106, 108, 109} /\ to = "TANK_S" /\ (s = 109 <=> do = "addRR")
    \/ do \in {"circRR", "checkRR", "addRR"} /\ from = "TANK_K"
         /\ s \in {116, 118, 119} /\ to = "TANK_K" /\ (s = 119 <=> do = "addRR")

(* The tables name only such steps.                                        *)
LEMMA StepKind ==
    ASSUME NEW s \in Steps, NEW prog \in Program, NEW obj \in Recipe
    PROVE  Kind(s, Work[s].do, From(s, prog, obj), To(s, prog, obj))
<1>. DEFINE do == Work[s].do  f == Work[s].from  t == Work[s].to
            from == From(s, prog, obj)  to == To(s, prog, obj)
<1>. SUFFICES Kind(s, do, from, to)
  OBVIOUS
<1>1. IsRow(s, do, f, t)
  BY WorkRow
<1>2. /\ f = "src" => from \in {"WATER", "TANK_W"}
      /\ f = "media" => from \in {"WATER", "TANK_W"}
      /\ f = "tank" => from = t
      /\ f \notin {"src", "media", "tank"} => from = f
  BY DEF From
<1>3. /\ t = "dest" => to \in {"KANAL", "TANK_W"}
      /\ t = "rinse" => to \in {"KANAL", "TANK_W"}
      /\ t \notin {"dest", "rinse"} => to = t
  <2>1. prog.rinseTo \in {"KANAL", "TANK_W"}
    BY DEF Program
  <2>. QED BY <2>1 DEF To
<1>. HIDE DEF do, f, t, from, to
<1>4. CASE do = "toObject"
  <2>1. <<s, f, t>> \in ToObjectSteps
    BY <1>1, <1>4 DEF IsRow
  <2>. QED BY <1>2, <1>3, <1>4, <2>1 DEF ToObjectSteps, Kind, ToObject
<1>5. CASE do = "fromObject"
  <2>1. <<s, f, t>> \in FromObjectSteps
    BY <1>1, <1>5 DEF IsRow
  <2>. QED BY <1>2, <1>3, <1>5, <2>1 DEF FromObjectSteps, Kind, FromObject
<1>6. CASE do = "emptyObject"
  <2>1. <<s, f, t>> \in EmptyObjectSteps
    BY <1>1, <1>6 DEF IsRow
  <2>. QED BY <1>2, <1>3, <1>6, <2>1 DEF EmptyObjectSteps, Kind, EmptyObject
<1>7. CASE do = "fillTank"
  <2>1. <<s, f, t>> \in FillSteps
    BY <1>1, <1>7 DEF IsRow
  <2>. QED BY <1>2, <1>3, <1>7, <2>1 DEF FillSteps, Kind, FillTank, FreshFill
<1>8. CASE do = "circulate"
  <2>1. <<s, f, t>> \in CirculateSteps
    BY <1>1, <1>8 DEF IsRow
  <2>. QED BY <1>2, <1>3, <1>8, <2>1 DEF CirculateSteps, Kind, Circulate
<1>9. CASE do = "emptyTank"
  <2>1. <<s, f, t>> \in EmptyTankSteps
    BY <1>1, <1>9 DEF IsRow
  <2>. QED BY <1>2, <1>3, <1>9, <2>1 DEF EmptyTankSteps, Kind, EmptyTank
<1>10. CASE do = "pump"
  <2>1. <<s, f, t>> \in PumpSteps
    BY <1>1, <1>10 DEF IsRow
  <2>2. /\ f \in {"WATER", "none"} \cup Tanks /\ s \in Pump
        /\ t \in {"none", "KANAL", "NEUTRO"} \cup Tanks \cup HeadTanks
        /\ s = 188 => f = "none" /\ t = "none"
    BY <2>1 DEF PumpSteps, Pump, Tanks, HeadTanks
  <2>3. f \notin {"src", "media", "tank"} /\ t \notin {"dest", "rinse"}
    BY <2>2 DEF Tanks, HeadTanks
  <2>. QED BY <1>2, <1>3, <1>10, <2>2, <2>3 DEF Kind
<1>11. CASE do \in {"dose", "custom", "refill", "end"}
  BY <1>1, <1>2, <1>3, <1>11 DEF IsRow, Kind
<1>12. CASE do \in {"fillRR", "washRR"}
  BY <1>1, <1>2, <1>3, <1>12 DEF IsRow, Kind
<1>13. CASE do \in {"circRR", "checkRR", "addRR"}
  BY <1>1, <1>2, <1>3, <1>13 DEF IsRow, Kind
<1>. QED BY <1>1, <1>4, <1>5, <1>6, <1>7, <1>8, <1>9, <1>10, <1>11, <1>12, <1>13 DEF IsRow

(* The sources and the ways of a step.                                     *)
LEMMA SourceIs ==
    /\ Source("WATER") = {"V00", "V01"} /\ Source("none") = {}
    /\ Source("TANK_W") = {"V04"} /\ Source("TANK_K") = {"V02"} /\ Source("TANK_S") = {"V03"}
BY DEF Source, SupplyOf

(* The valves of a way to a destination.                                   *)
LEMMA WayIs ==
    ASSUME NEW obj \in Recipe
    PROVE  /\ Way("KANAL", obj) = {"V11"} /\ Way("none", obj) = {}
           /\ Way("TANK_W", obj) = {"V07"} /\ Way("TANK_K", obj) = {"V08"}
           /\ Way("TANK_S", obj) = {"V09"}
           /\ Way("NEUTRO", obj) \in {{"V11"}, {"V12"}}
           /\ Neutro(obj) \in {"V11", "V12"}
           /\ Way("TANK_W_MG", obj) \in {{"VWMG"}, {"VWMG", "V07"}}
           /\ Way("TANK_K_MG", obj) \in {{"VKMG"}, {"VKMG", "V08"}}
           /\ Way("TANK_S_MG", obj) \in {{"VSMG"}, {"VSMG", "V09"}}
<1>1. /\ HeadOf("TANK_W") = {} /\ HeadOf("TANK_K") = {} /\ HeadOf("TANK_S") = {}
      /\ HeadOf("TANK_W_MG") = {"VWMG"} /\ HeadOf("TANK_K_MG") = {"VKMG"}
      /\ HeadOf("TANK_S_MG") = {"VSMG"} /\ HeadOf("KANAL") = {} /\ HeadOf("NEUTRO") = {}
      /\ HeadOf("none") = {}
  BY DEF HeadOf
<1>2. /\ ReturnOf[TankOf("TANK_W")] = "V07" /\ ReturnOf[TankOf("TANK_K")] = "V08"
      /\ ReturnOf[TankOf("TANK_S")] = "V09" /\ ReturnOf[TankOf("TANK_W_MG")] = "V07"
      /\ ReturnOf[TankOf("TANK_K_MG")] = "V08" /\ ReturnOf[TankOf("TANK_S_MG")] = "V09"
  BY DEF ReturnOf, TankOf
<1>3. Neutro(obj) \in {"V11", "V12"}
  BY DEF Neutro
<1>4. /\ Way("KANAL", obj) = {"V11"} /\ Way("none", obj) = {}
      /\ Way("NEUTRO", obj) = {Neutro(obj)}
  BY <1>1 DEF Way
<1>5. /\ Way("TANK_W", obj) = {"V07"} /\ Way("TANK_K", obj) = {"V08"}
      /\ Way("TANK_S", obj) = {"V09"}
  BY <1>1, <1>2 DEF Way
<1>6. CASE obj.bothWays
  <2>1. /\ Way("TANK_W_MG", obj) = HeadOf("TANK_W_MG") \cup {ReturnOf[TankOf("TANK_W_MG")]}
        /\ Way("TANK_K_MG", obj) = HeadOf("TANK_K_MG") \cup {ReturnOf[TankOf("TANK_K_MG")]}
        /\ Way("TANK_S_MG", obj) = HeadOf("TANK_S_MG") \cup {ReturnOf[TankOf("TANK_S_MG")]}
    BY <1>6 DEF Way
  <2>. QED BY <1>1, <1>2, <1>3, <1>4, <1>5, <2>1
<1>7. CASE ~ obj.bothWays
  <2>1. /\ Way("TANK_W_MG", obj) = HeadOf("TANK_W_MG")
        /\ Way("TANK_K_MG", obj) = HeadOf("TANK_K_MG")
        /\ Way("TANK_S_MG", obj) = HeadOf("TANK_S_MG")
    BY <1>1, <1>7 DEF Way
  <2>. QED BY <1>1, <1>2, <1>3, <1>4, <1>5, <2>1
<1>. QED BY <1>6, <1>7

AllValves == Station \cup TankValves
OneReturn(o) == \A x, y \in o \cap Returns : x = y

(* What keeps the media apart at a step (TanksApart), but for the one way  *)
(* back, and with it.                                                      *)
ApartBut(s, o) ==
    /\ s \in CausticSteps => "V02" \notin o /\ "V08" \notin o
    /\ s \in AcidSteps => "V03" \notin o /\ "V09" \notin o
    /\ s \notin CausticSteps \cup AcidSteps => "V02" \notin o /\ "V03" \notin o
    /\ ~ ("V05" \in o /\ "V06" \in o)
    /\ ~ ("V08" \in o /\ "V09" \in o)
ApartAt(s, o) ==
    /\ ApartBut(s, o)
    /\ s \notin FreshFill => OneReturn(o)
    /\ s \in EmptyTank \ {29, 49} => o \cap Returns \subseteq {"V07", "V11"}

(* Fewer valves are no less apart.                                         *)
LEMMA ApartFewer ==
    ASSUME NEW s, NEW o, NEW b, b \subseteq o, ApartAt(s, o)
    PROVE  ApartAt(s, b)
BY DEF ApartAt, ApartBut, OneReturn

(* The station as a step sets it, when it sets all of it.                  *)
LEMMA SetStationIs ==
    ASSUME NEW open, open \subseteq AllValves, NEW v, v \subseteq Station
    PROVE  /\ SetStation(open, v) \subseteq AllValves
           /\ \A x \in Station : x \in SetStation(open, v) <=> x \in v
BY DEF SetStation, AllValves

(* What InitStep sets, by the kind of the step.                            *)
SetBy(s, do, from, to, v, obj) ==
    \/ /\ do = "toObject"
       /\ \/ to = "TANK_W" /\ v \in {{"V05", "NP", "V07"} \cup Source(from),
                                     {"V05", "NP", "V11"} \cup Source(from)}
          \/ to # "TANK_W" /\ v = {"V05", "NP"} \cup Source(from) \cup Way(to, obj)
    \/ do = "fromObject" /\ v = {"V05", "NP"} \cup Source(from) \cup Way(to, obj)
    \/ do = "emptyObject" /\ v = {"V05"} \cup Way(to, obj)
    \/ do = "emptyTank" /\ v = {"V01", "V05", "NP"} \cup Way(to, obj)
    \/ do = "circulate" /\ v = {"V05", "NP"} \cup CircWay(s, obj)
    \/ do = "dose" /\ v = {"V01", "V10", "V05", "NP"}
    \/ do \in {"fillRR", "washRR"} /\ v = {"V06", "NP"} \cup Source("WATER") \cup Way(to, obj)
    \/ do \in {"circRR", "checkRR", "addRR"} /\ v = {"V06", "NP"} \cup Source(to) \cup Way(to, obj)
    \/ do = "refill" /\ v \in {{}, {"V00"}}
    \/ do = "end" /\ v = {"V11"}

(* InitOpen by the kind of the step: it fills, pumps, leaves all as it is, *)
(* or sets every valve of the station.                                     *)
LEMMA InitOpenIs ==
    ASSUME NEW s \in Steps, NEW open, NEW prog \in Program, NEW obj \in Recipe,
           NEW o \in InitOpen(s, open, prog, obj)
    PROVE  LET do == Work[s].do  from == From(s, prog, obj)  to == To(s, prog, obj)
           IN \/ do = "fillTank" /\ o = Filled(Work[s], open)
              \/ do = "pump" /\ o = Pumped(obj, Work[s], from, to, open)
              \/ (do = "custom" \/ (do = "emptyObject" /\ obj.isLine)) /\ o = open
              \/ \E v : SetBy(s, do, from, to, v, obj) /\ o = SetStation(open, v)
<1>. DEFINE do == Work[s].do  from == From(s, prog, obj)  to == To(s, prog, obj)
            w == Work[s]
            station == CASE w.do = "toObject" -> LET ways == IF to = "TANK_W" THEN {{"V07"}, {"V11"}}
                                                                         ELSE {Way(to, obj)}
                          IN {{"V05", "NP"} \union Source(from) \union r : r \in ways}
                     [] w.do = "fromObject" -> {{"V05", "NP"} \union Source(from) \union Way(to, obj)}
                     [] w.do = "emptyObject" -> {{"V05"} \union Way(to, obj)}
                     [] w.do = "emptyTank" -> {{"V01", "V05", "NP"} \union Way(to, obj)}
                     [] w.do = "circulate" -> {{"V05", "NP"} \union CircWay(s, obj)}
                     [] w.do = "dose" -> {{"V01", "V10", "V05", "NP"}}
                     [] w.do \in {"fillRR", "washRR"} ->
                          {{"V06", "NP"} \union Source("WATER") \union Way(to, obj)}
                     [] w.do \in {"circRR", "checkRR", "addRR"} ->
                          {{"V06", "NP"} \union Source(to) \union Way(to, obj)}
                     [] w.do = "refill" -> {{}, {"V00"}}
                     [] w.do = "end" -> {{"V11"}}
                     [] OTHER -> {}
<1>1. InitOpen(s, open, prog, obj) =
        IF s \notin Steps THEN {open}
        ELSE CASE w.do = "fillTank" -> {Filled(w, open)}
              [] w.do = "pump" -> {Pumped(obj, w, from, to, open)}
              [] w.do = "custom" \/ (w.do = "emptyObject" /\ obj.isLine) -> {open}
              [] OTHER -> {SetStation(open, v) : v \in station}
  BY DEF InitOpen
<1>2. Kind(s, do, from, to)
  BY StepKind
<1>3. CASE do = "fillTank"
  BY <1>1, <1>3
<1>4. CASE do = "pump"
  BY <1>1, <1>4
<1>5. CASE do = "custom" \/ (do = "emptyObject" /\ obj.isLine)
  BY <1>1, <1>5
<1>6. CASE ~ (do = "fillTank" \/ do = "pump" \/ do = "custom" \/ (do = "emptyObject" /\ obj.isLine))
  <2>1. InitOpen(s, open, prog, obj) = {SetStation(open, v) : v \in station}
    <3>. HIDE DEF station, from, to, w
    <3>. QED BY <1>1, <1>6 DEF w
  <2>2. PICK v \in station : o = SetStation(open, v)
    BY <2>1
  <2>3. SetBy(s, do, from, to, v, obj)
    <3>1. CASE do = "toObject"
      <4>1. PICK x \in (IF to = "TANK_W" THEN {{"V07"}, {"V11"}} ELSE {Way(to, obj)}) :
              v = {"V05", "NP"} \cup Source(from) \cup x
        <5>. HIDE DEF from, to
        <5>. QED BY <2>2, <3>1
      <4>. HIDE DEF from, to, station, do
      <4>2. CASE to = "TANK_W"
        BY <3>1, <4>1, <4>2 DEF SetBy
      <4>3. CASE to # "TANK_W"
        BY <3>1, <4>1, <4>3 DEF SetBy
      <4>. QED BY <4>2, <4>3
    <3>2. CASE do \in {"fromObject", "emptyObject", "emptyTank"}
      <4>. HIDE DEF from, to
      <4>. QED BY <2>2, <3>2 DEF SetBy
    <3>3. CASE do \in {"circulate", "dose", "refill", "end"}
      <4>. HIDE DEF from, to
      <4>. QED BY <2>2, <3>3 DEF SetBy
    <3>4. CASE do \in {"fillRR", "washRR", "circRR", "checkRR", "addRR"}
      <4>. HIDE DEF from, to
      <4>. QED BY <2>2, <3>4 DEF SetBy
    <3>. HIDE DEF from, to, do, station
    <3>. QED BY <1>2, <1>6, <3>1, <3>2, <3>3, <3>4 DEF Kind
  <2>. QED BY <2>2, <2>3
<1>. QED BY <1>3, <1>4, <1>5, <1>6

(* What a step that inherits valves must find.                             *)
Inherited(s, open) ==
    s \in Inheriting => ApartBut(s, open) /\ (s \notin FillTank => OneReturn(open))

(* Where circulation goes.                                                 *)
LEMMA CircWayIs ==
    ASSUME NEW s, NEW obj
    PROVE  \/ s = 28 /\ CircWay(s, obj) = {"V03", "V09"}
           \/ s = 48 /\ CircWay(s, obj) = {"V02", "V08"}
           \/ CircWay(s, obj) = {"V01", "V10"}
BY DEF CircWay

(* InitStep leaves the media apart.                                        *)
LEMMA SetApart ==
    ASSUME NEW s \in Steps, NEW do, NEW from, NEW to, NEW v, NEW obj \in Recipe,
           Kind(s, do, from, to), SetBy(s, do, from, to, v, obj)
    PROVE  v \subseteq Station /\ ApartAt(s, v)
<1>. USE DEF ApartAt, ApartBut, OneReturn, Station, Supplies, Returns
<1>0. Returns \subseteq Station
  OBVIOUS
<1>1. CASE do = "toObject" /\ to = "TANK_W"
  BY <1>1, SourceIs DEF SetBy, Kind, CausticSteps, AcidSteps, FreshFill, ToObject, EmptyTank
<1>2. CASE do = "toObject" /\ to # "TANK_W"
  BY <1>2, SourceIs, WayIs DEF SetBy, Kind, CausticSteps, AcidSteps, FreshFill, ToObject, EmptyTank
<1>3. CASE do = "fromObject"
  BY <1>3, SourceIs, WayIs DEF SetBy, Kind, CausticSteps, AcidSteps, FreshFill, FromObject, EmptyTank
<1>4. CASE do = "emptyObject"
  BY <1>4, WayIs DEF SetBy, Kind, CausticSteps, AcidSteps, FreshFill, EmptyObject, EmptyTank
<1>5. CASE do = "emptyTank"
  BY <1>5, WayIs DEF SetBy, Kind, CausticSteps, AcidSteps, FreshFill, EmptyTank
<1>6. CASE do = "circulate"
  BY <1>6, CircWayIs DEF SetBy, Kind, CausticSteps, AcidSteps, FreshFill, Circulate, EmptyTank
<1>7. CASE do \in {"dose", "refill", "end"}
  BY <1>7 DEF SetBy, Kind, CausticSteps, AcidSteps, FreshFill, EmptyTank, Done
<1>8. CASE do \in {"fillRR", "washRR"}
  BY <1>8, SourceIs, WayIs DEF SetBy, Kind, CausticSteps, AcidSteps, FreshFill, EmptyTank
<1>9. CASE do \in {"circRR", "checkRR", "addRR"}
  BY <1>9, SourceIs, WayIs DEF SetBy, Kind, CausticSteps, AcidSteps, FreshFill, EmptyTank
<1>. QED BY <1>1, <1>2, <1>3, <1>4, <1>5, <1>6, <1>7, <1>8, <1>9 DEF SetBy

(* Filling the circulation tank keeps the media apart.                     *)
LEMMA FilledApart ==
    ASSUME NEW s \in FillTank, NEW open, open \subseteq AllValves, ApartBut(s, open), NEW w,
           w.step = s, w.from = IF s \in FreshFill THEN "WATER" ELSE "RETURN"
    PROVE  Filled(w, open) \subseteq AllValves /\ ApartAt(s, Filled(w, open))
<1>. USE DEF ApartAt, ApartBut, OneReturn, Returns
<1>0. s \notin EmptyTank
  BY DEF FillTank, EmptyTank
<1>1. CASE s \in FreshFill
  <2>1. Filled(w, open) = (open \ {"V10", "V12", "NP"}) \union {"V00", "V01", "V11"}
    BY <1>1 DEF Filled
  <2>2. s \notin CausticSteps \cup AcidSteps
    BY <1>1 DEF FreshFill, CausticSteps, AcidSteps
  <2>3. Filled(w, open) \subseteq AllValves
    BY <2>1 DEF AllValves, Station, Supplies
  <2>. QED BY <1>0, <1>1, <2>1, <2>2, <2>3
<1>2. CASE s \notin FreshFill
  <2>. DEFINE more == IF s = 26 THEN {"V03"} ELSE IF s = 46 THEN {"V02"} ELSE {}
  <2>1. Filled(w, open) = (open \ {"V00", "V06", "V07", "V08", "V09", "V11", "V12"})
                          \union {"V01", "V05", "V10", "NP"} \union more
    BY <1>2 DEF Filled
  <2>2. /\ s = 26 => s \in CausticSteps /\ s \notin AcidSteps /\ more = {"V03"}
        /\ s = 46 => s \in AcidSteps /\ s \notin CausticSteps /\ more = {"V02"}
        /\ s \notin {26, 46} => s \notin CausticSteps \cup AcidSteps /\ more = {}
    BY DEF FillTank, CausticSteps, AcidSteps
  <2>. HIDE DEF more
  <2>3. Filled(w, open) \subseteq AllValves
    BY <2>1, <2>2 DEF AllValves, Station, Supplies, Returns
  <2>4. OneReturn(Filled(w, open))
    BY <2>1, <2>2
  <2>5. ApartBut(s, Filled(w, open))
    BY <2>1, <2>2
  <2>. HIDE DEF OneReturn, ApartBut
  <2>. QED BY <1>0, <2>3, <2>4, <2>5
<1>. QED BY <1>1, <1>2

(* So does the start of every step, if what it inherits is apart.          *)
LEMMA InitApart ==
    ASSUME NEW s \in Steps, NEW open, open \subseteq AllValves, NEW prog \in Program,
           NEW obj \in Recipe, NEW o \in InitOpen(s, open, prog, obj)
    PROVE  /\ o \subseteq AllValves
           /\ s \notin Pump /\ Inherited(s, open) => ApartAt(s, o)
           /\ s = 188 => o \cap Station \subseteq {"V00"}
<1>. DEFINE do == Work[s].do  from == From(s, prog, obj)  to == To(s, prog, obj)
<1>1. Kind(s, do, from, to)
  BY StepKind
<1>2. \/ do = "fillTank" /\ o = Filled(Work[s], open)
      \/ do = "pump" /\ o = Pumped(obj, Work[s], from, to, open)
      \/ (do = "custom" \/ (do = "emptyObject" /\ obj.isLine)) /\ o = open
      \/ \E v : SetBy(s, do, from, to, v, obj) /\ o = SetStation(open, v)
  BY InitOpenIs
<1>3. /\ Work[s].step = s
      /\ do = "fillTank" => Work[s].from = IF s \in FreshFill THEN "WATER" ELSE "RETURN"
  <2>1. Work[s].step = s /\ IsRow(s, do, Work[s].from, Work[s].to)
    BY WorkRow
  <2>2. ASSUME do = "fillTank" PROVE Work[s].from = IF s \in FreshFill THEN "WATER" ELSE "RETURN"
    <3>. DEFINE f == Work[s].from  t == Work[s].to
    <3>1. <<s, f, t>> \in FillSteps
      BY <2>1, <2>2 DEF IsRow
    <3>. HIDE DEF f, t
    <3>2. f = IF s \in FreshFill THEN "WATER" ELSE "RETURN"
      BY <3>1 DEF FillSteps, FreshFill
    <3>. QED BY <3>2 DEF f
  <2>. QED BY <2>1, <2>2
<1>. HIDE DEF do, from, to
<1>4. CASE do = "fillTank" /\ o = Filled(Work[s], open)
  <2>1. s \in FillTank /\ s \notin Pump /\ s # 188
    BY <1>1, <1>4 DEF Kind, FillTank, Pump
  <2>2. s \in Inheriting
    BY <2>1 DEF Inheriting
  <2>3. Filled(Work[s], open) \subseteq AllValves
    BY <1>4 DEF Filled, AllValves, Station, Supplies, Returns
  <2>4. Inherited(s, open) => ApartAt(s, Filled(Work[s], open))
    BY <1>3, <1>4, <2>1, <2>2, FilledApart DEF Inherited
  <2>. QED BY <1>4, <2>1, <2>3, <2>4
<1>5. CASE do = "pump" /\ o = Pumped(obj, Work[s], from, to, open)
  <2>1. s \in Pump /\ from \in {"WATER", "none"} \cup Tanks
        /\ to \in {"none", "KANAL", "NEUTRO"} \cup Tanks \cup HeadTanks
        /\ (s = 188 => from = "none" /\ to = "none")
    BY <1>1, <1>5 DEF Kind
  <2>2. Drains(s) \subseteq TankValves
    BY DEF Drains, TankValves
  <2>3. Source(from) \subseteq Station
    BY <2>1, SourceIs DEF Tanks, Station, Supplies
  <2>4. Way(to, obj) \subseteq AllValves
    BY <2>1, WayIs DEF Tanks, HeadTanks, AllValves, Station, TankValves, Returns
  <2>5. o = (open \intersect {"V00"}) \union (Source(from) \ {"V00"}) \union Drains(s)
            \union Way(to, obj) \union (IF to = "none" THEN {} ELSE {"V06"})
            \union (IF from = "none" THEN {} ELSE {"NP"})
    BY <1>3, <1>5 DEF Pumped
  <2>6. o \subseteq AllValves
    BY <2>2, <2>3, <2>4, <2>5 DEF AllValves, Station
  <2>7. ASSUME s = 188 PROVE o \cap Station \subseteq {"V00"}
    <3>1. TankValves \cap Station = {}
      BY DEF TankValves, Station, Supplies, Returns
    <3>. QED BY <2>1, <2>2, <2>5, <2>7, <3>1, SourceIs, WayIs
  <2>. QED BY <2>1, <2>6, <2>7
<1>6. CASE (do = "custom" \/ (do = "emptyObject" /\ obj.isLine)) /\ o = open
  <2>1. s \in {300} \cup EmptyObject
    BY <1>1, <1>6 DEF Kind
  <2>2. /\ s \in Inheriting /\ s \notin FillTank /\ s \notin EmptyTank /\ s # 188 /\ s \notin Pump
    BY <2>1 DEF Inheriting, FillTank, EmptyObject, EmptyTank, Pump
  <2>. QED BY <1>6, <2>2 DEF Inherited, ApartAt
<1>7. CASE \E v : SetBy(s, do, from, to, v, obj) /\ o = SetStation(open, v)
  <2>1. PICK v : SetBy(s, do, from, to, v, obj) /\ o = SetStation(open, v)
    BY <1>7
  <2>2. v \subseteq Station /\ ApartAt(s, v)
    BY <1>1, <2>1, SetApart
  <2>3. o \subseteq AllValves /\ \A x \in Station : x \in o <=> x \in v
    BY <2>1, <2>2, SetStationIs
  <2>4. ApartAt(s, o)
    BY <2>2, <2>3 DEF ApartAt, ApartBut, OneReturn, Station, Supplies, Returns
  <2>5. s # 188
    BY <1>1, <2>1 DEF Kind, SetBy, ToObject, FromObject, EmptyObject, EmptyTank, Circulate, Done
  <2>. QED BY <2>3, <2>4, <2>5
<1>. QED BY <1>2, <1>4, <1>5, <1>6, <1>7

(* DoStep runs a step of the same kind, one of them into another tank.     *)
LEMMA RunKind ==
    ASSUME NEW s \in Steps, NEW prog \in Program, NEW obj \in Recipe
    PROVE  Kind(s, Work[s].do, From(s, prog, obj), RunTo(s, prog, obj))
<1>. DEFINE do == Work[s].do  from == From(s, prog, obj)  to == To(s, prog, obj)
            run == RunTo(s, prog, obj)
<1>. SUFFICES Kind(s, do, from, run)
  OBVIOUS
<1>1. Kind(s, do, from, to)
  BY StepKind
<1>2. run = IF s = 176 THEN "TANK_W_MG" ELSE to
  BY DEF RunTo
<1>. HIDE DEF do, from, to, run
<1>3. CASE s = 176
  <2>1. s \in Pump
    BY <1>3 DEF Pump
  <2>2. do = "pump" /\ from \in {"WATER", "none"} \cup Tanks
    BY <1>1, <1>3 DEF Kind, ToObject, FromObject, EmptyObject, FillTank, Circulate, EmptyTank, Done
  <2>. QED BY <1>2, <1>3, <2>1, <2>2 DEF Kind, HeadTanks
<1>4. CASE s # 176
  BY <1>1, <1>2, <1>4
<1>. QED BY <1>3, <1>4

(* The valves of DoStep: some of what was open, the intake and the way     *)
(* back it chooses.                                                        *)
Rest(open) == open \ (Intake \cup Returns \cup Heads)

(* The intake and the way back that DoStep may choose.                     *)
RunIntake(s, do, from, now, i, obj) ==
    \/ /\ do \in {"toObject", "fromObject", "fillRR", "washRR", "pump"} /\ from = "WATER"
       /\ i \in {now \ {"V00"}, now \cup {"V00"}}
    \/ /\ do \in {"toObject", "fromObject"} /\ from = "TANK_W"
       /\ i \in {{"V04"}, {"V01"}, {"V01", "V00"}}
    \/ /\ do = "circulate" /\ FedBy(s) \in obj.feed
       /\ i \in {now \ {FeedValve(s)}, now \cup {FeedValve(s)}}
    \/ i = now

RunReturn(s, do, from, to, now, r, obj) ==
    \/ r = now
    \/ /\ do \in {"toObject", "fromObject", "emptyObject"} /\ to = "TANK_W"
       /\ r \in {{"V07"}, {"V11"}}
    \/ /\ do \in {"toObject", "emptyObject", "fromObject", "washRR"} /\ to \in {"TANK_K", "TANK_S"}
       /\ r \in {now \cap Returns, {ReturnOf[to]}, {Neutro(obj)}, {"V11"}}
    \/ /\ do = "fromObject" /\ from \in {"TANK_K", "TANK_S"}
       /\ r \in {now \cap Returns, {ReturnOf[from]}, {Neutro(obj)}, {"V11"}}
    \/ /\ do = "emptyTank" /\ to = "TANK_W"
       /\ r \in {(now \ {"V11"}) \cup {"V07"}, (now \ {"V07"}) \cup {"V11"}}
    \/ do = "circulate" /\ s = 28 /\ r \in {{"V10"}, {"V09"}}
    \/ do = "circulate" /\ s = 48 /\ r \in {{"V10"}, {"V08"}}
    \/ /\ do = "pump" /\ TankOf(to) \in DOMAIN ReturnOf
       /\ r \in {Way(to, obj), {Neutro(obj)}}

(* RunOpen by the kind of the step: what it may do to the intake, and to   *)
(* the ways back; the rest stays.                                          *)
LEMMA RunOpenIs ==
    ASSUME NEW s \in Steps, NEW open, NEW prog \in Program, NEW obj \in Recipe,
           NEW o \in RunOpen(s, open, prog, obj)
    PROVE  LET do == Work[s].do  from == From(s, prog, obj)  to == RunTo(s, prog, obj)
           IN \E i, r : /\ o = Rest(open) \cup i \cup r
                        /\ i \in IntakeChoices(s, open, prog, obj)
                        /\ RunIntake(s, do, from, open \cap Intake, i, obj)
                        /\ RunReturn(s, do, from, to, open \cap (Returns \cup Heads), r, obj)
<1>. DEFINE do == Work[s].do  from == From(s, prog, obj)  to == RunTo(s, prog, obj)
            w == Work[s]  water == open \cap Intake  now == open \cap (Returns \cup Heads)
<1>1. PICK i \in IntakeChoices(s, open, prog, obj), r \in ReturnChoices(s, open, prog, obj) :
        o = Rest(open) \cup i \cup r
  BY DEF RunOpen, Rest
<1>2. RunIntake(s, do, from, water, i, obj)
  <2>1. i \in CASE w.do \in {"toObject", "fromObject", "fillRR", "washRR", "pump"} /\ from = "WATER" ->
                     {water \ {"V00"}, water \union {"V00"}}
                [] w.do \in {"toObject", "fromObject"} /\ from = "TANK_W" ->
                     {{"V04"}, {"V01"}, {"V01", "V00"}}
                [] w.do = "circulate" /\ FedBy(s) \in obj.feed ->
                     {water \ {FeedValve(s)}, water \union {FeedValve(s)}}
                [] OTHER -> {water}
    BY <1>1 DEF IntakeChoices
  <2>2. do = w.do
    OBVIOUS
  <2>. HIDE DEF do, w, from, water
  <2>3. \/ /\ do \in {"toObject", "fromObject", "fillRR", "washRR", "pump"} /\ from = "WATER"
           /\ i \in {water \ {"V00"}, water \cup {"V00"}}
        \/ /\ do \in {"toObject", "fromObject"} /\ from = "TANK_W"
           /\ i \in {{"V04"}, {"V01"}, {"V01", "V00"}}
        \/ /\ do = "circulate" /\ FedBy(s) \in obj.feed
           /\ i \in {water \ {FeedValve(s)}, water \cup {FeedValve(s)}}
        \/ i \in {water}
    BY <2>1, <2>2
  <2>. QED BY <2>3 DEF RunIntake
<1>3. RunReturn(s, do, from, to, now, r, obj)
  <2>1. CASE do = "emptyObject" /\ obj.isLine
    BY <1>1, <2>1 DEF ReturnChoices, RunReturn
  <2>2. CASE ~ (do = "emptyObject" /\ obj.isLine)
    <3>1. \A t : SortRR(t, open, obj) = {now \cap Returns, {ReturnOf[t]}, {Neutro(obj)}, {"V11"}}
      <4>1. now \cap Returns = open \cap Returns
        OBVIOUS
      <4>. HIDE DEF now
      <4>. QED BY <4>1 DEF SortRR
    <3>2. r \in CASE w.do \in {"toObject", "fromObject", "emptyObject"} /\ to = "TANK_W" ->
                   IF w.do = "toObject" /\ from = "TANK_W" THEN {{"V11"}} ELSE {{"V07"}, {"V11"}}
              [] w.do \in {"toObject", "emptyObject", "fromObject", "washRR"}
                   /\ to \in {"TANK_K", "TANK_S"} -> SortRR(to, open, obj)
              [] w.do = "fromObject" /\ from \in {"TANK_K", "TANK_S"} -> SortRR(from, open, obj)
              [] w.do = "emptyTank" /\ to = "TANK_W" ->
                   {(now \ {"V11"}) \union {"V07"}, (now \ {"V07"}) \union {"V11"}}
              [] w.do = "circulate" /\ s \in {28, 48} /\ obj.noStop ->
                   {now, {"V10"}, {ReturnOf[IF s = 28 THEN "TANK_S" ELSE "TANK_K"]}}
              [] w.do = "pump" /\ TankOf(to) \in DOMAIN ReturnOf ->
                   {Way(to, obj)}
                   \union (IF from = TankOf(to) THEN {} ELSE {{Neutro(obj)}})
              [] OTHER -> {now}
      BY <1>1, <2>2 DEF ReturnChoices
    <3>3. do = w.do
      OBVIOUS
    <3>4. /\ ReturnOf["TANK_S"] = "V09" /\ ReturnOf["TANK_K"] = "V08"
      BY DEF ReturnOf
    <3>. HIDE DEF do, w, from, to, now
    <3>5. \/ /\ do \in {"toObject", "fromObject", "emptyObject"} /\ to = "TANK_W"
             /\ r \in {{"V07"}, {"V11"}}
          \/ /\ do \in {"toObject", "emptyObject", "fromObject", "washRR"} /\ to \in {"TANK_K", "TANK_S"}
             /\ r \in SortRR(to, open, obj)
          \/ /\ do = "fromObject" /\ from \in {"TANK_K", "TANK_S"} /\ r \in SortRR(from, open, obj)
          \/ /\ do = "emptyTank" /\ to = "TANK_W"
             /\ r \in {(now \ {"V11"}) \cup {"V07"}, (now \ {"V07"}) \cup {"V11"}}
          \/ /\ do = "circulate" /\ s \in {28, 48}
             /\ r \in {now, {"V10"}, {ReturnOf[IF s = 28 THEN "TANK_S" ELSE "TANK_K"]}}
          \/ /\ do = "pump" /\ TankOf(to) \in DOMAIN ReturnOf
             /\ r \in {Way(to, obj), {Neutro(obj)}}
          \/ r = now
      BY <3>2, <3>3
    <3>6. ASSUME do = "circulate" /\ s \in {28, 48},
                 r \in {now, {"V10"}, {ReturnOf[IF s = 28 THEN "TANK_S" ELSE "TANK_K"]}}
          PROVE  RunReturn(s, do, from, to, now, r, obj)
      BY <3>4, <3>6 DEF RunReturn
    <3>. QED BY <3>1, <3>5, <3>6 DEF RunReturn
  <2>. QED BY <2>1, <2>2
<1>. QED BY <1>1, <1>2, <1>3

(* DoStep keeps the media apart.                                           *)
LEMMA RunApart ==
    ASSUME NEW s \in Steps, NEW open, open \subseteq AllValves, NEW prog \in Program,
           NEW obj \in Recipe, NEW o \in RunOpen(s, open, prog, obj)
    PROVE  /\ o \subseteq AllValves
           /\ s \notin Pump /\ ApartAt(s, open) => ApartAt(s, o)
           /\ s = 188 /\ open \cap Station \subseteq {"V00"} => o \cap Station \subseteq {"V00"}
<1>. DEFINE do == Work[s].do  from == From(s, prog, obj)  to == RunTo(s, prog, obj)
<1>1. Kind(s, do, from, to)
  BY RunKind
<1>2. PICK i, r : /\ o = Rest(open) \cup i \cup r
                  /\ RunIntake(s, do, from, open \cap Intake, i, obj)
                  /\ RunReturn(s, do, from, to, open \cap (Returns \cup Heads), r, obj)
  BY RunOpenIs
<1>. HIDE DEF do, from, to
<1>3. FeedValve(s) = IF s = 28 THEN "V03" ELSE IF s = 48 THEN "V02" ELSE "V00"
  BY DEF FeedValve
<1>4. /\ i \subseteq Intake
      /\ "V02" \in i => "V02" \in open \/ (s = 48 /\ do = "circulate")
      /\ "V03" \in i => "V03" \in open \/ (s = 28 /\ do = "circulate")
      /\ s = 188 => i \subseteq open
  <2>1. s = 188 => do = "pump" /\ from = "none"
    BY <1>1 DEF Kind, ToObject, FromObject, EmptyObject, FillTank, Circulate, EmptyTank, Pump, Done
  <2>. QED BY <1>2, <1>3, <2>1 DEF RunIntake, Intake, Supplies
<1>5. /\ ReturnOf["TANK_S"] = "V09" /\ ReturnOf["TANK_K"] = "V08" /\ ReturnOf["TANK_W"] = "V07"
  BY DEF ReturnOf
<1>6. CASE s \in Pump
  <2>1. do = "pump"
    BY <1>1, <1>6 DEF Kind, ToObject, FromObject, EmptyObject, FillTank, Circulate, EmptyTank, Pump, Done
  <2>2. to \in {"none", "KANAL", "NEUTRO"} \cup Tanks \cup HeadTanks /\ (s = 188 => to = "none")
    BY <1>1, <2>1 DEF Kind
  <2>3. \/ r = open \cap (Returns \cup Heads)
        \/ s # 188 /\ r \in {Way(to, obj), {Neutro(obj)}}
    <3>1. ~ (TankOf("none") \in DOMAIN ReturnOf)
      BY DEF TankOf, ReturnOf
    <3>. QED BY <1>2, <2>1, <2>2, <3>1 DEF RunReturn
  <2>4. r \subseteq Returns \cup Heads
    BY <2>2, <2>3, WayIs DEF Tanks, HeadTanks, Returns, Heads
  <2>5. o \subseteq AllValves
    BY <1>2, <1>4, <2>4 DEF Rest, AllValves, Station, TankValves, Heads, Intake
  <2>6. s = 188 => o \subseteq open
    BY <1>2, <1>4, <2>3 DEF Rest
  <2>. QED BY <1>6, <2>5, <2>6
<1>7. CASE s \notin Pump
  <2>1. do # "pump" /\ s # 188
    BY <1>1, <1>7 DEF Kind, Pump
  <2>. DEFINE now == open \cap (Returns \cup Heads)
  <2>2. /\ r \subseteq now
        \/ /\ \/ \E x \in Returns : r = {x}
              \/ do = "emptyTank" /\ to = "TANK_W" /\ r \subseteq now \cup {"V07", "V11"}
           /\ "V08" \in r => "V08" \in now \/ s \in {33, 53, 34, 54, 35, 55, 121, 44, 48}
           /\ "V09" \in r => "V09" \in now \/ s \in {33, 53, 34, 54, 35, 55, 111, 24, 28}
    <3>1. Neutro(obj) \in {"V11", "V12"}
      BY WayIs
    <3>2. now \cap Returns \subseteq now
      OBVIOUS
    <3>3. RunReturn(s, do, from, to, now, r, obj)
      BY <1>2
    <3>. HIDE DEF now
    <3>4. CASE r = now
      BY <3>4
    <3>5. CASE /\ do \in {"toObject", "fromObject", "emptyObject"} /\ to = "TANK_W"
               /\ r \in {{"V07"}, {"V11"}}
      BY <3>5 DEF Returns
    <3>6. CASE /\ do \in {"toObject", "emptyObject", "fromObject", "washRR"} /\ to \in {"TANK_K", "TANK_S"}
               /\ r \in {now \cap Returns, {ReturnOf[to]}, {Neutro(obj)}, {"V11"}}
      <4>1. /\ to = "TANK_K" => s \in {53, 54, 55, 121}
            /\ to = "TANK_S" => s \in {33, 34, 35, 111}
        <5>1. CASE do = "toObject"
          BY <1>1, <3>6, <5>1 DEF Kind
        <5>2. CASE do = "emptyObject"
          BY <1>1, <3>6, <5>2 DEF Kind
        <5>3. CASE do = "fromObject"
          BY <1>1, <3>6, <5>3 DEF Kind
        <5>4. CASE do = "washRR"
          BY <1>1, <3>6, <5>4 DEF Kind
        <5>. QED BY <3>6, <5>1, <5>2, <5>3, <5>4
      <4>. QED BY <1>5, <3>1, <3>2, <3>6, <4>1 DEF Returns
    <3>7. CASE /\ do = "fromObject" /\ from \in {"TANK_K", "TANK_S"}
               /\ r \in {now \cap Returns, {ReturnOf[from]}, {Neutro(obj)}, {"V11"}}
      <4>1. /\ from = "TANK_K" => s = 44
            /\ from = "TANK_S" => s = 24
        BY <1>1, <3>7 DEF Kind
      <4>. QED BY <1>5, <3>1, <3>2, <3>7, <4>1 DEF Returns
    <3>8. CASE /\ do = "emptyTank" /\ to = "TANK_W"
               /\ r \in {(now \ {"V11"}) \cup {"V07"}, (now \ {"V07"}) \cup {"V11"}}
      BY <3>8
    <3>9. CASE \/ do = "circulate" /\ s = 28 /\ r \in {{"V10"}, {"V09"}}
               \/ do = "circulate" /\ s = 48 /\ r \in {{"V10"}, {"V08"}}
      BY <3>9 DEF Returns
    <3>. QED BY <2>1, <3>3, <3>4, <3>5, <3>6, <3>7, <3>8, <3>9 DEF RunReturn
  <2>3. r \subseteq Returns \cup Heads
    BY <2>2 DEF Returns
  <2>4. o \subseteq AllValves
    BY <1>2, <1>4, <2>3 DEF Rest, AllValves, Station, TankValves, Heads, Intake
  <2>5. /\ \A x \in Returns : x \in o <=> x \in r
        /\ \A x \in Intake : x \in o <=> x \in i
        /\ "V05" \in o => "V05" \in open
        /\ "V06" \in o => "V06" \in open
    BY <1>2, <1>4, <2>3 DEF Rest, Intake, Supplies, Returns, Heads
  <2>6. /\ s \in {33, 53, 34, 54, 35, 55, 121} => s \notin CausticSteps \cup AcidSteps
        /\ s \in {44, 48} => s \in AcidSteps /\ s \notin CausticSteps
        /\ s \in {24, 28} => s \in CausticSteps /\ s \notin AcidSteps
        /\ s = 111 => s \notin CausticSteps \cup AcidSteps
    BY DEF CausticSteps, AcidSteps
  <2>7. ASSUME ApartAt(s, open) PROVE ApartAt(s, o)
    <3>1. s \in EmptyTank /\ do = "emptyTank" /\ to = "TANK_W" => s \notin {29, 49}
      BY <1>1 DEF Kind
    <3>2. do = "emptyTank" => s \in EmptyTank /\ s \notin FreshFill
      BY <1>1 DEF Kind, EmptyTank, FreshFill
    <3>3. CASE r \subseteq now
      <4>1. \A x \in Returns : x \in o => x \in open
        BY <2>5, <3>3
      <4>2. ApartBut(s, o)
        BY <1>4, <2>5, <2>6, <2>7, <4>1 DEF ApartAt, ApartBut, Intake, Supplies, Returns
      <4>. QED BY <2>7, <4>1, <4>2 DEF ApartAt, OneReturn
    <3>4. CASE \E x \in Returns : r = {x}
      <4>1. OneReturn(o)
        BY <2>5, <3>4 DEF OneReturn
      <4>2. ApartBut(s, o)
        <5>1. ~ ("V08" \in o /\ "V09" \in o)
          BY <4>1 DEF OneReturn, Returns
        <5>2. /\ "V08" \in o => "V08" \in open \/ s \in {33, 53, 34, 54, 35, 55, 121, 44, 48}
              /\ "V09" \in o => "V09" \in open \/ s \in {33, 53, 34, 54, 35, 55, 111, 24, 28}
          BY <2>2, <2>5 DEF Returns
        <5>3. /\ "V02" \in o => "V02" \in open \/ s = 48
              /\ "V03" \in o => "V03" \in open \/ s = 28
          BY <1>4, <2>5 DEF Intake, Supplies
        <5>. QED BY <2>5, <2>6, <2>7, <5>1, <5>2, <5>3 DEF ApartAt, ApartBut
      <4>3. s \in EmptyTank \ {29, 49} => o \cap Returns \subseteq {"V07", "V11"}
        <5>1. ASSUME s \in EmptyTank PROVE r = now \/ r \in {{"V07"}, {"V11"}} \/ (do = "emptyTank" /\ to = "TANK_W")
          <6>1. do = "emptyTank"
            BY <1>1, <5>1 DEF Kind, EmptyTank, ToObject, FromObject, EmptyObject, FillTank, Circulate, Pump, Done
          <6>. QED BY <1>2, <6>1 DEF RunReturn
        <5>2. ASSUME s \in EmptyTank \ {29, 49} PROVE open \cap Returns \subseteq {"V07", "V11"}
          BY <2>7, <5>2 DEF ApartAt
        <5>3. ASSUME do = "emptyTank" /\ to = "TANK_W" PROVE r \subseteq now \cup {"V07", "V11"}
          BY <1>2, <5>3 DEF RunReturn
        <5>. QED BY <2>5, <5>1, <5>2, <5>3
      <4>. QED BY <4>1, <4>2, <4>3 DEF ApartAt
    <3>5. CASE do = "emptyTank" /\ to = "TANK_W"
      <4>1. r = now \/ r \in {(now \ {"V11"}) \cup {"V07"}, (now \ {"V07"}) \cup {"V11"}}
        BY <1>2, <3>5 DEF RunReturn
      <4>2. s \in EmptyTank \ {29, 49} /\ s \notin FreshFill
        BY <3>1, <3>2, <3>5
      <4>3. open \cap Returns \subseteq {"V07", "V11"} /\ OneReturn(open)
        BY <2>7, <4>2 DEF ApartAt
      <4>4. OneReturn(o) /\ o \cap Returns \subseteq {"V07", "V11"}
        BY <2>5, <4>1, <4>3 DEF OneReturn, Returns
      <4>5. ApartBut(s, o)
        BY <1>4, <2>5, <2>7, <4>2, <4>4 DEF ApartAt, ApartBut, OneReturn, Intake, Supplies, Returns,
           EmptyTank, CausticSteps, AcidSteps
      <4>. QED BY <4>4, <4>5 DEF ApartAt
    <3>. QED BY <2>2, <3>3, <3>4, <3>5
  <2>. QED BY <1>7, <2>1, <2>4, <2>7
<1>. QED BY <1>6, <1>7

-----------------------------------------------------------------------------
(* The steps that look after the fresh water they let in.                  *)
FreshAt(s, obj) ==
    \/ Work[s].do \in {"refill", "fillTank", "custom", "pump", "fillRR", "washRR"}
    \/ Work[s].do = "emptyObject" /\ obj.isLine
    \/ Work[s].do \in {"toObject", "fromObject"} /\ Work[s].from \in {"src", "media", "WATER"}
    \/ Work[s].do = "circulate" /\ s \notin {28, 48} /\ "W" \in obj.feed

(* Where the water of a step comes from is in its row.                     *)
LEMMA FreshSource ==
    ASSUME NEW s \in Steps, NEW prog, NEW obj, Work[s].do \in {"toObject", "fromObject"}
    PROVE  From(s, prog, obj) \in {"WATER", "TANK_W"} <=> Work[s].from \in {"src", "media", "WATER"}
<1>. DEFINE f == Work[s].from  t == Work[s].to  do == Work[s].do
<1>1. IsRow(s, do, f, t)
  BY WorkRow
<1>2. /\ f = "src" => From(s, prog, obj) \in {"WATER", "TANK_W"}
      /\ f = "media" => From(s, prog, obj) \in {"WATER", "TANK_W"}
      /\ f \notin {"src", "media", "tank"} => From(s, prog, obj) = f
  BY DEF From
<1>3. do \in {"toObject", "fromObject"}
  OBVIOUS
<1>. HIDE DEF f, t, do
<1>4. <<s, f, t>> \in ToObjectSteps \cup FromObjectSteps
  BY <1>1, <1>3 DEF IsRow
<1>5. f \in {"src", "media", "WATER", "TANK_S", "TANK_K"}
  BY <1>4 DEF ToObjectSteps, FromObjectSteps
<1>6. From(s, prog, obj) \in {"WATER", "TANK_W"} <=> f \in {"src", "media", "WATER"}
  BY <1>2, <1>5
<1>. QED BY <1>6 DEF f

(* Fresh water runs after InitStep only where the step looks after it.     *)
LEMMA InitFresh ==
    ASSUME NEW s \in Steps, NEW open, open \subseteq AllValves, NEW prog \in Program,
           NEW obj \in Recipe, NEW o \in InitOpen(s, open, prog, obj), "V00" \in o
    PROVE  FreshAt(s, obj)
<1>. DEFINE do == Work[s].do  from == From(s, prog, obj)  to == To(s, prog, obj)
<1>1. Kind(s, do, from, to)
  BY StepKind
<1>2. \/ do = "fillTank" \/ do = "pump"
      \/ do = "custom" \/ (do = "emptyObject" /\ obj.isLine)
      \/ \E v : SetBy(s, do, from, to, v, obj) /\ o = SetStation(open, v)
  BY InitOpenIs
<1>3. from \in {"WATER", "TANK_W"} /\ do \in {"toObject", "fromObject"}
        => Work[s].from \in {"src", "media", "WATER"}
  BY FreshSource
<1>4. \/ do = "circulate" \/ do = "dose" \/ do = "emptyTank" \/ do = "emptyObject"
      \/ do \in {"toObject", "fromObject"} \/ do \in {"circRR", "checkRR", "addRR"} \/ do = "end"
      \/ do \in {"refill", "fillTank", "custom", "pump", "fillRR", "washRR"}
  BY <1>1 DEF Kind
<1>5. ASSUME NEW v, SetBy(s, do, from, to, v, obj), o = SetStation(open, v)
      PROVE  \/ do \in {"refill", "fillRR", "washRR"}
             \/ do \in {"toObject", "fromObject"} /\ from \in {"WATER", "TANK_W"}
  <2>. HIDE DEF do, from, to
  <2>1. v \subseteq Station
    BY <1>1, <1>5, SetApart
  <2>2. "V00" \in v
    BY <1>5, <2>1, SetStationIs DEF Station
  <2>3. CASE do = "toObject" \/ do = "fromObject"
    <3>1. from \in {"WATER", "TANK_W", "TANK_S", "TANK_K"}
          /\ to \in {"KANAL", "TANK_W", "TANK_S", "TANK_K"}
      BY <1>1, <2>3 DEF Kind
    <3>2. "V00" \in Source(from)
      BY <1>5, <2>2, <2>3, <3>1, WayIs DEF SetBy
    <3>. QED BY <2>3, <3>1, <3>2, SourceIs
  <2>4. CASE do \in {"emptyObject", "emptyTank"}
    <3>1. to \in {"KANAL", "TANK_W", "TANK_S", "TANK_K"}
      BY <1>1, <2>4 DEF Kind
    <3>. QED BY <1>5, <2>2, <2>4, <3>1, WayIs DEF SetBy
  <2>5. CASE do \in {"circulate", "dose", "end"}
    BY <1>5, <2>2, <2>5, CircWayIs DEF SetBy
  <2>6. CASE do \in {"circRR", "checkRR", "addRR"}
    <3>1. to \in {"TANK_S", "TANK_K"}
      BY <1>1, <2>6 DEF Kind
    <3>. QED BY <1>5, <2>2, <2>6, <3>1, SourceIs, WayIs DEF SetBy
  <2>7. CASE do \in {"refill", "fillRR", "washRR"}
    BY <2>7
  <2>. QED BY <1>5, <2>3, <2>4, <2>5, <2>6, <2>7 DEF SetBy
<1>6. CASE \E v : SetBy(s, do, from, to, v, obj) /\ o = SetStation(open, v)
  <2>1. \/ do \in {"refill", "fillRR", "washRR"}
        \/ do \in {"toObject", "fromObject"} /\ from \in {"WATER", "TANK_W"}
    <3>. HIDE DEF do, from, to
    <3>. QED BY <1>5, <1>6
  <2>. QED BY <1>3, <2>1 DEF FreshAt
<1>. QED BY <1>2, <1>6 DEF FreshAt

(* DoStep lets no fresh water in where the step does not look after it.    *)
LEMMA RunFresh ==
    ASSUME NEW s \in Steps, NEW open, NEW prog \in Program,
           NEW obj \in Recipe, NEW o \in RunOpen(s, open, prog, obj), "V00" \in o
    PROVE  "V00" \in open \/ FreshAt(s, obj)
<1>. DEFINE do == Work[s].do  from == From(s, prog, obj)  to == RunTo(s, prog, obj)
<1>1. PICK i, r : /\ o = Rest(open) \cup i \cup r
                  /\ RunIntake(s, do, from, open \cap Intake, i, obj)
                  /\ RunReturn(s, do, from, to, open \cap (Returns \cup Heads), r, obj)
  BY RunOpenIs
<1>2. from \in {"WATER", "TANK_W"} /\ do \in {"toObject", "fromObject"}
        => Work[s].from \in {"src", "media", "WATER"}
  BY FreshSource
<1>3. Kind(s, do, from, to)
  BY RunKind
<1>. HIDE DEF do, from, to
<1>4. "V00" \in i
  <2>1. r \subseteq Returns \cup Heads
    <3>1. Neutro(obj) \in Returns /\ ReturnOf["TANK_K"] \in Returns /\ ReturnOf["TANK_S"] \in Returns
      <4>1. Neutro(obj) \in {"V11", "V12"}
        BY WayIs
      <4>. QED BY <4>1 DEF ReturnOf, Returns
    <3>2. ASSUME do = "pump", TankOf(to) \in DOMAIN ReturnOf PROVE Way(to, obj) \subseteq Returns \cup Heads
      <4>1. to \in {"none", "KANAL", "NEUTRO"} \cup Tanks \cup HeadTanks
        BY <1>3, <3>2 DEF Kind
      <4>. QED BY <4>1, WayIs DEF Tanks, HeadTanks, Returns, Heads
    <3>3. RunReturn(s, do, from, to, open \cap (Returns \cup Heads), r, obj)
      BY <1>1
    <3>4. {"V07", "V08", "V09", "V10", "V11"} \subseteq Returns
      BY DEF Returns
    <3>. QED BY <3>1, <3>2, <3>3, <3>4 DEF RunReturn
  <2>2. "V00" \notin Returns \cup Heads /\ "V00" \in Intake
    BY DEF Returns, Heads, Intake
  <2>. QED BY <1>1, <2>1, <2>2 DEF Rest
<1>5. "V00" \in open \/ FreshAt(s, obj)
  <2>1. RunIntake(s, do, from, open \cap Intake, i, obj)
    BY <1>1
  <2>2. CASE do \in {"toObject", "fromObject"}
    BY <1>2, <1>4, <2>1, <2>2 DEF RunIntake, FreshAt, do
  <2>3. CASE do \in {"fillRR", "washRR", "pump"}
    BY <2>3 DEF FreshAt, do
  <2>4. CASE do = "circulate"
    <3>1. /\ FeedValve(s) = IF s = 28 THEN "V03" ELSE IF s = 48 THEN "V02" ELSE "V00"
          /\ FedBy(s) = IF s = 28 THEN "S" ELSE IF s = 48 THEN "K" ELSE "W"
      BY DEF FeedValve, FedBy
    <3>2. "V00" \in open \/ (s \notin {28, 48} /\ "W" \in obj.feed)
      BY <1>4, <2>1, <2>4, <3>1 DEF RunIntake
    <3>. QED BY <2>4, <3>2 DEF FreshAt, do
  <2>5. CASE do \notin {"toObject", "fromObject", "fillRR", "washRR", "pump", "circulate"}
    BY <1>4, <2>1, <2>5 DEF RunIntake
  <2>. QED BY <2>2, <2>3, <2>4, <2>5
<1>. QED BY <1>5

(* A step that looks after the fresh water may close it.                   *)
LEMMA FreshMayClose ==
    ASSUME NEW s \in Steps \ (Pump \cup {300}), NEW open, NEW prog \in Program, NEW obj \in Recipe,
           FreshAt(s, obj)
    PROVE  \/ Work[s].do \in {"refill", "fillTank"}
           \/ Work[s].do = "emptyObject" /\ obj.isLine
           \/ \E c \in IntakeChoices(s, open, prog, obj) : "V00" \notin c
<1>. DEFINE do == Work[s].do  from == From(s, prog, obj)  to == To(s, prog, obj)
            now == open \cap Intake
<1>1. Kind(s, do, from, to)
  BY StepKind
<1>2. do # "custom" /\ do # "pump"
  BY <1>1 DEF Kind
<1>3. CASE do \in {"fillRR", "washRR"}
  <2>1. from = "WATER"
    BY <1>1, <1>3 DEF Kind
  <2>2. now \ {"V00"} \in IntakeChoices(s, open, prog, obj)
    BY <1>3, <2>1 DEF IntakeChoices
  <2>. QED BY <2>2
<1>4. CASE do \in {"toObject", "fromObject"} /\ Work[s].from \in {"src", "media", "WATER"}
  <2>1. from \in {"WATER", "TANK_W"}
    BY <1>4, FreshSource
  <2>2. CASE from = "WATER"
    <3>1. now \ {"V00"} \in IntakeChoices(s, open, prog, obj)
      BY <1>4, <2>2 DEF IntakeChoices
    <3>. QED BY <3>1
  <2>3. CASE from = "TANK_W"
    <3>1. {"V04"} \in IntakeChoices(s, open, prog, obj)
      BY <1>4, <2>3 DEF IntakeChoices
    <3>. QED BY <3>1
  <2>. QED BY <2>1, <2>2, <2>3
<1>5. CASE do = "circulate" /\ s \notin {28, 48} /\ "W" \in obj.feed
  <2>1. FedBy(s) = "W" /\ FeedValve(s) = "V00"
    BY <1>5 DEF FedBy, FeedValve
  <2>2. now \ {"V00"} \in IntakeChoices(s, open, prog, obj)
    BY <1>5, <2>1 DEF IntakeChoices
  <2>. QED BY <2>2
<1>. QED BY <1>2, <1>3, <1>4, <1>5 DEF FreshAt

(* Concentrate is dosed in the steps that add it.                          *)
DosedAt(s, d) == d \subseteq (IF s = 109 THEN {"NS"} ELSE IF s = 119 THEN {"NK"} ELSE {})

(* A step that starts doses only the concentrate that is its own.          *)
LEMMA InitDosed ==
    ASSUME NEW s \in Steps, NEW d, d \subseteq Dosers,
           d = {} \/ (s = 106 /\ d \subseteq {"NS"}) \/ (s = 116 /\ d \subseteq {"NK"})
    PROVE  InitDosing(s, d) \subseteq Dosers /\ DosedAt(s, InitDosing(s, d))
<1>. DEFINE do == Work[s].do  f == Work[s].from  t == Work[s].to
<1>1. IsRow(s, do, f, t)
  BY WorkRow
<1>2. /\ do = "addRR" => InitDosing(s, d) = d \cup {IF t = "TANK_S" THEN "NS" ELSE "NK"}
      /\ do \in {"circRR", "checkRR", "washRR"} =>
           InitDosing(s, d) = d \ {IF t = "TANK_S" THEN "NS" ELSE "NK"}
      /\ do \notin {"addRR", "circRR", "checkRR", "washRR"} => InitDosing(s, d) = d
  BY DEF InitDosing
<1>. HIDE DEF do, f, t
<1>3. /\ s = 106 => do = "circRR" /\ t = "TANK_S"
      /\ s = 116 => do = "circRR" /\ t = "TANK_K"
  <2>1. ASSUME s \in {106, 116} PROVE do = "circRR" /\ t = (IF s = 106 THEN "TANK_S" ELSE "TANK_K")
    <3>. DEFINE From1(T) == {u[1] : u \in T}
    <3>1. /\ From1(ToObjectSteps) = ToObject /\ From1(FromObjectSteps) = FromObject
          /\ From1(EmptyObjectSteps) = EmptyObject /\ From1(FillSteps) = FillTank
          /\ From1(CirculateSteps) = Circulate /\ From1(EmptyTankSteps) = EmptyTank
          /\ From1(PumpSteps) = Pump
      BY TableSteps
    <3>2. \A T : <<s, f, t>> \in T => s \in From1(T)
      <4>1. <<s, f, t>>[1] = s
        OBVIOUS
      <4>. QED BY <4>1
    <3>. HIDE DEF From1
    <3>3. ~ \E T \in {ToObjectSteps, FromObjectSteps, EmptyObjectSteps, FillSteps,
                      CirculateSteps, EmptyTankSteps, PumpSteps} : <<s, f, t>> \in T
      <4>1. /\ s \notin ToObject /\ s \notin FromObject /\ s \notin EmptyObject
            /\ s \notin FillTank /\ s \notin Circulate /\ s \notin EmptyTank /\ s \notin Pump
        BY <2>1 DEF ToObject, FromObject, EmptyObject, FillTank, Circulate, EmptyTank, Pump
      <4>. QED BY <3>1, <3>2, <4>1
    <3>4. s # Done
      BY <2>1 DEF Done
    <3>. QED BY <1>1, <2>1, <3>3, <3>4 DEF IsRow
  <2>. QED BY <2>1
<1>4. do = "addRR" => (s = 109 /\ t = "TANK_S") \/ (s = 119 /\ t = "TANK_K")
  BY <1>1 DEF IsRow
<1>5. CASE do = "addRR"
  <2>1. d = {}
    BY <1>3, <1>4, <1>5
  <2>2. InitDosing(s, d) = {IF t = "TANK_S" THEN "NS" ELSE "NK"}
    BY <1>2, <1>5, <2>1
  <2>. QED BY <1>4, <1>5, <2>2 DEF DosedAt, Dosers
<1>6. CASE do \in {"circRR", "checkRR", "washRR"}
  <2>1. InitDosing(s, d) = d \ {IF t = "TANK_S" THEN "NS" ELSE "NK"}
    BY <1>2, <1>6
  <2>2. InitDosing(s, d) = {}
    BY <1>3, <2>1
  <2>. QED BY <2>2 DEF DosedAt
<1>7. CASE do \notin {"addRR", "circRR", "checkRR", "washRR"}
  <2>1. InitDosing(s, d) = d /\ d = {}
    BY <1>2, <1>3, <1>7
  <2>. QED BY <2>1 DEF DosedAt
<1>. QED BY <1>5, <1>6, <1>7

-----------------------------------------------------------------------------
(***************************************************************************)
(* What the operations do to the record of a line.                         *)
(***************************************************************************)
(* The wash itself is untouched: step, part, program and recipe.           *)
SameWash(r, x) ==
    /\ x \in LineRecord
    /\ x.step = r.step /\ x.part = r.part /\ x.prog = r.prog /\ x.obj = r.obj
    /\ x.flags = r.flags /\ x.reset = r.reset

(* What StopDev leaves open.                                               *)
Shut(r, x) ==
    /\ x.ret = FALSE /\ x.forced = FALSE
    /\ x.open \subseteq r.open /\ x.open \subseteq Returns \cup TankValves

(* StopDev shuts the station but the ways back, and changes nothing of the *)
(* wash.                                                                   *)
LEMMA StopDevIs ==
    ASSUME NEW l, NEW r \in LineRecord, NEW x, x = StopDev(l, r)
    PROVE  /\ SameWash(r, x) /\ Shut(r, x)
           /\ x.blocked = r.blocked /\ x.state = r.state /\ x.dosing = r.dosing
<1>. DEFINE k == (IF r.state = "object" THEN Returns ELSE {})
                 \cup (IF scline = l THEN {} ELSE TankValves)
            o == r.open \cap k
<1>1. x = [r EXCEPT !.ret = FALSE, !.forced = FALSE, !.open = o]
  BY DEF StopDev
<1>2. o \subseteq r.open /\ o \subseteq Returns \cup TankValves
  OBVIOUS
<1>3. r.open \subseteq Station \cup TankValves
  BY DEF LineRecord
<1>. HIDE DEF o
<1>4. x \in LineRecord
  BY <1>1, <1>2, <1>3 DEF LineRecord
<1>5. /\ x.step = r.step /\ x.part = r.part /\ x.prog = r.prog /\ x.obj = r.obj
      /\ x.open = o /\ x.dosing = r.dosing /\ x.state = r.state
  BY <1>1 DEF LineRecord
<1>6. x.flags = r.flags /\ x.reset = r.reset /\ x.blocked = r.blocked
  BY <1>1 DEF LineRecord
<1>7. x.ret = FALSE /\ x.forced = FALSE
  BY <1>1 DEF LineRecord
<1>. QED BY <1>2, <1>4, <1>5, <1>6, <1>7 DEF SameWash, Shut

(* Stop also stops the pumps of the concentrates at the steps that dose.   *)
Undosed(r, x) ==
    /\ x.dosing \subseteq r.dosing
    /\ r.step = 109 => "NS" \notin x.dosing
    /\ r.step = 119 => "NK" \notin x.dosing

(* Stop does, and stops the dosing.                                        *)
LEMMA StopIs ==
    ASSUME NEW l, NEW r \in LineRecord, NEW x, x = Stop(l, r)
    PROVE  /\ SameWash(r, x) /\ Shut(r, x) /\ Undosed(r, x)
           /\ x.blocked = r.blocked /\ x.state = "idle"
<1>. DEFINE b == StopDev(l, r)
            d == CASE r.step \in {105, 109} -> b.dosing \ {"NS"}
                   [] r.step \in {115, 119} -> b.dosing \ {"NK"}
                   [] OTHER -> b.dosing
<1>1. /\ SameWash(r, b) /\ Shut(r, b)
      /\ b.blocked = r.blocked /\ b.dosing = r.dosing
  BY StopDevIs
<1>2. x = [b EXCEPT !.state = "idle", !.dosing = d]
  BY DEF Stop
<1>4. /\ r.step = 109 => "NS" \notin d
      /\ r.step = 119 => "NK" \notin d
      /\ d \subseteq r.dosing
  BY <1>1
<1>. HIDE DEF b, d
<1>5. b \in LineRecord /\ r.dosing \subseteq Dosers
  BY <1>1 DEF SameWash, LineRecord
<1>6. x \in LineRecord
  BY <1>2, <1>4, <1>5 DEF LineRecord, LineStates
<1>7. /\ x.step = b.step /\ x.part = b.part /\ x.prog = b.prog /\ x.obj = b.obj
      /\ x.open = b.open /\ x.dosing = d /\ x.state = "idle"
  BY <1>2, <1>5 DEF LineRecord
<1>8. /\ x.flags = b.flags /\ x.reset = b.reset /\ x.blocked = b.blocked
      /\ x.ret = b.ret /\ x.forced = b.forced
  BY <1>2, <1>5 DEF LineRecord
<1>. QED BY <1>1, <1>4, <1>6, <1>7, <1>8 DEF SameWash, Shut, Undosed

(* The recipe as InitStep and DoStep read it is a recipe.                  *)
LEMMA ConfiguredIs ==
    ASSUME NEW r \in LineRecord
    PROVE  /\ Configured(r) \in Recipe /\ Configured(r).isLine = r.obj.isLine
           /\ Configured(r).feed = r.flags.feed
<1>. DEFINE o == r.obj  c == r.flags.circ  f == r.flags.feed  n == r.flags.noStop
<1>1. o \in Recipe /\ r.flags \in Flags
  BY DEF LineRecord
<1>2. c \in SUBSET {"S", "K"} /\ f \in SUBSET {"S", "K", "W"} /\ n \in BOOLEAN
  BY <1>1 DEF Flags
<1>3. Configured(r) = [o EXCEPT !.circ = c, !.feed = f, !.noStop = n]
  BY DEF Configured
<1>. HIDE DEF o, c, f, n
<1>4. /\ [o EXCEPT !.circ = c, !.feed = f, !.noStop = n] \in Recipe
      /\ [o EXCEPT !.circ = c, !.feed = f, !.noStop = n].isLine = o.isLine
      /\ [o EXCEPT !.circ = c, !.feed = f, !.noStop = n].feed = f
  BY <1>1, <1>2 DEF Recipe
<1>. QED BY <1>3, <1>4 DEF o, f

(* InitStep opens what the step opens, and ends the forced return.         *)
IsEntered(r, x) ==
    /\ SameWash(r, x) /\ x.state = r.state /\ x.blocked = r.blocked
    /\ x.forced = FALSE
    /\ r.step \in {0, Done} => x.ret = FALSE
    /\ \E b : b \subseteq r.open /\ x.open \in InitOpen(r.step, b, r.prog, Configured(r))
    /\ x.dosing = InitDosing(r.step, r.dosing)

(* A line that InitStep leaves has entered its step.                       *)
LEMMA InitStepIs ==
    ASSUME NEW l, NEW r \in LineRecord, r.step \in Steps, InitDosing(r.step, r.dosing) \subseteq Dosers,
           NEW x \in InitStep(l, r)
    PROVE  IsEntered(r, x)
<1>. DEFINE stops == r.step \in {0, Done}
            base == IF stops THEN StopDev(l, r) ELSE r
            d == InitDosing(r.step, base.dosing)
<1>. DEFINE I == InitOpen(r.step, base.open, r.prog, Configured(r))
            B == RetPump(FALSE, ~ stops)
<1>0. InitStep(l, r) = {Entered(base, o, on) : o \in I, on \in B}
  BY DEF InitStep
<1>1. PICK o \in I, on \in B : x = Entered(base, o, on)
  <2>. HIDE DEF I, B, base
  <2>. QED BY <1>0
<1>2. /\ SameWash(r, base) /\ base.blocked = r.blocked /\ base.state = r.state
      /\ base.dosing = r.dosing /\ base.open \subseteq r.open
  <2>1. CASE stops
    BY <2>1, StopDevIs DEF Shut
  <2>2. CASE ~ stops
    <3>1. base = r
      BY <2>2
    <3>. HIDE DEF base
    <3>. QED BY <3>1 DEF SameWash
  <2>. QED BY <2>1, <2>2
<1>3. d = InitDosing(r.step, r.dosing)
  BY <1>2
<1>4. stops => on = FALSE
  BY <1>1, Zenon DEF RetPump
<1>5. on \in BOOLEAN
  BY <1>1, Zenon DEF RetPump
<1>16. x = [base EXCEPT !.forced = FALSE, !.open = o, !.ret = on, !.dosing = d]
  <2>1. base.step = r.step
    BY <1>2 DEF SameWash
  <2>. HIDE DEF base
  <2>. QED BY <1>1, <2>1 DEF Entered
<1>17. o \in InitOpen(r.step, base.open, r.prog, Configured(r))
  BY <1>1
<1>. HIDE DEF base, d, I, B
<1>6. base \in LineRecord /\ base.open \subseteq AllValves /\ r.prog \in Program
  BY <1>2 DEF SameWash, LineRecord, AllValves
<1>7. o \subseteq Station \cup TankValves
  BY <1>17, <1>6, InitApart, ConfiguredIs DEF AllValves
<1>8. x \in LineRecord
  BY <1>16, <1>3, <1>5, <1>6, <1>7 DEF LineRecord
<1>9. /\ x.step = base.step /\ x.part = base.part /\ x.prog = base.prog /\ x.obj = base.obj
      /\ x.open = o /\ x.dosing = d /\ x.state = base.state
  BY <1>16, <1>6 DEF LineRecord
<1>10. x.flags = base.flags /\ x.reset = base.reset /\ x.blocked = base.blocked
  BY <1>16, <1>6 DEF LineRecord
<1>11. x.forced = FALSE
  BY <1>16, <1>6 DEF LineRecord
<1>12. x.ret = on
  BY <1>16, <1>6 DEF LineRecord
<1>13. stops => x.ret = FALSE
  BY <1>4, <1>12
<1>14. \E b : b \subseteq r.open /\ x.open \in InitOpen(r.step, b, r.prog, Configured(r))
  BY <1>17, <1>2, <1>9
<1>. QED BY <1>2, <1>3, <1>8, <1>9, <1>10, <1>11, <1>13, <1>14 DEF IsEntered, SameWash

(* Only the two pumps of the concentrates are ever in the set.             *)
LEMMA DosersStay ==
    ASSUME NEW s, NEW d, d \subseteq Dosers
    PROVE  InitDosing(s, d) \subseteq Dosers
<1>1. (IF Work[s].to = "TANK_S" THEN "NS" ELSE "NK") \in Dosers
  BY DEF Dosers
<1>. DEFINE doser == IF Work[s].to = "TANK_S" THEN "NS" ELSE "NK"
<1>2. InitDosing(s, d) \in {d, d \cup {doser}, d \ {doser}}
  BY DEF InitDosing
<1>. HIDE DEF doser
<1>3. doser \in Dosers
  BY <1>1 DEF doser
<1>. QED BY <1>2, <1>3

(* DoStep changes the valves and the return pump, nothing else.            *)
IsRan(r, x) ==
    /\ SameWash(r, x) /\ x.state = r.state /\ x.blocked = r.blocked
    /\ x.forced = r.forced /\ x.dosing = r.dosing
    /\ x.open \in RunOpen(r.step, r.open, r.prog, Configured(r))

(* A scan of DoStep is one of IsRan.                                       *)
LEMMA RanIs ==
    ASSUME NEW r \in LineRecord, r.step \in Steps, NEW x \in Ran(r)
    PROVE  IsRan(r, x)
<1>1. PICK o \in RunOpen(r.step, r.open, r.prog, Configured(r)),
           on \in RetPump(r.ret, ~ r.forced /\ r.step # 0) : x = Going(r, o, on)
  BY DEF Ran
<1>2. on \in BOOLEAN
  <2>1. r.ret \in BOOLEAN
    BY DEF LineRecord
  <2>. QED BY <1>1, <2>1, Zenon DEF RetPump
<1>3. r.open \subseteq AllValves /\ r.prog \in Program
  BY DEF LineRecord, AllValves
<1>4. o \subseteq Station \cup TankValves
  BY <1>1, <1>3, RunApart, ConfiguredIs DEF AllValves
<1>5. x = [r EXCEPT !.open = o, !.ret = on]
  BY <1>1 DEF Going
<1>6. x \in LineRecord
  BY <1>2, <1>4, <1>5 DEF LineRecord
<1>7. /\ x.step = r.step /\ x.part = r.part /\ x.prog = r.prog /\ x.obj = r.obj
      /\ x.open = o /\ x.dosing = r.dosing /\ x.state = r.state
  BY <1>5 DEF LineRecord
<1>8. /\ x.flags = r.flags /\ x.reset = r.reset /\ x.blocked = r.blocked
      /\ x.forced = r.forced
  BY <1>5 DEF LineRecord
<1>. QED BY <1>1, <1>6, <1>7, <1>8 DEF IsRan, SameWash

(* A line at the next step.                                                *)
LEMMA AtStepIs ==
    ASSUME NEW r \in LineRecord, NEW n, n[1] \in Nat, n[2] \in Parts \cup {-1}, NEW x, x = AtStep(r, n)
    PROVE  /\ x \in LineRecord /\ x.step = n[1] /\ x.part = n[2] /\ x.state = "run"
           /\ x.prog = r.prog /\ x.obj = r.obj /\ x.open = r.open /\ x.dosing = r.dosing
           /\ x.flags = r.flags /\ x.reset = r.reset /\ x.blocked = r.blocked
<1>1. x = [r EXCEPT !.step = n[1], !.part = n[2], !.state = "run"]
  BY DEF AtStep
<1>. DEFINE s == n[1]  p == n[2]
<1>2. s \in Nat /\ p \in Parts \cup {-1}
  OBVIOUS
<1>. HIDE DEF s, p
<1>3. x = [r EXCEPT !.step = s, !.part = p, !.state = "run"]
  BY <1>1 DEF s, p
<1>4. x \in LineRecord
  BY <1>2, <1>3 DEF LineRecord, LineStates
<1>5. /\ x.step = s /\ x.part = p /\ x.state = "run"
      /\ x.prog = r.prog /\ x.obj = r.obj /\ x.open = r.open /\ x.dosing = r.dosing
  BY <1>3 DEF LineRecord
<1>6. x.flags = r.flags /\ x.reset = r.reset /\ x.blocked = r.blocked
  BY <1>3 DEF LineRecord
<1>. QED BY <1>4, <1>5, <1>6 DEF s, p

(* The steps are numbers, the last and the zeroth among them.              *)
LEMMA StepsAreNumbers == Steps \subseteq Nat /\ Done \in Steps /\ 0 \in Steps
BY StepsAre DEF ToObject, FromObject, EmptyObject, FillTank, Circulate, EmptyTank, Pump,
   Preparation, Done

(* Where a line stands.                                                    *)
Placed(r) ==
    /\ r.step \in Steps
    /\ r.step = 0 => r.part = -1
    /\ r.step \notin {0, Done} => r.part \in Parts /\ r.step \in StepsOfPart(r.part)
    /\ r.state = "idle" => r.step = 0
    /\ r.blocked <=> r.state = "blocked"
    /\ r.reset => r.step = Done

(* GoToStep: the next step is entered.                                     *)
GoesOn(r, x) ==
    \E n, b : /\ n = <<n[1], n[2]>> /\ n[1] \in Steps \ {0} /\ n[2] \in Parts \cup {-1}
              /\ Leads(n, r.step, r.part, r.prog)
              /\ r.step \in {109, 119} => n[1] = r.step - 3
              /\ b = AtStep(r, n) /\ b \in LineRecord /\ IsEntered(b, x)

(* GoToStep is one of GoesOn.                                              *)
LEMMA GoOnIs ==
    ASSUME NEW l, NEW r \in LineRecord, r.step \in Steps \ {Done},
           r.step # 0 => r.part \in Parts /\ r.step \in StepsOfPart(r.part),
           NEW a, NEW x \in GoOn(l, r, a)
    PROVE  GoesOn(r, x)
<1>1. PICK n \in Following(r.step, r.part, a, r.prog, Configured(r)) : x \in InitStep(l, AtStep(r, n))
  BY DEF GoOn
<1>2. r.prog \in Program /\ r.part \in Parts \cup {-1} /\ r.dosing \subseteq Dosers
  BY DEF LineRecord
<1>3. /\ n = <<n[1], n[2]>> /\ n[1] \in Steps \ {0} /\ n[2] \in Parts \cup {-1}
      /\ Leads(n, r.step, r.part, r.prog)
  BY <1>1, <1>2, FollowingLeads
<1>4. r.step \in {109, 119} => n[1] = r.step - 3
  <2>1. ASSUME r.step \in {109, 119} PROVE n = <<r.step - 3, r.part>>
    <3>1. r.step \notin LastSteps /\ r.step # 16
      BY <2>1 DEF LastSteps
    <3>2. StepChoices(r.step, a, r.prog, Configured(r)) = {r.step - 3}
      BY <2>1 DEF StepChoices, Jumps
    <3>. QED BY <1>1, <3>1, <3>2 DEF Following
  <2>2. ASSUME r.step \in {109, 119} PROVE n[1] = r.step - 3
    <3>1. <<r.step - 3, r.part>>[1] = r.step - 3
      OBVIOUS
    <3>. QED BY <2>1, <2>2, <3>1
  <2>. QED BY <2>2
<1>. DEFINE b == AtStep(r, n)
<1>5. n[1] \in Nat
  BY <1>3, StepsAreNumbers
<1>6. b \in LineRecord /\ b.step = n[1] /\ b.dosing = r.dosing
  BY <1>3, <1>5, AtStepIs
<1>. HIDE DEF b
<1>7. x \in InitStep(l, b)
  BY <1>1 DEF b
<1>8. b.step \in Steps /\ InitDosing(b.step, b.dosing) \subseteq Dosers
  BY <1>2, <1>3, <1>6, DosersStay
<1>9. IsEntered(b, x)
  BY <1>6, <1>7, <1>8, InitStepIs
<1>. QED BY <1>3, <1>4, <1>6, <1>9 DEF GoesOn, b

(***************************************************************************)
(* The actions, as what they do to a line r that becomes x.                *)
(***************************************************************************)
(* The line is where it was.                                               *)
SamePlace(r, x) ==
    /\ x \in LineRecord /\ x.step = r.step /\ x.part = r.part
    /\ x.prog = r.prog /\ x.obj = r.obj /\ x.reset = r.reset

(* It stands: stopped now, or as it stood before.                          *)
Rests(r, x) ==
    /\ SamePlace(r, x) /\ x.state # "run" /\ (x.state = "idle" => r.step = 0)
    /\ x.blocked <=> x.state = "blocked"
    /\ \/ /\ x.ret = FALSE /\ x.open \subseteq r.open \cap (Returns \cup TankValves)
          /\ IF r.state = "run" THEN Undosed(r, x) ELSE x.dosing = r.dosing
       \/ /\ x.open = r.open /\ x.dosing = r.dosing /\ x.ret = r.ret /\ x.forced = r.forced
          /\ r.state # "run" \/ "stray" \in plan.commands
(* The operator forces the return pump.                                    *)
Forced(r, x) ==
    /\ SameWash(r, x) /\ x.state = r.state /\ x.blocked = r.blocked /\ x.open = r.open
    /\ x.dosing = r.dosing /\ x.forced = TRUE
(* A recipe or a program is chosen.                                        *)
Chooses(r, x) ==
    /\ x \in LineRecord /\ x.step = r.step /\ x.part = r.part /\ x.state = r.state
    /\ x.blocked = r.blocked /\ x.reset = r.reset /\ x.open = r.open /\ x.dosing = r.dosing
    /\ x.ret = r.ret /\ x.forced = r.forced /\ x.flags = r.flags
    /\ x.prog = r.prog \/ r.state = "idle" \/ "reselect" \in plan.commands
    /\ x.obj = r.obj \/ r.state = "idle" \/ "reload" \in plan.commands
    /\ x.obj = r.obj \/ x.obj \in plan.recipes
    /\ x.prog \in plan.programs \cup {NoProgram, r.prog}
(* Its step, or the last one, is entered anew.                             *)
Enters(r, x) ==
    \E b \in LineRecord :
       /\ IsEntered(b, x) /\ b.state = "run" /\ ~ b.blocked /\ b.part = r.part
       /\ b.prog = r.prog /\ b.obj = r.obj /\ b.open \subseteq r.open
       /\ \/ b.step = r.step /\ b.reset = r.reset /\ b.dosing = r.dosing /\ r.state # "run"
          \/ b.step = Done /\ Undosed(r, b)
(* A scan, and the next step.                                              *)
Advances(r, x) ==
    \E q : (q = r \/ IsRan(r, q)) /\ q.step # Done /\ ~ q.blocked /\ GoesOn(q, x)
(* The wash is over.                                                       *)
IsOver(r, x) ==
    /\ r.state = "run" /\ r.step = Done
    /\ x \in LineRecord /\ x.state = "idle" /\ x.step = 0 /\ x.part = -1 /\ ~ x.blocked
    /\ x.ret = FALSE /\ ~ x.reset /\ x.prog = NoProgram /\ x.obj = r.obj
    /\ x.open \subseteq TankValves /\ x.dosing = r.dosing

Outcome(r, x) ==
    \/ Rests(r, x) \/ Forced(r, x) \/ Chooses(r, x) \/ Enters(r, x)
    \/ Advances(r, x) \/ (IsRan(r, x) /\ r.state = "run" /\ r.step # Done) \/ IsOver(r, x)

(* Another state of the record, the rest as it is.                         *)
LEMMA StateSet ==
    ASSUME NEW r \in LineRecord, NEW s \in LineStates, NEW x, x = [r EXCEPT !.state = s]
    PROVE  /\ SameWash(r, x) /\ x.state = s /\ x.blocked = r.blocked /\ x.open = r.open
           /\ x.dosing = r.dosing /\ x.ret = r.ret /\ x.forced = r.forced
<1>1. x \in LineRecord
  BY DEF LineRecord
<1>2. /\ x.step = r.step /\ x.part = r.part /\ x.prog = r.prog /\ x.obj = r.obj
      /\ x.open = r.open /\ x.dosing = r.dosing /\ x.state = s
  BY DEF LineRecord
<1>3. /\ x.flags = r.flags /\ x.reset = r.reset /\ x.blocked = r.blocked
      /\ x.ret = r.ret /\ x.forced = r.forced
  BY DEF LineRecord
<1>. QED BY <1>1, <1>2, <1>3 DEF SameWash

(* LineBecomes takes one of the records.                                   *)
LEMMA BecomesOne ==
    ASSUME NEW l, NEW S, LineBecomes(l, S)
    PROVE  \E x \in S : line' = [line EXCEPT ![l] = x]
BY DEF LineBecomes

(* Locking: the line is stopped where it is.                               *)
LEMMA LockIs ==
    ASSUME NEW l, line[l] \in LineRecord, Lock(l)
    PROVE  \E x : Rests(line[l], x) /\ line' = [line EXCEPT ![l] = x]
<1>. DEFINE r0 == line[l]
            r == [r0 EXCEPT !.blocked = TRUE]
            stopped == IF r.state = "run" THEN Stop(l, r) ELSE r
            b == [stopped EXCEPT !.state = "blocked"]
            x == StopDev(l, b)
<1>1. line' = [line EXCEPT ![l] = x]
  BY DEF Lock, LineBecomes
<1>2. r0 \in LineRecord
  OBVIOUS
<1>. HIDE DEF r0
<1>3. /\ SameWash(r0, r) /\ r.state = r0.state /\ r.blocked = TRUE
      /\ r.open = r0.open /\ r.dosing = r0.dosing
  <2>1. r \in LineRecord
    BY <1>2 DEF LineRecord
  <2>2. /\ r.step = r0.step /\ r.part = r0.part /\ r.prog = r0.prog /\ r.obj = r0.obj
        /\ r.open = r0.open /\ r.dosing = r0.dosing /\ r.state = r0.state
    BY <1>2 DEF LineRecord
  <2>3. r.flags = r0.flags /\ r.reset = r0.reset /\ r.blocked = TRUE
    BY <1>2 DEF LineRecord
  <2>. QED BY <2>1, <2>2, <2>3 DEF SameWash
<1>. HIDE DEF r
<1>4. r \in LineRecord
  BY <1>3 DEF SameWash
<1>5. /\ SameWash(r, stopped) /\ stopped.blocked = TRUE
      /\ r.state = "run" => Undosed(r, stopped)
      /\ r.state # "run" => stopped = r
      /\ stopped.open \subseteq r.open
  <2>1. CASE r.state = "run"
    <3>1. stopped = Stop(l, r)
      BY <2>1
    <3>. HIDE DEF stopped
    <3>. QED BY <1>3, <1>4, <2>1, <3>1, StopIs DEF Shut
  <2>2. CASE r.state # "run"
    <3>1. stopped = r
      BY <2>2
    <3>. HIDE DEF stopped
    <3>. QED BY <1>3, <1>4, <2>2, <3>1 DEF SameWash
  <2>. QED BY <2>1, <2>2
<1>. HIDE DEF stopped
<1>6. stopped \in LineRecord
  BY <1>5 DEF SameWash
<1>7. /\ SameWash(stopped, b) /\ b.state = "blocked" /\ b.blocked = stopped.blocked
      /\ b.open = stopped.open /\ b.dosing = stopped.dosing
  BY <1>6, StateSet DEF LineStates
<1>. HIDE DEF b
<1>8. b \in LineRecord
  BY <1>7 DEF SameWash
<1>9. SameWash(b, x) /\ Shut(b, x) /\ x.blocked = b.blocked /\ x.state = b.state /\ x.dosing = b.dosing
  BY <1>8, StopDevIs
<1>. HIDE DEF x
<1>10. SamePlace(r0, x)
  BY <1>3, <1>5, <1>7, <1>9 DEF SameWash, SamePlace
<1>11. IF r0.state = "run" THEN Undosed(r0, x) ELSE x.dosing = r0.dosing
  BY <1>3, <1>5, <1>7, <1>9 DEF Undosed, SameWash
<1>12. Rests(r0, x)
  <2>1. x.state = "blocked" /\ x.blocked = TRUE
    BY <1>5, <1>7, <1>9
  <2>2. x.ret = FALSE /\ x.open \subseteq r0.open \cap (Returns \cup TankValves)
    BY <1>3, <1>5, <1>7, <1>9 DEF Shut
  <2>. QED BY <1>10, <1>11, <2>1, <2>2 DEF Rests
<1>. QED BY <1>1, <1>12 DEF r0

(* Unlocking: it stands in a pause, or is idle; an unlock of a line that   *)
(* is not locked leaves its devices as they run.                           *)
LEMMA UnlockIs ==
    ASSUME NEW l, line[l] \in LineRecord, Placed(line[l]), Unlock(l)
    PROVE  \E x : Rests(line[l], x) /\ line' = [line EXCEPT ![l] = x]
<1>. DEFINE r == line[l]
            s == IF r.step > 0 THEN "paused" ELSE "idle"
            x == [r EXCEPT !.blocked = FALSE, !.state = s]
<1>1. line' = [line EXCEPT ![l] = x]
  BY DEF Unlock, LineBecomes
<1>2. r \in LineRecord /\ r.step \in Nat
  BY DEF LineRecord
<1>3. r.blocked \/ "stray" \in plan.commands
  BY DEF Unlock
<1>4. r.blocked <=> r.state = "blocked"
  BY DEF Placed
<1>. HIDE DEF r
<1>5. s \in LineStates /\ s # "run" /\ s # "blocked" /\ (s = "idle" => r.step = 0)
  BY <1>2 DEF LineStates
<1>. HIDE DEF s
<1>6. x \in LineRecord
  BY <1>2, <1>5 DEF LineRecord
<1>7. /\ x.step = r.step /\ x.part = r.part /\ x.prog = r.prog /\ x.obj = r.obj
      /\ x.open = r.open /\ x.dosing = r.dosing /\ x.state = s
  BY <1>2 DEF LineRecord
<1>8. x.reset = r.reset /\ x.ret = r.ret /\ x.forced = r.forced /\ x.blocked = FALSE
  BY <1>2 DEF LineRecord
<1>. HIDE DEF x
<1>9. r.state # "run" \/ "stray" \in plan.commands
  <2>1. CASE r.blocked
    <3>1. r.state = "blocked"
      BY <1>4, <2>1
    <3>. QED BY <3>1
  <2>2. CASE ~ r.blocked
    BY <1>3, <2>2
  <2>. QED BY <2>1, <2>2
<1>10. SamePlace(r, x)
  BY <1>6, <1>7, <1>8 DEF SamePlace
<1>11. Rests(r, x)
  BY <1>5, <1>7, <1>8, <1>9, <1>10 DEF Rests
<1>. QED BY <1>1, <1>11 DEF r

(* Choosing a recipe or a program.                                         *)
LEMMA SelectIs ==
    ASSUME NEW l, line[l] \in LineRecord, plan \in Plans, Select(l)
    PROVE  \E x : Chooses(line[l], x) /\ line' = [line EXCEPT ![l] = x]
<1>1. plan.recipes \subseteq Recipe /\ plan.programs \subseteq Program
  BY PlansAssumption
<1>. DEFINE r == line[l]
<1>3. ASSUME NEW o \in plan.recipes, r.state = "idle" \/ "reload" \in plan.commands,
             LineBecomes(l, {[r EXCEPT !.obj = o, !.hasRecipe = TRUE]})
      PROVE  \E x : Chooses(r, x) /\ line' = [line EXCEPT ![l] = x]
  <2>. DEFINE x == [r EXCEPT !.obj = o, !.hasRecipe = TRUE]
  <2>1. line' = [line EXCEPT ![l] = x]
    BY <1>3 DEF LineBecomes
  <2>2. r \in LineRecord
    OBVIOUS
  <2>. HIDE DEF r
  <2>3. x \in LineRecord
    BY <1>1, <2>2 DEF LineRecord
  <2>4. /\ x.step = r.step /\ x.part = r.part /\ x.prog = r.prog /\ x.obj = o
        /\ x.open = r.open /\ x.dosing = r.dosing /\ x.state = r.state
    BY <2>2 DEF LineRecord
  <2>5. /\ x.reset = r.reset /\ x.ret = r.ret /\ x.forced = r.forced /\ x.blocked = r.blocked
        /\ x.flags = r.flags
    BY <2>2 DEF LineRecord
  <2>. HIDE DEF x
  <2>6. Chooses(r, x)
    BY <1>3, <2>3, <2>4, <2>5 DEF Chooses
  <2>. QED BY <2>1, <2>6
<1>4. ASSUME NEW p \in plan.programs, r.state = "idle" \/ "reselect" \in plan.commands,
             LineBecomes(l, {[r EXCEPT !.prog = p]})
      PROVE  \E x : Chooses(r, x) /\ line' = [line EXCEPT ![l] = x]
  <2>. DEFINE x == [r EXCEPT !.prog = p]
  <2>1. line' = [line EXCEPT ![l] = x]
    BY <1>4 DEF LineBecomes
  <2>2. r \in LineRecord
    OBVIOUS
  <2>. HIDE DEF r
  <2>3. x \in LineRecord
    BY <1>1, <2>2 DEF LineRecord
  <2>4. /\ x.step = r.step /\ x.part = r.part /\ x.obj = r.obj /\ x.prog = p
        /\ x.open = r.open /\ x.dosing = r.dosing /\ x.state = r.state
    BY <2>2 DEF LineRecord
  <2>5. /\ x.reset = r.reset /\ x.ret = r.ret /\ x.forced = r.forced /\ x.blocked = r.blocked
        /\ x.flags = r.flags
    BY <2>2 DEF LineRecord
  <2>. HIDE DEF x
  <2>6. Chooses(r, x)
    BY <1>4, <2>3, <2>4, <2>5 DEF Chooses
  <2>. QED BY <2>1, <2>6
<1>. QED BY <1>3, <1>4 DEF Select

(* A pause: the line is stopped where it is.                               *)
LEMMA PauseIs ==
    ASSUME NEW l, line[l] \in LineRecord, Placed(line[l]), Pause(l)
    PROVE  \E x : Rests(line[l], x) /\ line' = [line EXCEPT ![l] = x]
<1>. DEFINE r == line[l]  b == Stop(l, r)  x == [b EXCEPT !.state = "paused"]
<1>1. line' = [line EXCEPT ![l] = x] /\ r.state = "run"
  BY DEF Pause, LineBecomes
<1>2. /\ SameWash(r, b) /\ Shut(r, b) /\ Undosed(r, b) /\ b.blocked = r.blocked
  BY StopIs
<1>3. r.blocked <=> r.state = "blocked"
  BY DEF Placed
<1>. HIDE DEF r, b
<1>4. b \in LineRecord
  BY <1>2 DEF SameWash
<1>5. /\ SameWash(b, x) /\ x.state = "paused" /\ x.blocked = b.blocked /\ x.open = b.open
      /\ x.dosing = b.dosing /\ x.ret = b.ret
  BY <1>4, StateSet DEF LineStates
<1>. HIDE DEF x
<1>6. SamePlace(r, x)
  BY <1>2, <1>5 DEF SameWash, SamePlace
<1>7. x.ret = FALSE /\ x.open \subseteq r.open \cap (Returns \cup TankValves)
  BY <1>2, <1>5 DEF Shut
<1>8. Undosed(r, x)
  BY <1>2, <1>5 DEF Undosed
<1>9. x.blocked <=> x.state = "blocked"
  BY <1>1, <1>2, <1>3, <1>5
<1>10. Rests(r, x)
  BY <1>1, <1>5, <1>6, <1>7, <1>8, <1>9 DEF Rests
<1>. QED BY <1>1, <1>10 DEF r

(* A failure of a step: the line is stopped where it is.                   *)
LEMMA StepFailsIs ==
    ASSUME NEW l, line[l] \in LineRecord, Placed(line[l]), StepFails(l)
    PROVE  \E x : Rests(line[l], x) /\ line' = [line EXCEPT ![l] = x]
<1>. DEFINE r == line[l]
<1>0. PICK f \in {"object", "error"} :
        LineBecomes(l, {[Stop(l, [r EXCEPT !.state = f]) EXCEPT !.state = f]})
  BY DEF StepFails
<1>. DEFINE q == [r EXCEPT !.state = f]  b == Stop(l, q)  x == [b EXCEPT !.state = f]
<1>1. line' = [line EXCEPT ![l] = x] /\ r.state = "run"
  BY <1>0 DEF StepFails, LineBecomes
<1>2. r.blocked <=> r.state = "blocked"
  BY DEF Placed
<1>3. f \in LineStates /\ f # "run" /\ f # "idle" /\ f # "blocked"
  BY DEF LineStates
<1>4. r \in LineRecord
  OBVIOUS
<1>. HIDE DEF r
<1>5. /\ SameWash(r, q) /\ q.blocked = r.blocked /\ q.open = r.open /\ q.dosing = r.dosing
  BY <1>3, <1>4, StateSet
<1>. HIDE DEF q
<1>6. q \in LineRecord
  BY <1>5 DEF SameWash
<1>7. /\ SameWash(q, b) /\ Shut(q, b) /\ Undosed(q, b) /\ b.blocked = q.blocked
  BY <1>6, StopIs
<1>. HIDE DEF b
<1>8. b \in LineRecord
  BY <1>7 DEF SameWash
<1>9. /\ SameWash(b, x) /\ x.state = f /\ x.blocked = b.blocked /\ x.open = b.open
      /\ x.dosing = b.dosing /\ x.ret = b.ret
  BY <1>3, <1>8, StateSet
<1>. HIDE DEF x
<1>10. SamePlace(r, x)
  BY <1>5, <1>7, <1>9 DEF SameWash, SamePlace
<1>11. x.ret = FALSE /\ x.open \subseteq r.open \cap (Returns \cup TankValves)
  BY <1>5, <1>7, <1>9 DEF Shut
<1>12. Undosed(r, x)
  BY <1>5, <1>7, <1>9 DEF Undosed, SameWash
<1>13. x.blocked <=> x.state = "blocked"
  BY <1>1, <1>2, <1>3, <1>5, <1>7, <1>9
<1>14. Rests(r, x)
  BY <1>1, <1>3, <1>9, <1>10, <1>11, <1>12, <1>13 DEF Rests
<1>. QED BY <1>1, <1>14 DEF r

(* Forcing the return pump.                                                *)
LEMMA ForceRetIs ==
    ASSUME NEW l, line[l] \in LineRecord, ForceRet(l)
    PROVE  \E x : Forced(line[l], x) /\ line' = [line EXCEPT ![l] = x]
<1>. DEFINE r == line[l]
<1>1. PICK on \in BOOLEAN : LineBecomes(l, {[r EXCEPT !.ret = on, !.forced = TRUE]})
  BY DEF ForceRet
<1>. DEFINE x == [r EXCEPT !.ret = on, !.forced = TRUE]
<1>2. line' = [line EXCEPT ![l] = x]
  BY <1>1 DEF LineBecomes
<1>3. r \in LineRecord
  OBVIOUS
<1>. HIDE DEF r
<1>4. x \in LineRecord
  BY <1>3 DEF LineRecord
<1>5. /\ x.step = r.step /\ x.part = r.part /\ x.prog = r.prog /\ x.obj = r.obj
      /\ x.open = r.open /\ x.dosing = r.dosing /\ x.state = r.state
  BY <1>3 DEF LineRecord
<1>6. /\ x.reset = r.reset /\ x.forced = TRUE /\ x.blocked = r.blocked
      /\ x.flags = r.flags
  BY <1>3 DEF LineRecord
<1>. HIDE DEF x
<1>7. Forced(r, x)
  BY <1>4, <1>5, <1>6 DEF Forced, SameWash
<1>. QED BY <1>2, <1>7 DEF r

(* The operator skips the step.                                            *)
LEMMA NextStepIs ==
    ASSUME NEW l, line[l] \in LineRecord, Placed(line[l]), NextStep(l)
    PROVE  \E x : Advances(line[l], x) /\ line' = [line EXCEPT ![l] = x]
<1>. DEFINE r == line[l]
<1>1. /\ LineBecomes(l, GoOn(l, r, 0)) /\ ~ r.blocked /\ r.step # Done
  BY DEF NextStep
<1>2. PICK x \in GoOn(l, r, 0) : line' = [line EXCEPT ![l] = x]
  BY <1>1, BecomesOne
<1>3. /\ r \in LineRecord /\ r.step \in Steps \ {Done}
      /\ r.step # 0 => r.part \in Parts /\ r.step \in StepsOfPart(r.part)
  BY <1>1 DEF Placed
<1>. HIDE DEF r
<1>4. GoesOn(r, x)
  BY <1>2, <1>3, GoOnIs
<1>5. Advances(r, x)
  BY <1>1, <1>4 DEF Advances
<1>. QED BY <1>2, <1>5 DEF r

(* A step is over: a scan, and the next step.                              *)
LEMMA StepIsOverIs ==
    ASSUME NEW l, line[l] \in LineRecord, Placed(line[l]), StepIsOver(l)
    PROVE  \E x : Advances(line[l], x) /\ line' = [line EXCEPT ![l] = x]
<1>. DEFINE r == line[l]
<1>1. PICK q \in Ran(r), a \in Answers(r.step) : LineBecomes(l, GoOn(l, q, a))
  BY DEF StepIsOver
<1>2. r.state = "run" /\ r.step \in Steps \ {Done}
  BY DEF StepIsOver
<1>3. PICK x \in GoOn(l, q, a) : line' = [line EXCEPT ![l] = x]
  BY <1>1, BecomesOne
<1>4. /\ r \in LineRecord
      /\ r.step # 0 => r.part \in Parts /\ r.step \in StepsOfPart(r.part)
  BY <1>2 DEF Placed
<1>5. r.blocked <=> r.state = "blocked"
  BY DEF Placed
<1>. HIDE DEF r
<1>6. IsRan(r, q)
  BY <1>1, <1>2, <1>4, RanIs
<1>7. /\ q \in LineRecord /\ q.step = r.step /\ q.part = r.part
      /\ q.blocked = r.blocked
  BY <1>6 DEF IsRan, SameWash
<1>8. GoesOn(q, x)
  BY <1>2, <1>3, <1>4, <1>7, GoOnIs
<1>9. ~ q.blocked
  BY <1>2, <1>5, <1>7
<1>10. Advances(r, x)
  BY <1>2, <1>6, <1>7, <1>8, <1>9 DEF Advances
<1>. QED BY <1>3, <1>10 DEF r

(* A step goes on: a scan.                                                 *)
LEMMA StepGoesOnIs ==
    ASSUME NEW l, line[l] \in LineRecord, Placed(line[l]), StepGoesOn(l)
    PROVE  \E x : /\ IsRan(line[l], x) /\ line[l].state = "run" /\ line[l].step # Done
                  /\ line' = [line EXCEPT ![l] = x]
<1>. DEFINE r == line[l]
<1>1. LineBecomes(l, Ran(r)) /\ r.state = "run" /\ r.step \in Steps \ {Done}
  BY DEF StepGoesOn
<1>2. PICK x \in Ran(r) : line' = [line EXCEPT ![l] = x]
  BY <1>1, BecomesOne
<1>3. IsRan(r, x)
  BY <1>1, <1>2, RanIs
<1>. QED BY <1>1, <1>2, <1>3

(* A line that is put to work at a step enters it.                         *)
LEMMA EntersStep ==
    ASSUME NEW l, NEW r, NEW b \in LineRecord, b.step \in Steps, NEW x \in InitStep(l, b),
           b.state = "run", ~ b.blocked, b.part = r.part, b.prog = r.prog, b.obj = r.obj,
           b.open \subseteq r.open,
           \/ b.step = r.step /\ b.reset = r.reset /\ b.dosing = r.dosing /\ r.state # "run"
           \/ b.step = Done /\ Undosed(r, b)
    PROVE  Enters(r, x)
<1>1. b.dosing \subseteq Dosers
  BY DEF LineRecord
<1>2. IsEntered(b, x)
  BY <1>1, DosersStay, InitStepIs
<1>. QED BY <1>2 DEF Enters

(* No program is a program without parts.                                  *)
LEMMA NoProgramIsProgram == NoProgram \in Program
BY DEF NoProgram, Program

(* A reset: the line is stopped and enters the last step, or, when it is   *)
(* idle, forgets its program.                                              *)
LEMMA ResetIs ==
    ASSUME NEW l, line[l] \in LineRecord, Placed(line[l]), Reset(l)
    PROVE  \E x : /\ Enters(line[l], x) \/ Chooses(line[l], x)
                  /\ line' = [line EXCEPT ![l] = x]
<1>. DEFINE r == line[l]
<1>1. CASE r.state # "idle"
  <2>. DEFINE q == Stop(l, r)
              b == [q EXCEPT !.step = Done, !.reset = TRUE, !.state = "run"]
  <2>1. ~ r.blocked /\ LineBecomes(l, InitStep(l, b))
    BY <1>1 DEF Reset
  <2>2. PICK x \in InitStep(l, b) : line' = [line EXCEPT ![l] = x]
    BY <2>1, BecomesOne
  <2>3. SameWash(r, q) /\ Shut(r, q) /\ Undosed(r, q) /\ q.blocked = r.blocked
    BY StopIs
  <2>. HIDE DEF r, q
  <2>4. q \in LineRecord /\ Done \in Nat /\ Done \in Steps
    BY <2>3, StepsAreNumbers DEF SameWash
  <2>5. b \in LineRecord
    BY <2>4 DEF LineRecord, LineStates
  <2>6. /\ b.step = Done /\ b.state = "run" /\ b.part = q.part /\ b.prog = q.prog
        /\ b.obj = q.obj /\ b.open = q.open /\ b.dosing = q.dosing
    BY <2>4 DEF LineRecord
  <2>7. b.blocked = q.blocked
    BY <2>4 DEF LineRecord
  <2>. HIDE DEF b
  <2>8. ~ b.blocked
    BY <2>1, <2>3, <2>7
  <2>9. /\ b.part = r.part /\ b.prog = r.prog /\ b.obj = r.obj /\ b.open \subseteq r.open
        /\ Undosed(r, b)
    BY <2>3, <2>6 DEF SameWash, Shut, Undosed
  <2>10. Enters(r, x)
    BY <2>2, <2>4, <2>5, <2>6, <2>8, <2>9, EntersStep
  <2>. QED BY <2>2, <2>10 DEF r
<1>2. CASE r.state = "idle"
  <2>. DEFINE x == [r EXCEPT !.prog = NoProgram, !.hasRecipe = FALSE]
  <2>1. line' = [line EXCEPT ![l] = x]
    BY <1>2 DEF Reset, LineBecomes
  <2>2. r \in LineRecord
    OBVIOUS
  <2>. HIDE DEF r
  <2>3. x \in LineRecord
    BY <2>2, NoProgramIsProgram DEF LineRecord
  <2>4. /\ x.step = r.step /\ x.part = r.part /\ x.obj = r.obj /\ x.prog = NoProgram
        /\ x.open = r.open /\ x.dosing = r.dosing /\ x.state = r.state
    BY <2>2 DEF LineRecord
  <2>5. /\ x.reset = r.reset /\ x.ret = r.ret /\ x.forced = r.forced /\ x.blocked = r.blocked
        /\ x.flags = r.flags
    BY <2>2 DEF LineRecord
  <2>. HIDE DEF x
  <2>6. Chooses(r, x)
    BY <1>2, <2>3, <2>4, <2>5 DEF Chooses
  <2>. QED BY <2>1, <2>6 DEF r
<1>. QED BY <1>1, <1>2

(* The object is ready again: its step is entered anew.                    *)
LEMMA ObjectReadyIs ==
    ASSUME NEW l, line[l] \in LineRecord, Placed(line[l]), ObjectReady(l)
    PROVE  \E x : Enters(line[l], x) /\ line' = [line EXCEPT ![l] = x]
<1>. DEFINE r == line[l]  b == [r EXCEPT !.state = "run"]
<1>1. r.state = "object" /\ LineBecomes(l, InitStep(l, b))
  BY DEF ObjectReady
<1>2. PICK x \in InitStep(l, b) : line' = [line EXCEPT ![l] = x]
  BY <1>1, BecomesOne
<1>3. r \in LineRecord /\ r.step \in Steps
  BY DEF Placed
<1>4. r.blocked <=> r.state = "blocked"
  BY DEF Placed
<1>. HIDE DEF r
<1>5. /\ SameWash(r, b) /\ b.state = "run" /\ b.blocked = r.blocked /\ b.open = r.open
      /\ b.dosing = r.dosing
  BY <1>3, StateSet DEF LineStates
<1>. HIDE DEF b
<1>6. ~ b.blocked
  BY <1>1, <1>4, <1>5
<1>7. Enters(r, x)
  BY <1>1, <1>2, <1>3, <1>5, <1>6, EntersStep DEF SameWash
<1>. QED BY <1>2, <1>7 DEF r

(* init_object_devices sets the flags, the rest stays as it is.            *)
LEMMA FlagsSet ==
    ASSUME NEW r \in LineRecord, NEW x, x = WithFlags(r)
    PROVE  /\ SamePlace(r, x) /\ x.state = r.state /\ x.blocked = r.blocked /\ x.open = r.open
           /\ x.dosing = r.dosing /\ x.ret = r.ret /\ x.forced = r.forced
<1>. DEFINE f == [circ |-> r.obj.circ, feed |-> r.obj.feed, noStop |-> r.obj.noStop]
<1>1. r.obj \in Recipe
  BY DEF LineRecord
<1>2. f \in Flags
  BY <1>1 DEF Recipe, Flags
<1>3. x = [r EXCEPT !.flags = f]
  BY DEF WithFlags
<1>. HIDE DEF f
<1>4. x \in LineRecord
  BY <1>2, <1>3 DEF LineRecord
<1>5. /\ x.step = r.step /\ x.part = r.part /\ x.prog = r.prog /\ x.obj = r.obj
      /\ x.open = r.open /\ x.dosing = r.dosing /\ x.state = r.state
  BY <1>3 DEF LineRecord
<1>6. /\ x.reset = r.reset /\ x.blocked = r.blocked /\ x.ret = r.ret /\ x.forced = r.forced
  BY <1>3 DEF LineRecord
<1>. QED BY <1>4, <1>5, <1>6 DEF SamePlace

(* A line that stood and stands in another state.                          *)
LEMMA StandsStill ==
    ASSUME NEW r \in LineRecord, NEW q, NEW s \in LineStates, NEW x, x = [q EXCEPT !.state = s],
           SamePlace(r, q), q.blocked = r.blocked, q.open = r.open, q.dosing = r.dosing,
           q.ret = r.ret, q.forced = r.forced,
           r.state # "run", ~ r.blocked, s \notin {"run", "idle", "blocked"}
    PROVE  Rests(r, x)
<1>1. q \in LineRecord
  BY DEF SamePlace
<1>2. /\ SameWash(q, x) /\ x.state = s /\ x.blocked = q.blocked /\ x.open = q.open
      /\ x.dosing = q.dosing /\ x.ret = q.ret /\ x.forced = q.forced
  BY <1>1, StateSet
<1>3. SamePlace(r, x)
  BY <1>2 DEF SamePlace, SameWash
<1>4. ~ x.blocked
  BY <1>2
<1>5. x.ret = r.ret /\ x.forced = r.forced
  BY <1>2
<1>6. x.open = r.open /\ x.dosing = r.dosing /\ x.state = s
  BY <1>2
<1>. QED BY <1>3, <1>4, <1>5, <1>6 DEF Rests

(* A line that stands is resumed: its step is entered anew, or it stands   *)
(* because its recipe is wrong or the acid is overdue.                     *)
LEMMA ResumeIs ==
    ASSUME NEW l, line[l] \in LineRecord, Placed(line[l]), Resume(l)
    PROVE  \E x : /\ Enters(line[l], x) \/ Rests(line[l], x)
                  /\ line' = [line EXCEPT ![l] = x]
<1>. DEFINE r == line[l]
            q == WithFlags(r)
<1>0. /\ r.state \notin {"idle", "run"} /\ ~ r.blocked
      /\ \E wrong \in WrongObject(q) :
           LineBecomes(l, CASE wrong -> {[q EXCEPT !.state = "wrong"]}
                         [] ~ wrong /\ q.state = "acid" -> {q}
                         [] OTHER -> InitStep(l, [q EXCEPT !.state = "run"]))
  BY DEF Resume
<1>1. \/ LineBecomes(l, {[q EXCEPT !.state = "wrong"]})
      \/ LineBecomes(l, {q})
      \/ LineBecomes(l, InitStep(l, [q EXCEPT !.state = "run"]))
  <2>1. PICK wrong \in WrongObject(q) :
           LineBecomes(l, CASE wrong -> {[q EXCEPT !.state = "wrong"]}
                         [] ~ wrong /\ q.state = "acid" -> {q}
                         [] OTHER -> InitStep(l, [q EXCEPT !.state = "run"]))
    BY <1>0
  <2>2. CASE wrong
    BY <2>1, <2>2
  <2>3. CASE ~ wrong /\ q.state = "acid"
    BY <2>1, <2>3
  <2>4. CASE ~ wrong /\ q.state # "acid"
    BY <2>1, <2>4
  <2>. QED BY <2>2, <2>3, <2>4
<1>2. r \in LineRecord /\ r.step \in Steps /\ (r.blocked <=> r.state = "blocked")
  BY DEF Placed
<1>. HIDE DEF r
<1>3. /\ SamePlace(r, q) /\ q.state = r.state /\ q.blocked = r.blocked /\ q.open = r.open
      /\ q.dosing = r.dosing /\ q.ret = r.ret /\ q.forced = r.forced
  BY <1>2, FlagsSet
<1>. HIDE DEF q
<1>4. q \in LineRecord
  BY <1>3 DEF SamePlace
<1>5. CASE LineBecomes(l, {[q EXCEPT !.state = "wrong"]})
  <2>. DEFINE x == [q EXCEPT !.state = "wrong"]
  <2>1. line' = [line EXCEPT ![l] = x]
    BY <1>5 DEF LineBecomes
  <2>2. Rests(r, x)
    <3>. HIDE DEF x
    <3>1. x = [q EXCEPT !.state = "wrong"] /\ "wrong" \in LineStates
      BY DEF x, LineStates
    <3>. QED BY <1>0, <1>2, <1>3, <3>1, StandsStill
  <2>. QED BY <2>1, <2>2 DEF r
<1>6. CASE LineBecomes(l, {q})
  <2>1. line' = [line EXCEPT ![l] = q]
    BY <1>6 DEF LineBecomes
  <2>2. Rests(r, q)
    BY <1>0, <1>2, <1>3 DEF Rests
  <2>. QED BY <2>1, <2>2 DEF r
<1>7. CASE LineBecomes(l, InitStep(l, [q EXCEPT !.state = "run"]))
  <2>. DEFINE b == [q EXCEPT !.state = "run"]
  <2>1. PICK x \in InitStep(l, b) : line' = [line EXCEPT ![l] = x]
    BY <1>7, BecomesOne
  <2>2. /\ SameWash(q, b) /\ b.state = "run" /\ b.blocked = q.blocked /\ b.open = q.open
        /\ b.dosing = q.dosing
    BY <1>4, StateSet DEF LineStates
  <2>. HIDE DEF b
  <2>3. ~ b.blocked
    BY <1>0, <1>3, <2>2
  <2>4. /\ b \in LineRecord /\ b.step = r.step /\ b.part = r.part /\ b.prog = r.prog
        /\ b.obj = r.obj /\ b.reset = r.reset /\ b.open = r.open /\ b.dosing = r.dosing
    BY <1>3, <2>2 DEF SameWash, SamePlace
  <2>5. Enters(r, x)
    BY <1>0, <1>2, <2>1, <2>2, <2>3, <2>4, EntersStep
  <2>. QED BY <2>1, <2>5 DEF r
<1>. QED BY <1>1, <1>5, <1>6, <1>7

(* A start: the zeroth step is entered, or the line stands for a conflict, *)
(* a wrong recipe or the acid.                                             *)
LEMMA StartIs ==
    ASSUME NEW l, line[l] \in LineRecord, Placed(line[l]), Start(l)
    PROVE  \E x : /\ Enters(line[l], x) \/ Rests(line[l], x)
                  /\ line' = [line EXCEPT ![l] = x]
<1>. DEFINE r == line[l]
            clear == [r EXCEPT !.conflict = FALSE]
            ready == WithFlags(clear)
            c == [r EXCEPT !.conflict = TRUE]
            b == [ready EXCEPT !.state = "run"]
<1>1. r.state = "idle" /\ ~ r.blocked
  BY DEF Start
<1>2. \/ LineBecomes(l, {[r EXCEPT !.conflict = TRUE, !.state = "conflict"]})
      \/ LineBecomes(l, {[ready EXCEPT !.state = "wrong"]})
      \/ LineBecomes(l, {[ready EXCEPT !.state = "acid"]})
      \/ LineBecomes(l, InitStep(l, b))
  <2>1. PICK conflict \in Conflicts(l), wrong \in WrongObject(r), overdue \in AcidOverdue(r) :
          LineBecomes(l, CASE conflict -> {[r EXCEPT !.conflict = TRUE, !.state = "conflict"]}
                      [] ~ conflict /\ wrong -> {[ready EXCEPT !.state = "wrong"]}
                      [] ~ conflict /\ ~ wrong /\ overdue -> {[ready EXCEPT !.state = "acid"]}
                      [] OTHER -> InitStep(l, b))
    BY Zenon DEF Start
  <2>2. CASE conflict
    BY <2>1, <2>2
  <2>3. CASE ~ conflict /\ wrong
    BY <2>1, <2>3
  <2>4. CASE ~ conflict /\ ~ wrong /\ overdue
    BY <2>1, <2>4
  <2>5. CASE ~ conflict /\ ~ wrong /\ ~ overdue
    BY <2>1, <2>5
  <2>. QED BY <2>2, <2>3, <2>4, <2>5
<1>3. r \in LineRecord /\ r.step \in Steps
  BY DEF Placed
<1>. HIDE DEF r
<1>4. /\ SamePlace(r, ready) /\ ready.state = r.state /\ ready.blocked = r.blocked
      /\ ready.open = r.open /\ ready.dosing = r.dosing /\ ready.ret = r.ret
      /\ ready.forced = r.forced
  <2>1. clear \in LineRecord
    BY <1>3 DEF LineRecord
  <2>2. /\ clear.step = r.step /\ clear.part = r.part /\ clear.prog = r.prog /\ clear.obj = r.obj
        /\ clear.open = r.open /\ clear.dosing = r.dosing /\ clear.state = r.state
    BY <1>3 DEF LineRecord
  <2>3. /\ clear.reset = r.reset /\ clear.blocked = r.blocked /\ clear.ret = r.ret
        /\ clear.forced = r.forced
    BY <1>3 DEF LineRecord
  <2>. HIDE DEF clear
  <2>4. /\ SamePlace(clear, ready) /\ ready.state = clear.state /\ ready.blocked = clear.blocked
        /\ ready.open = clear.open /\ ready.dosing = clear.dosing /\ ready.ret = clear.ret
        /\ ready.forced = clear.forced
    BY <2>1, FlagsSet
  <2>. QED BY <2>2, <2>3, <2>4 DEF SamePlace
<1>5. /\ SamePlace(r, c) /\ c.blocked = r.blocked
      /\ c.open = r.open /\ c.dosing = r.dosing /\ c.ret = r.ret /\ c.forced = r.forced
  <2>1. c \in LineRecord
    BY <1>3 DEF LineRecord
  <2>2. /\ c.step = r.step /\ c.part = r.part /\ c.prog = r.prog /\ c.obj = r.obj
        /\ c.open = r.open /\ c.dosing = r.dosing
    BY <1>3 DEF LineRecord
  <2>3. /\ c.reset = r.reset /\ c.blocked = r.blocked /\ c.ret = r.ret /\ c.forced = r.forced
    BY <1>3 DEF LineRecord
  <2>. QED BY <2>1, <2>2, <2>3 DEF SamePlace
<1>6. CASE LineBecomes(l, {[r EXCEPT !.conflict = TRUE, !.state = "conflict"]})
  <2>. DEFINE x == [c EXCEPT !.state = "conflict"]
  <2>1. line' = [line EXCEPT ![l] = x]
    BY <1>6 DEF LineBecomes
  <2>2. Rests(r, x)
    <3>. HIDE DEF x, c
    <3>1. x = [c EXCEPT !.state = "conflict"] /\ "conflict" \in LineStates
      BY DEF x, LineStates
    <3>. QED BY <1>1, <1>3, <1>5, <3>1, StandsStill
  <2>. QED BY <2>1, <2>2 DEF r
<1>. HIDE DEF ready
<1>7. ASSUME NEW s \in {"wrong", "acid"}, LineBecomes(l, {[ready EXCEPT !.state = s]})
      PROVE  \E x : Rests(r, x) /\ line' = [line EXCEPT ![l] = x]
  <2>. DEFINE x == [ready EXCEPT !.state = s]
  <2>1. line' = [line EXCEPT ![l] = x]
    BY <1>7 DEF LineBecomes
  <2>2. Rests(r, x)
    <3>. HIDE DEF x
    <3>1. x = [ready EXCEPT !.state = s] /\ s \in LineStates /\ s \notin {"run", "idle", "blocked"}
      BY DEF x, LineStates
    <3>. QED BY <1>1, <1>3, <1>4, <3>1, StandsStill
  <2>. QED BY <2>1, <2>2
<1>8. CASE LineBecomes(l, InitStep(l, b))
  <2>1. PICK x \in InitStep(l, b) : line' = [line EXCEPT ![l] = x]
    BY <1>8, BecomesOne
  <2>2. ready \in LineRecord
    BY <1>4 DEF SamePlace
  <2>3. /\ SameWash(ready, b) /\ b.state = "run" /\ b.blocked = ready.blocked
        /\ b.open = ready.open /\ b.dosing = ready.dosing
    BY <2>2, StateSet DEF LineStates
  <2>. HIDE DEF b
  <2>4. ~ b.blocked
    BY <1>1, <1>4, <2>3
  <2>5. /\ b \in LineRecord /\ b.step = r.step /\ b.part = r.part /\ b.prog = r.prog
        /\ b.obj = r.obj /\ b.reset = r.reset /\ b.open = r.open /\ b.dosing = r.dosing
    BY <1>4, <2>3 DEF SameWash, SamePlace
  <2>6. Enters(r, x)
    BY <1>1, <1>3, <2>1, <2>3, <2>4, <2>5, EntersStep
  <2>. QED BY <2>1, <2>6 DEF r
<1>9. CASE \/ LineBecomes(l, {[ready EXCEPT !.state = "wrong"]})
           \/ LineBecomes(l, {[ready EXCEPT !.state = "acid"]})
  BY <1>7, <1>9 DEF r
<1>. QED BY <1>2, <1>6, <1>8, <1>9

(* A line at the start of a behaviour.                                     *)
LEMMA BlankLineIs ==
    ASSUME NEW p, p.blank \in Recipe, NEW y, y = BlankLine(p)
    PROVE  /\ y \in LineRecord /\ y.state = "idle" /\ y.step = 0 /\ y.part = -1
           /\ y.prog = NoProgram /\ y.open = {} /\ y.dosing = {}
           /\ y.blocked = FALSE /\ y.ret = FALSE /\ y.reset = FALSE
           /\ y.obj = p.blank
<1>. DEFINE z == p.blank
<1>1. y = [state |-> "idle", step |-> 0, part |-> -1, blocked |-> FALSE, prog |-> NoProgram,
           obj |-> z, hasRecipe |-> FALSE, flags |-> NoFlags, conflict |-> FALSE,
           reset |-> FALSE, ret |-> FALSE, forced |-> FALSE, open |-> {}, dosing |-> {}]
  BY DEF BlankLine
<1>. HIDE DEF z
<1>2. y \in LineRecord
  <2>1. NoFlags \in Flags
    BY DEF NoFlags, Flags
  <2>. QED BY <1>1, <2>1, NoProgramIsProgram DEF LineRecord, LineStates, z
<1>3. /\ y.state = "idle" /\ y.step = 0 /\ y.part = -1
      /\ y.prog = NoProgram /\ y.open = {} /\ y.dosing = {}
  BY <1>1
<1>4. y.blocked = FALSE /\ y.ret = FALSE /\ y.reset = FALSE /\ y.obj = z
  BY <1>1
<1>. QED BY <1>2, <1>3, <1>4 DEF z

(* The end of the last step: the wash is over.                             *)
LEMMA FinishIs ==
    ASSUME NEW l, line[l] \in LineRecord, plan \in Plans, Placed(line[l]), Finish(l)
    PROVE  \E x : IsOver(line[l], x) /\ line' = [line EXCEPT ![l] = x]
<1>. DEFINE r == line[l]  q == Stop(l, r)  o == q.open  d == r.dosing  z == plan.blank
            a == r.obj
            x == [BlankLine(plan) EXCEPT !.obj = a, !.dosing = d, !.open = o]
<1>1. r.state = "run" /\ r.step = Done /\ line' = [line EXCEPT ![l] = x]
  BY DEF Finish, LineBecomes
<1>2. z \in Recipe
  BY PlansAssumption
<1>3. o \subseteq TankValves
  <2>. DEFINE k == (IF r.state = "object" THEN Returns ELSE {})
                   \cup (IF scline = l THEN {} ELSE TankValves)
              s == StopDev(l, r)
  <2>1. k \subseteq TankValves
    BY <1>1
  <2>2. s = [r EXCEPT !.ret = FALSE, !.forced = FALSE, !.open = r.open \cap k]
    BY DEF StopDev
  <2>3. r \in LineRecord /\ s \in LineRecord
    BY StopDevIs DEF SameWash
  <2>. HIDE DEF r, k
  <2>4. s.open = r.open \cap k
    BY <2>2, <2>3 DEF LineRecord
  <2>5. q.open = s.open
    <3>. DEFINE e == CASE r.step \in {105, 109} -> s.dosing \ {"NS"}
                       [] r.step \in {115, 119} -> s.dosing \ {"NK"}
                       [] OTHER -> s.dosing
    <3>1. q = [s EXCEPT !.state = "idle", !.dosing = e]
      BY DEF Stop
    <3>. HIDE DEF s, e, q
    <3>. QED BY <2>3, <3>1 DEF LineRecord
  <2>. HIDE DEF q, s
  <2>. QED BY <2>1, <2>4, <2>5
<1>4. d \subseteq Dosers /\ a \in Recipe
  BY DEF LineRecord
<1>. HIDE DEF r, q, o, d, z, a
<1>. DEFINE y == BlankLine(plan)
<1>5. /\ y \in LineRecord /\ y.state = "idle" /\ y.step = 0 /\ y.part = -1
      /\ y.prog = NoProgram /\ y.blocked = FALSE /\ y.ret = FALSE /\ y.reset = FALSE
  BY <1>2, BlankLineIs DEF z
<1>6. x = [y EXCEPT !.obj = a, !.dosing = d, !.open = o]
  OBVIOUS
<1>. HIDE DEF x, y
<1>7. /\ x \in LineRecord /\ x.state = "idle" /\ x.step = 0 /\ x.part = -1 /\ x.prog = NoProgram
      /\ x.open = o /\ x.dosing = d /\ x.obj = a
  BY <1>3, <1>4, <1>5, <1>6 DEF LineRecord
<1>8. x.blocked = FALSE /\ x.ret = FALSE /\ x.reset = FALSE
  BY <1>5, <1>6 DEF LineRecord
<1>9. IsOver(r, x)
  BY <1>1, <1>3, <1>7, <1>8 DEF IsOver, d, a
<1>. QED BY <1>1, <1>9 DEF r

(* Every action of a line is one of these.                                 *)
LEMMA ActionsAre ==
    ASSUME NEW l \in plan.lines, line[l] \in LineRecord, plan \in Plans, Placed(line[l]),
           \/ Lock(l) \/ Unlock(l) \/ Select(l) \/ NextStep(l) \/ Pause(l) \/ Reset(l)
           \/ ForceRet(l) \/ Start(l) \/ Resume(l) \/ StepGoesOn(l) \/ StepIsOver(l)
           \/ StepFails(l) \/ Finish(l) \/ ObjectReady(l)
    PROVE  \E x : Outcome(line[l], x) /\ line' = [line EXCEPT ![l] = x]
<1>1. CASE Lock(l) \/ Unlock(l) \/ Pause(l) \/ StepFails(l)
  BY <1>1, LockIs, UnlockIs, PauseIs, StepFailsIs DEF Outcome
<1>2. CASE Select(l) \/ ForceRet(l)
  BY <1>2, SelectIs, ForceRetIs DEF Outcome
<1>3. CASE NextStep(l) \/ StepIsOver(l)
  BY <1>3, NextStepIs, StepIsOverIs DEF Outcome
<1>4. CASE Reset(l) \/ ObjectReady(l)
  BY <1>4, ResetIs, ObjectReadyIs DEF Outcome
<1>5. CASE Start(l) \/ Resume(l)
  BY <1>5, StartIs, ResumeIs DEF Outcome
<1>6. CASE StepGoesOn(l)
  BY <1>6, StepGoesOnIs DEF Outcome
<1>7. CASE Finish(l)
  BY <1>7, FinishIs DEF Outcome
<1>. QED BY <1>1, <1>2, <1>3, <1>4, <1>5, <1>6, <1>7

-----------------------------------------------------------------------------
(***************************************************************************)
(* A line stands at a step of the part it washes.                          *)
(***************************************************************************)
(* The next step is one of the next part.                                  *)
LEMMA NextIsPlaced ==
    ASSUME NEW q \in LineRecord, Placed(q), q.step # Done, NEW n, n = <<n[1], n[2]>>,
           Leads(n, q.step, q.part, q.prog), n[1] # Done
    PROVE  n[2] \in Parts /\ n[1] \in StepsOfPart(n[2])
<1>1. CASE n[2] \in Parts /\ n[1] \in StepsOfPart(n[2])
  BY <1>1
<1>2. CASE /\ q.step \notin LastSteps /\ n[2] = q.part /\ n[1] \in StepsOfPart(q.part)
  <2>1. q.step # 0
    BY <1>2 DEF LastSteps
  <2>. QED BY <1>2, <2>1 DEF Placed
<1>3. CASE q.step = 16 /\ n = <<9, q.part>>
  <2>1. q.part \in Parts /\ 16 \in StepsOfPart(q.part)
    BY <1>3 DEF Placed, Done
  <2>2. q.part = 7
    BY <2>1, SixteenIsOfSeven
  <2>3. 9 \in StepsOfPart(7)
    BY DEF StepsOfPart
  <2>4. n[1] = 9 /\ n[2] = 7
    BY <1>3, <2>2
  <2>. QED BY <2>3, <2>4 DEF Parts
<1>. QED BY <1>1, <1>2, <1>3 DEF Leads

(* Every outcome leaves the line where a line can stand.                   *)
LEMMA PlacedStays ==
    ASSUME NEW r \in LineRecord, Placed(r), NEW x, Outcome(r, x)
    PROVE  x \in LineRecord /\ Placed(x)
<1>1. CASE Rests(r, x)
  <2>1. SamePlace(r, x) /\ (x.state = "idle" => r.step = 0)
    BY <1>1 DEF Rests
  <2>2. x.blocked <=> x.state = "blocked"
    BY <1>1 DEF Rests
  <2>3. x.reset => x.step = Done
    BY <2>1 DEF SamePlace, Placed
  <2>. QED BY <2>1, <2>2, <2>3 DEF SamePlace, Placed
<1>2. CASE Forced(r, x)
  <2>1. x \in LineRecord /\ x.step = r.step /\ x.part = r.part /\ x.state = r.state
    BY <1>2 DEF Forced, SameWash
  <2>2. x.blocked = r.blocked /\ x.reset = r.reset
    BY <1>2 DEF Forced, SameWash
  <2>. QED BY <2>1, <2>2 DEF Placed
<1>3. CASE Chooses(r, x)
  <2>1. x \in LineRecord /\ x.step = r.step /\ x.part = r.part /\ x.state = r.state
    BY <1>3 DEF Chooses
  <2>2. x.blocked = r.blocked /\ x.reset = r.reset
    BY <1>3 DEF Chooses
  <2>. QED BY <2>1, <2>2 DEF Placed
<1>4. CASE Enters(r, x)
  <2>1. PICK b \in LineRecord :
          /\ IsEntered(b, x) /\ b.state = "run" /\ ~ b.blocked /\ b.part = r.part
          /\ \/ b.step = r.step /\ b.reset = r.reset
             \/ b.step = Done
    BY <1>4 DEF Enters
  <2>2. /\ x \in LineRecord /\ x.step = b.step /\ x.part = r.part /\ x.state = "run"
    BY <2>1 DEF IsEntered, SameWash
  <2>3. ~ x.blocked /\ x.reset = b.reset
    BY <2>1 DEF IsEntered, SameWash
  <2>4. x.reset => x.step = Done
    BY <2>1, <2>2, <2>3 DEF Placed
  <2>5. /\ x.step \in Steps /\ (x.step = 0 => x.part = -1)
        /\ x.step \notin {0, Done} => x.part \in Parts /\ x.step \in StepsOfPart(x.part)
    BY <2>1, <2>2, StepsAreNumbers DEF Placed, Done
  <2>. QED BY <2>2, <2>3, <2>4, <2>5 DEF Placed
<1>5. CASE Advances(r, x)
  <2>1. PICK q : (q = r \/ IsRan(r, q)) /\ q.step # Done /\ ~ q.blocked /\ GoesOn(q, x)
    BY <1>5 DEF Advances
  <2>2. q \in LineRecord /\ Placed(q)
    <3>1. CASE q = r
      BY <3>1
    <3>2. CASE IsRan(r, q)
      <4>1. q \in LineRecord /\ q.step = r.step /\ q.part = r.part /\ q.state = r.state
        BY <3>2 DEF IsRan, SameWash
      <4>2. q.blocked = r.blocked /\ q.reset = r.reset
        BY <3>2 DEF IsRan, SameWash
      <4>. QED BY <4>1, <4>2 DEF Placed
    <3>. QED BY <2>1, <3>1, <3>2
  <2>3. PICK n, b :
          /\ n = <<n[1], n[2]>> /\ n[1] \in Steps \ {0} /\ n[2] \in Parts \cup {-1}
          /\ Leads(n, q.step, q.part, q.prog)
          /\ b = AtStep(q, n) /\ b \in LineRecord /\ IsEntered(b, x)
    BY <2>1 DEF GoesOn
  <2>4. n[1] \in Nat
    BY <2>3, StepsAreNumbers
  <2>5. /\ b.step = n[1] /\ b.part = n[2] /\ b.state = "run"
        /\ b.reset = q.reset /\ b.blocked = q.blocked
    BY <2>2, <2>3, <2>4, AtStepIs
  <2>6. x \in LineRecord /\ x.step = n[1] /\ x.part = n[2] /\ x.state = "run"
    BY <2>3, <2>5 DEF IsEntered, SameWash
  <2>7. x.blocked = q.blocked /\ x.reset = q.reset
    BY <2>3, <2>5 DEF IsEntered, SameWash
  <2>8. ~ x.blocked /\ ~ x.reset
    BY <2>1, <2>2, <2>7 DEF Placed
  <2>9. n[1] # Done => n[2] \in Parts /\ n[1] \in StepsOfPart(n[2])
    BY <2>1, <2>2, <2>3, NextIsPlaced
  <2>. QED BY <2>3, <2>6, <2>8, <2>9 DEF Placed
<1>6. CASE IsRan(r, x)
  <2>1. x \in LineRecord /\ x.step = r.step /\ x.part = r.part /\ x.state = r.state
    BY <1>6 DEF IsRan, SameWash
  <2>2. x.blocked = r.blocked /\ x.reset = r.reset
    BY <1>6 DEF IsRan, SameWash
  <2>. QED BY <2>1, <2>2 DEF Placed
<1>7. CASE IsOver(r, x)
  <2>1. x \in LineRecord /\ x.state = "idle" /\ x.step = 0 /\ x.part = -1
    BY <1>7 DEF IsOver
  <2>2. ~ x.blocked /\ ~ x.reset
    BY <1>7 DEF IsOver
  <2>. QED BY <2>1, <2>2, StepsAreNumbers DEF Placed
<1>. QED BY <1>1, <1>2, <1>3, <1>4, <1>5, <1>6, <1>7 DEF Outcome

-----------------------------------------------------------------------------
(***************************************************************************)
(* The media stay apart.                                                   *)
(***************************************************************************)
Apart(r) ==
    /\ r.step \notin Pump => ApartAt(r.step, r.open)
    /\ r.step = 188 => r.open \cap Station \subseteq {"V00"}

(* A step that inherits valves inherits them from one that may.            *)
LEMMA LeadsInherits ==
    ASSUME NEW s, NEW part, NEW prog, NEW n, n = <<n[1], n[2]>>, Leads(n, s, part, prog),
           n[1] \in Inheriting
    PROVE  InheritsFrom(n[1], s)
<1>1. ASSUME s \in LastSteps, n[1] \in Entries PROVE InheritsFrom(n[1], s)
  <2>1. n[1] \in {300, 10, 61, 71, 91, 81}
    BY <1>1 DEF Entries, Inheriting, EmptyObject, FillTank
  <2>2. /\ s \notin FreshFill /\ s \notin CausticSteps \cup AcidSteps
        /\ s \in Pump => s = 188
    BY <1>1 DEF LastSteps, FreshFill, CausticSteps, AcidSteps, Pump
  <2>. QED BY <2>1, <2>2 DEF InheritsFrom
<1>2. ASSUME s = 16, n = <<9, part>> PROVE InheritsFrom(n[1], s)
  <2>1. n[1] = 9
    BY <1>2
  <2>. QED BY <1>2, <2>1 DEF InheritsFrom, FreshFill, CausticSteps, AcidSteps, Pump
<1>3. n[1] # Done
  BY DEF Inheriting, EmptyObject, FillTank, Done
<1>. QED BY <1>1, <1>2, <1>3 DEF Leads

(* What it inherits it may keep.                                           *)
LEMMA MayInherit ==
    ASSUME NEW s \in Steps, NEW n, NEW open, open \subseteq AllValves,
           s \notin Pump => ApartAt(s, open),
           s = 188 => open \cap Station \subseteq {"V00"},
           n \in Inheriting => InheritsFrom(n, s)
    PROVE  Inherited(n, open)
<1>. SUFFICES ASSUME n \in Inheriting
              PROVE  ApartBut(n, open) /\ (n \notin FillTank => OneReturn(open))
  BY DEF Inherited
<1>1. InheritsFrom(n, s)
  OBVIOUS
<1>2. CASE s \in Pump
  <2>1. s = 188
    BY <1>1, <1>2 DEF InheritsFrom
  <2>2. open \cap Station \subseteq {"V00"}
    BY <2>1
  <2>3. {"V02", "V03", "V05", "V06", "V08", "V09"} \cup Returns \subseteq Station \ {"V00"}
    BY DEF Station, Supplies, Returns
  <2>. QED BY <2>2, <2>3 DEF ApartBut, OneReturn
<1>3. CASE s \notin Pump
  <2>1. ApartAt(s, open)
    BY <1>3
  <2>2. n \notin FillTank => OneReturn(open)
    <3>1. n \notin FillTank => s \notin FreshFill
      BY <1>1 DEF InheritsFrom, Inheriting
    <3>. QED BY <2>1, <3>1 DEF ApartAt
  <2>3. /\ n \in {23, 26} => s \in CausticSteps /\ n \in CausticSteps /\ n \notin AcidSteps
        /\ n \in {43, 46} => s \in AcidSteps /\ n \in AcidSteps /\ n \notin CausticSteps
        /\ n \notin {23, 26, 43, 46} => s \notin CausticSteps \cup AcidSteps
    BY <1>1 DEF InheritsFrom, CausticSteps, AcidSteps
  <2>4. n \notin {23, 26, 43, 46} => n \notin CausticSteps \cup AcidSteps
    BY DEF Inheriting, EmptyObject, FillTank, CausticSteps, AcidSteps
  <2>5. ApartBut(n, open)
    BY <2>1, <2>3, <2>4 DEF ApartAt, ApartBut
  <2>. QED BY <2>2, <2>5
<1>. QED BY <1>2, <1>3

(* A scan keeps the media apart.                                           *)
LEMMA RanApart ==
    ASSUME NEW r \in LineRecord, r.step \in Steps, Apart(r), NEW x, IsRan(r, x)
    PROVE  Apart(x) /\ x.open \subseteq AllValves
<1>1. /\ x.step = r.step /\ x.open \in RunOpen(r.step, r.open, r.prog, Configured(r))
  BY DEF IsRan, SameWash
<1>2. r.open \subseteq AllValves /\ r.prog \in Program
  BY DEF LineRecord, AllValves
<1>3. /\ x.open \subseteq AllValves
      /\ (r.step \notin Pump /\ ApartAt(r.step, r.open)) => ApartAt(r.step, x.open)
      /\ (r.step = 188 /\ r.open \cap Station \subseteq {"V00"}) => x.open \cap Station \subseteq {"V00"}
  <2>. DEFINE s == r.step  open == r.open  prog == r.prog  obj == Configured(r)  o == x.open
  <2>1. /\ s \in Steps /\ open \subseteq AllValves /\ prog \in Program
        /\ o \in RunOpen(s, open, prog, obj)
    BY <1>1, <1>2
  <2>2. obj \in Recipe
    BY ConfiguredIs
  <2>. HIDE DEF s, open, prog, obj, o
  <2>3. /\ o \subseteq AllValves
        /\ (s \notin Pump /\ ApartAt(s, open)) => ApartAt(s, o)
        /\ (s = 188 /\ open \cap Station \subseteq {"V00"}) => o \cap Station \subseteq {"V00"}
    BY <2>1, <2>2, RunApart
  <2>. QED BY <2>3 DEF s, open, o
<1>. QED BY <1>1, <1>3 DEF Apart

(* So does a step that is entered, if what it inherits is apart.           *)
LEMMA EnteredApart ==
    ASSUME NEW b \in LineRecord, b.step \in Steps, \A c : c \subseteq b.open => Inherited(b.step, c),
           NEW x, IsEntered(b, x)
    PROVE  Apart(x)
<1>1. PICK c : c \subseteq b.open /\ x.open \in InitOpen(b.step, c, b.prog, Configured(b))
  BY DEF IsEntered
<1>2. x.step = b.step
  BY DEF IsEntered, SameWash
<1>3. c \subseteq AllValves /\ b.prog \in Program
  BY <1>1 DEF LineRecord, AllValves
<1>4. /\ (b.step \notin Pump /\ Inherited(b.step, c)) => ApartAt(b.step, x.open)
      /\ b.step = 188 => x.open \cap Station \subseteq {"V00"}
  <2>. DEFINE s == b.step  prog == b.prog  obj == Configured(b)  o == x.open
  <2>1. s \in Steps /\ prog \in Program /\ o \in InitOpen(s, c, prog, obj)
    BY <1>1, <1>3
  <2>2. obj \in Recipe
    BY ConfiguredIs
  <2>. HIDE DEF s, prog, obj, o
  <2>3. /\ (s \notin Pump /\ Inherited(s, c)) => ApartAt(s, o)
        /\ s = 188 => o \cap Station \subseteq {"V00"}
    BY <1>3, <2>1, <2>2, InitApart
  <2>. QED BY <2>3 DEF s, o
<1>. QED BY <1>1, <1>2, <1>4 DEF Apart

(* And so does every outcome: a step inherits from one that may leave its  *)
(* valves to it.                                                           *)
LEMMA ApartStays ==
    ASSUME NEW r \in LineRecord, Placed(r), Apart(r), NEW x, Outcome(r, x)
    PROVE  Apart(x)
<1>0. r.step \in Steps /\ r.open \subseteq AllValves
  BY DEF Placed, LineRecord, AllValves
<1>1. ASSUME x.step = r.step, x.open \subseteq r.open PROVE Apart(x)
  BY <1>1, ApartFewer DEF Apart
<1>2. CASE Rests(r, x) \/ Forced(r, x) \/ Chooses(r, x)
  <2>1. x.step = r.step /\ x.open \subseteq r.open
    BY <1>2 DEF Rests, Forced, Chooses, SamePlace, SameWash
  <2>. QED BY <1>1, <2>1
<1>3. CASE Enters(r, x)
  <2>1. PICK b \in LineRecord : /\ IsEntered(b, x) /\ b.open \subseteq r.open
                                /\ b.step = r.step \/ b.step = Done
    BY <1>3 DEF Enters
  <2>2. b.step \in Steps
    BY <1>0, <2>1, StepsAreNumbers
  <2>3. ASSUME NEW c, c \subseteq b.open PROVE Inherited(b.step, c)
    <3>1. CASE b.step = Done
      BY <3>1 DEF Inherited, Inheriting, EmptyObject, FillTank, Done
    <3>2. CASE b.step = r.step
      <4>1. ASSUME r.step \in Inheriting PROVE r.step \notin Pump
        BY <4>1 DEF Inheriting, EmptyObject, FillTank, Pump
      <4>2. ASSUME r.step \in Inheriting PROVE ApartAt(r.step, c)
        BY <2>1, <2>3, <4>1, <4>2, ApartFewer DEF Apart
      <4>3. FreshFill \subseteq FillTank
        BY DEF FreshFill, FillTank
      <4>. QED BY <3>2, <4>2, <4>3 DEF Inherited, ApartAt
    <3>. QED BY <2>1, <3>1, <3>2
  <2>. QED BY <2>1, <2>2, <2>3, EnteredApart
<1>4. CASE Advances(r, x)
  <2>1. PICK q : (q = r \/ IsRan(r, q)) /\ q.step # Done /\ GoesOn(q, x)
    BY <1>4 DEF Advances
  <2>2. q \in LineRecord /\ q.step \in Steps /\ Apart(q) /\ q.open \subseteq AllValves
    BY <1>0, <2>1, RanApart DEF IsRan, SameWash
  <2>3. PICK n, b :
          /\ n = <<n[1], n[2]>> /\ n[1] \in Steps \ {0} /\ n[2] \in Parts \cup {-1}
          /\ Leads(n, q.step, q.part, q.prog)
          /\ b = AtStep(q, n) /\ b \in LineRecord /\ IsEntered(b, x)
    BY <2>1 DEF GoesOn
  <2>4. n[1] \in Nat
    BY <2>3, StepsAreNumbers
  <2>5. b.step = n[1] /\ b.open = q.open
    BY <2>2, <2>3, <2>4, AtStepIs
  <2>6. ASSUME NEW c, c \subseteq b.open PROVE Inherited(b.step, c)
    <3>1. n[1] \in Inheriting => InheritsFrom(n[1], q.step)
      BY <2>3, LeadsInherits
    <3>2. /\ c \subseteq AllValves /\ (q.step \notin Pump => ApartAt(q.step, c))
          /\ q.step = 188 => c \cap Station \subseteq {"V00"}
      BY <2>2, <2>5, <2>6, ApartFewer DEF Apart
    <3>. QED BY <2>2, <2>5, <3>1, <3>2, MayInherit
  <2>. QED BY <2>3, <2>5, <2>6, EnteredApart
<1>5. CASE IsRan(r, x)
  BY <1>0, <1>5, RanApart
<1>6. CASE IsOver(r, x)
  <2>1. x.step = 0 /\ x.open \subseteq TankValves
    BY <1>6 DEF IsOver
  <2>2. TankValves \cap ({"V02", "V03", "V05", "V06", "V08", "V09"} \cup Returns) = {}
    BY DEF TankValves, Returns
  <2>3. 0 \notin Pump /\ 0 \notin CausticSteps \cup AcidSteps \cup EmptyTank
    BY DEF Pump, CausticSteps, AcidSteps, EmptyTank
  <2>. QED BY <2>1, <2>2, <2>3 DEF Apart, ApartAt, ApartBut, OneReturn
<1>. QED BY <1>2, <1>3, <1>4, <1>5, <1>6 DEF Outcome

-----------------------------------------------------------------------------
(***************************************************************************)
(* A line that stands is still, and doses only where it should.  These     *)
(* hold where no line is unlocked that was not locked: that leaves the     *)
(* valves of a running line as they are, and the line in a pause.          *)
(***************************************************************************)
Driven == Intake \cup {"NP", "V05", "V06"}
Still(r) ==
    r.state # "run" \/ r.reset => r.open \cap Driven = {} /\ (r.ret => r.forced)
Dosed(r) == IF r.state = "run" THEN DosedAt(r.step, r.dosing) ELSE r.dosing = {}

(* What StopDev and the end leave open drives nothing.                     *)
LEMMA NothingDriven ==
    /\ (Returns \cup TankValves) \cap Driven = {}
    /\ Driven \subseteq Station
BY DEF Driven, Intake, Supplies, Returns, TankValves, Station

(* The last step opens the way to the drain only.                          *)
LEMMA LastIsStill ==
    ASSUME NEW open, NEW prog \in Program, NEW obj \in Recipe, NEW o \in InitOpen(Done, open, prog, obj)
    PROVE  o \cap Driven = {}
<1>. DEFINE do == Work[Done].do  f == Work[Done].from  t == Work[Done].to
            from == From(Done, prog, obj)  to == To(Done, prog, obj)
<1>1. IsRow(Done, do, f, t) /\ Done \in Steps
  BY WorkRow, StepsAreNumbers
<1>2. \/ do = "fillTank" \/ do = "pump" \/ do = "custom" \/ do = "emptyObject"
      \/ \E v : SetBy(Done, do, from, to, v, obj) /\ o = SetStation(open, v)
  BY <1>1, InitOpenIs
<1>3. Kind(Done, do, from, to)
  BY <1>1, StepKind
<1>. HIDE DEF do, f, t, from, to
<1>4. Done \notin ToObject \cup FromObject \cup EmptyObject \cup FillTank \cup Circulate
                  \cup EmptyTank \cup Pump
  BY DEF ToObject, FromObject, EmptyObject, FillTank, Circulate, EmptyTank, Pump, Done
<1>5. do = "end"
  BY <1>3, <1>4 DEF Kind, Done
<1>6. o = SetStation(open, {"V11"})
  BY <1>2, <1>5 DEF SetBy
<1>. QED BY <1>6, NothingDriven DEF SetStation, Driven, Intake, Supplies

(* What stands stays still.                                                *)
LEMMA StillStays ==
    ASSUME NEW r \in LineRecord, Placed(r), Still(r), "stray" \notin plan.commands,
           NEW x, Outcome(r, x)
    PROVE  Still(x)
<1>0. x \in LineRecord /\ Placed(x)
  BY PlacedStays
<1>1. CASE Rests(r, x)
  <2>1. CASE x.ret = FALSE /\ x.open \subseteq r.open \cap (Returns \cup TankValves)
    BY <2>1, NothingDriven DEF Still
  <2>2. CASE x.open = r.open /\ x.ret = r.ret /\ x.forced = r.forced /\ r.state # "run"
    BY <2>2 DEF Still
  <2>. QED BY <1>1, <2>1, <2>2 DEF Rests
<1>2. CASE Forced(r, x)
  <2>1. x.state = r.state /\ x.open = r.open
    BY <1>2 DEF Forced
  <2>2. x.reset = r.reset /\ x.forced
    BY <1>2 DEF Forced, SameWash
  <2>. QED BY <2>1, <2>2 DEF Still
<1>3. CASE Chooses(r, x)
  <2>1. x.state = r.state /\ x.open = r.open
    BY <1>3 DEF Chooses
  <2>2. x.reset = r.reset /\ x.forced = r.forced /\ x.ret = r.ret
    BY <1>3 DEF Chooses
  <2>. QED BY <2>1, <2>2 DEF Still
<1>4. CASE Enters(r, x)
  <2>1. PICK b \in LineRecord : IsEntered(b, x) /\ b.state = "run" /\ b.prog = r.prog /\ b.obj = r.obj
    BY <1>4 DEF Enters
  <2>2. x.state = "run" /\ x.step = b.step
    BY <2>1 DEF IsEntered, SameWash
  <2>3. ASSUME x.reset PROVE x.open \cap Driven = {} /\ (x.ret => x.forced)
    <3>1. b.step = Done
      BY <1>0, <2>2, <2>3 DEF Placed
    <3>2. x.ret = FALSE
      BY <2>1, <3>1 DEF IsEntered
    <3>3. PICK c : x.open \in InitOpen(Done, c, b.prog, Configured(b))
      BY <2>1, <3>1 DEF IsEntered
    <3>4. b.prog \in Program /\ Configured(b) \in Recipe
      BY ConfiguredIs DEF LineRecord
    <3>5. x.open \cap Driven = {}
      BY <3>3, <3>4, LastIsStill
    <3>. QED BY <3>2, <3>5
  <2>. QED BY <2>2, <2>3 DEF Still
<1>5. CASE Advances(r, x)
  <2>1. PICK q : (q = r \/ IsRan(r, q)) /\ q.step # Done /\ GoesOn(q, x)
    BY <1>5 DEF Advances
  <2>2. q \in LineRecord /\ q.step = r.step
    BY <2>1 DEF IsRan, SameWash
  <2>3. q.reset = r.reset
    BY <2>1 DEF IsRan, SameWash
  <2>4. PICK n, b :
          /\ n[1] \in Steps \ {0} /\ n[2] \in Parts \cup {-1}
          /\ b = AtStep(q, n) /\ b \in LineRecord /\ IsEntered(b, x)
    BY <2>1 DEF GoesOn
  <2>5. b.state = "run" /\ b.reset = q.reset
    <3>1. n[1] \in Nat
      BY <2>4, StepsAreNumbers
    <3>. QED BY <2>2, <2>4, <3>1, AtStepIs
  <2>6. x.state = "run"
    BY <2>4, <2>5 DEF IsEntered
  <2>7. x.reset = r.reset
    BY <2>3, <2>4, <2>5 DEF IsEntered, SameWash
  <2>8. ~ r.reset
    BY <2>1, <2>2 DEF Placed
  <2>. QED BY <2>6, <2>7, <2>8 DEF Still
<1>6. CASE IsRan(r, x) /\ r.state = "run" /\ r.step # Done
  <2>1. x.state = "run"
    BY <1>6 DEF IsRan
  <2>2. x.reset = r.reset
    BY <1>6 DEF IsRan, SameWash
  <2>3. ~ r.reset
    BY <1>6 DEF Placed
  <2>. QED BY <2>1, <2>2, <2>3 DEF Still
<1>7. CASE IsOver(r, x)
  BY <1>7, NothingDriven DEF Still, IsOver
<1>. QED BY <1>1, <1>2, <1>3, <1>4, <1>5, <1>6, <1>7 DEF Outcome

(* Concentrate is dosed at its step only.                                  *)
LEMMA DosedStays ==
    ASSUME NEW r \in LineRecord, Placed(r), Dosed(r), "stray" \notin plan.commands,
           NEW x, Outcome(r, x)
    PROVE  Dosed(x)
<1>0. r.dosing \subseteq Dosers /\ Dosers = {"NS", "NK"}
  BY DEF LineRecord, Dosers
<1>1. CASE Rests(r, x)
  <2>1. CASE r.state = "run" /\ Undosed(r, x)
    <3>1. DosedAt(r.step, r.dosing)
      BY <2>1 DEF Dosed
    <3>2. x.dosing = {}
      BY <2>1, <3>1 DEF Undosed, DosedAt
    <3>. QED BY <1>1, <3>2 DEF Dosed, Rests
  <2>2. CASE r.state # "run" /\ x.dosing = r.dosing
    BY <1>1, <2>2 DEF Dosed, Rests
  <2>. QED BY <1>1, <2>1, <2>2 DEF Rests
<1>2. CASE Forced(r, x) \/ Chooses(r, x) \/ IsRan(r, x)
  <2>1. x.state = r.state /\ x.step = r.step /\ x.dosing = r.dosing
    BY <1>2 DEF Forced, Chooses, IsRan, SameWash
  <2>. QED BY <2>1 DEF Dosed
<1>3. CASE Enters(r, x)
  <2>1. PICK b \in LineRecord :
          /\ IsEntered(b, x) /\ b.state = "run"
          /\ \/ b.step = r.step /\ b.dosing = r.dosing /\ r.state # "run"
             \/ b.step = Done /\ Undosed(r, b)
    BY <1>3 DEF Enters
  <2>2. x.state = "run" /\ x.step = b.step /\ x.dosing = InitDosing(b.step, b.dosing)
    BY <2>1 DEF IsEntered, SameWash
  <2>3. b.step \in Steps
    BY <2>1, StepsAreNumbers DEF Placed
  <2>4. b.dosing = {}
    <3>1. CASE b.dosing = r.dosing /\ r.state # "run"
      BY <3>1 DEF Dosed
    <3>2. CASE Undosed(r, b)
      BY <3>2 DEF Undosed, Dosed, DosedAt
    <3>. QED BY <2>1, <3>1, <3>2
  <2>5. DosedAt(x.step, x.dosing)
    BY <2>2, <2>3, <2>4, InitDosed
  <2>. QED BY <2>2, <2>5 DEF Dosed
<1>4. CASE Advances(r, x)
  <2>1. PICK q : (q = r \/ IsRan(r, q)) /\ GoesOn(q, x)
    BY <1>4 DEF Advances
  <2>2. q \in LineRecord /\ q.step = r.step /\ q.dosing = r.dosing
    BY <2>1 DEF IsRan, SameWash
  <2>3. PICK n, b :
          /\ n[1] \in Steps \ {0} /\ n[2] \in Parts \cup {-1}
          /\ q.step \in {109, 119} => n[1] = q.step - 3
          /\ b = AtStep(q, n) /\ b \in LineRecord /\ IsEntered(b, x)
    BY <2>1 DEF GoesOn
  <2>4. b.state = "run" /\ b.step = n[1] /\ b.dosing = r.dosing
    <3>1. n[1] \in Nat
      BY <2>3, StepsAreNumbers
    <3>. QED BY <2>2, <2>3, <3>1, AtStepIs
  <2>5. x.state = "run" /\ x.step = n[1] /\ x.dosing = InitDosing(n[1], r.dosing)
    BY <2>3, <2>4 DEF IsEntered, SameWash
  <2>6. \/ r.dosing = {} \/ (n[1] = 106 /\ r.dosing \subseteq {"NS"})
        \/ (n[1] = 116 /\ r.dosing \subseteq {"NK"})
    BY <2>2, <2>3 DEF Dosed, DosedAt
  <2>7. DosedAt(n[1], InitDosing(n[1], r.dosing))
    BY <1>0, <2>3, <2>6, InitDosed
  <2>. QED BY <2>5, <2>7 DEF Dosed
<1>5. CASE IsOver(r, x)
  BY <1>5 DEF Dosed, DosedAt, IsOver, Done
<1>. QED BY <1>1, <1>2, <1>3, <1>4, <1>5 DEF Outcome

-----------------------------------------------------------------------------
(***************************************************************************)
(* The fresh water.                                                        *)
(***************************************************************************)
Fresh(r) ==
    "V00" \in r.open /\ r.part \notin {10, 11} =>
        r.state = "run" /\ FreshAt(r.step, Configured(r))

(* The recipe a step reads depends on two fields of the line.              *)
LEMMA SameConfigured ==
    ASSUME NEW r, NEW x, x.obj = r.obj, x.flags = r.flags
    PROVE  Configured(x) = Configured(r)
BY DEF Configured

(* A step that is entered with V00 open looks after the water.             *)
LEMMA EnteredFresh ==
    ASSUME NEW b \in LineRecord, b.step \in Steps, b.state = "run", NEW x, IsEntered(b, x)
    PROVE  Fresh(x)
<1>1. x.state = "run" /\ x.step = b.step
  BY DEF IsEntered, SameWash
<1>2. x.obj = b.obj /\ x.flags = b.flags
  BY DEF IsEntered, SameWash
<1>3. Configured(x) = Configured(b)
  BY <1>2, SameConfigured
<1>4. PICK c : c \subseteq b.open /\ x.open \in InitOpen(b.step, c, b.prog, Configured(b))
  BY DEF IsEntered
<1>5. c \subseteq AllValves /\ b.prog \in Program
  BY <1>4 DEF LineRecord, AllValves
<1>6. ASSUME "V00" \in x.open PROVE FreshAt(b.step, Configured(b))
  <2>. DEFINE s == b.step  prog == b.prog  obj == Configured(b)  o == x.open
  <2>1. s \in Steps /\ prog \in Program /\ o \in InitOpen(s, c, prog, obj) /\ "V00" \in o
    BY <1>4, <1>5, <1>6
  <2>2. obj \in Recipe
    BY ConfiguredIs
  <2>. HIDE DEF s, prog, obj, o
  <2>3. FreshAt(s, obj)
    BY <1>5, <2>1, <2>2, InitFresh
  <2>. QED BY <2>3 DEF s, obj
<1>. QED BY <1>1, <1>3, <1>6 DEF Fresh

(* Where a recipe is chosen while a line runs, all the recipes of the plan *)
(* wash the same kind of object.                                           *)
SameKind(p) == "reload" \in p.commands => \A o \in p.recipes : o.isLine = p.blank.isLine
Kindred(r) == "reload" \in plan.commands => r.obj.isLine = plan.blank.isLine

(* ... so the recipe of a line is always one for this kind of object.      *)
LEMMA KindredStays ==
    ASSUME NEW r \in LineRecord, Kindred(r), SameKind(plan), NEW x, Outcome(r, x)
    PROVE  Kindred(x)
<1>1. CASE Rests(r, x) \/ Forced(r, x) \/ IsRan(r, x) \/ IsOver(r, x)
  <2>1. x.obj = r.obj
    BY <1>1 DEF Rests, SamePlace, Forced, SameWash, IsRan, IsOver
  <2>. QED BY <2>1 DEF Kindred
<1>2. CASE Chooses(r, x)
  <2>1. x.obj = r.obj \/ x.obj \in plan.recipes
    BY <1>2 DEF Chooses
  <2>. QED BY <2>1 DEF Kindred, SameKind
<1>3. CASE Enters(r, x)
  <2>1. PICK b \in LineRecord : IsEntered(b, x) /\ b.obj = r.obj
    BY <1>3 DEF Enters
  <2>2. x.obj = r.obj
    BY <2>1 DEF IsEntered, SameWash
  <2>. QED BY <2>2 DEF Kindred
<1>4. CASE Advances(r, x)
  <2>1. PICK q : (q = r \/ IsRan(r, q)) /\ GoesOn(q, x)
    BY <1>4 DEF Advances
  <2>2. q \in LineRecord /\ q.obj = r.obj
    BY <2>1 DEF IsRan, SameWash
  <2>3. PICK n, b :
          /\ n[1] \in Steps \ {0} /\ n[2] \in Parts \cup {-1}
          /\ b = AtStep(q, n) /\ IsEntered(b, x)
    BY <2>1 DEF GoesOn
  <2>4. n[1] \in Nat
    BY <2>3, StepsAreNumbers
  <2>5. b.obj = q.obj
    BY <2>2, <2>3, <2>4, AtStepIs
  <2>6. x.obj = r.obj
    BY <2>2, <2>3, <2>5 DEF IsEntered, SameWash
  <2>. QED BY <2>6 DEF Kindred
<1>. QED BY <1>1, <1>2, <1>3, <1>4 DEF Outcome

(* What looks after the water depends on two fields of the recipe.         *)
LEMMA SameWatch ==
    ASSUME NEW s, NEW o, NEW c, c.isLine = o.isLine, c.feed = o.feed, FreshAt(s, o)
    PROVE  FreshAt(s, c)
BY DEF FreshAt

(* No outcome leaves V00 open where nothing looks after the water.         *)
LEMMA FreshStays ==
    ASSUME NEW r \in LineRecord, Placed(r), Fresh(r), Kindred(r), SameKind(plan),
           "stray" \notin plan.commands, NEW x, Outcome(r, x)
    PROVE  Fresh(x)
<1>0. "V00" \notin Returns \cup TankValves
  BY DEF Returns, TankValves
<1>1. CASE Rests(r, x)
  <2>1. x.part = r.part
    BY <1>1 DEF Rests, SamePlace
  <2>2. CASE x.open \subseteq r.open \cap (Returns \cup TankValves)
    BY <1>0, <2>2 DEF Fresh
  <2>3. CASE x.open = r.open /\ r.state # "run"
    BY <2>1, <2>3 DEF Fresh
  <2>. QED BY <1>1, <2>2, <2>3 DEF Rests
<1>2. CASE Forced(r, x)
  <2>1. /\ x.state = r.state /\ x.open = r.open /\ x.part = r.part /\ x.step = r.step
        /\ x.obj = r.obj
    BY <1>2 DEF Forced, SameWash
  <2>2. x.flags = r.flags
    BY <1>2 DEF Forced, SameWash
  <2>3. Configured(x) = Configured(r)
    BY <2>1, <2>2, SameConfigured
  <2>. QED BY <2>1, <2>3 DEF Fresh
<1>3. CASE Chooses(r, x)
  <2>1. /\ x.state = r.state /\ x.open = r.open /\ x.part = r.part /\ x.step = r.step
        /\ x.obj = r.obj \/ r.state = "idle" \/ "reload" \in plan.commands
    BY <1>3 DEF Chooses
  <2>2. x.flags = r.flags /\ x \in LineRecord
    BY <1>3 DEF Chooses
  <2>3. Kindred(x)
    BY <1>3, KindredStays DEF Outcome
  <2>4. r.state # "idle" => x.obj.isLine = r.obj.isLine
    BY <2>1, <2>3 DEF Kindred
  <2>5. r.state # "idle" => /\ Configured(x).isLine = Configured(r).isLine
                           /\ Configured(x).feed = Configured(r).feed
    BY <2>2, <2>4, ConfiguredIs
  <2>6. r.state # "idle" /\ FreshAt(r.step, Configured(r)) => FreshAt(r.step, Configured(x))
    <3>. DEFINE s == r.step  o == Configured(r)  c == Configured(x)
    <3>. HIDE DEF s, o, c
    <3>1. c.isLine = o.isLine /\ c.feed = o.feed /\ FreshAt(s, o) => FreshAt(s, c)
      BY SameWatch
    <3>. QED BY <2>5, <3>1 DEF s, o, c
  <2>. QED BY <2>1, <2>6 DEF Fresh
<1>4. CASE Enters(r, x)
  <2>1. PICK b \in LineRecord :
          IsEntered(b, x) /\ b.state = "run" /\ b.step \in Steps
    BY <1>4, StepsAreNumbers DEF Enters, Placed
  <2>. QED BY <2>1, EnteredFresh
<1>5. CASE Advances(r, x)
  <2>1. PICK q : (q = r \/ IsRan(r, q)) /\ GoesOn(q, x)
    BY <1>5 DEF Advances
  <2>2. q \in LineRecord
    BY <2>1 DEF IsRan, SameWash
  <2>3. PICK n, b :
          /\ n[1] \in Steps \ {0} /\ n[2] \in Parts \cup {-1}
          /\ b = AtStep(q, n) /\ b \in LineRecord /\ IsEntered(b, x)
    BY <2>1 DEF GoesOn
  <2>4. n[1] \in Nat
    BY <2>3, StepsAreNumbers
  <2>5. b.state = "run" /\ b.step = n[1]
    BY <2>2, <2>3, <2>4, AtStepIs
  <2>. QED BY <2>3, <2>5, EnteredFresh
<1>6. CASE IsRan(r, x) /\ r.state = "run"
  <2>1. /\ x.state = r.state /\ x.part = r.part /\ x.step = r.step /\ x.obj = r.obj
        /\ x.open \in RunOpen(r.step, r.open, r.prog, Configured(r))
    BY <1>6 DEF IsRan, SameWash
  <2>2. x.flags = r.flags
    BY <1>6 DEF IsRan, SameWash
  <2>3. Configured(x) = Configured(r)
    BY <2>1, <2>2, SameConfigured
  <2>4. r.step \in Steps /\ r.prog \in Program
    BY DEF Placed, LineRecord
  <2>5. ASSUME "V00" \in x.open PROVE "V00" \in r.open \/ FreshAt(r.step, Configured(r))
    <3>. DEFINE s == r.step  open == r.open  prog == r.prog  obj == Configured(r)  o == x.open
    <3>1. s \in Steps /\ prog \in Program /\ o \in RunOpen(s, open, prog, obj) /\ "V00" \in o
      BY <2>1, <2>4, <2>5
    <3>2. obj \in Recipe
      BY ConfiguredIs
    <3>. HIDE DEF s, open, prog, obj, o
    <3>3. "V00" \in open \/ FreshAt(s, obj)
      BY <3>1, <3>2, RunFresh
    <3>. QED BY <3>3 DEF s, open, obj
  <2>. QED BY <1>6, <2>1, <2>3, <2>5 DEF Fresh
<1>7. CASE IsOver(r, x)
  BY <1>0, <1>7 DEF IsOver, Fresh
<1>. QED BY <1>1, <1>2, <1>3, <1>4, <1>5, <1>6, <1>7 DEF Outcome

-----------------------------------------------------------------------------
(***************************************************************************)
(* The part that is washed is one of the program, where no program is      *)
(* chosen while the line runs.                                             *)
(***************************************************************************)
OwnPart(r) == r.step \notin {0, Done} => r.part \in r.prog.parts

(* No outcome leads into a part that is not of the program.                *)
LEMMA OwnPartStays ==
    ASSUME NEW r \in LineRecord, Placed(r), OwnPart(r), "reselect" \notin plan.commands,
           NEW x, Outcome(r, x)
    PROVE  OwnPart(x)
<1>1. CASE Rests(r, x) \/ Forced(r, x) \/ IsRan(r, x)
  <2>1. x.step = r.step /\ x.part = r.part /\ x.prog = r.prog
    BY <1>1 DEF Rests, Forced, IsRan, SamePlace, SameWash
  <2>. QED BY <2>1 DEF OwnPart
<1>2. CASE Chooses(r, x)
  <2>1. x.step = r.step /\ x.part = r.part /\ (x.prog = r.prog \/ r.state = "idle")
    BY <1>2 DEF Chooses
  <2>. QED BY <2>1 DEF OwnPart, Placed
<1>3. CASE Enters(r, x)
  <2>1. PICK b \in LineRecord :
          /\ IsEntered(b, x) /\ b.part = r.part /\ b.prog = r.prog
          /\ b.step = r.step \/ b.step = Done
    BY <1>3 DEF Enters
  <2>2. x.step = b.step /\ x.part = b.part /\ x.prog = b.prog
    BY <2>1 DEF IsEntered, SameWash
  <2>. QED BY <2>1, <2>2 DEF OwnPart
<1>4. CASE Advances(r, x)
  <2>1. PICK q : (q = r \/ IsRan(r, q)) /\ q.step # Done /\ GoesOn(q, x)
    BY <1>4 DEF Advances
  <2>2. q \in LineRecord /\ q.step = r.step /\ q.part = r.part /\ q.prog = r.prog
    BY <2>1 DEF IsRan, SameWash
  <2>3. PICK n, b :
          /\ n = <<n[1], n[2]>> /\ n[1] \in Steps \ {0} /\ n[2] \in Parts \cup {-1}
          /\ Leads(n, q.step, q.part, q.prog)
          /\ b = AtStep(q, n) /\ b \in LineRecord /\ IsEntered(b, x)
    BY <2>1 DEF GoesOn
  <2>4. n[1] \in Nat
    BY <2>3, StepsAreNumbers
  <2>5. b.step = n[1] /\ b.part = n[2] /\ b.prog = r.prog
    BY <2>2, <2>3, <2>4, AtStepIs
  <2>6. x.step = n[1] /\ x.part = n[2] /\ x.prog = r.prog
    BY <2>3, <2>5 DEF IsEntered, SameWash
  <2>7. n[1] # Done => n[2] \in r.prog.parts
    <3>1. CASE q.step \notin LastSteps \/ q.step = 16
      <4>1. q.step # 0 /\ q.step # Done
        BY <2>1, <3>1 DEF LastSteps
      <4>2. q.part \in r.prog.parts
        BY <2>2, <4>1 DEF OwnPart
      <4>3. n = <<9, q.part>> => n[2] = q.part
        OBVIOUS
      <4>4. CASE n[1] = Done \/ n[2] \in q.prog.parts
        BY <2>2, <4>4
      <4>5. CASE n[2] = q.part
        BY <4>2, <4>5
      <4>. QED BY <2>3, <4>3, <4>4, <4>5 DEF Leads
    <3>2. CASE q.step \in LastSteps /\ q.step # 16
      BY <2>2, <2>3, <3>2 DEF Leads
    <3>. QED BY <3>1, <3>2
  <2>. QED BY <2>6, <2>7 DEF OwnPart
<1>5. CASE IsOver(r, x)
  BY <1>5 DEF IsOver, OwnPart
<1>. QED BY <1>1, <1>2, <1>3, <1>4, <1>5 DEF Outcome

-----------------------------------------------------------------------------
(***************************************************************************)
(* The line that cleans the tanks, where no program is chosen while a line *)
(* runs, and a program that cleans the tanks does nothing else.            *)
(***************************************************************************)
Inactive(r) == r.state \in {"idle", "blocked"} /\ r.step = 0
Known(r) == r.prog \in plan.programs \cup {NoProgram}
(* A line that is about to clean the tanks has them for itself.            *)
Owns(l) == 11 \in line[l].prog.parts /\ ~ Inactive(line[l]) => scline = l
Alone == scline # 0 => \A m \in Lines \ {scline} : Inactive(line[m])

(* Only Start takes a line out of its rest.                                *)
LEMMA RestStays ==
    ASSUME NEW l \in Lines, line \in [Lines -> LineRecord], Placed(line[l]), Inactive(line[l]),
           plan \in Plans,
           \/ Lock(l) \/ Unlock(l) \/ Select(l) \/ NextStep(l) \/ Pause(l) \/ Reset(l)
           \/ ForceRet(l) \/ Resume(l) \/ StepGoesOn(l) \/ StepIsOver(l)
           \/ StepFails(l) \/ Finish(l) \/ ObjectReady(l)
    PROVE  Inactive(line'[l])
<1>0. line[l] \in LineRecord /\ line[l].state \in {"idle", "blocked"} /\ line[l].step = 0
  BY DEF Inactive
<1>1. CASE Lock(l)
  <2>1. PICK x : Rests(line[l], x) /\ line' = [line EXCEPT ![l] = x]
    BY <1>0, <1>1, LockIs
  <2>2. x.state = "blocked"
    <3>. DEFINE r == line[l]  q == [r EXCEPT !.blocked = TRUE]
                b == [q EXCEPT !.state = "blocked"]
    <3>1. r \in LineRecord /\ r.state # "run"
      BY <1>0
    <3>2. q \in LineRecord /\ q.state = r.state
      <4>. HIDE DEF r
      <4>. QED BY <3>1 DEF LineRecord
    <3>3. line' = [line EXCEPT ![l] = StopDev(l, b)]
      BY <1>1, <3>1, <3>2 DEF Lock, LineBecomes
    <3>4. b \in LineRecord /\ b.state = "blocked"
      <4>. HIDE DEF q
      <4>. QED BY <3>2, StateSet DEF LineStates, SameWash
    <3>. HIDE DEF b
    <3>5. StopDev(l, b).state = "blocked"
      BY <3>4, StopDevIs
    <3>. QED BY <2>1, <3>3, <3>5
  <2>. QED BY <1>0, <2>1, <2>2 DEF Inactive, Rests, SamePlace
<1>2. CASE Unlock(l)
  <2>. DEFINE r == line[l]  x == [r EXCEPT !.blocked = FALSE, !.state = "idle"]
  <2>1. line' = [line EXCEPT ![l] = x]
    <3>. DEFINE s == IF line[l].step > 0 THEN "paused" ELSE "idle"
    <3>1. line' = [line EXCEPT ![l] = [r EXCEPT !.blocked = FALSE, !.state = s]]
      BY <1>2 DEF Unlock, LineBecomes
    <3>2. s = "idle"
      BY <1>0
    <3>. HIDE DEF s
    <3>. QED BY <3>1, <3>2
  <2>2. x.state = "idle" /\ x.step = 0
    <3>1. r \in LineRecord /\ r.step = 0
      BY <1>0
    <3>. HIDE DEF r
    <3>. QED BY <3>1 DEF LineRecord
  <2>. HIDE DEF x
  <2>. QED BY <2>1, <2>2 DEF Inactive
<1>3. CASE Select(l)
  <2>1. PICK x : Chooses(line[l], x) /\ line' = [line EXCEPT ![l] = x]
    BY <1>0, <1>3, SelectIs
  <2>. QED BY <1>0, <2>1 DEF Inactive, Chooses
<1>4. CASE Reset(l)
  <2>1. ~ line[l].blocked
    BY <1>4 DEF Reset
  <2>2. line[l].state = "idle"
    BY <1>0, <2>1 DEF Placed
  <2>. DEFINE r == line[l]  x == [r EXCEPT !.prog = NoProgram, !.hasRecipe = FALSE]
  <2>3. line' = [line EXCEPT ![l] = x]
    BY <1>4, <2>2 DEF Reset, LineBecomes
  <2>4. x.state = "idle" /\ x.step = 0
    <3>1. r \in LineRecord /\ r.step = 0 /\ r.state = "idle"
      BY <1>0, <2>2
    <3>. HIDE DEF r
    <3>. QED BY <3>1 DEF LineRecord
  <2>. HIDE DEF x
  <2>. QED BY <2>3, <2>4 DEF Inactive
<1>5. CASE ForceRet(l)
  <2>1. PICK x : Forced(line[l], x) /\ line' = [line EXCEPT ![l] = x]
    BY <1>0, <1>5, ForceRetIs
  <2>. QED BY <1>0, <2>1 DEF Inactive, Forced, SameWash
<1>6. CASE NextStep(l) \/ Resume(l)
  <2>1. ~ line[l].blocked /\ line[l].state # "idle"
    BY <1>6 DEF NextStep, Resume
  <2>. QED BY <1>0, <2>1 DEF Placed
<1>7. CASE Pause(l) \/ StepGoesOn(l) \/ StepIsOver(l) \/ StepFails(l) \/ Finish(l)
  BY <1>0, <1>7 DEF Pause, StepGoesOn, StepIsOver, StepFails, Finish
<1>8. CASE ObjectReady(l)
  BY <1>0, <1>8 DEF ObjectReady
<1>. QED BY <1>1, <1>2, <1>3, <1>4, <1>5, <1>6, <1>7, <1>8

(* The program stays with the line while it washes.                        *)
LEMMA ProgramStays ==
    ASSUME NEW r \in LineRecord, Placed(r), "reselect" \notin plan.commands,
           NEW x, Outcome(r, x)
    PROVE  /\ x.prog \in plan.programs \cup {NoProgram, r.prog}
           /\ ~ Inactive(r) => x.prog \in {r.prog, NoProgram}
<1>1. CASE Rests(r, x) \/ Forced(r, x) \/ IsRan(r, x)
  BY <1>1 DEF Rests, Forced, IsRan, SamePlace, SameWash
<1>2. CASE Chooses(r, x)
  BY <1>2 DEF Chooses, Inactive, Placed
<1>3. CASE Enters(r, x)
  BY <1>3 DEF Enters, IsEntered, SameWash
<1>4. CASE Advances(r, x)
  <2>1. PICK q : (q = r \/ IsRan(r, q)) /\ GoesOn(q, x)
    BY <1>4 DEF Advances
  <2>2. q \in LineRecord /\ q.prog = r.prog
    BY <2>1 DEF IsRan, SameWash
  <2>3. PICK n, b :
          /\ n[1] \in Steps \ {0} /\ n[2] \in Parts \cup {-1}
          /\ b = AtStep(q, n) /\ b \in LineRecord /\ IsEntered(b, x)
    BY <2>1 DEF GoesOn
  <2>4. n[1] \in Nat
    BY <2>3, StepsAreNumbers
  <2>5. b.prog = r.prog
    BY <2>2, <2>3, <2>4, AtStepIs
  <2>. QED BY <2>3, <2>5 DEF IsEntered, SameWash
<1>5. CASE IsOver(r, x)
  BY <1>5 DEF IsOver
<1>. QED BY <1>1, <1>2, <1>3, <1>4, <1>5 DEF Outcome

LineActs(l) ==
    \/ Lock(l) \/ Unlock(l) \/ Select(l) \/ NextStep(l) \/ Pause(l) \/ Reset(l)
    \/ ForceRet(l) \/ Start(l) \/ Resume(l) \/ StepGoesOn(l) \/ StepIsOver(l)
    \/ StepFails(l) \/ Finish(l) \/ ObjectReady(l)

(* One line acts, the others stay; scline changes at the start and the end *)
(* of a self-cleaning.                                                     *)
LEMMA OneActs ==
    ASSUME NEW l \in plan.lines, plan \in Plans, line \in [Lines -> LineRecord],
           \A m \in Lines : Placed(line[m]), LineActs(l)
    PROVE  /\ l \in Lines /\ plan' = plan
           /\ \E x : Outcome(line[l], x) /\ line' = [line EXCEPT ![l] = x]
           /\ \/ Start(l)
              \/ Finish(l) /\ scline' = (IF scline = l THEN 0 ELSE scline)
              \/ scline' = scline /\ (Inactive(line[l]) => Inactive(line'[l]))
<1>1. l \in Lines
  BY PlansAssumption
<1>2. line[l] \in LineRecord /\ Placed(line[l])
  BY <1>1
<1>3. \E x : Outcome(line[l], x) /\ line' = [line EXCEPT ![l] = x]
  BY <1>2, ActionsAre DEF LineActs
<1>4. plan' = plan
  BY DEF LineActs, Lock, Unlock, Select, NextStep, Pause, Reset, ForceRet, Start, Resume,
     StepGoesOn, StepIsOver, StepFails, Finish, ObjectReady
<1>5. CASE Start(l)
  BY <1>1, <1>3, <1>4, <1>5
<1>6. CASE Finish(l)
  BY <1>1, <1>3, <1>4, <1>6 DEF Finish
<1>7. CASE \/ Lock(l) \/ Unlock(l) \/ Select(l) \/ NextStep(l) \/ Pause(l) \/ Reset(l)
           \/ ForceRet(l) \/ Resume(l) \/ StepGoesOn(l) \/ StepIsOver(l)
           \/ StepFails(l) \/ ObjectReady(l)
  <2>1. scline' = scline
    BY <1>7 DEF Lock, Unlock, Select, NextStep, Pause, Reset, ForceRet, Resume,
       StepGoesOn, StepIsOver, StepFails, ObjectReady
  <2>2. Inactive(line[l]) => Inactive(line'[l])
    BY <1>1, <1>2, <1>7, RestStays
  <2>. QED BY <1>1, <1>3, <1>4, <2>1, <2>2
<1>. QED BY <1>5, <1>6, <1>7 DEF LineActs

(* Operators that choose a program only for an idle line, and programs     *)
(* that clean the tanks or wash, not both.                                 *)
CleanHabits(p) ==
    /\ "reselect" \notin p.commands
    /\ \A q \in p.programs : 11 \in q.parts => q.parts = {11}

(* Self-cleaning stays alone: Start looks at all the other lines, only     *)
(* Finish frees the tanks, and a line at rest leaves it only by Start.     *)
LEMMA AloneStays ==
    ASSUME NEW l \in plan.lines, plan \in Plans, line \in [Lines -> LineRecord],
           scline \in Lines \cup {0}, \A m \in Lines : Placed(line[m]), LineActs(l),
           CleanHabits(plan), \A m \in Lines : Known(line[m]) /\ Owns(m), Alone
    PROVE  (\A m \in Lines : Known(line[m]) /\ Owns(m))' /\ Alone'
<1>1. /\ l \in Lines /\ plan' = plan
      /\ \/ Start(l)
         \/ Finish(l) /\ scline' = (IF scline = l THEN 0 ELSE scline)
         \/ scline' = scline /\ (Inactive(line[l]) => Inactive(line'[l]))
  BY OneActs
<1>2. PICK x : Outcome(line[l], x) /\ line' = [line EXCEPT ![l] = x]
  BY OneActs
<1>3. line[l] \in LineRecord /\ Placed(line[l])
  BY <1>1
<1>4. /\ x.prog \in plan.programs \cup {NoProgram, line[l].prog}
      /\ ~ Inactive(line[l]) => x.prog \in {line[l].prog, NoProgram}
  BY <1>2, <1>3, ProgramStays DEF CleanHabits
<1>5. line'[l] = x /\ \A m \in Lines \ {l} : line'[m] = line[m]
  BY <1>1, <1>2
<1>6. 11 \notin NoProgram.parts
  BY DEF NoProgram
<1>7. (\A m \in Lines : Known(line[m]))'
  BY <1>1, <1>4, <1>5 DEF Known
<1>8. Known(line[l]) /\ Owns(l)
  BY <1>1
<1>9. CASE scline' = scline /\ (Inactive(line[l]) => Inactive(x))
  <2>1. Owns(l)'
    BY <1>4, <1>5, <1>6, <1>8, <1>9 DEF Owns
  <2>2. \A m \in Lines \ {l} : Owns(m)'
    BY <1>5, <1>9 DEF Owns
  <2>3. Alone'
    BY <1>1, <1>5, <1>9 DEF Alone
  <2>. QED BY <1>7, <2>1, <2>2, <2>3
<1>10. CASE Finish(l) /\ scline' = (IF scline = l THEN 0 ELSE scline)
  <2>1. Inactive(x)
    <3>1. line[l].state = "run"
      BY <1>10 DEF Finish
    <3>2. PICK y : IsOver(line[l], y) /\ line' = [line EXCEPT ![l] = y]
      BY <1>3, <1>10, FinishIs
    <3>3. x = y
      BY <1>1, <1>5, <3>2
    <3>. QED BY <3>2, <3>3 DEF IsOver, Inactive
  <2>2. Owns(l)'
    BY <1>5, <2>1 DEF Owns
  <2>3. \A m \in Lines \ {l} : Owns(m)'
    <3>1. CASE scline = l
      <4>1. \A m \in Lines \ {l} : Inactive(line[m])
        BY <1>1, <3>1, LinesAssumption DEF Alone
      <4>. QED BY <1>5, <4>1 DEF Owns
    <3>2. CASE scline # l
      BY <1>5, <1>10, <3>2 DEF Owns
    <3>. QED BY <3>1, <3>2
  <2>4. Alone'
    BY <1>1, <1>5, <1>10, <2>1 DEF Alone
  <2>. QED BY <1>7, <2>2, <2>3, <2>4
<1>11. CASE Start(l)
  <2>1. /\ scline \in {0, l} /\ line[l].state = "idle"
        /\ scline' = IF SelfClean(line[l].prog) THEN l ELSE scline
        /\ scline = 0 /\ SelfClean(line[l].prog) => \A m \in Lines \ {l} : line[m].state = "idle"
    BY <1>11 DEF Start, MayStart
  <2>2. x.prog = line[l].prog
    <3>1. PICK y : /\ Enters(line[l], y) \/ Rests(line[l], y)
                   /\ line' = [line EXCEPT ![l] = y]
      BY <1>3, <1>11, StartIs
    <3>2. x = y
      BY <1>1, <1>5, <3>1
    <3>. QED BY <3>1, <3>2 DEF Enters, Rests, IsEntered, SameWash, SamePlace
  <2>3. scline = l => \A m \in Lines \ {l} : Inactive(line[m])
    BY <1>1, LinesAssumption DEF Alone
  <2>4. CASE SelfClean(line[l].prog)
    <3>1. \A m \in Lines \ {l} : Inactive(line[m])
      BY <2>1, <2>3, <2>4 DEF Inactive, Placed
    <3>2. scline' = l
      BY <2>1, <2>4
    <3>. QED BY <1>1, <1>5, <1>7, <3>1, <3>2 DEF Owns, Alone
  <2>5. CASE ~ SelfClean(line[l].prog)
    <3>1. 11 \notin line[l].prog.parts
      BY <1>6, <1>8, <2>5 DEF Known, CleanHabits, SelfClean
    <3>2. scline' = scline
      BY <2>1, <2>5
    <3>3. Owns(l)'
      BY <1>5, <2>2, <3>1 DEF Owns
    <3>4. \A m \in Lines \ {l} : Owns(m)'
      BY <1>5, <3>2 DEF Owns
    <3>5. Alone'
      BY <1>1, <1>5, <2>1, <2>3, <3>2 DEF Alone
    <3>. QED BY <1>7, <3>3, <3>4, <3>5
  <2>. QED BY <2>4, <2>5
<1>. QED BY <1>1, <1>5, <1>9, <1>10, <1>11

-----------------------------------------------------------------------------
(***************************************************************************)
(* The invariants of the station.                                          *)
(***************************************************************************)
(* With any commands of the operators: the types, where the lines stand,   *)
(* and the media.                                                          *)
StationInv ==
    /\ line \in [Lines -> LineRecord] /\ scline \in Lines \cup {0} /\ plan \in Plans
    /\ \A l \in Lines : Placed(line[l]) /\ Apart(line[l])
(* Where no line is unlocked that was not locked.                          *)
StillInv == \A l \in Lines : Still(line[l]) /\ Dosed(line[l])
(* And where the recipes a line is given while it runs are of one kind.    *)
FreshInv == \A l \in Lines : Fresh(line[l]) /\ Kindred(line[l])
(* Where no program is chosen while a line runs.                           *)
PartInv == \A l \in Lines : OwnPart(line[l])
(* And where the program that cleans the tanks does nothing else.          *)
CleanInv == (\A l \in Lines : Known(line[l]) /\ Owns(l)) /\ Alone

(* The blank lines at the start.                                           *)
LEMMA StartsBlank ==
    ASSUME CipInit
    PROVE  StationInv /\ StillInv /\ FreshInv /\ PartInv /\ CleanInv
<1>1. plan \in Plans /\ plan.blank \in Recipe /\ scline = 0
  BY PlansAssumption DEF CipInit
<1>. DEFINE y == BlankLine(plan)
<1>2. line = [l \in Lines |-> y]
  BY DEF CipInit
<1>3. /\ y \in LineRecord /\ y.state = "idle" /\ y.step = 0 /\ y.part = -1
      /\ y.prog = NoProgram /\ y.open = {} /\ y.dosing = {}
  BY <1>1, BlankLineIs
<1>4. /\ y.blocked = FALSE /\ y.ret = FALSE /\ y.reset = FALSE
      /\ y.obj = plan.blank
  BY <1>1, BlankLineIs
<1>. HIDE DEF y
<1>5. line \in [Lines -> LineRecord] /\ \A l \in Lines : line[l] = y
  BY <1>2, <1>3
<1>6. Placed(y)
  BY <1>3, <1>4, StepsAreNumbers DEF Placed
<1>7. Apart(y)
  <2>1. 0 \notin Pump
    BY DEF Pump
  <2>. QED BY <1>3, <2>1 DEF Apart, ApartAt, ApartBut, OneReturn
<1>8. Still(y) /\ Dosed(y) /\ Fresh(y) /\ Kindred(y) /\ OwnPart(y)
  BY <1>3, <1>4 DEF Still, Dosed, Fresh, Kindred, OwnPart
<1>9. Inactive(y) /\ Known(y)
  BY <1>3 DEF Inactive, Known
<1>10. StationInv
  BY <1>1, <1>5, <1>6, <1>7 DEF StationInv
<1>11. StillInv /\ FreshInv /\ PartInv
  BY <1>5, <1>8 DEF StillInv, FreshInv, PartInv
<1>12. CleanInv
  BY <1>1, <1>5, <1>9 DEF CleanInv, Owns, Alone
<1>. QED BY <1>10, <1>11, <1>12

(* A step of the station, as what one line does.                           *)
LEMMA StationStep ==
    ASSUME StationInv, CipNext
    PROVE  \E l \in Lines :
             /\ l \in plan.lines /\ LineActs(l) /\ plan' = plan
             /\ \E x : Outcome(line[l], x) /\ line' = [line EXCEPT ![l] = x]
<1>1. PICK l \in plan.lines : LineActs(l)
  BY DEF CipNext, LineActs
<1>. QED BY <1>1, OneActs DEF StationInv

(* What a line keeps in all it does, every line keeps.                     *)
LEMMA StationStays ==
    ASSUME StationInv, [CipNext]_cipVars
    PROVE  StationInv'
<1>1. CASE CipNext
  <2>1. PICK l \in Lines :
          /\ l \in plan.lines /\ LineActs(l) /\ plan' = plan
          /\ \E x : Outcome(line[l], x) /\ line' = [line EXCEPT ![l] = x]
    BY <1>1, StationStep
  <2>2. PICK x : Outcome(line[l], x) /\ line' = [line EXCEPT ![l] = x]
    BY <2>1
  <2>3. line[l] \in LineRecord /\ Placed(line[l]) /\ Apart(line[l])
    BY DEF StationInv
  <2>4. x \in LineRecord /\ Placed(x)
    BY <2>2, <2>3, PlacedStays
  <2>5. Apart(x)
    BY <2>2, <2>3, ApartStays
  <2>6. line' \in [Lines -> LineRecord]
    BY <2>2, <2>4 DEF StationInv
  <2>7. \A m \in Lines : Placed(line'[m]) /\ Apart(line'[m])
    BY <2>2, <2>4, <2>5 DEF StationInv
  <2>8. scline' \in Lines \cup {0}
    <3>1. \/ Start(l)
          \/ Finish(l) /\ scline' = (IF scline = l THEN 0 ELSE scline)
          \/ scline' = scline
      BY <2>1, OneActs DEF StationInv
    <3>2. Start(l) => scline' \in {l, scline}
      BY DEF Start
    <3>. QED BY <3>1, <3>2 DEF StationInv
  <2>. QED BY <2>1, <2>6, <2>7, <2>8 DEF StationInv
<1>2. CASE UNCHANGED cipVars
  BY <1>2 DEF StationInv, cipVars
<1>. QED BY <1>1, <1>2

(* A step of the station keeps what holds without stray unlocks.           *)
LEMMA StillInvStays ==
    ASSUME StationInv, StillInv, "stray" \notin plan.commands, [CipNext]_cipVars
    PROVE  StillInv'
<1>1. CASE CipNext
  <2>0. PICK l \in Lines : \E x : Outcome(line[l], x) /\ line' = [line EXCEPT ![l] = x]
    BY <1>1, StationStep
  <2>1. PICK x : Outcome(line[l], x) /\ line' = [line EXCEPT ![l] = x]
    BY <2>0
  <2>2. line[l] \in LineRecord /\ Placed(line[l]) /\ Still(line[l]) /\ Dosed(line[l])
    BY DEF StationInv, StillInv
  <2>3. Still(x) /\ Dosed(x)
    BY <2>1, <2>2, StillStays, DosedStays
  <2>. QED BY <2>1, <2>3 DEF StationInv, StillInv
<1>2. CASE UNCHANGED cipVars
  BY <1>2 DEF StillInv, cipVars
<1>. QED BY <1>1, <1>2

(* ... and the watch over the fresh water.                                 *)
LEMMA FreshInvStays ==
    ASSUME StationInv, FreshInv, SameKind(plan), "stray" \notin plan.commands,
           [CipNext]_cipVars
    PROVE  FreshInv'
<1>1. CASE CipNext
  <2>0. PICK l \in Lines : /\ plan' = plan
                           /\ \E x : Outcome(line[l], x) /\ line' = [line EXCEPT ![l] = x]
    BY <1>1, StationStep
  <2>1. PICK x : Outcome(line[l], x) /\ line' = [line EXCEPT ![l] = x]
    BY <2>0
  <2>2. line[l] \in LineRecord /\ Placed(line[l]) /\ Fresh(line[l]) /\ Kindred(line[l])
    BY DEF StationInv, FreshInv
  <2>3. Fresh(x) /\ Kindred(x)
    BY <2>1, <2>2, FreshStays, KindredStays
  <2>4. \A m \in Lines : line'[m] = IF m = l THEN x ELSE line[m]
    BY <2>1 DEF StationInv
  <2>5. \A m \in Lines : Fresh(line'[m]) /\ Kindred(line'[m])
    BY <2>3, <2>4 DEF FreshInv
  <2>. QED BY <2>0, <2>5 DEF FreshInv, Kindred
<1>2. CASE UNCHANGED cipVars
  BY <1>2 DEF FreshInv, Kindred, cipVars
<1>. QED BY <1>1, <1>2

(* ... what holds without a program chosen while a line runs.              *)
LEMMA PartInvStays ==
    ASSUME StationInv, PartInv, "reselect" \notin plan.commands, [CipNext]_cipVars
    PROVE  PartInv'
<1>1. CASE CipNext
  <2>0. PICK l \in Lines : \E x : Outcome(line[l], x) /\ line' = [line EXCEPT ![l] = x]
    BY <1>1, StationStep
  <2>1. PICK x : Outcome(line[l], x) /\ line' = [line EXCEPT ![l] = x]
    BY <2>0
  <2>2. line[l] \in LineRecord /\ Placed(line[l]) /\ OwnPart(line[l])
    BY DEF StationInv, PartInv
  <2>3. OwnPart(x)
    BY <2>1, <2>2, OwnPartStays
  <2>. QED BY <2>1, <2>3 DEF StationInv, PartInv
<1>2. CASE UNCHANGED cipVars
  BY <1>2 DEF PartInv, cipVars
<1>. QED BY <1>1, <1>2

(* ... and what holds of the self-cleaning.                                *)
LEMMA CleanInvStays ==
    ASSUME StationInv, CleanInv, CleanHabits(plan), [CipNext]_cipVars
    PROVE  CleanInv'
<1>1. CASE CipNext
  <2>1. PICK l \in plan.lines : LineActs(l)
    BY <1>1, StationStep
  <2>. QED BY <2>1, AloneStays DEF StationInv, CleanInv
<1>2. CASE UNCHANGED cipVars
  <2>1. Alone'
    BY <1>2 DEF CleanInv, Alone, cipVars
  <2>2. (\A l \in Lines : Known(line[l]) /\ Owns(l))'
    BY <1>2 DEF CleanInv, Known, Owns, cipVars
  <2>. QED BY <2>1, <2>2 DEF CleanInv
<1>. QED BY <1>1, <1>2

(* The plan of a behaviour never changes.                                  *)
LEMMA PlanStays ==
    ASSUME StationInv, [CipNext]_cipVars
    PROVE  plan' = plan
BY StationStep DEF cipVars

(* The invariant of the station, whatever the operators do.                *)
LEMMA StationAlways == CipSpec => []StationInv
<1>1. CipInit => StationInv
  BY StartsBlank
<1>2. StationInv /\ [CipNext]_cipVars => StationInv'
  BY StationStays
<1>. QED BY <1>1, <1>2, PTL DEF CipSpec

-----------------------------------------------------------------------------
(***************************************************************************)
(* The theorems.                                                           *)
(***************************************************************************)
(* A line of a station is of its types, and stands at a step of the part   *)
(* it washes; that the part is one of its program needs operators that     *)
(* choose no program while the line runs.                                  *)
THEOREM StationTypes ==
    ASSUME \A p \in Plans : "reselect" \notin p.commands
    PROVE  CipSpec => []CipTypeOK
<1>1. CipInit => StationInv /\ PartInv
  BY StartsBlank
<1>2. StationInv /\ PartInv /\ [CipNext]_cipVars => StationInv' /\ PartInv'
  <2>. SUFFICES ASSUME StationInv, PartInv, [CipNext]_cipVars
                PROVE  StationInv' /\ PartInv'
    OBVIOUS
  <2>1. "reselect" \notin plan.commands
    BY DEF StationInv
  <2>. QED BY <2>1, StationStays, PartInvStays
<1>3. StationInv /\ PartInv => CipTypeOK
  BY DEF StationInv, PartInv, CipTypeOK, StepOfPart, Placed, OwnPart
<1>. QED BY <1>1, <1>2, <1>3, PTL DEF CipSpec

(* Steps of a part that is not the self-cleaning do not pump tanks empty.  *)
LEMMA PumpIsOfEleven ==
    ASSUME NEW s, NEW p \in Parts, p # 11, s \in StepsOfPart(p)
    PROVE  s \notin Pump
BY DEF StepsOfPart, Pump, Parts

(* Step 300 is the script of part 10.                                      *)
LEMMA ThreeHundredIsOfTen ==
    ASSUME NEW p \in Parts, p # 10, 300 \in StepsOfPart(p)
    PROVE  FALSE
BY DEF StepsOfPart, Parts

(* Two ways back at most one of which is open.                             *)
LEMMA OneReturnCounts ==
    ASSUME NEW o, OneReturn(o)
    PROVE  Cardinality(o \intersect Returns) <= 1
<1>1. CASE o \cap Returns = {}
  BY <1>1, FS_EmptySet
<1>2. CASE o \cap Returns # {}
  <2>1. PICK x : x \in o \cap Returns
    BY <1>2
  <2>2. o \cap Returns = {x}
    BY <2>1 DEF OneReturn
  <2>. QED BY <2>2, FS_Singleton
<1>. QED BY <1>1, <1>2

(* The kinds of steps that fill the circulation tank, of fresh water.      *)
LEMMA FreshFillIs ==
    ASSUME NEW s \in FreshFill \cap Steps
    PROVE  Work[s].do = "fillTank" /\ Work[s].from = "WATER"
<1>. DEFINE do == Work[s].do  f == Work[s].from  t == Work[s].to
<1>1. IsRow(s, do, f, t) /\ s \in FreshFill
  BY WorkRow
<1>. HIDE DEF do, f, t
<1>2. <<s, f, t>> \notin ToObjectSteps
  BY <1>1 DEF ToObjectSteps, FreshFill
<1>3. <<s, f, t>> \notin FromObjectSteps /\ <<s, f, t>> \notin EmptyObjectSteps
  BY <1>1 DEF FromObjectSteps, EmptyObjectSteps, FreshFill
<1>4. <<s, f, t>> \notin CirculateSteps /\ <<s, f, t>> \notin EmptyTankSteps
  BY <1>1 DEF CirculateSteps, EmptyTankSteps, FreshFill
<1>5. <<s, f, t>> \notin PumpSteps
  BY <1>1 DEF PumpSteps, FreshFill
<1>6. s \notin {0, 76, 300, Done, 105, 115, 106, 116, 108, 118, 109, 119, 111, 121}
  BY <1>1 DEF FreshFill, Done
<1>7. do = "fillTank" /\ <<s, f, t>> \in FillSteps
  BY <1>1, <1>2, <1>3, <1>4, <1>5, <1>6 DEF IsRow
<1>8. f = "WATER"
  BY <1>1, <1>7 DEF FillSteps, FreshFill
<1>. QED BY <1>7, <1>8 DEF do, f

(* Outside the self-cleaning the media stay apart, whatever the operators  *)
(* do and the plant answers, and whatever a step inherits from the one     *)
(* before (InitStep and DoStep of cipline_tech_object).                    *)
THEOREM MediaStayApart == CipSpec => []TanksApart
<1>1. StationInv => TanksApart
  <2>. SUFFICES ASSUME StationInv, NEW l \in Lines, Washing(l)
                PROVE  LET o == line[l].open  fill == Work[line[l].step].do = "fillTank"
                           fresh == fill /\ Work[line[l].step].from = "WATER"
                       IN /\ ~ {"V02", "V03"} \subseteq o /\ ~ {"V08", "V09"} \subseteq o
                          /\ ~ {"V03", "V08"} \subseteq o /\ ~ {"V02", "V09"} \subseteq o
                          /\ ~ {"V05", "V06"} \subseteq o
                          /\ fresh \/ Cardinality(o \intersect Returns) <= 1
    BY DEF TanksApart
  <2>. DEFINE r == line[l]  o == r.open  s == r.step
  <2>1. r \in LineRecord /\ Placed(r) /\ Apart(r) /\ r.part # 11
    BY DEF StationInv, Washing
  <2>2. s \in Steps /\ s \notin Pump
    <3>1. 0 \notin Pump /\ Done \notin Pump
      BY DEF Pump, Done
    <3>. QED BY <2>1, <3>1, PumpIsOfEleven DEF Placed
  <2>3. ApartAt(s, o)
    BY <2>1, <2>2 DEF Apart
  <2>4. CausticSteps \cap AcidSteps = {}
    BY DEF CausticSteps, AcidSteps
  <2>. HIDE DEF r, o, s
  <2>5. /\ ~ {"V02", "V03"} \subseteq o /\ ~ {"V08", "V09"} \subseteq o
        /\ ~ {"V03", "V08"} \subseteq o /\ ~ {"V02", "V09"} \subseteq o
        /\ ~ {"V05", "V06"} \subseteq o
    BY <2>3, <2>4 DEF ApartAt, ApartBut
  <2>6. CASE s \in FreshFill
    BY <2>2, <2>5, <2>6, FreshFillIs DEF r, s, o
  <2>7. CASE s \notin FreshFill
    <3>1. Cardinality(o \intersect Returns) <= 1
      BY <2>3, <2>7, OneReturnCounts DEF ApartAt
    <3>. QED BY <2>5, <3>1 DEF r, s, o
  <2>. QED BY <2>6, <2>7
<1>. QED BY <1>1, StationAlways, PTL

(* A line that does not run pumps nothing and doses nothing, and a line    *)
(* doses only at its step: Stop and StopDev reach every device, where the  *)
(* operators unlock only what is locked.                                   *)
THEOREM StandingLinesAreStill ==
    ASSUME \A p \in Plans : "stray" \notin p.commands
    PROVE  CipSpec => []StoppedIsStill
<1>1. CipInit => StationInv /\ StillInv
  BY StartsBlank
<1>2. StationInv /\ StillInv /\ [CipNext]_cipVars => StationInv' /\ StillInv'
  <2>. SUFFICES ASSUME StationInv, StillInv, [CipNext]_cipVars
                PROVE  StationInv' /\ StillInv'
    OBVIOUS
  <2>1. "stray" \notin plan.commands
    BY DEF StationInv
  <2>. QED BY <2>1, StationStays, StillInvStays
<1>3. StationInv /\ StillInv => StoppedIsStill
  BY DEF StillInv, StoppedIsStill, Still, Dosed, DosedAt, Driven
<1>. QED BY <1>1, <1>2, <1>3, PTL DEF CipSpec

(* Fresh water runs only while a step of a running line looks after it,    *)
(* where the operators unlock only what is locked and, while a line runs,  *)
(* give it only recipes for the same kind of object.                       *)
THEOREM FreshWaterIsWatched ==
    ASSUME \A p \in Plans : "stray" \notin p.commands /\ SameKind(p)
    PROVE  CipSpec => []FreshWaterWatched
<1>1. CipInit => StationInv /\ FreshInv
  BY StartsBlank
<1>2. StationInv /\ FreshInv /\ [CipNext]_cipVars => StationInv' /\ FreshInv'
  <2>. SUFFICES ASSUME StationInv, FreshInv, [CipNext]_cipVars
                PROVE  StationInv' /\ FreshInv'
    OBVIOUS
  <2>1. "stray" \notin plan.commands /\ SameKind(plan)
    BY DEF StationInv
  <2>. QED BY <2>1, StationStays, FreshInvStays
<1>3. StationInv /\ FreshInv => FreshWaterWatched
  <2>. SUFFICES ASSUME StationInv, FreshInv, NEW l \in Lines,
                       "V00" \in line[l].open, line[l].part \notin {10, 11}
                PROVE  /\ line[l].state = "run" /\ line[l].step \in Steps
                       /\ \/ Work[line[l].step].do \in {"refill", "fillTank"} \/ Instant(line[l])
                          \/ \E c \in IntakeChoices(line[l].step, line[l].open, line[l].prog,
                                                     Configured(line[l])) : "V00" \notin c
    BY DEF FreshWaterWatched
  <2>1. /\ line[l] \in LineRecord /\ Placed(line[l]) /\ Fresh(line[l])
    BY DEF StationInv, FreshInv
  <2>2. line[l].state = "run" /\ FreshAt(line[l].step, Configured(line[l]))
    BY <2>1 DEF Fresh
  <2>3. line[l].step \in Steps \ (Pump \cup {300})
    <3>1. 0 \notin Pump \cup {300} /\ Done \notin Pump \cup {300}
      BY DEF Pump, Done
    <3>. QED BY <2>1, <3>1, PumpIsOfEleven, ThreeHundredIsOfTen DEF Placed
  <2>. DEFINE s == line[l].step  open == line[l].open  prog == line[l].prog
              obj == Configured(line[l])
  <2>4. prog \in Program
    BY <2>1 DEF LineRecord
  <2>5. obj \in Recipe /\ obj.isLine = line[l].obj.isLine
    BY <2>1, ConfiguredIs
  <2>6. \/ Work[s].do \in {"refill", "fillTank"}
        \/ Work[s].do = "emptyObject" /\ obj.isLine
        \/ \E c \in IntakeChoices(s, open, prog, obj) : "V00" \notin c
    <3>. HIDE DEF s, open, prog, obj
    <3>. QED BY <2>2, <2>3, <2>4, <2>5, FreshMayClose DEF s, obj
  <2>7. Work[s].do = "emptyObject" /\ obj.isLine => Instant(line[l])
    BY <2>5 DEF Instant
  <2>. QED BY <2>2, <2>3, <2>6, <2>7
<1>. QED BY <1>1, <1>2, <1>3, PTL DEF CipSpec

(* A line that the operators do not use stays as it was at the start.      *)
Unused == \A m \in Lines \ plan.lines : line[m] = BlankLine(plan)

(* ... and stays so: a step is taken by a line in use.                     *)
LEMMA UnusedStays ==
    ASSUME StationInv, Unused, [CipNext]_cipVars
    PROVE  Unused'
<1>1. CASE CipNext
  <2>1. PICK l \in Lines :
          /\ l \in plan.lines /\ plan' = plan
          /\ \E x : Outcome(line[l], x) /\ line' = [line EXCEPT ![l] = x]
    BY <1>1, StationStep
  <2>. QED BY <2>1 DEF Unused, StationInv
<1>2. CASE UNCHANGED cipVars
  BY <1>2 DEF Unused, cipVars
<1>. QED BY <1>1, <1>2

(* One line washes at most.                                                *)
OneLine(p) == \E l : p.lines \subseteq {l}

(* While a line cleans the tanks no other washes or could resume, where    *)
(* one line is used, or no program is chosen while a line runs and no      *)
(* program cleans the tanks and washes besides (the check before the start *)
(* compares the program with the self-cleaning exactly).                   *)
THEOREM TanksAreCleanedAlone ==
    ASSUME \A p \in Plans : OneLine(p) \/ CleanHabits(p)
    PROVE  CipSpec => []SelfCleanAlone
<1>. DEFINE Careful == CleanHabits(plan) => PartInv /\ CleanInv
<1>1. CipInit => StationInv /\ Unused /\ Careful
  <2>. SUFFICES ASSUME CipInit PROVE StationInv /\ Unused /\ Careful
    OBVIOUS
  <2>1. Unused
    BY DEF CipInit, Unused
  <2>. QED BY <2>1, StartsBlank
<1>2. StationInv /\ Unused /\ Careful /\ [CipNext]_cipVars => StationInv' /\ Unused' /\ Careful'
  <2>. SUFFICES ASSUME StationInv, Unused, Careful, [CipNext]_cipVars
                PROVE  StationInv' /\ Unused' /\ Careful'
    OBVIOUS
  <2>1. plan' = plan
    BY PlanStays
  <2>2. CleanHabits(plan)' => CleanHabits(plan)
    BY <2>1 DEF CleanHabits
  <2>3. CleanHabits(plan) => "reselect" \notin plan.commands
    BY DEF CleanHabits
  <2>4. Careful'
    BY <2>2, <2>3, PartInvStays, CleanInvStays
  <2>. QED BY <2>4, StationStays, UnusedStays
<1>3. StationInv /\ Unused /\ Careful => SelfCleanAlone
  <2>. SUFFICES ASSUME StationInv, Unused, Careful, NEW l \in Lines,
                       line[l].state = "run", line[l].part = 11, line[l].step # Done
                PROVE  \A m \in Lines \ {l} : line[m].state \in {"idle", "blocked"} /\ line[m].step = 0
    BY DEF SelfCleanAlone
  <2>1. CASE CleanHabits(plan)
    <3>0. PartInv /\ CleanInv
      BY <2>1
    <3>1. line[l].step # 0
      BY DEF StationInv, Placed
    <3>2. 11 \in line[l].prog.parts
      BY <3>0, <3>1 DEF PartInv, OwnPart
    <3>3. scline = l
      BY <3>0, <3>2 DEF CleanInv, Owns, Inactive
    <3>4. scline # 0
      BY <3>3, LinesAssumption
    <3>. QED BY <3>0, <3>3, <3>4 DEF CleanInv, Alone, Inactive
  <2>2. CASE OneLine(plan)
    <3>1. \A m \in Lines \ plan.lines : line[m].state = "idle" /\ line[m].step = 0
      BY DEF Unused, BlankLine
    <3>2. l \in plan.lines
      BY <3>1
    <3>3. Lines \ {l} \subseteq Lines \ plan.lines
      BY <2>2, <3>2 DEF OneLine
    <3>. QED BY <3>1, <3>3
  <2>. QED BY <2>1, <2>2 DEF StationInv
<1>. QED BY <1>1, <1>2, <1>3, PTL DEF CipSpec
====
