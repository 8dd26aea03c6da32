------------------------------- MODULE IoProofs -------------------------------
(***************************************************************************)
(* What is proved of the process values on their way between the field,    *)
(* the controller and its memory, in four parts: the outputs (modules      *)
(* AsInterface and Coupler), the saved parameters (Params), the flow       *)
(* counter (Counter), and the frequency converter (Drive).                 *)
(***************************************************************************)
EXTENDS AsInterface, Coupler, Params, Counter, Drive, TLAPS

(***************************************************************************)
(* What is proved of the outputs on their way to the field, for any valves *)
(* and couplers: AS-interface valves that share a byte never disturb each  *)
(* other, and the controller takes no image of outputs for the present one *)
(* that the coupler has not had.                                           *)
(***************************************************************************)

-----------------------------------------------------------------------------
(* Two valves in one byte have different nibbles.                          *)
LEMMA NibblesApart ==
    ASSUME NEW m \in AsNumbers, NEW n \in AsNumbers, m # n, Byte(m) = Byte(n)
    PROVE  High(m) # High(n)
<1>1. m \in 0..63 /\ n \in 0..63
  BY AsAssumption
<1> QED BY <1>1, SMTT(30) DEF Byte, High

(* A valve owns the three coils of its nibble, which are different bits.   *)
LEMMA BitsOfNibble ==
    ASSUME NEW n \in AsNumbers
    PROVE  /\ High(n) \in BOOLEAN
           /\ \A c \in DOMAIN Coil : Bit(n, c) \in Nibble(n) /\ Bit(n, c) \in Bits
           /\ \A c, d \in DOMAIN Coil : Bit(n, c) = Bit(n, d) => c = d
BY DEF High, Bit, Nibble, Coil, Bits

(* Bits outside the nibble of the valve that is commanded stay.            *)
Untouched(n, before, after) ==
    /\ after \in SUBSET Bits
    /\ \A b \in Bits \ Nibble(n) : b \in after <=> b \in before

(* What a command leaves in the valve's own nibble.                        *)
OneCoil(n, bits) == \A c, d \in DOMAIN Coil : Bit(n, c) \in bits /\ Bit(n, d) \in bits => c = d

(* A command of an AS-i valve touches its own bits, and leaves one coil.   *)
LEMMA CommandBits ==
    ASSUME NEW n \in AsNumbers, NEW bits \in SUBSET Bits, OneCoil(n, bits)
    PROVE  \A after \in {Cleared(n, bits), SwitchedOn(n, bits),
                         SeatOpened(n, bits, "upper"), SeatOpened(n, bits, "lower")} :
               Untouched(n, bits, after) /\ OneCoil(n, after)
<1>1. DOMAIN Coil = {"main", "s2", "s3"}
  BY DEF Coil
<1>2. SeatCoil(n, "upper") \in DOMAIN Coil /\ SeatCoil(n, "lower") \in DOMAIN Coil
  BY <1>1 DEF SeatCoil
<1>3. Untouched(n, bits, Cleared(n, bits)) /\ OneCoil(n, Cleared(n, bits))
  BY BitsOfNibble DEF Cleared, Untouched, OneCoil
<1>4. Untouched(n, bits, SwitchedOn(n, bits)) /\ OneCoil(n, SwitchedOn(n, bits))
  BY <1>1, BitsOfNibble DEF SwitchedOn, Untouched, OneCoil
<1>5. ASSUME NEW seat \in {"upper", "lower"}
      PROVE  Untouched(n, bits, SeatOpened(n, bits, seat))
             /\ OneCoil(n, SeatOpened(n, bits, seat))
  BY <1>2, BitsOfNibble DEF SeatOpened, Cleared, Untouched, OneCoil
<1> QED BY <1>3, <1>4, <1>5

(* A command therefore leaves every other valve as it is.                  *)
AsInv == AsTypeOK /\ \A n \in AsNumbers : OneCoil(n, written[Byte(n)])

(* ... of the byte it shares with another.                                 *)
LEMMA CommandWrites ==
    ASSUME AsInv, NEW n \in AsNumbers, AsCommand(n)
    PROVE  /\ \E after \in SUBSET Bits :
                  /\ written' = [written EXCEPT ![Byte(n)] = after]
                  /\ Untouched(n, written[Byte(n)], after) /\ OneCoil(n, after)
           /\ sent' = sent
<1> DEFINE bits == written[Byte(n)]
           Afters == {Cleared(n, bits), SwitchedOn(n, bits),
                      SeatOpened(n, bits, "upper"), SeatOpened(n, bits, "lower")}
<1>1. bits \in SUBSET Bits /\ OneCoil(n, bits)
  BY DEF AsInv, AsTypeOK, Bytes
<1>2. PICK after \in Afters : written' = [written EXCEPT ![Byte(n)] = after]
  BY DEF AsCommand, AsOff, AsOn, AsSeat, Write
<1>3. Untouched(n, bits, after) /\ OneCoil(n, after)
  BY <1>1, CommandBits
<1>4. after \in SUBSET Bits
  BY <1>3 DEF Untouched
<1>5. sent' = sent
  BY DEF AsCommand, AsOff, AsOn, AsSeat
<1> QED BY <1>2, <1>3, <1>4, <1>5

(* The coils of the other valve stay as they are.                          *)
LEMMA OthersKeepCoils ==
    ASSUME AsInv, NEW n \in AsNumbers, AsCommand(n), NEW m \in AsNumbers \ {n}
    PROVE  \A c \in DOMAIN Coil :
               Bit(m, c) \in written'[Byte(m)] <=> Bit(m, c) \in written[Byte(m)]
<1>1. PICK after \in SUBSET Bits :
          /\ written' = [written EXCEPT ![Byte(n)] = after]
          /\ Untouched(n, written[Byte(n)], after)
  BY CommandWrites
<1>2. written \in [Bytes -> SUBSET Bits] /\ Byte(n) \in Bytes /\ Byte(m) \in Bytes
  BY DEF AsInv, AsTypeOK, Bytes
<1>3. CASE Byte(m) # Byte(n)
  BY <1>1, <1>2, <1>3
<1>4. CASE Byte(m) = Byte(n)
  <2>1. High(m) # High(n)
    BY <1>4, NibblesApart
  <2>2. Nibble(m) \intersect Nibble(n) = {}
    BY <2>1, BitsOfNibble DEF Nibble
  <2>3. \A c \in DOMAIN Coil : Bit(m, c) \in Bits \ Nibble(n)
    BY <2>2, BitsOfNibble
  <2>4. written'[Byte(m)] = after
    BY <1>1, <1>2, <1>4
  <2> QED BY <1>1, <1>4, <2>3, <2>4 DEF Untouched
<1> QED BY <1>3, <1>4

(* So every valve keeps one coil.                                          *)
LEMMA AsCommandPreserves ==
    ASSUME AsInv, NEW n \in AsNumbers, AsCommand(n) PROVE AsInv'
<1>1. PICK after \in SUBSET Bits :
          /\ written' = [written EXCEPT ![Byte(n)] = after]
          /\ OneCoil(n, after)
  BY CommandWrites
<1>2. sent' = sent
  BY CommandWrites
<1>3. Byte(n) \in Bytes /\ written \in [Bytes -> SUBSET Bits]
  BY DEF AsInv, AsTypeOK, Bytes
<1>4. AsTypeOK'
  BY <1>1, <1>2, <1>3 DEF AsInv, AsTypeOK
<1>5. OneCoil(n, written'[Byte(n)])
  BY <1>1, <1>3
<1>6. \A m \in AsNumbers \ {n} : OneCoil(m, written'[Byte(m)])
  BY OthersKeepCoils DEF AsInv, OneCoil
<1> QED BY <1>4, <1>5, <1>6 DEF AsInv

(* The invariant of the AS-i bytes is kept.                                *)
LEMMA AsNextPreserves == AsInv /\ [AsNext]_asVars => AsInv'
<1> SUFFICES ASSUME AsInv, [AsNext]_asVars PROVE AsInv'
  OBVIOUS
<1>1. CASE UNCHANGED asVars
  BY <1>1 DEF asVars, AsInv, AsTypeOK
<1>2. CASE AsWriteOutputs
  BY <1>2 DEF AsWriteOutputs, AsInv, AsTypeOK
<1> QED BY <1>1, <1>2, AsCommandPreserves DEF AsNext

(* ... and holds at the start.                                             *)
LEMMA AsInitInv == AsInit => AsInv
BY DEF AsInit, AsInv, AsTypeOK, OneCoil, Bytes

(* No AS-interface valve ever gets two of its coils at a time.             *)
THEOREM AsValvesOneWay == AsSpec => []AsOneWay
<1>1. AsInv => AsOneWay
  BY DEF AsInv, AsOneWay, CoilsIn, OneCoil
<1> QED BY <1>1, AsInitInv, AsNextPreserves, PTL DEF AsSpec

(* A command to one valve changes no output of another, however the valves *)
(* are numbered.                                                           *)
THEOREM AsValvesIndependent == AsSpec => AsIndependent
<1> DEFINE A == \A m \in AsNumbers :
                  CoilsIn(written', m) # CoilsIn(written, m) =>
                      \A n \in AsNumbers \ {m} : ~ AsCommand(n)
<1>1. AsInv => A
  <2> SUFFICES ASSUME AsInv, NEW m \in AsNumbers, NEW n \in AsNumbers \ {m}, AsCommand(n)
               PROVE  CoilsIn(written', m) = CoilsIn(written, m)
    OBVIOUS
  <2>1. \A c \in DOMAIN Coil :
            Bit(m, c) \in written'[Byte(m)] <=> Bit(m, c) \in written[Byte(m)]
    BY OthersKeepCoils
  <2> QED BY <2>1 DEF CoilsIn
<1>2. AsIndependent <=> [][A]_asVars
  BY DEF AsIndependent
<1> QED BY <1>1, <1>2, AsInitInv, AsNextPreserves, PTL DEF AsSpec
-----------------------------------------------------------------------------
(* A coupler as the controller knows it.                                   *)
NodeType == [linked: BOOLEAN, alarm: BOOLEAN, silence: 0..MaxSilence,
             tried: 0..MaxSilence, delay: 1..(2 * MaxDelay), wanted: Values,
             sent: Values]

(* Each function of e_communicate keeps the type and both images.          *)
Images(r, s) == s.wanted = r.wanted /\ s.sent = r.sent

(* What the driver does to a node keeps its type and its images.           *)
LEMMA NodeFunctions ==
    ASSUME NEW r \in NodeType
    PROVE  \A s \in {Checked(r), Failed(r), Linked(r), Dropped(r), Answered(r), OlderNode(r)} :
               s \in NodeType /\ Images(r, s)
<1>0. /\ MaxSilence \in Nat /\ MaxDelay \in Nat /\ FirstDelay \in 1..(2 * MaxDelay)
      /\ 0 \in 0..MaxSilence
  BY CouplerAssumption
<1>1. (r.silence > MaxWait) \in BOOLEAN
  OBVIOUS
<1>2. Checked(r) \in NodeType /\ Images(r, Checked(r))
  BY <1>1 DEF Checked, NodeType, Images
<1>3. (IF r.delay < MaxDelay THEN 2 * r.delay ELSE r.delay) \in 1..(2 * MaxDelay)
  BY <1>0 DEF NodeType
<1>4. Failed(r) \in NodeType /\ Images(r, Failed(r))
  BY <1>0, <1>3 DEF Failed, NodeType, Images
<1>5. Linked(r) \in NodeType /\ Images(r, Linked(r))
  BY <1>0 DEF Linked, NodeType, Images
<1>6. Dropped(r) \in NodeType /\ Images(r, Dropped(r))
  BY DEF Dropped, NodeType, Images
<1>7. Answered(r) \in NodeType /\ Images(r, Answered(r))
  BY <1>0 DEF Answered, NodeType, Images
<1>8. Longer(r.silence) \in 0..MaxSilence /\ Longer(r.tried) \in 0..MaxSilence
  BY <1>0 DEF Longer, NodeType
<1>9. OlderNode(r) \in NodeType /\ Images(r, OlderNode(r))
  BY <1>8 DEF OlderNode, NodeType, Images
<1> QED BY <1>2, <1>4, <1>5, <1>6, <1>7, <1>9

(* The types of the coupler, with the name of the node record.             *)
LEMMA CouplerTypeNode ==
    CouplerTypeOK <=> /\ node \in [Nodes -> NodeType]
                      /\ field \in [Nodes -> Values]
                      /\ wire \in [Nodes -> {"good", "bad"}]
                      /\ stage \in [toRead: SUBSET Nodes, toWrite: SUBSET Nodes]
BY DEF CouplerTypeOK, NodeType

(* However an exchange ends, the images are those before it.               *)
LEMMA OutcomesKeep ==
    ASSUME CouplerTypeOK, NEW n \in Nodes, NEW o \in Outcomes(n)
    PROVE  o.r \in NodeType /\ Images(node[n], o.r)
<1> DEFINE r == Checked(node[n])  l == Linked(r)
<1>1. node[n] \in NodeType
  BY CouplerTypeNode
<1>2. r \in NodeType /\ Images(node[n], r)
  BY <1>1, NodeFunctions
<1> HIDE DEF r
<1>3. l \in NodeType /\ Images(r, l) /\ Failed(r) \in NodeType /\ Images(r, Failed(r))
  BY <1>2, NodeFunctions
<1> HIDE DEF l
<1>4. /\ Answered(l) \in NodeType /\ Images(l, Answered(l))
      /\ Dropped(l) \in NodeType /\ Images(l, Dropped(l))
  BY <1>3, NodeFunctions
<1>5. o.r \in {r, Answered(l), Dropped(l), Failed(r)}
  BY DEF Outcomes, r, l
<1> QED BY <1>2, <1>3, <1>4, <1>5 DEF Images

(* Only a confirmed write counts as sent.                                  *)
LEMMA ConfirmedKeeps ==
    ASSUME CouplerTypeOK, NEW n \in Nodes, NEW o \in Outcomes(n)
    PROVE  /\ Confirmed(o) \in NodeType
           /\ Confirmed(o).sent = IF o.kind = "done" THEN node[n].wanted ELSE node[n].sent
<1>1. o.r \in NodeType /\ Images(node[n], o.r)
  BY OutcomesKeep
<1>2. [o.r EXCEPT !.sent = o.r.wanted] \in NodeType
  BY <1>1 DEF NodeType
<1> QED BY <1>1, <1>2 DEF Confirmed, Images, NodeType

(* Reading the inputs sends nothing.                                       *)
LEMMA ReadPreserves ==
    ASSUME CouplerTypeOK, NEW n \in Nodes, ReadInputs(n)
    PROVE  CouplerTypeOK' /\ \A m \in Nodes : node'[m].sent = node[m].sent
<1>1. PICK o \in Outcomes(n) : node' = [node EXCEPT ![n] = o.r]
  BY DEF ReadInputs
<1>2. o.r \in NodeType /\ Images(node[n], o.r)
  BY OutcomesKeep
<1>3. node \in [Nodes -> NodeType] /\ stage \in [toRead: SUBSET Nodes, toWrite: SUBSET Nodes]
  BY CouplerTypeNode
<1>4. node' \in [Nodes -> NodeType]
  BY <1>1, <1>2, <1>3
<1>5. stage' \in [toRead: SUBSET Nodes, toWrite: SUBSET Nodes]
  BY <1>3 DEF ReadInputs
<1>6. UNCHANGED <<field, wire>>
  BY DEF ReadInputs
<1>7. CouplerTypeOK'
  BY <1>4, <1>5, <1>6 DEF CouplerTypeOK, NodeType
<1> QED BY <1>1, <1>2, <1>3, <1>7 DEF Images

(* What is noted as sent has arrived in the field.                         *)
LEMMA WritePreserves ==
    ASSUME CouplerTypeOK, NEW n \in Nodes, WriteOutputs(n)
    PROVE  /\ CouplerTypeOK'
           /\ \A m \in Nodes : node'[m].sent # node[m].sent => field'[m] = node'[m].sent
<1> DEFINE last == stage.toWrite = {n}
<1>1. PICK o \in Outcomes(n) :
          /\ LET after == [node EXCEPT ![n] = Confirmed(o)]
             IN node' = IF last THEN [m \in Nodes |-> OlderNode(after[m])] ELSE after
          /\ field' = IF o.kind \in {"done", "unanswered"}
                      THEN [field EXCEPT ![n] = node[n].wanted] ELSE field
  BY DEF WriteOutputs
<1> DEFINE after == [node EXCEPT ![n] = Confirmed(o)]
<1>2. /\ node \in [Nodes -> NodeType] /\ field \in [Nodes -> Values]
      /\ stage \in [toRead: SUBSET Nodes, toWrite: SUBSET Nodes]
  BY CouplerTypeNode
<1>3. /\ Confirmed(o) \in NodeType
      /\ Confirmed(o).sent = IF o.kind = "done" THEN node[n].wanted ELSE node[n].sent
  BY ConfirmedKeeps
<1>4. after \in [Nodes -> NodeType] /\ after[n] = Confirmed(o)
      /\ \A m \in Nodes \ {n} : after[m] = node[m]
  BY <1>2, <1>3
<1>5. node' = IF last THEN [m \in Nodes |-> OlderNode(after[m])] ELSE after
  BY <1>1
<1> HIDE DEF after
<1>6. \A m \in Nodes : OlderNode(after[m]) \in NodeType /\ Images(after[m], OlderNode(after[m]))
  BY <1>4, NodeFunctions
<1>7. node' \in [Nodes -> NodeType] /\ \A m \in Nodes : node'[m].sent = after[m].sent
  BY <1>4, <1>5, <1>6 DEF Images
<1>8. node[n].wanted \in Values
  BY <1>2 DEF NodeType
<1>9. field' \in [Nodes -> Values]
  BY <1>1, <1>2, <1>8
<1>10. stage' \in [toRead: SUBSET Nodes, toWrite: SUBSET Nodes] /\ wire' = wire
  BY <1>2 DEF WriteOutputs
<1>11. CouplerTypeOK'
  BY <1>7, <1>9, <1>10 DEF CouplerTypeOK, NodeType
<1>12. ASSUME NEW m \in Nodes, node'[m].sent # node[m].sent
       PROVE  field'[m] = node'[m].sent
  <2>1. m = n /\ o.kind = "done"
    BY <1>3, <1>4, <1>7, <1>12
  <2>2. node'[n].sent = node[n].wanted
    BY <1>3, <1>4, <1>7, <2>1
  <2> QED BY <1>1, <1>2, <2>1, <2>2
<1> QED BY <1>11, <1>12

(* A new value of the program sends nothing.                               *)
LEMMA WantPreserves ==
    ASSUME CouplerTypeOK, NEW n \in Nodes, NEW v \in Values, Want(n, v)
    PROVE  CouplerTypeOK' /\ \A m \in Nodes : node'[m].sent = node[m].sent
<1> DEFINE r == [node[n] EXCEPT !.wanted = v]
<1>1. node \in [Nodes -> NodeType] /\ node[n] \in NodeType
  BY CouplerTypeNode
<1>2. r \in NodeType /\ r.sent = node[n].sent
  BY <1>1 DEF NodeType
<1>3. node' = [node EXCEPT ![n] = r] /\ UNCHANGED <<field, wire, stage>>
  BY DEF Want
<1> HIDE DEF r
<1>4. node' \in [Nodes -> NodeType] /\ \A m \in Nodes : node'[m].sent = node[m].sent
  BY <1>1, <1>2, <1>3
<1> QED BY <1>3, <1>4 DEF CouplerTypeOK, NodeType

Arrived == \A n \in Nodes : node'[n].sent # node[n].sent => field'[n] = node'[n].sent

(* Every step of the coupler keeps the types, and notes what arrived.      *)
LEMMA CouplerStep ==
    ASSUME CouplerTypeOK, [CouplerNext]_couplerVars PROVE CouplerTypeOK' /\ Arrived
<1>1. CASE UNCHANGED couplerVars
  BY <1>1 DEF couplerVars, CouplerTypeOK, Arrived
<1>2. CASE \E n \in Nodes : ReadInputs(n)
  BY <1>2, ReadPreserves DEF Arrived
<1>3. CASE \E n \in Nodes : WriteOutputs(n)
  BY <1>3, WritePreserves DEF Arrived
<1>4. CASE \E n \in Nodes : LineChanges(n)
  BY <1>4 DEF LineChanges, CouplerTypeOK, Arrived
<1>5. CASE \E n \in Nodes : \E v \in Values : Want(n, v)
  BY <1>5, WantPreserves DEF Arrived
<1> QED BY <1>1, <1>2, <1>3, <1>4, <1>5 DEF CouplerNext, Exchange

(* The types hold at the start.                                            *)
LEMMA CouplerInitType == CouplerInit => CouplerTypeOK
<1> SUFFICES ASSUME CouplerInit PROVE CouplerTypeOK
  OBVIOUS
<1>1. /\ FirstDelay \in 1..(2 * MaxDelay) /\ 0 \in 0..MaxSilence
  BY CouplerAssumption
<1> QED BY <1>1 DEF CouplerInit, CouplerTypeOK

(* The delay between attempts and all other times keep to their bounds.    *)
THEOREM CouplersTypeCorrect == CouplerSpec => []CouplerTypeOK
BY CouplerInitType, CouplerStep, PTL DEF CouplerSpec

(* The controller takes outputs for the present ones only when the coupler *)
(* has them, on any line and for any number of couplers.                   *)
THEOREM SentOutputsArrived == CouplerSpec => SentHasArrived
<1>1. SentHasArrived <=> [][Arrived]_couplerVars
  BY DEF SentHasArrived, Arrived
<1> QED BY <1>1, CouplerInitType, CouplerStep, PTL DEF CouplerSpec

-----------------------------------------------------------------------------
(***************************************************************************)
(* What is proved of the saved parameters, for any programs, sizes and     *)
(* values, whenever power fails: a program that runs carries its own size  *)
(* in the memory and has its own values in every slot that no failure      *)
(* inside a reset kept from being written.                                 *)
(*                                                                         *)
(* The argument is about who owns the memory.  The owner is always the     *)
(* program whose size the memory carries, and no other program has that    *)
(* size; so a reset begins only when the owner changes, with no own slots, *)
(* and makes the slots its own one by one.                                 *)
(***************************************************************************)

(* The size is that of the owner, and the program owns the memory from the *)
(* size check on.                                                          *)
SizeInv ==
    /\ sizeWord = IF owner = None THEN 0 ELSE SizeOf[owner]
    /\ phase \in {"default", "saving", "run"} => owner = program

(* Slots that are not the owner's are there only within a reset, or because*)
(* of one that power failed in.                                            *)
OwnerInv == owner # None /\ phase \notin {"default", "saving"} => torn \/ own = Slots

(* The memory holds what the owner saved, and the program reads it.        *)
Default == [by |-> program, val |-> 0]
MemoryInv ==
    /\ owner # None => \A s \in own : eeprom[s] = [by |-> owner, val |-> kept[s]]
    /\ phase = "read" => sizeWord = 0 \/ params = eeprom
    /\ phase = "run" => \A s \in own : params[s].by = program

(* A reset has made its own exactly the slots it has saved.                *)
ResetInv ==
    /\ phase \in {"default", "saving"} => kept = NothingKept
    /\ phase = "default" => own = {}
    /\ phase = "saving" => params = [s \in Slots |-> Default] /\ own = 1..progress

ParamsInv == ParamsTypeOK /\ SizeInv /\ OwnerInv /\ MemoryInv /\ ResetInv

(* Two programs with one size of memory are one.                           *)
LEMMA SizesDiffer ==
    /\ \A p \in Programs : SizeOf[p] \in Nat /\ SizeOf[p] # 0 /\ p # None
    /\ \A p, q \in Programs : SizeOf[p] = SizeOf[q] => p = q
BY ParamsAssumption DEF None

(* Nothing saved and nothing read are what the types allow.                *)
LEMMA EmptyTypes ==
    /\ Erased \in [Slots -> Cells] /\ NothingKept \in [Slots -> UserValues \union {0}]
    /\ 0 \in 0..SlotCount
BY ParamsAssumption DEF Erased, NothingKept, Cells

(* The invariant of the memory holds at the start.                         *)
LEMMA ParamsInitInv == ParamsInit => ParamsInv
<1> SUFFICES ASSUME ParamsInit PROVE ParamsInv
  OBVIOUS
<1>1. ParamsTypeOK
  BY EmptyTypes DEF ParamsInit, ParamsTypeOK, Phases
<1> QED BY <1>1 DEF ParamsInit, ParamsInv, SizeInv, OwnerInv, MemoryInv, ResetInv

-----------------------------------------------------------------------------
(* Reading the memory at the start keeps it.                               *)
LEMMA ReadParamsPreserves == ASSUME ParamsInv, ReadParams PROVE ParamsInv'
BY DEF ReadParams, ParamsInv, ParamsTypeOK, SizeInv, OwnerInv, MemoryInv, ResetInv, Phases

(* Another owner begins a reset with no slots of its own; only an owner    *)
(* whose size is the program's, the program itself, goes on.               *)
LEMMA CheckSizePreserves == ASSUME ParamsInv, CheckSize PROVE ParamsInv'
<1>1. program \in Programs /\ owner \in Programs \union {None} /\ phase = "read"
  BY DEF ParamsInv, ParamsTypeOK, CheckSize
<1>2. CASE SizeChanged
  <2>1. owner # program
    BY <1>1, <1>2, SizesDiffer DEF SizeChanged, ParamsInv, SizeInv
  <2>2. /\ phase' = "default" /\ sizeWord' = SizeOf[program] /\ owner' = program
        /\ own' = {} /\ kept' = NothingKept
        /\ UNCHANGED <<program, params, eeprom, progress, torn>>
    BY <1>2, <2>1 DEF CheckSize, Written
  <2>3. ParamsTypeOK'
    BY <1>1, <2>2, EmptyTypes DEF ParamsInv, ParamsTypeOK, Phases
  <2>4. SizeInv' /\ OwnerInv' /\ MemoryInv' /\ ResetInv'
    BY <1>1, <2>2, SizesDiffer DEF SizeInv, OwnerInv, MemoryInv, ResetInv
  <2> QED BY <2>3, <2>4 DEF ParamsInv
<1>3. CASE ~ SizeChanged
  <2>1. /\ phase' = "run" /\ sizeWord = SizeOf[program]
        /\ UNCHANGED <<program, params, eeprom, sizeWord, progress, owner, own, kept, torn>>
    BY <1>3 DEF CheckSize, SizeChanged
  <2>2. owner = program /\ owner # None /\ params = eeprom
    BY <1>1, <2>1, SizesDiffer DEF ParamsInv, SizeInv, MemoryInv
  <2>3. ParamsTypeOK'
    BY <2>1 DEF ParamsInv, ParamsTypeOK, Phases
  <2>4. MemoryInv'
    <3>1. \A s \in own : eeprom[s] = [by |-> owner, val |-> kept[s]]
      BY <2>2 DEF ParamsInv, MemoryInv
    <3>2. \A s \in own : params[s].by = program
      <4>1. TAKE s \in own
      <4>2. params[s] = [by |-> program, val |-> kept[s]]
        BY <2>2, <3>1
      <4> QED BY <4>2
    <3>3. \A s \in own' : eeprom'[s] = [by |-> owner', val |-> kept'[s]]
      BY <2>1, <3>1
    <3>4. \A s \in own' : params'[s].by = program'
      BY <2>1, <3>2
    <3>5. phase' # "read"
      BY <2>1
    <3> QED BY <3>3, <3>4, <3>5 DEF MemoryInv
  <2>5. SizeInv' /\ OwnerInv' /\ ResetInv'
    BY <1>1, <2>1, <2>2 DEF ParamsInv, SizeInv, OwnerInv, ResetInv
  <2> QED BY <2>3, <2>4, <2>5 DEF ParamsInv
<1> QED BY <1>2, <1>3

(* The defaults, as the program starts.                                    *)
LEMMA SetDefaultsPreserves == ASSUME ParamsInv, SetDefaults PROVE ParamsInv'
<1>1. /\ params' = [s \in Slots |-> Default] /\ params' \in [Slots -> Cells]
      /\ progress' = 0 /\ own = 1..0 /\ phase = "default" /\ phase' = "saving"
      /\ UNCHANGED <<program, eeprom, sizeWord, owner, own, kept, torn>>
  BY DEF SetDefaults, Default, Cells, ParamsInv, ParamsTypeOK, ResetInv
<1>2. ParamsTypeOK'
  BY <1>1, EmptyTypes DEF ParamsInv, ParamsTypeOK, Phases
<1> QED BY <1>1, <1>2 DEF ParamsInv, SizeInv, OwnerInv, MemoryInv, ResetInv, Default

(* Their saving.                                                           *)
LEMMA SaveDefaultsPreserves == ASSUME ParamsInv, SaveDefaults PROVE ParamsInv'
<1>1. /\ program \in Programs /\ progress \in 0..SlotCount /\ SlotCount \in Nat
      /\ eeprom \in [Slots -> Cells] /\ params = [s \in Slots |-> Default]
      /\ own = 1..progress /\ own \subseteq Slots /\ kept = NothingKept
      /\ owner = program /\ phase = "saving" /\ program # None /\ Default \in Cells
      /\ \A s \in own : eeprom[s] = [by |-> program, val |-> kept[s]]
      /\ UNCHANGED <<program, params, sizeWord, owner, kept>>
  BY ParamsAssumption, SizesDiffer
     DEF SaveDefaults, ParamsInv, ParamsTypeOK, SizeInv, MemoryInv, ResetInv, Default, Cells
<1>2. CASE progress < SlotCount
  <2>1. /\ progress + 1 \in Slots /\ progress' = progress + 1 /\ progress' \in 0..SlotCount
        /\ eeprom' = [eeprom EXCEPT ![progress + 1] = Default]
        /\ own' = own \union {progress + 1} /\ UNCHANGED <<phase, torn>>
    BY <1>1, <1>2 DEF SaveDefaults, Slots
  <2>2. own' = 1..progress' /\ own' \subseteq Slots
    BY <1>1, <2>1
  <2>3. /\ eeprom' \in [Slots -> Cells] /\ eeprom'[progress + 1] = Default
        /\ \A s \in Slots \ {progress + 1} : eeprom'[s] = eeprom[s]
    BY <1>1, <2>1
  <2>4. \A s \in Slots : [by |-> program, val |-> kept[s]] = Default
    BY <1>1 DEF NothingKept, Default
  <2>5. \A s \in own' : eeprom'[s] = [by |-> program, val |-> kept[s]]
    BY <1>1, <2>1, <2>2, <2>3, <2>4
  <2>6. ParamsTypeOK'
    BY <1>1, <2>1, <2>2, <2>3 DEF ParamsInv, ParamsTypeOK
  <2> QED BY <1>1, <2>1, <2>2, <2>5, <2>6
          DEF ParamsInv, SizeInv, OwnerInv, MemoryInv, ResetInv, Default
<1>3. CASE ~ (progress < SlotCount)
  <2>1. own = Slots
    BY <1>1, <1>3 DEF Slots
  <2>2. phase' = "run" /\ torn' = FALSE /\ UNCHANGED <<eeprom, progress, own>>
    BY <1>3 DEF SaveDefaults
  <2>3. \A s \in own : params[s].by = program
    BY <1>1 DEF Default
  <2>4. ParamsTypeOK'
    BY <1>1, <2>2 DEF ParamsInv, ParamsTypeOK, Phases
  <2> QED BY <1>1, <2>1, <2>2, <2>3, <2>4 DEF ParamsInv, SizeInv, OwnerInv, MemoryInv, ResetInv
<1> QED BY <1>2, <1>3

-----------------------------------------------------------------------------
(* A parameter that is saved becomes the owner's.                          *)
LEMMA SaveParamPreserves == ASSUME ParamsInv, SaveParam PROVE ParamsInv'
<1>1. PICK s \in Slots, v \in UserValues :
          /\ params' = [params EXCEPT ![s] = [by |-> program, val |-> v]]
          /\ eeprom' = [eeprom EXCEPT ![s] = [by |-> program, val |-> v]]
          /\ kept' = [kept EXCEPT ![s] = v] /\ own' = own \union {s}
  BY DEF SaveParam
<1>2. phase = "run" /\ UNCHANGED <<program, phase, sizeWord, progress, owner, torn>>
  BY DEF SaveParam
<1>3. /\ params \in [Slots -> Cells] /\ eeprom \in [Slots -> Cells] /\ own \subseteq Slots
      /\ kept \in [Slots -> UserValues \union {0}] /\ program \in Programs
      /\ owner = program /\ program # None
  BY <1>2, SizesDiffer DEF ParamsInv, ParamsTypeOK, SizeInv
<1>4. ParamsTypeOK'
  BY <1>1, <1>2 DEF ParamsInv, ParamsTypeOK, Cells
<1>5. \A t \in own' : /\ eeprom'[t] = [by |-> program, val |-> kept'[t]]
                     /\ params'[t].by = program
  BY <1>1, <1>2, <1>3 DEF ParamsInv, MemoryInv
<1>6. OwnerInv'
  BY <1>1, <1>2, <1>3 DEF ParamsInv, OwnerInv
<1> QED BY <1>2, <1>3, <1>4, <1>5, <1>6 DEF ParamsInv, SizeInv, MemoryInv, ResetInv

(* A parameter that is changed in the working copy.                        *)
LEMMA PokeParamPreserves == ASSUME ParamsInv, PokeParam PROVE ParamsInv'
BY DEF PokeParam, ParamsInv, ParamsTypeOK, SizeInv, OwnerInv, MemoryInv, ResetInv, Cells

(* A reset of the parameters.                                              *)
LEMMA ResetParamsPreserves == ASSUME ParamsInv, ResetParams PROVE ParamsInv'
BY DEF ResetParams, ParamsInv, ParamsTypeOK, SizeInv, OwnerInv, MemoryInv, ResetInv, Phases

(* A failure of the power.                                                 *)
LEMMA PowerFailsPreserves == ASSUME ParamsInv, PowerFails PROVE ParamsInv'
<1>1. params' \in [Slots -> Cells] /\ progress' \in 0..SlotCount
  BY EmptyTypes DEF PowerFails
<1> QED BY <1>1 DEF PowerFails, ParamsInv, ParamsTypeOK, SizeInv, OwnerInv, MemoryInv, ResetInv,
           Phases

(* Another program is loaded.                                              *)
LEMMA LoadProgramPreserves == ASSUME ParamsInv, LoadProgram PROVE ParamsInv'
BY DEF LoadProgram, ParamsInv, ParamsTypeOK, SizeInv, OwnerInv, MemoryInv, ResetInv, Phases

(* Every step keeps the invariant of the memory.                           *)
LEMMA ParamsNextPreserves == ParamsInv /\ [ParamsNext]_paramVars => ParamsInv'
<1>1. ASSUME ParamsInv, UNCHANGED paramVars PROVE ParamsInv'
  BY <1>1 DEF paramVars, ParamsInv, ParamsTypeOK, SizeInv, OwnerInv, MemoryInv, ResetInv, Default
<1> QED BY <1>1, ReadParamsPreserves, CheckSizePreserves, SetDefaultsPreserves,
        SaveDefaultsPreserves, SaveParamPreserves, PokeParamPreserves,
        ResetParamsPreserves, PowerFailsPreserves, LoadProgramPreserves DEF ParamsNext

(* Whenever power fails, a running program has its own size, its own last  *)
(* values in the slots it wrote, and no other slots but after a failure    *)
(* inside a reset.                                                         *)
THEOREM ProgramsRunOnOwnMemory == ParamsSpec => []RunsOnOwnMemory
<1>1. ParamsInv => RunsOnOwnMemory
  <2> SUFFICES ASSUME ParamsInv, phase = "run"
               PROVE  /\ owner = program
                      /\ \A s \in own : /\ eeprom[s] = [by |-> program, val |-> kept[s]]
                                        /\ params[s].by = program
                      /\ torn \/ own = Slots
    BY DEF RunsOnOwnMemory
  <2>1. owner = program /\ program # None
    BY SizesDiffer DEF ParamsInv, ParamsTypeOK, SizeInv
  <2> QED BY <2>1 DEF ParamsInv, MemoryInv, OwnerInv
<1> QED BY <1>1, ParamsInitInv, ParamsNextPreserves, PTL DEF ParamsSpec

-----------------------------------------------------------------------------
(***************************************************************************)
(* What is proved of the flow counter, for any meter whose count does not  *)
(* overflow twice between scans: every pulse is counted once, waits for a  *)
(* scan, or is one of the three kinds that the code loses.                 *)
(*                                                                         *)
(* The pulses that wait are always the gap between the raw count the total *)
(* has seen and the present one.  The gap must be told     *)
(* from a restart of the meter (MaxOverflow) and from a whole round of it, *)
(* so it must stay small: in work at most the pulses of one scan, in error *)
(* of two, because the absolute total, which goes on, shows the movement   *)
(* one scan later.                                                         *)
(***************************************************************************)

(* The quantity between two raw counts, of which at most one overflows.    *)
Gap(last, raw) == IF raw >= last THEN raw - last ELSE MaxRaw - last + raw

GapOf(t) == Gap(t.last, meter.raw)

(* Two raw counts that differ by nothing, or by the pulse of the overflow. *)
Level(a, b) == a = b \/ (a = MaxRaw /\ b = 0)

CountedInv ==
    /\ flow.through = counter.value.sum + flow.unseen + flow.lost
    /\ flow.unseen = IF counter.state = "pause" \/ counter.value.first THEN 0
                     ELSE GapOf(counter.value)

(* The absolute total has seen a count if the other one has.               *)
FirstInv == counter.abs.first => counter.value.first

WorkInv ==
    counter.state = "work" /\ ~ counter.value.first =>
        /\ GapOf(counter.value) <= PulsesPerScan + meter.fresh
        /\ counter.age >= 0 => /\ counter.value.last = counter.abs.last
                               /\ GapOf(counter.value) <= meter.fresh

ErrorInv ==
    counter.state = "error" /\ ~ counter.value.first =>
        /\ GapOf(counter.value) <= PulsesPerScan + meter.fresh
        /\ counter.age = -1 \/ counter.abs.sum = counter.prev =>
               /\ Level(counter.value.last, counter.abs.last)
               /\ GapOf(counter.abs) <= meter.fresh
               /\ GapOf(counter.value) <= meter.fresh
        /\ ~ pumping => meter.raw = counter.value.last

CounterInv == CounterTypeOK /\ CountedInv /\ FirstInv /\ WorkInv /\ ErrorInv

-----------------------------------------------------------------------------
(* The bounds of the counter.                                              *)
LEMMA Bounds ==
    /\ MaxRaw \in Nat /\ MaxOverflow \in Nat /\ PulsesPerScan \in Nat
    /\ StandTime \in Nat /\ PulsesPerScan >= 1 /\ MaxRaw >= 1
    /\ 2 * PulsesPerScan <= MaxOverflow /\ 2 * PulsesPerScan < MaxRaw
BY CounterAssumption

(* No pulse, no gap.                                                       *)
LEMMA GapZero ==
    ASSUME NEW last \in 0..MaxRaw PROVE Gap(last, last) = 0
BY Bounds DEF Gap

(* A pulse widens a small gap by one, or by nothing when it overflows.     *)
LEMMA GapPulse ==
    ASSUME NEW last \in 0..MaxRaw, NEW raw \in 0..MaxRaw, Gap(last, raw) < MaxRaw - 1
    PROVE  Gap(last, IF raw < MaxRaw THEN raw + 1 ELSE 0)
             = IF raw = MaxRaw THEN Gap(last, raw) ELSE Gap(last, raw) + 1
BY Bounds DEF Gap

(* calculate_quantity adds a small gap and remembers the present count.    *)
LEMMA AddType ==
    ASSUME NEW t \in Tally, NEW raw \in 0..MaxRaw
    PROVE  /\ Add(t, raw) \in Tally
           /\ t.first /\ raw = 0 => Add(t, raw) = t
           /\ ~ (t.first /\ raw = 0) => Add(t, raw).last = raw /\ ~ Add(t, raw).first
           /\ t.first => Add(t, raw).sum = t.sum
<1>1. /\ t.sum \in Int /\ t.last \in 0..MaxRaw /\ t.first \in BOOLEAN
  BY DEF Tally
<1>2. Delta(t.last, raw) \in Int
  BY <1>1, Bounds DEF Delta
<1>3. [t EXCEPT !.last = raw, !.first = FALSE] \in Tally
  BY DEF Tally
<1> DEFINE sum == t.sum + Delta(t.last, raw)
<1>4. sum \in Int
  BY <1>1, <1>2
<1>5. Add(t, raw) = IF t.first THEN IF raw = 0 THEN t ELSE [t EXCEPT !.last = raw, !.first = FALSE]
                    ELSE [t EXCEPT !.last = raw, !.sum = sum]
  BY DEF Add
<1> HIDE DEF sum
<1>6. [t EXCEPT !.last = raw, !.sum = sum] \in Tally
  BY <1>4 DEF Tally
<1> QED BY <1>1, <1>3, <1>5, <1>6 DEF Tally

(* A sum grows by the gap.                                                 *)
LEMMA AddCounts ==
    ASSUME NEW t \in Tally, NEW raw \in 0..MaxRaw, ~ t.first,
           Gap(t.last, raw) <= 2 * PulsesPerScan
    PROVE  Add(t, raw).sum = t.sum + Gap(t.last, raw)
<1>1. t.last \in 0..MaxRaw
  BY DEF Tally
<1>2. Delta(t.last, raw) = Gap(t.last, raw)
  BY <1>1, Bounds DEF Delta, Gap
<1> QED BY <1>2 DEF Add, Tally

-----------------------------------------------------------------------------
(* The invariant of the counter holds at the start.                        *)
LEMMA CounterInitInv == CounterInit => CounterInv
<1> SUFFICES ASSUME CounterInit PROVE CounterInv
  OBVIOUS
<1> DEFINE zero == [sum |-> 0, last |-> 0, first |-> TRUE]
<1>1. /\ meter = [raw |-> 0, fresh |-> 0] /\ pumping = FALSE /\ flow = [through |-> 0, unseen |-> 0, lost |-> 0]
      /\ counter = [state |-> "work", value |-> zero, abs |-> zero, prev |-> 0, age |-> -1]
  BY DEF CounterInit
<1>2. zero \in Tally /\ zero.first /\ zero.sum = 0
  BY Bounds DEF Tally
<1> HIDE DEF zero
<1>3. CounterTypeOK
  <2>1. 0 \in 0..MaxRaw /\ 0 \in 0..PulsesPerScan /\ -1 \in -1..StandTime /\ 0 \in Int
    BY Bounds
  <2>2. meter \in [raw: 0..MaxRaw, fresh: 0..PulsesPerScan]
    BY <1>1, <2>1
  <2>3. counter \in [state: {"work", "pause", "error"}, value: Tally, abs: Tally,
                    prev: Int, age: -1..StandTime]
    BY <1>1, <1>2, <2>1
  <2> QED BY <1>1, <2>1, <2>2, <2>3 DEF CounterTypeOK
<1> QED BY <1>1, <1>2, <1>3 DEF CounterInv, CountedInv, FirstInv, WorkInv, ErrorInv

(* The types of the fields, one by one.                                    *)
LEMMA TypeFacts ==
    ASSUME CounterTypeOK
    PROVE  /\ meter.raw \in 0..MaxRaw /\ meter.fresh \in 0..PulsesPerScan
           /\ counter.state \in {"work", "pause", "error"}
           /\ counter.value \in Tally /\ counter.abs \in Tally /\ counter.prev \in Int
           /\ counter.age \in -1..StandTime /\ pumping \in BOOLEAN
           /\ flow \in [through: Int, unseen: Nat, lost: Nat]
           /\ flow.through \in Int /\ flow.unseen \in Nat /\ flow.lost \in Nat
           /\ counter.value.sum \in Int /\ counter.value.last \in 0..MaxRaw
           /\ counter.abs.sum \in Int /\ counter.abs.last \in 0..MaxRaw
           /\ counter.value.first \in BOOLEAN /\ counter.abs.first \in BOOLEAN
BY DEF CounterTypeOK, Tally

(* A pulse of the meter.                                                   *)
LEMMA PulsePreserves == ASSUME CounterInv, Pulse PROVE CounterInv'
<1> DEFINE next == IF meter.raw < MaxRaw THEN meter.raw + 1 ELSE 0
<1>0. CounterTypeOK
  BY DEF CounterInv
<1>1. /\ meter'.raw = next /\ meter'.fresh = meter.fresh + 1
      /\ meter.fresh < PulsesPerScan
      /\ UNCHANGED <<counter, pumping>>
      /\ pumping \/ counter.state # "error"
  BY DEF Pulse
<1>2. next \in 0..MaxRaw /\ meter.fresh + 1 \in 0..PulsesPerScan
  BY <1>0, <1>1, TypeFacts, Bounds
<1>3. /\ counter.state = "pause" => flow' = flow
      /\ counter.state # "pause" /\ ~ Missed =>
           /\ flow'.through = flow.through + 1 /\ flow'.unseen = flow.unseen + 1
           /\ flow'.lost = flow.lost
      /\ counter.state # "pause" /\ Missed =>
           /\ flow'.through = flow.through + 1 /\ flow'.unseen = flow.unseen
           /\ flow'.lost = flow.lost + 1
      /\ flow' \in [through: Int, unseen: Nat, lost: Nat]
  <2>1. /\ flow \in [through: Int, unseen: Nat, lost: Nat] /\ flow.through + 1 \in Int
        /\ flow.unseen + 1 \in Nat /\ flow.lost + 1 \in Nat
    BY <1>0, TypeFacts
  <2>2. CASE counter.state = "pause"
    BY <2>1, <2>2 DEF Pulse
  <2>3. CASE counter.state # "pause" /\ ~ Missed
    <3>1. flow' = [flow EXCEPT !.through = flow.through + 1, !.unseen = flow.unseen + 1]
      BY <2>3 DEF Pulse
    <3> QED BY <2>1, <2>3, <3>1
  <2>4. CASE counter.state # "pause" /\ Missed
    <3>1. flow' = [flow EXCEPT !.through = flow.through + 1, !.lost = flow.lost + 1]
      BY <2>4 DEF Pulse
    <3> QED BY <2>1, <2>4, <3>1
  <2> QED BY <2>2, <2>3, <2>4
<1>4. CounterTypeOK'
  <2>1. meter' \in [raw: 0..MaxRaw, fresh: 0..PulsesPerScan]
    BY <1>2 DEF Pulse
  <2> QED BY <1>0, <1>1, <1>3, <2>1 DEF CounterTypeOK
<1>5. ASSUME NEW last \in 0..MaxRaw, Gap(last, meter.raw) <= PulsesPerScan + meter.fresh
      PROVE  /\ Gap(last, next) = IF meter.raw = MaxRaw THEN Gap(last, meter.raw)
                                  ELSE Gap(last, meter.raw) + 1
             /\ Gap(last, meter.raw) \in Int
  <2>1. Gap(last, meter.raw) \in Int
    BY <1>0, TypeFacts, Bounds DEF Gap
  <2>2. Gap(last, meter.raw) < MaxRaw - 1
    BY <1>0, <1>1, <1>5, <2>1, TypeFacts, Bounds
  <2> QED BY <1>0, <2>1, <2>2, GapPulse, TypeFacts
<1> HIDE DEF next
<1>6. CountedInv'
  <2>1. CASE counter.state = "pause" \/ counter.value.first
    BY <1>0, <1>1, <1>3, <2>1, TypeFacts DEF CounterInv, CountedInv, Missed
  <2>2. CASE ~ (counter.state = "pause" \/ counter.value.first)
    <3>1. GapOf(counter.value) <= PulsesPerScan + meter.fresh
      BY <1>0, <2>2, TypeFacts DEF CounterInv, WorkInv, ErrorInv
    <3>2. GapOf(counter.value)' = IF meter.raw = MaxRaw THEN GapOf(counter.value)
                                  ELSE GapOf(counter.value) + 1
      BY <1>0, <1>1, <1>5, <3>1, TypeFacts DEF GapOf
    <3> QED BY <1>0, <1>1, <1>3, <2>2, <3>2, TypeFacts DEF CounterInv, CountedInv, Missed
  <2> QED BY <2>1, <2>2
<1>7. WorkInv'
  BY <1>0, <1>1, <1>5, TypeFacts, Bounds DEF CounterInv, WorkInv, GapOf
<1>8. ErrorInv'
  <2> SUFFICES ASSUME counter.state = "error", ~ counter.value.first PROVE ErrorInv'
    BY <1>1 DEF ErrorInv
  <2>1. /\ pumping /\ GapOf(counter.value) <= PulsesPerScan + meter.fresh
        /\ counter.age = -1 \/ counter.abs.sum = counter.prev =>
               /\ Level(counter.value.last, counter.abs.last)
               /\ GapOf(counter.abs) <= meter.fresh
               /\ GapOf(counter.value) <= meter.fresh
    BY <1>1 DEF CounterInv, ErrorInv
  <2>2. /\ GapOf(counter.value)' <= GapOf(counter.value) + 1
        /\ GapOf(counter.value) \in Int /\ GapOf(counter.value)' \in Int
    BY <1>0, <1>1, <1>5, <2>1, TypeFacts DEF GapOf
  <2>3. ASSUME GapOf(counter.abs) <= meter.fresh
        PROVE  GapOf(counter.abs)' <= GapOf(counter.abs) + 1
               /\ GapOf(counter.abs) \in Int /\ GapOf(counter.abs)' \in Int
    <3>1. GapOf(counter.abs) \in Int
      BY <1>0, TypeFacts, Bounds DEF GapOf, Gap
    <3>2. Gap(counter.abs.last, meter.raw) <= PulsesPerScan + meter.fresh
      BY <1>0, <2>3, <3>1, TypeFacts, Bounds DEF GapOf
    <3> QED BY <1>0, <1>1, <1>5, <3>1, <3>2, TypeFacts DEF GapOf
  <2>4. GapOf(counter.value)' <= PulsesPerScan + meter'.fresh
    BY <1>0, <1>1, <2>1, <2>2, TypeFacts, Bounds
  <2>5. ASSUME counter.age = -1 \/ counter.abs.sum = counter.prev
        PROVE  GapOf(counter.abs)' <= meter'.fresh /\ GapOf(counter.value)' <= meter'.fresh
    BY <1>0, <1>1, <2>1, <2>2, <2>3, <2>5, TypeFacts
  <2> QED BY <1>1, <2>1, <2>4, <2>5 DEF ErrorInv
<1> QED BY <1>1, <1>4, <1>6, <1>7, <1>8 DEF CounterInv, FirstInv

(* The pump is switched.                                                   *)
LEMMA SwitchPreserves == ASSUME CounterInv, Switch PROVE CounterInv'
<1>1. UNCHANGED <<meter, counter, flow>> /\ pumping' \in BOOLEAN
      /\ (counter.state = "error" => meter.raw = counter.value.last)
  BY DEF Switch, Steady
<1> QED BY <1>1 DEF CounterInv, CounterTypeOK, CountedInv, FirstInv, WorkInv, ErrorInv, GapOf

(* A pause of the counter.                                                 *)
LEMMA PausePreserves == ASSUME CounterInv, PauseCounter PROVE CounterInv'
<1>1. /\ counter' = [counter EXCEPT !.state = "pause"] /\ UNCHANGED <<meter, pumping>>
      /\ flow' = [flow EXCEPT !.lost = @ + flow.unseen, !.unseen = 0]
  BY DEF PauseCounter
<1>3. /\ flow'.through = flow.through /\ flow'.unseen = 0 /\ flow'.lost = flow.lost + flow.unseen
      /\ flow' \in [through: Int, unseen: Nat, lost: Nat]
  <2>1. flow \in [through: Int, unseen: Nat, lost: Nat] /\ flow.lost + flow.unseen \in Nat
    BY TypeFacts DEF CounterInv
  <2>2. flow' = [flow EXCEPT !.lost = flow.lost + flow.unseen, !.unseen = 0]
    BY <1>1
  <2> QED BY <2>1, <2>2
<1>2. CounterTypeOK' /\ counter'.state = "pause" /\ counter'.value = counter.value
      /\ counter'.abs = counter.abs
  BY <1>1, <1>3, TypeFacts DEF CounterInv, CounterTypeOK
<1>4. CountedInv'
  BY <1>2, <1>3, TypeFacts DEF CounterInv, CountedInv
<1> QED BY <1>1, <1>2, <1>4 DEF CounterInv, FirstInv, WorkInv, ErrorInv

(* A reset of the counter.                                                 *)
LEMMA ResetPreserves == ASSUME CounterInv, ResetCounter PROVE CounterInv'
<1>0. CounterTypeOK
  BY DEF CounterInv
<1>1. /\ counter' = [counter EXCEPT !.value.sum = 0] /\ UNCHANGED <<meter, pumping>>
      /\ flow'.through = flow.through - counter.value.sum
      /\ flow'.unseen = flow.unseen /\ flow'.lost = flow.lost
      /\ flow' \in [through: Int, unseen: Nat, lost: Nat]
  BY <1>0, TypeFacts DEF ResetCounter
<1>2. /\ counter'.value = [counter.value EXCEPT !.sum = 0]
      /\ counter'.state = counter.state /\ counter'.abs = counter.abs
      /\ counter'.prev = counter.prev /\ counter'.age = counter.age
  BY <1>0, <1>1 DEF CounterTypeOK
<1>3. /\ counter'.value \in Tally /\ counter'.value.sum = 0
      /\ counter'.value.last = counter.value.last /\ counter'.value.first = counter.value.first
  BY <1>0, <1>2, TypeFacts DEF Tally
<1>4. CounterTypeOK'
  BY <1>0, <1>1, <1>3, TypeFacts DEF CounterTypeOK
<1>5. GapOf(counter.value) \in Int
  BY <1>0, TypeFacts, Bounds DEF GapOf, Gap
<1> QED BY <1>0, <1>1, <1>2, <1>3, <1>4, <1>5, TypeFacts
        DEF CounterInv, CountedInv, FirstInv, WorkInv, ErrorInv, GapOf

(* A start of the counter.                                                 *)
LEMMA CounterStartPreserves == ASSUME CounterInv, StartCounter PROVE CounterInv'
<1>0. CounterTypeOK
  BY DEF CounterInv
<1> DEFINE last == IF counter.state = "pause" THEN meter.raw ELSE counter.value.last
<1>1. /\ counter' = [counter EXCEPT !.state = "work", !.age = -1, !.value.last = last]
      /\ UNCHANGED <<meter, pumping, flow>> /\ counter.state \in {"pause", "error"}
  BY <1>0, TypeFacts DEF StartCounter, Started
<1>2. last \in 0..MaxRaw
  BY <1>0, TypeFacts
<1>3. /\ counter'.value = [counter.value EXCEPT !.last = last]
      /\ counter'.state = "work" /\ counter'.abs = counter.abs
      /\ counter'.prev = counter.prev /\ counter'.age = -1
  BY <1>0, <1>1 DEF CounterTypeOK
<1>4. /\ counter'.value \in Tally /\ counter'.value.sum = counter.value.sum
      /\ counter'.value.last = last /\ counter'.value.first = counter.value.first
  BY <1>2, <1>3, <1>0, TypeFacts DEF Tally
<1>5. CounterTypeOK'
  <2>1. counter' = [state |-> "work", value |-> counter'.value, abs |-> counter.abs,
                    prev |-> counter.prev, age |-> -1]
    BY <1>0, <1>1, <1>3 DEF CounterTypeOK
  <2>2. -1 \in -1..StandTime
    BY Bounds
  <2> QED BY <1>0, <1>1, <1>4, <2>1, <2>2, TypeFacts DEF CounterTypeOK
<1>6. Gap(meter.raw, meter.raw) = 0
  BY <1>0, TypeFacts, GapZero
<1>7. CountedInv'
  BY <1>0, <1>1, <1>3, <1>4, <1>6, TypeFacts DEF CounterInv, CountedInv, GapOf
<1>8. WorkInv'
  BY <1>0, <1>1, <1>3, <1>4, <1>6, TypeFacts, Bounds DEF CounterInv, WorkInv, ErrorInv, GapOf
<1> QED BY <1>1, <1>3, <1>4, <1>5, <1>7, <1>8 DEF CounterInv, FirstInv, ErrorInv

-----------------------------------------------------------------------------
(* A scan: what get_state makes of the state, and what is then counted.    *)
LEMMA WatchedFacts ==
    ASSUME CounterTypeOK
    PROVE  LET c == Watched(counter) IN
           /\ c.state \in {"work", "pause", "error"} /\ c.age \in -1..StandTime
           /\ c.prev \in Int /\ c.value = counter.value /\ c.abs = counter.abs
           /\ c = [state |-> c.state, value |-> c.value, abs |-> c.abs,
                   prev |-> c.prev, age |-> c.age]
           /\ c.state = "pause" <=> counter.state = "pause"
           /\ counter.state = "work" /\ c.state = "error" =>
                  pumping /\ counter.age >= 0 /\ c.prev = counter.abs.sum
           /\ c.state = "error" /\ pumping => c.age >= 0
           /\ counter.state = "error" /\ c.state = "work" => counter.age >= 0
           /\ c.state = "error" /\ counter.state = "error" =>
                  IF pumping THEN /\ c.prev = counter.abs.sum /\ c.age >= 0
                                  /\ counter.age = -1 \/ counter.abs.sum = counter.prev
                  ELSE c.age = -1
<1> DEFINE c == Watched(counter)
<1>0. /\ counter = [state |-> counter.state, value |-> counter.value, abs |-> counter.abs,
                    prev |-> counter.prev, age |-> counter.age]
      /\ counter.age >= 0 \/ counter.age = -1
      /\ -1 \in -1..StandTime /\ 0 \in -1..StandTime
      /\ counter.age < StandTime => counter.age + 1 \in -1..StandTime
  BY TypeFacts, Bounds DEF CounterTypeOK
<1>1. CASE ~ pumping
  <2>1. c = [counter EXCEPT !.age = -1]
    BY <1>1 DEF Watched
  <2> QED BY <1>0, <1>1, <2>1, TypeFacts
<1>2. CASE pumping /\ (counter.state = "pause" \/ counter.age = -1)
  <2>1. c = [counter EXCEPT !.age = 0, !.prev = counter.abs.sum]
    BY <1>2 DEF Watched
  <2>2. /\ c.state = counter.state /\ c.age = 0 /\ c.prev = counter.abs.sum
        /\ c.value = counter.value /\ c.abs = counter.abs
        /\ c = [state |-> counter.state, value |-> counter.value, abs |-> counter.abs,
                prev |-> counter.abs.sum, age |-> 0]
    BY <1>0, <2>1
  <2> HIDE DEF c
  <2>3. c.age \in -1..StandTime
    BY <1>0, <2>2, Bounds
  <2> QED BY <1>2, <2>2, <2>3, TypeFacts DEF c
<1>3. CASE pumping /\ counter.state # "pause" /\ counter.age >= 0
           /\ counter.abs.sum # counter.prev
  <2>1. c = [counter EXCEPT !.age = 0, !.prev = counter.abs.sum, !.state = "work"]
    BY <1>3 DEF Watched
  <2> QED BY <1>0, <1>3, <2>1, TypeFacts
<1>4. CASE pumping /\ counter.state # "pause" /\ counter.age >= 0
           /\ counter.abs.sum = counter.prev
  <2>1. c = IF counter.age < StandTime THEN [counter EXCEPT !.age = counter.age + 1]
            ELSE [counter EXCEPT !.state = "error"]
    BY <1>4 DEF Watched
  <2>2. CASE counter.age < StandTime
    BY <1>0, <1>4, <2>1, <2>2, TypeFacts
  <2>3. CASE ~ (counter.age < StandTime)
    BY <1>0, <1>4, <2>1, <2>3, TypeFacts
  <2> QED BY <2>2, <2>3
<1> QED BY <1>0, <1>1, <1>2, <1>3, <1>4, TypeFacts

(* A scan of the counter.                                                  *)
LEMMA CounterEvaluatePreserves == ASSUME CounterInv, EvaluateCounter PROVE CounterInv'
<1> DEFINE c == Watched(counter)
           raw == meter.raw
           a == Add(counter.abs, raw)
           v == IF c.state = "work" THEN Add(counter.value, raw) ELSE counter.value
<1>0. CounterTypeOK
  BY DEF CounterInv
<1>1. /\ c.state \in {"work", "pause", "error"} /\ c.age \in -1..StandTime
      /\ c.prev \in Int /\ c.value = counter.value /\ c.abs = counter.abs
      /\ c = [state |-> c.state, value |-> c.value, abs |-> c.abs,
              prev |-> c.prev, age |-> c.age]
      /\ c.state = "pause" <=> counter.state = "pause"
      /\ counter.state = "work" /\ c.state = "error" =>
             pumping /\ counter.age >= 0 /\ c.prev = counter.abs.sum
      /\ c.state = "error" /\ pumping => c.age >= 0
      /\ counter.state = "error" /\ c.state = "work" => counter.age >= 0
      /\ c.state = "error" /\ counter.state = "error" =>
             IF pumping THEN /\ c.prev = counter.abs.sum /\ c.age >= 0
                             /\ counter.age = -1 \/ counter.abs.sum = counter.prev
             ELSE c.age = -1
  BY <1>0, WatchedFacts
<1>2. /\ counter' = [c EXCEPT !.abs = Add(@, meter.raw),
                              !.value = IF c.state = "work" THEN Add(@, meter.raw) ELSE @]
      /\ meter' = [meter EXCEPT !.fresh = 0] /\ UNCHANGED pumping
      /\ flow' = IF c.state = "work" THEN [flow EXCEPT !.unseen = 0] ELSE flow
  BY DEF EvaluateCounter
<1> HIDE DEF c
<1>3. /\ counter'.state = c.state /\ counter'.age = c.age /\ counter'.prev = c.prev
      /\ counter'.abs = a /\ counter'.value = v
      /\ counter' = [state |-> c.state, value |-> v, abs |-> a, prev |-> c.prev, age |-> c.age]
  BY <1>1, <1>2
<1>4. meter'.raw = raw /\ meter'.fresh = 0 /\ meter' \in [raw: 0..MaxRaw, fresh: 0..PulsesPerScan]
  BY <1>0, <1>2, Bounds DEF CounterTypeOK
<1>5. raw \in 0..MaxRaw /\ meter.fresh \in 0..PulsesPerScan
  BY <1>0, TypeFacts
<1>6. /\ a \in Tally
      /\ counter.abs.first /\ raw = 0 => a = counter.abs
      /\ ~ (counter.abs.first /\ raw = 0) => a.last = raw /\ ~ a.first
  BY <1>0, <1>5, AddType, TypeFacts
<1>7. ~ counter.abs.first /\ GapOf(counter.abs) <= 2 * PulsesPerScan
      => a.sum = counter.abs.sum + GapOf(counter.abs)
  BY <1>0, <1>5, AddCounts, TypeFacts DEF GapOf
<1>8. /\ v \in Tally
      /\ c.state # "work" => v = counter.value
      /\ c.state = "work" =>
           /\ counter.value.first /\ raw = 0 => v = counter.value
           /\ ~ (counter.value.first /\ raw = 0) => v.last = raw /\ ~ v.first
           /\ counter.value.first => v.sum = counter.value.sum
  BY <1>0, <1>5, AddType, TypeFacts
<1>9. c.state = "work" /\ ~ counter.value.first /\ GapOf(counter.value) <= 2 * PulsesPerScan
      => v.sum = counter.value.sum + GapOf(counter.value)
  BY <1>0, <1>5, AddCounts, TypeFacts DEF GapOf
<1> HIDE DEF a, v
<1>17. /\ c.state # "work" => flow' = flow
       /\ c.state = "work" => /\ flow'.through = flow.through /\ flow'.unseen = 0
                              /\ flow'.lost = flow.lost
       /\ flow' \in [through: Int, unseen: Nat, lost: Nat]
  BY <1>0, <1>2, TypeFacts
<1>10. CounterTypeOK'
  BY <1>0, <1>1, <1>2, <1>3, <1>4, <1>6, <1>8, <1>17 DEF CounterTypeOK
<1>11. /\ Gap(raw, raw) = 0
       /\ GapOf(counter.value) \in Int /\ GapOf(counter.abs) \in Int
       /\ GapOf(counter.value)' = Gap(v.last, raw) /\ GapOf(counter.abs)' = Gap(a.last, raw)
  <2>1. Gap(raw, raw) = 0
    BY <1>5, GapZero
  <2>2. GapOf(counter.value) \in Int /\ GapOf(counter.abs) \in Int
    BY <1>0, TypeFacts, Bounds DEF GapOf, Gap
  <2> QED BY <1>3, <1>4, <2>1, <2>2 DEF GapOf
(* What the total has not counted before the scan is at most two scans'.   *)
<1>12. counter.state # "pause" /\ ~ counter.value.first => GapOf(counter.value) <= 2 * PulsesPerScan
  BY <1>0, <1>5, <1>11, TypeFacts, Bounds DEF CounterInv, WorkInv, ErrorInv
<1>13. FirstInv'
  BY <1>3, <1>6, <1>8 DEF CounterInv, FirstInv
<1>14. CountedInv'
  <2>1. CASE c.state = "work"
    BY <1>0, <1>1, <1>3, <1>8, <1>9, <1>11, <1>12, <1>17, <2>1, TypeFacts
       DEF CounterInv, CountedInv
  <2>2. CASE c.state # "work"
    <3>1. GapOf(counter.value)' = GapOf(counter.value)
      BY <1>8, <1>11, <2>2 DEF GapOf
    <3> QED BY <1>1, <1>3, <1>8, <1>17, <2>2, <3>1 DEF CounterInv, CountedInv
  <2> QED BY <2>1, <2>2
<1>15. WorkInv'
  <2> SUFFICES ASSUME c.state = "work", ~ v.first PROVE WorkInv'
    BY <1>3 DEF WorkInv
  <2>1. v.last = raw
    BY <1>8
  <2>2. a.last = raw
    BY <1>6, <1>8 DEF CounterInv, FirstInv
  <2> QED BY <1>3, <1>4, <1>11, <2>1, <2>2, Bounds DEF WorkInv
<1>16. ErrorInv'
  <2> SUFFICES ASSUME c.state = "error", ~ v.first PROVE ErrorInv'
    BY <1>3 DEF ErrorInv
  <2>1. v = counter.value /\ ~ counter.value.first /\ ~ counter.abs.first /\ a.last = raw
    BY <1>6, <1>8 DEF CounterInv, FirstInv
  <2>2. CASE ~ pumping
    <3>0. counter.state = "error"
      BY <1>0, <1>1, <2>2, TypeFacts
    <3>1. raw = counter.value.last /\ c.age = -1
      BY <1>1, <2>1, <2>2, <3>0 DEF CounterInv, ErrorInv
    <3> QED BY <1>2, <1>3, <1>4, <1>11, <2>1, <2>2, <3>1, Bounds DEF ErrorInv, Level
  <2>3. CASE pumping
    <3>1. /\ Level(counter.value.last, counter.abs.last)
          /\ GapOf(counter.abs) <= meter.fresh /\ GapOf(counter.value) <= meter.fresh
          /\ c.prev = counter.abs.sum
      <4>1. CASE counter.state = "work"
        <5>1. counter.age >= 0 /\ c.prev = counter.abs.sum
          BY <1>1, <4>1
        <5> QED BY <2>1, <4>1, <5>1 DEF CounterInv, WorkInv, Level, GapOf
      <4>2. CASE counter.state = "error"
        <5>1. c.prev = counter.abs.sum /\ (counter.age = -1 \/ counter.abs.sum = counter.prev)
          BY <1>1, <2>3, <4>2
        <5> QED BY <2>1, <4>2, <5>1 DEF CounterInv, ErrorInv
      <4> QED BY <1>0, <1>1, <4>1, <4>2, TypeFacts
    <3>2. a.sum = counter.abs.sum + GapOf(counter.abs)
      BY <1>5, <1>7, <1>11, <2>1, <3>1, Bounds
    <3>3. GapOf(counter.abs) = GapOf(counter.value)
      <4>1. CASE counter.value.last = counter.abs.last
        BY <4>1 DEF GapOf
      <4>2. CASE counter.value.last = MaxRaw /\ counter.abs.last = 0
        <5>1. GapOf(counter.abs) = raw
          BY <1>5, <4>2 DEF GapOf, Gap
        <5>2. raw < MaxRaw
          BY <1>5, <3>1, <5>1, Bounds
        <5> QED BY <1>5, <4>2, <5>1, <5>2, Bounds DEF GapOf, Gap
      <4> QED BY <3>1, <4>1, <4>2 DEF Level
    <3>4. GapOf(counter.value) = 0 => Level(counter.value.last, raw)
      BY <1>0, <1>5, TypeFacts, Bounds DEF GapOf, Gap, Level
    <3>5. a.sum = c.prev <=> GapOf(counter.value) = 0
      BY <1>0, <1>11, <3>1, <3>2, <3>3, TypeFacts
    <3>6. GapOf(counter.value)' = GapOf(counter.value)
      BY <1>11, <2>1 DEF GapOf
    <3>7. c.age # -1
      BY <1>1, <2>3
    <3> QED BY <1>2, <1>3, <1>4, <1>5, <1>11, <2>1, <2>3, <3>1, <3>4, <3>5, <3>6, <3>7, Bounds
            DEF ErrorInv
  <2> QED BY <1>0, <2>2, <2>3, TypeFacts
<1> QED BY <1>10, <1>13, <1>14, <1>15, <1>16 DEF CounterInv

(* Every step keeps the invariant of the counter.                          *)
LEMMA CounterNextPreserves == CounterInv /\ [CounterNext]_counterVars => CounterInv'
<1>1. ASSUME CounterInv, UNCHANGED counterVars PROVE CounterInv'
  BY <1>1 DEF counterVars, CounterInv, CounterTypeOK, CountedInv, FirstInv, WorkInv, ErrorInv,
              GapOf
<1> QED BY <1>1, PulsePreserves, SwitchPreserves, CounterEvaluatePreserves, PausePreserves,
        CounterStartPreserves, ResetPreserves DEF CounterNext

(* Through pauses, errors, starts, resets and overflows every pulse is     *)
(* counted once, waits, or is one of those named as lost.                  *)
THEOREM CounterCountsWhatFlowed == CounterSpec => []CountsWhatFlowed
<1>1. CounterInv => CountsWhatFlowed
  BY DEF CounterInv, CountedInv, CountsWhatFlowed
<1> QED BY <1>1, CounterInitInv, CounterNextPreserves, PTL DEF CounterSpec

-----------------------------------------------------------------------------
(***************************************************************************)
(* The frequency converter, for every list of settings that ends with      *)
(* their saving, every time-out, delay and command.                        *)
(***************************************************************************)
Full == ToSet(Settings)

(* The node has an exchange under way or is about to begin one, and its    *)
(* request.                                                                *)
Asking(a) ==
    \/ a.step = "query"
    \/ a.step = "config" /\ a.filled /\ a.setting <= Len(Settings)
WhatAsked(a) == IF a.step = "query" THEN RunRequest(a) ELSE Setting(a)

Typed(a, c, l, d) ==
    a \in AtvStates /\ c \in ClientStates /\ l \in LinkStates /\ d \in ConverterStates

(* Whatever is on the connection belongs to the request that the node is   *)
(* making: there is one request or one answer at most, the communicator    *)
(* waits for it, and no result is left over from an exchange that is done. *)
Matched(a, c, l) ==
    /\ l.requests # <<>> => Asking(a) /\ l.requests = <<WhatAsked(a)>> /\ c.listed
    /\ l.answers # <<>> => c.listed /\ \E x \in {"ok", "exception"} : l.answers = <<x>>
    /\ l.requests = <<>> \/ l.answers = <<>>
    /\ c.listed => c.result = "busy" /\ c.conn = "on"
    /\ c.result # "free" => Asking(a)

(* The converter has every setting that counts as written, and outside of  *)
(* the configuration all of them or none, as its memory always has.        *)
Accepted(c, l) == l.answers = <<"ok">> \/ c.result = "ok"
Complete(a, c, l, d) ==
    /\ a.step = "config" =>
           /\ \A j \in 1..(a.setting - 1) : Settings[j] \in d.has
           /\ Asking(a) /\ Accepted(c, l) => Settings[a.setting] \in d.has
    /\ a.step # "config" => d.has = {} \/ d.has = Full
    /\ d.saved = {} \/ d.saved = Full

(* A setting that arrives late changes nothing after the configuration,    *)
(* and saves no part of the settings.                                      *)
Trailing(a, l, d) ==
    l.late.kind = "set" =>
        /\ a.step # "config" => d.has = Full
        /\ l.late.what = "save" => Full \ {"save"} \subseteq d.has

Joint(a, c, l, d) ==
    Typed(a, c, l, d) /\ Matched(a, c, l) /\ Complete(a, c, l, d) /\ Trailing(a, l, d)

DriveInv == Joint(atv, client, link, drive)

-----------------------------------------------------------------------------
(* The elements of an empty and of a one-element sequence.                 *)
LEMMA Ranges ==
    ASSUME NEW s
    PROVE  ToSet(<<>>) = {} /\ ToSet(<<s>>) = {s}
BY DEF ToSet

(* What the lemmas need of the list of settings.                           *)
LEMMA SettingsListed ==
    /\ Len(Settings) \in Nat \ {0} /\ "scanner" \in Full /\ Full # {}
    /\ Full \subseteq STRING
    /\ \A i \in 1..Len(Settings) : Settings[i] \in Full
    /\ \A x \in Full : \E i \in 1..Len(Settings) : x = Settings[i]
    /\ \A i \in 1..Len(Settings) : Settings[i] = "save" => i = Len(Settings)
BY DriveAssumption, SavedLast DEF ToSet, Full

(* What the node asks is a request of the step it stands at.               *)
LEMMA AsksRequest ==
    ASSUME NEW a \in AtvStates, Asking(a)
    PROVE  /\ WhatAsked(a) \in Requests
           /\ WhatAsked(a).kind = IF a.step = "config" THEN "set" ELSE "run"
           /\ a.step = "config" => WhatAsked(a).what = Settings[a.setting]
           /\ a.step = "config" => a.setting \in 1..Len(Settings)
<1>1. CASE a.step = "query"
    BY <1>1 DEF WhatAsked, RunRequest, Requests, AtvStates
<1>2. CASE a.step # "query"
    <2>1. a.step = "config" /\ a.setting \in 1..Len(Settings)
        BY <1>2, SettingsListed DEF Asking, AtvStates
    <2> QED BY <1>2, <2>1, SettingsListed DEF WhatAsked, Setting, Requests, Full
<1> QED BY <1>1, <1>2

-----------------------------------------------------------------------------
(* Disconnecting leaves a client that waits for nothing.                   *)
LEMMA CutOffTyped ==
    ASSUME NEW c \in ClientStates, NEW r \in {"error", "timeout"}
    PROVE  /\ CutOff(c, r) \in ClientStates
           /\ CutOff(c, r).result = r /\ ~ CutOff(c, r).listed
BY DEF CutOff, ClientStates

(* ... and a connection with nothing on it but what may arrive late.       *)
LEMMA SeveredTyped ==
    ASSUME NEW l \in LinkStates, NEW r \in Requests \union {NoRequest}
    PROVE  /\ Severed(l, r) \in LinkStates
           /\ Severed(l, r).requests = <<>> /\ Severed(l, r).answers = <<>>
           /\ Severed(l, r).late = r
<1>1. <<>> \in Seq(Requests) /\ <<>> \in Seq({"ok", "exception"})
    OBVIOUS
<1> QED BY <1>1 DEF Severed, LinkStates

(* All but the last setting is there when the last one is written.         *)
LEMMA SavesAll ==
    ASSUME NEW a \in AtvStates, NEW d \in ConverterStates,
           a.step = "config", a.setting \in 1..Len(Settings), Settings[a.setting] = "save",
           \A j \in 1..(a.setting - 1) : Settings[j] \in d.has
    PROVE  Full \ {"save"} \subseteq d.has
<1>1. a.setting = Len(Settings)
    BY SettingsListed
<1>2. SUFFICES ASSUME NEW x \in Full, x # "save" PROVE x \in d.has
    OBVIOUS
<1>3. PICK i \in 1..Len(Settings) : x = Settings[i]
    BY SettingsListed
<1>4. i # a.setting
    BY <1>2, <1>3
<1> QED BY <1>1, <1>3, <1>4, SettingsListed

(* A connection that is lost or given up in the middle of an exchange: its *)
(* request may still arrive, and then it is harmless.                      *)
LEMMA DisconnectedKeeps ==
    ASSUME NEW a, NEW c, NEW l, NEW d, Joint(a, c, l, d), Asking(a),
           NEW r \in {"error", "timeout"}, NEW q \in Disconnected(c, l, r)
    PROVE  Joint(a, q.c, q.l, d) /\ ~ q.c.listed
<1> USE DEF Joint, Typed
<1>1. PICK t \in {l.late} \union ToSet(l.requests) : q = Pair(CutOff(c, r), Severed(l, t))
    BY DEF Disconnected
<1>2. t = l.late \/ (l.requests = <<WhatAsked(a)>> /\ t = WhatAsked(a))
    BY Ranges DEF Matched
<1>3. t \in Requests \union {NoRequest}
    BY <1>2, AsksRequest DEF LinkStates
<1>4. q.c = CutOff(c, r) /\ q.l = Severed(l, t)
    BY <1>1 DEF Pair
<1>5. Typed(a, q.c, q.l, d)
    BY <1>3, <1>4, CutOffTyped, SeveredTyped
<1>6. Matched(a, q.c, q.l) /\ ~ q.c.listed
    BY <1>3, <1>4, CutOffTyped, SeveredTyped DEF Matched
<1>7. Complete(a, q.c, q.l, d)
    BY <1>3, <1>4, CutOffTyped, SeveredTyped DEF Complete, Accepted
<1>8. Trailing(a, q.l, d)
    <2>1. CASE t = l.late
        BY <1>3, <1>4, <2>1, SeveredTyped DEF Trailing
    <2>2. CASE t = WhatAsked(a) /\ t.kind = "set"
        <3>1. a.step = "config" /\ t.what = Settings[a.setting] /\ a.setting \in 1..Len(Settings)
            BY <2>2, AsksRequest
        <3>2. t.what = "save" => Full \ {"save"} \subseteq d.has
            BY <3>1, SavesAll DEF Complete
        <3> QED BY <1>3, <1>4, <3>1, <3>2, SeveredTyped DEF Trailing
    <2>3. CASE t.kind # "set"
        BY <1>3, <1>4, <2>3, SeveredTyped DEF Trailing
    <2> QED BY <1>2, <2>1, <2>2, <2>3
<1> QED BY <1>5, <1>6, <1>7, <1>8

-----------------------------------------------------------------------------
(* The times and delays stay within their bounds.                          *)
LEMMA Limits ==
    /\ 0 \in 0..(2 * SendTimeout + 1) /\ 0 \in 0..(2 * LastRetry + 1)
    /\ FirstRetry \in 1..(2 * LastRetry)
    /\ \A n \in 1..(2 * LastRetry) :
           (IF n > LastRetry THEN n ELSE 2 * n) \in 1..(2 * LastRetry)
BY DriveAssumption

(* A client that has sent waits in the list of the communicator.           *)
LEMMA ListedTyped ==
    ASSUME NEW c \in ClientStates
    PROVE  /\ Listed(c) \in ClientStates
           /\ Listed(c).conn = c.conn /\ Listed(c).result = "busy" /\ Listed(c).listed
BY Limits DEF Listed, ClientStates

(* A connection that carries nothing takes one request.                    *)
LEMMA CarryingTyped ==
    ASSUME NEW l \in LinkStates, NEW r \in Requests, l.requests = <<>>
    PROVE  /\ Carrying(l, r) \in LinkStates
           /\ Carrying(l, r).requests = <<>> \/ Carrying(l, r).requests = <<r>>
           /\ Carrying(l, r).answers = l.answers /\ Carrying(l, r).late = l.late
<1>1. Append(l.requests, r) = <<r>> /\ <<r>> \in Seq(Requests)
    OBVIOUS
<1> QED BY <1>1 DEF Carrying, LinkStates

(* A client that waits for nothing may take the request.                   *)
LEMMA TransmittedKeeps ==
    ASSUME NEW a, NEW c, NEW l, NEW d, Joint(a, c, l, d), Asking(a),
           ~ c.listed, c.conn = "on", NEW q \in Transmitted(c, l, WhatAsked(a))
    PROVE  Joint(a, q.c, q.l, d)
<1> USE DEF Joint, Typed
<1>1. CASE q = Pair(Listed(c), Carrying(l, WhatAsked(a)))
    <2>1. q.c = Listed(c) /\ q.l = Carrying(l, WhatAsked(a))
        BY <1>1 DEF Pair
    <2>2. l.requests = <<>> /\ l.answers = <<>> /\ WhatAsked(a) \in Requests
        BY AsksRequest DEF Matched
    <2>3. Typed(a, q.c, q.l, d)
        BY <2>1, <2>2, ListedTyped, CarryingTyped
    <2>4. Matched(a, q.c, q.l)
        BY <2>1, <2>2, ListedTyped, CarryingTyped DEF Matched
    <2>5. Complete(a, q.c, q.l, d)
        BY <2>1, <2>2, ListedTyped, CarryingTyped DEF Complete, Accepted
    <2>6. Trailing(a, q.l, d)
        BY <2>1, <2>2, CarryingTyped DEF Trailing
    <2> QED BY <2>3, <2>4, <2>5, <2>6
<1>2. CASE q \in Disconnected(c, l, "error")
    BY <1>2, DisconnectedKeeps
<1> QED BY <1>1, <1>2 DEF Transmitted

(* An attempt changes the client, and the connection when it succeeds.     *)
LEMMA ReachedKeeps ==
    ASSUME NEW a, NEW c, NEW l, NEW d, Joint(a, c, l, d), Asking(a), ~ c.listed,
           NEW e \in ClientStates, ~ e.listed, e.result # "ok" \/ e.result = c.result,
           NEW m \in LinkStates, m.requests = l.requests, m.answers = l.answers,
           m.late = l.late
    PROVE  Joint(a, e, m, d)
BY DEF Joint, Typed, Matched, Complete, Accepted, Trailing

(* The time of an attempt is noted.                                        *)
LEMMA TryingTyped ==
    ASSUME NEW c \in ClientStates
    PROVE  /\ Trying(c) \in ClientStates /\ Trying(c).listed = c.listed
           /\ Trying(c).result = c.result /\ Trying(c).conn = c.conn
BY Limits DEF Trying, ClientStates

(* An attempt to connect, however it ends, with the request sent if it     *)
(* succeeds at once.                                                       *)
LEMMA AttemptedKeeps ==
    ASSUME NEW a, NEW c, NEW l, NEW d, Joint(a, c, l, d), Asking(a), ~ c.listed,
           NEW o \in {"on", "connecting", "off", "no socket"},
           NEW q \in Attempted(c, l, WhatAsked(a), o)
    PROVE  Joint(a, q.c, q.l, d)
<1>1. c \in ClientStates /\ l \in LinkStates
    BY DEF Joint, Typed
<1>2. CASE o = "on"
    <2> DEFINE e == [c EXCEPT !.conn = "on", !.delay = FirstRetry]
               m == [l EXCEPT !.alive = TRUE]
    <2>1. e \in ClientStates /\ e.conn = "on" /\ e.result = c.result /\ ~ e.listed
        BY <1>1, Limits DEF ClientStates
    <2>2. m \in LinkStates /\ m.requests = l.requests /\ m.answers = l.answers /\ m.late = l.late
        BY <1>1 DEF LinkStates
    <2>3. q \in Transmitted(e, m, WhatAsked(a))
        BY <1>2 DEF Attempted
    <2> HIDE DEF e, m
    <2>4. Joint(a, e, m, d)
        BY <2>1, <2>2, ReachedKeeps
    <2> QED BY <2>1, <2>3, <2>4, TransmittedKeeps
<1>3. CASE o # "on"
    <2>1. q.l = l /\ q.c \in ClientStates /\ ~ q.c.listed /\ q.c.result \in {"busy", "error"}
        <3>1. CASE o = "connecting"
            <4>1. q = Pair([c EXCEPT !.conn = "connecting", !.result = "busy"], l)
                BY <3>1 DEF Attempted
            <4> QED BY <1>1, <4>1 DEF Pair, ClientStates
        <3>2. CASE o = "off"
            <4> DEFINE t == IF c.delay > LastRetry THEN c.delay ELSE 2 * c.delay
            <4>1. q = Pair([c EXCEPT !.conn = "off", !.result = "error", !.delay = t], l)
                BY <1>1, <3>2 DEF Attempted, ClientStates
            <4>2. t \in 1..(2 * LastRetry)
                <5>1. c.delay \in 1..(2 * LastRetry)
                    BY <1>1 DEF ClientStates
                <5> QED BY <5>1, Limits
            <4> HIDE DEF t
            <4> QED BY <1>1, <4>1, <4>2 DEF Pair, ClientStates
        <3>3. CASE o = "no socket"
            <4>1. q = Pair([c EXCEPT !.conn = "off", !.result = "error",
                                     !.delay = FirstRetry], l)
                BY <3>3 DEF Attempted
            <4> QED BY <1>1, <4>1, Limits DEF Pair, ClientStates
        <3> QED BY <1>3, <3>1, <3>2, <3>3
    <2> QED BY <1>1, <2>1, ReachedKeeps
<1> QED BY <1>2, <1>3

(* AsyncSend of a client that waits for nothing.                           *)
LEMMA SentKeeps ==
    ASSUME NEW a, NEW c, NEW l, NEW d, Joint(a, c, l, d), Asking(a), ~ c.listed,
           NEW q \in Sent(c, l, WhatAsked(a))
    PROVE  Joint(a, q.c, q.l, d)
<1>1. c \in ClientStates /\ l \in LinkStates
    BY DEF Joint, Typed
<1>2. CASE c.conn = "on"
    BY <1>2, TransmittedKeeps DEF Sent
<1>3. CASE c.conn = "off" /\ c.tried <= c.delay
    <2>1. q = Pair([c EXCEPT !.result = "error"], l)
        BY <1>3 DEF Sent
    <2>2. q.l = l /\ q.c \in ClientStates /\ ~ q.c.listed /\ q.c.result = "error"
        BY <1>1, <2>1 DEF Pair, ClientStates
    <2> QED BY <1>1, <2>2, ReachedKeeps
<1>4. CASE c.conn # "on" /\ ~ (c.conn = "off" /\ c.tried <= c.delay)
    <2>1. PICK o \in Attempts(c, l) : q \in Attempted(Trying(c), l, WhatAsked(a), o)
        BY <1>4 DEF Sent
    <2>2. o \in {"on", "connecting", "off", "no socket"}
        BY DEF Attempts
    <2>3. Joint(a, Trying(c), l, d) /\ ~ Trying(c).listed
        BY <1>1, TryingTyped, ReachedKeeps
    <2> QED BY <2>1, <2>2, <2>3, AttemptedKeeps
<1> QED BY <1>2, <1>3, <1>4

-----------------------------------------------------------------------------
(* An exchange that is done leaves nothing behind, and the setting written.*)
LEMMA JudgedKeeps ==
    ASSUME NEW a, NEW c, NEW l, NEW d, Joint(a, c, l, d), Asking(a),
           NEW r \in Judged(Pair(c, l), WhatAsked(a))
    PROVE  /\ Joint(a, r.c, r.l, d)
           /\ r.got \in {"pending", "done", "refused"}
           /\ r.got # "pending" => r.c.result = "free"
           /\ r.got = "done" /\ a.step = "config" => Settings[a.setting] \in d.has
           /\ r.got = "refused" => a.step = "query"
<1> DEFINE p == Pair(c, l)
           w == WhatAsked(a)
<1>1. p.c = c /\ p.l = l
    BY DEF Pair
<1>2. CASE Verdict(c, w) = "pending"
    <2>1. r = Got(p, "pending")
        BY <1>1, <1>2 DEF Judged
    <2> QED BY <1>1, <2>1 DEF Got
<1>3. CASE Verdict(c, w) = "again"
    <2>1. PICK q \in Sent(c, l, w) : r = Got(q, "pending")
        BY <1>1, <1>3 DEF Judged
    <2>2. ~ c.listed
        BY <1>3 DEF Verdict, Joint, Matched
    <2>3. Joint(a, q.c, q.l, d)
        BY <2>2, SentKeeps
    <2> QED BY <2>1, <2>3 DEF Got
<1>4. CASE Verdict(c, w) \in {"done", "refused"}
    <2>1. r = Got(Taken(p), Verdict(c, w))
        BY <1>1, <1>4 DEF Judged
    <2>2. r.l = l /\ r.c = [c EXCEPT !.result = "free"] /\ r.got = Verdict(c, w)
        BY <1>1, <2>1 DEF Got, Taken, Pair
    <2>3. c.result # "busy" /\ (Verdict(c, w) = "done" => c.result = "ok")
        BY <1>4 DEF Verdict
    <2>4. Verdict(c, w) = "refused" => w.kind = "run"
        BY DEF Verdict
    <2>5. r.c \in ClientStates /\ ~ r.c.listed /\ r.c.result = "free"
        BY <2>2, <2>3 DEF ClientStates, Joint, Typed, Matched
    <2>6. ~ c.listed
        BY <2>3 DEF Joint, Matched
    <2>7. Joint(a, r.c, r.l, d)
        BY <2>2, <2>5, <2>6, ReachedKeeps DEF Joint, Typed
    <2>8. Verdict(c, w) = "refused" => a.step = "query"
        BY <2>4, AsksRequest DEF Joint, Typed, Asking
    <2>9. Verdict(c, w) = "done" /\ a.step = "config" => Settings[a.setting] \in d.has
        BY <2>3 DEF Joint, Complete, Accepted
    <2> QED BY <1>4, <2>2, <2>5, <2>7, <2>8, <2>9
<1> QED BY <1>2, <1>3, <1>4 DEF Verdict

(* The same through the calls that go on connecting before they look at    *)
(* the result.                                                             *)
LEMMA AskedKeeps ==
    ASSUME NEW a, NEW c, NEW l, NEW d, Joint(a, c, l, d), Asking(a),
           NEW r \in Asked(c, l, WhatAsked(a))
    PROVE  /\ Joint(a, r.c, r.l, d)
           /\ r.got \in {"pending", "done", "refused"}
           /\ r.got # "pending" => r.c.result = "free"
           /\ r.got = "done" /\ a.step = "config" => Settings[a.setting] \in d.has
           /\ r.got = "refused" => a.step = "query"
<1>1. CASE c.conn = "connecting"
    <2>1. PICK p \in Sent(c, l, WhatAsked(a)) : r \in Judged(p, WhatAsked(a))
        BY <1>1 DEF Asked
    <2>2. ~ c.listed
        BY <1>1 DEF Joint, Matched
    <2>3. Joint(a, p.c, p.l, d)
        BY <2>2, SentKeeps
    <2>4. r \in Judged(Pair(p.c, p.l), WhatAsked(a))
        BY <2>1 DEF Judged, Got, Taken, Pair
    <2> QED BY <2>3, <2>4, JudgedKeeps
<1>2. CASE c.conn # "connecting"
    <2>1. r \in Judged(Pair(c, l), WhatAsked(a))
        BY <1>2 DEF Asked
    <2> QED BY <2>1, JudgedKeeps
<1> QED BY <1>1, <1>2

(* The communicator hands the answer to the client that waits for it.      *)
LEMMA CommunicatedKeeps ==
    ASSUME NEW a, NEW c, NEW l, NEW d, Joint(a, c, l, d), NEW traffic,
           NEW p \in Communicated(c, l, traffic)
    PROVE  Joint(a, p.c, p.l, d)
<1>1. CASE p = Pair(c, l)
    BY <1>1 DEF Pair
<1>2. CASE c.listed /\ l.answers # <<>>
    <2>1. p = Pair([c EXCEPT !.result = Head(l.answers), !.listed = FALSE],
                   [l EXCEPT !.answers = Tail(@)])
        BY <1>2 DEF Communicated
    <2>2. PICK x \in {"ok", "exception"} : l.answers = <<x>>
        BY <1>2 DEF Joint, Matched
    <2>3. Head(l.answers) = x /\ Tail(l.answers) = <<>>
        BY <2>2
    <2>4. /\ p.c \in ClientStates /\ ~ p.c.listed /\ p.c.result = x
          /\ p.l \in LinkStates /\ p.l.answers = <<>>
          /\ p.l.requests = l.requests /\ p.l.late = l.late
        <3>1. <<>> \in Seq({"ok", "exception"})
            OBVIOUS
        <3> QED BY <2>1, <2>3, <3>1 DEF Pair, ClientStates, LinkStates, Joint, Typed
    <2>5. Asking(a)
        BY <1>2 DEF Joint, Matched
    <2> QED BY <1>2, <2>2, <2>4, <2>5
            DEF Joint, Typed, Matched, Complete, Accepted, Trailing
<1>3. CASE c.listed /\ \E r \in {"error", "timeout"} : p \in Disconnected(c, l, r)
    <2>1. Asking(a)
        BY <1>3 DEF Joint, Matched
    <2> QED BY <1>3, <2>1, DisconnectedKeeps
<1> QED BY <1>1, <1>2, <1>3 DEF Communicated, TimedOut

-----------------------------------------------------------------------------
(* Nothing but these parts of the node decides what it asks.               *)
LEMMA SameRequest ==
    ASSUME NEW a, NEW c, NEW l, NEW d, Joint(a, c, l, d), NEW b \in AtvStates,
           b.step = a.step, b.setting = a.setting, b.filled = a.filled, b.word = a.word
    PROVE  Joint(b, c, l, d)
<1>1. (Asking(b) <=> Asking(a)) /\ WhatAsked(b) = WhatAsked(a)
    BY DEF Asking, WhatAsked, RunRequest, Setting
<1> QED BY <1>1 DEF Joint, Typed, Matched, Complete, Trailing

(* With no exchange under way the node is free to go on.                   *)
LEMMA FreeToMove ==
    ASSUME NEW a, NEW c, NEW l, NEW d, Joint(a, c, l, d), c.result = "free",
           NEW b \in AtvStates, ~ Asking(b) \/ b.step # "config" \/ a.setting = b.setting,
           b.step = "config" => \A j \in 1..(b.setting - 1) : Settings[j] \in d.has,
           b.step # "config" => (a.step # "config" \/ d.has = Full)
    PROVE  Joint(b, c, l, d)
<1>1. l.requests = <<>> /\ l.answers = <<>> /\ ~ c.listed
    BY DEF Joint, Matched
<1>2. ~ Accepted(c, l)
    BY <1>1 DEF Accepted
<1>3. Matched(b, c, l)
    BY <1>1 DEF Matched
<1>4. Complete(b, c, l, d) /\ Trailing(b, l, d)
    BY <1>2 DEF Joint, Complete, Trailing
<1> QED BY <1>3, <1>4 DEF Joint, Typed

(* A step of the configuration: one setting more is written, or the last   *)
(* one was and the converter has them all.                                 *)
LEMMA ConfigKeeps ==
    ASSUME NEW a, NEW c, NEW l, NEW d, Joint(a, c, l, d), a.step = "config",
           NEW e \in ConfigStep(a, c, l)
    PROVE  Joint(e.a, e.c, e.l, d)
<1>1. a \in AtvStates
    BY DEF Joint, Typed
<1>2. a.setting \in Nat /\ a.setting >= 1 /\ a.setting <= Len(Settings) + 1 /\ Len(Settings) \in Nat
    BY <1>1, SettingsListed DEF AtvStates
<1>3. CASE a.setting > Len(Settings)
    <2> DEFINE b == [a EXCEPT !.configure = FALSE, !.step = "prepare"]
    <2>1. e.a = b /\ e.c = c /\ e.l = l
        BY <1>3 DEF ConfigStep, Triple
    <2>2. b \in AtvStates /\ b.step = "prepare"
        BY <1>1 DEF AtvStates
    <2>3. c.result = "free"
        BY <1>2, <1>3 DEF Joint, Matched, Asking
    <2>4. Full \subseteq d.has
        BY <1>2, <1>3, SettingsListed DEF Joint, Complete
    <2>5. d.has = Full
        BY <2>4 DEF Joint, Typed, ConverterStates, Full
    <2> HIDE DEF b
    <2> QED BY <2>1, <2>2, <2>3, <2>5, FreeToMove
<1>4. CASE a.setting <= Len(Settings) /\ ~ a.filled
    <2> DEFINE b == [a EXCEPT !.filled = TRUE]
    <2>0. ~ (a.setting > Len(Settings))
        BY <1>2, <1>4
    <2>1. e.a = b /\ e.c = c /\ e.l = l
        <3>1. e = Triple(b, c, l)
            BY <1>4, <2>0 DEF ConfigStep
        <3> QED BY <3>1 DEF Triple
    <2>2. b \in AtvStates /\ b.step = "config" /\ b.setting = a.setting
        BY <1>1 DEF AtvStates
    <2>3. c.result = "free"
        BY <1>4 DEF Joint, Matched, Asking
    <2> HIDE DEF b
    <2> QED BY <2>1, <2>2, <2>3, FreeToMove DEF Joint, Complete
<1>5. CASE a.setting <= Len(Settings) /\ a.filled
    <2>1. PICK r \in Asked(c, l, Setting(a)) : e = Triple(Advanced(a, r), r.c, r.l)
        BY <1>2, <1>5 DEF ConfigStep
    <2>2. Asking(a) /\ Setting(a) = WhatAsked(a)
        BY <1>5 DEF Asking, WhatAsked
    <2>3. /\ Joint(a, r.c, r.l, d) /\ (r.got = "done" => r.c.result = "free")
          /\ r.got = "done" => Settings[a.setting] \in d.has
        BY <2>1, <2>2, AskedKeeps
    <2>4. e.a = Advanced(a, r) /\ e.c = r.c /\ e.l = r.l
        BY <2>1 DEF Triple
    <2>5. CASE r.got = "done"
        <3> DEFINE b == [a EXCEPT !.filled = FALSE, !.setting = a.setting + 1]
        <3>1. e.a = b
            BY <1>1, <2>4, <2>5 DEF Advanced, AtvStates
        <3>2. a.setting + 1 \in 1..(Len(Settings) + 1)
            BY <1>2, <1>5
        <3>3. /\ b \in AtvStates /\ b.step = "config" /\ ~ b.filled
              /\ b.setting = a.setting + 1
            BY <1>1, <3>2 DEF AtvStates
        <3>4. \A j \in 1..(b.setting - 1) : Settings[j] \in d.has
            BY <1>2, <2>3, <2>5, <3>3 DEF Joint, Complete
        <3>5. ~ Asking(b)
            BY <3>3 DEF Asking
        <3> HIDE DEF b
        <3> QED BY <2>3, <2>4, <2>5, <3>1, <3>3, <3>4, <3>5, FreeToMove
    <2>6. CASE r.got # "done"
        BY <2>3, <2>4, <2>6 DEF Advanced
    <2> QED BY <2>5, <2>6
<1> QED BY <1>2, <1>3, <1>4, <1>5

(* A step of the exchange of the command.                                  *)
LEMMA QueriedKeeps ==
    ASSUME NEW a, NEW c, NEW l, NEW d, Joint(a, c, l, d), a.step = "query",
           NEW e \in Queried(a, c, l)
    PROVE  Joint(e.a, e.c, e.l, d)
<1>1. a \in AtvStates
    BY DEF Joint, Typed
<1>0. PICK r \in Asked(c, l, RunRequest(a)) :
          e \in {Triple(b, r.c, r.l) : b \in AfterQuery(a, r)}
    BY DEF Queried
<1>2. PICK b \in AfterQuery(a, r) : e = Triple(b, r.c, r.l)
    BY <1>0
<1>3. Asking(a) /\ RunRequest(a) = WhatAsked(a)
    BY DEF Asking, WhatAsked
<1>4. Joint(a, r.c, r.l, d) /\ (r.got # "pending" => r.c.result = "free")
    BY <1>0, <1>3, AskedKeeps
<1>5. e.a = b /\ e.c = r.c /\ e.l = r.l
    BY <1>2 DEF Triple
<1>6. CASE r.got = "done"
    <2>1. PICK s \in Shown(a) : b = Reported(a, s)
        BY <1>2, <1>6 DEF AfterQuery
    <2>2. b \in AtvStates /\ b.step = "done"
        BY <1>1, <2>1 DEF Reported, Shown, AtvStates
    <2> QED BY <1>4, <1>5, <1>6, <2>2, FreeToMove
<1>7. CASE r.got = "refused"
    <2>1. b = [a EXCEPT !.step = "check", !.configure = TRUE]
        BY <1>2, <1>7 DEF AfterQuery
    <2>2. b \in AtvStates /\ b.step = "check"
        BY <1>1, <2>1 DEF AtvStates
    <2> QED BY <1>4, <1>5, <1>7, <2>2, FreeToMove
<1>8. CASE r.got \notin {"done", "refused"}
    <2>1. b = a
        BY <1>2, <1>8 DEF AfterQuery
    <2> QED BY <1>4, <1>5, <2>1
<1> QED BY <1>6, <1>7, <1>8

(* altivar_node::Evaluate, whatever step it is at.                         *)
LEMMA SteppedKeeps ==
    ASSUME NEW a, NEW c, NEW l, NEW d, Joint(a, c, l, d), NEW e \in Stepped(a, c, l)
    PROVE  Joint(e.a, e.c, e.l, d)
<1>1. a \in AtvStates
    BY DEF Joint, Typed
<1>2. a.step \notin {"config", "query"} => c.result = "free"
    BY DEF Joint, Matched, Asking
<1>3. CASE a.step = "check"
    <2> DEFINE b == IF a.configure
                    THEN [a EXCEPT !.step = "config", !.setting = 1, !.filled = FALSE]
                    ELSE [a EXCEPT !.step = "prepare"]
    <2>1. e.a = b /\ e.c = c /\ e.l = l
        BY <1>3 DEF Stepped, Triple
    <2>2. 1 \in 1..(Len(Settings) + 1)
        BY SettingsListed
    <2>3. /\ b \in AtvStates
          /\ b.step = "prepare" \/ (b.step = "config" /\ b.setting = 1 /\ ~ b.filled)
        BY <1>1, <2>2 DEF AtvStates
    <2> HIDE DEF b
    <2>4. ~ Asking(b)
        BY <2>3 DEF Asking
    <2>5. b.step = "config" => \A j \in 1..(b.setting - 1) : Settings[j] \in d.has
        BY <2>3
    <2> QED BY <1>2, <1>3, <2>1, <2>3, <2>4, <2>5, FreeToMove
<1>4. CASE a.step = "config"
    BY <1>4, ConfigKeeps DEF Stepped
<1>5. CASE a.step = "prepare"
    <2>1. e.a = [a EXCEPT !.step = "query", !.word = a.cmd] /\ e.c = c /\ e.l = l
        BY <1>1, <1>5 DEF Stepped, Triple, AtvStates
    <2>2. e.a \in AtvStates /\ e.a.step = "query"
        BY <1>1, <2>1 DEF AtvStates
    <2> QED BY <1>2, <1>5, <2>1, <2>2, FreeToMove
<1>6. CASE a.step = "query"
    BY <1>6, QueriedKeeps DEF Stepped
<1>7. CASE a.step = "done"
    <2>1. e.a = [a EXCEPT !.step = "rest", !.rested = 0] /\ e.c = c /\ e.l = l
        BY <1>7 DEF Stepped, Triple
    <2>2. 0 \in 0..(QueryInterval + 1)
        BY DriveAssumption
    <2>3. e.a \in AtvStates /\ e.a.step = "rest"
        BY <1>1, <2>1, <2>2 DEF AtvStates
    <2> QED BY <1>2, <1>7, <2>1, <2>3, FreeToMove
<1>8. CASE a.step = "rest"
    <2>1. /\ e.a = IF a.rested > QueryInterval THEN [a EXCEPT !.step = "check"] ELSE a
          /\ e.c = c /\ e.l = l
        BY <1>8 DEF Stepped, Triple
    <2>2. e.a \in AtvStates /\ e.a.step \in {"check", "rest"}
        BY <1>1, <1>8, <2>1 DEF AtvStates
    <2> QED BY <1>2, <1>8, <2>1, <2>2, FreeToMove
<1> QED BY <1>1, <1>3, <1>4, <1>5, <1>6, <1>7, <1>8 DEF AtvStates

(* Watching for a lost connection changes none of what is asked.           *)
LEMMA WatchedTyped ==
    ASSUME NEW a \in AtvStates, NEW c
    PROVE  /\ LossWatched(a, c) \in AtvStates
           /\ LossWatched(a, c).step = a.step /\ LossWatched(a, c).setting = a.setting
           /\ LossWatched(a, c).filled = a.filled /\ LossWatched(a, c).word = a.word
<1>1. 0 \in 0..(LostTime + 1)
    BY DriveAssumption
<1> QED BY <1>1 DEF LossWatched, AtvStates

(* A time that grows keeps to its bound.                                   *)
LEMMA SoonerIn ==
    ASSUME NEW n \in Nat, NEW t \in 0..n
    PROVE  Sooner(t, n) \in 0..n
BY DEF Sooner

(* Time passes for the node ...                                            *)
LEMMA OlderAtvTyped ==
    ASSUME NEW a \in AtvStates
    PROVE  /\ OlderAtv(a) \in AtvStates
           /\ OlderAtv(a).step = a.step /\ OlderAtv(a).setting = a.setting
           /\ OlderAtv(a).filled = a.filled /\ OlderAtv(a).word = a.word
<1> DEFINE s == Sooner(a.away, LostTime + 1)
           r == IF a.step = "rest" THEN Sooner(a.rested, QueryInterval + 1) ELSE 0
<1>1. a.away \in 0..(LostTime + 1) /\ a.rested \in 0..(QueryInterval + 1)
    BY DEF AtvStates
<1>2. LostTime + 1 \in Nat /\ QueryInterval + 1 \in Nat
    BY DriveAssumption
<1>3. s \in 0..(LostTime + 1) /\ r \in 0..(QueryInterval + 1)
    BY <1>1, <1>2, SoonerIn
<1>4. OlderAtv(a) = [a EXCEPT !.away = s, !.rested = r]
    BY DEF OlderAtv, AtvStates
<1> HIDE DEF s, r
<1> QED BY <1>3, <1>4 DEF AtvStates

(* ... and for the client.                                                 *)
LEMMA OlderClientTyped ==
    ASSUME NEW c \in ClientStates
    PROVE  /\ OlderClient(c) \in ClientStates
           /\ OlderClient(c).conn = c.conn /\ OlderClient(c).result = c.result
           /\ OlderClient(c).listed = c.listed
<1> DEFINE t == Sooner(c.tried, 2 * LastRetry + 1)
           w == IF c.listed THEN Sooner(c.waited, 2 * SendTimeout + 1) ELSE 0
<1>1. c.tried \in 0..(2 * LastRetry + 1) /\ c.waited \in 0..(2 * SendTimeout + 1)
    BY DEF ClientStates
<1>2. 2 * LastRetry + 1 \in Nat /\ 2 * SendTimeout + 1 \in Nat
    BY DriveAssumption
<1>3. t \in 0..(2 * LastRetry + 1) /\ w \in 0..(2 * SendTimeout + 1)
    BY <1>1, <1>2, SoonerIn
<1>4. OlderClient(c) = [c EXCEPT !.tried = t, !.waited = w]
    BY DEF OlderClient, ClientStates
<1> HIDE DEF t, w
<1> QED BY <1>3, <1>4 DEF ClientStates

(* A whole cycle: communicator, node, error of the connection, time.       *)
LEMMA CycleKeeps ==
    ASSUME DriveInv, NEW traffic, DriveCycle(traffic)
    PROVE  DriveInv'
<1>0. PICK p \in Communicated(client, link, traffic) :
        \E e \in IF atv.enabled THEN Stepped(atv, p.c, p.l) ELSE {Triple(atv, p.c, p.l)} :
            /\ atv' = OlderAtv(IF atv.enabled THEN LossWatched(e.a, e.c) ELSE e.a)
            /\ client' = OlderClient(e.c) /\ link' = e.l /\ drive' = drive
    BY DEF DriveCycle
<1>1. PICK e \in IF atv.enabled THEN Stepped(atv, p.c, p.l) ELSE {Triple(atv, p.c, p.l)} :
        /\ atv' = OlderAtv(IF atv.enabled THEN LossWatched(e.a, e.c) ELSE e.a)
        /\ client' = OlderClient(e.c) /\ link' = e.l /\ drive' = drive
    BY <1>0
<1>2. Joint(atv, p.c, p.l, drive)
    BY CommunicatedKeeps DEF DriveInv
<1>3. Joint(e.a, e.c, e.l, drive)
    <2>1. CASE atv.enabled
        BY <1>1, <1>2, <2>1, SteppedKeeps
    <2>2. CASE ~ atv.enabled
        BY <1>1, <1>2, <2>2 DEF Triple
    <2> QED BY <2>1, <2>2
<1> DEFINE w == IF atv.enabled THEN LossWatched(e.a, e.c) ELSE e.a
<1>4. /\ w \in AtvStates /\ w.step = e.a.step /\ w.setting = e.a.setting
      /\ w.filled = e.a.filled /\ w.word = e.a.word
    BY <1>3, WatchedTyped DEF Joint, Typed
<1>5. atv' = OlderAtv(w)
    BY <1>1
<1> HIDE DEF w
<1>6. Joint(atv', e.c, e.l, drive)
    BY <1>3, <1>4, <1>5, OlderAtvTyped, SameRequest
<1>7. /\ client' \in ClientStates /\ client'.conn = e.c.conn
      /\ client'.result = e.c.result /\ client'.listed = e.c.listed
    BY <1>1, <1>3, OlderClientTyped DEF Joint, Typed
<1>8. Joint(atv', client', e.l, drive)
    BY <1>6, <1>7 DEF Joint, Typed, Matched, Complete, Accepted
<1> QED BY <1>1, <1>8 DEF DriveInv

-----------------------------------------------------------------------------
(* A command of the program does not touch what is being asked.            *)
LEMMA CommandKeeps ==
    ASSUME DriveInv, NEW what \in DriveCommands, DriveCommand(what)
    PROVE  DriveInv'
<1>1. atv \in AtvStates
    BY DEF DriveInv, Joint, Typed
<1>2. what \in {"on", "off", "back", "disable", "enable"}
    BY DriveAssumption
<1>3. /\ atv' \in AtvStates /\ atv'.step = atv.step /\ atv'.setting = atv.setting
      /\ atv'.filled = atv.filled /\ atv'.word = atv.word
    BY <1>1, <1>2 DEF DriveCommand, AtvStates, Words
<1> QED BY <1>3, SameRequest DEF DriveCommand, DriveInv

(* The converter carries out a request.                                    *)
LEMMA ObeysTyped ==
    ASSUME drive \in ConverterStates, NEW r \in Requests, Obeys(r)
    PROVE  /\ drive' \in ConverterStates
           /\ drive'.has = IF r.kind = "set" THEN drive.has \union {r.what} ELSE drive.has
           /\ drive'.saved = IF r.kind = "set" /\ r.what = "save"
                             THEN drive.has \union {r.what} ELSE drive.saved
<1>1. CASE r.kind = "set"
    <2>1. r.what \in ToSet(Settings)
        BY <1>1 DEF Requests
    <2> DEFINE v == IF r.what = "save" THEN drive.has \union {r.what} ELSE drive.saved
    <2>2. drive' = [drive EXCEPT !.has = drive.has \union {r.what}, !.saved = v]
        BY <1>1 DEF Obeys, ConverterStates
    <2>3. drive.has \union {r.what} \in SUBSET ToSet(Settings) /\ v \in SUBSET ToSet(Settings)
        BY <2>1 DEF ConverterStates
    <2> HIDE DEF v
    <2>4. drive' \in ConverterStates /\ drive'.has = drive.has \union {r.what} /\ drive'.saved = v
        BY <2>2, <2>3 DEF ConverterStates
    <2> QED BY <1>1, <2>4 DEF v
<1>2. CASE r.kind # "set"
    <2>1. r.what \in Words
        BY <1>2 DEF Requests
    <2> QED BY <1>2, <2>1 DEF Obeys, ConverterStates
<1> QED BY <1>1, <1>2

(* The converter answers: a setting is there from then on, a command is    *)
(* obeyed with all the settings only.                                      *)
LEMMA AnswersKeeps ==
    ASSUME DriveInv, DriveAnswers
    PROVE  /\ DriveInv'
           /\ drive'.word # drive.word => drive.has = Full
<1> DEFINE r == Head(link.requests)
           x == IF r.kind = "run" /\ "scanner" \notin drive.has THEN "exception" ELSE "ok"
<1>1. /\ link.requests = <<WhatAsked(atv)>> /\ link.answers = <<>>
      /\ Asking(atv) /\ client.listed /\ client.result = "busy"
    BY DEF DriveAnswers, DriveInv, Joint, Matched
<1>2. r = WhatAsked(atv) /\ Tail(link.requests) = <<>> /\ Append(link.answers, x) = <<x>>
    BY <1>1
<1>3. Typed(atv, client, link, drive)
    BY DEF DriveInv, Joint
<1>4. /\ r \in Requests /\ r.kind = IF atv.step = "config" THEN "set" ELSE "run"
      /\ atv.step = "config" => r.what = Settings[atv.setting]
      /\ atv.step = "config" => atv.setting \in 1..Len(Settings)
    BY <1>1, <1>2, <1>3, AsksRequest DEF Typed
<1>5. Obeys(r) /\ atv' = atv /\ client' = client
    BY DEF DriveAnswers
<1>6. link' = [link EXCEPT !.requests = <<>>, !.answers = <<x>>]
    BY <1>2 DEF DriveAnswers
<1>7. x \in {"ok", "exception"} /\ <<x>> # <<>> /\ <<x>> \in Seq({"ok", "exception"})
    OBVIOUS
<1> HIDE DEF r, x
<1>8. /\ link' \in LinkStates /\ link'.requests = <<>> /\ link'.answers = <<x>>
      /\ link'.late = link.late
    <2>1. <<>> \in Seq(Requests)
        OBVIOUS
    <2> QED BY <1>3, <1>6, <1>7, <2>1 DEF Typed, LinkStates
<1>9. /\ drive' \in ConverterStates
      /\ drive'.has = IF r.kind = "set" THEN drive.has \union {r.what} ELSE drive.has
      /\ drive'.saved = IF r.kind = "set" /\ r.what = "save"
                        THEN drive.has \union {r.what} ELSE drive.saved
    BY <1>3, <1>4, <1>5, ObeysTyped DEF Typed
<1>10. drive.has \subseteq Full /\ "scanner" \in Full
    BY <1>3, SettingsListed DEF Typed, ConverterStates, Full
<1>11. Matched(atv, client, link')
    <2>1. \E z \in {"ok", "exception"} : link'.answers = <<z>>
        BY <1>7, <1>8
    <2>2. client.conn = "on"
        BY <1>1 DEF DriveInv, Joint, Matched
    <2> QED BY <1>1, <1>8, <2>1, <2>2 DEF Matched
<1>12. CASE atv.step = "config"
    <2>1. r.kind = "set" /\ drive'.has = drive.has \union {Settings[atv.setting]}
        BY <1>4, <1>9, <1>12
    <2>2. r.what = "save" => Full \subseteq drive'.has
        <3>1. \A j \in 1..(atv.setting - 1) : Settings[j] \in drive.has
            BY <1>12 DEF DriveInv, Joint, Complete
        <3>2. r.what = "save" => Full \ {"save"} \subseteq drive.has
            BY <1>3, <1>4, <1>12, <3>1, SavesAll DEF Typed
        <3> QED BY <1>4, <1>12, <2>1, <3>2
    <2>3. drive'.has \subseteq Full
        BY <1>9 DEF ConverterStates, Full
    <2>4. drive'.saved = {} \/ drive'.saved = Full
        BY <1>4, <1>9, <1>12, <2>1, <2>2, <2>3 DEF DriveInv, Joint, Complete
    <2>5. Complete(atv, client, link', drive')
        BY <1>12, <2>1, <2>4 DEF DriveInv, Joint, Complete
    <2>6. Trailing(atv, link', drive')
        BY <1>8, <1>12, <2>1 DEF DriveInv, Joint, Trailing
    <2>7. drive'.word = drive.word
        BY <1>3, <1>5, <2>1 DEF Obeys, Typed, ConverterStates
    <2> QED BY <1>3, <1>5, <1>8, <1>9, <1>11, <2>5, <2>6, <2>7 DEF DriveInv, Joint, Typed
<1>13. CASE atv.step # "config"
    <2>1. drive'.has = drive.has /\ drive'.saved = drive.saved /\ r.kind # "set"
        BY <1>4, <1>9, <1>13
    <2>2. drive.has = {} \/ drive.has = Full
        BY <1>13 DEF DriveInv, Joint, Complete
    <2>3. Complete(atv, client, link', drive')
        BY <1>13, <2>1 DEF DriveInv, Joint, Complete
    <2>4. Trailing(atv, link', drive')
        BY <1>8, <2>1 DEF DriveInv, Joint, Trailing
    <2>5. drive'.word # drive.word => "scanner" \in drive.has
        BY <1>5, <2>1 DEF Obeys
    <2>6. drive'.word # drive.word => drive.has = Full
        BY <2>2, <2>5
    <2> QED BY <1>3, <1>5, <1>8, <1>9, <1>11, <2>3, <2>4, <2>6 DEF DriveInv, Joint, Typed
<1> QED BY <1>12, <1>13

(* A request that arrives late completes what was there already.           *)
LEMMA HearsLateKeeps ==
    ASSUME DriveInv, DriveHearsLate
    PROVE  DriveInv'
<1>1. Typed(atv, client, link, drive)
    BY DEF DriveInv, Joint
<1>2. link.late \in Requests /\ Obeys(link.late) /\ atv' = atv /\ client' = client
    BY <1>1 DEF DriveHearsLate, Typed, LinkStates
<1>3. /\ link' \in LinkStates /\ link'.requests = link.requests
      /\ link'.answers = link.answers /\ link'.late = NoRequest
    BY <1>1 DEF DriveHearsLate, Typed, LinkStates
<1> DEFINE r == link.late
<1>4. /\ drive' \in ConverterStates
      /\ drive'.has = IF r.kind = "set" THEN drive.has \union {r.what} ELSE drive.has
      /\ drive'.saved = IF r.kind = "set" /\ r.what = "save"
                        THEN drive.has \union {r.what} ELSE drive.saved
    BY <1>1, <1>2, ObeysTyped DEF Typed
<1>5. drive.has \subseteq drive'.has /\ drive'.has \subseteq Full /\ drive.has \subseteq Full
    BY <1>1, <1>4 DEF Typed, ConverterStates, Full
<1>6. Trailing(atv, link, drive) /\ Complete(atv, client, link, drive)
    BY DEF DriveInv, Joint
<1>7. atv.step # "config" => drive'.has = {} \/ drive'.has = Full
    BY <1>4, <1>5, <1>6 DEF Trailing, Complete
<1>8. drive'.saved = {} \/ drive'.saved = Full
    <2>1. CASE r.kind = "set" /\ r.what = "save"
        BY <1>4, <1>5, <1>6, <2>1 DEF Trailing
    <2>2. CASE ~ (r.kind = "set" /\ r.what = "save")
        BY <1>4, <1>6, <2>2 DEF Complete
    <2> QED BY <2>1, <2>2
<1>9. Complete(atv, client, link', drive')
    BY <1>3, <1>5, <1>6, <1>7, <1>8 DEF Complete, Accepted
<1>10. Trailing(atv, link', drive')
    BY <1>3 DEF Trailing, NoRequest
<1>11. Matched(atv, client, link')
    BY <1>3 DEF DriveInv, Joint, Matched
<1> QED BY <1>1, <1>2, <1>3, <1>4, <1>9, <1>10, <1>11 DEF DriveInv, Joint, Typed

(* The cable is unplugged or plugged in.                                   *)
LEMMA CableKeeps ==
    ASSUME DriveInv, CableChanges
    PROVE  DriveInv'
<1>1. /\ link' \in LinkStates /\ link'.requests = link.requests
      /\ link'.answers = link.answers /\ link'.late = link.late
    BY DEF CableChanges, DriveInv, Joint, Typed, LinkStates
<1> QED BY <1>1 DEF CableChanges, DriveInv, Joint, Typed, Matched, Complete, Accepted, Trailing

(* The converter loses its power or is exchanged.                          *)
LEMMA FailsKeeps ==
    ASSUME DriveInv, DriveFails
    PROVE  DriveInv'
<1>1. Typed(atv, client, link, drive)
    BY DEF DriveInv, Joint
<1>2. /\ link' \in LinkStates /\ link'.requests = <<>>
      /\ link'.answers = link.answers /\ link'.late = NoRequest
    <2>1. <<>> \in Seq(Requests)
        OBVIOUS
    <2> QED BY <1>1, <2>1 DEF DriveFails, Typed, LinkStates
<1>3. PICK left \in {drive.saved, {}} : drive' = [has |-> left, saved |-> left, word |-> "none"]
    BY DEF DriveFails
<1>4. (left = {} \/ left = Full) /\ left \in SUBSET ToSet(Settings)
    BY <1>1, <1>3 DEF DriveInv, Joint, Complete, Typed, ConverterStates
<1>5. drive' \in ConverterStates /\ drive'.has = left /\ drive'.saved = left
    BY <1>3, <1>4 DEF ConverterStates
<1>6. atv' = atv /\ client' = client /\ atv.step # "config"
    BY DEF DriveFails
<1>7. Matched(atv, client, link')
    <2>1. Matched(atv, client, link)
        BY DEF DriveInv, Joint
    <2> QED BY <1>2, <2>1 DEF Matched
<1>8. Complete(atv, client, link', drive') /\ Trailing(atv, link', drive')
    BY <1>2, <1>4, <1>5, <1>6 DEF Complete, Trailing, NoRequest
<1> QED BY <1>1, <1>2, <1>5, <1>6, <1>7, <1>8 DEF DriveInv, Joint, Typed

-----------------------------------------------------------------------------
(* The invariant holds at the start ...                                    *)
LEMMA DriveStarts ==
    ASSUME DriveInit
    PROVE  DriveInv
<1>1. atv \in AtvStates
    <2>1. 1 \in 1..(Len(Settings) + 1) /\ 0 \in 0..(LostTime + 1) /\ 0 \in 0..(QueryInterval + 1)
        BY SettingsListed, DriveAssumption
    <2> QED BY <2>1 DEF DriveInit, AtvStates, Words
<1>2. client \in ClientStates
    <2>1. 2 * LastRetry + 1 \in 0..(2 * LastRetry + 1)
        BY DriveAssumption
    <2> QED BY <2>1, Limits DEF DriveInit, ClientStates
<1>3. link \in LinkStates
    <2>1. <<>> \in Seq(Requests) /\ <<>> \in Seq({"ok", "exception"})
        OBVIOUS
    <2> QED BY <2>1 DEF DriveInit, LinkStates
<1>4. PICK s \in {{}, Full} : drive = [has |-> s, saved |-> s, word |-> "none"]
    BY DEF DriveInit, Full
<1>5. drive \in ConverterStates
    BY <1>4 DEF ConverterStates, Full
<1>6. Matched(atv, client, link)
    BY DEF DriveInit, Matched
<1>7. Complete(atv, client, link, drive) /\ Trailing(atv, link, drive)
    BY <1>4 DEF DriveInit, Complete, Trailing, NoRequest
<1> QED BY <1>1, <1>2, <1>3, <1>5, <1>6, <1>7 DEF DriveInv, Joint, Typed

(* ... and every step keeps it.                                            *)
LEMMA DriveStays ==
    ASSUME DriveInv, [DriveNext]_driveVars
    PROVE  DriveInv'
<1>1. CASE \E traffic \in BOOLEAN : DriveCycle(traffic)
    BY <1>1, CycleKeeps
<1>2. CASE \E what \in DriveCommands : DriveCommand(what)
    BY <1>2, CommandKeeps
<1>3. CASE DriveAnswers
    BY <1>3, AnswersKeeps
<1>4. CASE DriveHearsLate
    BY <1>4, HearsLateKeeps
<1>5. CASE CableChanges
    BY <1>5, CableKeeps
<1>6. CASE DriveFails
    BY <1>6, FailsKeeps
<1>7. CASE UNCHANGED driveVars
    BY <1>7 DEF driveVars, DriveInv
<1> QED BY <1>1, <1>2, <1>3, <1>4, <1>5, <1>6, <1>7 DEF DriveNext

(* The invariant holds always: an answer belongs to the request being made *)
(* (altivar_node::Evaluate, tcp_communicator_linux::evaluate).             *)
THEOREM DriveSound == DriveSpec => []DriveInv
<1>1. DriveInit => DriveInv
    BY DriveStarts
<1>2. DriveInv /\ [DriveNext]_driveVars => DriveInv'
    BY DriveStays
<1> QED BY <1>1, <1>2, PTL DEF DriveSpec

(* Node, client, connection and converter keep their types.                *)
THEOREM DriveTypes == DriveSpec => []DriveTypeOK
<1>1. DriveInv => DriveTypeOK
    BY DEF DriveInv, Joint, Typed, DriveTypeOK
<1> QED BY <1>1, DriveSound, PTL

(* On a connection the converter obeys a command only when it has every    *)
(* setting: through time-outs, lost connections and requests sent twice no *)
(* answer is taken for that of another request (modbus_client,             *)
(* altivar_node::Evaluate).                                                *)
THEOREM OnlyConfiguredObeys == DriveSpec => ObeysConfigured
<1>1. DriveInv /\ [DriveNext]_driveVars
        => [DriveAnswers /\ drive'.word # drive.word => drive.has = ToSet(Settings)]_driveVars
    BY AnswersKeeps DEF Full
<1> QED BY <1>1, DriveSound, PTL DEF DriveSpec, ObeysConfigured
================================================================================
