-------------------------------- MODULE Params --------------------------------
(***************************************************************************)
(* The saved parameters (params_manager, saved_params): the array of the   *)
(* parameters in RAM, its copy in the non-volatile memory, and the size of *)
(* the parameters that tells at the start whether the memory belongs to    *)
(* the program.  Power may fail between any two writes, and another        *)
(* program may be loaded while the controller is off.                      *)
(*                                                                         *)
(* A parameter is a slot; a value carries the program that wrote it.  The  *)
(* checksum (solve_CRC) is computed by nobody and is left out.             *)
(***************************************************************************)
EXTENDS Integers

CONSTANTS
    Programs,       \* programs the controller may run
    SizeOf,         \* SizeOf[p]: bytes of parameters of p (last_idx)
    SlotCount,      \* slots of the memory (C_TOTAL_PARAMS_SIZE)
    UserValues      \* what operators write; 0 is the default

(* Programs of the same size are not told apart, so none are considered.   *)
ASSUME ParamsAssumption ==
    /\ SizeOf \in [Programs -> Nat \ {0}] /\ SlotCount \in Nat \ {0}
    /\ \A p, q \in Programs : SizeOf[p] = SizeOf[q] => p = q
    /\ "none" \notin Programs

VARIABLES
    program,        \* the program in the controller
    phase,          \* where the program is: see Phases
    params,         \* the array in RAM
    eeprom,         \* its copy in the EEPROM
    sizeWord,       \* the size kept in the NVRAM (C_LAST_IDX_OFFSET)
    progress,       \* slots that a reset has saved so far
    owner,          \* history: the program whose size the memory carries
    own,            \* history: the slots it has written since it was the first to
    kept,           \* history: what it saved there last
    torn            \* history: power failed while a reset was under way
paramVars == <<program, phase, params, eeprom, sizeWord, progress, owner, own, kept, torn>>

Slots == 1..SlotCount
Phases == {"off", "read", "default", "saving", "run"}
None == "none"
Cells == [by: Programs \union {None}, val: UserValues \union {0}]

ParamsTypeOK ==
    /\ program \in Programs /\ phase \in Phases
    /\ params \in [Slots -> Cells] /\ eeprom \in [Slots -> Cells]
    /\ sizeWord \in {SizeOf[p] : p \in Programs} \union {0}
    /\ progress \in 0..SlotCount
    /\ owner \in Programs \union {None} /\ own \subseteq Slots
    /\ kept \in [Slots -> UserValues \union {0}] /\ torn \in BOOLEAN

Erased == [s \in Slots |-> [by |-> None, val |-> 0]]
NothingKept == [s \in Slots |-> 0]
ParamsInit ==
    /\ program \in Programs /\ phase = "off"
    /\ params = Erased /\ eeprom = Erased /\ sizeWord = 0 /\ progress = 0
    /\ owner = None /\ own = {} /\ kept = NothingKept /\ torn = FALSE

-----------------------------------------------------------------------------
(* init: the memory is read into the array whatever it holds.              *)
ReadParams ==
    /\ phase = "off" /\ phase' = "read"
    /\ params' = eeprom
    /\ UNCHANGED <<program, eeprom, sizeWord, progress, owner, own, kept, torn>>

(* final_init: another size means another program; the new size is written  *)
(* before the defaults.                                                    *)
SizeChanged == sizeWord # SizeOf[program]
(* Mutant: the size of a reset memory stays zero.                          *)
NotWritten == 0
Written == SizeOf[program]
CheckSize ==
    /\ phase = "read"
    /\ IF SizeChanged
       THEN /\ phase' = "default" /\ sizeWord' = Written
            /\ owner' = program
            /\ IF owner = program THEN UNCHANGED <<own, kept>>
               ELSE own' = {} /\ kept' = NothingKept
       ELSE phase' = "run" /\ UNCHANGED <<sizeWord, owner, own, kept>>
    /\ UNCHANGED <<program, params, eeprom, progress, torn>>

(* reset_to_default: the array first, then one save() of all of it.        *)
SetDefaults ==
    /\ phase = "default" /\ phase' = "saving" /\ progress' = 0
    /\ params' = [s \in Slots |-> [by |-> program, val |-> 0]]
    /\ UNCHANGED <<program, eeprom, sizeWord, owner, own, kept, torn>>

SaveDefaults ==
    /\ phase = "saving"
    /\ IF progress < SlotCount
       THEN /\ eeprom' = [eeprom EXCEPT ![progress + 1] = params[progress + 1]]
            /\ progress' = progress + 1 /\ own' = own \union {progress + 1}
            /\ UNCHANGED <<phase, torn>>
       ELSE phase' = "run" /\ torn' = FALSE /\ UNCHANGED <<eeprom, progress, own>>
    /\ UNCHANGED <<program, params, sizeWord, owner, kept>>

-----------------------------------------------------------------------------
(* saved_params::save writes through, the index operator only the array.   *)
SaveParam ==
    /\ phase = "run"
    /\ \E s \in Slots, v \in UserValues :
         LET cell == [by |-> program, val |-> v]
         IN /\ params' = [params EXCEPT ![s] = cell]
            /\ eeprom' = [eeprom EXCEPT ![s] = cell]
            /\ kept' = [kept EXCEPT ![s] = v] /\ own' = own \union {s}
    /\ UNCHANGED <<program, phase, sizeWord, progress, owner, torn>>

PokeParam ==
    /\ phase = "run"
    /\ \E s \in Slots, v \in UserValues : params' = [params EXCEPT ![s] = [by |-> program, val |-> v]]
    /\ UNCHANGED <<program, phase, eeprom, sizeWord, progress, owner, own, kept, torn>>

(* RESET_PARAMS: reset_params_size, then final_init.                       *)
ResetParams ==
    /\ phase = "run" /\ phase' = "read" /\ sizeWord' = 0 /\ owner' = None
    /\ UNCHANGED <<program, params, eeprom, progress, own, kept, torn>>

PowerFails ==
    /\ phase # "off" /\ phase' = "off"
    /\ torn' = (torn \/ phase \in {"default", "saving"})
    /\ params' = Erased /\ progress' = 0
    /\ UNCHANGED <<program, eeprom, sizeWord, owner, own, kept>>

LoadProgram ==
    /\ phase = "off"
    /\ \E p \in Programs : program' = p
    /\ UNCHANGED <<phase, params, eeprom, sizeWord, progress, owner, own, kept, torn>>

ParamsNext ==
    \/ ReadParams \/ CheckSize \/ SetDefaults \/ SaveDefaults \/ SaveParam \/ PokeParam
    \/ ResetParams \/ PowerFails \/ LoadProgram

ParamsSpec == ParamsInit /\ [][ParamsNext]_paramVars

-----------------------------------------------------------------------------
(* Whatever programs were loaded and whenever power failed, a running      *)
(* program carries its own size in the memory, finds in every slot it wrote*)
(* since then the last value it saved, and works with it: defaults come    *)
(* only after another program or a command to reset.  The slots it has not *)
(* written are those a reset had not reached when power failed inside it:  *)
(* the size is written before the defaults, so the next start takes what   *)
(* the program before left there for its own.  No other slot is lost.      *)
RunsOnOwnMemory ==
    phase = "run" =>
        /\ owner = program
        /\ \A s \in own : /\ eeprom[s] = [by |-> program, val |-> kept[s]]
                          /\ params[s].by = program
        /\ torn \/ own = Slots
=============================================================================
