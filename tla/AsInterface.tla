---------------------------- MODULE AsInterface ----------------------------
(***************************************************************************)
(* Valves behind an AS-interface gateway (valve_AS and its kinds).  Two    *)
(* valves share a byte of the gateway's output image, a nibble each, which *)
(* nibble depends on the number; every command reads and writes the byte.  *)
(*                                                                         *)
(* written is the image the commands change, sent the one that the last    *)
(* successful write_outputs took to the gateway: a valve's state is read   *)
(* from sent, so it lags a cycle or a failed exchange behind.              *)
(***************************************************************************)
EXTENDS Integers

CONSTANTS
    AsNumbers,      \* numbers of the valves of one gateway
    Reversed        \* those with reverse_seat_connection

ASSUME AsAssumption == AsNumbers \subseteq 0..63 /\ Reversed \subseteq AsNumbers

VARIABLES
    written,        \* get_AO_write_data: the bits that are set in every byte
    sent            \* get_AO_read_data

asVars == <<written, sent>>

(* get_data_with_offset and the choice of the nibble; MAILBOX_OFFSET apart.*)
Byte(n) ==
    IF n < 32 THEN n \div 2
    ELSE 16 + ((n - 32) \div 2) + (n % 2)
High(n) == (n < 32) = (n % 2 = 0)

Bytes == {Byte(n) : n \in AsNumbers}
Bits == 0..7
Coil == [main |-> 1, s2 |-> 2, s3 |-> 3]     \* C_OPEN_S1, S2, S3
SeatCoil(n, seat) ==
    IF (seat = "upper") = (n \in Reversed) THEN "s2" ELSE "s3"

Bit(n, coil) == Coil[coil] + (IF High(n) THEN 4 ELSE 0)
Nibble(n) == IF High(n) THEN 4..7 ELSE 0..3

AsTypeOK ==
    /\ written \in [Bytes -> SUBSET Bits]
    /\ sent \in [Bytes -> SUBSET Bits]

AsInit ==
    /\ written = [b \in Bytes |-> {}]
    /\ sent = written

(* The coils of a valve in an image, and the state read from the sent one. *)
CoilsIn(image, n) == {c \in DOMAIN Coil : Bit(n, c) \in image[Byte(n)]}
AsPosition(n) ==
    LET c == CoilsIn(sent, n) IN
    IF "main" \in c THEN "V_ON"
    ELSE IF SeatCoil(n, "upper") \in c THEN "V_UPPER_SEAT"
    ELSE IF SeatCoil(n, "lower") \in c THEN "V_LOWER_SEAT" ELSE "V_OFF"

(* Mutant: direct_off clears the whole byte.                               *)
ClearedByte(n, bits) == {}

Cleared(n, bits) == bits \ Nibble(n)
SwitchedOn(n, bits) ==
    (bits \union {Bit(n, "main")}) \ {Bit(n, "s2"), Bit(n, "s3")}
SeatOpened(n, bits, seat) ==
    Cleared(n, bits) \union {Bit(n, SeatCoil(n, seat))}

Write(n, bits) == written' = [written EXCEPT ![Byte(n)] = bits]

(* direct_off, direct_on and direct_set_state with a seat.                 *)
AsOff(n) == Write(n, Cleared(n, written[Byte(n)])) /\ UNCHANGED sent
AsOn(n) == Write(n, SwitchedOn(n, written[Byte(n)])) /\ UNCHANGED sent
AsSeat(n, seat) == Write(n, SeatOpened(n, written[Byte(n)], seat)) /\ UNCHANGED sent

(* write_outputs of a coupler that answers.                                *)
AsWriteOutputs == sent # written /\ sent' = written /\ UNCHANGED written

AsCommand(n) == AsOff(n) \/ AsOn(n) \/ AsSeat(n, "upper") \/ AsSeat(n, "lower")

AsNext ==
    \/ \E n \in AsNumbers : AsCommand(n)
    \/ AsWriteOutputs

AsSpec == AsInit /\ [][AsNext]_asVars

-----------------------------------------------------------------------------
(* A command to one valve never changes an output of another one, whether  *)
(* it lies in the same byte or not, and no valve ever gets two of its      *)
(* coils (main drive, seats) at the same time.                             *)
AsIndependent ==
    [][\A m \in AsNumbers :
        CoilsIn(written', m) # CoilsIn(written, m) =>
            \A n \in AsNumbers \ {m} : ~ AsCommand(n)]_asVars
AsOneWay ==
    \A n \in AsNumbers : \A c, d \in CoilsIn(written, n) : c = d
=============================================================================
