------------------------------ MODULE Coupler ------------------------------
(***************************************************************************)
(* The exchange with the I/O couplers (uni_io_manager).  In every cycle    *)
(* read_inputs asks each coupler for its inputs, the program changes the   *)
(* outputs it wants, and write_outputs sends all of them.  Both use        *)
(* e_communicate, which raises and resets the alarm of a silent coupler,   *)
(* reconnects with a growing delay and drops a connection that fails.      *)
(*                                                                         *)
(* A coupler is a record.  A request or its answer may be lost as long as  *)
(* the line is bad; a coupler may also answer with a Modbus exception.     *)
(* Times are counted in cycles of the main loop.                           *)
(***************************************************************************)
EXTENDS Integers

CONSTANTS
    Nodes,
    Values,         \* images of the outputs
    MaxWait,        \* C_MAX_WAIT_TIME
    FirstDelay,     \* C_INITIAL_RECONNECT_DELAY
    MaxDelay,       \* C_MAX_DELAY
    MaxSilence      \* bound: times are not counted further

ASSUME CouplerAssumption ==
    /\ MaxWait \in Nat /\ FirstDelay \in Nat \ {0} /\ MaxDelay \in Nat
    /\ MaxSilence \in Nat /\ MaxWait < MaxSilence /\ 2 * MaxDelay <= MaxSilence
    /\ FirstDelay <= 2 * MaxDelay

VARIABLES
    node,       \* the couplers as the controller knows them
    field,      \* the outputs of every coupler itself
    wire,       \* "good" or "bad": whether exchanges with it succeed
    stage       \* of the main loop: the couplers still to read, then to write

couplerVars == <<node, field, wire, stage>>

CouplerTypeOK ==
    /\ node \in [Nodes ->
           [linked: BOOLEAN,            \* state is ST_OK
            alarm: BOOLEAN,             \* is_set_err
            silence: 0..MaxSilence,     \* since last_poll_time
            tried: 0..MaxSilence,       \* since last_init_time
            delay: 1..(2 * MaxDelay),   \* delay_time
            wanted: Values,             \* DO_, AO_
            sent: Values]]              \* DO, AO
    /\ field \in [Nodes -> Values]
    /\ wire \in [Nodes -> {"good", "bad"}]
    /\ stage \in [toRead: SUBSET Nodes, toWrite: SUBSET Nodes]

CouplerInit ==
    \E z \in Values :
    /\ node = [n \in Nodes |->
           [linked |-> FALSE, alarm |-> FALSE, silence |-> 0, tried |-> 0,
            delay |-> FirstDelay, wanted |-> z, sent |-> z]]
    /\ field = [n \in Nodes |-> z]
    /\ wire \in [Nodes -> {"good", "bad"}]
    /\ stage = [toRead |-> Nodes, toWrite |-> {}]

(* Mutant: an alarm that was raised is not reset.                          *)
KeptAlarm(r) == [r EXCEPT !.alarm = @ \/ r.silence > MaxWait]

(* The first part of e_communicate: the alarm.                             *)
Checked(r) == [r EXCEPT !.alarm = r.silence > MaxWait]

(* Mutant: the delay between the attempts grows without bound.             *)
FailedUnbounded(r) == [r EXCEPT !.tried = 0, !.delay = 2 * @]

(* Not connected: nothing before the delay is over; then an attempt.       *)
Failed(r) ==
    [r EXCEPT !.tried = 0, !.delay = IF @ < MaxDelay THEN 2 * @ ELSE @]
Linked(r) == [r EXCEPT !.linked = TRUE, !.delay = FirstDelay]
Dropped(r) == [r EXCEPT !.linked = FALSE]
Answered(r) == [r EXCEPT !.silence = 0]

(* The ways an exchange with coupler n can end: what the controller makes  *)
(* of it, whether the request arrived and whether it was confirmed.        *)
Outcomes(n) ==
    LET r == Checked(node[n])
        good == [kind |-> "done", r |-> Answered(Linked(r))]
        refused == [kind |-> "refused", r |-> Answered(Linked(r))]
        lost == {[kind |-> k, r |-> Dropped(Linked(r))] : k \in {"lost", "unanswered"}}
    IN IF ~ r.linked /\ r.tried < r.delay THEN {[kind |-> "none", r |-> r]}
       ELSE IF wire[n] = "good" THEN {good}
       ELSE {good, refused} \union lost
            \union (IF r.linked THEN {}
                    ELSE {[kind |-> "none", r |-> Failed(r)]})

ReadInputs(n) ==
    /\ n \in stage.toRead
    /\ \E o \in Outcomes(n) : node' = [node EXCEPT ![n] = o.r]
    /\ stage' = [stage EXCEPT !.toRead = @ \ {n},
                              !.toWrite = IF stage.toRead = {n} THEN Nodes ELSE @]
    /\ UNCHANGED <<field, wire>>

(* Any change the program makes between the two.                           *)
Want(n, v) ==
    /\ stage = [toRead |-> {}, toWrite |-> Nodes]
    /\ node[n].wanted # v
    /\ node' = [node EXCEPT ![n].wanted = v]
    /\ UNCHANGED <<field, wire, stage>>

(* Mutant: an exception is taken for a confirmation.                       *)
ConfirmedRefused(o) ==
    IF o.kind \in {"done", "refused"} THEN [o.r EXCEPT !.sent = o.r.wanted] ELSE o.r

Confirmed(o) == IF o.kind = "done" THEN [o.r EXCEPT !.sent = o.r.wanted] ELSE o.r

Longer(t) == IF t < MaxSilence THEN t + 1 ELSE t
OlderNode(r) == [r EXCEPT !.silence = Longer(@), !.tried = Longer(@)]

(* The last coupler ends the cycle.                                        *)
WriteOutputs(n) ==
    LET last == stage.toWrite = {n} IN
    /\ n \in stage.toWrite
    /\ \E o \in Outcomes(n) :
        /\ LET after == [node EXCEPT ![n] = Confirmed(o)]
           IN node' = IF last THEN [m \in Nodes |-> OlderNode(after[m])] ELSE after
        /\ field' = IF o.kind \in {"done", "unanswered"}
                    THEN [field EXCEPT ![n] = node[n].wanted] ELSE field
    /\ stage' = [toWrite |-> stage.toWrite \ {n},
                 toRead |-> IF last THEN Nodes ELSE {}]
    /\ UNCHANGED wire

LineChanges(n) ==
    /\ wire' = [wire EXCEPT ![n] = IF @ = "good" THEN "bad" ELSE "good"]
    /\ UNCHANGED <<node, field, stage>>

Exchange == \E n \in Nodes : ReadInputs(n) \/ WriteOutputs(n)

CouplerNext ==
    \/ Exchange
    \/ \E n \in Nodes : LineChanges(n) \/ \E v \in Values : Want(n, v)

CouplerSpec == CouplerInit /\ [][CouplerNext]_couplerVars

FairCouplerSpec == CouplerSpec /\ WF_couplerVars(Exchange)

-----------------------------------------------------------------------------
(* When the line stays good, the controller is connected in the end, every *)
(* cycle takes the outputs to the coupler and knows it, and the alarm is   *)
(* over for good: no delay of the attempts outgrows the good times.        *)
OutputsArrive ==
    \A n \in Nodes :
        <>[](wire[n] = "good") =>
            <>[](/\ ~ node[n].alarm
                 /\ stage.toRead = Nodes =>
                       field[n] = node[n].wanted /\ node[n].sent = node[n].wanted)

(* What the controller takes for the current outputs (DO, "Current         *)
(* values") are outputs the coupler has had: no image is taken over that   *)
(* never arrived, was refused or was changed while it was under way.       *)
SentHasArrived ==
    [][\A n \in Nodes :
        node'[n].sent # node[n].sent => field'[n] = node'[n].sent]_couplerVars
=============================================================================
