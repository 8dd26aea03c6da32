---------------------------- MODULE MCTechObject ----------------------------
(* Instances of TechObject for TLC.                                        *)
EXTENDS TechObject

(* A state without steps, described or not.                                *)
NoSteps(empty) ==
    [n |-> 0, next |-> <<>>, max |-> <<>>, jump |-> <<>>,
     signal |-> {}, turnoff |-> {}, empty |-> empty]

(* One step without a time limit.                                          *)
OneStep ==
    [n |-> 1, next |-> <<0>>, max |-> <<0>>, jump |-> <<{}>>,
     signal |-> {}, turnoff |-> {}, empty |-> FALSE]

(* Two steps: 1 is timed and followed by 2, the last one, whose duration   *)
(* the client may set to 0; 2 may jump back to 1 and may also run as an    *)
(* extra step by signal.                                                   *)
TwoSteps ==
    [n |-> 2, next |-> <<2, 0>>, max |-> <<2, 0>>, jump |-> <<{}, {1}>>,
     signal |-> {2}, turnoff |-> {2}, empty |-> FALSE]

StepsDesc ==
    <<[x \in StateIdx |->
        CASE x = "RUN" -> TwoSteps
          [] x \in {"PAUSING", "UNPAUSING"} -> NoSteps(FALSE)
          [] OTHER -> NoSteps(TRUE)]>>

StepsDur ==
    <<[x \in StateIdx |-> IF x = "RUN" THEN <<1, NoTime>> ELSE <<>>]>>

StepsRequest ==
    <<[x \in StateIdx |->
        CASE x = "PAUSING" -> {"PAUSE"}
          [] x = "UNPAUSING" -> {"RUN", "STOP"}
          [] OTHER -> {}]>>

(* Two timed steps in a row; the client may change the durations.        *)
TwoTimedSteps ==
    [n |-> 2, next |-> <<2, 0>>, max |-> <<2, 0>>,
     jump |-> <<{}, {1}>>, signal |-> {}, turnoff |-> {}, empty |-> FALSE]

TimedDesc ==
    <<[x \in StateIdx |->
        IF x = "RUN" THEN TwoTimedSteps ELSE NoSteps(x # "STARTING")]>>

TimedDur == <<[x \in StateIdx |-> IF x = "RUN" THEN <<1, 1>> ELSE <<>>]>>

(* The operation is started and stopped by its signals.                    *)
TimedRequest ==
    <<[x \in StateIdx |->
        CASE x = "IDLE" -> {"RUN"}
          [] x = "STARTING" -> {"RUN", "STOP"}
          [] x = "RUN" -> {"PAUSE"}
          [] OTHER -> {}]>>

(* UNPAUSING has a step of its own.                                        *)
UnpausingDesc ==
    <<[x \in StateIdx |->
        CASE x = "RUN" -> TwoSteps
          [] x = "UNPAUSING" -> OneStep
          [] OTHER -> NoSteps(TRUE)]>>

UnpausingDur ==
    <<[x \in StateIdx |->
        CASE x = "RUN" -> <<1, NoTime>>
          [] x = "UNPAUSING" -> <<NoTime>>
          [] OTHER -> <<>>]>>

ResumeCommand == [x \in StateIdx |-> IF x \in {"PAUSE", "STOP"} THEN {"RUN", "OFF"} ELSE {}]

(* Three operations without steps: 1 and 2 exclude each other, 3 is        *)
(* restricted by 1 and must not follow 2.                                  *)
PlainDesc == [i \in Operations |-> [x \in StateIdx |-> NoSteps(x # "STOPPING")]]
PlainDur == [i \in Operations |-> [x \in StateIdx |-> <<>>]]
PlainRequest ==
    [i \in Operations |-> [x \in StateIdx |->
        CASE x = "IDLE" /\ i = 3 -> {"RUN"}
          [] x = "RUN" /\ i = 3 -> {"STOP"}
          [] x = "STOPPING" -> {"STOP"}
          [] OTHER -> {}]]
MutualRestrictions == {<<1, 2>>, <<2, 1>>}
PlainRestrictions == MutualRestrictions \cup {<<3, 1>>}
PlainFollowUps == {<<2, 3>>}

AnyCommand == [x \in StateIdx |-> Modes]
OnCommands == [x \in StateIdx |-> IF x = "IDLE" THEN {"RUN", "OFF"} ELSE Modes]
=============================================================================
