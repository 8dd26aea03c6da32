------------------------------ MODULE AlarmList ------------------------------
(***************************************************************************)
(* The answers to clients that poll the list of alarms                     *)
(* (device_communicator::write_devices_states_service,                     *)
(* CMD_GET_PAC_ERRORS).  An answer carries a number; a client keeps the    *)
(* list it shows while the number stays the same.                          *)
(*                                                                         *)
(* Whether an alarm is suppressed, which the list says too, is left out:   *)
(* reset_errors_params() changes it without a new number.                  *)
(***************************************************************************)
EXTENDS Errors

CONSTANT Clients    \* the clients looked at; there may be others

(* No number comes round again: an answer may be renumbered for every      *)
(* change of the alarms, the one that the evaluation after the last adds,  *)
(* and every change of the critical errors.                                *)
ASSUME VersionsAssumption == MaxId + 1 + MaxCritId < 2^16

VARIABLES
    answers,    \* errors_id and the other static variables of the answers
    client      \* what every client has been told

listvars == <<failed, err, suppress, number, msgs, prevsize, wascmd, errid,
              crit, critid, evaluated, answers, client>>

(* The first number is taken from the clock; which it is does not matter.  *)
ListInit ==
    /\ ErrorsInit
    /\ answers = [id |-> 0, prevcrit |-> 0, preverr |-> 0, delay |-> "none"]
    /\ client = [c \in Clients |->
                    [seen |-> -1,
                     shown |-> [crit |-> {}, err |-> NoAlarms,
                                msgs |-> NoMessages]]]

(* Critical errors hide the other alarms, which are given only some time   *)
(* after the first request.                                                *)
Full == crit = {} /\ answers.delay = "over"

Listing ==
    [crit |-> crit,
     err |-> IF Full THEN err ELSE NoAlarms,
     msgs |-> IF Full THEN msgs ELSE NoMessages]

(* Mutant: the version of the alarms is taken even if they are not given.  *)
AnsweredHidden ==
    LET c == critid # answers.prevcrit
        e == Full /\ errid # answers.preverr
        id == IF c THEN Bump(answers.id) ELSE answers.id
    IN  [id |-> IF e THEN Bump(id) ELSE id,
         prevcrit |-> critid,
         preverr |-> errid,
         delay |-> IF answers.delay = "none" THEN "running" ELSE answers.delay]

(* The static variables after an answer.                                   *)
Answered ==
    LET c == critid # answers.prevcrit
        e == Full /\ errid # answers.preverr
        id == IF c THEN Bump(answers.id) ELSE answers.id
    IN  [id |-> IF e THEN Bump(id) ELSE id,
         prevcrit |-> critid,
         preverr |-> IF Full THEN errid ELSE answers.preverr,
         delay |-> IF answers.delay = "none" THEN "running" ELSE answers.delay]

Poll(c) ==
    /\ Before
    /\ answers' = Answered
    /\ client' = IF Answered.id = client[c].seen THEN client
                 ELSE [client EXCEPT ![c] = [seen |-> Answered.id,
                                             shown |-> Listing]]
    /\ UNCHANGED <<devvars, msgvars, errid, critvars>>

(* Other clients poll too: the static variables are theirs as well.        *)
OtherPoll ==
    /\ Before
    /\ answers' = Answered
    /\ UNCHANGED <<devvars, msgvars, errid, critvars, client>>

(* The 5 s after the first request are over.                               *)
DelayOver ==
    /\ Before /\ answers.delay = "running"
    /\ answers' = [answers EXCEPT !.delay = "over"]
    /\ UNCHANGED <<devvars, msgvars, errid, critvars, client>>

ErrorsStep(A) == A /\ UNCHANGED <<answers, client>>

ListNext ==
    \/ ErrorsStep(Work)
    \/ ErrorsStep(EvaluateAlarms)
    \/ \E c \in Clients : Poll(c)
    \/ OtherPoll
    \/ DelayOver

ListSpec == ListInit /\ [][ListNext]_listvars

(* The main loop never stops, the clock advances, and every client polls   *)
(* again and again.                                                        *)
ListFairness ==
    /\ WF_listvars(ErrorsStep(EvaluateAlarms))
    /\ WF_listvars(ErrorsStep(NextCycle))
    /\ SF_listvars(DelayOver)
    /\ \A c \in Clients : SF_listvars(Poll(c))

FairListSpec == ListSpec /\ ListFairness

-----------------------------------------------------------------------------
(* A client that would be told that nothing has changed shows what there   *)
(* is: after the alarms of a cycle are evaluated no change of the alarms,  *)
(* the messages or the critical errors is hidden behind an old number,     *)
(* whoever polled in between.                                              *)
ClientsShowAlarms ==
    evaluated => \A c \in Clients :
        Answered.id = client[c].seen => client[c].shown = Listing

(* A failure that lasts is shown by every client, unless a critical error  *)
(* hides it.                                                               *)
FailureIsShown ==
    \A d \in Devices : \A c \in Clients :
        failed[d] ~> \/ ~ failed[d]
                     \/ crit # {}
                     \/ client[c].shown.err[d] # "NORMAL"
=============================================================================
