------------------------------- MODULE Errors -------------------------------
(***************************************************************************)
(* Alarms of the controller: the alarm state of every device               *)
(* (tech_dev_error), the message lists of the technological objects        *)
(* (tech_obj_error), both looked after by errors_manager, and the critical *)
(* errors (PAC_critical_errors_manager).  Modules Siren and AlarmList add  *)
(* what is made of them.                                                   *)
(*                                                                         *)
(* In a cycle of the main loop devices fail and recover, objects give      *)
(* messages and clients are served; then the alarms are evaluated.         *)
(* evaluated is TRUE between that and the next cycle.                      *)
(*                                                                         *)
(* A message is its number; versions are 16 bits wide.                     *)
(***************************************************************************)
EXTENDS Integers, FiniteSets

CONSTANTS
    NDev,           \* devices 1..NDev, in the order they were added
    Objects,        \* technological objects
    MaxErrors,      \* E_MAX_ERRORS_SIZE
    CriticalErrors, \* class, subclass and parameter of a critical error
    MaxId,          \* bound: changes of the alarms
    MaxCritId,      \* bound: changes of the critical errors
    MaxNumber       \* bound: messages given

Devices == 1..NDev

ASSUME NDevAssumption == NDev \in Nat
ASSUME MaxErrorsAssumption == MaxErrors \in Nat
ASSUME MaxIdAssumption == MaxId \in Nat /\ MaxCritId \in Nat

VARIABLES
    failed,     \* simple_device->get_state() < 0
    err,        \* error_state of every device
    suppress,   \* P_IS_SUPPRESS of its err_par
    number,     \* error_number: messages given so far
    msgs,       \* errors of every object
    prevsize,   \* prev_size
    wascmd,     \* was_set_cmd
    errid,      \* errors_id of errors_manager
    crit,       \* errors of PAC_critical_errors_manager
    critid,     \* errors_id of PAC_critical_errors_manager
    evaluated   \* the alarms of this cycle are evaluated

devvars == <<failed, err, suppress>>
msgvars == <<number, msgs, prevsize, wascmd>>
critvars == <<crit, critid>>
errvars == <<failed, err, suppress, number, msgs, prevsize, wascmd, errid,
             crit, critid, evaluated>>

AlarmStates == {"NORMAL", "ALARM", "RETURN", "ACCEPT"}
Ids == 0..(2^16 - 1)
Bump(id) == (id + 1) % 2^16

NoAlarms == [d \in Devices |-> "NORMAL"]
NoMessages == [o \in Objects |-> {}]

ErrorsTypeOK ==
    /\ failed \in [Devices -> BOOLEAN]
    /\ err \in [Devices -> AlarmStates]
    /\ suppress \in [Devices -> BOOLEAN]
    /\ number \in Nat
    /\ msgs \in [Objects -> SUBSET (1..number)]
    /\ \A o \in Objects : Cardinality(msgs[o]) <= MaxErrors
    /\ prevsize \in [Objects -> 0..MaxErrors]
    /\ wascmd \in [Objects -> BOOLEAN]
    /\ errid \in Ids
    /\ crit \subseteq CriticalErrors
    /\ critid \in Ids
    /\ evaluated \in BOOLEAN

(* A device may have failed, and be suppressed, before the start.          *)
ErrorsInit ==
    /\ failed \in [Devices -> BOOLEAN]
    /\ err = NoAlarms
    /\ suppress \in [Devices -> BOOLEAN]
    /\ number = 0
    /\ msgs = NoMessages
    /\ prevsize = [o \in Objects |-> 0]
    /\ wascmd = [o \in Objects |-> FALSE]
    /\ errid = 0
    /\ crit = {} /\ critid = 0
    /\ evaluated = FALSE

(***************************************************************************)
(* What happens in a cycle before the alarms are evaluated.                *)
(***************************************************************************)
Before == ~ evaluated /\ UNCHANGED evaluated
Room == Before /\ errid < MaxId

DeviceChanges(d) ==
    /\ Room
    /\ failed' = [failed EXCEPT ![d] = ~ @]
    /\ UNCHANGED <<err, suppress, msgvars, errid, critvars>>

(* tech_object::set_err_msg: a message beyond the limit is lost, but       *)
(* numbered.                                                               *)
SetErrMsg(o) ==
    /\ Room /\ number < MaxNumber
    /\ number' = number + 1
    /\ msgs' = IF Cardinality(msgs[o]) < MaxErrors
               THEN [msgs EXCEPT ![o] = @ \cup {number + 1}]
               ELSE msgs
    /\ UNCHANGED <<prevsize, wascmd, errid, devvars, critvars>>

SetGlobalError(k) ==
    /\ Before /\ critid < MaxCritId /\ k \notin crit
    /\ crit' = crit \cup {k}
    /\ critid' = Bump(critid)
    /\ UNCHANGED <<devvars, msgvars, errid>>

ResetGlobalError(k) ==
    /\ Before /\ critid < MaxCritId /\ k \in crit
    /\ crit' = crit \ {k}
    /\ critid' = Bump(critid)
    /\ UNCHANGED <<devvars, msgvars, errid>>

(* errors_manager::set_cmd: a command of a client that succeeds gives the  *)
(* alarms a new version.                                                   *)
SetSuppress(d, b) ==
    /\ Room
    /\ suppress' = [suppress EXCEPT ![d] = b]
    /\ errid' = Bump(errid)
    /\ UNCHANGED <<failed, err, msgvars, critvars>>

Accept(d) ==
    /\ Room /\ err[d] \in {"ALARM", "RETURN"}
    /\ err' = [err EXCEPT ![d] = IF @ = "RETURN" THEN "NORMAL" ELSE "ACCEPT"]
    /\ errid' = Bump(errid)
    /\ UNCHANGED <<failed, suppress, msgvars, critvars>>

DeleteMessage(o, n) ==
    /\ Room /\ n \in msgs[o]
    /\ msgs' = [msgs EXCEPT ![o] = @ \ {n}]
    /\ wascmd' = [wascmd EXCEPT ![o] = TRUE]
    /\ errid' = Bump(errid)
    /\ UNCHANGED <<number, prevsize, devvars, critvars>>

(* params_manager::reset_to_default: suppression ends, without a new       *)
(* version.                                                                *)
ResetErrorsParams ==
    /\ Before
    /\ suppress' = [d \in Devices |-> FALSE]
    /\ UNCHANGED <<failed, err, msgvars, errid, critvars>>

(***************************************************************************)
(* errors_manager::evaluate.                                               *)
(***************************************************************************)
(* Mutant: an accepted alarm that is over waits to be accepted again.      *)
ReturnOnceMore(e, bad) ==
    CASE bad /\ e \in {"NORMAL", "RETURN"} -> "ALARM"
      [] ~ bad /\ e \in {"ALARM", "ACCEPT"} -> "RETURN"
      [] OTHER -> e

(* tech_dev_error::evaluate: the state of one alarm.                       *)
NextState(e, bad) ==
    CASE bad /\ e \in {"NORMAL", "RETURN"} -> "ALARM"
      [] ~ bad /\ e = "ALARM" -> "RETURN"
      [] ~ bad /\ e = "ACCEPT" -> "NORMAL"
      [] OTHER -> e

NextErr == [d \in Devices |-> NextState(err[d], failed[d])]

NoFlags == [any |-> FALSE, noack |-> FALSE, new |-> FALSE]

(* Mutant: a suppressed device is an alarm like any other.                 *)
WithSuppressed(f, d) ==
    IF ~ failed[d] THEN f
    ELSE [any |-> TRUE,
          noack |-> f.noack \/ err[d] # "ACCEPT",
          new |-> f.new \/ err[d] \in {"NORMAL", "RETURN"}]

(* tech_dev_error::evaluate: is_any_error, is_any_no_ack_error and         *)
(* is_new_error, static members that every device sets and a suppressed    *)
(* one resets.                                                             *)
WithDevice(f, d) ==
    IF ~ failed[d] THEN f
    ELSE IF suppress[d] THEN NoFlags
    ELSE [any |-> TRUE,
          noack |-> f.noack \/ err[d] # "ACCEPT",
          new |-> f.new \/ err[d] \in {"NORMAL", "RETURN"}]

FlagsAfter[d \in 0..NDev] ==
    IF d = 0 THEN NoFlags ELSE WithDevice(FlagsAfter[d - 1], d)

Flags == FlagsAfter[NDev]

(* Mutant: only the sizes are compared.                                    *)
SizesChanged == \E o \in Objects : Cardinality(msgs[o]) # prevsize[o]

(* tech_obj_error::evaluate looks at the size of the list and at deletions.*)
MessagesChanged ==
    \E o \in Objects : Cardinality(msgs[o]) # prevsize[o] \/ wascmd[o]

EvaluateAlarms ==
    /\ ~ evaluated
    /\ evaluated' = TRUE
    /\ err' = NextErr
    /\ prevsize' = [o \in Objects |-> Cardinality(msgs[o])]
    /\ wascmd' = [o \in Objects |-> FALSE]
    /\ errid' = IF NextErr # err \/ MessagesChanged THEN Bump(errid) ELSE errid
    /\ UNCHANGED <<failed, suppress, number, msgs, critvars>>

NextCycle ==
    /\ evaluated
    /\ evaluated' = FALSE
    /\ UNCHANGED <<devvars, msgvars, errid, critvars>>

(* All but the evaluation.                                                 *)
Work ==
    \/ \E d \in Devices :
          DeviceChanges(d) \/ Accept(d) \/ \E b \in BOOLEAN : SetSuppress(d, b)
    \/ \E o \in Objects :
          SetErrMsg(o) \/ \E n \in 1..number : DeleteMessage(o, n)
    \/ \E k \in CriticalErrors : SetGlobalError(k) \/ ResetGlobalError(k)
    \/ ResetErrorsParams
    \/ NextCycle

ErrorsSpec == ErrorsInit /\ [][Work \/ EvaluateAlarms]_errvars

InAlarm(d) == err[d] \in {"ALARM", "ACCEPT"}

(* Alarms keep the promise of AlarmLifecycle: ErrorsSpec implements it     *)
(* under this mapping.                                                     *)
Lifecycle == INSTANCE AlarmLifecycle
    WITH active <- [d \in Devices |-> InAlarm(d)],
         accepted <- [d \in Devices |-> err[d] \in {"NORMAL", "ACCEPT"}]

KeepsAlarmLifecycle == Lifecycle!Spec
=============================================================================
