------------------------------- MODULE Siren -------------------------------
(***************************************************************************)
(* The siren and the red lamp (siren_lights_manager::eval), which the main *)
(* loop evaluates right after the alarms.  The red lamp is on while it is  *)
(* lit or blinks.  The yellow and the green lamp only repeat a flag and    *)
(* are left out.                                                           *)
(***************************************************************************)
EXTENDS Errors

VARIABLES
    siren,      \* red lamp, siren and critical_error_n
    automatic   \* P_MANUAL_MODE is 0 and the first 5 s of the controller over

sirenvars == <<siren, automatic>>
vars == <<failed, err, suppress, number, msgs, prevsize, wascmd, errid, crit,
          critid, evaluated, siren, automatic>>

Init ==
    /\ ErrorsInit
    /\ siren = [red |-> FALSE, sound |-> FALSE, critn |-> 0]
    /\ automatic = FALSE

(* The siren's delay of 5 s is over, or a client sets the mode.            *)
SetAutomatic(b) ==
    /\ Before
    /\ automatic' = b
    /\ UNCHANGED <<devvars, msgvars, errid, critvars, siren>>

(* Mutant: the siren sounds for one cycle.                                 *)
SirenAfterOnce(f) ==
    IF ~ automatic THEN [siren EXCEPT !.critn = critid]
    ELSE [red |-> crit # {} \/ f.any,
          sound |-> critid # siren.critn \/ f.new,
          critn |-> critid]

(* siren_lights_manager::eval with the flags of this cycle.                *)
SirenAfter(f) ==
    IF ~ automatic THEN [siren EXCEPT !.critn = critid]
    ELSE [red |-> crit # {} \/ f.any,
          sound |-> /\ siren.sound \/ critid # siren.critn \/ f.new
                    /\ crit # {} \/ f.noack,
          critn |-> critid]

EvaluateSiren ==
    /\ EvaluateAlarms
    /\ siren' = SirenAfter(Flags)
    /\ UNCHANGED automatic

Next ==
    \/ Work /\ UNCHANGED sirenvars
    \/ EvaluateSiren
    \/ \E b \in BOOLEAN : SetAutomatic(b)

Spec == Init /\ [][Next]_vars

-----------------------------------------------------------------------------
(* The devices whose alarm no suppressed device after them hides.          *)
Unmasked(d) == \A e \in d..NDev : InAlarm(e) => ~ suppress[e]

(* In automatic mode the red lamp is on for exactly the critical errors    *)
(* and the unmasked alarms.                                                *)
RedFollowsAlarms ==
    evaluated /\ automatic =>
        siren.red = (crit # {} \/ \E d \in Devices : InAlarm(d) /\ Unmasked(d))

(* The siren starts with every unmasked new alarm, and it is not silent    *)
(* again before there is neither a critical error nor an unmasked alarm    *)
(* that waits to be accepted; then it is.                                  *)
Unaccepted == \E d \in Devices : err[d] = "ALARM" /\ Unmasked(d)

SirenFollowsAlarms ==
    [][automatic /\ EvaluateAlarms =>
        /\ siren.sound /\ (crit # {} \/ Unaccepted') => siren'.sound
        /\ (\E d \in Devices : err[d] # "ALARM" /\ err'[d] = "ALARM"
                               /\ Unmasked(d)') => siren'.sound
        /\ siren'.sound => crit # {} \/ Unaccepted']_vars

(* The red lamp is on while there is an alarm that is not suppressed:      *)
(* is_any_error is "Наличие тревоги", red is for "аварии и тревоги".       *)
RedShowsEveryAlarm ==
    evaluated /\ automatic =>
        ((\E d \in Devices : InAlarm(d) /\ ~ suppress[d]) => siren.red)
=============================================================================
