--------------------------- MODULE AlarmLifecycle ---------------------------
(***************************************************************************)
(* What the alarms of devices promise to an operator: an alarm is raised   *)
(* unaccepted, stays on the list until it is both over and accepted, and   *)
(* is accepted once for every time it is raised.  (Listed or not is        *)
(* active \/ ~ accepted.)                                                  *)
(***************************************************************************)
CONSTANT Devices
VARIABLES
    active,     \* the device is in failure, as far as noticed
    accepted    \* no alarm of the device waits to be accepted

Init ==
    /\ active = [d \in Devices |-> FALSE]
    /\ accepted = [d \in Devices |-> TRUE]

Unchanged(d) == active'[d] = active[d] /\ accepted'[d] = accepted[d]
Raise(d) == ~ active[d] /\ active'[d] /\ ~ accepted'[d]
Clear(d) == active[d] /\ ~ active'[d] /\ accepted'[d] = accepted[d]
Accept(d) == ~ accepted[d] /\ accepted'[d] /\ active'[d] = active[d]

(* The controller looks at all devices at once.                            *)
Next ==
    /\ active' \in [Devices -> BOOLEAN]
    /\ accepted' \in [Devices -> BOOLEAN]
    /\ \A d \in Devices : Unchanged(d) \/ Raise(d) \/ Clear(d) \/ Accept(d)

Spec == Init /\ [][Next]_<<active, accepted>>
=============================================================================
