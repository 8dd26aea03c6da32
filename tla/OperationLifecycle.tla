------------------------- MODULE OperationLifecycle -------------------------
(***************************************************************************)
(* What the operations of an object promise about their states, whatever   *)
(* their steps do and however their owner, signals and checks drive them:  *)
(* one at a time they move along the edges below, never past a             *)
(* transitional state that is described, and a stopped operation can only  *)
(* be turned off.                                                          *)
(***************************************************************************)
CONSTANTS
    Operations,
    Described       \* the states of every operation with something to do
VARIABLE state

Through(i, x, target) == IF x \in Described[i] THEN x ELSE target

Started(i) == Through(i, "STARTING", "RUN")
Stopped(i) == Through(i, "STOPPING", "STOP")

Edges(i) ==
    {<<"IDLE", Started(i)>>, <<"STARTING", "RUN">>,
     <<"RUN", Through(i, "PAUSING", "PAUSE")>>, <<"PAUSING", "PAUSE">>,
     <<"PAUSE", Through(i, "UNPAUSING", "RUN")>>, <<"UNPAUSING", "RUN">>,
     <<"STOPPING", "STOP">>}
    \cup {<<x, Stopped(i)>> :
            x \in {"STARTING", "RUN", "PAUSING", "PAUSE", "UNPAUSING"}}

Init == state = [i \in Operations |-> "IDLE"]

Move(i) ==
    \E x \in {e[2] : e \in {d \in Edges(i) : d[1] = state[i]}} :
        state' = [state EXCEPT ![i] = x]

(* Turned off; a request to start may be met in the same cycle.            *)
End(i) ==
    /\ state[i] # "IDLE"
    /\ \E x \in {"IDLE", Started(i)} : state' = [state EXCEPT ![i] = x]

Next == \E i \in Operations : Move(i) \/ End(i)

Spec == Init /\ [][Next]_state
=============================================================================
