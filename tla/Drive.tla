-------------------------------- MODULE Drive --------------------------------
(***************************************************************************)
(* A frequency converter on Modbus TCP (altivar_node, type ATV320), the    *)
(* client that talks to it (modbus_client, linux_tcp_client) and the part  *)
(* of the communicator that waits for its answers.                         *)
(*                                                                         *)
(* In every cycle of the main loop the communicator looks at the sockets   *)
(* that wait for an answer, then the node makes one step: it configures    *)
(* the converter setting by setting and from then on gives it the command  *)
(* again and again.  Calls return at once: an answer is found by a later   *)
(* call of the same request.  Times are counted in cycles.                 *)
(***************************************************************************)
EXTENDS Integers, Sequences, SequencesExt

CONSTANTS
    Settings,       \* the registers written by the configuration, in order
    DriveCommands,  \* what the program calls: "on", "off", ...
    SendTimeout,    \* timeout of the client
    FirstRetry,     \* timeout * RECONNECT_MIN_MULTIPLIER
    LastRetry,      \* timeout * RECONNECT_MAX_MULTIPLIER
    QueryInterval,
    LostTime        \* the 5 s after which a lost connection is an error

ASSUME DriveAssumption ==
    /\ Settings \in Seq(STRING) /\ Settings # <<>> /\ "scanner" \in ToSet(Settings)
    /\ DriveCommands \subseteq {"on", "off", "back", "disable", "enable"}
    /\ SendTimeout \in Nat /\ FirstRetry \in Nat \ {0} /\ LastRetry \in Nat
    /\ FirstRetry <= 2 * LastRetry /\ QueryInterval \in Nat /\ LostTime \in Nat

(* Saving the settings is the last thing that the configuration does.      *)
ASSUME SavedLast == \A i \in DOMAIN Settings : Settings[i] = "save" => i = Len(Settings)

VARIABLES
    atv,        \* altivar_node
    client,     \* its TCP client
    link,       \* the connection: what is under way
    drive       \* the converter

driveVars == <<atv, client, link, drive>>

Words == {"reset", "stop", "forward", "backward"}
Requests == [kind: {"set"}, what: ToSet(Settings)] \union [kind: {"run"}, what: Words]
NoRequest == [kind |-> "none", what |-> "none"]

AtvStates ==
    [step: {"check", "config", "prepare", "query", "done", "rest"},
     setting: 1..(Len(Settings) + 1), filled: BOOLEAN,  \* configurestep
     configure: BOOLEAN, enabled: BOOLEAN,
     cmd: Words, word: Words,    \* cmd, and cmd in the buffer
     state: {"ready", "on", "back", "fault", "lost"},
     error: BOOLEAN,             \* ismodbuserror
     away: 0..(LostTime + 1),    \* since modbustimeout
     rested: 0..(QueryInterval + 1)]
ClientStates ==
    [conn: {"off", "connecting", "on"},
     result: {"free", "busy", "error", "timeout", "ok", "exception"},
     listed: BOOLEAN,            \* in clients of the communicator
     delay: 1..(2 * LastRetry),
     tried: 0..(2 * LastRetry + 1),  \* since async_last_connect_try
     waited: 0..(2 * SendTimeout + 1)]
LinkStates ==
    [up: BOOLEAN, alive: BOOLEAN,
     requests: Seq(Requests), answers: Seq({"ok", "exception"}),
     late: Requests \union {NoRequest}]
ConverterStates ==
    [has: SUBSET ToSet(Settings), saved: SUBSET ToSet(Settings),
     word: Words \union {"none"}]

DriveTypeOK ==
    /\ atv \in AtvStates /\ client \in ClientStates
    /\ link \in LinkStates /\ drive \in ConverterStates

DriveInit ==
    /\ atv = [step |-> "check", setting |-> 1, filled |-> FALSE, configure |-> TRUE,
              enabled |-> TRUE, cmd |-> "reset", word |-> "reset", state |-> "ready",
              error |-> FALSE, away |-> 0, rested |-> 0]
    /\ client = [conn |-> "off", result |-> "free", listed |-> FALSE,
                 delay |-> FirstRetry, tried |-> 2 * LastRetry + 1, waited |-> 0]
    /\ link = [up |-> TRUE, alive |-> FALSE, requests |-> <<>>, answers |-> <<>>,
               late |-> NoRequest]
    /\ \E s \in {{}, ToSet(Settings)} : drive = [has |-> s, saved |-> s, word |-> "none"]

-----------------------------------------------------------------------------
(* The client.  A function gives the set of pairs of client and link that  *)
(* a call may leave.                                                       *)
Pair(c, l) == [c |-> c, l |-> l]

(* Disconnect.  A request that was under way is lost or arrives late.      *)
CutOff(c, result) == [c EXCEPT !.conn = "off", !.result = result, !.listed = FALSE]
Severed(l, r) ==
    [up |-> l.up, alive |-> FALSE, requests |-> <<>>, answers |-> <<>>, late |-> r]
Disconnected(c, l, result) ==
    {Pair(CutOff(c, result), Severed(l, r)) : r \in {l.late} \union ToSet(l.requests)}

(* sendall and add_async_client.  A connection that the other end has      *)
(* given up takes the request and only answers with an error later, or now.*)
Listed(c) == [c EXCEPT !.result = "busy", !.listed = TRUE, !.waited = 0]
Carrying(l, request) ==
    IF l.alive THEN [l EXCEPT !.requests = Append(@, request)] ELSE l
Transmitted(c, l, request) ==
    {Pair(Listed(c), Carrying(l, request))}
    \union (IF l.alive THEN {} ELSE Disconnected(c, l, "error"))

(* AsyncConnect.  If connect() fails at once the client takes itself for   *)
(* connected, but has no socket, and sending fails.                        *)
Attempts(c, l) ==
    IF l.up THEN {"on"} \union (IF c.conn = "off" THEN {"connecting"} ELSE {})
    ELSE {"off"} \union (IF c.conn = "off" THEN {"connecting", "no socket"}
                         ELSE IF c.tried > SendTimeout THEN {} ELSE {"connecting"})

(* AsyncSend with checkConnection, whose attempt ends with outcome o.      *)
Attempted(d, l, request, o) ==
    CASE o = "on" -> Transmitted([d EXCEPT !.conn = "on", !.delay = FirstRetry],
                                 [l EXCEPT !.alive = TRUE], request)
      [] o = "connecting" -> {Pair([d EXCEPT !.conn = o, !.result = "busy"], l)}
      [] o = "off" -> {Pair([d EXCEPT !.conn = o, !.result = "error",
                                      !.delay = IF @ > LastRetry THEN @ ELSE 2 * @], l)}
      [] o = "no socket" -> {Pair([d EXCEPT !.conn = "off", !.result = "error",
                                            !.delay = FirstRetry], l)}
Trying(c) == IF c.conn = "off" THEN [c EXCEPT !.tried = 0] ELSE c
Sent(c, l, request) ==
    CASE c.conn = "on" -> Transmitted(c, l, request)
      [] c.conn = "off" /\ c.tried <= c.delay -> {Pair([c EXCEPT !.result = "error"], l)}
      [] OTHER -> UNION {Attempted(Trying(c), l, request, o) : o \in Attempts(c, l)}

(* What the result of a request under way means for the one who asks.      *)
(* Mutant: a request that has ended is done, however it has ended.         *)
AnyIsDone(c, request) ==
    CASE c.result = "busy" -> "pending"
      [] c.result = "free" -> "again"
      [] OTHER -> "done"
Verdict(c, request) ==
    CASE c.result = "busy" -> "pending"
      [] c.result = "ok" -> "done"
      [] c.result = "exception" /\ request.kind = "run" -> "refused"
      [] OTHER -> "again"

(* modbus_client::async_...: get_async_result, which goes on connecting    *)
(* (the buffer still holds this request), then the answer or the request.  *)
Got(p, what) == [c |-> p.c, l |-> p.l, got |-> what]
Taken(p) == Pair([p.c EXCEPT !.result = "free"], p.l)
Judged(p, request) ==
    LET v == Verdict(p.c, request) IN
    CASE v = "pending" -> {Got(p, v)}
      [] v = "again" -> {Got(q, "pending") : q \in Sent(p.c, p.l, request)}
      [] OTHER -> {Got(Taken(p), v)}
Asked(c, l, request) ==
    UNION {Judged(p, request) :
              p \in IF c.conn = "connecting" THEN Sent(c, l, request) ELSE {Pair(c, l)}}

(* Mutant: a client whose time is over is forgotten as it is.              *)
Forgotten(c, l) == {Pair([c EXCEPT !.listed = FALSE], l)}
TimedOut(c, l) == Disconnected(c, l, "timeout")

(* tcp_communicator::evaluate, for this client.  Time is only looked at    *)
(* when some socket has an event, be it that of another client (traffic).  *)
Communicated(c, l, traffic) ==
    CASE ~ c.listed -> {Pair(c, l)}
      [] c.listed /\ l.answers # <<>> ->
           {Pair([c EXCEPT !.result = Head(l.answers), !.listed = FALSE],
                 [l EXCEPT !.answers = Tail(@)])}
      [] OTHER ->
           (IF traffic /\ c.waited > 2 * SendTimeout THEN TimedOut(c, l) ELSE {Pair(c, l)})
           \union (IF l.up /\ ~ l.alive THEN Disconnected(c, l, "error") ELSE {})

-----------------------------------------------------------------------------
(* altivar_node::Evaluate                                                  *)
Setting(a) == [kind |-> "set", what |-> Settings[a.setting]]

(* What is shown of the converter's answer, which may report anything.     *)
Shown(a) == {"ready", "fault", IF a.cmd = "backward" THEN "back" ELSE "on"}

(* What a step of the node leaves: node, client and link.                  *)
Triple(a, c, l) == [a |-> a, c |-> c, l |-> l]

(* A setting is put into the buffer, then asked for until it is written.   *)
Advanced(a, r) ==
    IF r.got = "done" THEN [a EXCEPT !.filled = FALSE, !.setting = @ + 1] ELSE a
ConfigStep(a, c, l) ==
    IF a.setting > Len(Settings)
    THEN {Triple([a EXCEPT !.configure = FALSE, !.step = "prepare"], c, l)}
    ELSE IF ~ a.filled THEN {Triple([a EXCEPT !.filled = TRUE], c, l)}
    ELSE {Triple(Advanced(a, r), r.c, r.l) : r \in Asked(c, l, Setting(a))}

(* The command is sent as it was put into the buffer.                      *)
RunRequest(a) == [kind |-> "run", what |-> a.word]
Reported(a, s) == [a EXCEPT !.step = "done", !.state = s]
AfterQuery(a, r) ==
    CASE r.got = "done" -> {Reported(a, s) : s \in Shown(a)}
      [] r.got = "refused" -> {[a EXCEPT !.step = "check", !.configure = TRUE]}
      [] OTHER -> {a}
Queried(a, c, l) ==
    UNION {{Triple(b, r.c, r.l) : b \in AfterQuery(a, r)} : r \in Asked(c, l, RunRequest(a))}

Stepped(a, c, l) ==
    CASE a.step = "check" ->
           {Triple(IF a.configure
                   THEN [a EXCEPT !.step = "config", !.setting = 1, !.filled = FALSE]
                   ELSE [a EXCEPT !.step = "prepare"], c, l)}
      [] a.step = "config" -> ConfigStep(a, c, l)
      [] a.step = "prepare" -> {Triple([a EXCEPT !.step = "query", !.word = a.cmd], c, l)}
      [] a.step = "query" -> Queried(a, c, l)
      [] a.step = "done" -> {Triple([a EXCEPT !.step = "rest", !.rested = 0], c, l)}
      [] a.step = "rest" ->
           {Triple(IF a.rested > QueryInterval THEN [a EXCEPT !.step = "check"] ELSE a, c, l)}

(* The error of a connection that is lost for long.                        *)
LossWatched(a, c) ==
    IF c.conn = "on" THEN [a EXCEPT !.error = FALSE, !.away = 0]
    ELSE IF a.away > LostTime /\ ~ a.error THEN [a EXCEPT !.error = TRUE, !.state = "lost"]
    ELSE a

Sooner(t, bound) == IF t < bound THEN t + 1 ELSE t
OlderAtv(a) == [a EXCEPT !.away = Sooner(@, LostTime + 1),
                         !.rested = IF a.step = "rest" THEN Sooner(@, QueryInterval + 1) ELSE 0]
OlderClient(c) ==
    [c EXCEPT !.tried = Sooner(@, 2 * LastRetry + 1),
              !.waited = IF c.listed THEN Sooner(@, 2 * SendTimeout + 1) ELSE 0]

DriveCycle(traffic) ==
    \E p \in Communicated(client, link, traffic) :
        \E e \in IF atv.enabled THEN Stepped(atv, p.c, p.l) ELSE {Triple(atv, p.c, p.l)} :
            /\ atv' = OlderAtv(IF atv.enabled THEN LossWatched(e.a, e.c) ELSE e.a)
            /\ client' = OlderClient(e.c) /\ link' = e.l /\ drive' = drive

(* motor_altivar: on, off, set_state(2), set_state(100), set_state(101).   *)
DriveCommand(what) ==
    /\ atv' = CASE what = "on" -> [atv EXCEPT !.cmd = "forward"]
                [] what = "back" -> [atv EXCEPT !.cmd = "backward"]
                [] what = "off" ->
                     [atv EXCEPT !.cmd = IF atv.state \in {"fault", "lost"} THEN "reset"
                                         ELSE "stop"]
                [] what = "disable" -> [atv EXCEPT !.enabled = FALSE]
                [] what = "enable" -> [atv EXCEPT !.enabled = TRUE, !.error = FALSE]
    /\ atv' # atv
    /\ UNCHANGED <<client, link, drive>>

-----------------------------------------------------------------------------
(* The converter: it keeps its settings if they are saved, obeys commands  *)
(* once its scanner is set up, and refuses them before.                    *)
Obeys(r) ==
    drive' = IF r.kind = "set"
             THEN [drive EXCEPT !.has = @ \union {r.what},
                       !.saved = IF r.what = "save" THEN drive.has \union {r.what} ELSE @]
             ELSE IF "scanner" \in drive.has THEN [drive EXCEPT !.word = r.what] ELSE drive

DriveAnswers ==
    /\ link.up /\ link.alive /\ link.requests # <<>>
    /\ LET r == Head(link.requests)
           refuses == r.kind = "run" /\ "scanner" \notin drive.has IN
       /\ Obeys(r)
       /\ link' = [link EXCEPT !.requests = Tail(@),
                       !.answers = Append(@, IF refuses THEN "exception" ELSE "ok")]
    /\ UNCHANGED <<atv, client>>

DriveHearsLate ==
    /\ link.up /\ link.late # NoRequest
    /\ Obeys(link.late)
    /\ link' = [link EXCEPT !.late = NoRequest]
    /\ UNCHANGED <<atv, client>>

(* The cable; and power failures, after which the converter is the old one *)
(* or a new one.  A converter that loses settings in the middle of its     *)
(* configuration gets only the rest: assumed not to happen.                *)
CableChanges ==
    /\ link' = [link EXCEPT !.up = ~ @]
    /\ UNCHANGED <<atv, client, drive>>

DriveFails ==
    /\ atv.step # "config"
    /\ \E kept \in {drive.saved, {}} :
           drive' = [has |-> kept, saved |-> kept, word |-> "none"]
    /\ link' = [link EXCEPT !.alive = FALSE, !.requests = <<>>, !.late = NoRequest]
    /\ UNCHANGED <<atv, client>>

DriveNext ==
    \/ \E traffic \in BOOLEAN : DriveCycle(traffic)
    \/ \E what \in DriveCommands : DriveCommand(what)
    \/ DriveAnswers \/ DriveHearsLate \/ CableChanges \/ DriveFails

DriveSpec == DriveInit /\ [][DriveNext]_driveVars

FairDriveSpec ==
    /\ DriveSpec
    /\ WF_driveVars(DriveCycle(TRUE)) /\ SF_driveVars(DriveAnswers)
    /\ WF_driveVars(DriveHearsLate)

-----------------------------------------------------------------------------
(* The converter obeys on a connection only when it has every setting: no  *)
(* answer is taken for that of another request, through timeouts, lost     *)
(* connections, requests sent twice and a converter that is exchanged.     *)
ObeysConfigured ==
    [][DriveAnswers /\ drive'.word # drive.word => drive.has = ToSet(Settings)]_driveVars

(* Whatever happened before: when the cable stays as it is, the converter  *)
(* gets the present command in the end and keeps it, or its loss is shown  *)
(* (in every run in which the node is evaluated at all).                   *)
CommandArrivesOrLost ==
    /\ <>[][UNCHANGED atv.cmd /\ ~ DriveFails]_driveVars
    /\ <>[]atv.enabled /\ <>(atv.step # "check")
    => /\ <>[]link.up => <>[](drive.word = atv.cmd)
       /\ <>[]~ link.up => <>[](atv.state = "lost")
=============================================================================
