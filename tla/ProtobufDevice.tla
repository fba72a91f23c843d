--------------------------- MODULE ProtobufDevice ---------------------------
(***************************************************************************)
(* devices/protobuf.py with the decoder of devices/status.py and the tail  *)
(* of the poll in coordinator.py: starting and stopping a run, setting and *)
(* clearing the rain delay, and the poll, against a valve that keeps its   *)
(* own timers and a link that loses commands, answers and itself.          *)
(*                                                                         *)
(* One call runs at a time (_api_lock).  It is suspended at a send(): the  *)
(* command has reached the device or not, a status may be in flight, and   *)
(* the call goes on when the drain ends, whatever has been decoded.  Time  *)
(* is counted in ticks and kept as the time left on each timer.  Which     *)
(* station waters, the battery and the flow figures are left out.          *)
(***************************************************************************)
EXTENDS Integers

CONSTANTS
  None,
  Environments, \* the surroundings the model is checked in, see below
  Grace,        \* EXPIRY_GRACE_SEC
  Guard,        \* the 15 s by which the off timer is not re-anchored
  HasFlow       \* has_flow: the model takes flow subscriptions

(* durations: run times in ticks (a bound); delays: rain delays, told      *)
(* apart by their minutes (a bound); losses: commands, answers and links   *)
(* can be lost; others: the app, a program or the button command the       *)
(* device too; notices: it volunteers #16 and #30 notifications.           *)
ASSUME ConstantsAssumption ==
  /\ \A e \in Environments :
       /\ e.durations \subseteq Nat \ {0} /\ e.delays \subseteq Nat \ {0}
       /\ {e.losses, e.others, e.notices} \subseteq BOOLEAN
  /\ None \notin Int
  /\ Grace \in Nat /\ Guard \in Nat /\ HasFlow \in BOOLEAN

VARIABLES
  env,           \* the environment of this behaviour; it never changes
  dev,           \* the device, see Devices
  inflight,      \* a #16 or #30 on its way, or None
  is_watering,
  off,           \* ticks until expected_off_at, or None
  rdm,           \* rain_delay_minutes
  rdPast,        \* rain_delay_ends has passed
  parsed,        \* _status_parsed
  is_connected,
  timeouts,      \* consecutive_timeouts, told apart up to 1
  call,          \* the running call, see Calls
  result,        \* what the last call returned or "raised"
  saw            \* history: what was decoded since the command was sent

state  == <<is_watering, off, rdm, rdPast>>
health == <<is_connected, timeouts>>
vars == <<env, dev, inflight, state, parsed, health, call, result, saw>>

Durations == env.durations
Delays    == env.delays
Losses    == env.losses
OthersAct == env.others
Notices   == env.notices

(* left: ticks left of the run, 0 when the valve is closed; delay: the     *)
(* rain delay it enforces; sub: a persistent #57 flow subscription, under  *)
(* which it answers no query; here: #57 subscribe has reached it in this   *)
(* session; mute: a unit that ignores the passive #15 query.               *)
Devices == [left: Nat, delay: Delays \cup {0},
            sub: BOOLEAN, here: BOOLEAN, mute: BOOLEAN]

(* The run-states of a #16 status; a #30 watering status is one of the     *)
(* last two, and carries nothing else that is read.                        *)
RunStates == {"idle", "watering", "rain_delay"}
WStatuses == {"complete", "in_progress"}
Statuses  == [run: RunStates \cup WStatuses, left: Nat,
              delay: Delays \cup {0}]

ASSUME NoneAssumption ==
  None \notin [run: RunStates \cup WStatuses, left: Nat, delay: Nat]

(* stage: the send() awaited; ret: what refresh_status returns to, the     *)
(* command or the check after it ("raised": an exception is on its way).   *)
Calls == [op: {"none", "start", "stop", "set", "clear", "poll"},
          arg: Durations \cup Delays \cup {0},
          stage: {"idle", "cmd", "unsub", "elicit", "rsub", "runsub",
                  "relicit", "rnoop", "fsub", "funsub", "programs"},
          attempt: 1 .. 2, rattempt: 1 .. 2,
          ret: {"command", "check", "raised"}]

NoCall == [op |-> "none", arg |-> 0, stage |-> "idle",
           attempt |-> 1, rattempt |-> 1, ret |-> "check"]

(* The variables take values of these sets.                                *)
TypeOK ==
  /\ env \in Environments
  /\ dev \in Devices
  /\ inflight \in Statuses \cup {None}
  /\ is_watering \in BOOLEAN
  /\ off \in Int \cup {None}
  /\ rdm \in Delays \cup {0} /\ rdPast \in BOOLEAN
  /\ parsed \in BOOLEAN
  /\ is_connected \in BOOLEAN /\ timeouts \in 0 .. 1
  /\ call \in Calls
  /\ result \in {"true", "false", "raised"}
  /\ saw \subseteq RunStates \cup WStatuses

(* The integration starts against a device in any state it was left in.    *)
Init ==
  /\ env \in Environments
  /\ dev \in [left: {0} \cup (IF OthersAct THEN Durations ELSE {}),
              delay: {0} \cup (IF OthersAct THEN Delays ELSE {}),
              sub: IF HasFlow THEN BOOLEAN ELSE {FALSE},
              here: {FALSE}, mute: BOOLEAN]
  /\ inflight = None
  /\ is_watering = FALSE /\ off = None
  /\ rdm = 0 /\ rdPast = FALSE /\ parsed = FALSE
  /\ is_connected = FALSE /\ timeouts = 0
  /\ call = NoCall /\ result = "false" /\ saw = {}

-----------------------------------------------------------------------------
(* The device and the link. *)

Status(d) ==
  [run   |-> IF d.left # 0 THEN "watering"
             ELSE IF d.delay # 0 THEN "rain_delay" ELSE "idle",
   left  |-> d.left, delay |-> d.delay]

WateringStatus(d) ==
  [run |-> IF d.left # 0 THEN "in_progress" ELSE "complete",
   left |-> 0, delay |-> 0]

(* What a delivered message makes of the device.  An unsubscribe on a      *)
(* session that has not subscribed may not take.                           *)
Effect(d, msg, n) ==
  CASE msg = "start" -> {[d EXCEPT !.left = n]}
    [] msg = "stop"  -> {[d EXCEPT !.left = 0]}
    [] msg = "delay" -> {[d EXCEPT !.delay = n]}
    [] msg = "sub"   -> {[d EXCEPT !.sub = TRUE, !.here = TRUE]}
    [] msg = "unsub" -> {[d EXCEPT !.sub = FALSE]}
                          \cup IF d.here THEN {} ELSE {d}
    [] OTHER         -> {d}

(* The notification a message is answered with, if any.                    *)
Answers(d, msg) ==
  LET status == IF d.sub THEN {} ELSE {Status(d)}
  IN CASE msg = "stop"   -> {WateringStatus(d)}
       [] msg = "start"  -> {None} \cup status
                              \cup IF Notices THEN {WateringStatus(d)} ELSE {}
       [] msg = "delay"  -> IF d.sub THEN {None} ELSE status
       [] msg = "query"  -> IF d.sub \/ d.mute THEN {None} ELSE status
       [] msg = "programs" -> {None} \cup status
       [] OTHER          -> {None}

(* connection.send up to its drain, with d the device and old the status   *)
(* in flight before it.                                                    *)
Write(d, old, msg, n) ==
  /\ UNCHANGED env
  /\ \/ Losses /\ dev' = d /\ inflight' = old
     \/ /\ dev' \in Effect(d, msg, n)
        /\ \/ \E a \in Answers(dev', msg) :
                inflight' = IF a = None THEN old ELSE a
           \/ Losses /\ inflight' = old

Dropped == [dev EXCEPT !.here = FALSE]

Send(msg, n)      == Write(dev, inflight, msg, n)
SendFresh(msg, n) == Write(Dropped, None, msg, n)

(* A drain ends; on a good link it has collected the answer.               *)
Drained(s) == call.stage = s /\ (Losses \/ inflight = None)
Raised(ss) == Losses /\ call.stage \in ss

-----------------------------------------------------------------------------
(* refresh_status and _recover_status.  c: the call with ret set.          *)

(* Mutant: _status_parsed is not reset.                                    *)
RefreshKeepsParsed(c) ==
  /\ UNCHANGED parsed
  /\ IF HasFlow
     THEN Send("unsub", 0) /\ call' = [c EXCEPT !.stage = "unsub"]
     ELSE Send("query", 0) /\ call' = [c EXCEPT !.stage = "elicit"]

refresh_status(c) ==
  /\ parsed' = FALSE
  /\ IF HasFlow
     THEN Send("unsub", 0) /\ call' = [c EXCEPT !.stage = "unsub"]
     ELSE Send("query", 0) /\ call' = [c EXCEPT !.stage = "elicit"]

(* Mutant: the recovery does not lift a flow subscription.                 *)
RecoverWithoutFlow(n) ==
  /\ SendFresh("query", 0)
  /\ call' = [call EXCEPT !.stage = "relicit", !.rattempt = n]
  /\ UNCHANGED <<state, parsed, health, result, saw>>

_recover_status(n) ==
  /\ IF HasFlow
     THEN /\ SendFresh("sub", 0)
          /\ call' = [call EXCEPT !.stage = "rsub", !.rattempt = n]
     ELSE /\ SendFresh("query", 0)
          /\ call' = [call EXCEPT !.stage = "relicit", !.rattempt = n]
  /\ UNCHANGED <<state, parsed, health, result, saw>>

(* Mutant: no minutes instead of 0 when no delay is known.                 *)
NoopWithoutMinutes == IF rdPast \/ rdm = 0 THEN None ELSE rdm

_noop_rain_delay_pb == IF rdPast THEN 0 ELSE rdm

(* The finally clause of every call: disconnect, and return.               *)
Finish(value) ==
  /\ dev' = Dropped /\ inflight' = None
  /\ call' = NoCall /\ result' = value
  /\ UNCHANGED env

Fail(n) == IF n < 1 THEN n + 1 ELSE n

(* Mutant: no auto-close on the wall clock.                                *)
PollEndsOpen ==
  /\ Finish("true")
  /\ UNCHANGED <<is_watering, off, parsed, saw>>
  /\ rdm' = (IF rdPast THEN 0 ELSE rdm) /\ rdPast' = FALSE

(* What _async_update_data does when refresh_state has returned.           *)
PollEnds ==
  /\ Finish("true")
  /\ IF is_watering /\ off # None /\ off <= 0 - Grace
     THEN is_watering' = FALSE /\ off' = None
     ELSE UNCHANGED <<is_watering, off>>
  /\ rdm' = (IF rdPast THEN 0 ELSE rdm) /\ rdPast' = FALSE
  /\ UNCHANGED <<parsed, saw>>

PollFails == is_connected' = FALSE /\ timeouts' = Fail(timeouts) /\ PollEnds

ReadPrograms ==
  /\ Send("programs", 0) /\ call' = [call EXCEPT !.stage = "programs"]
  /\ UNCHANGED <<state, parsed, result, saw>>

(* The next await of the call, when a step of it changes nothing else.     *)
Next_send(msg, n, s) ==
  /\ Send(msg, n) /\ call' = [call EXCEPT !.stage = s]
  /\ UNCHANGED <<state, parsed, health, result, saw>>

(* Mutant: a confirmed start leaves an armed off timer alone.              *)
StartKeepsOff ==
  /\ off' = (IF off = None THEN call.arg ELSE off) /\ Finish("true")
  /\ UNCHANGED <<is_watering, rdm, rdPast, parsed, health, saw>>

StartConfirmed ==
  /\ off' = call.arg /\ Finish("true")
  /\ UNCHANGED <<is_watering, rdm, rdPast, parsed, health, saw>>

Returns(value) == Finish(value) /\ UNCHANGED <<state, parsed, health, saw>>

(* The second attempt of a start or a stop, on a session of its own.       *)
Retry(msg) ==
  /\ SendFresh(msg, call.arg)
  /\ call' = [call EXCEPT !.stage = "cmd", !.attempt = 2]
  /\ UNCHANGED <<state, parsed, health, result, saw>>

StartChecked ==
  /\ call.op = "start"
  /\ \/ is_watering /\ StartConfirmed
     \/ ~is_watering /\ call.attempt = 1 /\ Retry("start")
     \/ ~is_watering /\ call.attempt = 2 /\ Returns("false")

StopChecked ==
  /\ call.op = "stop"
  /\ \/ /\ ~is_watering /\ off' = None /\ Finish("true")
        /\ UNCHANGED <<is_watering, rdm, rdPast, parsed, health, saw>>
     \/ is_watering /\ call.attempt = 1 /\ Retry("stop")
     \/ is_watering /\ call.attempt = 2 /\ Returns("false")

(* The device clock has been read, the delay is sent.                      *)
SetSends ==
  /\ call.op = "set" /\ call.ret = "command"
  /\ Send("delay", call.arg)
  /\ call' = [call EXCEPT !.stage = "cmd", !.ret = "check"]
  /\ saw' = {}
  /\ UNCHANGED <<state, parsed, health, result>>

(* Mutant: the check does not ask for a status of this cycle.              *)
DelayCheckedAlone ==
  /\ call.ret = "check"
  /\ \/ call.op = "set" /\ Returns(IF rdm # 0 THEN "true" ELSE "false")
     \/ call.op = "clear" /\ Returns(IF rdm = 0 THEN "true" ELSE "false")

DelayChecked ==
  /\ call.ret = "check"
  /\ \/ /\ call.op = "set"
        /\ Returns(IF parsed /\ rdm # 0 THEN "true" ELSE "false")
     \/ /\ call.op = "clear"
        /\ Returns(IF parsed /\ rdm = 0 THEN "true" ELSE "false")

PollRead ==
  /\ call.op = "poll"
  /\ is_connected' = TRUE
  /\ IF parsed
     THEN /\ timeouts' = 0
          /\ IF HasFlow /\ is_watering
             THEN /\ Send("sub", 0) /\ call' = [call EXCEPT !.stage = "fsub"]
                  /\ UNCHANGED <<state, parsed, result, saw>>
             ELSE IF is_watering THEN PollEnds ELSE ReadPrograms
     ELSE timeouts' = Fail(timeouts) /\ PollEnds

(* refresh_status has returned: what the call does next.                   *)
Refreshed ==
  StartChecked \/ StopChecked \/ SetSends \/ DelayChecked \/ PollRead

-----------------------------------------------------------------------------
(* The calls. *)

Command(o, n, msg) ==
  /\ call.op = "none"
  /\ Send(msg, n)
  /\ call' = [NoCall EXCEPT !.op = o, !.arg = n, !.stage = "cmd"]
  /\ saw' = {}
  /\ UNCHANGED <<state, parsed, health, result>>

start_watering(d) == Command("start", d, "start")
stop_watering     == Command("stop", 0, "stop")
clear_rain_delay  == Command("clear", 0, "delay")

set_rain_delay(m) ==
  /\ call.op = "none"
  /\ refresh_status([NoCall EXCEPT !.op = "set", !.arg = m,
                                   !.ret = "command"])
  /\ saw' = {}
  /\ UNCHANGED <<state, health, result>>

refresh_state ==
  /\ call.op = "none"
  /\ refresh_status([NoCall EXCEPT !.op = "poll"])
  /\ saw' = {}
  /\ UNCHANGED <<state, health, result>>

-----------------------------------------------------------------------------
(* The call goes on. *)

(* Mutant: the confirm read starts before the command is in the state.     *)
CommandDrainedUnseeded ==
  /\ Drained("cmd")
  /\ \/ /\ call.op = "start" /\ is_watering
        /\ StartConfirmed
     \/ /\ call.op # "start" \/ ~is_watering
        /\ refresh_status(call)
        /\ UNCHANGED <<state, health, result, saw>>

CommandDrained ==
  /\ Drained("cmd")
  /\ \/ /\ call.op = "start" /\ is_watering
        /\ StartConfirmed
     \/ /\ call.op = "stop" \/ (call.op = "start" /\ ~is_watering)
        /\ refresh_status(call)
        /\ UNCHANGED <<state, health, result, saw>>
     \/ /\ call.op \in {"set", "clear"}
        /\ rdm' = call.arg /\ rdPast' = FALSE
        /\ refresh_status(call)
        /\ UNCHANGED <<is_watering, off, health, result, saw>>

(* A failed unsubscribe is swallowed, so this is both of its ends.         *)
Unsubscribed == Drained("unsub") /\ Next_send("query", 0, "elicit")

Elicited ==
  Drained("elicit") /\ IF parsed THEN Refreshed ELSE _recover_status(1)

RecoverSubscribed   == Drained("rsub") /\ Next_send("unsub", 0, "runsub")
RecoverUnsubscribed == Drained("runsub") /\ Next_send("query", 0, "relicit")

RecoverElicited ==
  /\ Drained("relicit")
  /\ IF parsed THEN Refreshed
     ELSE Next_send("delay", _noop_rain_delay_pb, "rnoop")

RecoverEchoed ==
  /\ Drained("rnoop")
  /\ IF parsed \/ call.rattempt = 2 THEN Refreshed ELSE _recover_status(2)

RecoverRaises ==
  /\ Raised({"rsub", "runsub", "relicit", "rnoop"})
  /\ IF call.rattempt = 2 THEN Refreshed ELSE _recover_status(2)

SendRaises ==
  /\ Raised({"cmd", "elicit"})
  /\ IF call.op = "poll" THEN PollFails ELSE Returns("raised")

FlowReturns ==
  /\ IF is_watering THEN PollEnds ELSE ReadPrograms
  /\ UNCHANGED health

(* _read_flow_locked: samples, or none and a second session.  Its finally  *)
(* clause unsubscribes only on a session that is still up.                 *)
FlowSampled ==
  /\ Drained("fsub")
  /\ \/ Next_send("unsub", 0, "funsub")
     \/ Losses /\ FlowReturns
     \/ /\ Losses /\ call.attempt = 1
        /\ SendFresh("sub", 0) /\ call' = [call EXCEPT !.attempt = 2]
        /\ UNCHANGED <<state, parsed, health, result, saw>>

FlowRaises ==
  /\ Raised({"fsub"})
  /\ \/ /\ Send("unsub", 0)
        /\ call' = [call EXCEPT !.stage = "funsub", !.ret = "raised"]
        /\ UNCHANGED <<state, parsed, health, result, saw>>
     \/ PollFails

FlowDone ==
  /\ Drained("funsub")
  /\ IF call.ret = "raised" THEN PollFails ELSE FlowReturns

ProgramsRead == Drained("programs") /\ PollEnds /\ UNCHANGED health

(* Mutant: whatever is not idle is shown as a run, a rain delay included.  *)
StatusNotIdleIsRun ==
  /\ inflight # None /\ inflight' = None
  /\ parsed' = TRUE
  /\ saw' = saw \cup {inflight.run}
  /\ is_watering' = (inflight.run \notin {"idle", "complete"})
  /\ off' = IF is_watering' THEN off ELSE None
  /\ rdm' = inflight.delay /\ rdPast' = FALSE
  /\ UNCHANGED <<env, dev, health, call, result>>

(* apply_status_plaintext on a notification that decodes.                  *)
apply_status_plaintext ==
  /\ inflight # None /\ inflight' = None
  /\ parsed' = TRUE
  /\ saw' = saw \cup {inflight.run}
  /\ is_watering' = (inflight.run \in {"watering", "in_progress"})
  /\ off' = IF ~is_watering' THEN None
            ELSE IF inflight.run = "in_progress" THEN off
            ELSE IF off = None THEN inflight.left
            ELSE IF inflight.left < off - Guard THEN inflight.left ELSE off
  /\ IF inflight.run \in WStatuses THEN UNCHANGED <<rdm, rdPast>>
     ELSE /\ rdm' = IF inflight.run = "rain_delay" THEN inflight.delay ELSE 0
          /\ rdPast' = FALSE
  /\ UNCHANGED <<env, dev, health, call, result>>

-----------------------------------------------------------------------------
(* The surroundings. *)

Down(n, floor) == IF n > floor THEN n - 1 ELSE n

(* Time passes.  A timer is followed until it has run out.                 *)
Tick ==
  /\ dev' = [dev EXCEPT !.left = Down(dev.left, 0)]
  /\ off' = IF off = None THEN None ELSE Down(off, 0 - Grace)
  /\ <<dev', off'>> # <<dev, off>>
  /\ UNCHANGED <<env, inflight, is_watering, rdm, rdPast, parsed, health,
                 call, result, saw>>

(* The delays of m minutes run out; one being set outlasts the call.       *)
DelayEnds(m) ==
  /\ ~(call.op = "set" /\ call.arg = m)
  /\ dev' = [dev EXCEPT !.delay = IF dev.delay = m THEN 0 ELSE dev.delay]
  /\ rdPast' = (rdPast \/ rdm = m)
  /\ <<dev', rdPast'>> # <<dev, rdPast>>
  /\ UNCHANGED <<env, inflight, is_watering, off, rdm, parsed, health,
                 call, result, saw>>

OtherCommands ==
  /\ OthersAct
  /\ \/ \E d \in Durations \cup {0} : dev' = [dev EXCEPT !.left = d]
     \/ \E m \in Delays \cup {0} : dev' = [dev EXCEPT !.delay = m]
  /\ UNCHANGED <<env, inflight, state, parsed, health, call, result, saw>>

(* A status on connecting, a watering status when a run begins or ends.    *)
Announces ==
  /\ Notices /\ call.op # "none" /\ inflight = None
  /\ \/ ~dev.sub /\ inflight' = Status(dev)
     \/ inflight' = WateringStatus(dev)
  /\ UNCHANGED <<env, dev, state, parsed, health, call, result, saw>>

LinkDrops ==
  /\ Losses
  /\ dev' = Dropped /\ inflight' = None
  /\ UNCHANGED <<env, state, parsed, health, call, result, saw>>

-----------------------------------------------------------------------------
Commands ==
  \/ \E d \in Durations : start_watering(d)
  \/ stop_watering
  \/ \E m \in Delays : set_rain_delay(m)
  \/ clear_rain_delay

Step ==
  \/ CommandDrained \/ Unsubscribed \/ Elicited
  \/ RecoverSubscribed \/ RecoverUnsubscribed \/ RecoverElicited
  \/ RecoverEchoed \/ RecoverRaises \/ SendRaises
  \/ FlowSampled \/ FlowRaises \/ FlowDone \/ ProgramsRead

Next ==
  \/ Commands \/ refresh_state \/ Step
  \/ apply_status_plaintext
  \/ Tick \/ (\E m \in Delays : DelayEnds(m))
  \/ OtherCommands \/ Announces \/ LinkDrops

Spec == Init /\ [][Next]_vars

(* A drain ends, a notification is dispatched, time passes, and the        *)
(* coordinator, which queues for _api_lock with everyone else, keeps       *)
(* polling.                                                                *)
Fairness ==
  /\ WF_vars(Step) /\ WF_vars(apply_status_plaintext) /\ WF_vars(Tick)
  /\ SF_vars(refresh_state)

FairSpec == Spec /\ Fairness

-----------------------------------------------------------------------------
(* Properties. *)

Ends(o) == call.op = o /\ call'.op = "none"

(* A poll during which nothing decoded is counted as a timeout, whatever *)
(* was decoded before it: refresh_state never stamps a phantom success.    *)
NoPhantomPoll == [][Ends("poll") /\ saw = {} => timeouts' = 1]_vars

(* set_rain_delay returns True only if a status read after the command     *)
(* says that the device is in a rain delay, clear_rain_delay only if one   *)
(* says that it is not: the value seeded into the state never confirms     *)
(* itself ("Gate confirmed on a real #16 decoding this cycle").  A #30 the *)
(* device volunteers counts as a status too, and then it does.             *)
DelayNeedsEcho ==
  [][~Notices /\ result' = "true"
     => /\ Ends("set") => "rain_delay" \in saw
        /\ Ends("clear") => saw \cap {"idle", "watering"} # {}]_vars

(* The delay the recovery writes to elicit a status, after a delay was set *)
(* or cleared, never undoes the command: where it changes the device it    *)
(* makes the delay the commanded one.                                      *)
RecoverySparesCommand ==
  [][/\ call.op \in {"set", "clear"} /\ call.ret = "check"
     /\ call.stage # "rnoop" /\ call'.stage = "rnoop"
     => dev'.delay \in {dev.delay, call.arg}]_vars

(* On a good link a poll always gets a status: the recovery lifts a flow   *)
(* subscription left in the device's flash and reads a unit that ignores   *)
(* the passive query.                                                      *)
PollAlwaysReads == [][~Losses /\ Ends("poll") => saw # {}]_vars

(* Nothing is lost, and nobody else commands the device.                   *)
GoodLink == ~Losses /\ ~OthersAct

(* On a good link a stop returns True, with the valve closed.              *)
StopCloses ==
  [][GoodLink /\ Ends("stop") => result' = "true" /\ dev.left = 0]_vars

(* On a good link the wall-clock auto-close never runs ahead of the        *)
(* device's own timer, except while a new start is being confirmed.        *)
OffTimerNotEarly ==
  GoodLink /\ is_watering /\ off # None /\ dev.left # 0 /\ call.op # "start"
  => off >= dev.left

(* Once the valve stays closed, and nobody is starting a run, it is shown  *)
(* closed for good, even if the device is never reached again: it does not *)
(* "sit stuck-open forever once the BLE connection drops" (coordinator.py).*)
ShownRunEnds ==
  <>[](dev.left = 0 /\ call.op # "start") => <>[]~is_watering

(* protobuf.py, start_watering: the start reply carries a status that says *)
(* the device waters; "if this one didn't, poll #15{} to read the real     *)
(* run-state before deciding": True means a status said so since the call. *)
StartIsRead ==
  [][Ends("start") /\ result' = "true" => saw \cap {"watering", "in_progress"} # {}]_vars

(* protobuf.py, _recover_status: "Re-assert the CURRENTLY known rain-delay *)
(* state so the write is a no-op that can never wipe an active delay".     *)
NoopNeverWipes ==
  [][/\ call.op = "poll" /\ call.stage # "rnoop" /\ call'.stage = "rnoop"
     => (dev.delay # 0 => dev'.delay # 0)]_vars
=============================================================================
