------------------------------ MODULE HT25Device ------------------------------
(***************************************************************************)
(* devices/ht25.py with the status decoder of devices/base.py and the      *)
(* auto-close of coordinator.py: a mesh timer that confirms a command only *)
(* by an acknowledgement, and the measuring of flow, which holds the one   *)
(* session for the run and renews a subscription from a task of its own.   *)
(*                                                                         *)
(* The session is that of BleSession.  One call or renewal talks to the    *)
(* device at a time (_api_lock); notifications, the coordinator's          *)
(* auto-close, the switch, the unload and the timers come in between, at   *)
(* every await.  Instants are told apart as far as the code does: an off   *)
(* timer is armed or due.  A renewal task has a number of cycles left.     *)
(***************************************************************************)
EXTENDS BleSession, Naturals, Sequences

CONSTANTS
  Loop,          \* renewal tasks alive at once (a bound)
  None,
  Cycles,        \* renewals a run has at most (a bound)
  MaxInFlight,   \* notifications on their way (a bound)
  ShortFrames    \* STATUS frames without the countdown occur

ASSUME ConstantsAssumption ==
  /\ None \notin Loop /\ "call" \notin Loop /\ None # "call"
  /\ Cycles \in Nat \ {0} /\ MaxInFlight \in Nat \ {0}
  /\ ShortFrames \in BOOLEAN

VARIABLES
  valve,        \* the device's valve is open
  inflight,     \* notifications on their way, in order
  closing,      \* an _idle_close waits for the connection's lock
  is_watering,
  off,          \* expected_off_at: none, ahead, or past by the grace
  enabled,      \* flow_gen1_enabled
  loaded,       \* the config entry is loaded
  api,          \* who is inside _api_lock: "call", a renewal task or None
  call,         \* the running call and the await it is suspended at
  loop,         \* the renewal tasks
  flowTask,     \* _flow_sub_task
  overrun       \* history: a run has been measured over a measured one

device == <<valve, inflight>>
shown  == <<is_watering, off>>
tasks  == <<api, call, loop, flowTask>>
entry  == <<enabled, loaded, overrun>>
vars   == <<session, device, closing, shown, tasks, entry>>

Messages == {"start_ack", "stop_ack", "run_end",
             "status_on", "status_short", "status_off"}

(* write: in send_actuation up to its write; drain: after it; subscribe    *)
(* and listen: the same of _begin_gen1_flow's send; init and hook: in      *)
(* ensure_connected of _connect_refresh.  result: of the last call.        *)
CallState == [op: {"none", "start", "stop", "sync"},
              at: {"-", "write", "drain", "subscribe", "listen", "init", "hook"},
              result: {"true", "false", "raised"}]

(* A cancelled task has still to be given its CancelledError.              *)
LoopState == [at: {"off", "sleep", "lock", "send", "drain", "cancelled"},
              left: 0 .. Cycles]
Gone == [at |-> "off", left |-> 0]

(* The variables take values of these sets.                                *)
TypeOK ==
  /\ {open, held, expiry, idle, closing} \subseteq BOOLEAN
  /\ valve \in BOOLEAN
  /\ inflight \in Seq(Messages) /\ Len(inflight) <= MaxInFlight
  /\ is_watering \in BOOLEAN /\ off \in {"none", "ahead", "past"}
  /\ enabled \in BOOLEAN /\ loaded \in BOOLEAN
  /\ api \in {"call", None} \cup Loop
  /\ call \in CallState
  /\ loop \in [Loop -> LoopState]
  /\ flowTask \in Loop \cup {None}
  /\ overrun \in BOOLEAN

Init ==
  /\ SessionInit
  /\ valve \in BOOLEAN /\ inflight = <<>> /\ closing = FALSE
  /\ is_watering = FALSE /\ off = "none"
  /\ enabled \in BOOLEAN /\ loaded = TRUE
  /\ api = None
  /\ call = [op |-> "none", at |-> "-", result |-> "false"]
  /\ loop = [l \in Loop |-> Gone] /\ flowTask = None /\ overrun = FALSE

-----------------------------------------------------------------------------
(* The device and the link. *)

Status(v) ==
  IF v THEN {"status_on"} \cup IF ShortFrames THEN {"status_short"} ELSE {}
       ELSE {"status_off"}

(* The queue when m has been sent after it: m may be lost. *)
Sent(q, m) ==
  {q} \cup IF Len(q) < MaxInFlight THEN {Append(q, m)} ELSE {}
SentBoth(q, m, n) == UNION {Sent(p, n) : p \in Sent(q, m)}

(* The init replies with a status; then the command is acknowledged.       *)
InitReply(v) == \E m \in Status(v) : inflight' \in Sent(inflight, m)
InitAndAck(v, ack) ==
  \E m \in Status(v) : inflight' \in SentBoth(inflight, m, ack)

Disconnect == Closes /\ inflight' = <<>>

(* send() on a pooled session only writes; otherwise it opens one first.   *)
Reach ==
  /\ Opens
  /\ IF open THEN UNCHANGED inflight ELSE InitReply(valve)

-----------------------------------------------------------------------------
(* The measuring of flow. *)

Alive(l) == loop[l].at \notin {"off", "cancelled"}

(* Mutant: the switch decides whether the measuring is ended.              *)
CancelFlowEnabled ==
  IF enabled
  THEN /\ flowTask' = None
       /\ loop' = [l \in Loop |-> IF l = flowTask /\ Alive(l)
                                  THEN [loop[l] EXCEPT !.at = "cancelled"]
                                  ELSE loop[l]]
  ELSE UNCHANGED <<flowTask, loop>>

(* _end_gen1_flow without its release(). *)
CancelFlow ==
  /\ flowTask' = None
  /\ loop' = [l \in Loop |-> IF l = flowTask /\ Alive(l)
                             THEN [loop[l] EXCEPT !.at = "cancelled"]
                             ELSE loop[l]]

_end_gen1_flow == Releases /\ CancelFlow

(* The finally clause of a renewal task, the lock given back first. *)
LoopEnds(l) ==
  /\ Releases
  /\ loop' = [loop EXCEPT ![l] = Gone]
  /\ api' = IF api = l THEN None ELSE api
  /\ UNCHANGED <<device, closing, shown, call, flowTask, entry>>

-----------------------------------------------------------------------------
(* The calls. *)

Begins(o, p) ==
  /\ call.op = "none" /\ api = None
  /\ api' = "call" /\ call' = [call EXCEPT !.op = o, !.at = p]

Goes(p) == call' = [call EXCEPT !.at = p] /\ UNCHANGED api

Returns(r) ==
  /\ call' = [op |-> "none", at |-> "-", result |-> r]
  /\ api' = None

Truth(b) == IF b THEN "true" ELSE "false"

(* start_watering: the finally clause spares a held session. *)
StartReturns(r) ==
  /\ Returns(r)
  /\ IF held THEN UNCHANGED <<session, inflight>> ELSE Disconnect
  /\ UNCHANGED <<loop, flowTask>>

start_watering ==
  /\ loaded
  /\ \E l \in Loop : loop[l].at = "off"              \* the bound of Loop
  /\ Begins("start", "write")
  /\ UNCHANGED <<session, device, closing, shown, loop, flowTask, entry>>

stop_watering ==
  /\ loaded
  /\ Begins("stop", "write")
  /\ UNCHANGED <<session, device, closing, shown, loop, flowTask, entry>>

(* send_actuation writes: the init, then the command.                      *)
CommandWritten ==
  /\ call.at = "write"
  /\ Opens
  /\ \/ /\ valve' = (call.op = "start")
        /\ \/ call.op = "start" /\ InitAndAck(valve, "start_ack")
           \/ call.op = "stop" /\ InitAndAck(valve, "stop_ack")
     \/ UNCHANGED valve /\ InitReply(valve)       \* the frame is lost
  /\ Goes("drain")
  /\ UNCHANGED <<closing, shown, loop, flowTask, entry>>

(* What follows the command, or the timeout of it that is swallowed.       *)
StartSent ==
  /\ call.op = "start"
  /\ \/ enabled /\ Holds /\ Goes("subscribe")
        /\ UNCHANGED <<inflight, loop, flowTask>>
     \/ /\ ~enabled /\ Returns(Truth(is_watering))
        /\ IF held THEN UNCHANGED <<session, inflight>> ELSE Disconnect
        /\ UNCHANGED <<loop, flowTask>>

StopSent ==
  /\ call.op = "stop"
  /\ CancelFlow /\ Disconnect
  /\ Returns(Truth(~is_watering))

CommandSent ==
  /\ call.at \in {"write", "drain"}
  /\ StartSent \/ StopSent
  /\ UNCHANGED <<valve, closing, shown, entry>>

(* Any other error, a typed one of opening the session included.           *)
CommandFails ==
  /\ call.at \in {"write", "drain"}
  /\ \/ call.op = "start" /\ StartReturns("raised")
     \/ /\ call.op = "stop" /\ Returns("raised") /\ Disconnect
        /\ UNCHANGED <<loop, flowTask>>
  /\ UNCHANGED <<valve, closing, shown, entry>>

(* _begin_gen1_flow *)
SubscribeWritten ==
  /\ call.at = "subscribe"
  /\ Reach /\ Goes("listen")
  /\ UNCHANGED <<valve, closing, shown, loop, flowTask, entry>>

(* The renewal task is created; a hold released meanwhile is not taken     *)
(* again, and the session is closed.                                       *)
Subscribed ==
  /\ call.at = "listen"
  /\ \E l \in Loop, n \in 1 .. Cycles :
       /\ loop[l].at = "off"
       /\ loop' = [loop EXCEPT ![l] = [at |-> "sleep", left |-> n]]
       /\ flowTask' = l
  /\ Returns(Truth(is_watering))
  /\ overrun' = (overrun \/ \E l \in Loop : Alive(l))
  /\ IF held THEN Writes /\ UNCHANGED inflight ELSE Disconnect
  /\ UNCHANGED <<valve, closing, shown, enabled, loaded>>

(* A BleakError, timeout or OSError costs the flow data only; a typed one  *)
(* leaves the call, with the hold standing and no task.                    *)
SubscribeFails ==
  /\ call.at \in {"subscribe", "listen"}
  /\ \/ CancelFlow /\ Disconnect /\ Returns(Truth(is_watering))
     \/ StartReturns("raised")
  /\ UNCHANGED <<valve, closing, shown, entry>>

(* _connect_refresh, of the Sync button or of an active idle poll.         *)
_connect_refresh ==
  /\ loaded
  /\ Begins("sync", "init")
  /\ Disconnect
  /\ UNCHANGED <<valve, closing, shown, loop, flowTask, entry>>

Initialised ==
  /\ call.at = "init"
  /\ Opens /\ InitReply(valve) /\ Goes("hook")
  /\ UNCHANGED <<valve, closing, shown, loop, flowTask, entry>>

RefreshEnds ==
  /\ call.at \in {"init", "hook"}
  /\ Disconnect
  /\ \E r \in {"true", "raised"} : Returns(r)
  /\ UNCHANGED <<valve, closing, shown, loop, flowTask, entry>>

-----------------------------------------------------------------------------
(* The renewal tasks. *)

At(l, p) == loop[l].at = p
LoopGoes(l, p) == loop' = [loop EXCEPT ![l].at = p]

LoopWakes(l) ==
  /\ At(l, "sleep") /\ is_watering
  /\ loop' = [loop EXCEPT ![l] = [at |-> "lock", left |-> @.left - 1]]
  /\ UNCHANGED <<session, device, closing, shown, api, call, flowTask, entry>>

LoopSeesEnd(l) == At(l, "sleep") /\ ~is_watering /\ LoopEnds(l)

(* Mutant: a cycle that is skipped does not look at the deadline. *)
AgainForever(l) ==
  /\ loop' = [loop EXCEPT ![l].at = "sleep"]
  /\ UNCHANGED timer

(* The top of the loop: another cycle, or the end of the run's length.     *)
Again(l) ==
  IF loop[l].left > 0
  THEN /\ loop' = [loop EXCEPT ![l].at = "sleep"]
       /\ UNCHANGED timer
  ELSE /\ loop' = [loop EXCEPT ![l] = Gone]
       /\ held' = FALSE /\ expiry' = FALSE /\ idle' = (idle \/ held)

(* Mutant: a renewal that waited too long writes anyway. *)
LockTimesOutAndSends(l) ==
  /\ At(l, "lock") /\ api # None
  /\ LoopGoes(l, "send")
  /\ UNCHANGED <<session, device, closing, shown, api, call, flowTask, entry>>

LockTimesOut(l) ==
  /\ At(l, "lock") /\ api # None
  /\ Again(l)
  /\ UNCHANGED <<open, device, closing, shown, api, call, flowTask, entry>>

LoopAcquires(l) ==
  /\ At(l, "lock") /\ api = None
  /\ IF is_watering
     THEN /\ api' = l /\ LoopGoes(l, "send")
          /\ UNCHANGED <<session, device, closing, shown, call, flowTask, entry>>
     ELSE LoopEnds(l)

RenewWritten(l) ==
  /\ At(l, "send")
  /\ Reach /\ LoopGoes(l, "drain")
  /\ UNCHANGED <<valve, closing, shown, api, call, flowTask, entry>>

Renewed(l) ==
  /\ At(l, "drain")
  /\ api' = None
  /\ IF loop[l].left > 0
     THEN Writes /\ LoopGoes(l, "sleep")
     ELSE /\ held' = FALSE /\ expiry' = FALSE /\ idle' = TRUE
          /\ loop' = [loop EXCEPT ![l] = Gone]
          /\ UNCHANGED open
  /\ UNCHANGED <<device, closing, shown, call, flowTask, entry>>

(* The first kind of error is caught, a typed one ends the task.           *)
RenewFails(l) ==
  /\ loop[l].at \in {"send", "drain"}
  /\ \/ /\ api' = None /\ Again(l)
        /\ UNCHANGED <<open, device, closing, shown, call, flowTask, entry>>
     \/ LoopEnds(l)

LoopCancelled(l) == At(l, "cancelled") /\ LoopEnds(l)

-----------------------------------------------------------------------------
(* Notifications: _observe_plaintext.                                      *)

Shows(w, o) == is_watering' = w /\ off' = o

(* Mutants: the acknowledgement, or the status, arms no off timer. *)
StartAckedUntimed == Shows(TRUE, off)
StatusOnUntimed   == Shows(TRUE, off)

StartAcked == Shows(TRUE, "ahead")
StatusOn   == Shows(TRUE, IF off = "none" THEN "ahead" ELSE off)

ShowsMessage(m) ==
  \/ m = "start_ack" /\ StartAcked
  \/ m \in {"stop_ack", "status_off"} /\ Shows(FALSE, "none")
  \/ m = "status_on" /\ StatusOn
  \/ m = "status_short" /\ Shows(TRUE, off)

(* The run-end frame ends the measuring and leaves what is shown alone.    *)
Notified ==
  /\ inflight # <<>> /\ inflight' = Tail(inflight)
  /\ \/ ShowsMessage(Head(inflight)) /\ UNCHANGED <<session, loop, flowTask>>
     \/ Head(inflight) = "run_end" /\ _end_gen1_flow /\ UNCHANGED shown
  /\ UNCHANGED <<valve, closing, api, call, entry>>

-----------------------------------------------------------------------------
(* What comes in between. *)

AutoClose ==
  /\ loaded /\ is_watering /\ off = "past"
  /\ Shows(FALSE, "none")
  /\ _end_gen1_flow
  /\ UNCHANGED <<device, closing, api, call, entry>>

TurnOn ==
  /\ loaded /\ ~enabled /\ enabled' = TRUE
  /\ UNCHANGED <<session, device, closing, shown, tasks, loaded, overrun>>

TurnOff ==
  /\ loaded /\ enabled /\ enabled' = FALSE
  /\ _end_gen1_flow
  /\ UNCHANGED <<device, closing, shown, api, call, loaded, overrun>>

async_unload ==
  /\ loaded /\ loaded' = FALSE
  /\ CancelFlow /\ Disconnect
  /\ UNCHANGED <<valve, closing, shown, api, call, enabled, overrun>>

TimerFires ==
  /\ IdleFires /\ closing' = TRUE
  /\ UNCHANGED <<device, shown, tasks, entry>>

(* _idle_close, when no send holds the connection's lock. *)
IdleCloses ==
  /\ closing /\ closing' = FALSE
  /\ api \notin Loop /\ call.op \notin {"start", "stop"}
  /\ IF open THEN Disconnect ELSE UNCHANGED <<session, inflight>>
  /\ UNCHANGED <<valve, shown, tasks, entry>>

HoldExpires ==
  /\ expiry /\ Releases
  /\ UNCHANGED <<device, closing, shown, tasks, entry>>

OffPasses ==
  /\ off = "ahead" /\ off' = "past"
  /\ UNCHANGED <<session, device, closing, is_watering, tasks, entry>>

(* The device's timer, the button, a program or the hub; the end of a run  *)
(* is notified, and a status may be pushed.                                *)
ValveTurns ==
  /\ valve' = ~valve
  /\ \/ ~open /\ UNCHANGED inflight
     \/ open /\ InitReply(~valve)
     \/ open /\ valve /\ inflight' \in Sent(inflight, "run_end")
  /\ UNCHANGED <<session, closing, shown, tasks, entry>>

LinkDrops ==
  /\ open /\ Drops /\ inflight' = <<>>
  /\ UNCHANGED <<valve, closing, shown, tasks, entry>>

-----------------------------------------------------------------------------
Step ==
  \/ CommandWritten \/ CommandSent \/ CommandFails
  \/ SubscribeWritten \/ Subscribed \/ SubscribeFails
  \/ Initialised \/ RefreshEnds

LoopStep(l) ==
  \/ LoopWakes(l) \/ LoopSeesEnd(l) \/ LockTimesOut(l) \/ LoopAcquires(l)
  \/ RenewWritten(l) \/ Renewed(l) \/ RenewFails(l) \/ LoopCancelled(l)

Next ==
  \/ start_watering \/ stop_watering \/ _connect_refresh
  \/ Step \/ (\E l \in Loop : LoopStep(l))
  \/ Notified
  \/ AutoClose \/ TurnOn \/ TurnOff \/ async_unload
  \/ TimerFires \/ IdleCloses \/ HoldExpires \/ OffPasses
  \/ ValveTurns \/ LinkDrops

Spec == Init /\ [][Next]_vars

(* Every await is bounded and every timer fires; the coordinator polls     *)
(* while the entry is loaded.                                              *)
Fairness ==
  /\ WF_vars(Step) /\ WF_vars(Notified) /\ WF_vars(AutoClose)
  /\ \A l \in Loop : WF_vars(LoopStep(l))
  /\ WF_vars(OffPasses) /\ WF_vars(HoldExpires)
  /\ WF_vars(TimerFires) /\ WF_vars(IdleCloses)

FairSpec == Spec /\ Fairness

-----------------------------------------------------------------------------
(* Properties. *)

(* One exchange with the device at a time: a renewal that writes is the    *)
(* one inside _api_lock, and no call is running (start_watering: "must     *)
(* never interleave with an actuation on the device's single BLE session").*)
RadioIsExclusive ==
  \A l \in Loop : loop[l].at \in {"send", "drain"} => api = l /\ call.op = "none"

(* Until a run is measured over one that still is (534 overwrites its      *)
(* task), the only renewal task that runs is the one that _end_gen1_flow   *)
(* would cancel.                                                           *)
OneRenewal == overrun \/ \A l \in Loop : Alive(l) => flowTask = l

(* A stop that went through leaves no session and, with the same exception, *)
(* no renewal task, whether or not the switch has been turned off meanwhile *)
(* (ht25.py 313-320).                                                      *)
StopEndsMeasuring ==
  [][call.op = "stop" /\ call'.op = "none" /\ call'.result # "raised"
       => ~open' /\ ~held' /\ (overrun \/ \A l \in Loop : ~Alive(l)')]_vars

(* A run that is shown is timed: it is never up to a later notification    *)
(* alone that the valve is shown closed (the off timer of 173-180).        *)
ShownIsTimed == is_watering => off # "none"

(* Once no run is started and none is going on, the valve is shown closed  *)
(* and the hold and the renewal tasks of every run are gone, whatever      *)
(* notifications were lost: "a leak costs one run" (hold_open).            *)
MeasuringEnds ==
  <>[](~valve /\ call.op # "start" /\ loaded)
    => <>[](~is_watering /\ ~held /\ \A l \in Loop : loop[l].at = "off")

(* ht25.py, async_unload, 590-594, and switch.py 123-125: no renewal task  *)
(* outlives the entry or the switch ("the hold and the renewal task go     *)
(* with it").                                                              *)
MeasuringIsWanted == (\E l \in Loop : Alive(l)) => enabled /\ loaded
===============================================================================
