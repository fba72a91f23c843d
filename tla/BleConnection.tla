---------------------------- MODULE BleConnection ----------------------------
(***************************************************************************)
(* connection.py: BHyveBleConnection, the pooled encrypted BLE session of  *)
(* one irrigation device, shared by every coroutine that talks to it.      *)
(*                                                                         *)
(* asyncio runs one coroutine at a time and switches only at an await, so  *)
(* an action here is the code from one await to the next.  A task is one   *)
(* running call, pc names the await it is suspended at.  The awaits of     *)
(* _open/_handshake are kept apart because every one of them re-reads      *)
(* self._client when it resumes, and disconnect() runs without the lock.   *)
(*                                                                         *)
(* A BleakClient object is a value of Client; its session key (the IV and  *)
(* both counters) is identified with the client whose handshake made it.   *)
(* An object nothing refers to any more may be used again.                 *)
(***************************************************************************)
EXTENDS Naturals

CONSTANTS
  Task,               \* concurrent calls into the connection (a bound)
  Client,             \* BleakClient objects (a bound)
  None,
  OPEN_MAX_ATTEMPTS,
  HasHook,            \* a post-handshake hook is installed (mesh classes)
  Calls               \* the entry points the surrounding code uses

(* What the surrounding code may do.  "heal" is _on_notify scheduling a    *)
(* disconnect, "cancel" is task.cancel() on a caller (the flow renewal).   *)
AllCalls == {"send", "send_actuation", "ensure_connected", "disconnect",
             "heal", "hold", "cancel"}

ASSUME ConstantsAssumption ==
  /\ OPEN_MAX_ATTEMPTS \in Nat \ {0}
  /\ None \notin Client /\ None \notin Task
  /\ HasHook \in BOOLEAN
  /\ Calls \subseteq AllCalls

VARIABLES
  client,      \* self._client
  handshaken,  \* self._handshaken
  iv,          \* self._iv and the counters: the client they belong to
  held,        \* self._held
  holdExpiry,  \* self._hold_expiry is pending
  idleTimer,   \* self._idle_timer is pending
  lock,        \* the task inside "async with self._lock"
  up,          \* the clients whose link to the device is up
  task         \* the running calls, see Off

session == <<client, handshaken, iv>>
timers  == <<held, holdExpiry, idleTimer>>
vars == <<session, timers, lock, up, task>>

Kinds   == {"send", "send_actuation", "ensure_connected", "disconnect",
            "idle_close"}
Opening == {"establish", "settle", "notify", "aes_write", "aes_read"}
Inside  == Opening \cup {"retry_sleep", "hook", "bind", "write", "drain",
                         "stop_notify", "disconnecting"}
Pcs     == Inside \cup {"off", "start", "lock"}

(* pc: the await the call is suspended at; on: the client of the awaited   *)
(* GATT operation; att: _open's attempt counter; then: what the awaited    *)
(* disconnect() returns to.                                                *)
TaskState == [pc: Pcs, kind: Kinds, on: Client \cup {None},
              att: 1 .. OPEN_MAX_ATTEMPTS, then: {"retry", "reopen", "finish"}]

Off == [pc |-> "off", kind |-> "send", on |-> None, att |-> 1,
        then |-> "finish"]

TypeOK ==
  /\ client \in Client \cup {None}
  /\ handshaken \in BOOLEAN
  /\ iv \in Client \cup {None}
  /\ held \in BOOLEAN /\ holdExpiry \in BOOLEAN /\ idleTimer \in BOOLEAN
  /\ lock \in Task \cup {None}
  /\ up \subseteq Client
  /\ task \in [Task -> TaskState]

Init ==
  /\ client = None /\ handshaken = FALSE /\ iv = None
  /\ held = FALSE /\ holdExpiry = FALSE /\ idleTimer = FALSE
  /\ lock = None /\ up = {}
  /\ task = [t \in Task |-> Off]

-----------------------------------------------------------------------------
pc(t)   == task[t].pc
kind(t) == task[t].kind
on(t)   == task[t].on

is_connected == client # None /\ client \in up
Ready == is_connected /\ handshaken

(* No variable, coroutine or link refers to the object: a new BleakClient. *)
Fresh(c) == /\ c \notin {client, iv} /\ c \notin up
            /\ \A t \in Task : on(t) # c

(* Suspend t at the await p; Gatt: an operation issued on self._client. *)
Await(t, p) ==
  /\ task' = [task EXCEPT ![t].pc = p, ![t].on = None]
  /\ UNCHANGED lock
Gatt(t, p) ==
  /\ task' = [task EXCEPT ![t].pc = p, ![t].on = client]
  /\ UNCHANGED lock

(* Mutant of Exit: an error path that keeps the lock. *)
ExitKeepsLock(t) == task' = [task EXCEPT ![t] = Off] /\ UNCHANGED lock

(* The call returns or raises; "async with" gives the lock back. *)
Exit(t) ==
  /\ task' = [task EXCEPT ![t] = Off]
  /\ lock' = IF lock = t THEN None ELSE lock

(* _open: look the device up, then start the first connect attempt. *)
Open(t) ==
  \/ /\ task' = [task EXCEPT ![t].pc = "establish", ![t].on = None,
                             ![t].att = 1]
     /\ UNCHANGED lock
  \/ Exit(t)                          \* BleNotConnectable

(* _write_locked up to its await: encrypt() raises without a key, the      *)
(* assert without a client, otherwise the frame goes out on self._client.  *)
Write(t) ==
  IF iv = None \/ client = None THEN Exit(t) ELSE Gatt(t, "write")

Clear == client' = None /\ handshaken' = FALSE /\ iv' = None

(* Mutant of Resume: no limit on the attempts. *)
ResumeUnlimited(t, k) ==
  \/ k = "retry" /\ Await(t, "retry_sleep")
  \/ k = "reopen" /\ Open(t)
  \/ k = "finish" /\ Exit(t)

(* What runs synchronously once an awaited disconnect() is through. *)
Resume(t, k) ==
  \/ /\ k = "retry" /\ task[t].att < OPEN_MAX_ATTEMPTS
     /\ Await(t, "retry_sleep")
  \/ /\ k = "retry" /\ task[t].att = OPEN_MAX_ATTEMPTS
     /\ Exit(t)                       \* BleHandshakeError
  \/ k = "reopen" /\ Open(t)
  \/ k = "finish" /\ Exit(t)

(* disconnect() up to its first await. *)
Disconnect(t, k) ==
  /\ held' = FALSE /\ holdExpiry' = FALSE /\ idleTimer' = FALSE
  /\ \/ /\ client # None
        /\ task' = [task EXCEPT ![t].pc = "stop_notify", ![t].on = client,
                                ![t].then = k]
        /\ UNCHANGED <<session, lock>>
     \/ /\ client = None
        /\ Clear
        /\ Resume(t, k)
  /\ UNCHANGED up

(* _arm_idle_timer *)
ArmIdleTimer == idleTimer' = (idleTimer \/ ~held)

(* A coroutine is created, suspended before its first step. *)
Spawn(t, k, p) ==
  /\ task[t] = Off
  /\ task' = [task EXCEPT ![t].kind = k, ![t].pc = p]
  /\ UNCHANGED <<session, lock, up>>

-----------------------------------------------------------------------------
(* The calls. *)

(* send, send_stream and send_actuation queue for the lock; nothing calls  *)
(* send_raw.                                                               *)
CallLocked(t) ==
  /\ \E k \in Calls \cap {"send", "send_actuation"} : Spawn(t, k, "lock")
  /\ UNCHANGED timers

(* ensure_connected() and disconnect() are public and take no lock. *)
CallUnlocked(t) ==
  /\ \E k \in Calls \cap {"ensure_connected", "disconnect"} :
       Spawn(t, k, "start")
  /\ UNCHANGED timers

(* _on_notify found a frame it cannot decode: hass.add_job(disconnect). *)
Heal(t) ==
  /\ "heal" \in Calls
  /\ up # {} /\ handshaken /\ iv # None
  /\ Spawn(t, "disconnect", "start")
  /\ UNCHANGED timers

(* The idle timer fires: create_task(_idle_close()), which needs the lock. *)
IdleFires(t) ==
  /\ idleTimer
  /\ idleTimer' = FALSE
  /\ Spawn(t, "idle_close", "lock")
  /\ UNCHANGED <<held, holdExpiry>>

StartEnsure(t) ==
  /\ pc(t) = "start" /\ kind(t) = "ensure_connected"
  /\ IF Ready THEN Exit(t) ELSE Open(t)
  /\ UNCHANGED <<session, timers, up>>

StartDisconnect(t) ==
  /\ pc(t) = "start" /\ kind(t) = "disconnect"
  /\ Disconnect(t, "finish")

-----------------------------------------------------------------------------
(* Under the lock. *)

(* Mutant of Acquire: the lock is not waited for. *)
AcquireUnchecked(t) ==
  /\ pc(t) = "lock" /\ lock # t
  /\ lock' = t
  /\ UNCHANGED <<session, timers, up, task>>

Acquire(t) ==
  /\ pc(t) = "lock" /\ lock = None
  /\ lock' = t
  /\ UNCHANGED <<session, timers, up, task>>

HasLock(t) == pc(t) = "lock" /\ lock = t

EnterCold(t) ==                       \* no pooled session: _open
  /\ HasLock(t) /\ kind(t) # "idle_close" /\ ~Ready
  /\ Open(t)
  /\ UNCHANGED <<session, timers, up>>

EnterPooled(t) ==                     \* ensure_connected returned at once
  /\ HasLock(t) /\ kind(t) # "idle_close" /\ Ready
  /\ IF kind(t) = "send_actuation" /\ HasHook
       THEN Gatt(t, "bind")
       ELSE Write(t)
  /\ UNCHANGED <<session, timers, up>>

EnterIdleClose(t) ==
  /\ HasLock(t) /\ kind(t) = "idle_close"
  /\ IF is_connected
       THEN Disconnect(t, "finish")
       ELSE Exit(t) /\ UNCHANGED <<session, timers, up>>

(* send_actuation re-ran the hook on the pooled session. *)
BindDone(t) ==
  /\ pc(t) = "bind"
  /\ Write(t)
  /\ UNCHANGED <<session, timers, up>>

(* A BleakError, OSError or timeout of the re-run hook: drop and reopen. *)
BindFails(t) ==
  /\ pc(t) = "bind"
  /\ Disconnect(t, "reopen")

(* The write was acknowledged or the ack timed out; both go on to drain. *)
Written(t) ==
  /\ pc(t) = "write" /\ on(t) \in up
  /\ Await(t, "drain")
  /\ UNCHANGED <<session, timers, up>>

WriteFails(t) ==
  /\ pc(t) = "write"
  /\ Exit(t)
  /\ UNCHANGED <<session, timers, up>>

Drained(t) ==
  /\ pc(t) = "drain"
  /\ ArmIdleTimer
  /\ Exit(t)
  /\ UNCHANGED <<session, held, holdExpiry, up>>

-----------------------------------------------------------------------------
(* _open and _handshake. *)

(* The device accepts one session: connecting succeeds when none is up. *)
Established(t) ==
  /\ pc(t) = "establish" /\ up = {}
  /\ \E c \in Client :
       /\ Fresh(c)
       /\ client' = c /\ up' = {c}
  /\ Await(t, "settle")
  /\ UNCHANGED <<handshaken, iv, timers>>

(* Each GATT call of _handshake is issued on self._client as it is then;   *)
(* without one it is an AttributeError, which _open does not catch.        *)
NextGatt(t, p) ==
  /\ IF client = None THEN Exit(t) ELSE Gatt(t, p)
  /\ UNCHANGED <<session, timers, up>>

Settled(t)    == pc(t) = "settle" /\ NextGatt(t, "notify")
Notified(t)   == pc(t) = "notify" /\ on(t) \in up /\ NextGatt(t, "aes_write")
AesWritten(t) == pc(t) = "aes_write" /\ on(t) \in up /\ NextGatt(t, "aes_read")

(* The handshake succeeds with the key of the client it was read from. *)
Handshaken(t) ==
  /\ pc(t) = "aes_read" /\ on(t) \in up
  /\ iv' = on(t) /\ handshaken' = TRUE
  /\ \/ HasHook /\ Await(t, "hook")
     \/ ~HasHook /\ kind(t) = "ensure_connected" /\ Exit(t)
     \/ /\ ~HasHook /\ kind(t) # "ensure_connected"
        /\ IF client = None THEN Exit(t) ELSE Gatt(t, "write")
  /\ UNCHANGED <<client, timers, up>>

(* Mutant of AttemptFails: the retry starts without the disconnect. *)
AttemptFailsKeepsSession(t) ==
  /\ pc(t) \in Opening \ {"settle"}
  /\ Resume(t, "retry")
  /\ UNCHANGED <<session, timers, up>>

(* A BleakError, a timeout or an invalid answer: clean slate and retry. *)
AttemptFails(t) ==
  /\ pc(t) \in Opening \ {"settle"}
  /\ Disconnect(t, "retry")

RetrySlept(t) ==
  /\ pc(t) = "retry_sleep"
  /\ task' = [task EXCEPT ![t].pc = "establish", ![t].att = @ + 1]
  /\ UNCHANGED <<session, timers, lock, up>>

(* The hook's writes went through: the command is written, or the call of  *)
(* ensure_connected is over.                                               *)
HookDone(t) ==
  /\ pc(t) = "hook" /\ iv # None /\ client # None
  /\ IF kind(t) = "ensure_connected" THEN Exit(t) ELSE Write(t)
  /\ UNCHANGED <<session, timers, up>>

(* The hook runs outside _open's try: any error of it leaves the call,     *)
(* that of encrypt() without a key included.                               *)
HookFails(t) ==
  /\ pc(t) = "hook"
  /\ Exit(t)
  /\ UNCHANGED <<session, timers, up>>

-----------------------------------------------------------------------------
(* disconnect() after each of its awaits; the second re-reads _client. *)

NotifyStopped(t) ==
  /\ pc(t) = "stop_notify"
  /\ \/ client # None /\ Gatt(t, "disconnecting") /\ UNCHANGED session
     \/ client = None /\ Clear /\ Resume(t, task[t].then)
  /\ UNCHANGED <<timers, up>>

(* Mutant of Disconnected: the link itself is not taken down. *)
DisconnectedKeepsLink(t) ==
  /\ pc(t) = "disconnecting"
  /\ Clear
  /\ Resume(t, task[t].then)
  /\ UNCHANGED <<up, timers>>

Disconnected(t) ==
  /\ pc(t) = "disconnecting"
  /\ up' = up \ {on(t)}
  /\ Clear
  /\ Resume(t, task[t].then)
  /\ UNCHANGED timers

-----------------------------------------------------------------------------
(* Holds and the environment. *)

hold_open ==
  /\ "hold" \in Calls
  /\ held' = TRUE /\ holdExpiry' = TRUE /\ idleTimer' = FALSE
  /\ UNCHANGED <<session, lock, up, task>>

(* Mutant of Release: the timer is armed while the hold still stands. *)
ReleaseArmsFirst ==
  /\ holdExpiry' = FALSE
  /\ held' = FALSE
  /\ UNCHANGED <<session, lock, up, task, idleTimer>>

(* release() clears the hold before it arms the idle timer. *)
Release ==
  /\ holdExpiry' = FALSE
  /\ held' = FALSE
  /\ idleTimer' = (idleTimer \/ held)
  /\ UNCHANGED <<session, lock, up, task>>

release     == "hold" \in Calls /\ held /\ Release
expire_hold == holdExpiry /\ Release

(* The link goes down by itself: is_connected turns false, nothing else. *)
LinkDrops ==
  /\ \E c \in up : up' = up \ {c}
  /\ UNCHANGED <<session, timers, lock, task>>

(* task.cancel() on a caller: CancelledError leaves every await, is caught *)
(* by no except clause of this class, and releases the lock.               *)
Cancel(t) ==
  /\ "cancel" \in Calls
  /\ pc(t) # "off" /\ kind(t) = "send"
  /\ Exit(t)
  /\ UNCHANGED <<session, timers, up>>

-----------------------------------------------------------------------------
(* What a running task does next: every await of this class is bounded by  *)
(* a timeout or by the BLE stack, so the steps of a task are fair.         *)
Step(t) ==
  \/ StartEnsure(t) \/ StartDisconnect(t)
  \/ EnterCold(t) \/ EnterPooled(t) \/ EnterIdleClose(t)
  \/ BindDone(t) \/ BindFails(t)
  \/ Written(t) \/ WriteFails(t) \/ Drained(t)
  \/ Established(t) \/ Settled(t) \/ Notified(t) \/ AesWritten(t)
  \/ Handshaken(t) \/ AttemptFails(t) \/ RetrySlept(t)
  \/ HookDone(t) \/ HookFails(t)
  \/ NotifyStopped(t) \/ Disconnected(t)

Call(t) ==
  CallLocked(t) \/ CallUnlocked(t) \/ Heal(t) \/ Cancel(t)

Next ==
  \/ \E t \in Task : Call(t) \/ IdleFires(t) \/ Acquire(t) \/ Step(t)
  \/ hold_open \/ release \/ expire_hold
  \/ LinkDrops

Spec == Init /\ [][Next]_vars

(* asyncio.Lock is FIFO, so a waiter is never overtaken for ever: strong   *)
(* fairness of Acquire.  The event loop runs every ready task and timer.   *)
Fairness ==
  /\ \A t \in Task : WF_vars(Step(t)) /\ SF_vars(Acquire(t))
  /\ \A t \in Task : SF_vars(IdleFires(t))
  /\ WF_vars(expire_hold)

FairSpec == Spec /\ Fairness

-----------------------------------------------------------------------------
(* Properties. *)

(* What a task that is about to encrypt encrypts with is the key of the    *)
(* session the frame will be written to: the hook, the command after it,   *)
(* and a command on the pooled session (connection.py 390-401, 412-430).   *)
KeyMatchesSession ==
  \A t \in Task :
    /\ pc(t) \in {"hook", "bind"} \/ (HasLock(t) /\ Ready)
    /\ iv # None /\ client # None
    => iv = client

(* The device's only session never belongs to an object the connection has *)
(* forgotten: nobody could close it, and no later connect would succeed    *)
(* (disconnect, 286-310, against _open, 155-191).                          *)
NoOrphan ==
  \A c \in up : \/ c = client
                \/ \E t \in Task : pc(t) = "disconnecting" /\ on(t) = c

(* Two tasks are never opening a session at the same time: "idempotent"    *)
(* in the docstring of ensure_connected (138-144).                         *)
OneOpenAtATime ==
  \A t, u \in Task :
    pc(t) \in Opening \cup {"retry_sleep"}
      /\ pc(u) \in Opening \cup {"retry_sleep"} => t = u

(* While a hold is active no idle timer is pending, whatever is written    *)
(* meanwhile, and the backstop is (hold_open 312-332, _arm_idle_timer).    *)
HoldDisarmsIdleTimer == held => ~idleTimer /\ holdExpiry

(* One call gets one budget of OPEN_MAX_ATTEMPTS connects: no path starts  *)
(* the count again, the reopening of send_actuation included (147-149).    *)
OneRetryBudget ==
  [][\A t \in Task :
       task[t].att > 1 /\ task'[t].pc = "establish"
         => task'[t].att \in {task[t].att, task[t].att + 1}]_vars

(* Every call into the connection returns: the lock is given back on every *)
(* error path and no path waits for it twice.                              *)
CallsReturn == \A t \in Task : pc(t) # "off" ~> pc(t) = "off"

(* A hold nobody releases costs one run: once no more calls come, a held   *)
(* session loses its link by the backstop, the idle timer and _idle_close. *)
AbandonedHoldCloses ==
  <>[][~hold_open /\ ~\E t \in Task : Call(t)]_vars
    => (held ~> ~is_connected)

(* To its callers the connection is the session of BleSession: open while  *)
(* the client is connected and no disconnect() of it is under way.         *)
BeingClosed == \E t \in Task : /\ pc(t) \in {"stop_notify", "disconnecting"}
                              /\ on(t) = client

Session == INSTANCE BleSession WITH
  open <- is_connected /\ ~BeingClosed, expiry <- holdExpiry, idle <- idleTimer

(* Every step of the connection is a step of the abstract session or       *)
(* leaves it alone, whichever calls come without the lock: a hold on an    *)
(* open session ends only by handing over to the idle timer (200-374).     *)
IsSession == Session!SessionSpec
=============================================================================
