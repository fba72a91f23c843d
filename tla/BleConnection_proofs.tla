------------------------ MODULE BleConnection_proofs ------------------------
(***************************************************************************)
(* Theorems about BleConnection, for every number of tasks and clients and *)
(* every retry budget.                                                     *)
(***************************************************************************)
EXTENDS BleConnection, TLAPS

USE ConstantsAssumption DEF Kinds, Opening, Inside, Pcs, AllCalls

-----------------------------------------------------------------------------
(* The helpers that suspend or end a task leave every local state typed.   *)

LEMMA OffTyped == Off \in TaskState
  BY DEF Off, TaskState

LEMMA AwaitTyped ==
  ASSUME TypeOK, NEW t \in Task, NEW p \in Pcs,
         Await(t, p) \/ Gatt(t, p)
  PROVE  task' \in [Task -> TaskState] /\ lock' \in Task \cup {None}
  BY DEF TypeOK, Await, Gatt, TaskState

LEMMA ExitTyped ==
  ASSUME TypeOK, NEW t \in Task, Exit(t)
  PROVE  task' \in [Task -> TaskState] /\ lock' \in Task \cup {None}
  BY OffTyped DEF TypeOK, Exit

LEMMA OpenTyped ==
  ASSUME TypeOK, NEW t \in Task, Open(t)
  PROVE  task' \in [Task -> TaskState] /\ lock' \in Task \cup {None}
  BY ExitTyped DEF TypeOK, Open, TaskState

LEMMA WriteTyped ==
  ASSUME TypeOK, NEW t \in Task, Write(t)
  PROVE  task' \in [Task -> TaskState] /\ lock' \in Task \cup {None}
  BY ExitTyped, AwaitTyped DEF Write

LEMMA ResumeTyped ==
  ASSUME TypeOK, NEW t \in Task, NEW k, Resume(t, k)
  PROVE  task' \in [Task -> TaskState] /\ lock' \in Task \cup {None}
<1>1. CASE Await(t, "retry_sleep")
  <2>1. "retry_sleep" \in Pcs
    OBVIOUS
  <2>2. QED BY <1>1, <2>1, AwaitTyped
<1>2. CASE Open(t) \/ Exit(t)
  BY <1>2, OpenTyped, ExitTyped
<1>3. QED BY <1>1, <1>2 DEF Resume

LEMMA DisconnectTyped ==
  ASSUME TypeOK, NEW t \in Task, NEW k \in {"retry", "reopen", "finish"},
         Disconnect(t, k)
  PROVE  TypeOK'
<1>1. CASE client # None
  <2>1. task' \in [Task -> TaskState]
    <3>1. task' = [task EXCEPT ![t].pc = "stop_notify", ![t].on = client,
                               ![t].then = k]
      BY <1>1 DEF Disconnect
    <3>2. task[t] \in TaskState /\ client \in Client
      BY <1>1 DEF TypeOK
    <3>3. [task[t] EXCEPT !.pc = "stop_notify", !.on = client, !.then = k]
            \in TaskState
      BY <3>2 DEF TaskState
    <3>4. QED BY <3>1, <3>3 DEF TypeOK
  <2>2. QED BY <1>1, <2>1 DEF Disconnect, TypeOK, session
<1>2. CASE client = None
  <2>1. task' \in [Task -> TaskState] /\ lock' \in Task \cup {None}
    BY <1>2, ResumeTyped DEF Disconnect
  <2>2. QED BY <1>2, <2>1 DEF Disconnect, TypeOK, Clear
<1>3. QED BY <1>1, <1>2

LEMMA SpawnTyped ==
  ASSUME TypeOK, NEW t \in Task, NEW k \in Kinds, NEW p \in Pcs,
         Spawn(t, k, p)
  PROVE  task' \in [Task -> TaskState]
<1>1. task[t] \in TaskState
  BY DEF TypeOK
<1>2. [task[t] EXCEPT !.kind = k, !.pc = p] \in TaskState
  BY <1>1 DEF TaskState
<1>3. QED BY <1>2 DEF TypeOK, Spawn

(* The attempt counter is past 1 only in a call that is still opening its  *)
(* session, writing after that, or cleaning up for the next attempt, and a *)
(* call waiting for its next attempt has one left.                         *)
Trying(r) ==
  \/ r.pc \in Opening \cup {"retry_sleep", "hook", "write", "drain"}
  \/ r.pc \in {"stop_notify", "disconnecting"} /\ r.then = "retry"

Budget == \A t \in Task :
  /\ pc(t) = "retry_sleep" => task[t].att < OPEN_MAX_ATTEMPTS
  /\ task[t].att > 1 => Trying(task[t])

(* Every step keeps the types. *)
LEMMA NextTyped == TypeOK /\ Budget /\ [Next]_vars => TypeOK'
<1> SUFFICES ASSUME TypeOK, Budget, [Next]_vars PROVE TypeOK'
  OBVIOUS
<1> USE DEF session, timers, pc, kind, on
<1>1. ASSUME NEW t \in Task, Call(t) PROVE TypeOK'
  <2>1. CASE CallLocked(t)
    BY <2>1, SpawnTyped DEF CallLocked, TypeOK, Spawn
  <2>2. CASE CallUnlocked(t)
    BY <2>2, SpawnTyped DEF CallUnlocked, TypeOK, Spawn
  <2>3. CASE Heal(t)
    BY <2>3, SpawnTyped DEF Heal, TypeOK, Spawn
  <2>4. CASE Cancel(t)
    BY <2>4, ExitTyped DEF Cancel, TypeOK
  <2>5. QED BY <1>1, <2>1, <2>2, <2>3, <2>4 DEF Call
<1>2. ASSUME NEW t \in Task, IdleFires(t) PROVE TypeOK'
  BY <1>2, SpawnTyped DEF IdleFires, TypeOK, Spawn
<1>3. ASSUME NEW t \in Task, Acquire(t) PROVE TypeOK'
  BY <1>3 DEF Acquire, TypeOK
<1>4. ASSUME NEW t \in Task, Step(t) PROVE TypeOK'
  <2>1. CASE StartEnsure(t)
    BY <2>1, ExitTyped, OpenTyped DEF StartEnsure, TypeOK
  <2>2. CASE StartDisconnect(t)
    BY <2>2, DisconnectTyped DEF StartDisconnect
  <2>3. CASE EnterCold(t)
    BY <2>3, OpenTyped DEF EnterCold, TypeOK
  <2>4. CASE EnterPooled(t)
    BY <2>4, AwaitTyped, WriteTyped DEF EnterPooled, TypeOK
  <2>5. CASE EnterIdleClose(t)
    BY <2>5, DisconnectTyped, ExitTyped DEF EnterIdleClose, TypeOK
  <2>6. CASE BindDone(t)
    BY <2>6, WriteTyped DEF BindDone, TypeOK
  <2>7. CASE BindFails(t)
    BY <2>7, DisconnectTyped DEF BindFails
  <2>8. CASE Written(t)
    BY <2>8, AwaitTyped DEF Written, TypeOK
  <2>9. CASE WriteFails(t)
    BY <2>9, ExitTyped DEF WriteFails, TypeOK
  <2>10. CASE Drained(t)
    BY <2>10, ExitTyped DEF Drained, ArmIdleTimer, TypeOK
  <2>11. CASE Established(t)
    BY <2>11, AwaitTyped DEF Established, TypeOK
  <2>12. CASE Settled(t) \/ Notified(t) \/ AesWritten(t)
    BY <2>12, AwaitTyped, ExitTyped
       DEF Settled, Notified, AesWritten, NextGatt, TypeOK
  <2>13. CASE Handshaken(t)
    <3>1. task' \in [Task -> TaskState] /\ lock' \in Task \cup {None}
      BY <2>13, AwaitTyped, ExitTyped DEF Handshaken
    <3>2. QED BY <2>13, <3>1 DEF Handshaken, TypeOK
  <2>14. CASE AttemptFails(t)
    BY <2>14, DisconnectTyped DEF AttemptFails
  <2>15. CASE RetrySlept(t)
    <3>1. task[t].att + 1 \in 1 .. OPEN_MAX_ATTEMPTS
      BY <2>15 DEF RetrySlept, Budget, TypeOK, TaskState
    <3>2. QED BY <2>15, <3>1 DEF RetrySlept, TypeOK, TaskState
  <2>16. CASE HookDone(t)
    BY <2>16, ExitTyped, WriteTyped DEF HookDone, TypeOK
  <2>17. CASE HookFails(t)
    BY <2>17, ExitTyped DEF HookFails, TypeOK
  <2>18. CASE NotifyStopped(t)
    BY <2>18, AwaitTyped, ResumeTyped DEF NotifyStopped, Clear, TypeOK
  <2>19. CASE Disconnected(t)
    BY <2>19, ResumeTyped DEF Disconnected, Clear, TypeOK
  <2>20. QED
    BY <1>4, <2>1, <2>2, <2>3, <2>4, <2>5, <2>6, <2>7, <2>8, <2>9, <2>10,
       <2>11, <2>12, <2>13, <2>14, <2>15, <2>16, <2>17, <2>18, <2>19 DEF Step
<1>5. CASE hold_open
  BY <1>5 DEF hold_open, is_connected, TypeOK
<1>6. CASE release \/ expire_hold
  BY <1>6 DEF release, expire_hold, Release, TypeOK
<1>7. CASE LinkDrops
  BY <1>7 DEF LinkDrops, TypeOK
<1>8. CASE UNCHANGED vars
  BY <1>8 DEF vars, TypeOK
<1>9. QED BY <1>1, <1>2, <1>3, <1>4, <1>5, <1>6, <1>7, <1>8 DEF Next

(* Every step keeps Budget. *)
LEMMA NextBudget == TypeOK /\ Budget /\ [Next]_vars => Budget'
<1> SUFFICES ASSUME TypeOK, Budget, [Next]_vars PROVE Budget'
  OBVIOUS
<1> USE DEF pc, kind, on, Budget, Trying, TypeOK, TaskState
<1>1. ASSUME NEW t \in Task, Call(t) PROVE Budget'
  <2>1. CASE CallLocked(t)
    BY <2>1 DEF CallLocked, Spawn, Off
  <2>2. CASE CallUnlocked(t)
    BY <2>2 DEF CallUnlocked, Spawn, Off
  <2>3. CASE Heal(t)
    BY <2>3 DEF Heal, Spawn, Off
  <2>4. CASE Cancel(t)
    BY <2>4 DEF Cancel, Exit, Off
  <2>5. QED BY <1>1, <2>1, <2>2, <2>3, <2>4 DEF Call
<1>4. ASSUME NEW t \in Task, Step(t) PROVE Budget'
  <2> USE DEF Exit, Off, Open, Await, Gatt, Write
  <2>1. CASE StartEnsure(t)
    BY <2>1 DEF StartEnsure
  <2>2. CASE StartDisconnect(t)
    BY <2>2 DEF StartDisconnect, Disconnect, Resume
  <2>3. CASE EnterCold(t)
    BY <2>3 DEF EnterCold
  <2>4. CASE EnterPooled(t)
    BY <2>4 DEF EnterPooled, HasLock
  <2>5. CASE EnterIdleClose(t)
    BY <2>5 DEF EnterIdleClose, HasLock, Disconnect, Resume
  <2>6. CASE BindDone(t)
    BY <2>6 DEF BindDone
  <2>7. CASE BindFails(t)
    BY <2>7 DEF BindFails, Disconnect, Resume
  <2>8. CASE Written(t)
    BY <2>8 DEF Written
  <2>9. CASE WriteFails(t)
    BY <2>9 DEF WriteFails
  <2>10. CASE Drained(t)
    BY <2>10 DEF Drained
  <2>11. CASE Established(t)
    BY <2>11 DEF Established
  <2>12. CASE Settled(t) \/ Notified(t) \/ AesWritten(t)
    BY <2>12 DEF Settled, Notified, AesWritten, NextGatt
  <2>13. CASE Handshaken(t)
    BY <2>13 DEF Handshaken
  <2>14. CASE AttemptFails(t)
    BY <2>14 DEF AttemptFails, Disconnect, Resume
  <2>15. CASE RetrySlept(t)
    BY <2>15 DEF RetrySlept
  <2>16. CASE HookDone(t)
    BY <2>16 DEF HookDone
  <2>17. CASE HookFails(t)
    BY <2>17 DEF HookFails
  <2>18. CASE NotifyStopped(t)
    BY <2>18 DEF NotifyStopped, Resume
  <2>19. CASE Disconnected(t)
    BY <2>19 DEF Disconnected, Resume
  <2>20. QED
    BY <1>4, <2>1, <2>2, <2>3, <2>4, <2>5, <2>6, <2>7, <2>8, <2>9, <2>10,
       <2>11, <2>12, <2>13, <2>14, <2>15, <2>16, <2>17, <2>18, <2>19 DEF Step
<1>2. ASSUME NEW t \in Task, IdleFires(t) PROVE Budget'
  BY <1>2 DEF IdleFires, Spawn, Off
<1>3. CASE UNCHANGED task
  BY <1>3
<1>5. (\E t \in Task : Acquire(t)) \/ hold_open \/ release \/ expire_hold
         \/ LinkDrops \/ UNCHANGED vars
        => UNCHANGED task
  BY DEF Acquire, hold_open, release, expire_hold, Release, LinkDrops, vars
<1>6. QED BY <1>1, <1>2, <1>3, <1>4, <1>5 DEF Next

LEMMA TypeAndBudget == Spec => [](TypeOK /\ Budget)
<1>1. Init => TypeOK /\ Budget
  <2>1. ASSUME Init PROVE TypeOK
    BY <2>1, OffTyped DEF Init, TypeOK
  <2>2. ASSUME Init PROVE Budget
    <3>1. \A t \in Task : task[t] = Off
      BY <2>2 DEF Init
    <3>2. Off.pc = "off" /\ Off.att = 1
      BY DEF Off
    <3>3. \A t \in Task : task[t].pc = "off" /\ task[t].att = 1
      BY <3>1, <3>2
    <3>4. ~(1 > 1)
      OBVIOUS
    <3>5. QED BY <3>3, <3>4 DEF Budget, pc
  <2>3. QED BY <2>1, <2>2
<1>2. TypeOK /\ Budget /\ [Next]_vars => (TypeOK /\ Budget)'
  BY NextTyped, NextBudget
<1>3. QED BY <1>1, <1>2, PTL DEF Spec

(* Each variable and each task's local state always has its type, and the  *)
(* attempt counter never passes the budget (connection.py 65-114, 163).    *)
THEOREM TypeCorrect == Spec => []TypeOK
  BY TypeAndBudget, PTL

-----------------------------------------------------------------------------
(* Holds: nothing arms the idle timer under a hold, and a hold always has  *)
(* its backstop, in every environment (312-367).                           *)
THEOREM HoldIsSafe == Spec => []HoldDisarmsIdleTimer
<1>1. Init => HoldDisarmsIdleTimer
  BY DEF Init, HoldDisarmsIdleTimer
<1>2. HoldDisarmsIdleTimer /\ [Next]_vars => HoldDisarmsIdleTimer'
  <2> SUFFICES ASSUME HoldDisarmsIdleTimer, [Next]_vars
               PROVE  HoldDisarmsIdleTimer'
    OBVIOUS
  <2> USE DEF HoldDisarmsIdleTimer, timers
  <2>1. ASSUME NEW t \in Task, Call(t) PROVE HoldDisarmsIdleTimer'
    BY <2>1 DEF Call, CallLocked, CallUnlocked, Heal, Cancel
  <2>2. ASSUME NEW t \in Task, IdleFires(t) PROVE HoldDisarmsIdleTimer'
    BY <2>2 DEF IdleFires
  <2>3. ASSUME NEW t \in Task, Acquire(t) PROVE HoldDisarmsIdleTimer'
    BY <2>3 DEF Acquire
  <2>4. ASSUME NEW t \in Task, Step(t) PROVE HoldDisarmsIdleTimer'
    BY <2>4 DEF Step, StartEnsure, StartDisconnect, EnterCold, EnterPooled,
                EnterIdleClose, BindDone, BindFails, Written, WriteFails,
                Drained, ArmIdleTimer, Established, Settled, Notified,
                AesWritten, NextGatt, Handshaken, AttemptFails, RetrySlept,
                HookDone, HookFails, NotifyStopped, Disconnected, Disconnect
  <2>5. CASE hold_open \/ release \/ expire_hold \/ LinkDrops
    BY <2>5 DEF hold_open, release, expire_hold, Release, LinkDrops
  <2>6. CASE UNCHANGED vars
    BY <2>6 DEF vars
  <2>7. QED BY <2>1, <2>2, <2>3, <2>4, <2>5, <2>6 DEF Next
<1>3. QED BY <1>1, <1>2, PTL DEF Spec

(* The refinement.  A step that leaves the timers alone is one of the      *)
(* abstract session whatever it does to the link; the others are few.      *)
LEMMA TimersAlone ==
  ASSUME UNCHANGED timers
  PROVE  [Session!SessionNext]_(Session!session)
<1>1. CASE (is_connected /\ ~BeingClosed)'
  <2>1. Session!Opens
    BY <1>1 DEF Session!Opens, Session!timer, timers
  <2>2. QED BY <2>1 DEF Session!SessionNext
<1>2. CASE ~(is_connected /\ ~BeingClosed)'
  <2>1. Session!Drops
    BY <1>2 DEF Session!Drops, Session!timer, timers
  <2>2. QED BY <2>1 DEF Session!SessionNext
<1>3. QED BY <1>1, <1>2

(* disconnect() closes the abstract session at once: either there is no    *)
(* client, or the caller is now in stop_notify of the client.              *)
LEMMA DisconnectCloses ==
  ASSUME TypeOK, NEW t \in Task, NEW k, Disconnect(t, k)
  PROVE  Session!Closes
<1>1. ~(is_connected /\ ~BeingClosed)'
  <2>1. CASE client # None
    <3>1. client' = client /\ task'[t].pc = "stop_notify" /\ task'[t].on = client
      BY <2>1 DEF Disconnect, TypeOK, TaskState, session
    <3>2. QED BY <3>1 DEF BeingClosed, pc, on
  <2>2. CASE client = None
    BY <2>2 DEF Disconnect, Clear, is_connected
  <2>3. QED BY <2>1, <2>2
<1>2. QED BY <1>1 DEF Disconnect, Session!Closes

(* The link and the closing tasks are as they were when only a task that   *)
(* closes nothing goes somewhere it closes nothing.                        *)
LEMMA OpenAlone ==
  ASSUME TypeOK, NEW t \in Task, pc(t) \notin {"stop_notify", "disconnecting"},
         task'[t].pc \notin {"stop_notify", "disconnecting"},
         \A u \in Task \ {t} : task'[u] = task[u],
         UNCHANGED <<session, up>>
  PROVE  (is_connected /\ ~BeingClosed)' = (is_connected /\ ~BeingClosed)
<1>1. is_connected' = is_connected
  BY DEF is_connected, session
<1>2. BeingClosed' <=> BeingClosed
  BY DEF BeingClosed, pc, on, session
<1>3. QED BY <1>1, <1>2

LEMMA DrainedWrites ==
  ASSUME TypeOK, NEW t \in Task, Drained(t)
  PROVE  Session!Writes
<1>1. /\ pc(t) = "drain" /\ task'[t].pc = "off"
      /\ \A u \in Task \ {t} : task'[u] = task[u]
  BY DEF Drained, Exit, Off, TypeOK
<1>2. (is_connected /\ ~BeingClosed)' = (is_connected /\ ~BeingClosed)
  BY <1>1, OpenAlone DEF Drained
<1>3. QED BY <1>2 DEF Drained, ArmIdleTimer, Session!Writes

LEMMA IdleTimerFires ==
  ASSUME TypeOK, NEW t \in Task, IdleFires(t)
  PROVE  Session!IdleFires
<1>1. /\ pc(t) = "off" /\ task'[t].pc = "lock"
      /\ \A u \in Task \ {t} : task'[u] = task[u]
  BY DEF IdleFires, Spawn, Off, TypeOK, TaskState, pc
<1>2. (is_connected /\ ~BeingClosed)' = (is_connected /\ ~BeingClosed)
  BY <1>1, OpenAlone DEF IdleFires, Spawn
<1>3. QED BY <1>2 DEF IdleFires, Session!IdleFires

LEMMA HoldsAndReleases ==
  ASSUME hold_open \/ release \/ expire_hold
  PROVE  Session!Holds \/ Session!Releases
<1>1. (is_connected /\ ~BeingClosed)' = (is_connected /\ ~BeingClosed)
  BY DEF hold_open, release, expire_hold, Release, is_connected, BeingClosed,
         pc, on, session
<1>2. CASE hold_open
  BY <1>1, <1>2 DEF hold_open, Session!Holds
<1>3. CASE release \/ expire_hold
  BY <1>1, <1>3 DEF release, expire_hold, Release, Session!Releases
<1>4. QED BY <1>2, <1>3

LEMMA NextIsSession ==
  ASSUME TypeOK, [Next]_vars
  PROVE  [Session!SessionNext]_(Session!session)
<1> DEFINE Abstract == [Session!SessionNext]_(Session!session)
<1>1. ASSUME NEW t \in Task, Step(t) PROVE Abstract
  <2>1. CASE \E k : Disconnect(t, k)
    BY <2>1, DisconnectCloses DEF Session!SessionNext
  <2>2. CASE Drained(t)
    BY <2>2, DrainedWrites DEF Session!SessionNext
  <2>3. CASE UNCHANGED timers
    BY <2>3, TimersAlone
  <2>4. (\E k : Disconnect(t, k)) \/ Drained(t) \/ UNCHANGED timers
    BY <1>1 DEF Step, StartEnsure, StartDisconnect, EnterCold, EnterPooled,
                EnterIdleClose, BindDone, BindFails, Written, WriteFails,
                Established, Settled, Notified, AesWritten, NextGatt,
                Handshaken, AttemptFails, RetrySlept, HookDone, HookFails,
                NotifyStopped, Disconnected
  <2>5. QED BY <2>1, <2>2, <2>3, <2>4
<1>2. ASSUME NEW t \in Task, IdleFires(t) PROVE Abstract
  BY <1>2, IdleTimerFires DEF Session!SessionNext
<1>3. ASSUME NEW t \in Task, Call(t) \/ Acquire(t) PROVE Abstract
  BY <1>3, TimersAlone DEF Call, CallLocked, CallUnlocked, Heal, Cancel,
                           Acquire
<1>4. CASE hold_open \/ release \/ expire_hold
  BY <1>4, HoldsAndReleases DEF Session!SessionNext
<1>5. CASE LinkDrops \/ UNCHANGED vars
  BY <1>5, TimersAlone DEF LinkDrops, vars
<1>6. QED BY <1>1, <1>2, <1>3, <1>4, <1>5 DEF Next

(* To its callers the connection is the session of BleSession, in every    *)
(* environment: unlocked and cancelled calls included (connection.py       *)
(* 286-374).                                                               *)
THEOREM ImplementsSession == Spec => IsSession
<1>1. Init => Session!SessionInit
  BY DEF Init, Session!SessionInit, is_connected
<1>2. TypeOK /\ [Next]_vars => [Session!SessionNext]_(Session!session)
  BY NextIsSession
<1>3. QED BY <1>1, <1>2, TypeCorrect, PTL DEF Spec, IsSession, Session!SessionSpec

-----------------------------------------------------------------------------
(***************************************************************************)
(* The key of a session.  Without the public ensure_connected and without  *)
(* the cancellation of a caller, whoever is opening a session, or writing, *)
(* has the lock; disconnects may still run beside it at any time.          *)
(***************************************************************************)
LockedOpens == Calls \cap {"ensure_connected", "cancel"} = {}

Closing == {"stop_notify", "disconnecting"}

LockInv == \A t \in Task :
  /\ kind(t) = "disconnect" => pc(t) \in Closing \cup {"start"}
  /\ kind(t) = "ensure_connected" => FALSE
  /\ pc(t) = "start" => kind(t) = "disconnect"
  /\ pc(t) \in Closing /\ kind(t) = "disconnect" => task[t].then = "finish"
  /\ pc(t) \in Inside /\ kind(t) # "disconnect" => lock = t

(* The handshake runs on the installed client, or that was torn down. *)
OnInv == \A t \in Task :
  pc(t) \in {"notify", "aes_write", "aes_read"} /\ client # None
    => on(t) = client

(* A key left over from an earlier session (a link that dropped by itself  *)
(* clears nothing) exists only while the task with the lock is between     *)
(* connecting and its handshake, or cleaning up for its next attempt.      *)
Renewing(t) ==
  \/ pc(t) \in Opening \ {"establish"}
  \/ pc(t) \in Closing /\ task[t].then = "retry"

StaleKeyInv ==
  iv # None /\ client # None /\ iv # client
    => lock \in Task /\ Renewing(lock)

KeyInv == LockInv /\ OnInv /\ StaleKeyInv

LEMMA NextLockInv ==
  ASSUME LockedOpens, TypeOK, LockInv, [Next]_vars
  PROVE  LockInv'
<1> USE DEF pc, kind, on, LockInv, TypeOK, TaskState, Closing
<1>1. ASSUME NEW t \in Task, Call(t) PROVE LockInv'
  <2>1. CASE CallLocked(t)
    BY <2>1 DEF CallLocked, Spawn, Off
  <2>2. CASE CallUnlocked(t)
    BY <2>2 DEF CallUnlocked, Spawn, Off, LockedOpens
  <2>3. CASE Heal(t)
    BY <2>3 DEF Heal, Spawn, Off
  <2>4. CASE Cancel(t)
    BY <2>4 DEF Cancel, LockedOpens
  <2>5. QED BY <1>1, <2>1, <2>2, <2>3, <2>4 DEF Call
<1>2. ASSUME NEW t \in Task, IdleFires(t) PROVE LockInv'
  BY <1>2 DEF IdleFires, Spawn, Off
<1>3. ASSUME NEW t \in Task, Acquire(t) PROVE LockInv'
  BY <1>3 DEF Acquire
<1>4. ASSUME NEW t \in Task, Step(t) PROVE LockInv'
  <2> USE DEF Exit, Off, Open, Await, Gatt, Write
  <2>1. CASE StartEnsure(t)
    BY <2>1 DEF StartEnsure
  <2>2. CASE StartDisconnect(t)
    BY <2>2 DEF StartDisconnect, Disconnect, Resume
  <2>3. CASE EnterCold(t)
    BY <2>3 DEF EnterCold, HasLock
  <2>4. CASE EnterPooled(t)
    BY <2>4 DEF EnterPooled, HasLock
  <2>5. CASE EnterIdleClose(t)
    BY <2>5 DEF EnterIdleClose, HasLock, Disconnect, Resume
  <2>6. CASE BindDone(t)
    BY <2>6 DEF BindDone
  <2>7. CASE BindFails(t)
    BY <2>7 DEF BindFails, Disconnect, Resume
  <2>8. CASE Written(t)
    BY <2>8 DEF Written
  <2>9. CASE WriteFails(t)
    BY <2>9 DEF WriteFails
  <2>10. CASE Drained(t)
    BY <2>10 DEF Drained
  <2>11. CASE Established(t)
    BY <2>11 DEF Established
  <2>12. CASE Settled(t) \/ Notified(t) \/ AesWritten(t)
    BY <2>12 DEF Settled, Notified, AesWritten, NextGatt
  <2>13. CASE Handshaken(t)
    BY <2>13 DEF Handshaken
  <2>14. CASE AttemptFails(t)
    BY <2>14 DEF AttemptFails, Disconnect, Resume
  <2>15. CASE RetrySlept(t)
    BY <2>15 DEF RetrySlept
  <2>16. CASE HookDone(t)
    BY <2>16 DEF HookDone
  <2>17. CASE HookFails(t)
    BY <2>17 DEF HookFails
  <2>18. CASE NotifyStopped(t)
    BY <2>18 DEF NotifyStopped, Resume
  <2>19. CASE Disconnected(t)
    BY <2>19 DEF Disconnected, Resume
  <2>20. QED
    BY <1>4, <2>1, <2>2, <2>3, <2>4, <2>5, <2>6, <2>7, <2>8, <2>9, <2>10,
       <2>11, <2>12, <2>13, <2>14, <2>15, <2>16, <2>17, <2>18, <2>19 DEF Step
<1>5. CASE UNCHANGED <<task, lock>>
  BY <1>5
<1>6. hold_open \/ release \/ expire_hold \/ LinkDrops \/ UNCHANGED vars
        => UNCHANGED <<task, lock>>
  BY DEF hold_open, release, expire_hold, Release, LinkDrops, vars
<1>7. QED BY <1>1, <1>2, <1>3, <1>4, <1>5, <1>6 DEF Next

LEMMA NextOnInv ==
  ASSUME LockedOpens, TypeOK, LockInv, OnInv, [Next]_vars
  PROVE  OnInv'
<1> USE DEF pc, kind, on, LockInv, OnInv, TypeOK, TaskState, Closing, session
<1>1. ASSUME NEW t \in Task, Call(t) PROVE OnInv'
  <2>1. CASE CallLocked(t)
    BY <2>1 DEF CallLocked, Spawn, Off
  <2>2. CASE CallUnlocked(t)
    BY <2>2 DEF CallUnlocked, Spawn, Off
  <2>3. CASE Heal(t)
    BY <2>3 DEF Heal, Spawn, Off
  <2>4. CASE Cancel(t)
    BY <2>4 DEF Cancel, LockedOpens
  <2>5. QED BY <1>1, <2>1, <2>2, <2>3, <2>4 DEF Call
<1>2. ASSUME NEW t \in Task, IdleFires(t) PROVE OnInv'
  BY <1>2 DEF IdleFires, Spawn, Off
<1>3. ASSUME NEW t \in Task, Acquire(t) PROVE OnInv'
  BY <1>3 DEF Acquire
<1>4. ASSUME NEW t \in Task, Step(t) PROVE OnInv'
  <2> USE DEF Exit, Off, Open, Await, Gatt, Write
  <2>1. CASE StartEnsure(t)
    BY <2>1 DEF StartEnsure
  <2>2. CASE StartDisconnect(t)
    BY <2>2 DEF StartDisconnect, Disconnect, Resume, Clear
  <2>3. CASE EnterCold(t)
    BY <2>3 DEF EnterCold, HasLock
  <2>4. CASE EnterPooled(t)
    BY <2>4 DEF EnterPooled, HasLock
  <2>5. CASE EnterIdleClose(t)
    BY <2>5 DEF EnterIdleClose, HasLock, Disconnect, Resume, Clear
  <2>6. CASE BindDone(t)
    BY <2>6 DEF BindDone
  <2>7. CASE BindFails(t)
    BY <2>7 DEF BindFails, Disconnect, Resume, Clear
  <2>8. CASE Written(t)
    BY <2>8 DEF Written
  <2>9. CASE WriteFails(t)
    BY <2>9 DEF WriteFails
  <2>10. CASE Drained(t)
    BY <2>10 DEF Drained
  <2>11. CASE Established(t)
    BY <2>11 DEF Established
  <2>12. CASE Settled(t) \/ Notified(t) \/ AesWritten(t)
    BY <2>12 DEF Settled, Notified, AesWritten, NextGatt
  <2>13. CASE Handshaken(t)
    BY <2>13 DEF Handshaken
  <2>14. CASE AttemptFails(t)
    BY <2>14 DEF AttemptFails, Disconnect, Resume, Clear
  <2>15. CASE RetrySlept(t)
    BY <2>15 DEF RetrySlept
  <2>16. CASE HookDone(t)
    BY <2>16 DEF HookDone
  <2>17. CASE HookFails(t)
    BY <2>17 DEF HookFails
  <2>18. CASE NotifyStopped(t)
    BY <2>18 DEF NotifyStopped, Resume, Clear
  <2>19. CASE Disconnected(t)
    BY <2>19 DEF Disconnected, Resume, Clear
  <2>20. QED
    BY <1>4, <2>1, <2>2, <2>3, <2>4, <2>5, <2>6, <2>7, <2>8, <2>9, <2>10,
       <2>11, <2>12, <2>13, <2>14, <2>15, <2>16, <2>17, <2>18, <2>19 DEF Step
<1>5. CASE UNCHANGED <<task, lock, session>>
  BY <1>5
<1>6. hold_open \/ release \/ expire_hold \/ LinkDrops \/ UNCHANGED vars
        => UNCHANGED <<task, lock, session>>
  BY DEF hold_open, release, expire_hold, Release, LinkDrops, vars
<1>7. QED BY <1>1, <1>2, <1>3, <1>4, <1>5, <1>6 DEF Next

LEMMA NextStaleKeyInv ==
  ASSUME LockedOpens, TypeOK, KeyInv, [Next]_vars
  PROVE  StaleKeyInv'
<1> USE DEF pc, kind, on, KeyInv, LockInv, OnInv, StaleKeyInv, Renewing,
            TypeOK, TaskState, Closing, session
<1>1. ASSUME NEW t \in Task, Call(t) PROVE StaleKeyInv'
  <2>1. CASE CallLocked(t)
    BY <2>1 DEF CallLocked, Spawn, Off
  <2>2. CASE CallUnlocked(t)
    BY <2>2 DEF CallUnlocked, Spawn, Off
  <2>3. CASE Heal(t)
    BY <2>3 DEF Heal, Spawn, Off
  <2>4. CASE Cancel(t)
    BY <2>4 DEF Cancel, LockedOpens
  <2>5. QED BY <1>1, <2>1, <2>2, <2>3, <2>4 DEF Call
<1>2. ASSUME NEW t \in Task, IdleFires(t) PROVE StaleKeyInv'
  BY <1>2 DEF IdleFires, Spawn, Off
<1>3. ASSUME NEW t \in Task, Acquire(t) PROVE StaleKeyInv'
  BY <1>3 DEF Acquire
<1>4. ASSUME NEW t \in Task, Step(t) PROVE StaleKeyInv'
  <2> USE DEF Exit, Off, Open, Await, Gatt, Write
  <2>1. CASE StartEnsure(t)
    BY <2>1 DEF StartEnsure
  <2>2. CASE StartDisconnect(t)
    BY <2>2 DEF StartDisconnect, Disconnect, Resume, Clear
  <2>3. CASE EnterCold(t)
    BY <2>3 DEF EnterCold, HasLock
  <2>4. CASE EnterPooled(t)
    BY <2>4 DEF EnterPooled, HasLock
  <2>5. CASE EnterIdleClose(t)
    BY <2>5 DEF EnterIdleClose, HasLock, Disconnect, Resume, Clear
  <2>6. CASE BindDone(t)
    BY <2>6 DEF BindDone
  <2>7. CASE BindFails(t)
    BY <2>7 DEF BindFails, Disconnect, Resume, Clear
  <2>8. CASE Written(t)
    BY <2>8 DEF Written
  <2>9. CASE WriteFails(t)
    BY <2>9 DEF WriteFails
  <2>10. CASE Drained(t)
    BY <2>10 DEF Drained
  <2>11. CASE Established(t)
    BY <2>11 DEF Established
  <2>12. CASE Settled(t) \/ Notified(t) \/ AesWritten(t)
    BY <2>12 DEF Settled, Notified, AesWritten, NextGatt
  <2>13. CASE Handshaken(t)
    BY <2>13 DEF Handshaken
  <2>14. CASE AttemptFails(t)
    BY <2>14 DEF AttemptFails, Disconnect, Resume, Clear
  <2>15. CASE RetrySlept(t)
    BY <2>15 DEF RetrySlept
  <2>16. CASE HookDone(t)
    BY <2>16 DEF HookDone
  <2>17. CASE HookFails(t)
    BY <2>17 DEF HookFails
  <2>18. CASE NotifyStopped(t)
    BY <2>18 DEF NotifyStopped, Resume, Clear
  <2>19. CASE Disconnected(t)
    BY <2>19 DEF Disconnected, Resume, Clear
  <2>20. QED
    BY <1>4, <2>1, <2>2, <2>3, <2>4, <2>5, <2>6, <2>7, <2>8, <2>9, <2>10,
       <2>11, <2>12, <2>13, <2>14, <2>15, <2>16, <2>17, <2>18, <2>19 DEF Step
<1>5. CASE UNCHANGED <<task, lock, session>>
  BY <1>5
<1>6. hold_open \/ release \/ expire_hold \/ LinkDrops \/ UNCHANGED vars
        => UNCHANGED <<task, lock, session>>
  BY DEF hold_open, release, expire_hold, Release, LinkDrops, vars
<1>7. QED BY <1>1, <1>2, <1>3, <1>4, <1>5, <1>6 DEF Next

LEMMA InitKeyInv == Init => KeyInv
<1> SUFFICES ASSUME Init PROVE KeyInv
  OBVIOUS
<1>1. \A t \in Task : task[t].pc = "off" /\ task[t].kind = "send"
  BY DEF Init, Off
<1>2. iv = None
  BY DEF Init
<1>3. QED
  BY <1>1, <1>2 DEF KeyInv, LockInv, OnInv, StaleKeyInv, pc, kind, Closing

LEMMA KeyInvHolds ==
  ASSUME LockedOpens
  PROVE  Spec => [](TypeOK /\ KeyInv)
<1>1. Init => KeyInv
  BY InitKeyInv
<1>2. TypeOK /\ KeyInv /\ [Next]_vars => KeyInv'
  BY NextLockInv, NextOnInv, NextStaleKeyInv DEF KeyInv
<1>3. QED BY <1>1, <1>2, TypeCorrect, PTL DEF Spec

(* Nothing is ever encrypted with the key of another session than the one  *)
(* it is written to, however links drop and however self-heal disconnects  *)
(* interleave with opens and commands, as long as sessions are opened      *)
(* under the lock and no caller is cancelled (390-401, 412-430).           *)
THEOREM KeyIsOfSession ==
  ASSUME LockedOpens
  PROVE  Spec => []KeyMatchesSession
<1>1. KeyInv => KeyMatchesSession
  BY DEF KeyInv, LockInv, StaleKeyInv, KeyMatchesSession, Renewing, HasLock,
         pc, kind, Closing
<1>2. QED BY <1>1, KeyInvHolds, PTL

(* Under the same condition at most one task is opening a session.         *)
THEOREM OpensAreExclusive ==
  ASSUME LockedOpens
  PROVE  Spec => []OneOpenAtATime
<1>1. KeyInv => OneOpenAtATime
  BY DEF KeyInv, LockInv, OneOpenAtATime, pc, kind, Closing
<1>2. QED BY <1>1, KeyInvHolds, PTL

-----------------------------------------------------------------------------
(* The retry budget (147-149): no path of one call counts again from one.  *)
THEOREM BudgetIsNotMultiplied == Spec => OneRetryBudget
<1> DEFINE Kept == \A t \in Task :
              task[t].att > 1 /\ task'[t].pc = "establish"
                => task'[t].att \in {task[t].att, task[t].att + 1}
<1>1. TypeOK /\ Budget /\ [Next]_vars => Kept
  <2> SUFFICES ASSUME TypeOK, Budget, [Next]_vars PROVE Kept
    OBVIOUS
  <2> USE DEF pc, kind, on, Budget, Trying, TypeOK, TaskState
  <2>1. ASSUME NEW t \in Task, Step(t) PROVE Kept
    <3> USE DEF Exit, Off, Open, Await, Gatt, Write
    <3>1. CASE StartEnsure(t) \/ EnterCold(t) \/ EnterPooled(t)
      BY <3>1 DEF StartEnsure, EnterCold, EnterPooled, HasLock
    <3>2. CASE StartDisconnect(t) \/ EnterIdleClose(t)
      BY <3>2 DEF StartDisconnect, EnterIdleClose, HasLock, Disconnect, Resume
    <3>3. CASE BindFails(t) \/ AttemptFails(t)
      BY <3>3 DEF BindFails, AttemptFails, Disconnect, Resume
    <3>4. CASE BindDone(t) \/ Written(t) \/ WriteFails(t) \/ Drained(t)
      BY <3>4 DEF BindDone, Written, WriteFails, Drained
    <3>5. CASE Established(t) \/ Settled(t) \/ Notified(t) \/ AesWritten(t)
      BY <3>5 DEF Established, Settled, Notified, AesWritten, NextGatt
    <3>6. CASE Handshaken(t) \/ RetrySlept(t) \/ HookDone(t) \/ HookFails(t)
      BY <3>6 DEF Handshaken, RetrySlept, HookDone, HookFails
    <3>7. CASE NotifyStopped(t) \/ Disconnected(t)
      BY <3>7 DEF NotifyStopped, Disconnected, Resume
    <3>8. QED
      BY <2>1, <3>1, <3>2, <3>3, <3>4, <3>5, <3>6, <3>7 DEF Step
  <2>2. ASSUME NEW t \in Task, Call(t) \/ IdleFires(t) PROVE Kept
    <3>1. CASE CallLocked(t)
      BY <3>1 DEF CallLocked, Spawn, Off
    <3>2. CASE CallUnlocked(t)
      BY <3>2 DEF CallUnlocked, Spawn, Off
    <3>3. CASE Heal(t) \/ IdleFires(t)
      BY <3>3 DEF Heal, IdleFires, Spawn, Off
    <3>4. CASE Cancel(t)
      BY <3>4 DEF Cancel, Exit, Off
    <3>5. QED BY <2>2, <3>1, <3>2, <3>3, <3>4 DEF Call
  <2>3. CASE UNCHANGED task
    BY <2>3
  <2>4. (\E t \in Task : Acquire(t)) \/ hold_open \/ release \/ expire_hold
           \/ LinkDrops \/ UNCHANGED vars
          => UNCHANGED task
    BY DEF Acquire, hold_open, release, expire_hold, Release, LinkDrops, vars
  <2>5. QED BY <2>1, <2>2, <2>3, <2>4 DEF Next
<1>2. QED
  BY <1>1, TypeAndBudget, PTL DEF Spec, OneRetryBudget

-----------------------------------------------------------------------------
(***************************************************************************)
(* How the device's one session comes to be lost (NoOrphan fails in run    *)
(* ble_orphan).  disconnect() takes no lock and empties _client when its   *)
(* awaits are over, whatever _client is by then.                           *)
(***************************************************************************)
OneLink == \A c, e \in up : c = e

LEMMA OneLinkStep ==
  ASSUME OneLink, [Next]_vars
  PROVE  OneLink'
<1>1. (\E c \in Client : up' = {c}) \/ up' \subseteq up
  <2>1. ASSUME NEW t \in Task, Step(t)
        PROVE  (\E c \in Client : up' = {c}) \/ up' \subseteq up
    <3>1. CASE Established(t)
      BY <3>1 DEF Established
    <3>2. CASE Disconnected(t)
      BY <3>2 DEF Disconnected
    <3>3. CASE StartEnsure(t) \/ StartDisconnect(t) \/ EnterCold(t)
               \/ EnterPooled(t) \/ EnterIdleClose(t)
      BY <3>3 DEF StartEnsure, StartDisconnect, EnterCold, EnterPooled,
                  EnterIdleClose, Disconnect
    <3>4. CASE BindDone(t) \/ BindFails(t) \/ Written(t) \/ WriteFails(t) \/ Drained(t)
      BY <3>4 DEF BindDone, BindFails, Written, WriteFails, Drained, Disconnect
    <3>5. CASE Settled(t) \/ Notified(t) \/ AesWritten(t) \/ Handshaken(t)
      BY <3>5 DEF Settled, Notified, AesWritten, Handshaken, NextGatt
    <3>6. CASE AttemptFails(t) \/ RetrySlept(t) \/ HookDone(t) \/ HookFails(t)
               \/ NotifyStopped(t)
      BY <3>6 DEF AttemptFails, RetrySlept, HookDone, HookFails, NotifyStopped,
                  Disconnect
    <3> QED
      BY <2>1, <3>1, <3>2, <3>3, <3>4, <3>5, <3>6 DEF Step
  <2>2. ASSUME NEW t \in Task, Call(t) \/ IdleFires(t) \/ Acquire(t)
        PROVE  up' = up
    BY <2>2 DEF Call, CallLocked, CallUnlocked, Heal, Cancel, IdleFires, Acquire, Spawn
  <2>3. ASSUME hold_open \/ release \/ expire_hold \/ LinkDrops \/ UNCHANGED vars
        PROVE  up' \subseteq up
    BY <2>3 DEF hold_open, release, expire_hold, Release, LinkDrops, vars
  <2> QED
    BY <2>1, <2>2, <2>3 DEF Next
<1> QED
  BY <1>1 DEF OneLink

(* Only the end of a disconnect(), or a connect, changes the client of a   *)
(* connection that has one.                                                *)
LEMMA WhoForgets ==
  ASSUME [Next]_vars, client # None, client' # client
  PROVE  \E t \in Task : Established(t) \/ Disconnected(t)
<1>1. ASSUME NEW t \in Task, Step(t)
      PROVE  Established(t) \/ Disconnected(t) \/ client' = client
  <2>1. CASE StartEnsure(t) \/ StartDisconnect(t) \/ EnterCold(t)
             \/ EnterPooled(t) \/ EnterIdleClose(t)
    BY <2>1 DEF StartEnsure, StartDisconnect, EnterCold, EnterPooled,
                EnterIdleClose, Disconnect, session
  <2>2. CASE BindDone(t) \/ BindFails(t) \/ Written(t) \/ WriteFails(t) \/ Drained(t)
    BY <2>2 DEF BindDone, BindFails, Written, WriteFails, Drained, Disconnect, session
  <2>3. CASE Settled(t) \/ Notified(t) \/ AesWritten(t) \/ Handshaken(t)
    BY <2>3 DEF Settled, Notified, AesWritten, Handshaken, NextGatt, session
  <2>4. CASE AttemptFails(t) \/ RetrySlept(t) \/ HookDone(t) \/ HookFails(t)
             \/ NotifyStopped(t)
    BY <2>4 DEF AttemptFails, RetrySlept, HookDone, HookFails, NotifyStopped,
                Disconnect, session
  <2> QED
    BY <1>1, <2>1, <2>2, <2>3, <2>4 DEF Step
<1>2. ASSUME NEW t \in Task, Call(t) \/ IdleFires(t) \/ Acquire(t)
      PROVE  client' = client
  BY <1>2 DEF Call, CallLocked, CallUnlocked, Heal, Cancel, IdleFires, Acquire,
              Spawn, session
<1>3. ASSUME hold_open \/ release \/ expire_hold \/ LinkDrops \/ UNCHANGED vars
      PROVE  client' = client
  BY <1>3 DEF hold_open, release, expire_hold, Release, LinkDrops, vars, session
<1> QED
  BY <1>1, <1>2, <1>3 DEF Next

(* For every mix of calls, those without the lock, the self-heal and       *)
(* cancelled ones included: the connection lets go of a session that is up *)
(* only in the last step of a disconnect() whose own link is already gone, *)
(* so that a send could open another while it was awaited                  *)
(* (disconnect 299-307, _open 163-171).                                    *)
THEOREM OnlyLateDisconnectsForget ==
  Spec => [][\A c \in up \cap up' :
               client = c /\ client' # c
                 => \E t \in Task : Disconnected(t) /\ on(t) \notin up]_vars
<1>1. Init => OneLink
  BY DEF Init, OneLink
<1>2. TypeOK /\ OneLink /\ [Next]_vars
        => [\A c \in up \cap up' :
              client = c /\ client' # c
                => \E t \in Task : Disconnected(t) /\ on(t) \notin up]_vars
  <2> SUFFICES ASSUME TypeOK, OneLink, [Next]_vars,
                      NEW c \in up \cap up', client = c, client' # c
               PROVE  \E t \in Task : Disconnected(t) /\ on(t) \notin up
    OBVIOUS
  <2>1. client # None
    BY ConstantsAssumption DEF TypeOK
  <2>2. PICK t \in Task : Established(t) \/ Disconnected(t)
    BY <2>1, WhoForgets
  <2>3. ~Established(t)
    BY DEF Established
  <2>4. Disconnected(t) /\ up' = up \ {on(t)}
    BY <2>2, <2>3 DEF Disconnected
  <2>5. on(t) # c
    BY <2>4
  <2>6. on(t) \notin up
    BY <2>5 DEF OneLink
  <2> QED
    BY <2>4, <2>6
<1> QED
  BY <1>1, <1>2, OneLinkStep, TypeCorrect, PTL DEF Spec

-----------------------------------------------------------------------------
(* The safety half of CallsReturn: how far a running call is from its end. *)
(* An attempt of _open has a ladder of eight awaits, cleaning up included, *)
(* and every attempt still allowed adds one; a command that has a session  *)
(* is three awaits from its end, and send_actuation may use a whole budget *)
(* after its re-run hook failed.                                           *)
Attempts(r) == 8 * (OPEN_MAX_ATTEMPTS - r.att)
Budgeted    == 8 * OPEN_MAX_ATTEMPTS

Rank(r) ==
  CASE r.pc \in {"start", "lock"} -> Budgeted + 15
    [] r.pc = "bind"              -> Budgeted + 14
    [] r.pc = "stop_notify" ->
         CASE r.then = "reopen" -> Budgeted + 13
           [] r.then = "retry"  -> Attempts(r) + 6
           [] OTHER             -> 2
    [] r.pc = "disconnecting" ->
         CASE r.then = "reopen" -> Budgeted + 12
           [] r.then = "retry"  -> Attempts(r) + 5
           [] OTHER             -> 1
    [] r.pc = "establish"   -> Attempts(r) + 11
    [] r.pc = "settle"      -> Attempts(r) + 10
    [] r.pc = "notify"      -> Attempts(r) + 9
    [] r.pc = "aes_write"   -> Attempts(r) + 8
    [] r.pc = "aes_read"    -> Attempts(r) + 7
    [] r.pc = "retry_sleep" -> Attempts(r) + 4
    [] r.pc = "hook"        -> 3
    [] r.pc = "write"       -> 2
    [] r.pc = "drain"       -> 1
    [] OTHER                -> 0

(* A step of a running call takes it down its ladder, however the others   *)
(* interleave: so a call returns after at most Rank of its start steps of  *)
(* its own, and only waiting could keep it (139-310, 379-485).             *)
CallsDescend ==
  [][\A t \in Task : pc(t) # "off" /\ task'[t] # task[t]
       => Rank(task'[t]) \in 0 .. Rank(task[t]) - 1]_vars

LEMMA RankOf ==
  ASSUME NEW r \in TaskState
  PROVE  /\ r.pc \in {"start", "lock"} => Rank(r) = Budgeted + 15
         /\ r.pc = "bind" => Rank(r) = Budgeted + 14
         /\ r.pc = "stop_notify" =>
              /\ r.then = "reopen" => Rank(r) = Budgeted + 13
              /\ r.then = "retry" => Rank(r) = Attempts(r) + 6
              /\ r.then = "finish" => Rank(r) = 2
         /\ r.pc = "disconnecting" =>
              /\ r.then = "reopen" => Rank(r) = Budgeted + 12
              /\ r.then = "retry" => Rank(r) = Attempts(r) + 5
              /\ r.then = "finish" => Rank(r) = 1
         /\ r.pc = "establish" => Rank(r) = Attempts(r) + 11
         /\ r.pc = "settle" => Rank(r) = Attempts(r) + 10
         /\ r.pc = "notify" => Rank(r) = Attempts(r) + 9
         /\ r.pc = "aes_write" => Rank(r) = Attempts(r) + 8
         /\ r.pc = "aes_read" => Rank(r) = Attempts(r) + 7
         /\ r.pc = "retry_sleep" => Rank(r) = Attempts(r) + 4
         /\ r.pc = "hook" => Rank(r) = 3
         /\ r.pc = "write" => Rank(r) = 2
         /\ r.pc = "drain" => Rank(r) = 1
         /\ r.pc = "off" => Rank(r) = 0
<1>1. r.pc = "start" => Rank(r) = Budgeted + 15 BY DEF Rank
<1>2. r.pc = "lock" => Rank(r) = Budgeted + 15 BY DEF Rank
<1>3. r.pc = "bind" => Rank(r) = Budgeted + 14 BY DEF Rank
<1>4. r.pc = "establish" => Rank(r) = Attempts(r) + 11 BY DEF Rank
<1>5. r.pc = "settle" => Rank(r) = Attempts(r) + 10 BY DEF Rank
<1>6. r.pc = "notify" => Rank(r) = Attempts(r) + 9 BY DEF Rank
<1>7. r.pc = "aes_write" => Rank(r) = Attempts(r) + 8 BY DEF Rank
<1>8. r.pc = "aes_read" => Rank(r) = Attempts(r) + 7 BY DEF Rank
<1>9. r.pc = "retry_sleep" => Rank(r) = Attempts(r) + 4 BY DEF Rank
<1>10. r.pc = "hook" => Rank(r) = 3 BY DEF Rank
<1>11. r.pc = "write" => Rank(r) = 2 BY DEF Rank
<1>12. r.pc = "drain" => Rank(r) = 1 BY DEF Rank
<1>13. r.pc = "off" => Rank(r) = 0 BY DEF Rank
<1>14. CASE r.pc = "stop_notify" BY <1>14 DEF Rank
<1>15. CASE r.pc = "disconnecting" BY <1>15 DEF Rank
<1>16. CASE r.pc \notin {"stop_notify", "disconnecting"}
  BY <1>16, <1>1, <1>2, <1>3, <1>4, <1>5, <1>6, <1>7, <1>8, <1>9, <1>10, <1>11, <1>12, <1>13
<1> QED BY <1>14, <1>15, <1>16

(* Whatever follows, the attempts left are a multiple of a ladder.         *)
LEMMA AttemptsLeft ==
  ASSUME NEW r \in TaskState
  PROVE  /\ Attempts(r) \in Nat
         /\ Budgeted \in Nat
         /\ Attempts(r) + 8 <= Budgeted
         /\ r.att = 1 => Attempts(r) + 8 = Budgeted
<1>1. PICK a \in Nat : a = r.att /\ a >= 1 /\ a <= OPEN_MAX_ATTEMPTS
  BY DEF TaskState
<1>2. OPEN_MAX_ATTEMPTS \in Nat OBVIOUS
<1> QED BY <1>1, <1>2 DEF Attempts, Budgeted

(* A call that runs has a step left, and none has more than a whole budget. *)
LEMMA RankBounds ==
  ASSUME NEW r \in TaskState, r.pc # "off"
  PROVE  Rank(r) \in 1 .. Budgeted + 15
<1>1. r.pc \in Pcs /\ r.then \in {"retry", "reopen", "finish"}
  BY DEF TaskState
<1>2. PICK a \in Nat, b \in Nat : a = Attempts(r) /\ b = Budgeted /\ a + 8 <= b
  BY AttemptsLeft
<1>3. CASE r.pc \in {"start", "lock", "bind", "hook", "write", "drain"}
  BY <1>2, <1>3, RankOf
<1>4. CASE r.pc \in {"stop_notify", "disconnecting"}
  BY <1>1, <1>2, <1>4, RankOf
<1>5. CASE r.pc \in {"establish", "settle", "notify", "aes_write", "aes_read",
                    "retry_sleep"}
  BY <1>2, <1>5, RankOf
<1> QED BY <1>1, <1>3, <1>4, <1>5

LEMMA OffRank == Rank(Off) = 0
  BY DEF Rank, Off

(* A step of t takes t down its ladder and leaves the other calls alone. *)
Descends(t) ==
  /\ Rank(task'[t]) \in 0 .. Rank(task[t]) - 1
  /\ \A u \in Task \ {t} : task'[u] = task[u]

LEMMA ExitDescends ==
  ASSUME TypeOK, NEW t \in Task, pc(t) # "off", Exit(t)
  PROVE  Descends(t)
<1>1. task[t] \in TaskState BY DEF TypeOK
<1>2. task'[t] = Off /\ \A u \in Task \ {t} : task'[u] = task[u]
  BY DEF Exit, TypeOK
<1>3. Rank(task[t]) \in 1 .. Budgeted + 15 BY <1>1, RankBounds DEF pc
<1>4. Budgeted \in Nat BY DEF Budgeted
<1> QED BY <1>2, <1>3, <1>4, OffRank DEF Descends

(* Where a call goes, its attempt stays: only its await changes.           *)
LEMMA Moved ==
  ASSUME TypeOK, NEW t \in Task, NEW p \in Pcs, Await(t, p) \/ Gatt(t, p)
  PROVE  /\ task'[t] \in TaskState
         /\ task'[t].pc = p
         /\ task'[t].then = task[t].then
         /\ Attempts(task'[t]) = Attempts(task[t])
         /\ \A u \in Task \ {t} : task'[u] = task[u]
<1>1. task' \in [Task -> TaskState] BY AwaitTyped
<1>2. /\ task'[t].pc = p /\ task'[t].then = task[t].then
      /\ task'[t].att = task[t].att
      /\ \A u \in Task \ {t} : task'[u] = task[u]
  BY DEF Await, Gatt, TypeOK, TaskState
<1> QED BY <1>1, <1>2 DEF Attempts

(* The look-up of _open starts a new budget of attempts.                   *)
LEMMA OpenDescends ==
  ASSUME TypeOK, NEW t \in Task, Rank(task[t]) >= Budgeted + 12,
         Rank(task[t]) \in Nat, pc(t) # "off", Open(t)
  PROVE  Descends(t)
<1>1. CASE Exit(t) BY <1>1, ExitDescends
<1>2. CASE task' = [task EXCEPT ![t].pc = "establish", ![t].on = None,
                                ![t].att = 1]
  <2>1. /\ task'[t].pc = "establish" /\ task'[t].att = 1
        /\ \A u \in Task \ {t} : task'[u] = task[u]
    BY <1>2 DEF TypeOK, TaskState
  <2>2. task'[t] \in TaskState
    BY OpenTyped
  <2>3. Rank(task'[t]) = Attempts(task'[t]) + 11
    BY <2>1, <2>2, RankOf
  <2>4. Attempts(task'[t]) \in Nat /\ Attempts(task'[t]) + 8 = Budgeted
    BY <2>1, <2>2, AttemptsLeft
  <2> QED BY <2>1, <2>3, <2>4 DEF Descends
<1> QED BY <1>1, <1>2 DEF Open

LEMMA WriteDescends ==
  ASSUME TypeOK, NEW t \in Task, Rank(task[t]) > 2, Rank(task[t]) \in Nat,
         pc(t) # "off", Write(t)
  PROVE  Descends(t)
<1>1. CASE Exit(t) BY <1>1, ExitDescends
<1>2. CASE Gatt(t, "write")
  <2>1. /\ task'[t] \in TaskState /\ task'[t].pc = "write"
        /\ \A u \in Task \ {t} : task'[u] = task[u]
    BY <1>2, Moved
  <2>2. Rank(task'[t]) = 2 BY <2>1, RankOf
  <2> QED BY <2>1, <2>2 DEF Descends
<1> QED BY <1>1, <1>2 DEF Write

(* What disconnect() returns to is below it.                               *)
LEMMA ResumeDescends ==
  ASSUME TypeOK, NEW t \in Task, NEW k \in {"retry", "reopen", "finish"},
         Resume(t, k), pc(t) # "off", Rank(task[t]) \in Nat,
         k = "retry" => Rank(task[t]) > Attempts(task[t]) + 4,
         k = "reopen" => Rank(task[t]) >= Budgeted + 12
  PROVE  Descends(t)
<1>1. CASE Exit(t) BY <1>1, ExitDescends
<1>2. CASE k = "reopen" /\ Open(t) BY <1>2, OpenDescends
<1>3. CASE k = "retry" /\ Await(t, "retry_sleep")
  <2>1. /\ task'[t] \in TaskState /\ task'[t].pc = "retry_sleep"
        /\ Attempts(task'[t]) = Attempts(task[t])
        /\ \A u \in Task \ {t} : task'[u] = task[u]
    BY <1>3, Moved
  <2>2. Rank(task'[t]) = Attempts(task'[t]) + 4 BY <2>1, RankOf
  <2>3. Attempts(task'[t]) \in Nat BY <2>1, AttemptsLeft
  <2> QED BY <1>3, <2>1, <2>2, <2>3 DEF Descends
<1> QED BY <1>1, <1>2, <1>3 DEF Resume

LEMMA DisconnectDescends ==
  ASSUME TypeOK, NEW t \in Task, NEW k \in {"retry", "reopen", "finish"},
         Disconnect(t, k), pc(t) # "off", Rank(task[t]) \in Nat,
         k = "retry" => Rank(task[t]) > Attempts(task[t]) + 6,
         k = "reopen" => Rank(task[t]) > Budgeted + 13,
         k = "finish" => Rank(task[t]) > 2
  PROVE  Descends(t)
<1>0. task[t] \in TaskState BY DEF TypeOK
<1>1. Attempts(task[t]) \in Nat /\ Budgeted \in Nat BY <1>0, AttemptsLeft
<1>2. CASE client = None
  BY <1>1, <1>2, ResumeDescends DEF Disconnect
<1>3. CASE client # None
  <2>1. /\ task'[t].pc = "stop_notify" /\ task'[t].then = k
        /\ task'[t].att = task[t].att
        /\ \A u \in Task \ {t} : task'[u] = task[u]
    BY <1>3 DEF Disconnect, TypeOK, TaskState
  <2>2. task'[t] \in TaskState BY DisconnectTyped DEF TypeOK
  <2>3. Attempts(task'[t]) = Attempts(task[t]) BY <2>1 DEF Attempts
  <2>4. /\ k = "reopen" => Rank(task'[t]) = Budgeted + 13
        /\ k = "retry" => Rank(task'[t]) = Attempts(task[t]) + 6
        /\ k = "finish" => Rank(task'[t]) = 2
    BY <2>1, <2>2, <2>3, RankOf
  <2>5. Rank(task'[t]) \in 0 .. Rank(task[t]) - 1
    BY <1>1, <2>4
  <2> QED BY <2>1, <2>5 DEF Descends
<1> QED BY <1>2, <1>3

LEMMA StepDescends ==
  ASSUME TypeOK, Budget, NEW t \in Task, Step(t)
  PROVE  Descends(t)
<1> DEFINE r == task[t]
<1>1. r \in TaskState /\ r.then \in {"retry", "reopen", "finish"}
  BY DEF TypeOK, TaskState
<1>2. /\ Attempts(r) \in Nat /\ Budgeted \in Nat
      /\ Attempts(r) + 8 <= Budgeted
  BY <1>1, AttemptsLeft
<1>3. r.pc # "off" => Rank(r) \in Nat BY <1>1, <1>2, RankBounds
<1> USE <1>1, <1>2, <1>3, RankOf DEF pc, kind, on
<1>4. CASE StartEnsure(t)
  BY <1>4, ExitDescends, OpenDescends DEF StartEnsure
<1>5. CASE StartDisconnect(t)
  BY <1>5, DisconnectDescends DEF StartDisconnect
<1>6. CASE EnterCold(t)
  BY <1>6, OpenDescends DEF EnterCold, HasLock
<1>7. CASE EnterPooled(t)
  <2>1. CASE Write(t) BY <1>7, <2>1, WriteDescends DEF EnterPooled, HasLock
  <2>2. CASE Gatt(t, "bind")
    BY <1>7, <2>2, Moved DEF EnterPooled, HasLock, Descends
  <2> QED BY <1>7, <2>1, <2>2 DEF EnterPooled
<1>8. CASE EnterIdleClose(t)
  BY <1>8, ExitDescends, DisconnectDescends DEF EnterIdleClose, HasLock
<1>9. CASE BindDone(t)
  BY <1>9, WriteDescends DEF BindDone
<1>10. CASE BindFails(t)
  BY <1>10, DisconnectDescends DEF BindFails
<1>11. CASE Written(t)
  BY <1>11, Moved DEF Written, Descends
<1>12. CASE WriteFails(t) \/ Drained(t) \/ HookFails(t)
  BY <1>12, ExitDescends DEF WriteFails, Drained, HookFails
<1>13. CASE Established(t)
  BY <1>13, Moved DEF Established, Descends
<1>14. CASE Settled(t) \/ Notified(t) \/ AesWritten(t)
  <2>1. CASE Exit(t)
    BY <1>14, <2>1, ExitDescends DEF Settled, Notified, AesWritten
  <2>2. CASE r.pc = "settle" /\ Gatt(t, "notify")
    BY <2>2, Moved DEF Descends
  <2>3. CASE r.pc = "notify" /\ Gatt(t, "aes_write")
    BY <2>3, Moved DEF Descends
  <2>4. CASE r.pc = "aes_write" /\ Gatt(t, "aes_read")
    BY <2>4, Moved DEF Descends
  <2> QED BY <1>14, <2>1, <2>2, <2>3, <2>4
       DEF Settled, Notified, AesWritten, NextGatt
<1>15. CASE Handshaken(t)
  <2>1. r.pc = "aes_read" BY <1>15 DEF Handshaken
  <2>2. CASE Exit(t) BY <2>1, <2>2, ExitDescends
  <2>3. CASE Await(t, "hook") BY <2>1, <2>3, Moved DEF Descends
  <2>4. CASE Gatt(t, "write") BY <2>1, <2>4, Moved DEF Descends
  <2> QED BY <1>15, <2>2, <2>3, <2>4 DEF Handshaken
<1>16. CASE AttemptFails(t)
  BY <1>16, DisconnectDescends DEF AttemptFails
<1>17. CASE RetrySlept(t)
  <2>1. /\ task'[t].pc = "establish" /\ task'[t].att = r.att + 1
        /\ r.pc = "retry_sleep"
        /\ \A u \in Task \ {t} : task'[u] = task[u]
    BY <1>17 DEF RetrySlept, TypeOK, TaskState
  <2>2. task'[t] \in TaskState
    <3>1. TypeOK' BY <1>17, NextTyped DEF Next, Step
    <3> QED BY <3>1 DEF TypeOK
  <2>3. r.att \in Nat /\ OPEN_MAX_ATTEMPTS \in Nat
    BY DEF TaskState
  <2>4. Attempts(task'[t]) + 8 = Attempts(r)
    BY <2>1, <2>3 DEF Attempts
  <2>5. Attempts(task'[t]) \in Nat BY <2>2, AttemptsLeft
  <2> QED BY <2>1, <2>2, <2>4, <2>5 DEF Descends
<1>18. CASE HookDone(t)
  BY <1>18, ExitDescends, WriteDescends DEF HookDone
<1>19. CASE NotifyStopped(t)
  <2>1. CASE Gatt(t, "disconnecting")
    BY <1>19, <2>1, Moved DEF NotifyStopped, Descends
  <2>2. CASE Resume(t, r.then)
    BY <1>19, <2>2, ResumeDescends DEF NotifyStopped
  <2> QED BY <1>19, <2>1, <2>2 DEF NotifyStopped
<1>20. CASE Disconnected(t)
  BY <1>20, ResumeDescends DEF Disconnected
<1> QED BY <1>4, <1>5, <1>6, <1>7, <1>8, <1>9, <1>10, <1>11, <1>12, <1>13,
         <1>14, <1>15, <1>16, <1>17, <1>18, <1>19, <1>20 DEF Step

(* A call takes at most Rank of its start steps of its own and no step     *)
(* starts it again, for every number of callers and every retry budget     *)
(* (connection.py 139-310, 379-485).                                       *)
THEOREM CallsAreBounded == Spec => CallsDescend
<1> DEFINE Down == \A t \in Task : pc(t) # "off" /\ task'[t] # task[t]
                     => Rank(task'[t]) \in 0 .. Rank(task[t]) - 1
<1>1. TypeOK /\ Budget /\ [Next]_vars => Down
  <2> SUFFICES ASSUME TypeOK, Budget, [Next]_vars PROVE Down
    OBVIOUS
  <2>1. ASSUME NEW t \in Task, Descends(t) PROVE Down
    BY <2>1 DEF Descends
  <2>2. ASSUME NEW t \in Task, task[t] = Off,
               \A u \in Task \ {t} : task'[u] = task[u]
        PROVE  Down
    BY <2>2 DEF Off, pc
  <2>3. ASSUME NEW t \in Task, Call(t) PROVE Down
    <3>1. CASE Cancel(t)
      BY <2>1, <3>1, ExitDescends DEF Cancel
    <3>2. CASE CallLocked(t) \/ CallUnlocked(t) \/ Heal(t)
      BY <2>2, <3>2 DEF CallLocked, CallUnlocked, Heal, Spawn, TypeOK
    <3> QED BY <2>3, <3>1, <3>2 DEF Call
  <2>4. ASSUME NEW t \in Task, IdleFires(t) PROVE Down
    BY <2>2, <2>4 DEF IdleFires, Spawn, TypeOK
  <2>5. ASSUME NEW t \in Task, Step(t) PROVE Down
    BY <2>1, <2>5, StepDescends
  <2>6. CASE UNCHANGED task BY <2>6
  <2>7. (\E t \in Task : Acquire(t)) \/ hold_open \/ release \/ expire_hold
           \/ LinkDrops \/ UNCHANGED vars
        => UNCHANGED task
    BY DEF Acquire, hold_open, release, expire_hold, Release, LinkDrops, vars
  <2> QED BY <2>3, <2>4, <2>5, <2>6, <2>7 DEF Next
<1>2. QED BY <1>1, TypeAndBudget, PTL DEF Spec, CallsDescend

-----------------------------------------------------------------------------
(* Whoever has the lock is a call that runs and came for it: with the      *)
(* ladder above, the lock comes back on every error path, after a          *)
(* cancellation too.                                                       *)
OwnerRuns == \A t \in Task : lock = t => pc(t) \notin {"off", "start"}

LEMMA NextOwnerRuns ==
  ASSUME TypeOK, OwnerRuns, [Next]_vars
  PROVE  OwnerRuns'
<1> USE DEF pc, kind, on, OwnerRuns, TypeOK, TaskState
<1>1. ASSUME NEW t \in Task, Call(t) PROVE OwnerRuns'
  <2>1. CASE CallLocked(t)
    BY <2>1 DEF CallLocked, Spawn, Off
  <2>2. CASE CallUnlocked(t)
    BY <2>2 DEF CallUnlocked, Spawn, Off
  <2>3. CASE Heal(t)
    BY <2>3 DEF Heal, Spawn, Off
  <2>4. CASE Cancel(t)
    BY <2>4 DEF Cancel, Exit, Off
  <2>5. QED BY <1>1, <2>1, <2>2, <2>3, <2>4 DEF Call
<1>2. ASSUME NEW t \in Task, IdleFires(t) PROVE OwnerRuns'
  BY <1>2 DEF IdleFires, Spawn, Off
<1>3. ASSUME NEW t \in Task, Acquire(t) PROVE OwnerRuns'
  BY <1>3 DEF Acquire
<1>4. ASSUME NEW t \in Task, Step(t) PROVE OwnerRuns'
  <2> USE DEF Exit, Off, Open, Await, Gatt, Write
  <2>1. CASE StartEnsure(t) \/ EnterCold(t) \/ EnterPooled(t)
    BY <2>1 DEF StartEnsure, EnterCold, EnterPooled, HasLock
  <2>2. CASE StartDisconnect(t) \/ EnterIdleClose(t)
    BY <2>2 DEF StartDisconnect, EnterIdleClose, HasLock, Disconnect, Resume
  <2>3. CASE BindFails(t) \/ AttemptFails(t)
    BY <2>3 DEF BindFails, AttemptFails, Disconnect, Resume
  <2>4. CASE BindDone(t) \/ Written(t) \/ WriteFails(t) \/ Drained(t)
    BY <2>4 DEF BindDone, Written, WriteFails, Drained
  <2>5. CASE Established(t) \/ Settled(t) \/ Notified(t) \/ AesWritten(t)
    BY <2>5 DEF Established, Settled, Notified, AesWritten, NextGatt
  <2>6. CASE Handshaken(t) \/ RetrySlept(t) \/ HookDone(t) \/ HookFails(t)
    BY <2>6 DEF Handshaken, RetrySlept, HookDone, HookFails
  <2>7. CASE NotifyStopped(t) \/ Disconnected(t)
    BY <2>7 DEF NotifyStopped, Disconnected, Resume
  <2> QED BY <1>4, <2>1, <2>2, <2>3, <2>4, <2>5, <2>6, <2>7 DEF Step
<1>5. CASE UNCHANGED <<task, lock>>
  BY <1>5
<1>6. hold_open \/ release \/ expire_hold \/ LinkDrops \/ UNCHANGED vars
        => UNCHANGED <<task, lock>>
  BY DEF hold_open, release, expire_hold, Release, LinkDrops, vars
<1> QED BY <1>1, <1>2, <1>3, <1>4, <1>5, <1>6 DEF Next

(* The lock is never left behind by a call that is over, in every          *)
(* environment (connection.py 212-310, 379-485).                           *)
THEOREM LockComesBack == Spec => []OwnerRuns
<1>1. Init => OwnerRuns BY DEF Init, OwnerRuns
<1> QED BY <1>1, NextOwnerRuns, TypeCorrect, PTL DEF Spec
=============================================================================
