--------------------------- MODULE HT25Device_proofs ---------------------------
(***************************************************************************)
(* Theorems about HT25Device, for every number of renewal tasks, cycles    *)
(* and notifications in flight.                                            *)
(***************************************************************************)
EXTENDS HT25Device, TLAPS

USE ConstantsAssumption

-----------------------------------------------------------------------------
(* The queue of notifications.  Without short frames it never holds one.   *)

Expected == IF ShortFrames THEN Messages ELSE Messages \ {"status_short"}

QueueOK == inflight \in Seq(Expected) /\ Len(inflight) <= MaxInFlight

LEMMA SentTyped ==
  ASSUME NEW q, q \in Seq(Expected), Len(q) <= MaxInFlight,
         NEW m \in Expected, NEW p, p \in Sent(q, m)
  PROVE  p \in Seq(Expected) /\ Len(p) <= MaxInFlight
<1>1. CASE p = q
  BY <1>1
<1>2. CASE Len(q) < MaxInFlight /\ p = Append(q, m)
  <2>1. Append(q, m) \in Seq(Expected) /\ Len(Append(q, m)) = Len(q) + 1
    OBVIOUS
  <2>2. Len(q) \in Nat /\ MaxInFlight \in Nat
    OBVIOUS
  <2>3. QED BY <1>2, <2>1, <2>2
<1>3. QED BY <1>1, <1>2 DEF Sent

LEMMA StatusTyped ==
  ASSUME NEW v
  PROVE  Status(v) \subseteq Expected
  BY DEF Status, Messages, Expected

LEMMA InitReplyTyped ==
  ASSUME QueueOK, NEW v, InitReply(v)
  PROVE  QueueOK'
<1>1. PICK m \in Status(v) : inflight' \in Sent(inflight, m)
  BY DEF InitReply
<1>2. m \in Expected
  BY StatusTyped
<1>3. QED BY <1>1, <1>2, SentTyped DEF QueueOK

LEMMA InitAndAckTyped ==
  ASSUME QueueOK, NEW v, NEW ack \in Expected, InitAndAck(v, ack)
  PROVE  QueueOK'
<1>1. PICK m \in Status(v) : inflight' \in SentBoth(inflight, m, ack)
  BY DEF InitAndAck
<1>2. PICK p \in Sent(inflight, m) : inflight' \in Sent(p, ack)
  BY <1>1 DEF SentBoth
<1>3. m \in Expected
  BY StatusTyped
<1>4. p \in Seq(Expected) /\ Len(p) <= MaxInFlight
  BY <1>3, SentTyped DEF QueueOK
<1>5. QED BY <1>2, <1>4, SentTyped DEF QueueOK

LEMMA EmptyTyped == inflight' = <<>> => QueueOK'
<1>1. <<>> \in Seq(Expected) /\ Len(<<>>) = 0
  OBVIOUS
<1>2. QED BY <1>1 DEF QueueOK

LEMMA TailTyped ==
  ASSUME QueueOK, inflight # <<>>, inflight' = Tail(inflight)
  PROVE  QueueOK' /\ Head(inflight) \in Expected
<1>1. /\ Tail(inflight) \in Seq(Expected)
      /\ Len(Tail(inflight)) = Len(inflight) - 1
      /\ Head(inflight) \in Expected
  BY DEF QueueOK
<1>2. Len(inflight) \in Nat
  BY DEF QueueOK
<1>3. QED BY <1>1, <1>2 DEF QueueOK

-----------------------------------------------------------------------------
(* Type correctness.  A sleeping renewal task has a cycle left, so the     *)
(* counter does not go below 0.                                            *)

SleepersHaveCycles == \A l \in Loop : loop[l].at = "sleep" => loop[l].left > 0

SessionOK == /\ open \in BOOLEAN /\ held \in BOOLEAN /\ expiry \in BOOLEAN
             /\ idle \in BOOLEAN /\ closing \in BOOLEAN

ValuesOK == /\ valve \in BOOLEAN
            /\ is_watering \in BOOLEAN /\ off \in {"none", "ahead", "past"}
            /\ enabled \in BOOLEAN /\ loaded \in BOOLEAN
            /\ overrun \in BOOLEAN

TasksOK == /\ api \in {"call", None} \cup Loop
           /\ call \in CallState
           /\ loop \in [Loop -> LoopState] /\ SleepersHaveCycles
           /\ flowTask \in Loop \cup {None}

TypeInv == SessionOK /\ QueueOK /\ ValuesOK /\ TasksOK

LEMMA SessionTyped ==
  ASSUME SessionOK,
         \/ Opens \/ Drops \/ Writes \/ Holds \/ Releases \/ Closes
         \/ UNCHANGED session
  PROVE  /\ open' \in BOOLEAN /\ held' \in BOOLEAN
         /\ expiry' \in BOOLEAN /\ idle' \in BOOLEAN
  BY DEF SessionOK, Opens, Drops, Writes, Holds, Releases, Closes, session, timer

LEMMA CancelFlowTyped ==
  ASSUME TasksOK, CancelFlow
  PROVE  /\ loop' \in [Loop -> LoopState] /\ SleepersHaveCycles'
         /\ flowTask' \in Loop \cup {None}
  BY DEF TasksOK, CancelFlow, SleepersHaveCycles, LoopState, Alive

LEMMA LoopEndsTyped ==
  ASSUME TypeInv, NEW l \in Loop, LoopEnds(l)
  PROVE  TypeInv'
<1>1. Gone \in LoopState
  BY DEF Gone, LoopState
<1>2. SessionOK'
  BY SessionTyped DEF TypeInv, LoopEnds, SessionOK
<1>3. QueueOK' /\ ValuesOK'
  BY DEF TypeInv, LoopEnds, QueueOK, ValuesOK, device, shown, entry
<1>4. TasksOK'
  BY <1>1 DEF TypeInv, LoopEnds, TasksOK, SleepersHaveCycles, Gone
<1>5. QED BY <1>2, <1>3, <1>4 DEF TypeInv

LEMMA CallsTyped ==
  ASSUME TypeInv, start_watering \/ stop_watering \/ _connect_refresh
  PROVE  TypeInv'
<1> USE DEF TypeInv
<1>1. SessionOK'
  BY SessionTyped DEF start_watering, stop_watering, _connect_refresh,
                      Disconnect, SessionOK
<1>2. QueueOK'
  BY EmptyTyped DEF start_watering, stop_watering, _connect_refresh,
                    Disconnect, QueueOK, device
<1>3. ValuesOK'
  BY DEF start_watering, stop_watering, _connect_refresh, ValuesOK, device,
         shown, entry
<1>4. TasksOK'
  BY DEF start_watering, stop_watering, _connect_refresh, Begins, TasksOK,
         SleepersHaveCycles, CallState
<1>5. QED BY <1>1, <1>2, <1>3, <1>4

LEMMA ReturnsTyped ==
  ASSUME TasksOK, NEW r \in {"true", "false", "raised"}, Returns(r)
  PROVE  call' \in CallState /\ api' \in {"call", None} \cup Loop
  BY DEF Returns, CallState

LEMMA TruthTyped == \A b : Truth(b) \in {"true", "false", "raised"}
  BY DEF Truth

LEMMA GoesTyped ==
  ASSUME TasksOK, NEW p, Goes(p),
         p \in {"write", "drain", "subscribe", "listen", "init", "hook"}
  PROVE  call' \in CallState /\ api' \in {"call", None} \cup Loop
  BY DEF Goes, TasksOK, CallState

LEMMA StepTyped ==
  ASSUME TypeInv, Step
  PROVE  TypeInv'
<1> USE DEF TypeInv
<1>1. CASE CommandWritten
  <2>1. SessionOK'
    BY <1>1, SessionTyped DEF CommandWritten, SessionOK
  <2>2. QueueOK'
    <3>1. {"start_ack", "stop_ack"} \subseteq Expected
      BY DEF Expected, Messages
    <3>2. QED BY <1>1, <3>1, InitReplyTyped, InitAndAckTyped DEF CommandWritten
  <2>3. ValuesOK'
    BY <1>1 DEF CommandWritten, ValuesOK, shown, entry
  <2>4. TasksOK'
    BY <1>1, GoesTyped DEF CommandWritten, TasksOK, SleepersHaveCycles
  <2>5. QED BY <2>1, <2>2, <2>3, <2>4
<1>2. CASE CommandSent
  <2>1. SessionOK'
    BY <1>2, SessionTyped DEF CommandSent, StartSent, StopSent, Disconnect,
                              SessionOK
  <2>2. QueueOK'
    BY <1>2, EmptyTyped DEF CommandSent, StartSent, StopSent, Disconnect,
                            QueueOK
  <2>3. ValuesOK'
    BY <1>2 DEF CommandSent, ValuesOK, shown, entry
  <2>4. TasksOK'
    <3>1. CASE StartSent
      BY <3>1, GoesTyped, ReturnsTyped, TruthTyped
         DEF StartSent, TasksOK, SleepersHaveCycles
    <3>2. CASE StopSent
      BY <3>2, CancelFlowTyped, ReturnsTyped, TruthTyped
         DEF StopSent, TasksOK
    <3>3. QED BY <1>2, <3>1, <3>2 DEF CommandSent
  <2>5. QED BY <2>1, <2>2, <2>3, <2>4
<1>3. CASE CommandFails
  <2>1. SessionOK'
    BY <1>3, SessionTyped DEF CommandFails, StartReturns, Disconnect, SessionOK
  <2>2. QueueOK'
    BY <1>3, EmptyTyped DEF CommandFails, StartReturns, Disconnect, QueueOK
  <2>3. ValuesOK'
    BY <1>3 DEF CommandFails, ValuesOK, shown, entry
  <2>4. TasksOK'
    BY <1>3, ReturnsTyped DEF CommandFails, StartReturns, TasksOK,
                              SleepersHaveCycles
  <2>5. QED BY <2>1, <2>2, <2>3, <2>4
<1>4. CASE SubscribeWritten
  <2>1. SessionOK'
    BY <1>4, SessionTyped DEF SubscribeWritten, Reach, SessionOK
  <2>2. QueueOK'
    BY <1>4, InitReplyTyped DEF SubscribeWritten, Reach, QueueOK
  <2>3. ValuesOK'
    BY <1>4 DEF SubscribeWritten, ValuesOK, shown, entry
  <2>4. TasksOK'
    BY <1>4, GoesTyped DEF SubscribeWritten, TasksOK, SleepersHaveCycles
  <2>5. QED BY <2>1, <2>2, <2>3, <2>4
<1>5. CASE Subscribed
  <2>1. SessionOK'
    BY <1>5, SessionTyped DEF Subscribed, Disconnect, SessionOK
  <2>2. QueueOK'
    BY <1>5, EmptyTyped DEF Subscribed, Disconnect, QueueOK
  <2>3. ValuesOK'
    BY <1>5 DEF Subscribed, ValuesOK, shown, entry
  <2>4. call' \in CallState /\ api' \in {"call", None} \cup Loop
    BY <1>5, ReturnsTyped, TruthTyped DEF Subscribed
  <2>5. TasksOK'
    <3>1. PICK l \in Loop, n \in 1 .. Cycles :
            /\ loop' = [loop EXCEPT ![l] = [at |-> "sleep", left |-> n]]
            /\ flowTask' = l
      BY <1>5 DEF Subscribed
    <3>2. [at |-> "sleep", left |-> n] \in LoopState /\ n > 0
      BY DEF LoopState
    <3>3. QED BY <2>4, <3>1, <3>2 DEF TasksOK, SleepersHaveCycles
  <2>6. QED BY <2>1, <2>2, <2>3, <2>5
<1>6. CASE SubscribeFails
  <2>1. SessionOK'
    BY <1>6, SessionTyped DEF SubscribeFails, StartReturns, Disconnect,
                              SessionOK
  <2>2. QueueOK'
    BY <1>6, EmptyTyped DEF SubscribeFails, StartReturns, Disconnect, QueueOK
  <2>3. ValuesOK'
    BY <1>6 DEF SubscribeFails, ValuesOK, shown, entry
  <2>4. TasksOK'
    <3>1. CASE CancelFlow /\ Disconnect /\ Returns(Truth(is_watering))
      BY <3>1, CancelFlowTyped, ReturnsTyped, TruthTyped DEF TasksOK
    <3>2. CASE StartReturns("raised")
      BY <3>2, ReturnsTyped DEF StartReturns, TasksOK, SleepersHaveCycles
    <3>3. QED BY <1>6, <3>1, <3>2 DEF SubscribeFails
  <2>5. QED BY <2>1, <2>2, <2>3, <2>4
<1>7. CASE Initialised
  <2>1. SessionOK'
    BY <1>7, SessionTyped DEF Initialised, SessionOK
  <2>2. QueueOK'
    BY <1>7, InitReplyTyped DEF Initialised
  <2>3. ValuesOK'
    BY <1>7 DEF Initialised, ValuesOK, shown, entry
  <2>4. TasksOK'
    BY <1>7, GoesTyped DEF Initialised, TasksOK, SleepersHaveCycles
  <2>5. QED BY <2>1, <2>2, <2>3, <2>4
<1>8. CASE RefreshEnds
  <2>1. SessionOK'
    BY <1>8, SessionTyped DEF RefreshEnds, Disconnect, SessionOK
  <2>2. QueueOK'
    BY <1>8, EmptyTyped DEF RefreshEnds, Disconnect
  <2>3. ValuesOK'
    BY <1>8 DEF RefreshEnds, ValuesOK, shown, entry
  <2>4. TasksOK'
    BY <1>8, ReturnsTyped DEF RefreshEnds, TasksOK, SleepersHaveCycles
  <2>5. QED BY <2>1, <2>2, <2>3, <2>4
<1>9. QED BY <1>1, <1>2, <1>3, <1>4, <1>5, <1>6, <1>7, <1>8 DEF Step

LEMMA LoopStepTyped ==
  ASSUME TypeInv, NEW l \in Loop, LoopStep(l)
  PROVE  TypeInv'
<1> USE DEF TypeInv
<1>1. CASE LoopSeesEnd(l) \/ LoopCancelled(l)
  BY <1>1, LoopEndsTyped DEF LoopSeesEnd, LoopCancelled
<1>2. CASE LoopWakes(l)
  <2>1. SessionOK' /\ QueueOK' /\ ValuesOK'
    BY <1>2 DEF LoopWakes, SessionOK, QueueOK, ValuesOK, session, timer,
                device, shown, entry
  <2>2. loop[l].left - 1 \in 0 .. Cycles
    BY <1>2 DEF LoopWakes, At, TasksOK, SleepersHaveCycles, LoopState
  <2>3. TasksOK'
    BY <1>2, <2>2 DEF LoopWakes, TasksOK, SleepersHaveCycles, LoopState
  <2>4. QED BY <2>1, <2>3
<1>3. ASSUME Again(l), SessionOK, TasksOK
      PROVE  /\ loop' \in [Loop -> LoopState] /\ SleepersHaveCycles'
             /\ held' \in BOOLEAN /\ expiry' \in BOOLEAN /\ idle' \in BOOLEAN
  <2>1. CASE loop[l].left > 0
    <3>1. loop' = [loop EXCEPT ![l].at = "sleep"] /\ UNCHANGED timer
      BY <1>3, <2>1 DEF Again
    <3>2. loop' \in [Loop -> LoopState]
      BY <1>3, <3>1 DEF TasksOK, LoopState
    <3>3. SleepersHaveCycles'
      BY <1>3, <2>1, <3>1 DEF TasksOK, LoopState, SleepersHaveCycles
    <3>4. QED BY <1>3, <3>1, <3>2, <3>3 DEF SessionOK, timer
  <2>2. CASE ~(loop[l].left > 0)
    <3>1. /\ loop' = [loop EXCEPT ![l] = Gone]
          /\ held' = FALSE /\ expiry' = FALSE /\ idle' = (idle \/ held)
      BY <1>3, <2>2 DEF Again
    <3>2. loop' \in [Loop -> LoopState] /\ SleepersHaveCycles'
      BY <1>3, <3>1 DEF TasksOK, LoopState, SleepersHaveCycles, Gone
    <3>3. held' \in BOOLEAN /\ expiry' \in BOOLEAN /\ idle' \in BOOLEAN
      BY <3>1
    <3>4. QED BY <3>2, <3>3
  <2>3. QED BY <2>1, <2>2
<1>4. CASE LockTimesOut(l)
  <2>1. SessionOK' /\ TasksOK'
    BY <1>3, <1>4 DEF LockTimesOut, SessionOK, TasksOK
  <2>2. QueueOK' /\ ValuesOK'
    BY <1>4 DEF LockTimesOut, QueueOK, ValuesOK, device, shown, entry
  <2>3. QED BY <2>1, <2>2
<1>5. CASE LoopAcquires(l)
  <2>1. CASE is_watering
    <3>1. SessionOK' /\ QueueOK' /\ ValuesOK'
      BY <1>5, <2>1 DEF LoopAcquires, SessionOK, QueueOK, ValuesOK, session,
                        timer, device, shown, entry
    <3>2. TasksOK'
      BY <1>5, <2>1 DEF LoopAcquires, LoopGoes, TasksOK, SleepersHaveCycles,
                        LoopState
    <3>3. QED BY <3>1, <3>2
  <2>2. CASE ~is_watering
    BY <1>5, <2>2, LoopEndsTyped DEF LoopAcquires
  <2>3. QED BY <2>1, <2>2
<1>6. CASE RenewWritten(l)
  <2>1. SessionOK'
    BY <1>6, SessionTyped DEF RenewWritten, Reach, SessionOK
  <2>2. QueueOK'
    BY <1>6, InitReplyTyped DEF RenewWritten, Reach, QueueOK
  <2>3. ValuesOK'
    BY <1>6 DEF RenewWritten, ValuesOK, shown, entry
  <2>4. TasksOK'
    BY <1>6 DEF RenewWritten, LoopGoes, TasksOK, SleepersHaveCycles, LoopState
  <2>5. QED BY <2>1, <2>2, <2>3, <2>4
<1>7. CASE Renewed(l)
  <2>1. SessionOK'
    BY <1>7 DEF Renewed, Writes, SessionOK
  <2>2. QueueOK' /\ ValuesOK'
    BY <1>7 DEF Renewed, QueueOK, ValuesOK, device, shown, entry
  <2>3. TasksOK'
    BY <1>7 DEF Renewed, LoopGoes, TasksOK, SleepersHaveCycles, LoopState, Gone
  <2>4. QED BY <2>1, <2>2, <2>3
<1>8. CASE RenewFails(l)
  <2>1. CASE LoopEnds(l)
    BY <2>1, LoopEndsTyped
  <2>2. CASE /\ api' = None /\ Again(l)
             /\ UNCHANGED <<open, device, closing, shown, call, flowTask, entry>>
    <3>1. SessionOK' /\ TasksOK'
      BY <1>3, <2>2 DEF SessionOK, TasksOK
    <3>2. QueueOK' /\ ValuesOK'
      BY <2>2 DEF QueueOK, ValuesOK, device, shown, entry
    <3>3. QED BY <3>1, <3>2
  <2>3. QED BY <1>8, <2>1, <2>2 DEF RenewFails
<1>9. QED BY <1>1, <1>2, <1>4, <1>5, <1>6, <1>7, <1>8 DEF LoopStep

LEMMA NotifiedTyped ==
  ASSUME TypeInv, Notified
  PROVE  TypeInv'
<1> USE DEF TypeInv
<1>1. QueueOK'
  BY TailTyped DEF Notified
<1>2. CASE /\ ShowsMessage(Head(inflight))
           /\ UNCHANGED <<session, loop, flowTask>>
  <2>1. SessionOK' /\ TasksOK'
    BY <1>2 DEF Notified, SessionOK, TasksOK, SleepersHaveCycles, session, timer
  <2>2. ValuesOK'
    BY <1>2 DEF Notified, ShowsMessage, StartAcked, StatusOn, Shows, ValuesOK,
                entry
  <2>3. QED BY <1>1, <2>1, <2>2
<1>3. CASE _end_gen1_flow /\ UNCHANGED shown
  <2>1. SessionOK'
    BY <1>3, SessionTyped DEF Notified, _end_gen1_flow, SessionOK
  <2>2. TasksOK'
    BY <1>3, CancelFlowTyped DEF Notified, _end_gen1_flow, TasksOK
  <2>3. ValuesOK'
    BY <1>3 DEF Notified, ValuesOK, shown, entry
  <2>4. QED BY <1>1, <2>1, <2>2, <2>3
<1>4. QED BY <1>2, <1>3 DEF Notified

LEMMA BetweenTyped ==
  ASSUME TypeInv,
         \/ AutoClose \/ TurnOn \/ TurnOff \/ async_unload
         \/ TimerFires \/ IdleCloses \/ HoldExpires \/ OffPasses
         \/ ValveTurns \/ LinkDrops \/ UNCHANGED vars
  PROVE  TypeInv'
<1> USE DEF TypeInv
<1>1. CASE AutoClose \/ TurnOff
  <2>1. SessionOK'
    BY <1>1, SessionTyped DEF AutoClose, TurnOff, _end_gen1_flow, SessionOK
  <2>2. QueueOK'
    BY <1>1 DEF AutoClose, TurnOff, QueueOK, device
  <2>3. ValuesOK'
    BY <1>1 DEF AutoClose, TurnOff, Shows, ValuesOK, device, shown, entry
  <2>4. TasksOK'
    BY <1>1, CancelFlowTyped DEF AutoClose, TurnOff, _end_gen1_flow, TasksOK
  <2>5. QED BY <2>1, <2>2, <2>3, <2>4
<1>2. CASE async_unload
  <2>1. SessionOK'
    BY <1>2, SessionTyped DEF async_unload, Disconnect, SessionOK
  <2>2. QueueOK'
    BY <1>2, EmptyTyped DEF async_unload, Disconnect
  <2>3. ValuesOK'
    BY <1>2 DEF async_unload, ValuesOK, shown
  <2>4. TasksOK'
    BY <1>2, CancelFlowTyped DEF async_unload, TasksOK
  <2>5. QED BY <2>1, <2>2, <2>3, <2>4
<1>3. CASE TurnOn \/ TimerFires \/ HoldExpires \/ OffPasses \/ UNCHANGED vars
  <2>1. SessionOK'
    BY <1>3, SessionTyped DEF TurnOn, TimerFires, HoldExpires, OffPasses, vars,
                              IdleFires, SessionOK, session, timer
  <2>2. QueueOK' /\ ValuesOK'
    BY <1>3 DEF TurnOn, TimerFires, HoldExpires, OffPasses, vars, QueueOK,
                ValuesOK, device, shown, entry
  <2>3. TasksOK'
    BY <1>3 DEF TurnOn, TimerFires, HoldExpires, OffPasses, vars, TasksOK,
                SleepersHaveCycles, tasks
  <2>4. QED BY <2>1, <2>2, <2>3
<1>4. CASE IdleCloses \/ LinkDrops
  <2>1. SessionOK'
    BY <1>4, SessionTyped DEF IdleCloses, LinkDrops, Disconnect, SessionOK
  <2>2. QueueOK'
    BY <1>4, EmptyTyped DEF IdleCloses, LinkDrops, Disconnect, QueueOK
  <2>3. ValuesOK' /\ TasksOK'
    BY <1>4 DEF IdleCloses, LinkDrops, ValuesOK, TasksOK, SleepersHaveCycles,
                shown, tasks, entry
  <2>4. QED BY <2>1, <2>2, <2>3
<1>5. CASE ValveTurns
  <2>1. SessionOK' /\ TasksOK'
    BY <1>5 DEF ValveTurns, SessionOK, TasksOK, SleepersHaveCycles, session,
                timer, tasks
  <2>2. ValuesOK'
    BY <1>5 DEF ValveTurns, ValuesOK, shown, entry
  <2>3. "run_end" \in Expected
    BY DEF Expected, Messages
  <2>4. QueueOK'
    BY <1>5, <2>3, InitReplyTyped, SentTyped DEF ValveTurns, QueueOK
  <2>5. QED BY <2>1, <2>2, <2>4
<1>6. QED BY <1>1, <1>2, <1>3, <1>4, <1>5

LEMMA TypeInvariant == Spec => []TypeInv
<1>1. Init => TypeInv
  <2> SUFFICES ASSUME Init PROVE TypeInv
    OBVIOUS
  <2>1. SessionOK /\ ValuesOK
    BY DEF Init, SessionInit, SessionOK, ValuesOK
  <2>2. QueueOK
    BY DEF Init, QueueOK
  <2>3. TasksOK
    BY DEF Init, TasksOK, CallState, LoopState, Gone, SleepersHaveCycles
  <2>4. QED BY <2>1, <2>2, <2>3 DEF TypeInv
<1>2. TypeInv /\ [Next]_vars => TypeInv'
  BY CallsTyped, StepTyped, LoopStepTyped, NotifiedTyped, BetweenTyped DEF Next
<1>3. QED BY <1>1, <1>2, PTL DEF Spec

(* Each variable always has its type, and no more notifications are on     *)
(* their way than the bound (ht25.py 167-228, 270-324, 538-596).           *)
THEOREM TypeCorrect == Spec => []TypeOK
<1>1. TypeInv => TypeOK
  <2>1. Seq(Expected) \subseteq Seq(Messages)
    BY DEF Expected
  <2>2. QED BY <2>1 DEF TypeInv, SessionOK, QueueOK, ValuesOK, TasksOK, TypeOK
<1>2. QED BY <1>1, TypeInvariant, PTL

-----------------------------------------------------------------------------
(* _api_lock.  Whoever talks to the device is its owner.                   *)

LockInv ==
  /\ \A l \in Loop : loop[l].at \in {"send", "drain"} => api = l
  /\ call.op # "none" => api = "call"
  /\ call.at # "-" => call.op # "none"
  /\ call.at \in {"subscribe", "listen"} => call.op = "start"

LEMMA CallBegins ==
  ASSUME TypeInv, start_watering \/ stop_watering \/ _connect_refresh
  PROVE  /\ api = None /\ api' = "call" /\ call'.op # "none"
         /\ call'.at \in {"write", "init"} /\ UNCHANGED loop
<1>1. PICK o \in {"start", "stop", "sync"}, p \in {"write", "init"} :
        Begins(o, p) /\ UNCHANGED loop
  <2>1. CASE start_watering BY <2>1 DEF start_watering
  <2>2. CASE stop_watering BY <2>2 DEF stop_watering
  <2>3. CASE _connect_refresh BY <2>3 DEF _connect_refresh
  <2>4. QED BY <2>1, <2>2, <2>3
<1>2. call \in CallState BY DEF TypeInv, TasksOK
<1>3. api = None /\ api' = "call" /\ UNCHANGED loop BY <1>1 DEF Begins
<1>4. call'.op = o /\ call'.at = p BY <1>1, <1>2 DEF Begins, CallState
<1>5. QED BY <1>1, <1>3, <1>4

LEMMA CallKeepsLock ==
  ASSUME TypeInv, LockInv,
         start_watering \/ stop_watering \/ _connect_refresh \/ Step
  PROVE  LockInv'
<1> USE DEF TypeInv, TasksOK, LockInv
<1>1. CASE start_watering \/ stop_watering \/ _connect_refresh
  <2>1. /\ api = None /\ api' = "call" /\ call'.op # "none"
        /\ call'.at \in {"write", "init"} /\ UNCHANGED loop
    BY <1>1, CallBegins
  <2>2. \A l \in Loop : loop[l].at \notin {"send", "drain"}
    BY <2>1
  <2>3. QED BY <2>1, <2>2
<1>2. CASE CommandWritten \/ SubscribeWritten \/ Initialised
  BY <1>2 DEF CommandWritten, SubscribeWritten, Initialised, Goes, CallState
<1>3. CASE CommandSent
  <2>1. CASE StartSent
    BY <1>3, <2>1 DEF StartSent, CommandSent, Goes, Returns, CallState
  <2>2. CASE StopSent
    BY <1>3, <2>2 DEF StopSent, CommandSent, Returns, CancelFlow, CallState,
                      LoopState, Alive
  <2>3. QED BY <1>3, <2>1, <2>2 DEF CommandSent
<1>4. CASE CommandFails \/ RefreshEnds
  BY <1>4 DEF CommandFails, RefreshEnds, StartReturns, Returns, CallState
<1>5. CASE Subscribed
  <2>1. api = "call" /\ api' = None /\ call'.op = "none" /\ call'.at = "-"
    BY <1>5 DEF Subscribed, Returns
  <2>2. \A l \in Loop : loop[l].at \notin {"send", "drain"}
    BY <2>1
  <2>3. \A l \in Loop : loop'[l].at \notin {"send", "drain"}
    BY <1>5, <2>2 DEF Subscribed
  <2>4. QED BY <2>1, <2>3
<1>6. CASE SubscribeFails
  BY <1>6 DEF SubscribeFails, StartReturns, Returns, CancelFlow, CallState,
              LoopState, Alive
<1>7. QED BY <1>1, <1>2, <1>3, <1>4, <1>5, <1>6 DEF Step

LEMMA LoopKeepsLock ==
  ASSUME TypeInv, LockInv, NEW k \in Loop, LoopStep(k)
  PROVE  LockInv'
<1> USE DEF TypeInv, TasksOK, LockInv
<1>1. ASSUME LoopEnds(k) PROVE LockInv'
  BY <1>1 DEF LoopEnds, Gone
<1>2. CASE LoopSeesEnd(k) \/ LoopCancelled(k)
  BY <1>1, <1>2 DEF LoopSeesEnd, LoopCancelled
<1>3. CASE LoopWakes(k) \/ RenewWritten(k)
  BY <1>3 DEF LoopWakes, RenewWritten, LoopGoes, LoopState, At
<1>4. ASSUME Again(k) PROVE /\ loop'[k].at \notin {"send", "drain"}
                            /\ \A l \in Loop \ {k} : loop'[l] = loop[l]
  BY <1>4 DEF Again, Gone, LoopState
<1>5. CASE LockTimesOut(k)
  BY <1>4, <1>5 DEF LockTimesOut
<1>6. CASE LoopAcquires(k)
  <2>1. CASE ~is_watering
    BY <1>1, <1>6, <2>1 DEF LoopAcquires
  <2>2. CASE is_watering
    <3>1. /\ loop[k].at = "lock" /\ api = None /\ api' = k
          /\ loop' = [loop EXCEPT ![k].at = "send"] /\ call' = call
      BY <1>6, <2>2 DEF LoopAcquires, LoopGoes, At
    <3>2. \A l \in Loop : loop[l].at \notin {"send", "drain"}
      BY <3>1, ConstantsAssumption
    <3>3. call.op = "none"
      BY <3>1, ConstantsAssumption
    <3>4. \A l \in Loop : l # k => loop'[l] = loop[l]
      BY <3>1
    <3>5. \A l \in Loop : loop'[l].at \in {"send", "drain"} => l = k
      BY <3>2, <3>4
    <3>6. QED BY <3>1, <3>3, <3>5
  <2>3. QED BY <2>1, <2>2
<1>7. CASE Renewed(k)
  BY <1>7 DEF Renewed, LoopGoes, LoopState, At, Gone
<1>8. CASE RenewFails(k)
  BY <1>1, <1>4, <1>8 DEF RenewFails
<1>9. QED BY <1>2, <1>3, <1>5, <1>6, <1>7, <1>8 DEF LoopStep

LEMMA OthersKeepLock ==
  ASSUME TypeInv, LockInv,
         \/ Notified \/ AutoClose \/ TurnOn \/ TurnOff \/ async_unload
         \/ TimerFires \/ IdleCloses \/ HoldExpires \/ OffPasses
         \/ ValveTurns \/ LinkDrops \/ UNCHANGED vars
  PROVE  LockInv'
<1> USE DEF TypeInv, TasksOK, LockInv
<1>1. ASSUME UNCHANGED <<api, call>>, CancelFlow \/ UNCHANGED loop
      PROVE  LockInv'
  BY <1>1 DEF CancelFlow, LoopState, Alive
<1>2. UNCHANGED <<api, call>> /\ (CancelFlow \/ UNCHANGED loop)
  BY DEF Notified, AutoClose, TurnOn, TurnOff, async_unload, TimerFires,
         IdleCloses, HoldExpires, OffPasses, ValveTurns, LinkDrops, vars,
         tasks, _end_gen1_flow
<1>3. QED BY <1>1, <1>2

(* A renewal writes only inside _api_lock and beside no call (ht25.py      *)
(* 273-276, 548-563).                                                      *)
THEOREM ExchangesAreExclusive == Spec => []RadioIsExclusive
<1>1. Init => LockInv
  BY DEF Init, LockInv, Gone
<1>2. TypeInv /\ LockInv /\ [Next]_vars => LockInv'
  BY CallKeepsLock, LoopKeepsLock, OthersKeepLock DEF Next
<1>3. LockInv => RadioIsExclusive
  BY DEF LockInv, RadioIsExclusive
<1>4. QED BY <1>1, <1>2, <1>3, TypeInvariant, PTL DEF Spec

-----------------------------------------------------------------------------
(* The off timer.  Where no STATUS frame is short, every message that      *)
(* shows a run arms it.                                                    *)

LEMMA NextKeepsTimed ==
  ASSUME ~ShortFrames, TypeInv, ShownIsTimed, [Next]_vars
  PROVE  ShownIsTimed'
<1> USE DEF ShownIsTimed
<1>1. CASE UNCHANGED shown
  BY <1>1 DEF shown
<1>2. CASE Notified
  <2>1. inflight # <<>> => Head(inflight) \in Expected
    BY DEF TypeInv, QueueOK
  <2>2. Head(inflight) # "status_short"
    BY <1>2, <2>1 DEF Expected, Notified
  <2>3. QED BY <1>2, <2>2 DEF Notified, ShowsMessage, StartAcked, StatusOn,
                              Shows, shown
<1>3. CASE AutoClose \/ OffPasses
  BY <1>3 DEF AutoClose, OffPasses, Shows
<1>4. ASSUME NEW l \in Loop, LoopStep(l) PROVE UNCHANGED shown
  BY <1>4 DEF LoopStep, LoopWakes, LoopSeesEnd, LockTimesOut, LoopAcquires,
              RenewWritten, Renewed, RenewFails, LoopCancelled, LoopEnds
<1>5. ASSUME Step PROVE UNCHANGED shown
  BY <1>5 DEF Step, CommandWritten, CommandSent, CommandFails,
              SubscribeWritten, Subscribed, SubscribeFails, Initialised,
              RefreshEnds
<1>6. CASE \/ start_watering \/ stop_watering \/ _connect_refresh
           \/ TurnOn \/ TurnOff \/ async_unload \/ TimerFires \/ IdleCloses
           \/ HoldExpires \/ ValveTurns \/ LinkDrops \/ UNCHANGED vars
  <2>1. UNCHANGED shown
    BY <1>6 DEF start_watering, stop_watering, _connect_refresh, TurnOn,
                TurnOff, async_unload, TimerFires, IdleCloses, HoldExpires,
                ValveTurns, LinkDrops, vars
  <2>2. QED BY <1>1, <2>1
<1>7. QED BY <1>1, <1>2, <1>3, <1>4, <1>5, <1>6 DEF Next

(* A run that is shown has an off timer, if no STATUS frame comes without  *)
(* its countdown (ht25.py 206-218, base.py 422-488).                       *)
THEOREM ShownRunIsTimed == ~ShortFrames => (Spec => []ShownIsTimed)
<1> SUFFICES ASSUME ~ShortFrames PROVE Spec => []ShownIsTimed
  OBVIOUS
<1>1. Init => ShownIsTimed
  BY DEF Init, ShownIsTimed
<1>2. TypeInv /\ ShownIsTimed /\ [Next]_vars => ShownIsTimed'
  BY NextKeepsTimed
<1>3. QED BY <1>1, <1>2, TypeInvariant, PTL DEF Spec

-----------------------------------------------------------------------------
(* The renewal task.  Until a run is measured over one that still is, the  *)
(* only live task is the one that _end_gen1_flow would cancel.             *)

CallInv ==
  /\ call.op = "none" => call.at = "-"
  /\ call.at \in {"subscribe", "listen"} => call.op = "start"
  /\ call.at \in {"init", "hook"} => call.op = "sync"

TaskInv == CallInv /\ OneRenewal

LEMMA CancelFlowKillsAll ==
  ASSUME TypeInv, TaskInv, CancelFlow
  PROVE  overrun \/ \A l \in Loop : ~Alive(l)'
BY DEF TypeInv, TasksOK, TaskInv, OneRenewal, CancelFlow, Alive, LoopState

LEMMA CallKeepsTask ==
  ASSUME TypeInv, TaskInv,
         start_watering \/ stop_watering \/ _connect_refresh \/ Step
  PROVE  TaskInv'
<1> USE DEF TypeInv, TasksOK, TaskInv, CallInv, OneRenewal, Alive, entry
<1>1. CASE start_watering \/ stop_watering \/ _connect_refresh
  BY <1>1 DEF start_watering, stop_watering, _connect_refresh, Begins, CallState
<1>2. CASE CommandWritten \/ SubscribeWritten \/ Initialised
  BY <1>2 DEF CommandWritten, SubscribeWritten, Initialised, Goes, CallState
<1>3. CASE RefreshEnds
  BY <1>3 DEF RefreshEnds, Returns, CallState
<1>4. CASE CommandSent
  <2>1. CASE StartSent
    BY <1>4, <2>1 DEF CommandSent, StartSent, Goes, Returns, CallState
  <2>2. CASE StopSent
    BY <1>4, <2>2, CancelFlowKillsAll DEF CommandSent, StopSent, Returns
  <2>3. QED BY <1>4, <2>1, <2>2 DEF CommandSent
<1>5. CASE CommandFails
  BY <1>5 DEF CommandFails, StartReturns, Returns, CallState
<1>6. CASE Subscribed
  <2>1. overrun' \/ \A l \in Loop : ~Alive(l)
    BY <1>6 DEF Subscribed
  <2>2. PICK k \in Loop : /\ flowTask' = k
                         /\ \A l \in Loop \ {k} : loop'[l] = loop[l]
    BY <1>6 DEF Subscribed
  <2>3. overrun' \/ \A l \in Loop : Alive(l)' => l = k
    BY <2>1, <2>2
  <2>4. QED BY <1>6, <2>2, <2>3 DEF Subscribed, Returns
<1>7. CASE SubscribeFails
  <2>1. CASE CancelFlow /\ Returns(Truth(is_watering))
    BY <1>7, <2>1, CancelFlowKillsAll DEF SubscribeFails, Returns
  <2>2. CASE StartReturns("raised")
    BY <1>7, <2>2 DEF SubscribeFails, StartReturns, Returns
  <2>3. QED BY <1>7, <2>1, <2>2 DEF SubscribeFails
<1>8. QED BY <1>1, <1>2, <1>3, <1>4, <1>5, <1>6, <1>7 DEF Step

(* A task's own steps start no other and do not revive it.                 *)
LEMMA LoopKeepsTask ==
  ASSUME TypeInv, TaskInv, NEW k \in Loop, LoopStep(k)
  PROVE  TaskInv'
<1> USE DEF TypeInv, TasksOK, TaskInv, CallInv, OneRenewal, Alive, entry
<1>1. /\ UNCHANGED <<call, flowTask, overrun>>
      /\ \A l \in Loop \ {k} : loop'[l] = loop[l]
      /\ loop'[k].at # "off" => Alive(k)
  <2>1. ASSUME LoopEnds(k) PROVE <1>1!:
    BY <2>1 DEF LoopEnds, Gone
  <2>2. CASE LoopSeesEnd(k) \/ LoopCancelled(k)
    BY <2>1, <2>2 DEF LoopSeesEnd, LoopCancelled
  <2>3. CASE LoopWakes(k) \/ RenewWritten(k)
    BY <2>3 DEF LoopWakes, RenewWritten, LoopGoes, At
  <2>4. CASE LockTimesOut(k)
    BY <2>4 DEF LockTimesOut, Again, Gone, At
  <2>5. CASE LoopAcquires(k)
    BY <2>1, <2>5 DEF LoopAcquires, LoopGoes, At
  <2>6. CASE Renewed(k)
    BY <2>6 DEF Renewed, LoopGoes, At, Gone
  <2>7. CASE RenewFails(k)
    BY <2>1, <2>7 DEF RenewFails, Again, Gone
  <2>8. QED BY <2>2, <2>3, <2>4, <2>5, <2>6, <2>7 DEF LoopStep
<1>2. QED BY <1>1

LEMMA OthersKeepTask ==
  ASSUME TypeInv, TaskInv,
         \/ Notified \/ AutoClose \/ TurnOn \/ TurnOff \/ async_unload
         \/ TimerFires \/ IdleCloses \/ HoldExpires \/ OffPasses
         \/ ValveTurns \/ LinkDrops \/ UNCHANGED vars
  PROVE  TaskInv'
<1> USE DEF TaskInv, CallInv, OneRenewal, Alive, entry
<1>1. /\ UNCHANGED <<call, overrun>>
      /\ CancelFlow \/ UNCHANGED <<loop, flowTask>>
  BY DEF Notified, AutoClose, TurnOn, TurnOff, async_unload, TimerFires,
         IdleCloses, HoldExpires, OffPasses, ValveTurns, LinkDrops, vars,
         tasks, _end_gen1_flow
<1>2. QED BY <1>1, CancelFlowKillsAll

LEMMA TaskInvariant == Spec => []TaskInv
<1>1. Init => TaskInv
  BY DEF Init, TaskInv, CallInv, OneRenewal, Alive, Gone
<1>2. TypeInv /\ TaskInv /\ [Next]_vars => TaskInv'
  BY CallKeepsTask, LoopKeepsTask, OthersKeepTask DEF Next
<1>3. QED BY <1>1, <1>2, TypeInvariant, PTL DEF Spec

(* Until a run is measured over one that still is, no renewal task runs    *)
(* that _end_gen1_flow could not cancel (ht25.py 534-536, 571-587).        *)
THEOREM OneRenewalTask == Spec => []OneRenewal
<1>1. TaskInv => OneRenewal
  BY DEF TaskInv
<1>2. QED BY <1>1, TaskInvariant, PTL

(* A stop that went through has closed the session and left no renewal     *)
(* task, whichever way the switch stood (ht25.py 303-324).                 *)
THEOREM StopsEndMeasuring == Spec => StopEndsMeasuring
<1> DEFINE Ended == ~open' /\ ~held' /\ (overrun \/ \A l \in Loop : ~Alive(l)')
<1>1. ASSUME TypeInv, TaskInv, [Next]_vars,
             call.op = "stop", call'.op = "none", call'.result # "raised"
      PROVE  Ended
  <2>1. StopSent
    <3>1. Step
      BY <1>1 DEF Next, start_watering, stop_watering, _connect_refresh, Begins,
                  LoopStep, LoopWakes, LoopSeesEnd, LockTimesOut, LoopAcquires,
                  RenewWritten, Renewed, RenewFails, LoopCancelled, LoopEnds,
                  Notified, AutoClose, TurnOn, TurnOff, async_unload,
                  TimerFires, IdleCloses, HoldExpires, OffPasses, ValveTurns,
                  LinkDrops, vars, tasks
    <3>2. ~(CommandWritten \/ SubscribeWritten \/ Initialised)
      BY <1>1 DEF CommandWritten, SubscribeWritten, Initialised, Goes,
                  TypeInv, TasksOK, CallState
    <3>3. ~(Subscribed \/ SubscribeFails \/ RefreshEnds)
      BY <1>1 DEF Subscribed, SubscribeFails, RefreshEnds, TaskInv, CallInv
    <3>4. ~CommandFails
      BY <1>1 DEF CommandFails, StartReturns, Returns
    <3>5. QED BY <1>1, <3>1, <3>2, <3>3, <3>4 DEF Step, CommandSent, StartSent
  <2>2. overrun \/ \A l \in Loop : ~Alive(l)'
    BY <1>1, <2>1, CancelFlowKillsAll DEF StopSent
  <2>3. QED BY <2>1, <2>2 DEF StopSent, Disconnect, Closes
<1>2. TypeInv /\ TaskInv /\ [Next]_vars
        => [call.op = "stop" /\ call'.op = "none" /\ call'.result # "raised"
              => Ended]_vars
  BY <1>1
<1>3. QED BY <1>2, TaskInvariant, TypeInvariant, PTL DEF Spec, StopEndsMeasuring

-----------------------------------------------------------------------------
(* The safety half of MeasuringEnds: what a renewal task has left.  A      *)
(* cycle is the sleep, the wait for _api_lock, the write and its drain.    *)
LoopStepsLeft(r) ==
  CASE r.at = "lock"      -> 5 * r.left + 5
    [] r.at = "send"      -> 5 * r.left + 4
    [] r.at = "drain"     -> 5 * r.left + 3
    [] r.at = "sleep"     -> 5 * r.left + 2
    [] r.at = "cancelled" -> 1
    [] OTHER              -> 0

(* Nothing prolongs a renewal task, whatever times out, fails, is shown or *)
(* is cancelled: each of its steps brings it nearer to its end, and a      *)
(* cycle that was skipped counts (ht25.py 541-588).                        *)
RenewalsDescend ==
  [][\A l \in Loop : loop[l].at # "off" /\ loop'[l] # loop[l]
       => LoopStepsLeft(loop'[l]) \in 0 .. LoopStepsLeft(loop[l]) - 1]_vars

LEMMA LeftOf ==
  ASSUME NEW r \in LoopState
  PROVE  /\ r.left \in Nat
         /\ r.at = "lock" => LoopStepsLeft(r) = 5 * r.left + 5
         /\ r.at = "send" => LoopStepsLeft(r) = 5 * r.left + 4
         /\ r.at = "drain" => LoopStepsLeft(r) = 5 * r.left + 3
         /\ r.at = "sleep" => LoopStepsLeft(r) = 5 * r.left + 2
         /\ r.at = "cancelled" => LoopStepsLeft(r) = 1
         /\ r.at = "off" => LoopStepsLeft(r) = 0
<1>1. r.at = "lock" => LoopStepsLeft(r) = 5 * r.left + 5 BY DEF LoopStepsLeft
<1>2. r.at = "send" => LoopStepsLeft(r) = 5 * r.left + 4 BY DEF LoopStepsLeft
<1>3. r.at = "drain" => LoopStepsLeft(r) = 5 * r.left + 3 BY DEF LoopStepsLeft
<1>4. r.at = "sleep" => LoopStepsLeft(r) = 5 * r.left + 2 BY DEF LoopStepsLeft
<1>5. r.at = "cancelled" => LoopStepsLeft(r) = 1 BY DEF LoopStepsLeft
<1>6. r.at = "off" => LoopStepsLeft(r) = 0 BY DEF LoopStepsLeft
<1> QED BY <1>1, <1>2, <1>3, <1>4, <1>5, <1>6 DEF LoopState

Nearer(s, r) == LoopStepsLeft(s) \in 0 .. LoopStepsLeft(r) - 1

(* The ends of a task, and the ways from one await of a cycle to the next. *)
LEMMA NearerCases ==
  ASSUME NEW r \in LoopState, NEW s \in LoopState,
         \/ s.at = "off" /\ r.at # "off"
         \/ s.at = "cancelled" /\ r.at \notin {"off", "cancelled"}
         \/ /\ s.left = r.left
            /\ \/ s.at = "send" /\ r.at = "lock"
               \/ s.at = "drain" /\ r.at = "send"
               \/ s.at = "sleep" /\ r.at \in {"lock", "send", "drain"}
         \/ s.left = r.left - 1 /\ s.at = "lock" /\ r.at = "sleep"
  PROVE  Nearer(s, r)
<1>1. PICK m \in Nat, n \in Nat : m = s.left /\ n = r.left
  BY LeftOf
<1>2. r.at \in {"off", "sleep", "lock", "send", "drain", "cancelled"}
  BY DEF LoopState
<1>3. r.at # "off" => LoopStepsLeft(r) \in Nat /\ LoopStepsLeft(r) >= 1
  BY <1>1, <1>2, LeftOf
<1>4. r.at \notin {"off", "cancelled"} => LoopStepsLeft(r) >= 2
  BY <1>1, <1>2, LeftOf
<1>5. CASE s.at = "off" /\ r.at # "off"
  BY <1>3, <1>5, LeftOf DEF Nearer
<1>6. CASE s.at = "cancelled" /\ r.at \notin {"off", "cancelled"}
  BY <1>3, <1>4, <1>6, LeftOf DEF Nearer
<1>7. /\ s.at = "lock" => LoopStepsLeft(s) = 5 * m + 5
      /\ s.at = "send" => LoopStepsLeft(s) = 5 * m + 4
      /\ s.at = "drain" => LoopStepsLeft(s) = 5 * m + 3
      /\ s.at = "sleep" => LoopStepsLeft(s) = 5 * m + 2
  BY <1>1, LeftOf
<1>8. /\ r.at = "lock" => LoopStepsLeft(r) = 5 * n + 5
      /\ r.at = "send" => LoopStepsLeft(r) = 5 * n + 4
      /\ r.at = "drain" => LoopStepsLeft(r) = 5 * n + 3
      /\ r.at = "sleep" => LoopStepsLeft(r) = 5 * n + 2
  BY <1>1, LeftOf
<1>9. CASE /\ m = n
           /\ \/ s.at = "send" /\ r.at = "lock"
              \/ s.at = "drain" /\ r.at = "send"
              \/ s.at = "sleep" /\ r.at \in {"lock", "send", "drain"}
  BY <1>7, <1>8, <1>9 DEF Nearer
<1>10. CASE m = n - 1 /\ s.at = "lock" /\ r.at = "sleep"
  BY <1>7, <1>8, <1>10 DEF Nearer
<1> QED BY <1>1, <1>5, <1>6, <1>9, <1>10

(* A task's own step, from the type of what it was and what it becomes.    *)
LEMMA LoopStepNearer ==
  ASSUME TypeInv, NEW k \in Loop, LoopStep(k)
  PROVE  /\ Nearer(loop'[k], loop[k])
         /\ \A l \in Loop \ {k} : loop'[l] = loop[l]
<1>1. TypeInv' BY LoopStepTyped
<1>2. loop[k] \in LoopState /\ loop'[k] \in LoopState
  BY <1>1 DEF TypeInv, TasksOK
<1> USE DEF TypeInv, TasksOK, LoopState
<1>3. ASSUME LoopEnds(k), loop[k].at # "off"
      PROVE  /\ Nearer(loop'[k], loop[k])
             /\ \A l \in Loop \ {k} : loop'[l] = loop[l]
  BY <1>2, <1>3, NearerCases DEF LoopEnds, Gone
<1>4. ASSUME Again(k), loop[k].at \in {"lock", "send", "drain"}
      PROVE  /\ Nearer(loop'[k], loop[k])
             /\ \A l \in Loop \ {k} : loop'[l] = loop[l]
  <2>1. /\ \A l \in Loop \ {k} : loop'[l] = loop[l]
        /\ \/ loop'[k].at = "sleep" /\ loop'[k].left = loop[k].left
           \/ loop'[k].at = "off"
    BY <1>4 DEF Again, Gone
  <2> QED BY <1>2, <1>4, <2>1, NearerCases
<1>5. CASE LoopSeesEnd(k) \/ LoopCancelled(k)
  BY <1>3, <1>5 DEF LoopSeesEnd, LoopCancelled, At
<1>6. CASE LoopWakes(k)
  <2>1. /\ loop[k].at = "sleep" /\ loop'[k].at = "lock"
        /\ loop'[k].left = loop[k].left - 1
        /\ \A l \in Loop \ {k} : loop'[l] = loop[l]
    BY <1>6 DEF LoopWakes, At
  <2> QED BY <1>2, <2>1, NearerCases
<1>7. CASE LockTimesOut(k)
  BY <1>4, <1>7 DEF LockTimesOut, At
<1>8. CASE LoopAcquires(k)
  <2>1. CASE LoopEnds(k) BY <1>3, <1>8, <2>1 DEF LoopAcquires, At
  <2>2. CASE LoopGoes(k, "send")
    <3>1. /\ loop[k].at = "lock" /\ loop'[k].at = "send"
          /\ loop'[k].left = loop[k].left
          /\ \A l \in Loop \ {k} : loop'[l] = loop[l]
      BY <1>8, <2>2 DEF LoopAcquires, LoopGoes, At
    <3> QED BY <1>2, <3>1, NearerCases
  <2> QED BY <1>8, <2>1, <2>2 DEF LoopAcquires
<1>9. CASE RenewWritten(k)
  <2>1. /\ loop[k].at = "send" /\ loop'[k].at = "drain"
        /\ loop'[k].left = loop[k].left
        /\ \A l \in Loop \ {k} : loop'[l] = loop[l]
    BY <1>9 DEF RenewWritten, LoopGoes, At
  <2> QED BY <1>2, <2>1, NearerCases
<1>10. CASE Renewed(k)
  <2>1. /\ loop[k].at = "drain"
        /\ \/ loop'[k].at = "sleep" /\ loop'[k].left = loop[k].left
           \/ loop'[k].at = "off"
        /\ \A l \in Loop \ {k} : loop'[l] = loop[l]
    BY <1>10 DEF Renewed, LoopGoes, Gone, At
  <2> QED BY <1>2, <2>1, NearerCases
<1>11. CASE RenewFails(k)
  BY <1>3, <1>4, <1>11 DEF RenewFails
<1> QED BY <1>5, <1>6, <1>7, <1>8, <1>9, <1>10, <1>11 DEF LoopStep

(* A renewal task takes at most LoopStepsLeft more steps, for every number *)
(* of tasks and of cycles (ht25.py 541-588).                               *)
THEOREM RenewalsAreBounded == Spec => RenewalsDescend
<1> DEFINE Down == \A l \in Loop : loop[l].at # "off" /\ loop'[l] # loop[l]
              => LoopStepsLeft(loop'[l]) \in 0 .. LoopStepsLeft(loop[l]) - 1
<1>1. TypeInv /\ [Next]_vars => Down
  <2> SUFFICES ASSUME TypeInv, [Next]_vars PROVE Down
    OBVIOUS
  <2>1. TypeInv'
    BY CallsTyped, StepTyped, LoopStepTyped, NotifiedTyped, BetweenTyped DEF Next
  <2>2. \A l \in Loop : loop[l] \in LoopState /\ loop'[l] \in LoopState
    BY <2>1 DEF TypeInv, TasksOK
  <2>3. ASSUME NEW k \in Loop, LoopStep(k) PROVE Down
    BY <2>3, LoopStepNearer DEF Nearer
  <2>4. ASSUME UNCHANGED loop PROVE Down
    BY <2>4
  <2>5. ASSUME CancelFlow PROVE Down
    <3>1. \A l \in Loop : \/ loop'[l] = loop[l]
                         \/ /\ loop[l].at \notin {"off", "cancelled"}
                            /\ loop'[l].at = "cancelled"
      BY <2>2, <2>5 DEF CancelFlow, Alive, TypeInv, TasksOK, LoopState
    <3> QED BY <2>2, <3>1, NearerCases DEF Nearer
  <2>6. ASSUME Subscribed PROVE Down
    <3>1. PICK k \in Loop : /\ loop[k].at = "off"
                           /\ \A l \in Loop \ {k} : loop'[l] = loop[l]
      BY <2>6 DEF Subscribed, TypeInv, TasksOK
    <3> QED BY <3>1
  <2>7. CASE Step
    <3>1. CancelFlow \/ UNCHANGED loop \/ Subscribed
      BY <2>7 DEF Step, CommandWritten, CommandSent, StartSent, StopSent,
                  CommandFails, StartReturns, SubscribeWritten, SubscribeFails,
                  Initialised, RefreshEnds
    <3> QED BY <2>4, <2>5, <2>6, <3>1
  <2>8. CASE \/ start_watering \/ stop_watering \/ _connect_refresh
             \/ Notified \/ AutoClose \/ TurnOn \/ TurnOff \/ async_unload
             \/ TimerFires \/ IdleCloses \/ HoldExpires \/ OffPasses
             \/ ValveTurns \/ LinkDrops \/ UNCHANGED vars
    <3>1. CancelFlow \/ UNCHANGED loop
      BY <2>8 DEF start_watering, stop_watering, _connect_refresh, Notified,
                  AutoClose, TurnOn, TurnOff, async_unload, TimerFires,
                  IdleCloses, HoldExpires, OffPasses, ValveTurns, LinkDrops,
                  vars, tasks, _end_gen1_flow
    <3> QED BY <2>4, <2>5, <3>1
  <2> QED BY <2>3, <2>7, <2>8 DEF Next
<1> QED BY <1>1, TypeInvariant, PTL DEF Spec, RenewalsDescend

-----------------------------------------------------------------------------
(* Whoever has _api_lock is the running call, or a renewal task inside its *)
(* exchange or on its way out of it.                                       *)
OwnerRuns ==
  /\ api = "call" => call.op # "none"
  /\ \A l \in Loop : api = l => loop[l].at \in {"send", "drain", "cancelled"}

LEMMA NextOwnerRuns ==
  ASSUME TypeInv, OwnerRuns, [Next]_vars
  PROVE  OwnerRuns'
<1> USE DEF TypeInv, TasksOK, OwnerRuns, LoopState, CallState
<1>1. CASE start_watering \/ stop_watering \/ _connect_refresh
  <2>1. api' = "call" /\ call'.op # "none" BY <1>1, CallBegins
  <2> QED BY <2>1
<1>2. ASSUME NEW r, Returns(r), call.op # "none" \/ api # "call",
             CancelFlow \/ UNCHANGED loop
      PROVE  OwnerRuns'
  BY <1>2 DEF Returns, CancelFlow, Alive
<1>3. ASSUME NEW p, Goes(p), UNCHANGED loop
      PROVE  OwnerRuns'
  BY <1>3 DEF Goes
<1>4. CASE Step
  <2>1. CASE CommandWritten \/ SubscribeWritten \/ Initialised
    BY <1>3, <2>1 DEF CommandWritten, SubscribeWritten, Initialised
  <2>2. CASE Subscribed
    BY <2>2 DEF Subscribed, Returns
  <2>3. CASE RefreshEnds
    BY <2>3 DEF RefreshEnds, Returns
  <2>4. CASE CommandSent
    <3>1. CASE StartSent
      BY <2>4, <3>1 DEF CommandSent, StartSent, Goes, Returns
    <3>2. CASE StopSent
      BY <2>4, <3>2 DEF CommandSent, StopSent, Returns
    <3> QED BY <2>4, <3>1, <3>2 DEF CommandSent
  <2>5. CASE CommandFails
    BY <2>5 DEF CommandFails, StartReturns, Returns
  <2>6. CASE SubscribeFails
    BY <2>6 DEF SubscribeFails, StartReturns, Returns
  <2> QED BY <1>4, <2>1, <2>2, <2>3, <2>4, <2>5, <2>6 DEF Step
<1>5. ASSUME NEW k \in Loop, LoopStep(k) PROVE OwnerRuns'
  <2>1. ASSUME LoopEnds(k) PROVE OwnerRuns'
    BY <2>1 DEF LoopEnds, Gone
  <2>2. CASE LoopSeesEnd(k) \/ LoopCancelled(k)
    BY <2>1, <2>2 DEF LoopSeesEnd, LoopCancelled
  <2>3. CASE LoopWakes(k) \/ RenewWritten(k)
    BY <2>3 DEF LoopWakes, RenewWritten, LoopGoes, At
  <2>4. CASE LockTimesOut(k)
    BY <2>4 DEF LockTimesOut, Again, Gone, At
  <2>5. CASE LoopAcquires(k)
    BY <2>1, <2>5 DEF LoopAcquires, LoopGoes, At
  <2>6. CASE Renewed(k)
    BY <2>6 DEF Renewed
  <2>7. CASE RenewFails(k)
    BY <2>1, <2>7 DEF RenewFails
  <2> QED BY <1>5, <2>2, <2>3, <2>4, <2>5, <2>6, <2>7 DEF LoopStep
<1>6. CASE \/ Notified \/ AutoClose \/ TurnOn \/ TurnOff \/ async_unload
           \/ TimerFires \/ IdleCloses \/ HoldExpires \/ OffPasses
           \/ ValveTurns \/ LinkDrops \/ UNCHANGED vars
  <2>1. UNCHANGED <<api, call>> /\ (CancelFlow \/ UNCHANGED loop)
    BY <1>6 DEF Notified, AutoClose, TurnOn, TurnOff, async_unload, TimerFires,
       IdleCloses, HoldExpires, OffPasses, ValveTurns, LinkDrops, vars,
       tasks, _end_gen1_flow
  <2> QED BY <2>1 DEF CancelFlow, Alive
<1> QED BY <1>1, <1>4, <1>5, <1>6 DEF Next

(* _api_lock is never left behind by a call that is over or a renewal task *)
(* that sleeps, waits or is gone: whatever is cancelled inside an exchange *)
(* gives it back (ht25.py 270-324, 541-588).                               *)
THEOREM LockComesBack == Spec => []OwnerRuns
<1>1. Init => OwnerRuns BY DEF Init, OwnerRuns
<1> QED BY <1>1, NextOwnerRuns, TypeInvariant, PTL DEF Spec
===============================================================================
