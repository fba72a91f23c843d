----------------------- MODULE ProtobufDevice_proofs -----------------------
(***************************************************************************)
(* ProtobufDevice for every set of environments, durations and delays, and *)
(* every grace and guard: the safety properties of its runs.               *)
(*                                                                         *)
(* The argument.  parsed is reset when a call starts to read, so that from *)
(* then on it means that something was read (FlowInv); until it is set,    *)
(* rdm is what the call commanded, and afterwards what the device said     *)
(* (DelayInv).  On a link that loses nothing the recovery lifts the flow   *)
(* subscription before it asks for an echo, which then is on its way       *)
(* (RecoverInv), so every call reads; and what it reads cannot be ahead of *)
(* the valve, nor behind a command of the same call (StopInv, OffInv).     *)
(***************************************************************************)
EXTENDS ProtobufDevice, TLAPS

Messages == {"start", "stop", "delay", "sub", "unsub", "query", "programs"}

CallInv ==
  /\ call.op = "none" => call.stage = "idle" /\ inflight = None
  /\ call.op = "start" => call.arg \in Durations
  /\ call.op = "set" => call.arg \in Delays
  /\ call.op \notin {"start", "set"} => call.arg = 0

FlowInv ==
  /\ HasFlow \/ ~dev.sub
  /\ call.stage = "fsub" => HasFlow
  /\ call.stage \in {"fsub", "funsub", "programs"} => call.op = "poll" /\ saw # {}
  /\ call.op = "poll" /\ parsed => saw # {}

RecoverInv ==
  ~Losses =>
    /\ call.stage = "rsub" => dev.here
    /\ call.stage \in {"runsub", "relicit", "rnoop"} => ~dev.sub
    /\ call.stage = "rnoop" => inflight # None \/ parsed

(* A delay has been commanded, and the device is asked for its own.        *)
Checks == call.op \in {"set", "clear"} /\ call.ret = "check" /\ call.stage # "cmd"

DelayInv ==
  /\ Checks /\ ~parsed => rdm = call.arg /\ ~rdPast
  /\ inflight # None /\ inflight.run = "rain_delay" => inflight.delay # 0
  /\ ~Notices =>
       /\ call.op \in {"set", "clear"} /\ inflight # None => inflight.run \in RunStates
       /\ Checks /\ parsed => IF rdm = 0 THEN saw \cap {"idle", "watering"} # {}
                              ELSE "rain_delay" \in saw

StopInv ==
  GoodLink /\ call.op = "stop" =>
    /\ dev.left = 0
    /\ inflight # None => inflight.run \notin {"watering", "in_progress"}
    /\ call.stage # "cmd" /\ parsed => ~is_watering

OffInv ==
  /\ ~is_watering => off = None
  /\ GoodLink =>
       /\ call.op = "start" => dev.left <= call.arg
       /\ inflight # None /\ inflight.run = "watering" => inflight.left >= dev.left
  /\ OffTimerNotEarly

IInv == /\ TypeOK /\ CallInv /\ FlowInv /\ RecoverInv
        /\ DelayInv /\ StopInv /\ OffInv

-----------------------------------------------------------------------------
(* The environment, the statuses and the link. *)

LEMMA EnvironmentTypes ==
  ASSUME env \in Environments
  PROVE  /\ Durations \subseteq Nat \ {0} /\ Delays \subseteq Nat \ {0}
         /\ Delays \cup {0} \subseteq Nat
         /\ Losses \in BOOLEAN /\ OthersAct \in BOOLEAN /\ Notices \in BOOLEAN
BY ConstantsAssumption DEF Durations, Delays, Losses, OthersAct, Notices

(* What the device says of itself.                                         *)
LEMMA StatusFacts ==
  ASSUME env \in Environments, NEW d \in Devices
  PROVE  /\ Status(d) \in Statuses /\ Status(d) # None
         /\ Status(d).left = d.left /\ Status(d).delay = d.delay
         /\ Status(d).run \in RunStates
         /\ Status(d).run = "watering" <=> d.left # 0
         /\ Status(d).run = "rain_delay" => d.delay # 0
<1>1. Delays \cup {0} \subseteq Nat BY EnvironmentTypes
<1>2. Status(d).run \in RunStates BY DEF Status, RunStates
<1>3. /\ Status(d) \in Statuses
      /\ Status(d) \in [run: RunStates \cup WStatuses, left: Nat, delay: Nat]
  <2>1. d.left \in Nat /\ d.delay \in Delays \cup {0}
    BY DEF Devices
  <2>2. Status(d) = [run |-> Status(d).run, left |-> d.left, delay |-> d.delay]
    BY DEF Status
  <2>3. d.delay \in Nat BY <1>1, <2>1, Zenon
  <2>4. QED BY <1>2, <2>1, <2>2, <2>3 DEF Statuses
<1>4. Status(d) # None BY <1>3, NoneAssumption
<1>5. QED BY <1>2, <1>3, <1>4 DEF Status

LEMMA WateringStatusFacts ==
  ASSUME env \in Environments, NEW d \in Devices
  PROVE  /\ WateringStatus(d) \in Statuses /\ WateringStatus(d) # None
         /\ WateringStatus(d).run \in WStatuses
         /\ WateringStatus(d).run = "in_progress" => d.left # 0
<1>1. WateringStatus(d).run \in WStatuses BY DEF WateringStatus, WStatuses
<1>2. /\ WateringStatus(d) \in Statuses
      /\ WateringStatus(d) \in [run: RunStates \cup WStatuses, left: Nat, delay: Nat]
  BY DEF WateringStatus, Statuses, RunStates, WStatuses
<1>3. WateringStatus(d) # None BY <1>2, NoneAssumption
<1>4. QED BY <1>1, <1>2, <1>3 DEF WateringStatus

(* What a send does, with d and old as in Write.                           *)
Wrote(d, old, msg, n) ==
  /\ env' = env
  /\ dev' \in Devices
  /\ msg \notin {"start", "stop"} => dev'.left = d.left
  /\ dev'.left \in {d.left, IF msg = "start" THEN n ELSE 0}
  /\ dev'.delay \in {d.delay, IF msg = "delay" THEN n ELSE d.delay}
  /\ msg # "sub" => (dev'.sub => d.sub)
  /\ inflight' \in {old, Status(dev'), WateringStatus(dev')}
  /\ inflight' # old /\ inflight' = WateringStatus(dev')
       => msg = "stop" \/ (msg = "start" /\ Notices)
  /\ ~Losses =>
       /\ msg = "start" => dev'.left = n
       /\ msg = "stop" => dev'.left = 0
       /\ msg = "delay" /\ ~d.sub => inflight' = Status(dev')
       /\ msg = "sub" => dev'.here
       /\ msg = "unsub" /\ d.here => ~dev'.sub

LEMMA WriteFacts ==
  ASSUME env \in Environments, NEW d \in Devices, NEW old \in Statuses \cup {None},
         NEW msg \in Messages, NEW n, msg = "start" => n \in Nat,
         msg = "delay" => n \in Delays \cup {0},
         Write(d, old, msg, n)
  PROVE  Wrote(d, old, msg, n)
<1>1. /\ env' = env
      /\ \/ Losses /\ dev' = d /\ inflight' = old
         \/ /\ dev' \in Effect(d, msg, n)
            /\ \/ \E a \in Answers(dev', msg) :
                    inflight' = IF a = None THEN old ELSE a
               \/ Losses /\ inflight' = old
  BY DEF Write
<1>2. CASE Losses /\ dev' = d /\ inflight' = old
  <2>1. Losses BY <1>2
  <2>2. QED BY <1>1, <1>2, <2>1 DEF Wrote
<1>3. ASSUME dev' \in Effect(d, msg, n)
      PROVE  /\ dev' \in Devices
             /\ msg \notin {"start", "stop"} => dev'.left = d.left
             /\ dev'.left \in {d.left, IF msg = "start" THEN n ELSE 0}
             /\ dev'.delay \in {d.delay, IF msg = "delay" THEN n ELSE d.delay}
             /\ msg # "sub" => (dev'.sub => d.sub)
             /\ msg = "start" => dev'.left = n
             /\ msg = "stop" => dev'.left = 0
             /\ msg = "sub" => dev'.here
             /\ msg = "unsub" /\ d.here => ~dev'.sub
  <2>1. CASE msg = "start"
    BY <1>3, <2>1 DEF Effect, Devices
  <2>2. CASE msg = "stop"
    BY <1>3, <2>2 DEF Effect, Devices
  <2>3. CASE msg = "delay"
    BY <1>3, <2>3 DEF Effect, Devices
  <2>4. CASE msg = "sub"
    BY <1>3, <2>4 DEF Effect, Devices
  <2>5. CASE msg = "unsub"
    BY <1>3, <2>5 DEF Effect, Devices
  <2>6. CASE msg \in {"query", "programs"}
    BY <1>3, <2>6 DEF Effect, Devices
  <2>7. QED BY <2>1, <2>2, <2>3, <2>4, <2>5, <2>6 DEF Messages
<1>4. ASSUME dev' \in Effect(d, msg, n), NEW a \in Answers(dev', msg),
             inflight' = IF a = None THEN old ELSE a
      PROVE  /\ inflight' \in {old, Status(dev'), WateringStatus(dev')}
             /\ inflight' # old /\ inflight' = WateringStatus(dev')
                  => msg = "stop" \/ (msg = "start" /\ Notices)
             /\ msg = "delay" /\ ~d.sub => inflight' = Status(dev')
  <2>1. dev' \in Devices /\ (msg # "sub" => (dev'.sub => d.sub)) BY <1>3, <1>4
  <2>2. /\ Status(dev') # None /\ WateringStatus(dev') # None
        /\ Status(dev') # WateringStatus(dev')
    <3>1. Status(dev').run # WateringStatus(dev').run
      BY <2>1, StatusFacts, WateringStatusFacts DEF RunStates, WStatuses
    <3>2. QED BY <2>1, <3>1, StatusFacts, WateringStatusFacts
  <2>3. CASE msg = "start"
    BY <1>4, <2>1, <2>2, <2>3 DEF Answers
  <2>4. CASE msg = "stop"
    BY <1>4, <2>1, <2>2, <2>4 DEF Answers
  <2>5. CASE msg = "delay"
    BY <1>4, <2>1, <2>2, <2>5 DEF Answers
  <2>6. CASE msg = "query"
    BY <1>4, <2>1, <2>2, <2>6 DEF Answers
  <2>7. CASE msg = "programs"
    BY <1>4, <2>1, <2>2, <2>7 DEF Answers
  <2>8. CASE msg \in {"sub", "unsub"}
    BY <1>4, <2>1, <2>2, <2>8 DEF Answers
  <2>9. QED BY <2>3, <2>4, <2>5, <2>6, <2>7, <2>8 DEF Messages
<1>5. CASE /\ dev' \in Effect(d, msg, n)
           /\ \E a \in Answers(dev', msg) :
                inflight' = IF a = None THEN old ELSE a
  BY <1>1, <1>3, <1>4, <1>5 DEF Wrote
<1>6. CASE dev' \in Effect(d, msg, n) /\ Losses /\ inflight' = old
  BY <1>1, <1>3, <1>6 DEF Wrote
<1>7. QED BY <1>1, <1>2, <1>5, <1>6

LEMMA SameTypes ==
  ASSUME env' = env
  PROVE  /\ Durations' = Durations /\ Delays' = Delays
         /\ Losses' = Losses /\ OthersAct' = OthersAct /\ Notices' = Notices
         /\ GoodLink' = GoodLink
         /\ Devices' = Devices /\ Statuses' = Statuses /\ Calls' = Calls
<1>1. /\ Durations' = Durations /\ Delays' = Delays
      /\ Losses' = Losses /\ OthersAct' = OthersAct /\ Notices' = Notices
  BY DEF Durations, Delays, Losses, OthersAct, Notices
<1>2. QED BY <1>1 DEF GoodLink, Devices, Statuses, Calls

(* A session of its own does not change the valve.                         *)
LEMMA DroppedFacts ==
  ASSUME dev \in Devices
  PROVE  /\ Dropped \in Devices /\ Dropped.left = dev.left
         /\ Dropped.delay = dev.delay /\ Dropped.sub = dev.sub
BY DEF Dropped, Devices

(* What is on its way after a send, given what was before it.              *)
LEMMA InflightKept ==
  ASSUME env \in Environments, NEW d, NEW old \in Statuses \cup {None},
         NEW msg, NEW n, Wrote(d, old, msg, n)
  PROVE  /\ inflight' \in Statuses \cup {None}
         /\ (old # None /\ old.run = "rain_delay" => old.delay # 0)
              => (inflight' # None /\ inflight'.run = "rain_delay"
                    => inflight'.delay # 0)
         /\ (~Notices /\ msg # "stop" /\ (old # None => old.run \in RunStates))
              => (inflight' # None => inflight'.run \in RunStates)
         /\ (old # None /\ old.run = "watering" => old.left >= dev'.left)
              => (inflight' # None /\ inflight'.run = "watering"
                    => inflight'.left >= dev'.left)
         /\ (dev'.left = 0 /\ (old # None => old.run \notin {"watering", "in_progress"}))
              => (inflight' # None => inflight'.run \notin {"watering", "in_progress"})
<1>1. /\ dev' \in Devices
      /\ inflight' \in {old, Status(dev'), WateringStatus(dev')}
      /\ inflight' # old /\ inflight' = WateringStatus(dev')
           => msg = "stop" \/ (msg = "start" /\ Notices)
  BY DEF Wrote
<1>2. dev'.left \in Nat /\ dev'.left >= dev'.left
  <2>1. dev'.left \in Nat BY <1>1 DEF Devices
  <2>2. QED BY <2>1
<1>3. CASE inflight' = old
  BY <1>3
<1>4. CASE inflight' = Status(dev')
  <2>1. /\ Status(dev') \in Statuses
        /\ Status(dev').left = dev'.left /\ Status(dev').delay = dev'.delay
        /\ Status(dev').run \in RunStates
        /\ Status(dev').run = "watering" <=> dev'.left # 0
        /\ Status(dev').run = "rain_delay" => dev'.delay # 0
    BY <1>1, StatusFacts
  <2>2. inflight'.run # "in_progress" BY <1>4, <2>1 DEF RunStates
  <2>3. QED BY <1>2, <1>4, <2>1, <2>2
<1>5. CASE inflight' # old /\ inflight' = WateringStatus(dev')
  <2>1. /\ WateringStatus(dev') \in Statuses
        /\ WateringStatus(dev').run \in WStatuses
        /\ WateringStatus(dev').run = "in_progress" => dev'.left # 0
    BY <1>1, WateringStatusFacts
  <2>2. inflight'.run # "watering" /\ inflight'.run # "rain_delay"
    BY <1>5, <2>1 DEF WStatuses
  <2>3. msg = "stop" \/ Notices BY <1>1, <1>5
  <2>4. QED BY <1>2, <1>5, <2>1, <2>2, <2>3
<1>6. QED BY <1>1, <1>3, <1>4, <1>5

-----------------------------------------------------------------------------
(* The kinds of steps: a call sends and goes on, asks, or finishes.        *)

Stages == {"unsub", "elicit", "rsub", "runsub", "relicit", "rnoop",
           "fsub", "funsub", "programs"}

(* The running call, past its command, sends msg and awaits stage s, with  *)
(* d and old as in Write.                                                  *)
GoesOn(d, old, msg, n, s, at, ra, r) ==
  /\ call.op # "none" /\ call.stage # "cmd"
  /\ (d = dev /\ old = inflight) \/ (d = Dropped /\ old = None)
  /\ msg \in {"delay", "sub", "unsub", "query", "programs"}
  /\ Write(d, old, msg, n)
  /\ call' = [call EXCEPT !.stage = s, !.attempt = at, !.rattempt = ra,
                          !.ret = r]
  /\ UNCHANGED <<state, parsed, result, saw>>
  /\ is_connected' \in BOOLEAN /\ timeouts' \in 0 .. 1
  /\ s \in Stages /\ at \in 1 .. 2 /\ ra \in 1 .. 2
  /\ r \in {"command", "check", "raised"} /\ (r = call.ret \/ call.op = "poll")
  /\ msg = "delay" => n \in Delays \cup {0}
  /\ msg = "sub" => HasFlow
  /\ s \in {"rsub", "fsub"} => msg = "sub"
  /\ s \in {"fsub", "funsub", "programs"} => call.op = "poll" /\ saw # {}
  /\ s = "runsub" => call.stage = "rsub" /\ msg = "unsub" /\ d = dev
  /\ s = "relicit" => msg = "query" /\ (HasFlow => call.stage = "runsub")
  /\ s = "rnoop" => call.stage = "relicit" /\ msg = "delay" /\ d = dev

LEMMA SendKeeps ==
  ASSUME IInv, NEW d, NEW old, NEW msg, NEW n, NEW s, NEW at, NEW ra, NEW r,
         GoesOn(d, old, msg, n, s, at, ra, r)
  PROVE  IInv'
<1> USE DEF GoesOn
<1>1. env \in Environments /\ dev \in Devices /\ inflight \in Statuses \cup {None}
  BY DEF IInv, TypeOK
<1>2. d \in Devices /\ old \in Statuses \cup {None}
      /\ d.left = dev.left /\ d.delay = dev.delay /\ d.sub = dev.sub
  BY <1>1, DroppedFacts
<1>3. Wrote(d, old, msg, n) BY <1>1, <1>2, WriteFacts DEF Messages
<1>4. /\ env' = env /\ dev' \in Devices /\ dev'.left = dev.left
      /\ msg # "sub" => (dev'.sub => dev.sub)
      /\ ~Losses =>
           /\ msg = "delay" /\ ~dev.sub => inflight' = Status(dev')
           /\ msg = "sub" => dev'.here
           /\ msg = "unsub" /\ d.here => ~dev'.sub
  BY <1>2, <1>3 DEF Wrote
<1>5. /\ Durations' = Durations /\ Delays' = Delays
      /\ Losses' = Losses /\ OthersAct' = OthersAct /\ Notices' = Notices
      /\ GoodLink' = GoodLink
      /\ Devices' = Devices /\ Statuses' = Statuses /\ Calls' = Calls
  BY <1>4, SameTypes
<1>6. /\ is_watering' = is_watering /\ off' = off /\ rdm' = rdm /\ rdPast' = rdPast
      /\ parsed' = parsed /\ result' = result /\ saw' = saw
  BY DEF state
<1>7. /\ call' \in Calls /\ call'.op = call.op /\ call'.arg = call.arg
      /\ call'.stage = s /\ call'.ret = r
  BY DEF IInv, TypeOK, Calls, Stages
<1>8. inflight' \in Statuses \cup {None} BY <1>1, <1>2, <1>3, InflightKept
<1>9. TypeOK'
  BY <1>1, <1>4, <1>5, <1>6, <1>7, <1>8 DEF IInv, TypeOK
<1>10. CallInv'
  BY <1>5, <1>7 DEF IInv, CallInv
<1>11. FlowInv'
  BY <1>4, <1>6, <1>7 DEF IInv, FlowInv
<1>12. RecoverInv'
  <2>1. SUFFICES ASSUME ~Losses PROVE RecoverInv' BY <1>5 DEF RecoverInv
  <2>2. s = "rsub" => dev'.here BY <1>4, <2>1
  <2>3. s = "runsub" => ~dev'.sub BY <1>4, <2>1 DEF IInv, RecoverInv
  <2>4. s = "relicit" => ~dev'.sub
    BY <1>4, <2>1 DEF IInv, RecoverInv, FlowInv
  <2>5. s = "rnoop" => ~dev'.sub /\ inflight' # None
    <3>1. SUFFICES ASSUME s = "rnoop" PROVE ~dev'.sub /\ inflight' # None
      OBVIOUS
    <3>2. ~dev.sub BY <2>1, <3>1 DEF IInv, RecoverInv
    <3>3. inflight' = Status(dev') /\ ~dev'.sub BY <1>4, <2>1, <3>1, <3>2
    <3>4. QED BY <1>1, <1>4, <3>3, StatusFacts
  <2>6. QED BY <1>7, <2>2, <2>3, <2>4, <2>5 DEF RecoverInv
<1>13. DelayInv'
  <2>1. Checks' => Checks BY <1>7 DEF Checks
  <2>2. inflight' # None /\ inflight'.run = "rain_delay" => inflight'.delay # 0
    BY <1>1, <1>2, <1>3, InflightKept DEF IInv, DelayInv
  <2>3. ~Notices /\ call.op \in {"set", "clear"} /\ inflight' # None
          => inflight'.run \in RunStates
    BY <1>1, <1>2, <1>3, InflightKept DEF IInv, DelayInv
  <2>4. QED BY <1>5, <1>6, <1>7, <2>1, <2>2, <2>3 DEF IInv, DelayInv
<1>14. StopInv'
  <2>1. SUFFICES ASSUME GoodLink, call.op = "stop" PROVE StopInv'
    BY <1>5, <1>7 DEF StopInv
  <2>2. dev'.left = 0 BY <1>4, <2>1 DEF IInv, StopInv
  <2>3. inflight' # None => inflight'.run \notin {"watering", "in_progress"}
    BY <1>1, <1>2, <1>3, <2>1, <2>2, InflightKept DEF IInv, StopInv
  <2>4. QED BY <1>5, <1>6, <1>7, <2>1, <2>2, <2>3 DEF IInv, StopInv
<1>15. OffInv'
  <2>1. GoodLink => (inflight' # None /\ inflight'.run = "watering"
                       => inflight'.left >= dev'.left)
    BY <1>1, <1>2, <1>3, <1>4, InflightKept DEF IInv, OffInv
  <2>2. OffTimerNotEarly'
    BY <1>4, <1>5, <1>6, <1>7 DEF IInv, OffInv, OffTimerNotEarly
  <2>3. QED BY <1>4, <1>5, <1>6, <1>7, <2>1, <2>2 DEF IInv, OffInv
<1>16. QED
  BY <1>9, <1>10, <1>11, <1>12, <1>13, <1>14, <1>15 DEF IInv

(* A call asks for a status: refresh_status.                               *)
LEMMA AskKeeps ==
  ASSUME IInv, NEW c \in Calls, c.op # "none",
         c.op = "start" => c.arg \in Durations,
         c.op = "set" => c.arg \in Delays,
         c.op \notin {"start", "set"} => c.arg = 0,
         \/ c.op = call.op /\ c.arg = call.arg
         \/ call.op = "none" /\ c.op \in {"set", "poll"},
         refresh_status(c),
         c.op \in {"set", "clear"} /\ c.ret = "check" => rdm' = c.arg /\ ~rdPast',
         is_watering' = is_watering, off' = off,
         rdm' \in Delays \cup {0}, rdPast' \in BOOLEAN,
         UNCHANGED <<health, result>>, saw' \subseteq RunStates \cup WStatuses
  PROVE  IInv'
<1>1. env \in Environments /\ dev \in Devices /\ inflight \in Statuses \cup {None}
  BY DEF IInv, TypeOK
<1>2. PICK msg \in {"unsub", "query"}, s \in {"unsub", "elicit"} :
        Write(dev, inflight, msg, 0) /\ call' = [c EXCEPT !.stage = s]
  BY DEF refresh_status, Send
<1>3. Wrote(dev, inflight, msg, 0) BY <1>1, <1>2, WriteFacts DEF Messages
<1>4. /\ env' = env /\ dev' \in Devices /\ dev'.left = dev.left
      /\ dev'.sub => dev.sub
  BY <1>3 DEF Wrote
<1>5. /\ Durations' = Durations /\ Delays' = Delays
      /\ Losses' = Losses /\ OthersAct' = OthersAct /\ Notices' = Notices
      /\ GoodLink' = GoodLink
      /\ Devices' = Devices /\ Statuses' = Statuses /\ Calls' = Calls
  BY <1>4, SameTypes
<1>6. call' \in Calls /\ call'.op = c.op /\ call'.arg = c.arg
      /\ call'.stage = s /\ call'.ret = c.ret
  BY <1>2 DEF Calls
<1>7. ~parsed' /\ parsed' \in BOOLEAN BY DEF refresh_status
<1>8. inflight' \in Statuses \cup {None} BY <1>1, <1>3, InflightKept
<1>9. TypeOK'
  BY <1>1, <1>4, <1>5, <1>6, <1>7, <1>8 DEF IInv, TypeOK, health
<1>10. CallInv' BY <1>2, <1>5, <1>6 DEF CallInv
<1>11. FlowInv' BY <1>4, <1>6, <1>7 DEF IInv, FlowInv
<1>12. RecoverInv' BY <1>6 DEF RecoverInv
<1>13. DelayInv'
  <2>1. inflight' # None /\ inflight'.run = "rain_delay" => inflight'.delay # 0
    BY <1>1, <1>3, InflightKept DEF IInv, DelayInv
  <2>2. ~Notices /\ c.op \in {"set", "clear"} /\ inflight # None
          => inflight.run \in RunStates
    BY DEF IInv, DelayInv, CallInv
  <2>3. ~Notices /\ c.op \in {"set", "clear"} /\ inflight' # None
          => inflight'.run \in RunStates
    BY <1>1, <1>3, <2>2, InflightKept
  <2>4. Checks' /\ ~parsed' => rdm' = call'.arg /\ ~rdPast'
    BY <1>6 DEF Checks
  <2>5. QED BY <1>5, <1>6, <1>7, <2>1, <2>3, <2>4 DEF DelayInv
<1>14. StopInv'
  <2>1. SUFFICES ASSUME GoodLink, call.op = "stop" PROVE StopInv'
    BY <1>5, <1>6 DEF StopInv
  <2>2. dev'.left = 0 BY <1>4, <2>1 DEF IInv, StopInv
  <2>3. inflight' # None => inflight'.run \notin {"watering", "in_progress"}
    BY <1>1, <1>3, <2>1, <2>2, InflightKept DEF IInv, StopInv
  <2>4. QED BY <1>7, <2>2, <2>3 DEF StopInv
<1>15. OffInv'
  <2>1. GoodLink => (inflight' # None /\ inflight'.run = "watering"
                       => inflight'.left >= dev'.left)
    BY <1>1, <1>3, <1>4, InflightKept DEF IInv, OffInv
  <2>2. OffTimerNotEarly'
    BY <1>4, <1>5, <1>6 DEF IInv, OffInv, OffTimerNotEarly
  <2>3. GoodLink /\ c.op = "start" => dev'.left <= c.arg
    BY <1>4 DEF IInv, OffInv
  <2>4. QED BY <1>4, <1>5, <1>6, <2>1, <2>2, <2>3 DEF IInv, OffInv
<1>16. QED
  BY <1>9, <1>10, <1>11, <1>12, <1>13, <1>14, <1>15 DEF IInv

(* A call returns.                                                         *)
LEMMA FinishKeeps ==
  ASSUME IInv, NEW v \in {"true", "false", "raised"}, Finish(v),
         is_watering' \in BOOLEAN, off' \in Int \cup {None},
         rdm' \in Delays \cup {0}, rdPast' \in BOOLEAN,
         is_connected' \in BOOLEAN, timeouts' \in 0 .. 1,
         UNCHANGED <<parsed, saw>>,
         ~is_watering' => off' = None,
         GoodLink /\ is_watering' /\ off' # None /\ dev.left # 0 => off' >= dev.left
  PROVE  IInv'
<1>1. env' = env /\ dev' = Dropped /\ inflight' = None /\ call' = NoCall /\ result' = v
  BY DEF Finish
<1>2. dev' \in Devices /\ dev'.left = dev.left /\ dev'.sub = dev.sub
  BY <1>1, DroppedFacts DEF IInv, TypeOK
<1>3. /\ Durations' = Durations /\ Delays' = Delays
      /\ Losses' = Losses /\ OthersAct' = OthersAct /\ Notices' = Notices
      /\ GoodLink' = GoodLink
      /\ Devices' = Devices /\ Statuses' = Statuses /\ Calls' = Calls
  BY <1>1, SameTypes
<1>4. call' \in Calls /\ call'.op = "none" /\ call'.stage = "idle" /\ call'.arg = 0
  BY <1>1 DEF NoCall, Calls
<1>5. TypeOK'
  BY <1>1, <1>2, <1>3, <1>4 DEF IInv, TypeOK
<1>6. CallInv' BY <1>1, <1>4 DEF CallInv
<1>7. FlowInv' BY <1>2, <1>4 DEF IInv, FlowInv
<1>8. RecoverInv' BY <1>4 DEF RecoverInv
<1>9. DelayInv' BY <1>1, <1>4 DEF DelayInv, Checks
<1>10. StopInv' BY <1>4 DEF StopInv
<1>11. OffInv'
  <2>1. OffTimerNotEarly' BY <1>2, <1>3 DEF OffTimerNotEarly
  <2>2. QED BY <1>1, <1>4, <2>1 DEF OffInv
<1>12. QED
  BY <1>5, <1>6, <1>7, <1>8, <1>9, <1>10, <1>11 DEF IInv

(* A command is sent, by the call itself or again after its check.         *)
LEMMA CommandKeeps ==
  ASSUME IInv, NEW d, NEW old,
         (d = dev /\ old = inflight) \/ (d = Dropped /\ old = None),
         NEW msg \in {"start", "stop", "delay"}, NEW c \in Calls,
         Write(d, old, msg, c.arg), call' = c, c.stage = "cmd",
         \/ msg = c.op /\ c.op \in {"start", "stop"}
         \/ msg = "delay" /\ c.op \in {"set", "clear"},
         c.op = call.op \/ call.op = "none",
         c.op = "start" => old = None,
         c.op = "start" => c.arg \in Durations,
         c.op = "set" => c.arg \in Delays,
         c.op \notin {"start", "set"} => c.arg = 0,
         UNCHANGED <<state, parsed, health, result>>,
         saw' \subseteq RunStates \cup WStatuses
  PROVE  IInv'
<1>1. env \in Environments /\ dev \in Devices /\ inflight \in Statuses \cup {None}
  BY DEF IInv, TypeOK
<1>2. d \in Devices /\ old \in Statuses \cup {None}
      /\ d.left = dev.left /\ d.delay = dev.delay /\ d.sub = dev.sub
  BY <1>1, DroppedFacts
<1>3. Wrote(d, old, msg, c.arg)
  <2>1. msg = "start" => c.arg \in Nat BY <1>1, EnvironmentTypes
  <2>2. msg = "delay" => c.arg \in Delays \cup {0} OBVIOUS
  <2>3. QED BY <1>1, <1>2, <2>1, <2>2, WriteFacts DEF Messages
<1>4. /\ env' = env /\ dev' \in Devices
      /\ dev'.sub => dev.sub
      /\ dev'.left \in {dev.left, IF msg = "start" THEN c.arg ELSE 0}
      /\ msg = "delay" => dev'.left = dev.left
      /\ ~Losses => /\ msg = "start" => dev'.left = c.arg
                    /\ msg = "stop" => dev'.left = 0
  BY <1>2, <1>3 DEF Wrote
<1>5. /\ Durations' = Durations /\ Delays' = Delays
      /\ Losses' = Losses /\ OthersAct' = OthersAct /\ Notices' = Notices
      /\ GoodLink' = GoodLink
      /\ Devices' = Devices /\ Statuses' = Statuses /\ Calls' = Calls
  BY <1>4, SameTypes
<1>6. /\ is_watering' = is_watering /\ off' = off /\ rdm' = rdm /\ rdPast' = rdPast
      /\ parsed' = parsed /\ result' = result
      /\ is_connected' = is_connected /\ timeouts' = timeouts
  BY DEF state, health
<1>7. inflight' \in Statuses \cup {None} BY <1>1, <1>2, <1>3, InflightKept
<1>8. TypeOK'
  BY <1>1, <1>4, <1>5, <1>6, <1>7 DEF IInv, TypeOK
<1>9. CallInv' BY <1>5 DEF CallInv
<1>10. FlowInv' BY <1>4 DEF IInv, FlowInv
<1>11. RecoverInv' BY DEF RecoverInv
<1>12. DelayInv'
  <2>1. ~Checks' BY DEF Checks
  <2>2. inflight' # None /\ inflight'.run = "rain_delay" => inflight'.delay # 0
    BY <1>1, <1>2, <1>3, InflightKept DEF IInv, DelayInv
  <2>3. ASSUME ~Notices, c.op \in {"set", "clear"}, inflight' # None
        PROVE  inflight'.run \in RunStates
    <3>1. old # None => old.run \in RunStates
      BY <2>3 DEF IInv, DelayInv, CallInv
    <3>2. msg # "stop" BY <2>3
    <3>3. QED BY <1>1, <1>2, <1>3, <2>3, <3>1, <3>2, InflightKept
  <2>4. QED BY <1>5, <2>1, <2>2, <2>3 DEF DelayInv
<1>13. StopInv'
  <2>1. SUFFICES ASSUME GoodLink, c.op = "stop" PROVE StopInv'
    BY <1>5 DEF StopInv
  <2>2. dev'.left = 0 BY <1>4, <2>1 DEF GoodLink
  <2>3. old # None => old.run \notin {"watering", "in_progress"}
    BY <2>1 DEF IInv, StopInv, CallInv
  <2>4. inflight' # None => inflight'.run \notin {"watering", "in_progress"}
    BY <1>1, <1>2, <1>3, <2>2, <2>3, InflightKept
  <2>5. QED BY <2>2, <2>4 DEF StopInv
<1>14. OffInv'
  <2>1. ASSUME GoodLink, c.op = "start" PROVE dev'.left <= c.arg
    <3>1. dev'.left = c.arg BY <1>4, <2>1 DEF GoodLink
    <3>2. c.arg \in Nat BY <1>1, <2>1, EnvironmentTypes
    <3>3. QED BY <3>1, <3>2
  <2>2. ASSUME GoodLink, old # None, old.run = "watering"
        PROVE  msg = "start" \/ old.left >= dev'.left
    <3>1. inflight # None /\ old = inflight BY <2>2
    <3>2. inflight.left >= dev.left BY <2>2, <3>1 DEF IInv, OffInv
    <3>3. inflight.left \in Nat /\ dev.left \in Nat
      BY <1>1, <3>1 DEF Statuses, Devices
    <3>4. QED BY <1>4, <3>1, <3>2, <3>3
  <2>3. GoodLink => (inflight' # None /\ inflight'.run = "watering"
                       => inflight'.left >= dev'.left)
    <3>1. CASE msg = "start"
      BY <1>1, <1>2, <1>3, <3>1, InflightKept
    <3>2. CASE msg # "start"
      BY <1>1, <1>2, <1>3, <2>2, <3>2, InflightKept
    <3>3. QED BY <3>1, <3>2
  <2>4. OffTimerNotEarly'
    BY <1>4, <1>5, <1>6 DEF IInv, OffInv, OffTimerNotEarly
  <2>5. QED BY <1>5, <1>6, <2>1, <2>3, <2>4 DEF IInv, OffInv
<1>15. QED
  BY <1>8, <1>9, <1>10, <1>11, <1>12, <1>13, <1>14 DEF IInv

-----------------------------------------------------------------------------
(* What the properties of the runs say of a step. *)

PollEndsWell ==
  /\ Ends("poll") /\ saw = {} => timeouts' = 1
  /\ ~Losses /\ Ends("poll") => saw # {}

DelayEndsWell ==
  ~Notices /\ result' = "true"
    => /\ Ends("set") => "rain_delay" \in saw
       /\ Ends("clear") => saw \cap {"idle", "watering"} # {}

StopEndsWell == GoodLink /\ Ends("stop") => result' = "true" /\ dev.left = 0

NoopSpares ==
  /\ call.op \in {"set", "clear"} /\ call.ret = "check"
  /\ call.stage # "rnoop" /\ call'.stage = "rnoop"
  => dev'.delay \in {dev.delay, call.arg}

Honest == PollEndsWell /\ DelayEndsWell /\ StopEndsWell /\ NoopSpares

(* A step that ends no call and writes no rain delay for the recovery.     *)
LEMMA Quiet ==
  ASSUME call'.op # "none" \/ call.op = "none",
         \/ call'.stage # "rnoop" \/ call.stage = "rnoop"
         \/ call.op \notin {"set", "clear"}
  PROVE  Honest
BY DEF Honest, PollEndsWell, DelayEndsWell, StopEndsWell, NoopSpares, Ends

LEMMA GoesOnKeeps ==
  ASSUME IInv, NEW d, NEW old, NEW msg, NEW n, NEW s, NEW at, NEW ra, NEW r,
         GoesOn(d, old, msg, n, s, at, ra, r),
         s # "rnoop" \/ call.op \notin {"set", "clear"}
  PROVE  IInv' /\ Honest
<1>1. IInv' BY SendKeeps
<1>2. call'.op = call.op /\ call'.stage = s /\ call.op # "none"
  BY DEF GoesOn, IInv, TypeOK, Calls
<1>3. Honest BY <1>2, Quiet
<1>4. QED BY <1>1, <1>3

(* A stage is set, and nothing else of the call.                           *)
LEMMA StageSet ==
  ASSUME IInv, NEW s
  PROVE  /\ call.attempt \in 1 .. 2 /\ call.rattempt \in 1 .. 2
         /\ call.ret \in {"command", "check", "raised"}
         /\ [call EXCEPT !.stage = s]
              = [call EXCEPT !.stage = s, !.attempt = call.attempt,
                             !.rattempt = call.rattempt, !.ret = call.ret]
BY DEF IInv, TypeOK, Calls

LEMMA FinishStage ==
  ASSUME NEW v, Finish(v)
  PROVE  call'.op = "none" /\ call'.stage = "idle" /\ result' = v
BY DEF Finish, NoCall

LEMMA PollEndsKeeps ==
  ASSUME IInv, PollEnds, call.op = "poll",
         is_connected' \in BOOLEAN, timeouts' \in 0 .. 1,
         saw = {} => timeouts' = 1, Losses \/ saw # {}
  PROVE  IInv' /\ Honest
<1>1. Finish("true") /\ UNCHANGED <<parsed, saw>> BY DEF PollEnds
<1>2. rdm' \in Delays \cup {0} /\ rdPast' \in BOOLEAN
  BY DEF PollEnds, IInv, TypeOK
<1>3. \/ is_watering' = FALSE /\ off' = None
      \/ is_watering' = is_watering /\ off' = off
  BY DEF PollEnds
<1>4. is_watering' \in BOOLEAN /\ off' \in Int \cup {None}
  BY <1>3 DEF IInv, TypeOK
<1>5. ~is_watering' => off' = None
  BY <1>3 DEF IInv, OffInv
<1>6. GoodLink /\ is_watering' /\ off' # None /\ dev.left # 0 => off' >= dev.left
  BY <1>3 DEF IInv, OffInv, OffTimerNotEarly
<1>7. IInv' BY <1>1, <1>2, <1>4, <1>5, <1>6, FinishKeeps
<1>8. Honest
  BY <1>1, FinishStage
  DEF Honest, PollEndsWell, DelayEndsWell, StopEndsWell, NoopSpares, Ends
<1>9. QED BY <1>7, <1>8

(* A call returns without touching the state.                              *)
LEMMA ReturnsKeeps ==
  ASSUME IInv, NEW v \in {"true", "false", "raised"}, Returns(v),
         call.op # "poll",
         call.op = "start" => Losses \/ ~is_watering,
         call.op = "stop" => ~GoodLink,
         v = "true" => call.op \in {"set", "clear"} /\ DelayEndsWell
  PROVE  IInv' /\ Honest
<1>1. /\ Finish(v) /\ UNCHANGED <<parsed, saw>>
      /\ is_watering' = is_watering /\ off' = off /\ rdm' = rdm /\ rdPast' = rdPast
      /\ is_connected' = is_connected /\ timeouts' = timeouts
  BY DEF Returns, state, health
<1>2. /\ is_watering' \in BOOLEAN /\ off' \in Int \cup {None}
      /\ rdm' \in Delays \cup {0} /\ rdPast' \in BOOLEAN
      /\ is_connected' \in BOOLEAN /\ timeouts' \in 0 .. 1
  BY <1>1 DEF IInv, TypeOK
<1>3. ~is_watering' => off' = None
  BY <1>1 DEF IInv, OffInv
<1>4. GoodLink /\ is_watering' /\ off' # None /\ dev.left # 0 => off' >= dev.left
  BY <1>1 DEF IInv, OffInv, OffTimerNotEarly, GoodLink
<1>5. IInv' BY <1>1, <1>2, <1>3, <1>4, FinishKeeps
<1>6. result' = v /\ call'.stage = "idle" BY <1>1, FinishStage
<1>7. DelayEndsWell BY <1>6 DEF DelayEndsWell
<1>8. Honest
  BY <1>6, <1>7 DEF Honest, PollEndsWell, StopEndsWell, NoopSpares, Ends, GoodLink
<1>9. QED BY <1>5, <1>8

LEMMA FailFacts ==
  ASSUME timeouts \in 0 .. 1
  PROVE  Fail(timeouts) = 1
BY DEF Fail

LEMMA StartConfirmedKeeps ==
  ASSUME IInv, StartConfirmed, call.op = "start", is_watering
  PROVE  IInv' /\ Honest
<1>1. /\ Finish("true") /\ UNCHANGED <<parsed, saw>> /\ off' = call.arg
      /\ is_watering' = is_watering /\ rdm' = rdm /\ rdPast' = rdPast
      /\ is_connected' = is_connected /\ timeouts' = timeouts
  BY DEF StartConfirmed, health
<1>2. call.arg \in Nat
  BY EnvironmentTypes DEF IInv, TypeOK, CallInv
<1>3. /\ is_watering' \in BOOLEAN /\ off' \in Int \cup {None}
      /\ rdm' \in Delays \cup {0} /\ rdPast' \in BOOLEAN
      /\ is_connected' \in BOOLEAN /\ timeouts' \in 0 .. 1
  BY <1>1, <1>2 DEF IInv, TypeOK
<1>4. is_watering' BY <1>1
<1>5. GoodLink => off' >= dev.left
  <2>1. dev.left \in Nat BY DEF IInv, TypeOK, Devices
  <2>2. GoodLink => dev.left <= call.arg BY DEF IInv, OffInv
  <2>3. QED BY <1>1, <1>2, <2>1, <2>2
<1>6. IInv' BY <1>1, <1>3, <1>4, <1>5, FinishKeeps
<1>7. Honest
  BY <1>1, FinishStage
  DEF Honest, PollEndsWell, DelayEndsWell, StopEndsWell, NoopSpares, Ends
<1>8. QED BY <1>6, <1>7

LEMMA RetryKeeps ==
  ASSUME IInv, NEW msg \in {"start", "stop"}, call.op = msg, Retry(msg)
  PROVE  IInv' /\ Honest
<1> DEFINE c == [call EXCEPT !.stage = "cmd", !.attempt = 2]
<1>1. /\ Write(Dropped, None, msg, call.arg) /\ call' = c
      /\ UNCHANGED <<state, parsed, health, result>> /\ saw' = saw
  <2>1. Write(Dropped, None, msg, call.arg) /\ call' = c
    BY DEF Retry, SendFresh
  <2>2. UNCHANGED <<state, parsed, health, result, saw>> BY DEF Retry
  <2>3. QED BY <2>1, <2>2
<1>2. c \in Calls /\ c.stage = "cmd" /\ c.op = call.op /\ c.arg = call.arg
  <2>1. call \in Calls /\ 2 \in 1 .. 2 BY DEF IInv, TypeOK
  <2>2. QED BY <2>1 DEF Calls
<1>3. /\ c.op = "start" => c.arg \in Durations
      /\ c.op \notin {"start", "set"} => c.arg = 0
      /\ saw' \subseteq RunStates \cup WStatuses
  BY <1>1, <1>2 DEF IInv, TypeOK, CallInv
<1> HIDE DEF c
<1>4. IInv' BY <1>1, <1>2, <1>3, CommandKeeps
<1>5. Honest BY <1>1, <1>2, Quiet
<1>6. QED BY <1>4, <1>5

LEMMA SetSendsKeeps ==
  ASSUME IInv, SetSends
  PROVE  IInv' /\ Honest
<1> DEFINE c == [call EXCEPT !.stage = "cmd", !.ret = "check"]
<1>1. /\ call.op = "set"
      /\ Write(dev, inflight, "delay", call.arg) /\ call' = c
      /\ UNCHANGED <<state, parsed, health, result>> /\ saw' = {}
  BY DEF SetSends, Send
<1>2. c \in Calls /\ c.stage = "cmd" /\ c.op = call.op /\ c.arg = call.arg
  BY DEF IInv, TypeOK, Calls
<1>3. c.arg \in Delays /\ saw' \subseteq RunStates \cup WStatuses
  BY <1>1, <1>2 DEF IInv, CallInv
<1> HIDE DEF c
<1>4. IInv' BY <1>1, <1>2, <1>3, CommandKeeps
<1>5. Honest BY <1>1, <1>2, Quiet
<1>6. QED BY <1>4, <1>5

(* A poll goes on to read the programs.                                    *)
LEMMA ReadProgramsKeeps ==
  ASSUME IInv, ReadPrograms, call.op = "poll", call.stage # "cmd", saw # {},
         is_connected' \in BOOLEAN, timeouts' \in 0 .. 1
  PROVE  IInv' /\ Honest
<1>1. /\ Write(dev, inflight, "programs", 0)
      /\ call' = [call EXCEPT !.stage = "programs"]
      /\ UNCHANGED <<state, parsed, result, saw>>
  BY DEF ReadPrograms, Send
<1>2. GoesOn(dev, inflight, "programs", 0, "programs",
             call.attempt, call.rattempt, call.ret)
  BY <1>1, StageSet DEF GoesOn, Stages
<1>3. QED BY <1>2, GoesOnKeeps

LEMMA PollReadKeeps ==
  ASSUME IInv, PollRead, call.stage # "cmd", Losses \/ parsed
  PROVE  IInv' /\ Honest
<1>1. call.op = "poll" /\ is_connected' = TRUE BY DEF PollRead
<1>2. parsed => saw # {} BY <1>1 DEF IInv, FlowInv
<1>3. timeouts \in 0 .. 1 BY DEF IInv, TypeOK
<1>4. CASE ~parsed
  <2>1. timeouts' = 1 /\ PollEnds BY <1>3, <1>4, FailFacts DEF PollRead
  <2>2. QED BY <1>1, <1>4, <2>1, PollEndsKeeps
<1>5. CASE parsed /\ HasFlow /\ is_watering
  <2>1. /\ Write(dev, inflight, "sub", 0) /\ call' = [call EXCEPT !.stage = "fsub"]
        /\ UNCHANGED <<state, parsed, result, saw>> /\ timeouts' = 0
    BY <1>5 DEF PollRead, Send
  <2>2. GoesOn(dev, inflight, "sub", 0, "fsub",
               call.attempt, call.rattempt, call.ret)
    <3>1. is_connected' \in BOOLEAN /\ timeouts' \in 0 .. 1
      <4>1. timeouts' \in 0 .. 1 BY <2>1
      <4>2. QED BY <1>1, <4>1
    <3>2. QED BY <1>1, <1>2, <1>5, <2>1, <3>1, StageSet DEF GoesOn, Stages
  <2>3. QED BY <2>2, GoesOnKeeps
<1>6. CASE parsed /\ ~(HasFlow /\ is_watering)
  <2>1. timeouts' = 0 /\ (PollEnds \/ ReadPrograms) BY <1>6 DEF PollRead
  <2>2. CASE PollEnds BY <1>1, <1>2, <1>6, <2>1, <2>2, PollEndsKeeps
  <2>3. CASE ReadPrograms BY <1>1, <1>2, <1>6, <2>1, <2>3, ReadProgramsKeeps
  <2>4. QED BY <2>1, <2>2, <2>3
<1>7. QED BY <1>4, <1>5, <1>6

(* refresh_status has returned.                                            *)
LEMMA RefreshedKeeps ==
  ASSUME IInv, Refreshed, call.stage # "cmd", Losses \/ parsed
  PROVE  IInv' /\ Honest
<1>1. CASE StartChecked
  <2>1. call.op = "start" BY <1>1 DEF StartChecked
  <2>2. CASE is_watering /\ StartConfirmed
    BY <2>1, <2>2, StartConfirmedKeeps
  <2>3. CASE Retry("start")
    BY <2>1, <2>3, RetryKeeps
  <2>4. CASE ~is_watering /\ Returns("false")
    BY <2>1, <2>4, ReturnsKeeps
  <2>5. QED BY <1>1, <2>2, <2>3, <2>4 DEF StartChecked
<1>2. CASE StopChecked
  <2>1. call.op = "stop" BY <1>2 DEF StopChecked
  <2>2. GoodLink => ~is_watering /\ dev.left = 0
    BY <2>1 DEF IInv, StopInv, GoodLink
  <2>3. CASE /\ ~is_watering /\ off' = None /\ Finish("true")
             /\ UNCHANGED <<is_watering, rdm, rdPast, parsed, health, saw>>
    <3>1. /\ is_watering' = is_watering /\ rdm' = rdm /\ rdPast' = rdPast
          /\ is_connected' = is_connected /\ timeouts' = timeouts
      BY <2>3 DEF health
    <3>2. /\ is_watering' \in BOOLEAN /\ off' \in Int \cup {None}
          /\ rdm' \in Delays \cup {0} /\ rdPast' \in BOOLEAN
          /\ is_connected' \in BOOLEAN /\ timeouts' \in 0 .. 1
      BY <2>3, <3>1 DEF IInv, TypeOK
    <3>3. IInv' BY <2>3, <3>1, <3>2, FinishKeeps
    <3>4. Honest
      BY <2>1, <2>2, <2>3, FinishStage
      DEF Honest, PollEndsWell, DelayEndsWell, StopEndsWell, NoopSpares, Ends
    <3>5. QED BY <3>3, <3>4
  <2>4. CASE Retry("stop")
    BY <2>1, <2>4, RetryKeeps
  <2>5. CASE is_watering /\ Returns("false")
    BY <2>1, <2>2, <2>5, ReturnsKeeps
  <2>6. QED BY <1>2, <2>3, <2>4, <2>5 DEF StopChecked
<1>3. CASE SetSends BY <1>3, SetSendsKeeps
<1>4. CASE DelayChecked
  <2>1. call.ret = "check" /\ call.op \in {"set", "clear"}
    BY <1>4 DEF DelayChecked
  <2>2. Checks BY <2>1 DEF Checks
  <2>3. PICK v \in {"true", "false"} :
          /\ Returns(v)
          /\ v = "true" => parsed
          /\ v = "true" => IF call.op = "set" THEN rdm # 0 ELSE rdm = 0
    BY <1>4 DEF DelayChecked
  <2>4. result' = v BY <2>3, FinishStage DEF Returns
  <2>5. v = "true" => DelayEndsWell
    BY <2>1, <2>2, <2>3 DEF DelayEndsWell, Ends, IInv, DelayInv
  <2>6. QED BY <2>1, <2>3, <2>5, ReturnsKeeps
<1>5. CASE PollRead BY <1>5, PollReadKeeps
<1>6. QED BY <1>1, <1>2, <1>3, <1>4, <1>5 DEF Refreshed

-----------------------------------------------------------------------------
(* The steps of a running call. *)

LEMMA AskQuiet ==
  ASSUME NEW c \in Calls, c.op # "none", refresh_status(c)
  PROVE  Honest
<1>1. PICK s \in {"unsub", "elicit"} : call' = [c EXCEPT !.stage = s]
  BY DEF refresh_status
<1>2. call'.op = c.op /\ call'.stage = s BY <1>1 DEF Calls
<1>3. QED BY <1>2, Quiet

LEMMA BusyFacts ==
  ASSUME IInv, call.stage # "idle"
  PROVE  call.op # "none"
BY DEF IInv, CallInv

(* A message of the call, and the stage it then awaits.                    *)
LEMMA NextSendKeeps ==
  ASSUME IInv, NEW msg, NEW n, NEW s, Next_send(msg, n, s),
         call.op # "none", call.stage # "cmd",
         msg \in {"unsub", "query"}, s \in {"elicit", "runsub", "relicit", "funsub"},
         s = "funsub" => call.stage = "fsub",
         s = "runsub" => call.stage = "rsub" /\ msg = "unsub",
         s = "relicit" => call.stage = "runsub" /\ msg = "query"
  PROVE  IInv' /\ Honest
<1>1. /\ Write(dev, inflight, msg, n) /\ call' = [call EXCEPT !.stage = s]
      /\ UNCHANGED <<state, parsed, result, saw>>
      /\ is_connected' = is_connected /\ timeouts' = timeouts
  BY DEF Next_send, Send, health
<1>2. is_connected' \in BOOLEAN /\ timeouts' \in 0 .. 1
  BY <1>1 DEF IInv, TypeOK
<1>3. s = "funsub" => call.op = "poll" /\ saw # {}
  BY DEF IInv, FlowInv
<1>4. GoesOn(dev, inflight, msg, n, s, call.attempt, call.rattempt, call.ret)
  BY <1>1, <1>2, <1>3, StageSet DEF GoesOn, Stages
<1>5. QED BY <1>4, GoesOnKeeps

LEMMA RecoverKeeps ==
  ASSUME IInv, NEW n \in 1 .. 2, _recover_status(n),
         call.op # "none", call.stage # "cmd"
  PROVE  IInv' /\ Honest
<1> DEFINE msg == IF HasFlow THEN "sub" ELSE "query"
           s   == IF HasFlow THEN "rsub" ELSE "relicit"
<1>1. /\ Write(Dropped, None, msg, 0)
      /\ call' = [call EXCEPT !.stage = s, !.rattempt = n]
      /\ UNCHANGED <<state, parsed, result, saw>>
      /\ is_connected' = is_connected /\ timeouts' = timeouts
  <2>1. UNCHANGED <<state, parsed, health, result, saw>> BY DEF _recover_status
  <2>2. /\ Write(Dropped, None, msg, 0)
        /\ call' = [call EXCEPT !.stage = s, !.rattempt = n]
    BY DEF _recover_status, SendFresh
  <2>3. QED BY <2>1, <2>2 DEF health
<1>2. is_connected' \in BOOLEAN /\ timeouts' \in 0 .. 1
  BY <1>1 DEF IInv, TypeOK
<1>3. /\ call.attempt \in 1 .. 2 /\ call.ret \in {"command", "check", "raised"}
      /\ call' = [call EXCEPT !.stage = s, !.attempt = call.attempt,
                              !.rattempt = n, !.ret = call.ret]
  BY <1>1 DEF IInv, TypeOK, Calls
<1>4. GoesOn(Dropped, None, msg, 0, s, call.attempt, n, call.ret)
  BY <1>1, <1>2, <1>3 DEF GoesOn, Stages
<1>5. QED BY <1>4, GoesOnKeeps

LEMMA CommandDrainedKeeps ==
  ASSUME IInv, CommandDrained
  PROVE  IInv' /\ Honest
<1>1. call.stage = "cmd" BY DEF CommandDrained, Drained
<1>2. call.op # "none" BY <1>1, BusyFacts
<1>3. /\ call \in Calls
      /\ call.op = "start" => call.arg \in Durations
      /\ call.op = "set" => call.arg \in Delays
      /\ call.op \notin {"start", "set"} => call.arg = 0
  BY DEF IInv, TypeOK, CallInv
<1>4. CASE call.op = "start" /\ is_watering /\ StartConfirmed
  BY <1>4, StartConfirmedKeeps
<1>5. CASE /\ call.op = "stop" \/ (call.op = "start" /\ ~is_watering)
           /\ refresh_status(call)
           /\ UNCHANGED <<state, health, result, saw>>
  <2>1. /\ is_watering' = is_watering /\ off' = off
        /\ rdm' = rdm /\ rdPast' = rdPast
        /\ UNCHANGED <<health, result>> /\ saw' = saw
    BY <1>5 DEF state
  <2>2. /\ rdm' \in Delays \cup {0} /\ rdPast' \in BOOLEAN
        /\ saw' \subseteq RunStates \cup WStatuses
    BY <2>1 DEF IInv, TypeOK
  <2>3. call.op \notin {"set", "clear"} BY <1>5
  <2>4. IInv' BY <1>2, <1>3, <1>5, <2>1, <2>2, <2>3, AskKeeps
  <2>5. QED BY <1>2, <1>3, <1>5, <2>4, AskQuiet
<1>6. CASE /\ call.op \in {"set", "clear"}
           /\ rdm' = call.arg /\ rdPast' = FALSE
           /\ refresh_status(call)
           /\ UNCHANGED <<is_watering, off, health, result, saw>>
  <2>1. /\ is_watering' = is_watering /\ off' = off
        /\ UNCHANGED <<health, result>> /\ saw' = saw
    BY <1>6
  <2>2. /\ rdm' \in Delays \cup {0} /\ rdPast' \in BOOLEAN
        /\ saw' \subseteq RunStates \cup WStatuses
    BY <1>3, <1>6, <2>1 DEF IInv, TypeOK
  <2>3. IInv' BY <1>2, <1>3, <1>6, <2>1, <2>2, AskKeeps
  <2>4. QED BY <1>2, <1>3, <1>6, <2>3, AskQuiet
<1>7. QED BY <1>4, <1>5, <1>6 DEF CommandDrained

LEMMA ElicitedKeeps ==
  ASSUME IInv, Elicited
  PROVE  IInv' /\ Honest
<1>1. call.stage = "elicit" /\ call.op # "none"
  BY BusyFacts DEF Elicited, Drained
<1>2. CASE parsed /\ Refreshed BY <1>1, <1>2, RefreshedKeeps
<1>3. CASE _recover_status(1) BY <1>1, <1>3, RecoverKeeps
<1>4. QED BY <1>2, <1>3 DEF Elicited

LEMMA RecoverElicitedKeeps ==
  ASSUME IInv, RecoverElicited
  PROVE  IInv' /\ Honest
<1>1. call.stage = "relicit" /\ call.op # "none"
  BY BusyFacts DEF RecoverElicited, Drained
<1>2. CASE parsed /\ Refreshed BY <1>1, <1>2, RefreshedKeeps
<1>3. CASE ~parsed /\ Next_send("delay", _noop_rain_delay_pb, "rnoop")
  <2>1. /\ Write(dev, inflight, "delay", _noop_rain_delay_pb)
        /\ call' = [call EXCEPT !.stage = "rnoop"]
        /\ UNCHANGED <<state, parsed, result, saw>>
        /\ is_connected' = is_connected /\ timeouts' = timeouts
    BY <1>3 DEF Next_send, Send, health
  <2>2. is_connected' \in BOOLEAN /\ timeouts' \in 0 .. 1
    BY <2>1 DEF IInv, TypeOK
  <2>3. _noop_rain_delay_pb \in Delays \cup {0}
    BY DEF _noop_rain_delay_pb, IInv, TypeOK
  <2>4. GoesOn(dev, inflight, "delay", _noop_rain_delay_pb, "rnoop",
               call.attempt, call.rattempt, call.ret)
    BY <1>1, <2>1, <2>2, <2>3, StageSet DEF GoesOn, Stages
  <2>5. IInv' BY <2>4, SendKeeps
  <2>6. call'.op # "none"
    BY <1>1, <2>1 DEF IInv, TypeOK, Calls
  <2>7. NoopSpares
    <3>1. SUFFICES ASSUME call.op \in {"set", "clear"}, call.ret = "check"
                   PROVE  dev'.delay \in {dev.delay, call.arg}
      BY DEF NoopSpares
    <3>2. Checks BY <1>1, <3>1 DEF Checks
    <3>3. _noop_rain_delay_pb = call.arg
      BY <1>3, <3>2 DEF _noop_rain_delay_pb, IInv, DelayInv
    <3>4. Wrote(dev, inflight, "delay", _noop_rain_delay_pb)
      BY <2>1, <2>3, WriteFacts DEF IInv, TypeOK, Messages
    <3>5. QED BY <3>3, <3>4 DEF Wrote
  <2>8. QED
    BY <2>5, <2>6, <2>7
    DEF Honest, PollEndsWell, DelayEndsWell, StopEndsWell, Ends
<1>4. QED BY <1>2, <1>3 DEF RecoverElicited

LEMMA RecoverEchoedKeeps ==
  ASSUME IInv, RecoverEchoed
  PROVE  IInv' /\ Honest
<1>1. /\ call.stage = "rnoop" /\ call.op # "none"
      /\ Losses \/ inflight = None
  BY BusyFacts DEF RecoverEchoed, Drained
<1>2. Losses \/ parsed BY <1>1 DEF IInv, RecoverInv
<1>3. CASE Refreshed BY <1>1, <1>2, <1>3, RefreshedKeeps
<1>4. CASE _recover_status(2) BY <1>1, <1>4, RecoverKeeps
<1>5. QED BY <1>3, <1>4 DEF RecoverEchoed

LEMMA RecoverRaisesKeeps ==
  ASSUME IInv, RecoverRaises
  PROVE  IInv' /\ Honest
<1>1. call.stage \notin {"cmd", "idle"} /\ call.op # "none" /\ Losses
  BY BusyFacts DEF RecoverRaises, Raised
<1>2. CASE Refreshed BY <1>1, <1>2, RefreshedKeeps
<1>3. CASE _recover_status(2) BY <1>1, <1>3, RecoverKeeps
<1>4. QED BY <1>2, <1>3 DEF RecoverRaises

LEMMA PollFailsKeeps ==
  ASSUME IInv, PollFails, call.op = "poll", Losses \/ saw # {}
  PROVE  IInv' /\ Honest
<1>1. timeouts' = 1 BY FailFacts DEF PollFails, IInv, TypeOK
<1>2. is_connected' \in BOOLEAN /\ PollEnds BY DEF PollFails
<1>3. timeouts' \in 0 .. 1 BY <1>1
<1>4. QED BY <1>1, <1>2, <1>3, PollEndsKeeps

LEMMA SendRaisesKeeps ==
  ASSUME IInv, SendRaises
  PROVE  IInv' /\ Honest
<1>1. call.op # "none" /\ Losses
  BY BusyFacts DEF SendRaises, Raised
<1>2. CASE call.op = "poll" /\ PollFails BY <1>1, <1>2, PollFailsKeeps
<1>3. CASE call.op # "poll" /\ Returns("raised")
  BY <1>1, <1>3, ReturnsKeeps DEF GoodLink
<1>4. QED BY <1>2, <1>3 DEF SendRaises

LEMMA FlowReturnsKeeps ==
  ASSUME IInv, FlowReturns, call.op = "poll", call.stage # "cmd", saw # {}
  PROVE  IInv' /\ Honest
<1>1. /\ is_connected' = is_connected /\ timeouts' = timeouts
      /\ PollEnds \/ ReadPrograms
  BY DEF FlowReturns, health
<1>2. is_connected' \in BOOLEAN /\ timeouts' \in 0 .. 1
  BY <1>1 DEF IInv, TypeOK
<1>3. CASE PollEnds BY <1>2, <1>3, PollEndsKeeps
<1>4. CASE ReadPrograms BY <1>2, <1>4, ReadProgramsKeeps
<1>5. QED BY <1>1, <1>3, <1>4

(* The flow reading: its stages belong to a poll that has read.            *)
LEMMA FlowKeeps ==
  ASSUME IInv, FlowSampled \/ FlowRaises \/ FlowDone \/ ProgramsRead
  PROVE  IInv' /\ Honest
<1>1. /\ call.stage \in {"fsub", "funsub", "programs"}
      /\ call.op = "poll" /\ saw # {} /\ (call.stage = "fsub" => HasFlow)
  BY DEF FlowSampled, FlowRaises, FlowDone, ProgramsRead, Drained, Raised,
         IInv, FlowInv
<1>2. ASSUME UNCHANGED health
      PROVE  is_connected' \in BOOLEAN /\ timeouts' \in 0 .. 1
  <2>1. is_connected' = is_connected /\ timeouts' = timeouts BY <1>2 DEF health
  <2>2. QED BY <2>1 DEF IInv, TypeOK
<1>3. ASSUME Next_send("unsub", 0, "funsub"), call.stage = "fsub"
      PROVE  IInv' /\ Honest
  BY <1>1, <1>3, NextSendKeeps
<1>4. ASSUME SendFresh("sub", 0), call' = [call EXCEPT !.attempt = 2],
             UNCHANGED <<state, parsed, health, result, saw>>,
             call.stage = "fsub"
      PROVE  IInv' /\ Honest
  <2>1. /\ Write(Dropped, None, "sub", 0)
        /\ UNCHANGED <<state, parsed, result, saw>> /\ UNCHANGED health
    BY <1>4 DEF SendFresh
  <2>2. PICK at \in 1 .. 2 : call' = [call EXCEPT !.attempt = at]
    <3>1. 2 \in 1 .. 2 OBVIOUS
    <3>2. QED BY <1>4, <3>1
  <2>3. /\ call.rattempt \in 1 .. 2 /\ call.ret \in {"command", "check", "raised"}
        /\ call' = [call EXCEPT !.stage = "fsub", !.attempt = at,
                                !.rattempt = call.rattempt, !.ret = call.ret]
    BY <1>4, <2>2 DEF IInv, TypeOK, Calls
  <2>4. is_connected' \in BOOLEAN /\ timeouts' \in 0 .. 1
    BY <1>2, <2>1
  <2>5. GoesOn(Dropped, None, "sub", 0, "fsub", at, call.rattempt, call.ret)
    BY <1>1, <1>4, <2>1, <2>3, <2>4 DEF GoesOn, Stages
  <2>6. QED BY <2>5, GoesOnKeeps
<1>5. CASE FlowSampled
  <2>1. call.stage = "fsub" BY <1>5 DEF FlowSampled, Drained
  <2>2. QED BY <1>1, <1>3, <1>4, <1>5, <2>1, FlowReturnsKeeps DEF FlowSampled
<1>6. CASE FlowRaises
  <2>1. CASE PollFails BY <1>1, <2>1, PollFailsKeeps
  <2>2. CASE /\ Send("unsub", 0)
             /\ call' = [call EXCEPT !.stage = "funsub", !.ret = "raised"]
             /\ UNCHANGED <<state, parsed, health, result, saw>>
    <3>1. /\ Write(dev, inflight, "unsub", 0)
          /\ UNCHANGED <<state, parsed, result, saw>> /\ UNCHANGED health
      BY <2>2 DEF Send
    <3>2. /\ call.attempt \in 1 .. 2 /\ call.rattempt \in 1 .. 2
          /\ call' = [call EXCEPT !.stage = "funsub", !.attempt = call.attempt,
                                  !.rattempt = call.rattempt, !.ret = "raised"]
      BY <2>2 DEF IInv, TypeOK, Calls
    <3>3. GoesOn(dev, inflight, "unsub", 0, "funsub",
                 call.attempt, call.rattempt, "raised")
      BY <1>1, <1>2, <3>1, <3>2 DEF GoesOn, Stages
    <3>4. QED BY <3>3, GoesOnKeeps
  <2>3. QED BY <1>6, <2>1, <2>2 DEF FlowRaises
<1>7. CASE FlowDone
  <2>1. CASE PollFails BY <1>1, <2>1, PollFailsKeeps
  <2>2. CASE FlowReturns BY <1>1, <2>2, FlowReturnsKeeps
  <2>3. QED BY <1>7, <2>1, <2>2 DEF FlowDone
<1>8. CASE ProgramsRead
  <2>1. PollEnds /\ UNCHANGED health BY <1>8 DEF ProgramsRead
  <2>2. QED BY <1>1, <1>2, <2>1, PollEndsKeeps
<1>9. QED BY <1>5, <1>6, <1>7, <1>8

LEMMA StepKeeps ==
  ASSUME IInv, Step
  PROVE  IInv' /\ Honest
<1>1. CASE Unsubscribed
  BY <1>1, BusyFacts, NextSendKeeps DEF Unsubscribed, Drained
<1>2. CASE RecoverSubscribed
  BY <1>2, BusyFacts, NextSendKeeps DEF RecoverSubscribed, Drained
<1>3. CASE RecoverUnsubscribed
  BY <1>3, BusyFacts, NextSendKeeps DEF RecoverUnsubscribed, Drained
<1>4. QED
  BY <1>1, <1>2, <1>3, CommandDrainedKeeps, ElicitedKeeps, RecoverElicitedKeeps,
     RecoverEchoedKeeps, RecoverRaisesKeeps, SendRaisesKeeps, FlowKeeps DEF Step

-----------------------------------------------------------------------------
(* The calls, and the surroundings. *)

LEMMA CommandsKeep ==
  ASSUME IInv, Commands \/ refresh_state
  PROVE  IInv' /\ Honest
<1>1. NoCall \in Calls BY DEF NoCall, Calls
<1>2. ASSUME NEW o \in {"start", "stop", "clear"}, NEW n, NEW msg,
             Command(o, n, msg),
             msg = IF o = "clear" THEN "delay" ELSE o,
             IF o = "start" THEN n \in Durations ELSE n = 0
      PROVE  IInv' /\ Honest
  <2> DEFINE c == [NoCall EXCEPT !.op = o, !.arg = n, !.stage = "cmd"]
  <2>1. /\ call.op = "none" /\ Write(dev, inflight, msg, n) /\ call' = c
        /\ UNCHANGED <<state, parsed, health, result>> /\ saw' = {}
    BY <1>2 DEF Command, Send
  <2>2. c \in Calls /\ c.stage = "cmd" /\ c.op = o /\ c.arg = n
    <3>1. n \in Durations \cup Delays \cup {0} BY <1>2
    <3>2. QED BY <1>1, <3>1 DEF Calls
  <2>3. inflight = None BY <2>1 DEF IInv, CallInv
  <2> HIDE DEF c
  <2>4. IInv' BY <1>2, <2>1, <2>2, <2>3, CommandKeeps
  <2>5. QED BY <2>1, <2>4, <2>2, Quiet
<1>3. ASSUME NEW c \in Calls, call.op = "none", refresh_status(c),
             \/ c.op = "poll" /\ c.arg = 0
             \/ c.op = "set" /\ c.arg \in Delays /\ c.ret = "command",
             saw' = {}, UNCHANGED <<state, health, result>>
      PROVE  IInv' /\ Honest
  <2>1. /\ is_watering' = is_watering /\ off' = off
        /\ rdm' = rdm /\ rdPast' = rdPast
        /\ UNCHANGED <<health, result>>
    BY <1>3 DEF state
  <2>2. /\ rdm' \in Delays \cup {0} /\ rdPast' \in BOOLEAN
        /\ saw' \subseteq RunStates \cup WStatuses
    BY <1>3, <2>1 DEF IInv, TypeOK
  <2>3. IInv' BY <1>3, <2>1, <2>2, AskKeeps
  <2>4. QED BY <1>3, <2>3, AskQuiet
<1>4. CASE \E d \in Durations : start_watering(d)
  BY <1>2, <1>4 DEF start_watering
<1>5. CASE stop_watering BY <1>2, <1>5 DEF stop_watering
<1>6. CASE clear_rain_delay BY <1>2, <1>6 DEF clear_rain_delay
<1>7. ASSUME NEW m \in Delays, set_rain_delay(m) PROVE IInv' /\ Honest
  <2> DEFINE c == [NoCall EXCEPT !.op = "set", !.arg = m, !.ret = "command"]
  <2>1. c \in Calls /\ c.op = "set" /\ c.arg = m /\ c.ret = "command"
    BY <1>1 DEF Calls
  <2>2. /\ call.op = "none" /\ refresh_status(c) /\ saw' = {}
        /\ UNCHANGED <<state, health, result>>
    BY <1>7 DEF set_rain_delay
  <2> HIDE DEF c
  <2>3. QED BY <1>3, <1>7, <2>1, <2>2
<1>8. CASE refresh_state
  <2> DEFINE c == [NoCall EXCEPT !.op = "poll"]
  <2>1. c \in Calls /\ c.op = "poll" /\ c.arg = 0 BY DEF NoCall, Calls
  <2>2. /\ call.op = "none" /\ refresh_status(c) /\ saw' = {}
        /\ UNCHANGED <<state, health, result>>
    BY <1>8 DEF refresh_state
  <2> HIDE DEF c
  <2>3. QED BY <1>3, <2>1, <2>2
<1>9. QED BY <1>4, <1>5, <1>6, <1>7, <1>8 DEF Commands

LEMMA SurroundingsQuiet ==
  ASSUME call' = call
  PROVE  Honest
<1>1. /\ call'.op # "none" \/ call.op = "none"
      /\ call'.stage # "rnoop" \/ call.stage = "rnoop"
  OBVIOUS
<1>2. QED BY <1>1, Quiet

LEMMA ApplyKeeps ==
  ASSUME IInv, apply_status_plaintext
  PROVE  IInv'
<1>1. /\ inflight # None /\ inflight' = None /\ parsed' = TRUE
      /\ saw' = saw \cup {inflight.run}
      /\ is_watering' = (inflight.run \in {"watering", "in_progress"})
      /\ env' = env /\ dev' = dev /\ call' = call /\ result' = result
      /\ is_connected' = is_connected /\ timeouts' = timeouts
  BY DEF apply_status_plaintext, health
<1>2. /\ Durations' = Durations /\ Delays' = Delays
      /\ Losses' = Losses /\ OthersAct' = OthersAct /\ Notices' = Notices
      /\ GoodLink' = GoodLink
      /\ Devices' = Devices /\ Statuses' = Statuses /\ Calls' = Calls
  BY <1>1, SameTypes
<1>3. /\ inflight.run \in RunStates \cup WStatuses /\ inflight.left \in Nat
      /\ inflight.delay \in Delays \cup {0}
  BY <1>1 DEF IInv, TypeOK, Statuses
<1>4. off' \in {None, off, inflight.left} BY DEF apply_status_plaintext
<1>5. off' \in Int \cup {None}
  BY <1>3, <1>4 DEF IInv, TypeOK
<1>6. /\ inflight.run \in WStatuses => rdm' = rdm /\ rdPast' = rdPast
      /\ inflight.run \notin WStatuses
           => /\ rdm' = IF inflight.run = "rain_delay" THEN inflight.delay ELSE 0
              /\ rdPast' = FALSE
  BY DEF apply_status_plaintext
<1>7. rdm' \in Delays \cup {0} /\ rdPast' \in BOOLEAN
  BY <1>3, <1>6 DEF IInv, TypeOK
<1>8. TypeOK'
  <2>1. is_watering' \in BOOLEAN /\ parsed' \in BOOLEAN BY <1>1
  <2>2. saw' \subseteq RunStates \cup WStatuses BY <1>1, <1>3 DEF IInv, TypeOK
  <2>3. QED BY <1>1, <1>2, <1>5, <1>7, <2>1, <2>2 DEF IInv, TypeOK
<1>9. CallInv' BY <1>1, <1>2 DEF IInv, CallInv
<1>10. FlowInv' BY <1>1 DEF IInv, FlowInv
<1>11. RecoverInv' BY <1>1, <1>2 DEF IInv, RecoverInv
<1>12. DelayInv'
  <2>1. Checks' <=> Checks BY <1>1 DEF Checks
  <2>2. ASSUME ~Notices, Checks
        PROVE  IF rdm' = 0 THEN saw' \cap {"idle", "watering"} # {}
               ELSE "rain_delay" \in saw'
    <3>1. inflight.run \in RunStates
      BY <1>1, <2>2 DEF IInv, DelayInv, Checks
    <3>2. inflight.run \notin WStatuses BY <3>1 DEF RunStates, WStatuses
    <3>3. CASE inflight.run = "rain_delay"
      BY <1>1, <1>6, <3>2, <3>3 DEF IInv, DelayInv
    <3>4. CASE inflight.run \in {"idle", "watering"}
      <4>1. rdm' = 0 BY <1>6, <3>2, <3>4
      <4>2. inflight.run \in saw' \cap {"idle", "watering"} BY <1>1, <3>4
      <4>3. QED BY <4>1, <4>2
    <3>5. QED BY <3>1, <3>3, <3>4 DEF RunStates
  <2>3. QED BY <1>1, <1>2, <2>1, <2>2 DEF DelayInv
<1>13. StopInv' BY <1>1, <1>2 DEF IInv, StopInv
<1>14. OffInv'
  <2>1. ~is_watering' => off' = None BY DEF apply_status_plaintext
  <2>2. GoodLink /\ call.op = "start" => dev'.left <= call.arg
    BY <1>1 DEF IInv, OffInv
  <2>3. ASSUME GoodLink, is_watering', off' # None, dev.left # 0, call.op # "start"
        PROVE  off' >= dev.left
    <3>1. CASE inflight.run = "in_progress"
      <4>1. off' = off BY <2>3, <3>1 DEF apply_status_plaintext
      <4>2. is_watering /\ off # None BY <2>3, <4>1 DEF IInv, OffInv
      <4>3. QED BY <2>3, <4>1, <4>2 DEF IInv, OffInv, OffTimerNotEarly
    <3>2. CASE inflight.run = "watering"
      <4>1. inflight.left >= dev.left BY <1>1, <2>3, <3>2 DEF IInv, OffInv
      <4>2. CASE off' = inflight.left BY <4>1, <4>2
      <4>3. CASE off' = off
        <5>1. is_watering /\ off # None BY <2>3, <4>3 DEF IInv, OffInv
        <5>2. QED BY <2>3, <4>3, <5>1 DEF IInv, OffInv, OffTimerNotEarly
      <4>4. QED BY <1>4, <2>3, <4>2, <4>3
    <3>3. QED BY <1>1, <2>3, <3>1, <3>2
  <2>4. QED BY <1>1, <1>2, <2>1, <2>2, <2>3 DEF OffInv, OffTimerNotEarly
<1>15. QED
  BY <1>8, <1>9, <1>10, <1>11, <1>12, <1>13, <1>14 DEF IInv

LEMMA TickKeeps ==
  ASSUME IInv, Tick
  PROVE  IInv'
<1>1. /\ env' = env /\ inflight' = inflight /\ is_watering' = is_watering
      /\ rdm' = rdm /\ rdPast' = rdPast /\ parsed' = parsed
      /\ is_connected' = is_connected /\ timeouts' = timeouts
      /\ call' = call /\ result' = result /\ saw' = saw
      /\ dev' = [dev EXCEPT !.left = Down(dev.left, 0)]
      /\ off' = IF off = None THEN None ELSE Down(off, 0 - Grace)
  BY DEF Tick, health
<1>2. /\ Durations' = Durations /\ Delays' = Delays
      /\ Losses' = Losses /\ OthersAct' = OthersAct /\ Notices' = Notices
      /\ GoodLink' = GoodLink
      /\ Devices' = Devices /\ Statuses' = Statuses /\ Calls' = Calls
  BY <1>1, SameTypes
<1>3. /\ Grace \in Nat /\ None \notin Int /\ dev.left \in Nat
      /\ off \in Int \cup {None}
  BY ConstantsAssumption DEF IInv, TypeOK, Devices
<1>4. Down(dev.left, 0) = IF dev.left = 0 THEN 0 ELSE dev.left - 1
  BY <1>3 DEF Down
<1>5. /\ dev' \in Devices /\ dev'.left = Down(dev.left, 0)
      /\ dev'.sub = dev.sub /\ dev'.here = dev.here /\ dev'.delay = dev.delay
  <2>1. Down(dev.left, 0) \in Nat BY <1>3, <1>4
  <2>2. QED BY <1>1, <2>1 DEF IInv, TypeOK, Devices
<1>6. /\ dev'.left \in Nat /\ dev'.left <= dev.left
      /\ dev'.left # 0 => dev'.left = dev.left - 1
  BY <1>3, <1>4, <1>5
<1>7. off' \in Int \cup {None}
  BY <1>1, <1>3 DEF Down
<1>8. off' # None <=> off # None
  BY <1>1, <1>3 DEF Down
<1>9. TypeOK' BY <1>1, <1>2, <1>5, <1>7 DEF IInv, TypeOK
<1>10. CallInv' BY <1>1, <1>2 DEF IInv, CallInv
<1>11. FlowInv' BY <1>1, <1>5 DEF IInv, FlowInv
<1>12. RecoverInv' BY <1>1, <1>2, <1>5 DEF IInv, RecoverInv
<1>13. DelayInv'
  <2>1. Checks' <=> Checks BY <1>1 DEF Checks
  <2>2. QED BY <1>1, <1>2, <2>1 DEF IInv, DelayInv
<1>14. StopInv'
  <2>1. dev.left = 0 => dev'.left = 0 BY <1>4, <1>5
  <2>2. QED BY <1>1, <1>2, <2>1 DEF IInv, StopInv
<1>15. OffInv'
  <2>1. ~is_watering' => off' = None BY <1>1, <1>8 DEF IInv, OffInv
  <2>2. ASSUME GoodLink, call.op = "start" PROVE dev'.left <= call.arg
    <3>1. call.arg \in Nat BY <2>2, EnvironmentTypes DEF IInv, TypeOK, CallInv
    <3>2. dev.left <= call.arg BY <2>2 DEF IInv, OffInv
    <3>3. QED BY <1>3, <1>6, <3>1, <3>2
  <2>3. ASSUME GoodLink, inflight # None, inflight.run = "watering"
        PROVE  inflight.left >= dev'.left
    <3>1. inflight.left \in Nat BY <2>3 DEF IInv, TypeOK, Statuses
    <3>2. inflight.left >= dev.left BY <2>3 DEF IInv, OffInv
    <3>3. QED BY <1>3, <1>6, <3>1, <3>2
  <2>4. ASSUME GoodLink, is_watering, off # None, dev'.left # 0, call.op # "start"
        PROVE  off' >= dev'.left
    <3>1. dev.left # 0 /\ dev'.left = dev.left - 1 BY <1>3, <1>6, <2>4
    <3>2. off \in Int /\ off >= dev.left
      BY <1>3, <2>4, <3>1 DEF IInv, OffInv, OffTimerNotEarly
    <3>3. off' = off - 1
      BY <1>1, <1>3, <2>4, <3>1, <3>2 DEF Down
    <3>4. QED BY <1>3, <3>1, <3>2, <3>3
  <2>5. OffTimerNotEarly'
    BY <1>1, <1>2, <1>8, <2>4 DEF OffTimerNotEarly
  <2>6. QED BY <1>1, <1>2, <2>1, <2>2, <2>3, <2>5 DEF OffInv
<1>16. QED
  BY <1>9, <1>10, <1>11, <1>12, <1>13, <1>14, <1>15 DEF IInv

LEMMA DelayEndsKeeps ==
  ASSUME IInv, NEW m \in Delays, DelayEnds(m)
  PROVE  IInv'
<1>1. /\ env' = env /\ inflight' = inflight /\ is_watering' = is_watering
      /\ off' = off /\ rdm' = rdm /\ parsed' = parsed
      /\ is_connected' = is_connected /\ timeouts' = timeouts
      /\ call' = call /\ result' = result /\ saw' = saw
      /\ dev' = [dev EXCEPT !.delay = IF dev.delay = m THEN 0 ELSE dev.delay]
      /\ rdPast' = (rdPast \/ rdm = m)
  BY DEF DelayEnds, health
<1>2. /\ Durations' = Durations /\ Delays' = Delays
      /\ Losses' = Losses /\ OthersAct' = OthersAct /\ Notices' = Notices
      /\ GoodLink' = GoodLink
      /\ Devices' = Devices /\ Statuses' = Statuses /\ Calls' = Calls
  BY <1>1, SameTypes
<1>3. /\ dev' \in Devices /\ dev'.left = dev.left
      /\ dev'.sub = dev.sub /\ dev'.here = dev.here
  BY <1>1 DEF IInv, TypeOK, Devices
<1>4. rdPast' \in BOOLEAN BY <1>1
<1>5. TypeOK' BY <1>1, <1>2, <1>3, <1>4 DEF IInv, TypeOK
<1>6. CallInv' BY <1>1, <1>2 DEF IInv, CallInv
<1>7. FlowInv' BY <1>1, <1>3 DEF IInv, FlowInv
<1>8. RecoverInv' BY <1>1, <1>2, <1>3 DEF IInv, RecoverInv
<1>9. DelayInv'
  <2>1. Checks' <=> Checks BY <1>1 DEF Checks
  <2>2. ASSUME Checks, ~parsed PROVE rdm = call.arg /\ ~rdPast'
    <3>1. rdm = call.arg /\ ~rdPast BY <2>2 DEF IInv, DelayInv
    <3>2. m # 0 BY EnvironmentTypes DEF IInv, TypeOK
    <3>3. call.op = "set" => call.arg # m BY DEF DelayEnds
    <3>4. call.op = "clear" => call.arg = 0 BY DEF IInv, CallInv
    <3>5. rdm # m BY <2>2, <3>1, <3>2, <3>3, <3>4 DEF Checks
    <3>6. QED BY <1>1, <3>1, <3>5
  <2>3. QED BY <1>1, <1>2, <2>1, <2>2 DEF IInv, DelayInv
<1>10. StopInv' BY <1>1, <1>2, <1>3 DEF IInv, StopInv
<1>11. OffInv' BY <1>1, <1>2, <1>3 DEF IInv, OffInv, OffTimerNotEarly
<1>12. QED
  BY <1>5, <1>6, <1>7, <1>8, <1>9, <1>10, <1>11 DEF IInv

(* A step of the device or of the link alone.                              *)
LEMMA OutsideKeeps ==
  ASSUME IInv, env' = env, dev' \in Devices,
         inflight' \in Statuses \cup {None},
         UNCHANGED <<state, parsed, health, call, result, saw>>,
         dev'.sub = dev.sub, Losses \/ dev'.here = dev.here,
         GoodLink => dev'.left = dev.left,
         inflight' # inflight =>
           \/ inflight' = None /\ Losses
           \/ /\ Notices /\ call.op # "none" /\ dev' = dev
              /\ inflight' \in {Status(dev), WateringStatus(dev)}
  PROVE  IInv'
<1>1. /\ is_watering' = is_watering /\ off' = off
      /\ rdm' = rdm /\ rdPast' = rdPast /\ parsed' = parsed
      /\ is_connected' = is_connected /\ timeouts' = timeouts
      /\ call' = call /\ result' = result /\ saw' = saw
  BY DEF state, health
<1>2. /\ Durations' = Durations /\ Delays' = Delays
      /\ Losses' = Losses /\ OthersAct' = OthersAct /\ Notices' = Notices
      /\ GoodLink' = GoodLink
      /\ Devices' = Devices /\ Statuses' = Statuses /\ Calls' = Calls
  BY SameTypes
<1>3. ASSUME inflight' # None
      PROVE  \/ inflight' = inflight
             \/ Notices /\ call.op # "none" /\ inflight' = Status(dev)
             \/ Notices /\ call.op # "none" /\ inflight' = WateringStatus(dev)
  BY <1>3
<1>4. /\ Status(dev).left = dev.left /\ Status(dev).delay = dev.delay
      /\ Status(dev).run \in RunStates
      /\ Status(dev).run = "watering" <=> dev.left # 0
      /\ Status(dev).run = "rain_delay" => dev.delay # 0
      /\ Status(dev) # None
  BY StatusFacts DEF IInv, TypeOK
<1>5. /\ WateringStatus(dev).run \in WStatuses /\ WateringStatus(dev) # None
      /\ WateringStatus(dev).run = "in_progress" => dev.left # 0
  BY WateringStatusFacts DEF IInv, TypeOK
<1>6. TypeOK' BY <1>1, <1>2 DEF IInv, TypeOK
<1>7. CallInv' BY <1>1, <1>2, <1>3 DEF IInv, CallInv
<1>8. FlowInv' BY <1>1 DEF IInv, FlowInv
<1>9. RecoverInv'
  <2>1. ~Losses /\ inflight # None => inflight' # None BY <1>4, <1>5
  <2>2. QED BY <1>1, <1>2, <2>1 DEF IInv, RecoverInv
<1>10. DelayInv'
  <2>1. Checks' <=> Checks BY <1>1 DEF Checks
  <2>2. WateringStatus(dev).run # "rain_delay" BY <1>5 DEF WStatuses
  <2>3. inflight' # None /\ inflight'.run = "rain_delay" => inflight'.delay # 0
    BY <1>3, <1>4, <2>2 DEF IInv, DelayInv
  <2>4. ~Notices /\ call.op \in {"set", "clear"} /\ inflight' # None
          => inflight'.run \in RunStates
    BY <1>3 DEF IInv, DelayInv
  <2>5. QED BY <1>1, <1>2, <2>1, <2>3, <2>4 DEF IInv, DelayInv
<1>11. StopInv'
  <2>1. SUFFICES ASSUME GoodLink, call.op = "stop" PROVE StopInv'
    BY <1>1, <1>2 DEF StopInv
  <2>2. dev.left = 0 BY <2>1 DEF IInv, StopInv
  <2>3. /\ Status(dev).run \notin {"watering", "in_progress"}
        /\ WateringStatus(dev).run \notin {"watering", "in_progress"}
    BY <1>4, <1>5, <2>2 DEF RunStates, WStatuses
  <2>4. inflight' # None => inflight'.run \notin {"watering", "in_progress"}
    BY <1>3, <2>1, <2>3 DEF IInv, StopInv
  <2>5. QED BY <1>1, <1>2, <2>1, <2>2, <2>4 DEF IInv, StopInv
<1>12. OffInv'
  <2>1. ASSUME GoodLink, inflight' # None, inflight'.run = "watering"
        PROVE  inflight'.left >= dev'.left
    <3>1. dev'.left = dev.left /\ dev.left \in Nat
      BY <2>1 DEF IInv, TypeOK, Devices
    <3>2. CASE inflight' = inflight BY <2>1, <3>1, <3>2 DEF IInv, OffInv
    <3>3. CASE inflight' = Status(dev) BY <1>4, <3>1, <3>3
    <3>4. inflight' # WateringStatus(dev) BY <1>5, <2>1 DEF WStatuses
    <3>5. QED BY <1>3, <2>1, <3>2, <3>3, <3>4
  <2>2. QED BY <1>1, <1>2, <2>1 DEF IInv, OffInv, OffTimerNotEarly
<1>13. QED
  BY <1>6, <1>7, <1>8, <1>9, <1>10, <1>11, <1>12 DEF IInv

LEMMA SurroundingsKeep ==
  ASSUME IInv, OtherCommands \/ Announces \/ LinkDrops
  PROVE  IInv'
<1>1. /\ env \in Environments /\ dev \in Devices
      /\ inflight \in Statuses \cup {None}
  BY DEF IInv, TypeOK
<1>2. CASE OtherCommands
  <2>1. /\ env' = env /\ inflight' = inflight /\ OthersAct
        /\ UNCHANGED <<state, parsed, health, call, result, saw>>
    BY <1>2 DEF OtherCommands
  <2>2. /\ Durations \cup {0} \subseteq Nat
    BY <1>1, EnvironmentTypes
  <2>3. dev' \in Devices /\ dev'.sub = dev.sub /\ dev'.here = dev.here
    <3>1. CASE \E d \in Durations \cup {0} : dev' = [dev EXCEPT !.left = d]
      BY <1>1, <2>2, <3>1 DEF Devices
    <3>2. CASE \E m \in Delays \cup {0} : dev' = [dev EXCEPT !.delay = m]
      BY <1>1, <3>2 DEF Devices
    <3>3. QED BY <1>2, <3>1, <3>2 DEF OtherCommands
  <2>4. ~GoodLink BY <2>1 DEF GoodLink
  <2>5. QED BY <1>1, <2>1, <2>3, <2>4, OutsideKeeps
<1>3. CASE Announces
  <2>1. /\ env' = env /\ dev' = dev /\ Notices /\ call.op # "none"
        /\ UNCHANGED <<state, parsed, health, call, result, saw>>
        /\ inflight' \in {Status(dev), WateringStatus(dev)}
    BY <1>3 DEF Announces
  <2>2. inflight' \in Statuses
    BY <1>1, <2>1, StatusFacts, WateringStatusFacts
  <2>3. QED BY <1>1, <2>1, <2>2, OutsideKeeps
<1>4. CASE LinkDrops
  <2>1. /\ env' = env /\ dev' = Dropped /\ inflight' = None /\ Losses
        /\ UNCHANGED <<state, parsed, health, call, result, saw>>
    BY <1>4 DEF LinkDrops
  <2>2. dev' \in Devices /\ dev'.sub = dev.sub /\ dev'.left = dev.left
    BY <1>1, <2>1, DroppedFacts
  <2>3. QED BY <1>1, <2>1, <2>2, OutsideKeeps
<1>5. QED BY <1>2, <1>3, <1>4

-----------------------------------------------------------------------------
(* The invariant, and the theorems. *)

LEMMA InitHolds == Init => IInv
<1> SUFFICES ASSUME Init PROVE IInv OBVIOUS
<1>1. /\ env \in Environments /\ inflight = None
      /\ is_watering = FALSE /\ off = None /\ rdm = 0 /\ rdPast = FALSE
      /\ parsed = FALSE /\ is_connected = FALSE /\ timeouts = 0
      /\ call = NoCall /\ result = "false" /\ saw = {}
  BY DEF Init
<1>2. Durations \cup {0} \subseteq Nat BY <1>1, EnvironmentTypes
<1>3. dev \in Devices /\ (HasFlow \/ ~dev.sub)
  BY <1>2 DEF Init, Devices
<1>4. /\ call \in Calls /\ call.op = "none" /\ call.stage = "idle"
      /\ call.arg = 0
  BY <1>1 DEF NoCall, Calls
<1>5. timeouts \in 0 .. 1 BY <1>1
<1>6. TypeOK BY <1>1, <1>3, <1>4, <1>5 DEF TypeOK
<1>7. CallInv /\ FlowInv /\ RecoverInv BY <1>1, <1>3, <1>4 DEF CallInv, FlowInv, RecoverInv
<1>8. DelayInv /\ StopInv BY <1>1, <1>4 DEF DelayInv, StopInv, Checks
<1>9. OffInv BY <1>1, <1>4 DEF OffInv, OffTimerNotEarly
<1>10. QED BY <1>6, <1>7, <1>8, <1>9 DEF IInv

LEMMA NextKeeps ==
  ASSUME IInv, Next
  PROVE  IInv' /\ Honest
<1>1. CASE Commands \/ refresh_state BY <1>1, CommandsKeep
<1>2. CASE Step BY <1>2, StepKeeps
<1>3. CASE apply_status_plaintext
  <2>1. call' = call BY <1>3 DEF apply_status_plaintext
  <2>2. QED BY <1>3, <2>1, ApplyKeeps, SurroundingsQuiet
<1>4. CASE Tick
  <2>1. call' = call BY <1>4 DEF Tick
  <2>2. QED BY <1>4, <2>1, TickKeeps, SurroundingsQuiet
<1>5. CASE \E m \in Delays : DelayEnds(m)
  <2>1. call' = call BY <1>5 DEF DelayEnds
  <2>2. QED BY <1>5, <2>1, DelayEndsKeeps, SurroundingsQuiet
<1>6. CASE OtherCommands \/ Announces \/ LinkDrops
  <2>1. call' = call BY <1>6 DEF OtherCommands, Announces, LinkDrops
  <2>2. QED BY <1>6, <2>1, SurroundingsKeep, SurroundingsQuiet
<1>7. QED BY <1>1, <1>2, <1>3, <1>4, <1>5, <1>6 DEF Next

LEMMA StutterKeeps == IInv /\ UNCHANGED vars => IInv'
<1> SUFFICES ASSUME IInv, UNCHANGED vars PROVE IInv' OBVIOUS
<1>1. /\ env' = env /\ dev' = dev /\ inflight' = inflight
      /\ UNCHANGED <<state, parsed, health, call, result, saw>>
  BY DEF vars
<1>2. dev' \in Devices /\ inflight' \in Statuses \cup {None}
  BY <1>1 DEF IInv, TypeOK
<1>3. QED BY <1>1, <1>2, OutsideKeeps

LEMMA Inductive == Spec => []IInv
<1>1. IInv /\ [Next]_vars => IInv' BY NextKeeps, StutterKeeps
<1>2. QED BY InitHolds, <1>1, PTL DEF Spec

(* Every variable keeps to its type.                                       *)
THEOREM TypeCorrect == Spec => []TypeOK
<1>1. IInv => TypeOK BY DEF IInv
<1>2. QED BY <1>1, Inductive, PTL

(* refresh_state never stamps a phantom success: a poll during which       *)
(* nothing decoded is counted as a timeout.                                *)
THEOREM PollsAreReal == Spec => NoPhantomPoll
<1>1. IInv /\ [Next]_vars => [Ends("poll") /\ saw = {} => timeouts' = 1]_vars
  BY NextKeeps DEF Honest, PollEndsWell
<1>2. QED BY <1>1, Inductive, PTL DEF Spec, NoPhantomPoll

(* set_rain_delay and clear_rain_delay confirm only what the device said.  *)
THEOREM DelaysAreEchoed == Spec => DelayNeedsEcho
<1>1. IInv /\ [Next]_vars => [DelayEndsWell]_vars
  BY NextKeeps DEF Honest
<1>2. QED BY <1>1, Inductive, PTL DEF Spec, DelayNeedsEcho, DelayEndsWell

(* The delay _recover_status writes never undoes the command it reads for. *)
THEOREM CommandsAreSpared == Spec => RecoverySparesCommand
<1>1. IInv /\ [Next]_vars => [NoopSpares]_vars
  BY NextKeeps DEF Honest
<1>2. QED BY <1>1, Inductive, PTL DEF Spec, RecoverySparesCommand, NoopSpares

(* On a link that loses nothing a poll always gets a status.               *)
THEOREM PollsAlwaysRead == Spec => PollAlwaysReads
<1>1. IInv /\ [Next]_vars => [~Losses /\ Ends("poll") => saw # {}]_vars
  BY NextKeeps DEF Honest, PollEndsWell
<1>2. QED BY <1>1, Inductive, PTL DEF Spec, PollAlwaysReads

(* On a good link stop_watering returns True, with the valve closed.       *)
THEOREM StopsClose == Spec => StopCloses
<1>1. IInv /\ [Next]_vars => [StopEndsWell]_vars
  BY NextKeeps DEF Honest
<1>2. QED BY <1>1, Inductive, PTL DEF Spec, StopCloses, StopEndsWell

(* On a good link the wall-clock auto-close of the coordinator never runs  *)
(* ahead of the valve's own timer.                                         *)
THEOREM OffTimerIsNotEarly == Spec => []OffTimerNotEarly
<1>1. IInv => OffTimerNotEarly BY DEF IInv, OffInv
<1>2. QED BY <1>1, Inductive, PTL

-----------------------------------------------------------------------------
(* How far a running call is from its end.  A round is a command or the    *)
(* read before it, with the status read that follows and the two attempts  *)
(* of its recovery; the second attempt of a start or a stop is a round of  *)
(* its own, and so is the command of set_rain_delay after its read.  A     *)
(* poll goes on with the flow, in two attempts, and the programs.          *)
Rounds(c) ==
  IF c.op \in {"start", "stop"} THEN 2 - c.attempt
  ELSE IF c.op = "set" /\ c.ret = "command" THEN 1
  ELSE 0

Recovery(c) == IF c.rattempt = 1 THEN 4 ELSE 0

Place(c) ==
  CASE c.stage = "cmd"      -> 15
    [] c.stage = "unsub"    -> 14
    [] c.stage = "elicit"   -> 13
    [] c.stage = "rsub"     -> Recovery(c) + 8
    [] c.stage = "runsub"   -> Recovery(c) + 7
    [] c.stage = "relicit"  -> Recovery(c) + 6
    [] c.stage = "rnoop"    -> Recovery(c) + 5
    [] c.stage = "fsub"     -> IF c.attempt = 1 THEN 4 ELSE 3
    [] c.stage = "funsub"   -> 2
    [] c.stage = "programs" -> 1
    [] OTHER                -> 0

DrainsLeft(c) == 16 * Rounds(c) + Place(c)

(* A call never goes back: no retry, recovery or second session is taken   *)
(* twice, whatever is lost, raised or read meanwhile, so that _api_lock    *)
(* is given back after at most DrainsLeft drains (protobuf.py).            *)
CallDescends ==
  [][call.op # "none" /\ call' # call
       => DrainsLeft(call') \in 0 .. DrainsLeft(call) - 1]_vars

LEMMA PlaceOf ==
  ASSUME NEW c \in Calls
  PROVE  /\ Recovery(c) \in {0, 4}
         /\ c.rattempt = 1 => Recovery(c) = 4
         /\ c.rattempt = 2 => Recovery(c) = 0
         /\ c.stage = "cmd" => Place(c) = 15
         /\ c.stage = "unsub" => Place(c) = 14
         /\ c.stage = "elicit" => Place(c) = 13
         /\ c.stage = "rsub" => Place(c) = Recovery(c) + 8
         /\ c.stage = "runsub" => Place(c) = Recovery(c) + 7
         /\ c.stage = "relicit" => Place(c) = Recovery(c) + 6
         /\ c.stage = "rnoop" => Place(c) = Recovery(c) + 5
         /\ c.stage = "fsub" => Place(c) = IF c.attempt = 1 THEN 4 ELSE 3
         /\ c.stage = "funsub" => Place(c) = 2
         /\ c.stage = "programs" => Place(c) = 1
         /\ c.stage = "idle" => Place(c) = 0
<1>1. /\ Recovery(c) \in {0, 4} /\ (c.rattempt = 1 => Recovery(c) = 4)
      /\ c.rattempt = 2 => Recovery(c) = 0
  BY DEF Recovery
<1>2. c.stage = "cmd" => Place(c) = 15 BY DEF Place
<1>3. c.stage = "unsub" => Place(c) = 14 BY DEF Place
<1>4. c.stage = "elicit" => Place(c) = 13 BY DEF Place
<1>5. c.stage = "rsub" => Place(c) = Recovery(c) + 8 BY DEF Place
<1>6. c.stage = "runsub" => Place(c) = Recovery(c) + 7 BY DEF Place
<1>7. c.stage = "relicit" => Place(c) = Recovery(c) + 6 BY DEF Place
<1>8. c.stage = "rnoop" => Place(c) = Recovery(c) + 5 BY DEF Place
<1>9. c.stage = "fsub" => Place(c) = IF c.attempt = 1 THEN 4 ELSE 3 BY DEF Place
<1>10. c.stage = "funsub" => Place(c) = 2 BY DEF Place
<1>11. c.stage = "programs" => Place(c) = 1 BY DEF Place
<1>12. c.stage = "idle" => Place(c) = 0 BY DEF Place
<1> QED BY <1>1, <1>2, <1>3, <1>4, <1>5, <1>6, <1>7, <1>8, <1>9, <1>10,
         <1>11, <1>12

LEMMA PlaceBounds ==
  ASSUME NEW c \in Calls
  PROVE  Place(c) \in 0 .. 15 /\ (c.stage # "idle" => Place(c) >= 1)
<1>1. c.stage \in {"idle", "cmd", "unsub", "elicit", "rsub", "runsub",
                  "relicit", "rnoop", "fsub", "funsub", "programs"}
  BY DEF Calls
<1>2. CASE c.stage \in {"rsub", "runsub", "relicit", "rnoop"}
  BY <1>2, PlaceOf
<1>3. CASE c.stage \in {"idle", "cmd", "unsub", "elicit", "funsub", "programs"}
  BY <1>3, PlaceOf
<1>4. CASE c.stage = "fsub"
  BY <1>4, PlaceOf
<1> QED BY <1>1, <1>2, <1>3, <1>4

LEMMA RoundsOf ==
  ASSUME NEW c \in Calls
  PROVE  Rounds(c) \in 0 .. 1
<1>1. c.attempt \in 1 .. 2 BY DEF Calls
<1> QED BY <1>1 DEF Rounds

Below(d, c) == DrainsLeft(d) \in 0 .. DrainsLeft(c) - 1

(* On in the same round.                                                   *)
LEMMA Onward ==
  ASSUME NEW c \in Calls, NEW d \in Calls, Place(d) < Place(c), d.op = c.op,
         d.attempt \in {c.attempt, 2}, d.ret \in {c.ret, "raised"}
  PROVE  Below(d, c)
<1>1. PICK i \in 0 .. 15, j \in 0 .. 15 : i = Place(d) /\ j = Place(c)
  BY PlaceBounds
<1>2. c.attempt \in 1 .. 2 /\ d.attempt \in 1 .. 2 BY DEF Calls
<1>3. Rounds(d) <= Rounds(c)
  <2>1. CASE c.op \in {"start", "stop"} BY <1>2, <2>1 DEF Rounds
  <2>2. CASE c.op \notin {"start", "stop"} BY <2>2 DEF Rounds
  <2> QED BY <2>1, <2>2
<1>4. PICK m \in 0 .. 1, n \in 0 .. 1 : m = Rounds(d) /\ n = Rounds(c)
  BY RoundsOf
<1> QED BY <1>1, <1>3, <1>4 DEF Below, DrainsLeft

(* On to the next round.                                                   *)
LEMMA NextRound ==
  ASSUME NEW c \in Calls, NEW d \in Calls, Rounds(d) < Rounds(c)
  PROVE  Below(d, c)
<1>1. PICK i \in 0 .. 15, j \in 0 .. 15 : i = Place(d) /\ j = Place(c)
  BY PlaceBounds
<1>2. PICK m \in 0 .. 1, n \in 0 .. 1 : m = Rounds(d) /\ n = Rounds(c)
  BY RoundsOf
<1> QED BY <1>1, <1>2 DEF Below, DrainsLeft

LEMMA Over ==
  ASSUME NEW c \in Calls, c.stage # "idle"
  PROVE  Below(NoCall, c)
<1>1. DrainsLeft(NoCall) = 0 BY DEF DrainsLeft, Rounds, Place, NoCall
<1>2. PICK j \in 0 .. 15 : j = Place(c) /\ j >= 1 BY PlaceBounds
<1>3. PICK n \in 0 .. 1 : n = Rounds(c) BY RoundsOf
<1> QED BY <1>1, <1>2, <1>3 DEF Below, DrainsLeft

LEMMA FinishBelow ==
  ASSUME IInv, NEW v, Finish(v), call.stage # "idle"
  PROVE  Below(call', call)
<1>1. call' = NoCall /\ call \in Calls BY DEF Finish, IInv, TypeOK
<1> QED BY <1>1, Over

(* What a call does when its read is over, from any stage of the read.     *)
Read == {"elicit", "rsub", "runsub", "relicit", "rnoop"}

LEMMA RefreshedBelow ==
  ASSUME IInv, Refreshed, call.stage \in Read
  PROVE  Below(call', call)
<1>1. call \in Calls BY DEF IInv, TypeOK
<1>2. call.stage # "idle" BY DEF Read
<1>3. PICK j \in 0 .. 15 : j = Place(call) /\ j >= 5
  <2>1. CASE call.stage = "elicit" BY <1>1, <2>1, PlaceOf
  <2>2. CASE call.stage # "elicit"
    <3>1. Recovery(call) \in {0, 4} BY <1>1, PlaceOf
    <3>2. Place(call) \in {Recovery(call) + 8, Recovery(call) + 7,
                           Recovery(call) + 6, Recovery(call) + 5}
      BY <1>1, <2>2, PlaceOf DEF Read
    <3> QED BY <3>1, <3>2
  <2> QED BY <2>1, <2>2
<1>4. ASSUME NEW v, Finish(v) PROVE Below(call', call)
  BY <1>2, <1>4, FinishBelow
<1>5. ASSUME NEW msg, Retry(msg), call.op \in {"start", "stop"},
             call.attempt = 1
      PROVE  Below(call', call)
  <2>1. call' = [call EXCEPT !.stage = "cmd", !.attempt = 2]
    BY <1>5 DEF Retry
  <2>2. call' \in Calls /\ call'.op = call.op /\ call'.attempt = 2
    <3>1. 2 \in 1 .. 2 OBVIOUS
    <3> QED BY <1>1, <2>1, <3>1 DEF Calls
  <2>3. Rounds(call') = 0 /\ Rounds(call) = 1
    BY <1>5, <2>2 DEF Rounds
  <2> QED BY <1>1, <2>2, <2>3, NextRound
<1>6. CASE StartChecked
  BY <1>4, <1>5, <1>6 DEF StartChecked, StartConfirmed, Returns
<1>7. CASE StopChecked
  BY <1>4, <1>5, <1>7 DEF StopChecked, Returns
<1>8. CASE SetSends
  <2>1. /\ call' = [call EXCEPT !.stage = "cmd", !.ret = "check"]
        /\ call.op = "set" /\ call.ret = "command"
    BY <1>8 DEF SetSends
  <2>2. call' \in Calls /\ call'.op = "set" /\ call'.ret = "check"
    BY <1>1, <2>1 DEF Calls
  <2>3. Rounds(call') = 0 /\ Rounds(call) = 1
    BY <2>1, <2>2 DEF Rounds
  <2> QED BY <1>1, <2>2, <2>3, NextRound
<1>9. CASE DelayChecked
  BY <1>4, <1>9 DEF DelayChecked, Returns
<1>10. CASE PollRead
  <2>1. CASE PollEnds BY <1>4, <2>1 DEF PollEnds
  <2>2. ASSUME NEW s \in {"fsub", "programs"}, call' = [call EXCEPT !.stage = s]
        PROVE  Below(call', call)
    <3>1. /\ call' \in Calls /\ call'.stage = s /\ call'.op = call.op
          /\ call'.attempt = call.attempt /\ call'.ret = call.ret
      BY <1>1, <2>2 DEF Calls
    <3>2. Place(call') \in {4, 3, 1} BY <3>1, PlaceOf
    <3> QED BY <1>1, <1>3, <3>1, <3>2, Onward
  <2> QED BY <1>10, <2>1, <2>2 DEF PollRead, ReadPrograms
<1> QED BY <1>6, <1>7, <1>8, <1>9, <1>10 DEF Refreshed

(* A message and the stage it is awaited in.                               *)
LEMMA StageBelow ==
  ASSUME IInv, NEW s, call' = [call EXCEPT !.stage = s],
         \/ call.stage = "cmd" /\ s \in {"unsub", "elicit"}
         \/ call.stage = "unsub" /\ s = "elicit"
         \/ call.stage = "rsub" /\ s = "runsub"
         \/ call.stage = "runsub" /\ s = "relicit"
         \/ call.stage = "relicit" /\ s = "rnoop"
         \/ call.stage = "fsub" /\ s \in {"funsub", "programs"}
         \/ call.stage = "funsub" /\ s = "programs"
  PROVE  Below(call', call)
<1>1. call \in Calls BY DEF IInv, TypeOK
<1>2. /\ call' \in Calls /\ call'.stage = s /\ call'.op = call.op
      /\ call'.attempt = call.attempt /\ call'.ret = call.ret
      /\ call'.rattempt = call.rattempt
  BY <1>1 DEF Calls
<1>3. PICK k \in {0, 4} : k = Recovery(call) /\ k = Recovery(call')
  BY <1>1, <1>2, PlaceOf DEF Recovery
<1>4. Place(call') < Place(call)
  <2>1. CASE call.stage = "cmd"
    <3>1. Place(call) = 15 BY <1>1, <2>1, PlaceOf
    <3>2. Place(call') \in {14, 13} BY <1>2, <2>1, PlaceOf
    <3> QED BY <3>1, <3>2
  <2>2. CASE call.stage = "unsub"
    <3>1. Place(call) = 14 BY <1>1, <2>2, PlaceOf
    <3>2. Place(call') = 13 BY <1>2, <2>2, PlaceOf
    <3> QED BY <3>1, <3>2
  <2>3. CASE call.stage \in {"rsub", "runsub", "relicit"}
    <3>1. /\ call.stage = "rsub" => Place(call) = k + 8
          /\ call.stage = "runsub" => Place(call) = k + 7
          /\ call.stage = "relicit" => Place(call) = k + 6
      BY <1>1, <1>3, PlaceOf
    <3>2. /\ s = "runsub" => Place(call') = k + 7
          /\ s = "relicit" => Place(call') = k + 6
          /\ s = "rnoop" => Place(call') = k + 5
      BY <1>2, <1>3, PlaceOf
    <3> QED BY <2>3, <3>1, <3>2
  <2>4. CASE call.stage = "fsub"
    <3>1. Place(call) \in {4, 3} BY <1>1, <2>4, PlaceOf
    <3>2. Place(call') \in {2, 1} BY <1>2, <2>4, PlaceOf
    <3> QED BY <3>1, <3>2
  <2>5. CASE call.stage = "funsub"
    <3>1. Place(call) = 2 BY <1>1, <2>5, PlaceOf
    <3>2. Place(call') = 1 BY <1>2, <2>5, PlaceOf
    <3> QED BY <3>1, <3>2
  <2> QED BY <2>1, <2>2, <2>3, <2>4, <2>5
<1> QED BY <1>1, <1>2, <1>4, Onward

(* The recovery begins after the status was asked for, and again once.     *)
LEMMA RecoverBelow ==
  ASSUME IInv, NEW n \in 1 .. 2, _recover_status(n),
         \/ n = 1 /\ call.stage = "elicit"
         \/ /\ n = 2 /\ call.rattempt # 2
            /\ call.stage \in {"rsub", "runsub", "relicit", "rnoop"}
  PROVE  Below(call', call)
<1>1. call \in Calls /\ call.rattempt \in 1 .. 2
  BY DEF IInv, TypeOK, Calls
<1>2. PICK s \in {"rsub", "relicit"} :
         call' = [call EXCEPT !.stage = s, !.rattempt = n]
  BY DEF _recover_status
<1>3. /\ call' \in Calls /\ call'.stage = s /\ call'.op = call.op
      /\ call'.attempt = call.attempt /\ call'.ret = call.ret
      /\ call'.rattempt = n
  BY <1>1, <1>2 DEF Calls
<1>4. Place(call') < Place(call)
  <2>1. CASE n = 1 /\ call.stage = "elicit"
    <3>1. Recovery(call') = 4 BY <1>3, <2>1, PlaceOf
    <3> QED BY <1>1, <1>3, <2>1, <3>1, PlaceOf
  <2>2. CASE n = 2 /\ call.rattempt = 1
    <3>1. Recovery(call') = 0 /\ Recovery(call) = 4
      BY <1>1, <1>3, <2>2, PlaceOf
    <3>2. Place(call') \in {8, 6} BY <1>3, <3>1, PlaceOf
    <3>3. Place(call) \in {12, 11, 10, 9} BY <1>1, <2>2, <3>1, PlaceOf
    <3> QED BY <3>2, <3>3
  <2> QED BY <1>1, <2>1, <2>2
<1> QED BY <1>1, <1>3, <1>4, Onward

LEMMA StepBelow ==
  ASSUME IInv, Step
  PROVE  Below(call', call)
<1>1. call \in Calls /\ call.rattempt \in 1 .. 2
  BY DEF IInv, TypeOK, Calls
<1>2. ASSUME NEW v, Finish(v), call.stage # "idle" PROVE Below(call', call)
  BY <1>2, FinishBelow
<1>3. CASE CommandDrained
  <2>1. call.stage = "cmd" BY <1>3 DEF CommandDrained, Drained
  <2>2. CASE StartConfirmed BY <1>2, <2>1, <2>2 DEF StartConfirmed
  <2>3. CASE refresh_status(call)
    BY <2>1, <2>3, StageBelow DEF refresh_status
  <2> QED BY <1>3, <2>2, <2>3 DEF CommandDrained
<1>4. CASE Unsubscribed \/ RecoverSubscribed \/ RecoverUnsubscribed
  BY <1>4, StageBelow
  DEF Unsubscribed, RecoverSubscribed, RecoverUnsubscribed, Drained, Next_send
<1>5. CASE Elicited
  BY <1>5, RefreshedBelow, RecoverBelow DEF Elicited, Drained, Read
<1>6. CASE RecoverElicited
  BY <1>6, RefreshedBelow, StageBelow
  DEF RecoverElicited, Drained, Read, Next_send
<1>7. CASE RecoverEchoed
  BY <1>7, RefreshedBelow, RecoverBelow DEF RecoverEchoed, Drained, Read
<1>8. CASE RecoverRaises
  BY <1>8, RefreshedBelow, RecoverBelow DEF RecoverRaises, Raised, Read
<1>9. CASE SendRaises
  <2>1. call.stage # "idle" BY <1>9 DEF SendRaises, Raised
  <2> QED BY <1>2, <1>9, <2>1 DEF SendRaises, PollFails, PollEnds, Returns
<1>10. ASSUME FlowReturns, call.stage \in {"fsub", "funsub"}
       PROVE  Below(call', call)
  BY <1>2, <1>10, StageBelow DEF FlowReturns, PollEnds, ReadPrograms
<1>11. CASE FlowSampled
  <2>1. call.stage = "fsub" BY <1>11 DEF FlowSampled, Drained
  <2>2. CASE Next_send("unsub", 0, "funsub")
    BY <2>1, <2>2, StageBelow DEF Next_send
  <2>3. CASE FlowReturns BY <1>10, <2>1, <2>3
  <2>4. CASE call.attempt = 1 /\ call' = [call EXCEPT !.attempt = 2]
    <3>1. /\ call' \in Calls /\ call'.stage = "fsub" /\ call'.op = call.op
          /\ call'.attempt = 2 /\ call'.ret = call.ret
      <4>1. 2 \in 1 .. 2 OBVIOUS
      <4> QED BY <1>1, <2>1, <2>4, <4>1 DEF Calls
    <3>2. Place(call') = 3 BY <3>1, PlaceOf
    <3>3. Place(call) = 4 BY <1>1, <2>1, <2>4, PlaceOf
    <3> QED BY <1>1, <3>1, <3>2, <3>3, Onward
  <2> QED BY <1>11, <2>2, <2>3, <2>4 DEF FlowSampled
<1>12. CASE FlowRaises
  <2>1. call.stage = "fsub" BY <1>12 DEF FlowRaises, Raised
  <2>2. CASE PollFails BY <1>2, <2>1, <2>2 DEF PollFails, PollEnds
  <2>3. CASE call' = [call EXCEPT !.stage = "funsub", !.ret = "raised"]
    <3>1. /\ call' \in Calls /\ call'.stage = "funsub" /\ call'.op = call.op
          /\ call'.attempt = call.attempt /\ call'.ret = "raised"
      BY <1>1, <2>3 DEF Calls
    <3>2. Place(call') = 2 BY <3>1, PlaceOf
    <3>3. Place(call) \in {3, 4} BY <1>1, <2>1, PlaceOf
    <3> QED BY <1>1, <3>1, <3>2, <3>3, Onward
  <2> QED BY <1>12, <2>2, <2>3 DEF FlowRaises
<1>13. CASE FlowDone
  <2>1. call.stage = "funsub" BY <1>13 DEF FlowDone, Drained
  <2>2. CASE PollFails BY <1>2, <2>1, <2>2 DEF PollFails, PollEnds
  <2> QED BY <1>10, <1>13, <2>1, <2>2 DEF FlowDone
<1>14. CASE ProgramsRead
  <2>1. call.stage = "programs" BY <1>14 DEF ProgramsRead, Drained
  <2> QED BY <1>2, <1>14, <2>1 DEF ProgramsRead, PollEnds
<1> QED BY <1>3, <1>4, <1>5, <1>6, <1>7, <1>8, <1>9, <1>11, <1>12, <1>13,
         <1>14 DEF Step

(* A call of the Gen2 device never goes back, for every environment: it    *)
(* gives _api_lock back after at most DrainsLeft drains (protobuf.py).     *)
THEOREM CallsAreBounded == Spec => CallDescends
<1>1. IInv /\ [Next]_vars
        => (call.op # "none" /\ call' # call => Below(call', call))
  <2> SUFFICES ASSUME IInv, [Next]_vars, call.op # "none", call' # call
               PROVE  Below(call', call)
    OBVIOUS
  <2>1. ~(Commands \/ refresh_state)
    BY DEF Commands, refresh_state, start_watering, stop_watering, Command,
           set_rain_delay, clear_rain_delay
  <2>2. ~(\/ apply_status_plaintext \/ Tick \/ (\E m \in Delays : DelayEnds(m))
          \/ OtherCommands \/ Announces \/ LinkDrops \/ UNCHANGED vars)
    BY DEF apply_status_plaintext, Tick, DelayEnds, OtherCommands, Announces,
           LinkDrops, vars
  <2> QED BY <2>1, <2>2, StepBelow DEF Next
<1> QED BY <1>1, Inductive, PTL DEF Spec, CallDescends, Below
=============================================================================
