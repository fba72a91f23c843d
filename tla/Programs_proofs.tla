--------------------------- MODULE Programs_proofs ---------------------------
(***************************************************************************)
(* Theorems about Programs, for every set of slots and bodies, with or     *)
(* without losses and other commanders.                                    *)
(***************************************************************************)
EXTENDS Programs, SequenceTheorems, TLAPS

USE ConstantsAssumption DEF Ops, Sends, Flag

-----------------------------------------------------------------------------
(* The strengthening.  A call that writes a slot reads first, so its mask  *)
(* is known when it is written.                                            *)
ReadsFirst ==
  /\ call.slot # None /\ call.mask = None /\ call.todo # <<>>
       => Head(call.todo) = "read"
  /\ call.slot = None => \A i \in 1..Len(call.todo) : call.todo[i] # "mask"

(* An enabled set_program ends with the status it is confirmed by.         *)
EndsWithStatus ==
  call.op = "set" /\ call.on /\ call.todo # <<>>
    => call.todo[Len(call.todo)] \in {"status", "recover"}

(* While its session lasts, the mask a call has read is the device's, but  *)
(* for the call's own slot.                                                *)
MaskIsDevices ==
  call.fresh /\ up /\ call.mask # None
    => \A s \in Slot \ {call.slot} : s \in call.mask <=> s \in dev.on

-----------------------------------------------------------------------------
(* Lists of sends.                                                         *)

LEMMA TailOfSends ==
  ASSUME NEW q \in Seq(Sends), q # <<>>
  PROVE  /\ Tail(q) \in Seq(Sends)
         /\ Len(q) \in Nat \ {0} /\ Len(Tail(q)) = Len(q) - 1
         /\ Head(q) = q[1] /\ Head(q) \in Sends
         /\ \A i \in 1..Len(Tail(q)) : Tail(q)[i] = q[i + 1]
  OBVIOUS

LEMMA RecoverFirst ==
  ASSUME NEW q \in Seq(Sends)
  PROVE  /\ <<"recover">> \o q \in Seq(Sends)
         /\ Len(<<"recover">> \o q) = Len(q) + 1
         /\ (<<"recover">> \o q)[1] = "recover"
         /\ \A i \in 1..Len(q) : (<<"recover">> \o q)[i + 1] = q[i]
  OBVIOUS


LEMMA Concatenated ==
  ASSUME NEW p \in Seq(Sends), NEW q \in Seq(Sends), p # <<>>
  PROVE  /\ p \o q \in Seq(Sends)
         /\ Len(p \o q) = Len(p) + Len(q)
         /\ p \o q # <<>> /\ Head(p \o q) = p[1]
         /\ q # <<>> => (p \o q)[Len(p \o q)] = q[Len(q)]
  OBVIOUS

-----------------------------------------------------------------------------
(* Each part of an action keeps the types.                                 *)

LEMMA StatusTyped ==
  ASSUME TypeOK, NEW d \in Devices, Status(d) \/ NoStatus
  PROVE  next_start_flags' \subseteq Slot /\ controller_mode' \in Flag
  BY DEF TypeOK, Status, NoStatus, Devices, FlagOf

LEMMA LinkTyped ==
  ASSUME TypeOK, Heard \/ Lost
  PROVE  {up', deaf', lossy'} \subseteq BOOLEAN
  BY DEF TypeOK, Heard, Lost, Deaf

LEMMA NoCallTyped == NoCall \in Calls
  BY DEF NoCall, Calls

LEMMA MaskedTyped ==
  ASSUME NEW d \in Devices, NEW m \in SUBSET Slot
  PROVE  Masked(d, m) \in Devices /\ Masked(d, m).on = m
  BY DEF Masked, Devices, Stored

LEMMA EffectTyped ==
  ASSUME TypeOK, NEW msg \in {"store", "clear", "mask", "auto", "mode"},
         msg = "mask" => call.mask # None
  PROVE  Effect(dev, msg) \in Devices
<1>1. CASE msg = "mask"
  BY <1>1, MaskedTyped DEF TypeOK, Effect, Calls
<1>2. CASE msg # "mask"
  BY <1>2 DEF TypeOK, Effect, Calls, Devices
<1>3. QED BY <1>1, <1>2

LEMMA ReadTyped ==
  ASSUME TypeOK, NEW S \in SUBSET Sent(dev), NEW m \in BOOLEAN, NEW st \in BOOLEAN,
         _read_programs(S, m, st)
  PROVE  /\ DOMAIN programs' \subseteq Slot
         /\ \A s \in DOMAIN programs' : programs'[s] \in ProgramSummary
         /\ next_start_flags' \subseteq Slot /\ controller_mode' \in Flag
         /\ _enable_mask(m) \in SUBSET Slot
<1>1. S \subseteq Slot
  BY DEF Sent, Stored
<1>2. next_start_flags' \subseteq Slot /\ controller_mode' \in Flag
  BY StatusTyped DEF _read_programs, TypeOK
<1>3. /\ DOMAIN programs' \subseteq Slot
      /\ \A s \in DOMAIN programs' : programs'[s] \in ProgramSummary
  <2>1. CASE S = {}
    BY <2>1 DEF _read_programs, ShownWithoutBodies, NoPrograms, TypeOK
  <2>2. CASE S # {}
    <3>1. programs' = [s \in S |-> [body |-> dev.body[s],
             enabled |-> IF m THEN FlagOf(s \in dev.on) ELSE Carried(s)]]
      BY <2>2 DEF _read_programs
    <3>2. \A s \in S : dev.body[s] \in Body \cup {None}
      BY <1>1 DEF TypeOK, Devices
    <3>3. \A s \in S : Carried(s) \in Flag
      BY DEF Carried, TypeOK, ProgramSummary
    <3>4. QED BY <1>1, <3>1, <3>2, <3>3 DEF FlagOf, ProgramSummary
  <2>3. QED BY <2>1, <2>2
<1>4. _enable_mask(m) \in SUBSET Slot
  BY <1>3 DEF _enable_mask, TypeOK, Devices
<1>5. QED BY <1>2, <1>3, <1>4

-----------------------------------------------------------------------------
IInv == TypeOK /\ ReadsFirst /\ EndsWithStatus /\ MaskIsDevices

LEMMA InitIInv == Init => IInv
<1> SUFFICES ASSUME Init PROVE IInv
  OBVIOUS
<1>1. dev \in Devices
  BY DEF Init, Devices
<1>2. TypeOK
  BY <1>1, NoCallTyped DEF Init, TypeOK, NoPrograms
<1>3. QED BY <1>2 DEF Init, IInv, ReadsFirst, EndsWithStatus, MaskIsDevices, NoCall

(* What a call starts with.                                                *)
Fresh(c) ==
  /\ c \in Calls
  /\ c.mask = None
  /\ c.slot # None /\ c.todo # <<>> => Head(c.todo) = "read"
  /\ c.slot = None => \A i \in 1..Len(c.todo) : c.todo[i] # "mask"
  /\ c.op = "set" /\ c.on /\ c.todo # <<>>
       => c.todo[Len(c.todo)] \in {"status", "recover"}

LEMMA BeginsKeeps ==
  ASSUME IInv, NEW c, Fresh(c), Begins(c)
  PROVE  IInv'
  BY DEF IInv, TypeOK, ReadsFirst, EndsWithStatus, MaskIsDevices, Fresh,
         Begins, link, state

LEMMA SetIsFresh ==
  ASSUME NEW s \in Slot, NEW b \in Body, NEW on \in BOOLEAN
  PROVE  Fresh([NoCall EXCEPT !.op = "set", !.slot = s, !.body = b, !.on = on,
           !.todo = <<"read", "store", "read", "mask", "auto">>
                    \o IF on THEN <<"store", "mask", "status">> ELSE <<>>])
<1> DEFINE q == IF on THEN <<"store", "mask", "status">> ELSE <<>>
           p == <<"read", "store", "read", "mask", "auto">>
           c == [NoCall EXCEPT !.op = "set", !.slot = s, !.body = b, !.on = on,
                               !.todo = p \o q]
<1>1. p \in Seq(Sends) /\ p # <<>> /\ p[1] = "read"
  OBVIOUS
<1>2. q \in Seq(Sends)
  <2>1. <<"store", "mask", "status">> \in Seq(Sends) /\ <<>> \in Seq(Sends)
    OBVIOUS
  <2>2. QED BY <2>1
<1>3. on => q # <<>> /\ q[Len(q)] = "status"
  OBVIOUS
<1> HIDE DEF p, q
<1>4. /\ p \o q \in Seq(Sends) /\ Head(p \o q) = "read"
      /\ on => (p \o q)[Len(p \o q)] = "status"
  BY <1>1, <1>2, <1>3, Concatenated
<1>5. c \in Calls
  BY <1>4, NoCallTyped DEF Calls, NoCall
<1>6. /\ c.op = "set" /\ c.on = on /\ c.slot = s /\ c.mask = None
      /\ c.todo = p \o q
  BY DEF NoCall
<1>7. s # None
  BY DEF NoCall
<1> HIDE DEF c
<1>8. Fresh(c)
  BY <1>4, <1>5, <1>6, <1>7 DEF Fresh
<1> QED BY <1>8 DEF c, p, q

LEMMA DeleteIsFresh ==
  ASSUME NEW s \in Slot
  PROVE  Fresh([NoCall EXCEPT !.op = "delete", !.slot = s,
                 !.todo = <<"read", "mask", "clear", "auto", "read">>])
<1> DEFINE q == <<"read", "mask", "clear", "auto", "read">>
<1>1. q \in Seq(Sends) /\ Head(q) = "read"
  OBVIOUS
<1> HIDE DEF q
<1>2. Fresh([NoCall EXCEPT !.op = "delete", !.slot = s, !.todo = q])
  BY <1>1 DEF Fresh, Calls, NoCall
<1> QED BY <1>2 DEF q

LEMMA ToggleIsFresh ==
  ASSUME NEW s \in Slot, NEW on \in BOOLEAN
  PROVE  Fresh([NoCall EXCEPT !.op = "toggle", !.slot = s, !.on = on,
           !.todo = <<"read", "mask", "auto">>
                    \o (IF on THEN <<"mask">> ELSE <<>>) \o <<"status", "read">>])
<1> DEFINE p == <<"read", "mask", "auto">>
           q == IF on THEN <<"mask">> ELSE <<>>
           r == <<"status", "read">>
<1>1. p \in Seq(Sends) /\ p # <<>> /\ p[1] = "read"
  OBVIOUS
<1>2. q \in Seq(Sends)
  <2>1. <<"mask">> \in Seq(Sends) /\ <<>> \in Seq(Sends)
    OBVIOUS
  <2>2. QED BY <2>1
<1>3. r \in Seq(Sends)
  OBVIOUS
<1> HIDE DEF p, q, r
<1>4. p \o q \in Seq(Sends) /\ p \o q # <<>> /\ Head(p \o q) = "read"
  BY <1>1, <1>2, Concatenated
<1>5. (p \o q)[1] = "read"
  BY <1>4
<1>6. p \o q \o r \in Seq(Sends) /\ Head(p \o q \o r) = "read"
  BY <1>3, <1>4, <1>5, Concatenated
<1>7. Fresh([NoCall EXCEPT !.op = "toggle", !.slot = s, !.on = on,
                           !.todo = p \o q \o r])
  BY <1>6 DEF Fresh, Calls, NoCall
<1> QED BY <1>7 DEF p, q, r

LEMMA ModeIsFresh ==
  ASSUME NEW on \in BOOLEAN
  PROVE  Fresh([NoCall EXCEPT !.op = "mode", !.on = on, !.todo = <<"mode", "status">>])
<1> DEFINE q == <<"mode", "status">>
<1>1. q \in Seq(Sends) /\ \A i \in 1..Len(q) : q[i] # "mask"
  OBVIOUS
<1> HIDE DEF q
<1>2. Fresh([NoCall EXCEPT !.op = "mode", !.on = on, !.todo = q])
  BY <1>1 DEF Fresh, Calls, NoCall
<1> QED BY <1>2 DEF q

LEMMA GetIsFresh ==
  Fresh([NoCall EXCEPT !.op = "get", !.todo = <<"read">>, !.ok = TRUE])
<1> DEFINE q == <<"read">>
<1>1. q \in Seq(Sends) /\ \A i \in 1..Len(q) : q[i] # "mask"
  OBVIOUS
<1> HIDE DEF q
<1>2. Fresh([NoCall EXCEPT !.op = "get", !.todo = q, !.ok = TRUE])
  BY <1>1 DEF Fresh, Calls, NoCall
<1> QED BY <1>2 DEF q

LEMMA PollIsFresh ==
  Fresh([NoCall EXCEPT !.op = "poll", !.todo = <<"status", "read">>, !.ok = TRUE])
<1> DEFINE q == <<"status", "read">>
<1>1. q \in Seq(Sends) /\ \A i \in 1..Len(q) : q[i] # "mask"
  OBVIOUS
<1> HIDE DEF q
<1>2. Fresh([NoCall EXCEPT !.op = "poll", !.todo = q, !.ok = TRUE])
  BY <1>1 DEF Fresh, Calls, NoCall
<1> QED BY <1>2 DEF q

-----------------------------------------------------------------------------
(* A send that is done is taken off the list.                              *)
LEMMA TailKeeps ==
  ASSUME IInv, call.todo # <<>>, call.slot = None \/ call.mask # None,
         call'.todo = Tail(call.todo),
         UNCHANGED <<call.op, call.on, call.slot, call.mask>>
  PROVE  ReadsFirst' /\ EndsWithStatus'
<1>1. call.todo \in Seq(Sends)
  BY DEF IInv, TypeOK, Calls
<1>2. /\ Len(call'.todo) = Len(call.todo) - 1
      /\ \A i \in 1..Len(call'.todo) : call'.todo[i] = call.todo[i + 1]
      /\ call'.todo \in Seq(Sends)
  BY <1>1, TailOfSends
<1>3. ReadsFirst'
  BY <1>1, <1>2 DEF IInv, ReadsFirst
<1>4. EndsWithStatus'
  <2>1. call'.todo # <<>> => Len(call'.todo) \in 1..Len(call'.todo)
    BY <1>2
  <2>2. QED BY <1>1, <1>2, <2>1 DEF IInv, EndsWithStatus
<1>5. QED BY <1>3, <1>4

LEMMA NotReading ==
  ASSUME IInv, NEW msg \in Sends \ {"read"}, Awaits(msg)
  PROVE  /\ call.slot = None \/ call.mask # None
         /\ msg = "mask" => call.mask # None
<1>1. call.todo \in Seq(Sends) /\ call.todo # <<>> /\ Head(call.todo) = msg
  BY DEF IInv, TypeOK, Calls, Awaits
<1>2. call.todo[1] = msg /\ 1 \in 1..Len(call.todo)
  BY <1>1
<1>3. QED BY <1>1, <1>2 DEF IInv, ReadsFirst

LEMMA WritesKeeps ==
  ASSUME IInv, Writes
  PROVE  IInv'
<1>1. PICK msg \in {"store", "clear", "mask", "auto", "mode"} :
        /\ Awaits(msg)
        /\ \/ dev' = Effect(dev, msg) /\ (Heard \/ Lost)
              /\ (Status(dev') \/ NoStatus)
           \/ Lost /\ UNCHANGED dev /\ NoStatus
  BY DEF Writes
<1>2. call.todo \in Seq(Sends) /\ call.todo # <<>>
  BY <1>1 DEF IInv, TypeOK, Calls, Awaits
<1>3. msg \in Sends \ {"read"}
  OBVIOUS
<1>4. (call.slot = None \/ call.mask # None) /\ (msg = "mask" => call.mask # None)
  BY <1>1, <1>3, NotReading
<1>5. dev' \in Devices
  BY <1>1, <1>4, EffectTyped DEF IInv, TypeOK
<1>6. call' = [call EXCEPT !.todo = Tail(@), !.fresh = @ /\ up]
  BY DEF Writes, Written
<1>7. /\ call' \in Calls
      /\ call'.todo = Tail(call.todo)
      /\ UNCHANGED <<call.op, call.on, call.slot, call.mask>>
      /\ call'.fresh = (call.fresh /\ up)
  <2>1. Tail(call.todo) \in Seq(Sends)
    BY <1>2, TailOfSends
  <2>2. QED BY <1>6, <2>1 DEF IInv, TypeOK, Calls
<1>8. TypeOK'
  <2>1. next_start_flags' \subseteq Slot /\ controller_mode' \in Flag
    BY <1>1, <1>5, StatusTyped DEF IInv
  <2>2. {up', deaf', lossy'} \subseteq BOOLEAN
    BY <1>1, LinkTyped DEF IInv
  <2>3. QED BY <1>5, <1>7, <2>1, <2>2 DEF IInv, TypeOK, Writes
<1>9. MaskIsDevices'
  <2>1. CASE msg = "mask" /\ dev' = Effect(dev, msg)
    <3>1. dev'.on = call.mask
      BY <1>4, <2>1, MaskedTyped DEF Effect, IInv, TypeOK, Calls
    <3>2. QED BY <1>7, <3>1 DEF MaskIsDevices
  <2>2. CASE msg # "mask" \/ dev' = dev
    <3>1. dev'.on = dev.on
      BY <1>1, <2>2 DEF Effect, IInv, TypeOK, Devices
    <3>2. QED BY <1>7, <3>1 DEF MaskIsDevices, IInv
  <2>3. QED BY <1>1, <2>1, <2>2
<1>10. QED BY <1>2, <1>4, <1>7, <1>8, <1>9, TailKeeps DEF IInv

LEMMA RefreshedKeeps ==
  ASSUME IInv, NEW msg \in {"status", "recover"}, Awaits(msg),
         NEW h \in BOOLEAN, Refreshed(h), Heard \/ Lost,
         Status(dev) \/ NoStatus
  PROVE  IInv'
<1>1. call.todo \in Seq(Sends) /\ call.todo # <<>>
  BY DEF IInv, TypeOK, Calls, Awaits
<1>2. call.slot = None \/ call.mask # None
  BY NotReading
<1>3. Confirmed \in BOOLEAN
  <2>1. call.ok \in BOOLEAN
    BY DEF IInv, TypeOK, Calls
  <2>2. CASE call.op = "set"
    BY <2>2 DEF Confirmed
  <2>3. CASE call.op = "mode"
    BY <2>3 DEF Confirmed
  <2>4. CASE call.op \notin {"set", "mode"}
    <3>1. Confirmed = call.ok
      BY <2>4 DEF Confirmed
    <3>2. QED BY <2>1, <3>1
  <2>5. QED BY <2>2, <2>3, <2>4
<1>4. Tail(call.todo) \in Seq(Sends)
  BY <1>1, TailOfSends
<1>5. /\ call' \in Calls
      /\ call'.todo \in {<<>>, Tail(call.todo)}
      /\ UNCHANGED <<call.op, call.on, call.slot, call.mask>>
      /\ call'.fresh = (call.fresh /\ up)
  <2>1. <<>> \in Seq(Sends)
    OBVIOUS
  <2>2. call \in Calls /\ (call.fresh /\ up) \in BOOLEAN
    BY DEF IInv, TypeOK, Calls
  <2>3. PICK left \in {<<>>, Tail(call.todo)} :
          call' = [call EXCEPT !.todo = left, !.fresh = @ /\ up, !.ok = Confirmed]
    BY DEF Refreshed
  <2>4. left \in Seq(Sends)
    BY <1>4, <2>1, <2>3
  <2>5. QED BY <1>3, <2>2, <2>3, <2>4 DEF Calls
<1>6. TypeOK'
  <2>1. next_start_flags' \subseteq Slot /\ controller_mode' \in Flag
    BY StatusTyped DEF IInv, TypeOK
  <2>2. QED BY <1>5, <2>1, LinkTyped DEF IInv, TypeOK, Refreshed
<1>7. ReadsFirst' /\ EndsWithStatus'
  <2>1. CASE call'.todo = <<>>
    BY <2>1 DEF ReadsFirst, EndsWithStatus
  <2>2. CASE call'.todo = Tail(call.todo)
    BY <1>1, <1>2, <1>5, <2>2, TailKeeps
  <2>3. QED BY <1>5, <2>1, <2>2
<1>8. MaskIsDevices'
  BY <1>5 DEF MaskIsDevices, IInv, Refreshed
<1>9. QED BY <1>6, <1>7, <1>8 DEF IInv

LEMMA MissedKeeps ==
  ASSUME IInv, StatusMissed
  PROVE  IInv'
<1> DEFINE q == Tail(call.todo)
<1>1. call.todo \in Seq(Sends) /\ call.todo # <<>> /\ Head(call.todo) = "status"
  BY DEF StatusMissed, IInv, TypeOK, Calls, Awaits
<1>2. call.slot = None \/ call.mask # None
  BY NotReading DEF StatusMissed
<1>3. /\ q \in Seq(Sends) /\ Len(q) = Len(call.todo) - 1
      /\ Len(call.todo) \in Nat \ {0}
      /\ \A i \in 1..Len(q) : q[i] = call.todo[i + 1]
  BY <1>1, TailOfSends
<1> HIDE DEF q
<1>4. /\ call'.todo = <<"recover">> \o q
      /\ UNCHANGED <<call.op, call.on, call.slot, call.mask>>
  BY DEF StatusMissed, IInv, TypeOK, Calls, q
<1>5. /\ call'.todo \in Seq(Sends) /\ Len(call'.todo) = Len(q) + 1
      /\ call'.todo[1] = "recover"
      /\ \A i \in 1..Len(q) : call'.todo[i + 1] = q[i]
  BY <1>3, <1>4, RecoverFirst
<1>6. TypeOK'
  BY <1>4, <1>5 DEF StatusMissed, IInv, TypeOK, Calls, state
<1>7. ReadsFirst'
  <2>1. \A i \in 1..Len(call'.todo) :
          i = 1 \/ (i - 1 \in 1..Len(q) /\ call'.todo[i] = q[i - 1])
    BY <1>3, <1>5
  <2>2. \A i \in 2..Len(call'.todo) : call'.todo[i] = call.todo[i]
    BY <1>1, <1>3, <1>5, <2>1
  <2>3. ASSUME call.slot = None, NEW i \in 1..Len(call'.todo)
        PROVE  call'.todo[i] # "mask"
    <3>1. CASE i = 1
      BY <1>5, <3>1
    <3>2. CASE i # 1
      <4>1. i \in 2..Len(call'.todo) /\ i \in 1..Len(call.todo)
        BY <1>1, <1>3, <1>5, <3>2
      <4>2. QED BY <2>2, <2>3, <4>1 DEF IInv, ReadsFirst
    <3>3. QED BY <3>1, <3>2
  <2>4. QED BY <1>2, <1>4, <2>3 DEF ReadsFirst
<1>8. EndsWithStatus'
  <2>1. CASE Len(call.todo) = 1
    <3>1. Len(call'.todo) = 1
      BY <1>3, <1>5, <2>1
    <3>2. call'.todo[Len(call'.todo)] = "recover"
      BY <1>5, <3>1
    <3>3. QED BY <3>2 DEF EndsWithStatus
  <2>2. CASE Len(call.todo) # 1
    <3>1. Len(call.todo) \in Nat /\ Len(call.todo) > 1
      <4> DEFINE n == Len(call.todo)
      <4>1. n \in Nat \ {0} /\ n # 1
        BY <1>3, <2>2
      <4> HIDE DEF n
      <4>2. n \in Nat /\ n > 1
        BY <4>1
      <4>3. QED BY <4>2 DEF n
    <3>2. Len(q) \in 1..Len(q)
      BY <1>3, <3>1
    <3>3. call'.todo[Len(q) + 1] = q[Len(q)] /\ q[Len(q)] = call.todo[Len(q) + 1]
      BY <1>3, <1>5, <3>2
    <3>4. Len(q) + 1 = Len(call'.todo) /\ Len(q) + 1 = Len(call.todo)
      BY <1>3, <1>5, <3>1
    <3>5. call'.todo[Len(call'.todo)] = call.todo[Len(call.todo)]
      BY <3>3, <3>4
    <3>6. QED BY <1>1, <1>4, <3>5 DEF IInv, EndsWithStatus
  <2>3. QED BY <2>1, <2>2
<1>9. MaskIsDevices'
  BY DEF StatusMissed, MaskIsDevices
<1>10. QED BY <1>6, <1>7, <1>8, <1>9 DEF IInv

LEMMA ReadCases ==
  ASSUME Reads
  PROVE  \E m \in BOOLEAN, st \in BOOLEAN : \E S \in SUBSET Sent(dev) :
           /\ _read_programs(S, m, st) /\ ReadBack(S, m) /\ (Heard \/ Lost)
           /\ m \/ st => S = Sent(dev)
  BY DEF Reads

LEMMA ReadsKeeps ==
  ASSUME IInv, Reads
  PROVE  IInv'
<1>1. PICK m \in BOOLEAN, st \in BOOLEAN, S \in SUBSET Sent(dev) :
        _read_programs(S, m, st) /\ ReadBack(S, m) /\ (Heard \/ Lost)
  BY ReadCases
<1> DEFINE M == _enable_mask(m)
<1>2. /\ call.todo \in Seq(Sends) /\ call.todo # <<>>
      /\ Tail(call.todo) \in Seq(Sends)
  BY TailOfSends DEF IInv, TypeOK, Calls, Reads, Awaits
<1>3. /\ DOMAIN programs' \subseteq Slot
      /\ \A s \in DOMAIN programs' : programs'[s] \in ProgramSummary
      /\ next_start_flags' \subseteq Slot /\ controller_mode' \in Flag
      /\ M \in SUBSET Slot
  BY <1>1, ReadTyped DEF IInv
<1>4. M = dev.on \/ m = FALSE
  BY DEF _enable_mask
<1> HIDE DEF M
<1>5. NewMask(M) \in SUBSET Slot \/ call.slot = None
  BY <1>3 DEF NewMask, IInv, TypeOK, Calls
<1> DEFINE N == IF call.mask = None /\ call.slot # None THEN NewMask(M) ELSE call.mask
           F == IF call.mask = None THEN m ELSE call.fresh /\ up
           K == IF call.mask = None THEN call.ok ELSE
                CASE call.op = "set"    -> call.slot \in S \cap Stored(dev)
                  [] call.op = "delete" -> call.slot \notin S \cap Stored(dev)
                  [] call.op = "toggle" -> (call.slot \in M) = call.on
                  [] OTHER              -> call.ok
<1>6. call' = [call EXCEPT !.todo = Tail(@), !.mask = N, !.fresh = F, !.ok = K]
  BY <1>1 DEF ReadBack, M
<1>7. K \in BOOLEAN
  <2>1. call.ok \in BOOLEAN
    BY DEF IInv, TypeOK, Calls
  <2>2. CASE call.mask = None \/ call.op \notin {"set", "delete", "toggle"}
    <3>1. K = call.ok
      BY <2>2
    <3>2. QED BY <2>1, <3>1
  <2>3. CASE call.mask # None /\ call.op = "set"
    BY <2>3
  <2>4. CASE call.mask # None /\ call.op = "delete"
    BY <2>4
  <2>5. CASE call.mask # None /\ call.op = "toggle"
    BY <2>5
  <2>6. QED BY <2>2, <2>3, <2>4, <2>5
<1>8. F \in BOOLEAN /\ N \in (SUBSET Slot) \cup {None}
  BY <1>5 DEF IInv, TypeOK, Calls
<1>9. N = None => call.slot = None
  BY <1>5
<1> HIDE DEF K, F, N
<1>10. /\ call' \in Calls
       /\ call'.todo = Tail(call.todo) /\ call'.mask = N /\ call'.fresh = F
       /\ UNCHANGED <<call.op, call.on, call.slot, dev>>
  <2>1. call \in Calls /\ UNCHANGED dev
    BY <1>1 DEF IInv, TypeOK, ReadBack
  <2>2. QED BY <1>2, <1>6, <1>7, <1>8, <2>1 DEF Calls
<1>11. TypeOK'
  BY <1>1, <1>3, <1>10, LinkTyped DEF IInv, TypeOK
<1>12. ReadsFirst' /\ EndsWithStatus'
  <2>1. CASE call.slot = None
    <3>1. call'.mask = call.mask
      BY <1>10, <2>1 DEF N
    <3>2. QED BY <1>2, <1>10, <2>1, <3>1, TailKeeps
  <2>2. CASE call.slot # None
    <3>1. ReadsFirst'
      BY <1>9, <1>10, <2>2 DEF ReadsFirst
    <3>2. EndsWithStatus'
      <4>1. /\ Len(call'.todo) = Len(call.todo) - 1
            /\ \A i \in 1..Len(call'.todo) : call'.todo[i] = call.todo[i + 1]
            /\ call'.todo \in Seq(Sends)
        BY <1>2, <1>10, TailOfSends
      <4>2. call'.todo # <<>> => Len(call'.todo) \in 1..Len(call'.todo)
        BY <4>1
      <4>3. QED BY <1>2, <1>10, <4>1, <4>2 DEF IInv, EndsWithStatus
    <3>3. QED BY <3>1, <3>2
  <2>3. QED BY <2>1, <2>2
<1>13. MaskIsDevices'
  <2>1. CASE call.mask = None /\ call.slot # None
    <3>1. call'.mask = NewMask(M) /\ call'.fresh = m
      BY <1>10, <2>1 DEF N, F
    <3>2. QED BY <1>4, <1>10, <3>1 DEF MaskIsDevices, NewMask
  <2>2. CASE call.mask = None /\ call.slot = None
    BY <1>10, <2>2 DEF N, MaskIsDevices
  <2>3. CASE call.mask # None
    <3>1. call'.mask = call.mask /\ call'.fresh = (call.fresh /\ up)
      BY <1>10, <2>3 DEF N, F
    <3>2. QED BY <1>10, <3>1 DEF MaskIsDevices, IInv
  <2>4. QED BY <2>1, <2>2, <2>3
<1>14. QED BY <1>11, <1>12, <1>13 DEF IInv

-----------------------------------------------------------------------------
LEMMA CommandsKeep ==
  ASSUME IInv, Commands \/ refresh_state
  PROVE  IInv'
<1>1. ASSUME NEW s \in Slot, NEW b \in Body, NEW on \in BOOLEAN, set_program(s, b, on)
      PROVE  IInv'
  BY <1>1, SetIsFresh, BeginsKeeps DEF set_program
<1>2. ASSUME NEW s \in Slot, delete_program(s)
      PROVE  IInv'
  BY <1>2, DeleteIsFresh, BeginsKeeps DEF delete_program
<1>3. ASSUME NEW s \in Slot, NEW on \in BOOLEAN, set_program_enabled(s, on)
      PROVE  IInv'
  BY <1>3, ToggleIsFresh, BeginsKeeps DEF set_program_enabled
<1>4. ASSUME NEW on \in BOOLEAN, set_controller_mode(on)
      PROVE  IInv'
  BY <1>4, ModeIsFresh, BeginsKeeps DEF set_controller_mode
<1>5. CASE get_programs
  BY <1>5, GetIsFresh, BeginsKeeps DEF get_programs
<1>6. CASE refresh_state
  BY <1>6, PollIsFresh, BeginsKeeps DEF refresh_state
<1>7. QED BY <1>1, <1>2, <1>3, <1>4, <1>5, <1>6 DEF Commands

LEMMA EndKeeps ==
  ASSUME IInv, call' \in Calls, call'.todo = <<>>, up' = FALSE, deaf' = FALSE,
         UNCHANGED <<dev, lossy, state>>
  PROVE  IInv'
<1>1. TypeOK'
  BY DEF IInv, TypeOK, state
<1>2. 1..Len(<<>>) = {}
  OBVIOUS
<1>3. ReadsFirst' /\ EndsWithStatus'
  BY <1>2 DEF ReadsFirst, EndsWithStatus
<1>4. QED BY <1>1, <1>3 DEF IInv, MaskIsDevices

(* What leaves the call alone keeps IInv if it keeps the types and, in a   *)
(* session that lasts, the mask.                                           *)
LEMMA IdleKeeps ==
  ASSUME IInv, TypeOK', UNCHANGED call, up' => up /\ dev'.on = dev.on
  PROVE  IInv'
<1>1. ReadsFirst' /\ EndsWithStatus'
  BY DEF IInv, ReadsFirst, EndsWithStatus
<1>2. MaskIsDevices'
  BY DEF IInv, MaskIsDevices
<1>3. QED BY <1>1, <1>2 DEF IInv

LEMMA NextIInv == IInv /\ [Next]_vars => IInv'
<1> SUFFICES ASSUME IInv, [Next]_vars PROVE IInv'
  OBVIOUS
<1>1. CASE Commands \/ refresh_state
  BY <1>1, CommandsKeep
<1>2. CASE Reads
  BY <1>2, ReadsKeeps
<1>3. CASE Writes
  BY <1>3, WritesKeeps
<1>4. CASE refresh_status
  <2>1. Heard /\ Status(dev) /\ Refreshed(TRUE) /\ Awaits("status")
    BY <1>4 DEF refresh_status
  <2>2. QED BY <2>1, RefreshedKeeps
<1>5. CASE StatusMissed
  BY <1>5, MissedKeeps
<1>6. CASE _recover_status
  <2>1. PICK h \in BOOLEAN : /\ Awaits("recover") /\ (Heard \/ Lost)
                             /\ Refreshed(h) /\ (Status(dev) \/ NoStatus)
    BY <1>6 DEF _recover_status
  <2>2. QED BY <2>1, RefreshedKeeps
<1>7. CASE Returns
  BY <1>7, NoCallTyped, EndKeeps DEF Returns, NoCall
<1>8. CASE Raises
  <2>1. <<>> \in Seq(Sends)
    OBVIOUS
  <2>2. call' \in Calls /\ call'.todo = <<>>
    BY <1>8, <2>1 DEF Raises, IInv, TypeOK, Calls
  <2>3. QED BY <1>8, <2>2, EndKeeps DEF Raises
<1>9. CASE LinkDrops
  <2>1. UNCHANGED <<call, dev, lossy, state>> /\ up' = FALSE /\ deaf' = FALSE
    BY <1>9 DEF LinkDrops
  <2>2. TypeOK'
    BY <2>1 DEF IInv, TypeOK, state
  <2>3. QED BY <2>1, <2>2, IdleKeeps
<1>10. CASE LinkSettles
  <2>1. UNCHANGED <<call, dev, up, deaf, state>> /\ lossy' = FALSE
    BY <1>10 DEF LinkSettles
  <2>2. TypeOK'
    BY <2>1 DEF IInv, TypeOK, state
  <2>3. up' => up /\ dev'.on = dev.on
    BY <2>1
  <2>4. QED BY <2>1, <2>2, <2>3, IdleKeeps
<1>11. CASE OtherCommands
  <2>1. ASSUME NEW m \in SUBSET Slot, dev' = Masked(dev, m)
        PROVE  dev' \in Devices
    BY <2>1, MaskedTyped DEF IInv, TypeOK
  <2>2. ASSUME NEW s \in Slot, NEW b \in Body \cup {None},
               dev' = [dev EXCEPT !.body[s] = b,
                         !.armed = IF b = None THEN @ \ {s} ELSE @]
        PROVE  dev' \in Devices
    BY <2>2 DEF IInv, TypeOK, Devices
  <2>3. dev' \in Devices
    BY <1>11, <2>1, <2>2 DEF OtherCommands, IInv, TypeOK
  <2>4. TypeOK' /\ UNCHANGED call /\ ~up'
    BY <1>11, <2>3 DEF OtherCommands, IInv, TypeOK, link, state
  <2>5. QED BY <2>4, IdleKeeps
<1>12. CASE UNCHANGED vars
  <2>1. TypeOK' /\ UNCHANGED <<call, dev, up>>
    BY <1>12 DEF vars, link, state, IInv, TypeOK
  <2>2. QED BY <2>1, IdleKeeps
<1>13. QED BY <1>1, <1>2, <1>3, <1>4, <1>5, <1>6, <1>7, <1>8, <1>9, <1>11, <1>12, <1>10
       DEF Next, Step

(* The strengthening holds in every reachable state: a call reads before   *)
(* it writes, and the mask it has read stays the device's.                 *)
THEOREM Inductive == Spec => []IInv
<1>1. QED BY InitIInv, NextIInv, PTL DEF Spec

(* The variables take values of their sets; of the calls, the mask that is *)
(* written is a set of slots only because it was read first.               *)
THEOREM TypeCorrect == Spec => []TypeOK
<1>1. IInv => TypeOK
  BY DEF IInv
<1>2. QED BY <1>1, Inductive, PTL

-----------------------------------------------------------------------------
(* A write spares the other slots if its read was whole.  The device gets  *)
(* the mask the call has read, which is its own but for the call's slot    *)
(* (MaskIsDevices); without the session having lasted the app could have   *)
(* come between.                                                           *)
LEMMA SparingStep ==
  ASSUME IInv, [Next]_vars, Awaits("mask"), call.fresh, up,
         NEW s \in Slot \ {call.slot}
  PROVE  s \in dev'.on <=> s \in dev.on
<1>1. call.todo # <<>> /\ Head(call.todo) = "mask"
  BY DEF Awaits
<1>2. call.mask # None
  BY NotReading
<1>3. CASE Writes
  <2>1. dev' = dev \/ dev' = Effect(dev, "mask")
    BY <1>1, <1>3 DEF Writes, Awaits
  <2>2. CASE dev' = Effect(dev, "mask")
    <3>1. dev'.on = call.mask
      BY <1>2, <2>2, MaskedTyped DEF Effect, IInv, TypeOK, Calls
    <3>2. QED BY <1>2, <3>1 DEF IInv, MaskIsDevices
  <2>3. QED BY <2>1, <2>2
<1>4. CASE ~Writes
  <2>1. UNCHANGED dev
    BY <1>1, <1>4
    DEF Next, Step, Commands, set_program, delete_program, set_program_enabled,
        set_controller_mode, get_programs, refresh_state, Begins, Reads, ReadBack,
        refresh_status, StatusMissed, _recover_status, Refreshed, Returns, Raises,
        LinkDrops, LinkSettles, OtherCommands, Awaits, vars
  <2>2. QED BY <2>1
<1>5. QED BY <1>3, <1>4

(* "Other slots unchanged": the mask write of set_program, delete_program   *)
(* and set_program_enabled.                                                *)
THEOREM OthersAreSpared == Spec => SparesOthers
<1>1. IInv /\ [Next]_vars
        => [Awaits("mask") /\ call.fresh /\ up
              => \A s \in Slot \ {call.slot} : s \in dev'.on <=> s \in dev.on]_vars
  BY SparingStep
<1>2. QED BY <1>1, Inductive, PTL DEF Spec, SparesOthers

-----------------------------------------------------------------------------
(* Only a read changes what is shown.                                      *)
LEMMA ShownByReads ==
  ASSUME [Next]_vars, ~Reads
  PROVE  UNCHANGED programs
  BY DEF Next, Step, Commands, set_program, delete_program, set_program_enabled,
         set_controller_mode, get_programs, refresh_state, Begins, Writes,
         refresh_status, StatusMissed, _recover_status, Refreshed, Returns, Raises,
         LinkDrops, LinkSettles, OtherCommands, vars, state

(* _read_programs blanks the schedules only for a whole burst without any; *)
(* one that was cut before its first body blanks nothing.                  *)
THEOREM SchedulesAreKept == Spec => NothingBlanked
<1>1. ASSUME [Next]_vars, DOMAIN programs # {}, DOMAIN programs' = {}
      PROVE  Sent(dev) = {}
  <2>1. PICK m \in BOOLEAN, st \in BOOLEAN, S \in SUBSET Sent(dev) :
          _read_programs(S, m, st) /\ (m \/ st => S = Sent(dev))
    BY <1>1, ShownByReads, ReadCases
  <2>2. CASE S = {}
    BY <1>1, <2>1, <2>2 DEF _read_programs, ShownWithoutBodies
  <2>3. CASE S # {}
    BY <1>1, <2>1, <2>3 DEF _read_programs
  <2>4. QED BY <2>2, <2>3
<1>2. [Next]_vars
        => [DOMAIN programs # {} /\ DOMAIN programs' = {} => Sent(dev) = {}]_vars
  BY <1>1
<1>3. QED BY <1>2, PTL DEF Spec, NothingBlanked

(* _read_programs carries a shown flag over, or takes the device's.        *)
THEOREM ShownFlagsAreReal == Spec => FlagsAreReal
<1>1. ASSUME [Next]_vars, NEW s \in DOMAIN programs \cap DOMAIN programs'
      PROVE  programs'[s].enabled \in {programs[s].enabled, FlagOf(s \in dev.on)}
  <2>1. CASE ~Reads
    BY <1>1, <2>1, ShownByReads
  <2>2. CASE Reads
    <3>1. PICK m \in BOOLEAN, st \in BOOLEAN, S \in SUBSET Sent(dev) :
            _read_programs(S, m, st)
      BY <2>2, ReadCases
    <3>2. CASE S = {}
      BY <1>1, <3>1, <3>2 DEF _read_programs, ShownWithoutBodies, NoPrograms
    <3>3. CASE S # {}
      BY <1>1, <3>1, <3>3 DEF _read_programs, Carried
    <3>4. QED BY <3>2, <3>3
  <2>3. QED BY <2>1, <2>2
<1>2. [Next]_vars
        => [\A s \in DOMAIN programs \cap DOMAIN programs' :
              programs'[s].enabled \in {programs[s].enabled, FlagOf(s \in dev.on)}]_vars
  BY <1>1
<1>3. QED BY <1>2, PTL DEF Spec, FlagsAreReal

-----------------------------------------------------------------------------
(* An enabled program is confirmed by its own slot, in the status its call *)
(* ends with (EndsWithStatus) or in the one before.                        *)
LEMMA ConfirmingStep ==
  ASSUME IInv, [Next]_vars, call.op = "set", call.on, call.todo # <<>>,
         call'.todo = <<>>, call'.ok
  PROVE  call.slot \in dev.armed \cup next_start_flags
<1>1. call.todo \in Seq(Sends) /\ Len(call.todo) \in Nat \ {0}
  BY TailOfSends DEF IInv, TypeOK, Calls
<1>2. ASSUME call'.todo = Tail(call.todo)
      PROVE  Head(call.todo) \in {"status", "recover"}
  <2>1. Len(call.todo) = 1
    <3>1. Len(Tail(call.todo)) = Len(call.todo) - 1
      BY <1>1, TailOfSends
    <3>2. Len(<<>>) = 0
      OBVIOUS
    <3>3. Len(call.todo) - 1 = 0
      BY <1>2, <3>1, <3>2
    <3> DEFINE n == Len(call.todo)
    <3> HIDE DEF n
    <3>4. n \in Nat /\ n - 1 = 0
      BY <1>1, <3>3 DEF n
    <3>5. n = 1
      BY <3>4
    <3>6. QED BY <3>5 DEF n
  <2>2. QED BY <1>1, <2>1, TailOfSends DEF IInv, EndsWithStatus
<1>3. CASE refresh_status \/ _recover_status
  <2>1. Status(dev) \/ NoStatus
    BY <1>3 DEF refresh_status, _recover_status
  <2>2. call'.ok = (call.slot \in next_start_flags')
    BY <1>3 DEF refresh_status, _recover_status, Refreshed, Confirmed, IInv, TypeOK, Calls
  <2>3. QED BY <2>1, <2>2 DEF Status, NoStatus
<1>4. CASE Reads \/ Writes
  <2>1. call'.todo = Tail(call.todo)
    <3>1. call \in Calls
      BY DEF IInv, TypeOK
    <3>2. ASSUME NEW S, NEW m, ReadBack(S, m) PROVE call'.todo = Tail(call.todo)
      BY <3>1, <3>2 DEF ReadBack, Calls
    <3>3. Written => call'.todo = Tail(call.todo)
      BY <3>1 DEF Written, Calls
    <3>4. QED BY <1>4, <3>2, <3>3 DEF Reads, Writes
  <2>2. Head(call.todo) \notin {"status", "recover"}
    BY <1>4 DEF Reads, Writes, Awaits
  <2>3. QED BY <1>2, <2>1, <2>2
<1>5. CASE StatusMissed
  <2>1. Tail(call.todo) \in Seq(Sends)
    BY <1>1, TailOfSends
  <2>2. call'.todo # <<>>
    BY <1>5, <2>1, RecoverFirst DEF StatusMissed, IInv, TypeOK, Calls
  <2>3. QED BY <2>2
<1>6. CASE Raises
  BY <1>6 DEF Raises, IInv, TypeOK, Calls
<1>7. CASE Commands \/ refresh_state \/ Returns
  BY <1>7 DEF Commands, set_program, delete_program, set_program_enabled,
     set_controller_mode, get_programs, refresh_state, Begins, Returns
<1>8. CASE LinkDrops \/ LinkSettles \/ OtherCommands \/ UNCHANGED vars
  BY <1>8 DEF LinkDrops, LinkSettles, OtherCommands, vars
<1>9. QED BY <1>3, <1>4, <1>5, <1>6, <1>7, <1>8 DEF Next, Step

(* set_program anchors its confirmation "to THIS slot's bit".               *)
THEOREM ConfirmedByItsSlot == Spec => ArmedIsThisSlot
<1>1. IInv /\ [Next]_vars
        => [call.op = "set" /\ call.on /\ call.todo # <<>>
              /\ call'.todo = <<>> /\ call'.ok
              => call.slot \in dev.armed \cup next_start_flags]_vars
  BY ConfirmingStep
<1>2. QED BY <1>1, Inductive, PTL DEF Spec, ArmedIsThisSlot

-----------------------------------------------------------------------------
(* What a call has done so far. *)

(* The calls that write a slot, and the list each of them starts with.     *)
Writers == {"set", "delete", "toggle"}

Plan(c) ==
  CASE c.op = "set" /\ c.on    -> <<"read", "store", "read", "mask", "auto",
                                    "store", "mask", "status">>
    [] c.op = "set" /\ ~c.on   -> <<"read", "store", "read", "mask", "auto">>
    [] c.op = "delete"         -> <<"read", "mask", "clear", "auto", "read">>
    [] c.op = "toggle" /\ c.on -> <<"read", "mask", "auto", "mask", "status", "read">>
    [] OTHER                   -> <<"read", "mask", "auto", "status", "read">>

(* How much of it is done.                                                 *)
Done == Len(Plan(call)) - Len(call.todo)

(* What is left is the end of the plan, a status perhaps recovered; and    *)
(* the mask is known from the first read on.                               *)
OnPlan ==
  call.op \in Writers =>
    /\ call.slot # None /\ Done \in 0..Len(Plan(call))
    /\ call.op = "set" => call.body # None
    /\ call.op = "delete" => call.body = None /\ ~call.on
    /\ \A i \in 1..Len(call.todo) :
         \/ call.todo[i] = Plan(call)[Done + i]
         \/ i = 1 /\ call.todo[1] = "recover" /\ Plan(call)[Done + 1] = "status"
    /\ call.mask = None /\ call.todo # <<>> => Done = 0
    /\ call.mask # None => (call.slot \in call.mask <=> call.on)

(* A session is out of step only on a link that loses.                     *)
DeafIsLossy ==
  /\ deaf => lossy
  /\ call.op = "none" => call.todo = <<>> /\ ~deaf

(* What the device and the call are after each send of the plan, on a link *)
(* that loses nothing.                                                     *)
SetSoFar ==
  /\ Done >= 2 => dev.body[call.slot] = call.body
  /\ Done >= 3 => call.ok \/ call.on
  /\ Done >= 4 => /\ call.slot \in dev.on <=> call.on
                  /\ call.on \/ call.slot \notin dev.armed
  /\ Done >= 5 => dev.auto
  /\ Done >= 7 => call.slot \in dev.armed

DeletedSoFar ==
  /\ Done >= 2 => call.slot \notin dev.on \cup dev.armed
  /\ Done >= 3 => dev.body[call.slot] = None
  /\ Done >= 4 => dev.auto
  /\ Done >= 5 => call.ok

ToggledSoFar ==
  /\ Done >= 2 => /\ call.slot \in dev.on <=> call.on
                  /\ call.on \/ call.slot \notin dev.armed
  /\ Done >= 3 => dev.auto
  /\ Done >= 4 /\ call.on => (call.slot \in dev.armed <=> call.slot \in Stored(dev))
  /\ Done = Len(Plan(call)) => call.ok

AsPlanned ==
  ~lossy /\ call.fresh /\ up =>
    /\ call.op = "set"    => SetSoFar
    /\ call.op = "delete" => DeletedSoFar
    /\ call.op = "toggle" => ToggledSoFar

(* A toggle is confirmed against what is shown since.                      *)
ToggleIsShown ==
  call.op = "toggle" =>
    /\ call.ok => call.mask # None
    /\ call.ok /\ call.slot \in DOMAIN programs
         => programs[call.slot].enabled # FlagOf(~call.on)

LEMMA PlanOf ==
  ASSUME NEW c, c.op \in Writers, c.on \in BOOLEAN
  PROVE  /\ c.op = "set"    => Len(Plan(c)) = IF c.on THEN 8 ELSE 5
         /\ c.op = "delete" => Len(Plan(c)) = 5
         /\ c.op = "toggle" => Len(Plan(c)) = IF c.on THEN 6 ELSE 5
         /\ Plan(c)[1] = "read"
         /\ c.op = "set" => /\ Plan(c)[2] = "store" /\ Plan(c)[3] = "read"
                            /\ Plan(c)[4] = "mask"  /\ Plan(c)[5] = "auto"
         /\ c.op = "set" /\ c.on => /\ Plan(c)[6] = "store" /\ Plan(c)[7] = "mask"
                                    /\ Plan(c)[8] = "status"
         /\ c.op = "delete" => /\ Plan(c)[2] = "mask" /\ Plan(c)[3] = "clear"
                               /\ Plan(c)[4] = "auto" /\ Plan(c)[5] = "read"
         /\ c.op = "toggle" => Plan(c)[2] = "mask" /\ Plan(c)[3] = "auto"
         /\ c.op = "toggle" /\ c.on => /\ Plan(c)[4] = "mask" /\ Plan(c)[5] = "status"
                                       /\ Plan(c)[6] = "read"
         /\ c.op = "toggle" /\ ~c.on => Plan(c)[4] = "status" /\ Plan(c)[5] = "read"
<1>1. CASE c.op = "set" /\ c.on
  <2>1. Plan(c) = <<"read", "store", "read", "mask", "auto", "store", "mask", "status">>
    BY <1>1 DEF Plan
  <2>2. QED BY <1>1, <2>1
<1>2. CASE c.op = "set" /\ ~c.on
  <2>1. Plan(c) = <<"read", "store", "read", "mask", "auto">>
    BY <1>2 DEF Plan
  <2>2. QED BY <1>2, <2>1
<1>3. CASE c.op = "delete"
  <2>1. Plan(c) = <<"read", "mask", "clear", "auto", "read">>
    BY <1>3 DEF Plan
  <2>2. QED BY <1>3, <2>1
<1>4. CASE c.op = "toggle" /\ c.on
  <2>1. Plan(c) = <<"read", "mask", "auto", "mask", "status", "read">>
    BY <1>4 DEF Plan
  <2>2. QED BY <1>4, <2>1
<1>5. CASE c.op = "toggle" /\ ~c.on
  <2>1. Plan(c) = <<"read", "mask", "auto", "status", "read">>
    BY <1>5 DEF Plan
  <2>2. QED BY <1>5, <2>1
<1>6. QED BY <1>1, <1>2, <1>3, <1>4, <1>5 DEF Writers

(* When the send after the first k of a plan is of which kind.             *)
LEMMA Positions ==
  ASSUME NEW c, c.op \in Writers, c.on \in BOOLEAN,
         NEW k \in Nat, k < Len(Plan(c)), NEW x, x = Plan(c)[k + 1]
  PROVE  /\ c.op = "set" =>
              /\ x \in {"read", "store", "mask", "auto", "status"}
              /\ x = "read"   => k \in {0, 2}
              /\ x = "store"  => k \in {1, 5}
              /\ x = "mask"   => k = 3 \/ (k = 6 /\ c.on)
              /\ x = "auto"   => k = 4
              /\ x = "status" => k = 7 /\ c.on
         /\ c.op = "delete" =>
              /\ x \in {"read", "mask", "clear", "auto"}
              /\ x = "read"   => k \in {0, 4}
              /\ x = "mask"   => k = 1
              /\ x = "clear"  => k = 2
              /\ x = "auto"   => k = 3
         /\ c.op = "toggle" =>
              /\ x \in {"read", "mask", "auto", "status"}
              /\ x = "read"   => k = 0 \/ k + 1 = Len(Plan(c))
              /\ x = "mask"   => k = 1 \/ (k = 3 /\ c.on)
              /\ x = "auto"   => k = 2
              /\ x = "status" => k >= 3 /\ k + 2 = Len(Plan(c))
<1> DEFINE P == Plan(c)
           n == Len(P)
<1>0. k < n /\ x = P[k + 1]
  OBVIOUS
<1>1. CASE c.op = "set"
  <2>1. CASE c.on
    <3>1. /\ n = 8 /\ P[1] = "read" /\ P[2] = "store" /\ P[3] = "read"
          /\ P[4] = "mask" /\ P[5] = "auto" /\ P[6] = "store" /\ P[7] = "mask"
          /\ P[8] = "status"
      BY <1>1, <2>1, PlanOf
    <3> HIDE DEF P, n
    <3>2. k \in 0..7
      BY <1>0, <3>1
    <3>3. /\ x \in {"read", "store", "mask", "auto", "status"}
          /\ x = "read"   => k \in {0, 2}
          /\ x = "store"  => k \in {1, 5}
          /\ x = "mask"   => k = 3 \/ k = 6
          /\ x = "auto"   => k = 4
          /\ x = "status" => k = 7
      BY <1>0, <3>1, <3>2
    <3>4. QED BY <1>1, <2>1, <3>3
  <2>2. CASE ~c.on
    <3>1. /\ n = 5 /\ P[1] = "read" /\ P[2] = "store" /\ P[3] = "read"
          /\ P[4] = "mask" /\ P[5] = "auto"
      BY <1>1, <2>2, PlanOf
    <3> HIDE DEF P, n
    <3>2. k \in 0..4
      BY <1>0, <3>1
    <3>3. /\ x \in {"read", "store", "mask", "auto"}
          /\ x = "read"   => k \in {0, 2}
          /\ x = "store"  => k \in {1, 5}
          /\ x = "mask"   => k = 3
          /\ x = "auto"   => k = 4
      BY <1>0, <3>1, <3>2
    <3>4. QED BY <1>1, <2>2, <3>3
  <2>3. QED BY <2>1, <2>2
<1>2. CASE c.op = "delete"
  <2>1. /\ n = 5 /\ P[1] = "read" /\ P[2] = "mask" /\ P[3] = "clear"
        /\ P[4] = "auto" /\ P[5] = "read"
    BY <1>2, PlanOf
  <2> HIDE DEF P, n
  <2>2. k \in 0..4
    BY <1>0, <2>1
  <2>3. /\ x \in {"read", "mask", "clear", "auto"}
        /\ x = "read"   => k \in {0, 4}
        /\ x = "mask"   => k = 1
        /\ x = "clear"  => k = 2
        /\ x = "auto"   => k = 3
    BY <1>0, <2>1, <2>2
  <2>4. QED BY <1>2, <2>3
<1>3. CASE c.op = "toggle"
  <2>1. CASE c.on
    <3>1. /\ n = 6 /\ P[1] = "read" /\ P[2] = "mask" /\ P[3] = "auto"
          /\ P[4] = "mask" /\ P[5] = "status" /\ P[6] = "read"
      BY <1>3, <2>1, PlanOf
    <3> HIDE DEF P, n
    <3>2. k \in 0..5
      BY <1>0, <3>1
    <3>3. /\ x \in {"read", "mask", "auto", "status"}
          /\ x = "read"   => k = 0 \/ k + 1 = n
          /\ x = "mask"   => k = 1 \/ k = 3
          /\ x = "auto"   => k = 2
          /\ x = "status" => k >= 3 /\ k + 2 = n
      BY <1>0, <3>1, <3>2
    <3>4. QED BY <1>3, <2>1, <3>3 DEF P, n
  <2>2. CASE ~c.on
    <3>1. /\ n = 5 /\ P[1] = "read" /\ P[2] = "mask" /\ P[3] = "auto"
          /\ P[4] = "status" /\ P[5] = "read"
      BY <1>3, <2>2, PlanOf
    <3> HIDE DEF P, n
    <3>2. k \in 0..4
      BY <1>0, <3>1
    <3>3. /\ x \in {"read", "mask", "auto", "status"}
          /\ x = "read"   => k = 0 \/ k + 1 = n
          /\ x = "mask"   => k = 1
          /\ x = "auto"   => k = 2
          /\ x = "status" => k >= 3 /\ k + 2 = n
      BY <1>0, <3>1, <3>2
    <3>4. QED BY <1>3, <2>2, <3>3 DEF P, n
  <2>3. QED BY <2>1, <2>2
<1>4. QED BY <1>1, <1>2, <1>3 DEF Writers

(* A send that is done brings the call one place on in its plan.           *)
LEMMA SendDone ==
  ASSUME IInv, OnPlan, call.op \in Writers, NEW msg \in Sends, Awaits(msg),
         call'.todo = Tail(call.todo), UNCHANGED <<call.op, call.on, call.slot, call.body>>,
         call'.mask # None, call.slot \in call'.mask <=> call.on
  PROVE  /\ OnPlan' /\ Plan(call') = Plan(call)
         /\ Done \in Nat /\ Done' = Done + 1 /\ Done < Len(Plan(call))
         /\ \/ Plan(call)[Done + 1] = msg
            \/ Plan(call)[Done + 1] = "status" /\ msg = "recover"
<1> DEFINE P == Plan(call)
           k == Done
           t == call.todo
<1>1. t \in Seq(Sends) /\ t # <<>> /\ t[1] = msg
  BY DEF IInv, TypeOK, Calls, Awaits
<1>2. /\ Len(t) \in Nat \ {0} /\ Len(call'.todo) = Len(t) - 1
      /\ \A i \in 1..Len(call'.todo) : call'.todo[i] = t[i + 1]
  BY <1>1, TailOfSends
<1>3. Plan(call') = P
  BY DEF Plan
<1>4. call.on \in BOOLEAN
  BY DEF IInv, TypeOK, Calls
<1>5. Len(P) \in Nat
  BY <1>4, PlanOf DEF Writers
<1>6. /\ k = Len(P) - Len(t) /\ Done' = Len(P) - Len(call'.todo)
      /\ k \in 0..Len(P)
  BY <1>3 DEF OnPlan, Done
<1>7. \A i \in 1..Len(t) : t[i] = P[k + i] \/ (i = 1 /\ t[1] = "recover" /\ P[k + 1] = "status")
  BY DEF OnPlan
<1> HIDE DEF P, k, t
<1>8. k \in Nat /\ Done' = k + 1 /\ k < Len(P) /\ Done' \in 0..Len(P)
  <2> DEFINE n == Len(P)
             a == Len(t)
             b == Len(call'.todo)
             d == Done'
  <2>1. n \in Nat /\ a \in Nat \ {0} /\ b = a - 1 /\ k = n - a /\ d = n - b /\ k \in 0..n
    BY <1>2, <1>5, <1>6
  <2> HIDE DEF n, a, b, d
  <2>2. k \in Nat /\ d = k + 1 /\ k < n /\ d \in 0..n
    BY <2>1
  <2>3. QED BY <2>2 DEF n, d
<1>9. P[k + 1] = msg \/ (P[k + 1] = "status" /\ msg = "recover")
  BY <1>1, <1>2, <1>7
<1>10. \A i \in 1..Len(call'.todo) : call'.todo[i] = P[Done' + i]
  <2> TAKE i \in 1..Len(call'.todo)
  <2>1. i + 1 \in 1..Len(t) /\ i + 1 # 1 /\ k + (i + 1) = (k + 1) + i
    BY <1>2, <1>8
  <2>2. t[i + 1] = P[k + (i + 1)]
    BY <1>7, <2>1
  <2>3. QED BY <1>2, <1>8, <2>1, <2>2
<1>11. OnPlan'
  BY <1>3, <1>8, <1>10 DEF OnPlan, P
<1>12. QED BY <1>3, <1>8, <1>9, <1>11 DEF P, k

-----------------------------------------------------------------------------
Planned == OnPlan /\ DeafIsLossy /\ AsPlanned /\ ToggleIsShown

(* A send on a good link is heard.                                         *)
LEMMA GoodLinkHears ==
  ASSUME IInv, DeafIsLossy, Heard \/ Lost, call.todo # <<>>, call'.op = call.op
  PROVE  DeafIsLossy' /\ lossy' = lossy /\ (~lossy => Heard /\ ~Lost)
<1>1. lossy \in BOOLEAN /\ deaf \in BOOLEAN /\ up \in BOOLEAN
  BY DEF IInv, TypeOK
<1>2. Deaf => lossy
  BY DEF DeafIsLossy, Deaf
<1>3. lossy' = lossy /\ (deaf' => lossy)
  BY <1>1, <1>2 DEF Heard, Lost
<1>4. ~lossy => Heard /\ ~Lost
  BY <1>2 DEF Lost
<1>5. QED BY <1>3, <1>4 DEF DeafIsLossy

(* What a write does to the device, as the slot of the call sees it.       *)
LEMMA Effects ==
  ASSUME TypeOK, call.slot \in Slot,
         NEW msg \in {"store", "clear", "mask", "auto"}, dev' = Effect(dev, msg),
         msg = "mask" => call.mask # None
  PROVE  LET s == call.slot IN
         /\ msg = "store" => /\ dev'.body[s] = call.body
                             /\ UNCHANGED <<dev.on, dev.auto, dev.armed>>
         /\ msg = "clear" => /\ dev'.body[s] = None
                             /\ UNCHANGED <<dev.on, dev.auto>>
                             /\ dev'.armed \subseteq dev.armed
         /\ msg = "mask"  => /\ UNCHANGED <<dev.body, dev.auto>>
                             /\ dev'.on = call.mask
                             /\ s \notin call.mask => s \notin dev'.armed
                             /\ dev.auto /\ s \in call.mask =>
                                  (s \in dev'.armed <=> s \in Stored(dev))
         /\ msg = "auto"  => /\ dev'.auto
                             /\ UNCHANGED <<dev.on, dev.body, dev.armed>>
<1>1. dev \in Devices
  BY DEF TypeOK
<1>2. CASE msg = "store"
  BY <1>1, <1>2 DEF Effect, Devices
<1>3. CASE msg = "clear"
  BY <1>1, <1>3 DEF Effect, Devices
<1>4. CASE msg = "mask"
  BY <1>1, <1>4 DEF Effect, Devices, Masked
<1>5. CASE msg = "auto"
  BY <1>1, <1>5 DEF Effect, Devices
<1>6. QED BY <1>2, <1>3, <1>4, <1>5

LEMMA StoredSlot ==
  ASSUME NEW d \in Devices, NEW s \in Slot
  PROVE  s \in Stored(d) <=> d.body[s] # None
  BY DEF Stored

(* A call that is no writer, and one whose session did not last, owe       *)
(* nothing to the plan.                                                    *)
LEMMA NotOwed ==
  ASSUME call'.op \notin Writers
  PROVE  OnPlan' /\ AsPlanned' /\ ToggleIsShown'
  BY DEF OnPlan, AsPlanned, ToggleIsShown, Writers

LEMMA WritesPlanned ==
  ASSUME IInv, Planned, Writes
  PROVE  Planned'
<1>1. PICK msg \in {"store", "clear", "mask", "auto", "mode"} :
        /\ Awaits(msg)
        /\ Heard \/ Lost
        /\ dev' = Effect(dev, msg) \/ lossy
  BY DEF Writes
<1>2. /\ call' = [call EXCEPT !.todo = Tail(@), !.fresh = @ /\ up]
      /\ programs' = programs
  BY DEF Writes, Written
<1>3. call \in Calls /\ call.todo # <<>> /\ TypeOK
  BY <1>1 DEF IInv, TypeOK, Awaits
<1>4. /\ call'.todo = Tail(call.todo)
      /\ UNCHANGED <<call.op, call.on, call.slot, call.body, call.mask, call.ok>>
      /\ call'.fresh = (call.fresh /\ up)
  BY <1>2, <1>3 DEF Calls
<1>5. DeafIsLossy' /\ lossy' = lossy
  BY <1>1, <1>3, <1>4, GoodLinkHears DEF Planned
<1>6. CASE call.op \notin Writers
  BY <1>4, <1>5, <1>6, NotOwed DEF Planned
<1>7. CASE call.op \in Writers
  <2>1. call.slot \in Slot /\ call.mask # None /\ (call.slot \in call.mask <=> call.on)
    <3>1. call.slot # None
      BY <1>7 DEF Planned, OnPlan
    <3>2. msg \in Sends \ {"read"}
      OBVIOUS
    <3>3. call.mask # None
      BY <1>1, <3>1, <3>2, NotReading
    <3>4. QED BY <1>3, <1>7, <3>1, <3>3 DEF Planned, OnPlan, Calls
  <2> DEFINE P == Plan(call)
             k == Done
  <2>2. /\ OnPlan' /\ k \in Nat /\ Done' = k + 1 /\ k < Len(P)
        /\ P[k + 1] = msg /\ Plan(call') = P
    BY <1>1, <1>4, <1>7, <2>1, SendDone DEF Planned
  <2>3. ToggleIsShown'
    BY <1>2, <1>4 DEF Planned, ToggleIsShown
  <2>4. AsPlanned'
    <3> SUFFICES ASSUME ~lossy', call'.fresh, up'
                 PROVE  /\ call.op = "set"    => SetSoFar'
                        /\ call.op = "delete" => DeletedSoFar'
                        /\ call.op = "toggle" => ToggledSoFar'
      BY <1>4 DEF AsPlanned
    <3>1. ~lossy /\ call.fresh /\ up /\ dev' = Effect(dev, msg)
      BY <1>1, <1>4, <1>5
    <3>2. msg # "mode"
      BY <1>3, <1>7, <2>2, Positions DEF Calls, Writers
    <3> DEFINE s == call.slot
    <3>3. /\ msg = "store" => /\ dev'.body[s] = call.body
                              /\ UNCHANGED <<dev.on, dev.auto, dev.armed>>
          /\ msg = "clear" => /\ dev'.body[s] = None
                              /\ UNCHANGED <<dev.on, dev.auto>>
                              /\ dev'.armed \subseteq dev.armed
          /\ msg = "mask"  => /\ UNCHANGED <<dev.body, dev.auto>>
                              /\ dev'.on = call.mask
                              /\ s \notin call.mask => s \notin dev'.armed
                              /\ dev.auto /\ s \in call.mask =>
                                   (s \in dev'.armed <=> s \in Stored(dev))
          /\ msg = "auto"  => /\ dev'.auto
                              /\ UNCHANGED <<dev.on, dev.body, dev.armed>>
      BY <1>3, <2>1, <3>1, <3>2, Effects
    <3>4. /\ s \in Stored(dev) <=> dev.body[s] # None
          /\ s \in Stored(dev') <=> dev'.body[s] # None
      <4>1. dev' \in Devices
        BY <1>3, <2>1, <3>1, EffectTyped
      <4>2. QED BY <1>3, <2>1, <4>1, StoredSlot DEF TypeOK
    <3>5. call.op = "set" => call.body # None
      BY <1>7 DEF Planned, OnPlan
    <3> HIDE DEF s, k, P
    <3>6. CASE call.op = "set"
      <4>1. SetSoFar
        BY <3>1, <3>6 DEF Planned, AsPlanned
      <4>2. /\ msg \in {"store", "mask", "auto"}
            /\ msg = "store" => k \in {1, 5}
            /\ msg = "mask"  => k = 3 \/ (k = 6 /\ call.on)
            /\ msg = "auto"  => k = 4
        BY <1>3, <1>7, <2>2, <3>6, Positions DEF Calls, P
      <4>3. SetSoFar'
        <5>1. CASE msg = "store"
          BY <1>4, <2>2, <3>3, <4>1, <4>2, <5>1 DEF SetSoFar, k, s
        <5>2. CASE msg = "mask"
          BY <1>4, <2>1, <2>2, <3>3, <3>4, <3>5, <3>6, <4>1, <4>2, <5>2 DEF SetSoFar, k, s
        <5>3. CASE msg = "auto"
          BY <1>4, <2>2, <3>3, <4>1, <4>2, <5>3 DEF SetSoFar, k, s
        <5>4. QED BY <4>2, <5>1, <5>2, <5>3
      <4>4. QED BY <3>6, <4>1, <4>3
    <3>7. CASE call.op = "delete"
      <4>1. ~call.on /\ DeletedSoFar
        BY <1>7, <3>1, <3>7 DEF Planned, OnPlan, AsPlanned
      <4>2. /\ msg \in {"mask", "clear", "auto"}
            /\ msg = "mask"  => k = 1
            /\ msg = "clear" => k = 2
            /\ msg = "auto"  => k = 3
        BY <1>3, <1>7, <2>2, <3>7, Positions DEF Calls, P
      <4>3. DeletedSoFar'
        <5>1. CASE msg = "mask"
          BY <1>4, <2>1, <2>2, <3>3, <4>1, <4>2, <5>1 DEF DeletedSoFar, k, s
        <5>2. CASE msg = "clear"
          BY <1>4, <2>2, <3>3, <4>1, <4>2, <5>2 DEF DeletedSoFar, k, s
        <5>3. CASE msg = "auto"
          BY <1>4, <2>2, <3>3, <4>1, <4>2, <5>3 DEF DeletedSoFar, k, s
        <5>4. QED BY <4>2, <5>1, <5>2, <5>3
      <4>4. QED BY <3>7, <4>1, <4>3
    <3>8. CASE call.op = "toggle"
      <4>1. ToggledSoFar
        BY <3>1, <3>8 DEF Planned, AsPlanned
      <4>2. /\ msg \in {"mask", "auto"}
            /\ msg = "mask" => k = 1 \/ (k = 3 /\ call.on)
            /\ msg = "auto" => k = 2
        BY <1>3, <1>7, <2>2, <3>8, Positions DEF Calls, P
      <4>3. Len(P) = IF call.on THEN 6 ELSE 5
        BY <1>3, <1>7, <3>8, PlanOf DEF Calls, P
      <4>4. k + 1 < Len(P)
        BY <2>2, <4>2, <4>3
      <4>5. ToggledSoFar'
        <5>1. CASE msg = "mask"
          BY <1>4, <2>1, <2>2, <3>3, <3>4, <4>1, <4>2, <4>3, <4>4, <5>1 DEF ToggledSoFar, k, s, P
        <5>2. CASE msg = "auto"
          BY <1>4, <2>2, <3>3, <4>1, <4>2, <4>3, <4>4, <5>2 DEF ToggledSoFar, k, s, P
        <5>3. QED BY <4>2, <5>1, <5>2
      <4>6. QED BY <3>8, <4>5
    <3>9. QED BY <1>7, <3>6, <3>7, <3>8 DEF Writers
  <2>5. QED BY <1>5, <2>2, <2>3, <2>4 DEF Planned
<1>8. QED BY <1>6, <1>7

(* On a link that loses nothing a read is the whole burst.                 *)
LEMMA WholeBurst ==
  ASSUME Reads, ~Lost
  PROVE  _read_programs(Sent(dev), TRUE, TRUE) /\ ReadBack(Sent(dev), TRUE)
  BY DEF Reads

(* A read confirms a toggle by the flag it shows.                          *)
LEMMA ReadConfirms ==
  ASSUME NEW S, NEW m \in BOOLEAN, NEW st \in BOOLEAN, NEW s \in Slot, NEW on \in BOOLEAN,
         _read_programs(S, m, st), (s \in _enable_mask(m)) = on, s \in DOMAIN programs'
  PROVE  programs'[s].enabled # FlagOf(~on)
<1>1. CASE m
  <2>1. _enable_mask(m) = dev.on
    BY <1>1 DEF _enable_mask
  <2>2. S # {}
    BY <1>1 DEF _read_programs, ShownWithoutBodies, NoPrograms
  <2>3. programs'[s].enabled = FlagOf(s \in dev.on)
    BY <1>1, <2>2 DEF _read_programs
  <2>4. QED BY <2>1, <2>3 DEF FlagOf
<1>2. CASE ~m
  <2>1. s \in _enable_mask(m) <=> programs'[s].enabled = "on"
    BY <1>2 DEF _enable_mask
  <2>2. QED BY <2>1 DEF FlagOf
<1>3. QED BY <1>1, <1>2

LEMMA ReadsPlanned ==
  ASSUME IInv, Planned, Reads
  PROVE  Planned'
<1>1. PICK m \in BOOLEAN, st \in BOOLEAN, S \in SUBSET Sent(dev) :
        _read_programs(S, m, st) /\ ReadBack(S, m) /\ (Heard \/ Lost)
  BY ReadCases
<1> DEFINE M == _enable_mask(m)
           N == IF call.mask = None /\ call.slot # None THEN NewMask(M) ELSE call.mask
           F == IF call.mask = None THEN m ELSE call.fresh /\ up
           K == IF call.mask = None THEN call.ok ELSE
                CASE call.op = "set"    -> call.slot \in S \cap Stored(dev)
                  [] call.op = "delete" -> call.slot \notin S \cap Stored(dev)
                  [] call.op = "toggle" -> (call.slot \in M) = call.on
                  [] OTHER              -> call.ok
<1>2. call \in Calls /\ call.todo # <<>> /\ Awaits("read") /\ TypeOK
  BY DEF IInv, TypeOK, Reads, Awaits
<1>3. call' = [call EXCEPT !.todo = Tail(@), !.mask = N, !.fresh = F, !.ok = K]
  BY <1>1 DEF ReadBack
<1>4. M \in SUBSET Slot
  BY <1>1, ReadTyped DEF IInv
<1> HIDE DEF M, N, F, K
<1>5. /\ call'.todo = Tail(call.todo) /\ call'.mask = N /\ call'.fresh = F
      /\ call'.ok = K
      /\ UNCHANGED <<call.op, call.on, call.slot, call.body, dev>>
  BY <1>1, <1>2, <1>3 DEF Calls, ReadBack
<1>6. DeafIsLossy' /\ lossy' = lossy /\ (~lossy => ~Lost)
  BY <1>1, <1>2, <1>5, GoodLinkHears DEF Planned
<1>7. CASE call.op \notin Writers
  BY <1>5, <1>6, <1>7, NotOwed DEF Planned
<1>8. CASE call.op \in Writers
  <2> DEFINE P == Plan(call)
             k == Done
             s == call.slot
  <2>1. s \in Slot /\ call.on \in BOOLEAN
    BY <1>2, <1>8 DEF Planned, OnPlan, Calls
  <2>2. N # None /\ (s \in N <=> call.on)
    <3>1. CASE call.mask = None
      <4>1. N = NewMask(M)
        BY <2>1, <3>1 DEF N
      <4>2. NewMask(M) \in SUBSET Slot
        BY <1>4, <2>1 DEF NewMask
      <4>3. QED BY <2>1, <4>1, <4>2 DEF NewMask
    <3>2. CASE call.mask # None
      BY <1>8, <3>2 DEF N, Planned, OnPlan
    <3>3. QED BY <3>1, <3>2
  <2>3. /\ OnPlan' /\ k \in Nat /\ Done' = k + 1 /\ k < Len(P)
        /\ P[k + 1] = "read" /\ Plan(call') = P
    BY <1>2, <1>5, <1>8, <2>2, SendDone DEF Planned
  <2>4. call.mask = None => k = 0
    BY <1>2, <1>8 DEF Planned, OnPlan
  <2>5. ToggleIsShown'
    <3> SUFFICES ASSUME call.op = "toggle", K
                 PROVE  s \in DOMAIN programs' => programs'[s].enabled # FlagOf(~call.on)
      BY <1>5, <2>2 DEF ToggleIsShown
    <3>1. call.mask # None
      BY DEF K, Planned, ToggleIsShown
    <3>2. K <=> (s \in M) = call.on
      BY <3>1 DEF K
    <3>3. (s \in _enable_mask(m)) = call.on
      BY <3>2 DEF M
    <3>4. _read_programs(S, m, st)
      BY <1>1
    <3> HIDE DEF P, k, s
    <3>5. QED BY <2>1, <3>3, <3>4, ReadConfirms
  <2>6. AsPlanned'
    <3> SUFFICES ASSUME ~lossy', call'.fresh, up'
                 PROVE  /\ call.op = "set"    => SetSoFar'
                        /\ call.op = "delete" => DeletedSoFar'
                        /\ call.op = "toggle" => ToggledSoFar'
      BY <1>5 DEF AsPlanned
    <3> HIDE DEF s, k, P
    <3>1. CASE call.mask = None
      <4>1. Done' = 1 /\ 1 < Len(P)
        <5>1. Done' = 1
          BY <2>3, <2>4, <3>1
        <5>2. 1 < Len(P)
          BY <1>8, <2>1, PlanOf DEF P, Writers
        <5>3. QED BY <5>1, <5>2
      <4>2. QED BY <2>3, <4>1 DEF SetSoFar, DeletedSoFar, ToggledSoFar
    <3>2. CASE call.mask # None
      <4>1. ~lossy /\ call.fresh /\ up
        BY <1>5, <1>6, <3>2 DEF F
      <4>2. _read_programs(Sent(dev), TRUE, TRUE) /\ ReadBack(Sent(dev), TRUE)
        BY <1>6, <4>1, WholeBurst
      <4>3. call'.ok = CASE call.op = "set"    -> s \in Sent(dev) \cap Stored(dev)
                         [] call.op = "delete" -> s \notin Sent(dev) \cap Stored(dev)
                         [] call.op = "toggle" -> (s \in dev.on) = call.on
                         [] OTHER              -> call.ok
        BY <1>2, <3>2, <4>2 DEF ReadBack, Calls, s, _enable_mask
      <4>4. s \in Sent(dev) \cap Stored(dev) <=> dev.body[s] # None
        BY <1>2, <2>1, StoredSlot DEF Sent, Stored, TypeOK, s
      <4>5. CASE call.op = "set"
        <5>1. SetSoFar /\ call.body # None
          BY <1>8, <4>1, <4>5 DEF Planned, AsPlanned, OnPlan
        <5>2. k = 0 \/ k = 2
          BY <1>8, <2>1, <2>3, <4>5, Positions DEF P
        <5>3. k = 2 => call'.ok
          <6>1. k = 2 => dev.body[s] # None
            BY <5>1 DEF SetSoFar, k, s
          <6>2. call'.ok = (s \in Sent(dev) \cap Stored(dev))
            BY <4>3, <4>5
          <6>3. QED BY <4>4, <6>1, <6>2
        <5>4. QED BY <1>5, <2>3, <4>5, <5>1, <5>2, <5>3 DEF SetSoFar, k, s
      <4>6. CASE call.op = "delete"
        <5>1. DeletedSoFar
          BY <4>1, <4>6 DEF Planned, AsPlanned
        <5>2. k = 0 \/ k = 4
          BY <1>8, <2>1, <2>3, <4>6, Positions DEF P
        <5>3. k = 4 => call'.ok
          <6>1. k = 4 => dev.body[s] = None
            BY <5>1 DEF DeletedSoFar, k, s
          <6>2. call'.ok = (s \notin Sent(dev) \cap Stored(dev))
            BY <4>3, <4>6
          <6>3. QED BY <4>4, <6>1, <6>2
        <5>4. QED BY <1>5, <2>3, <4>6, <5>1, <5>2, <5>3 DEF DeletedSoFar, k, s
      <4>7. CASE call.op = "toggle"
        <5>1. ToggledSoFar
          BY <4>1, <4>7 DEF Planned, AsPlanned
        <5>2. Len(P) = IF call.on THEN 6 ELSE 5
          BY <1>8, <2>1, <4>7, PlanOf DEF P
        <5>3. k = 0 \/ k + 1 = Len(P)
          BY <1>8, <2>1, <2>3, <4>7, Positions DEF P
        <5>4. k # 0 => call'.ok
          <6> DEFINE b == (s \in dev.on) = call.on
          <6>1. k # 0 => k >= 2
            BY <2>3, <5>2, <5>3
          <6>2. k # 0 => (s \in dev.on <=> call.on)
            BY <5>1, <6>1 DEF ToggledSoFar, k, s
          <6>3. call'.ok = b
            BY <4>3, <4>7
          <6>4. ASSUME s \in dev.on <=> call.on
                PROVE  b
            <7>1. CASE call.on
              <8>1. call.on = TRUE /\ s \in dev.on
                BY <2>1, <6>4, <7>1
              <8>2. QED BY <8>1
            <7>2. CASE ~call.on
              <8>1. call.on = FALSE
                BY <2>1, <7>2
              <8>2. (s \in dev.on) = FALSE
                BY <6>4, <7>2
              <8>3. QED BY <8>1, <8>2
            <7>3. QED BY <7>1, <7>2
          <6>5. ASSUME k # 0 PROVE call'.ok
            <7>1. b = TRUE
              BY <6>2, <6>4, <6>5
            <7>2. call'.ok = TRUE
              BY <6>3, <7>1
            <7>3. QED BY <7>2
          <6>6. QED BY <6>5
        <5>5. QED BY <1>5, <2>1, <2>3, <4>7, <5>1, <5>2, <5>3, <5>4 DEF ToggledSoFar, k, s, P
      <4>8. QED BY <1>8, <4>5, <4>6, <4>7 DEF Writers
    <3>3. QED BY <3>1, <3>2
  <2>7. QED BY <1>6, <2>3, <2>5, <2>6 DEF Planned
<1>9. QED BY <1>7, <1>8

LEMMA RefreshedPlanned ==
  ASSUME IInv, Planned, NEW msg \in {"status", "recover"}, Awaits(msg),
         NEW h \in BOOLEAN, Refreshed(h), Heard \/ Lost
  PROVE  Planned'
<1> DEFINE T == IF call.op = "poll" /\ ~h THEN <<>> ELSE Tail(call.todo)
           C == Confirmed
<1>1. call \in Calls /\ call.todo # <<>> /\ TypeOK
  BY DEF IInv, TypeOK, Awaits
<1>2. call' = [call EXCEPT !.todo = T, !.fresh = @ /\ up, !.ok = C]
  BY DEF Refreshed
<1>3. call.op \notin {"set", "mode"} => C = call.ok
  BY DEF Confirmed
<1> HIDE DEF T, C
<1>4. /\ call'.todo = T /\ call'.ok = C /\ call'.fresh = (call.fresh /\ up)
      /\ UNCHANGED <<call.op, call.on, call.slot, call.body, call.mask>>
      /\ UNCHANGED <<dev, programs>>
  BY <1>1, <1>2 DEF Calls, Refreshed
<1>5. DeafIsLossy' /\ lossy' = lossy
  BY <1>1, <1>4, GoodLinkHears DEF Planned
<1>6. CASE call.op \notin Writers
  BY <1>4, <1>5, <1>6, NotOwed DEF Planned
<1>7. CASE call.op \in Writers
  <2> DEFINE P == Plan(call)
             k == Done
  <2>1. T = Tail(call.todo)
    BY <1>7 DEF T, Writers
  <2>2. call.mask # None /\ (call.slot \in call.mask <=> call.on)
    <3>1. call.slot # None
      BY <1>7 DEF Planned, OnPlan
    <3>2. call.mask # None
      BY <3>1, NotReading
    <3>3. QED BY <1>7, <3>2 DEF Planned, OnPlan
  <2>3. /\ OnPlan' /\ k \in Nat /\ Done' = k + 1 /\ k < Len(P)
        /\ P[k + 1] = "status" /\ Plan(call') = P
    <3>1. /\ OnPlan' /\ k \in Nat /\ Done' = k + 1 /\ k < Len(P)
          /\ P[k + 1] \in {"status", "recover"} /\ Plan(call') = P
      BY <1>4, <1>7, <2>1, <2>2, SendDone DEF Planned
    <3>2. P[k + 1] # "recover"
      BY <1>1, <1>7, <3>1, Positions DEF Calls, Writers
    <3>3. QED BY <3>1, <3>2
  <2>4. call.op # "delete" /\ (call.op = "set" => k = 7 /\ call.on)
        /\ (call.op = "toggle" => k >= 3 /\ k + 2 = Len(P))
    BY <1>1, <1>7, <2>3, Positions DEF Calls
  <2>5. ToggleIsShown'
    BY <1>3, <1>4 DEF Planned, ToggleIsShown
  <2>6. AsPlanned'
    <3> SUFFICES ASSUME ~lossy', call'.fresh, up'
                 PROVE  /\ call.op = "set"    => SetSoFar'
                        /\ call.op = "toggle" => ToggledSoFar'
      BY <1>4, <2>4 DEF AsPlanned
    <3>1. ~lossy /\ call.fresh /\ up
      BY <1>4, <1>5
    <3> HIDE DEF P, k
    <3>2. CASE call.op = "set"
      <4>1. SetSoFar
        BY <3>1, <3>2 DEF Planned, AsPlanned
      <4>2. SetSoFar'
        BY <1>4, <2>3, <2>4, <3>2, <4>1 DEF SetSoFar, k
      <4>3. QED BY <3>2, <4>2
    <3>3. CASE call.op = "toggle"
      <4>1. ToggledSoFar
        BY <3>1, <3>3 DEF Planned, AsPlanned
      <4>2. Len(P) = IF call.on THEN 6 ELSE 5
        BY <1>1, <1>7, <3>3, PlanOf DEF Calls, P
      <4>3. Stored(dev') = Stored(dev)
        BY <1>4 DEF Stored
      <4>4. ToggledSoFar'
        BY <1>4, <2>3, <2>4, <3>3, <4>1, <4>2, <4>3 DEF ToggledSoFar, k, P
      <4>5. QED BY <3>3, <4>4
    <3>4. QED BY <1>7, <3>2, <3>3 DEF Writers
  <2>7. QED BY <1>5, <2>3, <2>5, <2>6 DEF Planned
<1>8. QED BY <1>6, <1>7

LEMMA MissedPlanned ==
  ASSUME IInv, Planned, StatusMissed
  PROVE  Planned'
<1> DEFINE q == Tail(call.todo)
<1>1. call \in Calls /\ call.todo \in Seq(Sends) /\ call.todo # <<>> /\ Head(call.todo) = "status"
  BY DEF StatusMissed, IInv, TypeOK, Calls, Awaits
<1>2. /\ q \in Seq(Sends) /\ Len(q) = Len(call.todo) - 1
      /\ Len(call.todo) \in Nat \ {0} /\ call.todo[1] = "status"
      /\ \A i \in 1..Len(q) : q[i] = call.todo[i + 1]
  BY <1>1, TailOfSends
<1> HIDE DEF q
<1>3. /\ call'.todo = <<"recover">> \o q
      /\ UNCHANGED <<call.op, call.on, call.slot, call.body, call.mask, call.ok>>
      /\ UNCHANGED <<programs, lossy>> /\ up' = FALSE /\ deaf' = FALSE
  BY <1>1 DEF StatusMissed, Calls, q, state
<1>4. /\ Len(call'.todo) = Len(call.todo)
      /\ call'.todo[1] = "recover"
      /\ \A i \in 1..Len(q) : call'.todo[i + 1] = q[i]
      /\ call'.todo # <<>>
  BY <1>2, <1>3, RecoverFirst
<1>5. Plan(call') = Plan(call) /\ Done' = Done
  <2>1. Plan(call') = Plan(call)
    BY <1>3 DEF Plan
  <2>2. QED BY <1>4, <2>1 DEF Done
<1>6. \A i \in 1..Len(call'.todo) : i = 1 \/ call'.todo[i] = call.todo[i]
  <2> TAKE i \in 1..Len(call'.todo)
  <2>1. CASE i # 1
    <3>1. i - 1 \in 1..Len(q) /\ (i - 1) + 1 = i
      BY <1>2, <1>4, <2>1
    <3>2. call'.todo[(i - 1) + 1] = q[i - 1] /\ q[i - 1] = call.todo[(i - 1) + 1]
      BY <1>2, <1>4, <3>1, Zenon
    <3>3. QED BY <3>1, <3>2, Zenon
  <2>2. QED BY <2>1
<1>7. OnPlan'
  <2> SUFFICES ASSUME call.op \in Writers PROVE OnPlan'
    BY <1>3 DEF OnPlan
  <2>1. Plan(call)[Done + 1] = "status" /\ call.mask # None
    <3>1. 1 \in 1..Len(call.todo)
      BY <1>2
    <3>2. call.slot # None
      BY DEF Planned, OnPlan
    <3>3. QED BY <1>2, <3>1, <3>2, NotReading DEF Planned, OnPlan, StatusMissed
  <2>2. \A i \in 1..Len(call'.todo) :
          \/ call'.todo[i] = Plan(call')[Done' + i]
          \/ i = 1 /\ call'.todo[1] = "recover" /\ Plan(call')[Done' + 1] = "status"
    <3> TAKE i \in 1..Len(call'.todo)
    <3>1. CASE i = 1
      BY <1>4, <1>5, <2>1, <3>1
    <3>2. CASE i # 1
      BY <1>4, <1>5, <1>6, <3>2 DEF Planned, OnPlan
    <3>3. QED BY <3>1, <3>2
  <2>3. QED BY <1>3, <1>5, <2>1, <2>2 DEF Planned, OnPlan
<1>8. DeafIsLossy'
  BY <1>1, <1>3 DEF Planned, DeafIsLossy
<1>9. AsPlanned' /\ ToggleIsShown'
  BY <1>3 DEF AsPlanned, Planned, ToggleIsShown
<1>10. QED BY <1>7, <1>8, <1>9 DEF Planned

-----------------------------------------------------------------------------
(* What a writer starts with.                                              *)
LEMMA BeginsPlanned ==
  ASSUME IInv, Planned, NEW c, Begins(c), c \in Calls, c.op # "none",
         c.fresh = FALSE, c.ok = FALSE \/ c.op # "toggle", c.mask = None,
         c.op \in Writers => c.slot # None /\ c.todo = Plan(c),
         c.op = "set" => c.body # None,
         c.op = "delete" => c.body = None /\ ~c.on
  PROVE  Planned'
<1>1. call' = c /\ UNCHANGED <<dev, up, deaf, lossy, programs>>
  BY DEF Begins, link, state
<1>2. DeafIsLossy' /\ AsPlanned' /\ ToggleIsShown'
  BY <1>1 DEF Planned, DeafIsLossy, AsPlanned, ToggleIsShown
<1>3. OnPlan'
  <2> SUFFICES ASSUME c.op \in Writers PROVE OnPlan'
    BY <1>1 DEF OnPlan
  <2>1. Len(c.todo) \in Nat /\ c.todo = Plan(c)
    BY DEF Calls
  <2>2. Done' = 0
    <3>1. Done' = Len(Plan(c)) - Len(c.todo)
      BY <1>1 DEF Done
    <3> DEFINE n == Len(c.todo)
               d == Done'
    <3>2. d = n - n /\ n \in Nat
      BY <2>1, <3>1
    <3> HIDE DEF n, d
    <3>3. d = 0
      BY <3>2
    <3>4. QED BY <3>3 DEF d
  <2>3. 0 \in 0..Len(Plan(c)) /\ \A i \in 1..Len(c.todo) : 0 + i = i
    BY <2>1
  <2>4. QED BY <1>1, <2>1, <2>2, <2>3 DEF OnPlan
<1>4. QED BY <1>2, <1>3 DEF Planned

LEMMA Joined ==
  ASSUME NEW p \in Seq(Sends), NEW q \in Seq(Sends), NEW r \in Seq(Sends),
         Len(r) = Len(p) + Len(q),
         \A i \in 1..Len(p) : r[i] = p[i],
         \A i \in 1..Len(q) : r[Len(p) + i] = q[i]
  PROVE  p \o q = r
<1>1. p \o q \in Seq(Sends) /\ Len(p \o q) = Len(r)
  BY ConcatProperties
<1>2. ASSUME NEW i \in 1..Len(r)
      PROVE  (p \o q)[i] = r[i]
  <2>1. CASE i <= Len(p)
    BY <2>1, ConcatProperties
  <2>2. CASE ~(i <= Len(p))
    <3>1. i - Len(p) \in 1..Len(q) /\ Len(p) + (i - Len(p)) = i
      BY <2>2
    <3>2. (p \o q)[i] = q[i - Len(p)]
      BY <2>2, ConcatProperties
    <3>3. QED BY <3>1, <3>2
  <2>3. QED BY <2>1, <2>2
<1>3. QED BY <1>1, <1>2, SeqEqual

LEMMA SetPlan ==
  /\ <<"read", "store", "read", "mask", "auto">> \o <<"store", "mask", "status">>
       = <<"read", "store", "read", "mask", "auto", "store", "mask", "status">>
  /\ <<"read", "store", "read", "mask", "auto">> \o <<>>
       = <<"read", "store", "read", "mask", "auto">>
<1> DEFINE p == <<"read", "store", "read", "mask", "auto">>
           q == <<"store", "mask", "status">>
           r == <<"read", "store", "read", "mask", "auto", "store", "mask", "status">>
<1>1. /\ p \in Seq(Sends) /\ Len(p) = 5
      /\ p[1] = "read" /\ p[2] = "store" /\ p[3] = "read" /\ p[4] = "mask" /\ p[5] = "auto"
  OBVIOUS
<1>2. q \in Seq(Sends) /\ Len(q) = 3 /\ q[1] = "store" /\ q[2] = "mask" /\ q[3] = "status"
  OBVIOUS
<1>3. /\ r \in Seq(Sends) /\ Len(r) = 8
      /\ r[1] = "read" /\ r[2] = "store" /\ r[3] = "read" /\ r[4] = "mask" /\ r[5] = "auto"
      /\ r[6] = "store" /\ r[7] = "mask" /\ r[8] = "status"
  OBVIOUS
<1> HIDE DEF p, q, r
<1>4. \A i \in 1..Len(p) : r[i] = p[i]
  BY <1>1, <1>3
<1>5. Len(r) = Len(p) + Len(q) /\ \A i \in 1..Len(q) : r[Len(p) + i] = q[i]
  BY <1>1, <1>2, <1>3
<1>6. p \o q = r
  <2>1. p \in Seq(Sends) /\ q \in Seq(Sends) /\ r \in Seq(Sends)
    BY <1>1, <1>2, <1>3
  <2>2. QED BY <1>4, <1>5, <2>1, Joined
<1>7. p \o <<>> = p
  BY <1>1, ConcatEmptySeq
<1>8. QED BY <1>6, <1>7 DEF p, q, r

LEMMA TogglePlan ==
  /\ <<"read", "mask", "auto">> \o <<"mask">> \o <<"status", "read">>
       = <<"read", "mask", "auto", "mask", "status", "read">>
  /\ <<"read", "mask", "auto">> \o <<>> \o <<"status", "read">>
       = <<"read", "mask", "auto", "status", "read">>
<1> DEFINE p == <<"read", "mask", "auto">>
           q == <<"mask">>
           r == <<"status", "read">>
           u == <<"read", "mask", "auto", "mask">>
           v == <<"read", "mask", "auto", "mask", "status", "read">>
           w == <<"read", "mask", "auto", "status", "read">>
<1>1. p \in Seq(Sends) /\ Len(p) = 3 /\ p[1] = "read" /\ p[2] = "mask" /\ p[3] = "auto"
  OBVIOUS
<1>2. q \in Seq(Sends) /\ Len(q) = 1 /\ q[1] = "mask"
  OBVIOUS
<1>3. r \in Seq(Sends) /\ Len(r) = 2 /\ r[1] = "status" /\ r[2] = "read"
  OBVIOUS
<1>4. /\ u \in Seq(Sends) /\ Len(u) = 4
      /\ u[1] = "read" /\ u[2] = "mask" /\ u[3] = "auto" /\ u[4] = "mask"
  OBVIOUS
<1>5. /\ v \in Seq(Sends) /\ Len(v) = 6
      /\ v[1] = "read" /\ v[2] = "mask" /\ v[3] = "auto" /\ v[4] = "mask"
      /\ v[5] = "status" /\ v[6] = "read"
  OBVIOUS
<1>6. /\ w \in Seq(Sends) /\ Len(w) = 5
      /\ w[1] = "read" /\ w[2] = "mask" /\ w[3] = "auto" /\ w[4] = "status" /\ w[5] = "read"
  OBVIOUS
<1> HIDE DEF p, q, r, u, v, w
<1>7. p \o q = u
  <2>1. \A i \in 1..Len(p) : u[i] = p[i]
    BY <1>1, <1>2, <1>4
  <2>2. Len(u) = Len(p) + Len(q) /\ \A i \in 1..Len(q) : u[Len(p) + i] = q[i]
    BY <1>1, <1>2, <1>4
  <2>3. p \in Seq(Sends) /\ q \in Seq(Sends) /\ u \in Seq(Sends)
    BY <1>1, <1>2, <1>4
  <2>4. QED BY <2>1, <2>2, <2>3, Joined
<1>8. u \o r = v
  <2>1. \A i \in 1..Len(u) : v[i] = u[i]
    BY <1>3, <1>4, <1>5
  <2>2. Len(v) = Len(u) + Len(r) /\ \A i \in 1..Len(r) : v[Len(u) + i] = r[i]
    BY <1>3, <1>4, <1>5
  <2>3. u \in Seq(Sends) /\ r \in Seq(Sends) /\ v \in Seq(Sends)
    BY <1>3, <1>4, <1>5
  <2>4. QED BY <2>1, <2>2, <2>3, Joined
<1>9. p \o r = w
  <2>1. \A i \in 1..Len(p) : w[i] = p[i]
    BY <1>1, <1>3, <1>6
  <2>2. Len(w) = Len(p) + Len(r) /\ \A i \in 1..Len(r) : w[Len(p) + i] = r[i]
    BY <1>1, <1>3, <1>6
  <2>3. p \in Seq(Sends) /\ r \in Seq(Sends) /\ w \in Seq(Sends)
    BY <1>1, <1>3, <1>6
  <2>4. QED BY <2>1, <2>2, <2>3, Joined
<1>10. p \o <<>> = p
  BY <1>1, ConcatEmptySeq
<1>11. QED BY <1>7, <1>8, <1>9, <1>10 DEF p, q, r, u, v, w

LEMMA CommandsPlanned ==
  ASSUME IInv, Planned, Commands \/ refresh_state
  PROVE  Planned'
<1>1. ASSUME NEW s \in Slot, NEW b \in Body, NEW on \in BOOLEAN, set_program(s, b, on)
      PROVE  Planned'
  <2> DEFINE q == <<"read", "store", "read", "mask", "auto">>
                    \o IF on THEN <<"store", "mask", "status">> ELSE <<>>
             c == [NoCall EXCEPT !.op = "set", !.slot = s, !.body = b, !.on = on,
                                 !.todo = q]
  <2>1. Begins(c)
    BY <1>1 DEF set_program
  <2>2. c \in Calls
    BY SetIsFresh DEF Fresh
  <2>3. q = IF on THEN <<"read", "store", "read", "mask", "auto", "store", "mask", "status">>
            ELSE <<"read", "store", "read", "mask", "auto">>
    BY SetPlan
  <2> HIDE DEF q
  <2>4. /\ c.op = "set" /\ c.slot = s /\ c.body = b /\ c.on = on /\ c.todo = q
        /\ c.mask = None /\ c.ok = FALSE /\ c.fresh = FALSE
    BY DEF NoCall
  <2>5. s # None /\ b # None
    OBVIOUS
  <2> HIDE DEF c
  <2>6. c.todo = Plan(c)
    BY <2>3, <2>4 DEF Plan
  <2>7. QED BY <2>1, <2>2, <2>4, <2>5, <2>6, BeginsPlanned
<1>2. ASSUME NEW s \in Slot, delete_program(s)
      PROVE  Planned'
  <2> DEFINE q == <<"read", "mask", "clear", "auto", "read">>
             c == [NoCall EXCEPT !.op = "delete", !.slot = s, !.todo = q]
  <2>1. Begins(c)
    BY <1>2 DEF delete_program
  <2>2. c \in Calls
    BY DeleteIsFresh DEF Fresh
  <2>3. /\ c.op = "delete" /\ c.slot = s /\ c.body = None /\ c.on = FALSE /\ c.todo = q
        /\ c.mask = None /\ c.ok = FALSE /\ c.fresh = FALSE
    BY DEF NoCall
  <2>4. s # None
    OBVIOUS
  <2> HIDE DEF c
  <2>5. c.todo = Plan(c)
    BY <2>3 DEF Plan
  <2>6. QED BY <2>1, <2>2, <2>3, <2>4, <2>5, BeginsPlanned
<1>3. ASSUME NEW s \in Slot, NEW on \in BOOLEAN, set_program_enabled(s, on)
      PROVE  Planned'
  <2> DEFINE q == <<"read", "mask", "auto">>
                    \o (IF on THEN <<"mask">> ELSE <<>>) \o <<"status", "read">>
             c == [NoCall EXCEPT !.op = "toggle", !.slot = s, !.on = on, !.todo = q]
  <2>1. Begins(c)
    BY <1>3 DEF set_program_enabled
  <2>2. c \in Calls
    BY ToggleIsFresh DEF Fresh
  <2>3. q = IF on THEN <<"read", "mask", "auto", "mask", "status", "read">>
            ELSE <<"read", "mask", "auto", "status", "read">>
    BY TogglePlan
  <2> HIDE DEF q
  <2>4. /\ c.op = "toggle" /\ c.slot = s /\ c.on = on /\ c.todo = q
        /\ c.mask = None /\ c.ok = FALSE /\ c.fresh = FALSE
    BY DEF NoCall
  <2>5. s # None
    OBVIOUS
  <2> HIDE DEF c
  <2>6. c.todo = Plan(c)
    BY <2>3, <2>4 DEF Plan
  <2>7. QED BY <2>1, <2>2, <2>4, <2>5, <2>6, BeginsPlanned
<1>4. ASSUME NEW c, Begins(c), Fresh(c), c.op \in {"mode", "get", "poll"}, c.fresh = FALSE
      PROVE  Planned'
  BY <1>4, BeginsPlanned DEF Fresh, Writers
<1>5. ASSUME NEW on \in BOOLEAN, set_controller_mode(on)
      PROVE  Planned'
  <2> DEFINE c == [NoCall EXCEPT !.op = "mode", !.on = on, !.todo = <<"mode", "status">>]
  <2>1. Begins(c) /\ Fresh(c)
    BY <1>5, ModeIsFresh DEF set_controller_mode
  <2>2. c.op = "mode" /\ c.fresh = FALSE
    BY DEF NoCall
  <2> HIDE DEF c
  <2>3. QED BY <1>4, <2>1, <2>2
<1>6. CASE get_programs
  <2> DEFINE c == [NoCall EXCEPT !.op = "get", !.todo = <<"read">>, !.ok = TRUE]
  <2>1. Begins(c) /\ Fresh(c)
    BY <1>6, GetIsFresh DEF get_programs
  <2>2. c.op = "get" /\ c.fresh = FALSE
    BY DEF NoCall
  <2> HIDE DEF c
  <2>3. QED BY <1>4, <2>1, <2>2
<1>7. CASE refresh_state
  <2> DEFINE c == [NoCall EXCEPT !.op = "poll", !.todo = <<"status", "read">>, !.ok = TRUE]
  <2>1. Begins(c) /\ Fresh(c)
    BY <1>7, PollIsFresh DEF refresh_state
  <2>2. c.op = "poll" /\ c.fresh = FALSE
    BY DEF NoCall
  <2> HIDE DEF c
  <2>3. QED BY <1>4, <2>1, <2>2
<1>8. QED BY <1>1, <1>2, <1>3, <1>5, <1>6, <1>7 DEF Commands

(* What leaves the call alone disturbs the plan only in a session that     *)
(* does not last.                                                          *)
LEMMA IdlePlanned ==
  ASSUME Planned, UNCHANGED <<call, programs>>, lossy' => lossy, deaf' => deaf,
         lossy' = lossy \/ call.op = "none",
         ~up' \/ call.op = "none" \/ UNCHANGED <<dev, up>>
  PROVE  Planned'
<1>1. OnPlan'
  BY DEF Planned, OnPlan, Done
<1>2. ToggleIsShown'
  BY DEF Planned, ToggleIsShown
<1>3. DeafIsLossy'
  BY DEF Planned, DeafIsLossy
<1>4. AsPlanned'
  <2>1. CASE ~up' \/ call.op = "none"
    BY <2>1 DEF AsPlanned
  <2>2. CASE call.op # "none" /\ UNCHANGED <<dev, up>>
    BY <2>2 DEF Planned, AsPlanned, SetSoFar, DeletedSoFar, ToggledSoFar, Done, Stored
  <2>3. QED BY <2>1, <2>2
<1>5. QED BY <1>1, <1>2, <1>3, <1>4 DEF Planned

LEMMA EndPlanned ==
  ASSUME IInv, Planned, Returns \/ Raises
  PROVE  Planned'
<1>1. CASE Returns
  <2>1. call' = NoCall /\ deaf' = FALSE
    BY <1>1 DEF Returns
  <2>2. call'.op = "none" /\ call'.todo = <<>>
    BY <2>1 DEF NoCall
  <2>3. DeafIsLossy'
    BY <2>1, <2>2 DEF DeafIsLossy
  <2>4. QED BY <2>2, <2>3, NotOwed DEF Planned, Writers
<1>2. CASE Raises
  <2>1. call' = [call EXCEPT !.todo = <<>>, !.ok = FALSE] /\ call \in Calls
        /\ deaf' = FALSE /\ up' = FALSE
    BY <1>2 DEF Raises, IInv, TypeOK
  <2>2. /\ call'.todo = <<>> /\ call'.ok = FALSE
        /\ UNCHANGED <<call.op, call.on, call.slot, call.body, call.mask>>
    BY <2>1 DEF Calls
  <2>3. OnPlan'
    <3> SUFFICES ASSUME call.op \in Writers PROVE OnPlan'
      BY <2>2 DEF OnPlan
    <3>1. Plan(call') = Plan(call)
      BY <2>2 DEF Plan
    <3>2. Len(Plan(call)) \in Nat
      BY <2>1, PlanOf DEF Calls, Writers
    <3>3. Len(call'.todo) = 0
      BY <2>2
    <3>4. Done' = Len(Plan(call))
      BY <3>1, <3>2, <3>3 DEF Done
    <3>5. Done' \in 0..Len(Plan(call')) /\ 1..Len(call'.todo) = {}
      BY <3>1, <3>2, <3>3, <3>4
    <3>6. QED BY <2>2, <3>5 DEF Planned, OnPlan
  <2>4. DeafIsLossy' /\ AsPlanned' /\ ToggleIsShown'
    BY <2>1, <2>2 DEF DeafIsLossy, AsPlanned, ToggleIsShown
  <2>5. QED BY <2>3, <2>4 DEF Planned
<1>3. QED BY <1>1, <1>2

LEMMA InitPlanned == Init => Planned
<1> SUFFICES ASSUME Init PROVE Planned
  OBVIOUS
<1>1. call.op = "none" /\ call.todo = <<>> /\ deaf = FALSE
  BY DEF Init, NoCall
<1>2. QED BY <1>1 DEF Planned, OnPlan, DeafIsLossy, AsPlanned, ToggleIsShown, Writers

LEMMA NextPlanned == IInv /\ Planned /\ [Next]_vars => Planned'
<1> SUFFICES ASSUME IInv, Planned, [Next]_vars PROVE Planned'
  OBVIOUS
<1>1. CASE Commands \/ refresh_state
  BY <1>1, CommandsPlanned
<1>2. CASE Reads
  BY <1>2, ReadsPlanned
<1>3. CASE Writes
  BY <1>3, WritesPlanned
<1>4. CASE refresh_status
  <2>1. Heard /\ Refreshed(TRUE) /\ Awaits("status")
    BY <1>4 DEF refresh_status
  <2>2. QED BY <2>1, RefreshedPlanned
<1>5. CASE StatusMissed
  BY <1>5, MissedPlanned
<1>6. CASE _recover_status
  <2>1. PICK h \in BOOLEAN : Awaits("recover") /\ (Heard \/ Lost) /\ Refreshed(h)
    BY <1>6 DEF _recover_status
  <2>2. QED BY <2>1, RefreshedPlanned
<1>7. CASE Returns \/ Raises
  BY <1>7, EndPlanned
<1>8. CASE LinkDrops
  <2>1. UNCHANGED <<call, programs, lossy>> /\ up' = FALSE /\ deaf' = FALSE
    BY <1>8 DEF LinkDrops, state
  <2>2. QED BY <2>1, IdlePlanned
<1>9. CASE LinkSettles
  <2>1. UNCHANGED <<call, programs, deaf>> /\ lossy' = FALSE /\ call.op = "none"
    BY <1>9 DEF LinkSettles, state
  <2>2. QED BY <2>1, IdlePlanned
<1>10. CASE OtherCommands
  <2>1. UNCHANGED <<call, programs, deaf, lossy, up>> /\ ~up
    BY <1>10 DEF OtherCommands, link, state
  <2>2. QED BY <2>1, IdlePlanned
<1>11. CASE UNCHANGED vars
  <2>1. UNCHANGED <<call, programs, deaf, lossy, up, dev>>
    BY <1>11 DEF vars, link, state
  <2>2. QED BY <2>1, IdlePlanned
<1>12. QED BY <1>1, <1>2, <1>3, <1>4, <1>5, <1>6, <1>7, <1>8, <1>9, <1>10, <1>11
       DEF Next, Step

(* The plan of a call and what it has done of it, in every reachable state.*)
THEOREM CallsFollowPlans == Spec => []Planned
<1>1. IInv /\ Planned /\ [Next]_vars => Planned'
  BY NextPlanned
<1>2. QED BY <1>1, InitPlanned, Inductive, PTL DEF Spec

(* A call returns only at the end of its plan, and by then, on a link that *)
(* loses nothing, everything commanded has been done and seen.             *)
LEMMA ReturningStep ==
  ASSUME IInv, Planned, [Next]_vars, call.op \in Writers, call'.op = "none"
  PROVE  /\ call.todo = <<>> /\ Done = Len(Plan(call)) /\ call.slot \in Slot
         /\ call.on \in BOOLEAN
<1>1. call.op # "none" /\ call \in Calls
  BY DEF Writers, IInv, TypeOK
<1>2. Returns
  <2>1. ~(Commands \/ refresh_state)
    BY <1>1 DEF Commands, refresh_state, set_program, delete_program, Begins,
           set_program_enabled, set_controller_mode, get_programs
  <2>2. ~Reads
    <3>1. ASSUME NEW S, NEW m, ReadBack(S, m) PROVE call'.op = call.op
      BY <1>1, <3>1 DEF ReadBack, Calls
    <3>2. QED BY <1>1, <3>1 DEF Reads
  <2>3. ~Writes
    BY <1>1 DEF Writes, Written, Calls
  <2>4. ~(refresh_status \/ _recover_status)
    <3>1. ASSUME NEW h, Refreshed(h) PROVE call'.op = call.op
      BY <1>1, <3>1 DEF Refreshed, Calls
    <3>2. QED BY <1>1, <3>1 DEF refresh_status, _recover_status
  <2>5. ~StatusMissed /\ ~Raises
    BY <1>1 DEF StatusMissed, Raises, Calls
  <2>6. ~(LinkDrops \/ LinkSettles \/ OtherCommands \/ UNCHANGED vars)
    BY <1>1 DEF LinkDrops, LinkSettles, OtherCommands, vars
  <2>7. QED BY <2>1, <2>2, <2>3, <2>4, <2>5, <2>6 DEF Next, Step
<1>3. call.todo = <<>>
  BY <1>2 DEF Returns
<1>4. Done = Len(Plan(call))
  <2>1. Len(Plan(call)) \in Nat
    BY <1>1, PlanOf DEF Calls, Writers
  <2>2. Len(call.todo) = 0
    BY <1>3
  <2>3. QED BY <2>1, <2>2 DEF Done
<1>5. call.slot \in Slot
  BY <1>1 DEF Planned, OnPlan, Calls
<1>6. QED BY <1>1, <1>3, <1>4, <1>5 DEF Calls

LEMMA DoneStep ==
  ASSUME IInv, Planned, [Next]_vars, call.op \in {"set", "delete", "toggle"},
         call'.op = "none", ~lossy, call.fresh, up
  PROVE  LET s == call.slot IN
         /\ dev.auto
         /\ s \in dev.on <=> call.on
         /\ s \in dev.armed <=> call.on /\ s \in Stored(dev)
         /\ call.op # "toggle" => dev.body[s] = call.body
         /\ call.ok \/ (call.op = "set" /\ call.on)
<1> DEFINE s == call.slot
           P == Plan(call)
<1>1. call.op \in Writers
  BY DEF Writers
<1>2. Done = Len(P) /\ s \in Slot /\ call.on \in BOOLEAN
  BY <1>1, ReturningStep
<1>3. s \in Stored(dev) <=> dev.body[s] # None
  BY <1>2, StoredSlot DEF IInv, TypeOK
<1>4. CASE call.op = "set"
  <2>1. SetSoFar /\ call.body # None
    BY <1>1, <1>4 DEF Planned, AsPlanned, OnPlan
  <2>2. Done = IF call.on THEN 8 ELSE 5
    BY <1>1, <1>2, <1>4, PlanOf
  <2>3. QED BY <1>2, <1>3, <1>4, <2>1, <2>2 DEF SetSoFar
<1>5. CASE call.op = "delete"
  <2>1. DeletedSoFar /\ call.body = None /\ ~call.on
    BY <1>1, <1>5 DEF Planned, AsPlanned, OnPlan
  <2>2. Done = 5
    BY <1>1, <1>2, <1>5, PlanOf
  <2>3. QED BY <1>2, <1>3, <1>5, <2>1, <2>2 DEF DeletedSoFar
<1>6. CASE call.op = "toggle"
  <2>1. ToggledSoFar
    BY <1>6 DEF Planned, AsPlanned
  <2>2. Done = IF call.on THEN 6 ELSE 5
    BY <1>1, <1>2, <1>6, PlanOf
  <2>3. QED BY <1>2, <1>3, <1>6, <2>1, <2>2 DEF ToggledSoFar
<1>7. QED BY <1>4, <1>5, <1>6

(* set_program, delete_program and set_program_enabled, on a good link, do *)
(* what they were told, arm what they enable, and say so.                  *)
THEOREM CommandsAreDone == Spec => DoneAsCommanded
<1>1. IInv /\ Planned /\ [Next]_vars
        => [call.op \in {"set", "delete", "toggle"} /\ call'.op = "none"
              /\ ~lossy /\ call.fresh /\ up
              => LET s == call.slot IN
                 /\ dev.auto
                 /\ s \in dev.on <=> call.on
                 /\ s \in dev.armed <=> call.on /\ s \in Stored(dev)
                 /\ call.op # "toggle" => dev.body[s] = call.body
                 /\ call.ok \/ (call.op = "set" /\ call.on)]_vars
  BY DoneStep
<1>2. QED BY <1>1, Inductive, CallsFollowPlans, PTL DEF Spec, DoneAsCommanded

(* A confirmed toggle agrees with the flag that is shown, whatever bursts  *)
(* were lost: set_program_enabled, "in BOTH directions".                   *)
THEOREM TogglesAgree == Spec => ToggleNotContradicted
<1>1. Planned
        => [call.op = "toggle" /\ call'.op = "none" /\ call.ok
              /\ call.slot \in DOMAIN programs
              => programs[call.slot].enabled # FlagOf(~call.on)]_vars
  BY DEF Planned, ToggleIsShown
<1>2. QED BY <1>1, CallsFollowPlans, PTL DEF ToggleNotContradicted

-----------------------------------------------------------------------------
(* What keeps a call from running for ever: a send goes off its list, and  *)
(* a status that was missed is asked for again once, by its recovery.      *)
Recovering(todo) == todo # <<>> /\ Head(todo) = "recover"

StepsLeft(c) ==
  IF c.op = "none" THEN 0
  ELSE IF Recovering(c.todo) THEN 2 * Len(c.todo)
  ELSE 2 * Len(c.todo) + 1

(* Whatever is lost, no step of a call puts it back: neither the recovery  *)
(* of a status nor an error leads to a send that was made already          *)
(* (protobuf.py, refresh_status and the write guards of the commands).     *)
CallDescends ==
  [][call.op # "none" /\ call' # call
       => StepsLeft(call') \in 0 .. StepsLeft(call) - 1]_vars

LEMMA LeftOf ==
  ASSUME NEW c, c.op # "none"
  PROVE  StepsLeft(c) \in {2 * Len(c.todo), 2 * Len(c.todo) + 1}
  BY Zenon DEF StepsLeft

(* A call that goes on, with a shorter list or with the recovery of the    *)
(* status it missed, has fewer steps left.                                 *)
LEMMA Shorter ==
  ASSUME NEW c \in Calls, NEW d \in Calls, c.op # "none", d.op = c.op,
         c.todo # <<>>,
         \/ d.todo \in {Tail(c.todo), <<>>}
         \/ ~Recovering(c.todo) /\ d.todo = <<"recover">> \o Tail(c.todo)
  PROVE  StepsLeft(d) \in 0 .. StepsLeft(c) - 1
<1>1. c.todo \in Seq(Sends) /\ d.todo \in Seq(Sends) BY DEF Calls
<1>2. PICK n \in Nat \ {0} : n = Len(c.todo) /\ Len(Tail(c.todo)) = n - 1
  BY <1>1, TailOfSends
<1>3. CASE d.todo \in {Tail(c.todo), <<>>}
  <2>1. Len(d.todo) \in {n - 1, 0} BY <1>2, <1>3
  <2>2. StepsLeft(c) \in {2 * n, 2 * n + 1} BY <1>2, LeftOf
  <2>3. StepsLeft(d) \in {2 * Len(d.todo), 2 * Len(d.todo) + 1} BY LeftOf
  <2>4. d.todo = <<>> => StepsLeft(d) = 1
    BY DEF StepsLeft, Recovering
  <2> QED BY <1>2, <2>1, <2>2, <2>3
<1>4. CASE ~Recovering(c.todo) /\ d.todo = <<"recover">> \o Tail(c.todo)
  <2>1. Tail(c.todo) \in Seq(Sends) BY <1>1, TailOfSends
  <2>2. Len(d.todo) = n /\ d.todo[1] = "recover" BY <1>2, <1>4, <2>1, RecoverFirst
  <2>3. Recovering(d.todo) BY <1>1, <1>2, <2>2 DEF Recovering
  <2>4. StepsLeft(d) = 2 * n BY <2>2, <2>3 DEF StepsLeft
  <2>5. StepsLeft(c) = 2 * n + 1 BY <1>2, <1>4 DEF StepsLeft
  <2> QED BY <1>2, <2>4, <2>5
<1> QED BY <1>3, <1>4

LEMMA DescendingStep ==
  ASSUME IInv, [Next]_vars, call.op # "none", call' # call
  PROVE  StepsLeft(call') \in 0 .. StepsLeft(call) - 1
<1>1. call \in Calls /\ call' \in Calls
  <2>1. IInv' BY NextIInv
  <2> QED BY <2>1 DEF IInv, TypeOK
<1>2. ASSUME call'.op = call.op, call.todo # <<>>,
             \/ call'.todo \in {Tail(call.todo), <<>>}
             \/ /\ ~Recovering(call.todo)
                /\ call'.todo = <<"recover">> \o Tail(call.todo)
      PROVE  StepsLeft(call') \in 0 .. StepsLeft(call) - 1
  BY <1>1, <1>2, Shorter
<1>3. CASE Reads
  <2>1. PICK S, m : ReadBack(S, m) BY <1>3 DEF Reads
  <2>2. call'.op = call.op /\ call'.todo = Tail(call.todo)
    BY <1>1, <2>1 DEF ReadBack, Calls
  <2> QED BY <1>2, <1>3, <2>2 DEF Reads, Awaits
<1>4. CASE Writes
  <2>1. call'.op = call.op /\ call'.todo = Tail(call.todo)
    BY <1>1, <1>4 DEF Writes, Written, Calls
  <2> QED BY <1>2, <1>4, <2>1 DEF Writes, Awaits
<1>5. CASE refresh_status \/ _recover_status
  <2>1. PICK h \in BOOLEAN : Refreshed(h)
    BY <1>5 DEF refresh_status, _recover_status
  <2>2. call'.op = call.op /\ call'.todo \in {Tail(call.todo), <<>>}
    BY <1>1, <2>1 DEF Refreshed, Calls
  <2> QED BY <1>2, <1>5, <2>2 DEF refresh_status, _recover_status, Awaits
<1>6. CASE StatusMissed
  <2>1. /\ call'.op = call.op
        /\ call'.todo = <<"recover">> \o Tail(call.todo)
    BY <1>1, <1>6 DEF StatusMissed, Calls
  <2>2. ~Recovering(call.todo) BY <1>6 DEF StatusMissed, Awaits, Recovering
  <2> QED BY <1>2, <1>6, <2>1, <2>2 DEF StatusMissed, Awaits
<1>7. CASE Returns
  <2>1. call.todo = <<>> /\ call' = NoCall BY <1>7 DEF Returns
  <2> QED BY <2>1 DEF StepsLeft, NoCall, Recovering
<1>8. CASE Raises
  <2>1. call'.op = call.op /\ call'.todo = <<>>
    BY <1>1, <1>8 DEF Raises, Calls
  <2> QED BY <1>2, <1>8, <2>1 DEF Raises
<1>9. ~(Commands \/ refresh_state)
  BY DEF Commands, refresh_state, set_program, delete_program, Begins,
         set_program_enabled, set_controller_mode, get_programs
<1>10. ~(LinkDrops \/ LinkSettles \/ OtherCommands \/ UNCHANGED vars)
  BY DEF LinkDrops, LinkSettles, OtherCommands, vars
<1> QED BY <1>3, <1>4, <1>5, <1>6, <1>7, <1>8, <1>9, <1>10 DEF Next, Step

(* A call of the program commands takes at most StepsLeft of its start     *)
(* steps, for every set of slots and bodies and whatever the link loses.   *)
THEOREM CallsAreBounded == Spec => CallDescends
<1> DEFINE Down == call.op # "none" /\ call' # call
                     => StepsLeft(call') \in 0 .. StepsLeft(call) - 1
<1>1. IInv /\ [Next]_vars => Down BY DescendingStep
<1> QED BY <1>1, Inductive, PTL DEF Spec, CallDescends
=============================================================================
