-------------------------- MODULE Gen1Flow_proofs --------------------------
(***************************************************************************)
(* Gen1Flow for every width of the counter and every rate: the volume of a *)
(* run is what the device counted, and no water is booked twice.           *)
(*                                                                         *)
(* The argument.  Between the last sample that was decoded and the one on  *)
(* its way the device counted no more than MaxRate a second (SampleInv),   *)
(* and less than a lap unless the run is spoilt; so the drop of the        *)
(* counter tells whether it went round, and the sum of the laps and the    *)
(* counter is the device's own count (HeardInv), also after a reset amid   *)
(* the run.  What is booked, with what the next write would add, is within *)
(* what was heard and what resets have shown again (BookedInv).            *)
(***************************************************************************)
EXTENDS Gen1Flow, TLAPS

(* What the sensor is to show, and what that adds to the statistics.       *)
Pending   == IF heard # None THEN heard ELSE native_value
Increment == IF Pending < shown THEN Pending ELSE Pending - shown

(* t ticks at second e agree with the device, which counts on from there.  *)
Tells(t, e) ==
  /\ t <= ticks
  /\ running => /\ e <= elapsed /\ (due => e < elapsed)
                /\ ticks - t <= MaxRate * (elapsed - e)

DeviceInv == ~running => elapsed = 0

MeterInv == anchor = NoSample <=> water = None

(* Amid a run that was heard before a restart the meter is empty.          *)
HeardInv ==
  ~spoilt /\ heard # None /\ anchor # NoSample =>
    /\ anchor.total = heard /\ water = heard
    /\ heard = wraps * Wrap + anchor.cum
    /\ Tells(heard, anchor.elapsed)

SampleInv ==
  ~spoilt /\ inflight # NoSample /\ inflight.elapsed # 0 =>
    /\ inflight.cum = inflight.ticks % Wrap
    /\ Tells(inflight.ticks, inflight.elapsed)
    /\ heard # None /\ anchor # NoSample =>
         /\ anchor.elapsed < inflight.elapsed /\ heard <= inflight.ticks
         /\ inflight.ticks - heard <= MaxRate * (inflight.elapsed - anchor.elapsed)

(* The samples of a run rise, over restarts too, and until the first after *)
(* a restart the sensor shows what it showed.                              *)
OrderInv ==
  ~blemish /\ heard # None =>
    /\ heard <= ticks
    /\ inflight # NoSample /\ inflight.elapsed # 0 => heard <= inflight.ticks
    /\ water = None => native_value = shown

BookedInv ==
  ~blemish => ~spoilt /\ booked + Increment <= poured + OrZero(heard) + again

IInv == DeviceInv /\ MeterInv /\ HeardInv /\ SampleInv /\ OrderInv /\ BookedInv

(* The steps of the integration and the link that bring no sample and      *)
(* leave the volume alone.                                                 *)
Steering ==
  \/ start_watering \/ StartFails \/ Subscribed \/ SubscribeFails
  \/ stop_watering \/ _end_gen1_flow \/ _gen1_renewal_loop
  \/ Loses \/ LinkDrops

LEMMA SteeringKeeps ==
  ASSUME Steering
  PROVE  /\ UNCHANGED <<device, anchor, wraps, water, sensor, history>>
         /\ inflight' = inflight \/ inflight' = NoSample
<1> USE DEF device, meter, sensor, history
<1>1. CASE start_watering \/ StartFails \/ Subscribed \/ SubscribeFails
  BY <1>1, Zenon DEF start_watering, StartFails, Subscribed, SubscribeFails, Disconnect
<1>2. CASE stop_watering \/ _end_gen1_flow \/ _gen1_renewal_loop
  BY <1>2, Zenon DEF stop_watering, _end_gen1_flow, _gen1_renewal_loop, Disconnect
<1>3. CASE Loses \/ LinkDrops
  BY <1>3, Zenon DEF Loses, LinkDrops, Disconnect
<1> QED
  BY <1>1, <1>2, <1>3, Zenon DEF Steering

-----------------------------------------------------------------------------
(* Arithmetic. *)

LEMMA Modulo ==
  ASSUME NEW n \in Nat, NEW w \in Nat \ {0}
  PROVE  /\ (n % w) \in 0 .. w - 1
         /\ (n \div w) \in Nat
         /\ n = (n \div w) * w + (n % w)
         /\ n < w => n % w = n
  BY SMT

(* Two counts less than a lap apart: the drop tells the lap.               *)
LEMMA Laps ==
  ASSUME NEW k \in Nat, NEW l \in Nat, NEW w \in Nat \ {0},
         NEW a \in 0 .. w - 1, NEW b \in 0 .. w - 1,
         k * w + a <= l * w + b, l * w + b - (k * w + a) < w
  PROVE  /\ a <= b => l * w = k * w
         /\ b < a => l * w = (k + 1) * w /\ l * w = k * w + w
<1>1. k <= l
  BY SMT
<1>2. l <= k + 1
  BY SMT
<1>3. CASE l = k
  BY <1>3, SMT
<1>4. CASE l = k + 1
  BY <1>4, SMT
<1> QED
  BY <1>1, <1>2, <1>3, <1>4, SMT

(* A second more allows another MaxRate ticks.                             *)
LEMMA RateGrows ==
  ASSUME NEW r \in Nat, NEW n \in 0 .. r, NEW e \in Nat, NEW f \in Nat,
         e <= f, NEW t \in Int, t <= r * (f - e)
  PROVE  t + n <= r * (f + 1 - e)
<1>1. r * (f + 1 - e) = r * (f - e) + r
  BY SMT
<1> QED
  BY <1>1, SMT

-----------------------------------------------------------------------------
(* Types. *)

Flags ==
  /\ running \in BOOLEAN /\ due \in BOOLEAN /\ up \in BOOLEAN
  /\ spoilt \in BOOLEAN /\ blemish \in BOOLEAN
  /\ task \in {"off", "start", "subscribe", "renew"}

Values ==
  /\ elapsed \in Nat /\ ticks \in Nat
  /\ inflight \in Samples \cup {NoSample}
  /\ anchor \in Anchors \cup {NoSample} /\ wraps \in Nat
  /\ water \in Nat \cup {None}
  /\ rate \in {"none", "zero", "some", "negative"}
  /\ restored \in Nat \cup {None} /\ shown \in Nat /\ booked \in Nat
  /\ heard \in Nat \cup {None} /\ poured \in Nat /\ again \in Nat

LEMMA Types == TypeOK <=> Flags /\ Values
  BY Zenon DEF TypeOK, Flags, Values

LEMMA AnchoredType ==
  ASSUME Values, NEW s \in Samples, NEW w \in Nat, NEW dt \in Int \cup {None},
         Anchored(s, w, dt)
  PROVE  /\ anchor' \in Anchors \cup {NoSample} /\ wraps' \in Nat
         /\ water' \in Nat \cup {None}
         /\ rate' \in {"none", "zero", "some", "negative"}
<1> DEFINE total == w * Wrap + s.cum
<1>1. total \in Nat
  BY ConstantsAssumption, SMT DEF Samples
<1>2. [elapsed |-> s.elapsed, cum |-> s.cum, total |-> total] \in Anchors
  BY <1>1 DEF Samples, Anchors
<1>3. rate \in {"none", "zero", "some", "negative"}
  BY DEF Values
<1> DEFINE rated == dt # None /\ total >= anchor.total
<1>4. CASE rated /\ dt = 0
  BY <1>4 DEF Anchored, Values
<1>5. CASE ~(rated /\ dt = 0)
  <2>1. /\ wraps' = w /\ water' = total
        /\ anchor' = [elapsed |-> s.elapsed, cum |-> s.cum, total |-> total]
        /\ rate' = IF ~rated THEN rate
                   ELSE IF total = anchor.total THEN "zero"
                   ELSE IF dt > 0 THEN "some" ELSE "negative"
    BY <1>5, Zenon DEF Anchored
  <2>2. rate' \in {"none", "zero", "some", "negative"}
    BY <1>3, <2>1, Zenon
  <2> QED
    BY <1>1, <1>2, <2>1, <2>2
<1> QED
  BY <1>4, <1>5

LEMMA FrameType ==
  ASSUME Values, NEW s \in Samples, apply_gen1_flow_frame(s)
  PROVE  /\ anchor' \in Anchors \cup {NoSample} /\ wraps' \in Nat
         /\ water' \in Nat \cup {None}
         /\ rate' \in {"none", "zero", "some", "negative"}
<1> DEFINE dt == IF anchor = NoSample THEN None ELSE s.elapsed - anchor.elapsed
<1>1. dt \in Int \cup {None}
  BY DEF Values, Samples, Anchors
<1>2. 0 \in Nat /\ wraps + 1 \in Nat /\ wraps \in Nat
  BY DEF Values
<1>3. \/ UNCHANGED <<anchor, wraps, water>> /\ rate' \in {"none", "zero"}
      \/ \E w \in Nat, d \in Int \cup {None} : Anchored(s, w, d)
  BY <1>1, <1>2, Zenon DEF apply_gen1_flow_frame
<1> QED
  BY <1>3, AnchoredType DEF Values

LEMMA NativeType ==
  Values => native_value \in Nat
  BY DEF Values, native_value

LEMMA FlagsStep ==
  Flags /\ [Next]_vars => Flags'
<1> SUFFICES ASSUME Flags, [Next]_vars  PROVE Flags'
  OBVIOUS
<1> USE DEF device, meter, sensor, history
<1>0. \A P \in BOOLEAN : \A Q : (P \/ Q) \in BOOLEAN
  OBVIOUS
<1>1. CASE start_watering \/ StartFails \/ Subscribed \/ SubscribeFails
  BY <1>1, Zenon DEF Flags, start_watering, StartFails, Subscribed, SubscribeFails,
                    Disconnect
<1>2. CASE stop_watering \/ _end_gen1_flow \/ _gen1_renewal_loop
  BY <1>2, Zenon DEF Flags, stop_watering, _end_gen1_flow, _gen1_renewal_loop, Disconnect
<1>10. CASE _begin_gen1_flow \/ DeviceStarts
  BY <1>10, Zenon DEF Flags, _begin_gen1_flow, DeviceStarts
<1>3. CASE _observe_plaintext
  <2>1. UNCHANGED <<running, due, up, task>>
    BY <1>3, Zenon DEF _observe_plaintext
  <2>2. CASE inflight.elapsed = 0
    BY <1>3, <2>1, <2>2, Zenon DEF Flags, _observe_plaintext
  <2>3. CASE inflight.elapsed # 0
    <3>1. /\ spoilt' = (spoilt \/ Misleads(inflight))
          /\ blemish' = (blemish \/ Misleads(inflight))
      BY <1>3, <2>3, Zenon DEF _observe_plaintext
    <3>2. spoilt' \in BOOLEAN /\ blemish' \in BOOLEAN
      BY <3>1, Zenon
    <3> QED
      BY <2>1, <3>2, Zenon DEF Flags
  <2> QED
    BY <2>2, <2>3
<1>4. ASSUME NEW n \in 0 .. MaxRate, Pours(n)  PROVE Flags'
  BY <1>4, Zenon DEF Flags, Pours
<1>5. CASE RunEnds \/ SendsSample
  BY <1>5, Zenon DEF Flags, RunEnds, SendsSample
<1>6. CASE Loses \/ LinkDrops
  BY <1>6, Zenon DEF Flags, Loses, LinkDrops, Disconnect
<1>7. CASE Garbles
  BY <1>7, Zenon DEF Flags, Garbles
<1>8. CASE WriteState \/ Restarts
  BY <1>8, Zenon DEF Flags, WriteState, Restarts, Disconnect
<1>9. CASE UNCHANGED vars
  BY <1>9, Zenon DEF Flags, vars
<1> QED
  BY <1>1, <1>2, <1>3, <1>4, <1>5, <1>6, <1>7, <1>8, <1>9, <1>10, Zenon DEF Next

LEMMA ValuesStep ==
  Values /\ [Next]_vars => Values'
<1> SUFFICES ASSUME Values, [Next]_vars  PROVE Values'
  OBVIOUS
<1> USE DEF device, meter, sensor, history
<1>1. CASE Steering
  <2>1. rate' \in {rate, "zero"}
    BY <1>1, Zenon DEF Steering, start_watering, StartFails, Subscribed, SubscribeFails,
       stop_watering, _end_gen1_flow, _gen1_renewal_loop, Loses, LinkDrops
  <2> QED
    BY <1>1, <2>1, SteeringKeeps DEF Values
<1>2. CASE _begin_gen1_flow
  <2>1. heard' \in Nat \cup {None} /\ again' \in Nat
    BY <1>2 DEF Values, _begin_gen1_flow, OrZero
  <2> QED
    BY <1>2, <2>1 DEF Values, _begin_gen1_flow, reset_gen1_flow
<1>3. CASE _observe_plaintext
  <2>1. inflight \in Samples
    BY <1>3 DEF Values, _observe_plaintext
  <2>2. heard' \in Nat \cup {None}
    <3>1. CASE inflight.elapsed = 0
      BY <1>3, <3>1 DEF Values, _observe_plaintext
    <3>2. CASE inflight.elapsed # 0
      BY <1>3, <2>1, <3>2 DEF Values, _observe_plaintext, Samples, Misleads
    <3> QED
      BY <3>1, <3>2
  <2>3. apply_gen1_flow_frame(inflight) /\ inflight' = NoSample
        /\ UNCHANGED <<device, up, sensor, poured, again>>
    BY <1>3 DEF _observe_plaintext
  <2> QED
    BY <2>1, <2>2, <2>3, FrameType DEF Values
<1>4. CASE DeviceStarts
  BY <1>4 DEF Values, DeviceStarts
<1>5. ASSUME NEW n \in 0 .. MaxRate, Pours(n)  PROVE Values'
  BY <1>5 DEF Values, Pours
<1>6. CASE RunEnds
  BY <1>6 DEF Values, RunEnds
<1>7. CASE SendsSample
  <2>1. (ticks % Wrap) \in 0 .. Wrap - 1
    BY ConstantsAssumption, Modulo DEF Values
  <2>2. inflight' = IF elapsed = 0 THEN [elapsed |-> 0, cum |-> 0, ticks |-> 0]
                    ELSE [elapsed |-> elapsed, cum |-> ticks % Wrap, ticks |-> ticks]
    BY <1>7, Zenon DEF SendsSample
  <2>3. inflight' \in Samples
    BY <2>1, <2>2, ConstantsAssumption DEF Values, Samples
  <2> QED
    BY <1>7, <2>3 DEF Values, SendsSample
<1>9. CASE Garbles
  <2>1. inflight \in Samples
    BY <1>9 DEF Values, Garbles
  <2>2. inflight' \in Samples
    BY <1>9, <2>1 DEF Garbles, Samples
  <2> QED
    BY <1>9, <2>2 DEF Values, Garbles
<1>10. CASE WriteState
  <2>1. booked' \in Nat /\ shown' \in Nat
    BY <1>10, NativeType DEF Values, WriteState
  <2> QED
    BY <1>10, <2>1 DEF Values, WriteState
<1>11. CASE Restarts
  BY <1>11 DEF Values, Restarts, reset_gen1_flow, Disconnect
<1>12. CASE UNCHANGED vars
  BY <1>12 DEF Values, vars
<1> QED
  BY <1>1, <1>2, <1>3, <1>4, <1>5, <1>6, <1>7, <1>9, <1>10, <1>11, <1>12, Zenon
     DEF Next, Steering

(* The variables keep their types.                                         *)
THEOREM TypeCorrect == Spec => []TypeOK
<1>1. Init => Flags
  BY Zenon DEF Init, Flags
<1>2. Init => Values
  BY DEF Init, Values
<1>3. TypeOK /\ [Next]_vars => TypeOK'
  BY FlagsStep, ValuesStep, Zenon DEF TypeOK, Flags, Values
<1> QED
  BY <1>1, <1>2, <1>3, Types, PTL DEF Spec

-----------------------------------------------------------------------------
(* The volume. *)

(* A rated sample moves the anchor unless the division raises.             *)
LEMMA AnchoredMoves ==
  ASSUME NEW s, NEW w, NEW dt, Anchored(s, w, dt), dt = None \/ dt # 0
  PROVE  /\ wraps' = w /\ water' = w * Wrap + s.cum
         /\ anchor' = [elapsed |-> s.elapsed, cum |-> s.cum,
                       total |-> w * Wrap + s.cum]
  BY Zenon DEF Anchored

(* A sample that does not mislead, decoded, gives the device's count.      *)
LEMMA DecodedIsTrue ==
  ASSUME Values, HeardInv, SampleInv, ~spoilt,
         inflight # NoSample, inflight.elapsed # 0, ~Misleads(inflight),
         apply_gen1_flow_frame(inflight)
  PROVE  /\ inflight.ticks = wraps' * Wrap + inflight.cum
         /\ water' = inflight.ticks
         /\ anchor' = [elapsed |-> inflight.elapsed, cum |-> inflight.cum,
                       total |-> inflight.ticks]
<1> DEFINE s  == inflight
           dt == IF anchor = NoSample THEN None ELSE s.elapsed - anchor.elapsed
           k  == s.ticks \div Wrap
<1>1. s \in Samples /\ s.elapsed \in Nat /\ s.ticks \in Nat /\ s.cum \in 0 .. Wrap - 1
  BY DEF Values, Samples
<1>2. /\ s.cum = s.ticks % Wrap
      /\ heard # None /\ anchor # NoSample =>
           /\ anchor.elapsed < s.elapsed /\ heard <= s.ticks
           /\ s.ticks - heard <= MaxRate * (s.elapsed - anchor.elapsed)
  BY Zenon DEF SampleInv
<1>3. k \in Nat /\ s.ticks = k * Wrap + s.cum /\ (s.ticks < Wrap => s.cum = s.ticks)
  <2> HIDE DEF s
  <2>1. Wrap \in Nat \ {0}
    BY ConstantsAssumption
  <2> QED
    BY <1>1, <1>2, <2>1, Modulo, Zenon
<1>4. CASE heard = None \/ anchor = NoSample
  <2>1. s.ticks < Wrap
    BY <1>1, <1>4, ConstantsAssumption DEF Misleads, OrZero
  <2>2. anchor = NoSample \/ s.elapsed < anchor.elapsed
    BY <1>1, <1>4 DEF Misleads, Values, Anchors
  <2>3. dt = None \/ (dt \in Int /\ dt < 0 /\ dt # None)
    BY <1>1, <2>2, ConstantsAssumption DEF Values, Anchors
  <2>4. ~(dt # None /\ dt > 0)
    BY <2>3
  <2>5. Anchored(s, 0, dt)
    BY <2>4, Zenon DEF apply_gen1_flow_frame
  <2>6. dt = None \/ dt # 0
    BY <2>3
  <2>7. 0 * Wrap + s.cum = s.ticks
    BY <1>1, <1>3, <2>1, ConstantsAssumption
  <2> QED
    BY <2>5, <2>6, <2>7, AnchoredMoves
<1>5. CASE heard # None /\ anchor # NoSample
  <2>1. /\ anchor # NoSample /\ heard \in Nat /\ wraps \in Nat
        /\ anchor \in Anchors
        /\ heard = wraps * Wrap + anchor.cum
    BY <1>5, Zenon DEF HeardInv, Values
  <2>2. anchor.elapsed \in Nat /\ anchor.cum \in 0 .. Wrap - 1
    BY <2>1 DEF Anchors
  <2>3. dt = s.elapsed - anchor.elapsed /\ dt \in Int /\ dt > 0 /\ dt # None /\ dt # 0
    BY <1>1, <1>2, <1>5, <2>1, <2>2, ConstantsAssumption
  <2>4. heard <= s.ticks /\ s.ticks - heard < Wrap /\ s.ticks - heard <= MaxRate * dt
    BY <1>1, <1>2, <1>5, <2>1, <2>3, ConstantsAssumption DEF Misleads, OrZero
  <2>5. /\ anchor.cum <= s.cum => k * Wrap = wraps * Wrap
        /\ s.cum < anchor.cum => /\ k * Wrap = (wraps + 1) * Wrap
                                 /\ k * Wrap = wraps * Wrap + Wrap
    <3> HIDE DEF k, s
    <3> QED
      BY <1>1, <1>3, <2>1, <2>2, <2>4, Laps, ConstantsAssumption
  <2>6. CASE s.cum < anchor.cum
    <3>1. ~(Wrap - anchor.cum + s.cum > MaxRate * dt)
      <4> HIDE DEF k, s, dt
      <4>1. MaxRate * dt \in Int /\ k * Wrap \in Int /\ wraps * Wrap \in Int
        BY <1>3, <2>1, <2>3, ConstantsAssumption
      <4> QED
        BY <4>1, <1>1, <1>3, <2>1, <2>2, <2>4, <2>5, <2>6, ConstantsAssumption
    <3>2. Anchored(s, wraps + 1, dt)
      BY <2>3, <2>6, <3>1, Zenon DEF apply_gen1_flow_frame
    <3>3. (wraps + 1) * Wrap + s.cum = s.ticks
      BY <1>3, <2>5, <2>6, Zenon
    <3> QED
      BY <2>3, <3>2, <3>3, AnchoredMoves
  <2>7. CASE ~(s.cum < anchor.cum)
    <3>1. Anchored(s, wraps, dt)
      BY <2>3, <2>7, Zenon DEF apply_gen1_flow_frame
    <3>2. anchor.cum <= s.cum
      BY <1>1, <2>2, <2>7, ConstantsAssumption
    <3>3. wraps * Wrap + s.cum = s.ticks
      BY <1>3, <2>5, <3>2, Zenon
    <3> QED
      BY <2>3, <3>1, <3>3, AnchoredMoves
  <2> QED
    BY <2>6, <2>7
<1> QED
  BY <1>4, <1>5

-----------------------------------------------------------------------------
(* The steps. *)

(* Each step but the decoding leaves what was heard alone, or spoils it.   *)
LEMMA DeviceStep ==
  Values /\ DeviceInv /\ [Next]_vars => DeviceInv'
<1> SUFFICES ASSUME Values, DeviceInv, [Next]_vars  PROVE DeviceInv'
  OBVIOUS
<1> USE DEF DeviceInv, device, meter, sensor, history
<1>1. CASE Steering
  BY <1>1, SteeringKeeps, Zenon
<1>2. CASE DeviceStarts \/ RunEnds
  BY <1>2, Zenon DEF DeviceStarts, RunEnds
<1>3. ASSUME NEW n \in 0 .. MaxRate, Pours(n)  PROVE DeviceInv'
  BY <1>3, Zenon DEF Pours
<1>4. CASE _observe_plaintext \/ SendsSample \/ _begin_gen1_flow
  BY <1>4, Zenon DEF _observe_plaintext, SendsSample, _begin_gen1_flow
<1>5. CASE Garbles \/ WriteState \/ Restarts \/ UNCHANGED vars
  BY <1>5, Zenon DEF Garbles, WriteState, Restarts, vars
<1> QED
  BY <1>1, <1>2, <1>3, <1>4, <1>5, Zenon DEF Next, Steering

(* A count that agreed still agrees a second later.                        *)
LEMMA TellsOn ==
  ASSUME Values, NEW n \in 0 .. MaxRate, Pours(n),
         NEW t \in Nat, NEW e \in Nat, Tells(t, e)
  PROVE  Tells(t, e)' /\ e < elapsed'
<1>1. /\ running /\ elapsed' = elapsed + 1 /\ ticks' = ticks + n /\ due' = TRUE
  BY Zenon DEF Pours
<1>2. t <= ticks /\ e <= elapsed /\ ticks - t <= MaxRate * (elapsed - e)
  BY <1>1, Zenon DEF Tells
<1>3. ticks - t + n <= MaxRate * (elapsed + 1 - e)
  <2>1. elapsed \in Nat /\ ticks - t \in Int /\ MaxRate \in Nat
    BY ConstantsAssumption DEF Values
  <2> QED
    BY <1>2, <2>1, RateGrows
<1>4. ticks' - t = ticks - t + n /\ t <= ticks' /\ e < elapsed' /\ e <= elapsed'
  BY <1>1, <1>2 DEF Values
<1>5. ticks' - t <= MaxRate * (elapsed' - e)
  <2>1. elapsed' - e = elapsed + 1 - e
    BY <1>1 DEF Values
  <2> QED
    BY <1>3, <1>4, <2>1, Zenon
<1> QED
  BY <1>4, <1>5, Zenon DEF Tells

(* Nothing but time and samples makes a count that agreed stop agreeing.   *)
LEMMA TellsStays ==
  ASSUME NEW t, NEW e, Tells(t, e), ticks' = ticks,
         ~running' \/ (running /\ elapsed' = elapsed /\ (due' => due))
  PROVE  Tells(t, e)'
  BY Zenon DEF Tells

(* What leaves the device, the volume and the history alone.               *)
Quiet == Steering \/ WriteState \/ UNCHANGED vars

LEMMA QuietKeeps ==
  ASSUME Quiet
  PROVE  /\ UNCHANGED <<device, anchor, wraps, water, restored, history>>
         /\ inflight' = inflight \/ inflight' = NoSample
<1> USE DEF device, meter, sensor, history
<1>1. CASE Steering
  BY <1>1, SteeringKeeps, Zenon
<1>2. CASE WriteState \/ UNCHANGED vars
  BY <1>2, Zenon DEF WriteState, vars
<1> QED
  BY <1>1, <1>2, Zenon DEF Quiet

LEMMA MeterStep ==
  Values /\ MeterInv /\ [Next]_vars => MeterInv'
<1> SUFFICES ASSUME Values, MeterInv, [Next]_vars  PROVE MeterInv'
  OBVIOUS
<1> USE DEF MeterInv, device, meter, sensor, history
<1>1. CASE Quiet
  BY <1>1, QuietKeeps, Zenon
<1>2. CASE _begin_gen1_flow \/ Restarts
  BY <1>2, Zenon DEF _begin_gen1_flow, Restarts, reset_gen1_flow
<1>3. CASE _observe_plaintext
  <2> DEFINE s == inflight
             dt == IF anchor = NoSample THEN None ELSE s.elapsed - anchor.elapsed
  <2>1. s \in Samples /\ apply_gen1_flow_frame(s)
    BY <1>3 DEF Values, _observe_plaintext
  <2>2. dt \in Int \cup {None} /\ 0 \in Nat /\ wraps + 1 \in Nat /\ wraps \in Nat
    BY <2>1 DEF Values, Samples, Anchors
  <2>3. \/ UNCHANGED <<anchor, water>>
        \/ \E w \in Nat, d \in Int \cup {None} : Anchored(s, w, d)
    BY <2>1, <2>2, Zenon DEF apply_gen1_flow_frame
  <2>4. ASSUME NEW w \in Nat, NEW d, Anchored(s, w, d)  PROVE MeterInv'
    <3> DEFINE total == w * Wrap + s.cum
               next  == [elapsed |-> s.elapsed, cum |-> s.cum, total |-> total]
    <3>1. total \in Nat
      BY <2>1, ConstantsAssumption, SMT DEF Samples
    <3>2. next \in Anchors
      BY <2>1, <3>1 DEF Samples, Anchors
    <3>3. total # None /\ next # NoSample
      BY <3>1, <3>2, ConstantsAssumption, NoSampleAssumption
    <3>4. UNCHANGED <<anchor, water>> \/ (water' = total /\ anchor' = next)
      BY <2>4, Zenon DEF Anchored
    <3> QED
      BY <3>3, <3>4, Zenon
  <2> QED
    BY <2>3, <2>4, Zenon
<1>4. CASE DeviceStarts \/ RunEnds \/ SendsSample \/ Garbles
           \/ \E n \in 0 .. MaxRate : Pours(n)
  BY <1>4, Zenon DEF DeviceStarts, RunEnds, SendsSample, Garbles, Pours
<1> QED
  BY <1>1, <1>2, <1>3, <1>4, Zenon DEF Next, Quiet, Steering

LEMMA HeardStep ==
  Values /\ DeviceInv /\ HeardInv /\ SampleInv /\ [Next]_vars => HeardInv'
<1> SUFFICES ASSUME Values, DeviceInv, HeardInv, SampleInv, [Next]_vars,
                    ~spoilt', heard' # None, anchor' # NoSample
             PROVE  /\ anchor'.total = heard' /\ water' = heard'
                    /\ heard' = wraps' * Wrap + anchor'.cum
                    /\ Tells(heard, anchor.elapsed)'
  BY Zenon DEF HeardInv
<1> USE DEF device, meter, sensor, history
<1> DEFINE Same == UNCHANGED <<anchor, wraps, water, heard, spoilt>>
<1>1. ASSUME Same
      PROVE  /\ anchor'.total = heard' /\ water' = heard'
             /\ heard' = wraps' * Wrap + anchor'.cum
             /\ Tells(heard, anchor.elapsed)
             /\ anchor' = anchor /\ heard' = heard
             /\ heard \in Nat /\ anchor \in Anchors
  BY <1>1, Zenon DEF HeardInv, Values
<1>2. CASE _begin_gen1_flow \/ Restarts \/ DeviceStarts
  BY <1>2, Zenon DEF _begin_gen1_flow, Restarts, DeviceStarts, reset_gen1_flow
<1>3. CASE RunEnds
  <2>1. Same /\ ticks' = ticks /\ ~running'
    BY <1>3, Zenon DEF RunEnds
  <2> QED
    BY <1>1, <2>1, Zenon DEF Tells
<1>4. CASE _observe_plaintext
  <2>1. UNCHANGED device /\ inflight # NoSample /\ apply_gen1_flow_frame(inflight)
    BY <1>4, Zenon DEF _observe_plaintext
  <2>2. CASE inflight.elapsed = 0
    <3>1. UNCHANGED <<heard, spoilt>>
      BY <1>4, <2>2, Zenon DEF _observe_plaintext
    <3>2. UNCHANGED <<anchor, wraps, water>>
      BY <2>1, <2>2, Zenon DEF apply_gen1_flow_frame
    <3> QED
      BY <1>1, <2>1, <3>1, <3>2, Zenon DEF Tells
  <2>3. CASE inflight.elapsed # 0
    <3>1. heard' = inflight.ticks /\ ~spoilt /\ ~Misleads(inflight)
      BY <1>4, <2>3, Zenon DEF _observe_plaintext
    <3>2. /\ inflight.ticks = wraps' * Wrap + inflight.cum
          /\ water' = inflight.ticks
          /\ anchor' = [elapsed |-> inflight.elapsed, cum |-> inflight.cum,
                        total |-> inflight.ticks]
      BY <2>1, <2>3, <3>1, DecodedIsTrue, Zenon
    <3>3. Tells(inflight.ticks, inflight.elapsed)
      BY <2>1, <2>3, <3>1, Zenon DEF SampleInv
    <3>4. anchor'.elapsed = inflight.elapsed /\ anchor'.cum = inflight.cum
          /\ anchor'.total = inflight.ticks
      BY <3>2
    <3>5. Tells(heard, anchor.elapsed)'
      BY <2>1, <3>1, <3>3, <3>4, Zenon DEF Tells
    <3> QED
      BY <3>1, <3>2, <3>4, <3>5, Zenon
  <2> QED
    BY <2>2, <2>3
<1>5. ASSUME NEW n \in 0 .. MaxRate, Pours(n)
      PROVE  /\ anchor'.total = heard' /\ water' = heard'
             /\ heard' = wraps' * Wrap + anchor'.cum
             /\ Tells(heard, anchor.elapsed)'
  <2>1. Same
    BY <1>5, Zenon DEF Pours
  <2>2. anchor.elapsed \in Nat
    BY <1>1, <2>1 DEF Anchors
  <2>3. Tells(heard, anchor.elapsed)'
    <3>1. heard <= ticks' /\ (running' => /\ anchor.elapsed <= elapsed'
                                          /\ (due' => anchor.elapsed < elapsed')
                                          /\ ticks' - heard
                                               <= MaxRate * (elapsed' - anchor.elapsed))
      BY <1>1, <1>5, <2>1, <2>2, TellsOn, Zenon DEF Tells
    <3> QED
      BY <2>1, <3>1, Zenon DEF Tells
  <2> QED
    BY <1>1, <2>1, <2>3, Zenon
<1>6. CASE SendsSample
  <2>1. Same /\ UNCHANGED <<ticks, running, elapsed>> /\ due /\ ~due'
    BY <1>6, Zenon DEF SendsSample
  <2> QED
    BY <1>1, <2>1, Zenon DEF Tells
<1>7. CASE Quiet
  <2>1. Same /\ UNCHANGED device
    BY <1>7, QuietKeeps, Zenon
  <2> QED
    BY <1>1, <2>1, Zenon DEF Tells
<1>8. CASE Garbles
  BY <1>8, Zenon DEF Garbles
<1> QED
  BY <1>2, <1>3, <1>4, <1>5, <1>6, <1>7, <1>8, Zenon DEF Next, Quiet, Steering

LEMMA SampleStep ==
  Values /\ DeviceInv /\ HeardInv /\ SampleInv /\ [Next]_vars => SampleInv'
<1> DEFINE Close == heard # None /\ anchor # NoSample =>
             /\ anchor.elapsed < inflight.elapsed /\ heard <= inflight.ticks
             /\ inflight.ticks - heard <= MaxRate * (inflight.elapsed - anchor.elapsed)
           Goal  == /\ inflight'.cum = inflight'.ticks % Wrap
                    /\ Tells(inflight.ticks, inflight.elapsed)'
                    /\ Close'
<1> SUFFICES ASSUME Values, DeviceInv, HeardInv, SampleInv, [Next]_vars,
                    ~spoilt', inflight' # NoSample, inflight'.elapsed # 0
             PROVE  Goal
  BY Zenon DEF SampleInv
<1> USE DEF device, meter, sensor, history
<1> DEFINE Same == UNCHANGED <<inflight, anchor, heard, spoilt>>
<1>1. ASSUME inflight' = inflight, ~spoilt
      PROVE  /\ inflight'.cum = inflight'.ticks % Wrap
             /\ Tells(inflight.ticks, inflight.elapsed)
             /\ inflight \in Samples
             /\ Same => Close'
  BY <1>1, Zenon DEF SampleInv, Values
<1>2. CASE _begin_gen1_flow
  <2>1. inflight' = inflight /\ ~spoilt /\ UNCHANGED device /\ anchor' = NoSample
    BY <1>2, Zenon DEF _begin_gen1_flow, reset_gen1_flow
  <2> QED
    BY <1>1, <2>1, Zenon DEF Tells
<1>3. CASE _observe_plaintext \/ Restarts
  BY <1>3, Zenon DEF _observe_plaintext, Restarts, Disconnect
<1>4. CASE DeviceStarts
  BY <1>4, Zenon DEF DeviceStarts
<1>5. CASE RunEnds
  <2>1. Same /\ ticks' = ticks /\ ~running'
    BY <1>5, Zenon DEF RunEnds
  <2> QED
    BY <1>1, <2>1, Zenon DEF Tells
<1>6. ASSUME NEW n \in 0 .. MaxRate, Pours(n)  PROVE Goal
  <2>1. Same
    BY <1>6, Zenon DEF Pours
  <2> DEFINE t == inflight.ticks
             e == inflight.elapsed
  <2>2. t \in Nat /\ e \in Nat
    BY <1>1, <2>1 DEF Samples
  <2>3. t <= ticks' /\ (running' => /\ e <= elapsed' /\ (due' => e < elapsed')
                                    /\ ticks' - t <= MaxRate * (elapsed' - e))
    <3>1. Tells(t, e)
      BY <1>1, <2>1
    <3> HIDE DEF t, e
    <3> QED
      BY <1>6, <2>2, <3>1, TellsOn, Zenon DEF Tells
  <2>4. Tells(inflight.ticks, inflight.elapsed)'
    BY <2>1, <2>3, Zenon DEF Tells
  <2> QED
    BY <1>1, <2>1, <2>4, Zenon
<1>7. CASE SendsSample
  <2>1. /\ UNCHANGED <<running, elapsed, ticks, anchor, heard, spoilt>>
        /\ due /\ ~due'
        /\ inflight' = IF elapsed = 0 THEN [elapsed |-> 0, cum |-> 0, ticks |-> 0]
                       ELSE [elapsed |-> elapsed, cum |-> ticks % Wrap, ticks |-> ticks]
    BY <1>7, Zenon DEF SendsSample
  <2>2. elapsed # 0
    BY <2>1
  <2>3. inflight'.elapsed = elapsed /\ inflight'.cum = ticks % Wrap /\ inflight'.ticks = ticks
    BY <2>1, <2>2
  <2>4. running /\ ~spoilt
    BY <2>1, <2>2, Zenon DEF DeviceInv
  <2>5. ticks <= ticks /\ elapsed <= elapsed /\ ticks - ticks <= MaxRate * (elapsed - elapsed)
    <3>1. ticks - ticks = 0 /\ elapsed - elapsed = 0 /\ MaxRate * 0 = 0
      BY ConstantsAssumption DEF Values
    <3>2. MaxRate * (elapsed - elapsed) = 0
      BY <3>1, Zenon
    <3> QED
      BY <3>1, <3>2 DEF Values
  <2>6. Tells(inflight.ticks, inflight.elapsed)'
    BY <2>1, <2>3, <2>5, Zenon DEF Tells
  <2>7. ASSUME heard # None, anchor # NoSample
        PROVE  /\ anchor.elapsed < elapsed /\ heard <= ticks
               /\ ticks - heard <= MaxRate * (elapsed - anchor.elapsed)
    BY <2>1, <2>4, <2>7, Zenon DEF HeardInv, Tells
  <2>8. Close'
    BY <2>1, <2>3, <2>7, Zenon
  <2> QED
    BY <2>3, <2>6, <2>8, Zenon
<1>8. CASE Quiet
  <2>1. Same /\ UNCHANGED device
    BY <1>8, QuietKeeps, Zenon
  <2> QED
    BY <1>1, <2>1, Zenon DEF Tells
<1>9. CASE Garbles
  BY <1>9, Zenon DEF Garbles
<1> QED
  BY <1>2, <1>3, <1>4, <1>5, <1>6, <1>7, <1>8, <1>9, Zenon DEF Next, Quiet, Steering

(* While nothing misled the meter, a volume it shows is the one heard.     *)
LEMMA NativeIsHeard ==
  ASSUME MeterInv, HeardInv, ~spoilt, heard # None, water # None
  PROVE  native_value = heard
  BY Zenon DEF MeterInv, HeardInv, native_value

(* A step that leaves the volume and the sensor alone shows no other value.*)
LEMMA NativeStays ==
  ASSUME UNCHANGED <<water, restored>>
  PROVE  native_value' = native_value
  BY Zenon DEF native_value

LEMMA OrderStep ==
  Values /\ HeardInv /\ SampleInv /\ OrderInv /\ BookedInv /\ [Next]_vars => OrderInv'
<1> DEFINE Rises == inflight # NoSample /\ inflight.elapsed # 0 => heard <= inflight.ticks
           Shows == water = None => native_value = shown
<1> SUFFICES ASSUME Values, HeardInv, SampleInv, OrderInv, BookedInv, [Next]_vars,
                    ~blemish', heard' # None
             PROVE  (heard <= ticks)' /\ Rises' /\ Shows'
  BY Zenon DEF OrderInv
<1> USE DEF device, meter, sensor, history
<1>1. ASSUME ~blemish, heard # None  PROVE heard <= ticks /\ Rises /\ Shows
  BY <1>1, Zenon DEF OrderInv
<1>2. ~blemish => ~spoilt
  BY Zenon DEF BookedInv
<1>3. CASE Quiet
  <2>1. /\ UNCHANGED <<ticks, water, restored, heard, blemish>>
        /\ inflight' = inflight \/ inflight' = NoSample
    BY <1>3, QuietKeeps, Zenon
  <2>2. shown' = shown \/ shown' = native_value
    BY <1>3, SteeringKeeps, Zenon DEF Quiet, WriteState, vars
  <2>3. Shows'
    BY <1>1, <2>1, <2>2, NativeStays, Zenon
  <2> QED
    BY <1>1, <2>1, <2>3, Zenon
<1>4. CASE _begin_gen1_flow
  <2>1. water = None /\ water' = None /\ UNCHANGED <<device, inflight, sensor, heard, blemish>>
    BY <1>4, Zenon DEF _begin_gen1_flow, reset_gen1_flow
  <2> QED
    BY <1>1, <2>1, NativeStays, Zenon
<1>5. CASE _observe_plaintext
  <2>1. /\ UNCHANGED <<ticks, sensor>> /\ inflight # NoSample /\ inflight' = NoSample
        /\ apply_gen1_flow_frame(inflight)
    BY <1>5, Zenon DEF _observe_plaintext
  <2>2. CASE inflight.elapsed = 0
    <3>1. UNCHANGED <<heard, blemish>>
      BY <1>5, <2>2, Zenon DEF _observe_plaintext
    <3>2. water' = water
      BY <2>1, <2>2, Zenon DEF apply_gen1_flow_frame
    <3> QED
      BY <1>1, <2>1, <3>1, <3>2, NativeStays, Zenon
  <2>3. CASE inflight.elapsed # 0
    <3>1. heard' = inflight.ticks /\ ~blemish
      BY <1>5, <2>3, Zenon DEF _observe_plaintext
    <3>2. inflight.ticks <= ticks
      BY <1>2, <2>1, <2>3, <3>1, Zenon DEF SampleInv, Tells
    <3>3. water' # None
      <4>1. ~spoilt /\ ~Misleads(inflight)
        BY <1>2, <1>5, <2>3, <3>1, Zenon DEF _observe_plaintext
      <4>2. water' = inflight.ticks
        BY <2>1, <2>3, <4>1, DecodedIsTrue, Zenon
      <4>3. inflight.ticks \in Nat
        BY <2>1 DEF Values, Samples
      <4> QED
        BY <4>2, <4>3, ConstantsAssumption
    <3> QED
      BY <2>1, <3>1, <3>2, <3>3, Zenon
  <2> QED
    BY <2>2, <2>3
<1>6. CASE DeviceStarts \/ Garbles
  BY <1>6, Zenon DEF DeviceStarts, Garbles
<1>7. ASSUME NEW n \in 0 .. MaxRate, Pours(n)  PROVE (heard <= ticks)' /\ Rises' /\ Shows'
  <2>1. /\ UNCHANGED <<inflight, water, sensor, heard, blemish>>
        /\ ticks' = ticks + n /\ n \in Nat
    BY <1>7 DEF Pours
  <2>2. heard \in Nat /\ ticks \in Nat
    BY <2>1 DEF Values
  <2>3. heard <= ticks + n
    BY <1>1, <2>1, <2>2
  <2> QED
    BY <1>1, <2>1, <2>3, NativeStays, Zenon
<1>8. CASE RunEnds
  <2>1. UNCHANGED <<ticks, inflight, water, sensor, heard, blemish>>
    BY <1>8, Zenon DEF RunEnds
  <2> QED
    BY <1>1, <2>1, NativeStays, Zenon
<1>9. CASE SendsSample
  <2>1. /\ UNCHANGED <<ticks, water, sensor, heard, blemish>>
        /\ inflight' = IF elapsed = 0 THEN [elapsed |-> 0, cum |-> 0, ticks |-> 0]
                       ELSE [elapsed |-> elapsed, cum |-> ticks % Wrap, ticks |-> ticks]
    BY <1>9, Zenon DEF SendsSample
  <2>2. inflight'.elapsed # 0 => inflight'.ticks = ticks
    BY <2>1
  <2> QED
    BY <1>1, <2>1, <2>2, NativeStays, Zenon
<1>10. CASE Restarts
  <2>1. /\ UNCHANGED <<ticks, shown, heard, blemish>> /\ restored' = shown
        /\ water' = None /\ inflight' = NoSample
    BY <1>10, Zenon DEF Restarts, reset_gen1_flow, Disconnect
  <2>2. shown # None
    BY ConstantsAssumption DEF Values
  <2>3. native_value' = shown'
    BY <2>1, <2>2, Zenon DEF native_value
  <2> QED
    BY <1>1, <2>1, <2>3, Zenon
<1> QED
  BY <1>3, <1>4, <1>5, <1>6, <1>7, <1>8, <1>9, <1>10, Zenon DEF Next, Quiet, Steering

LEMMA BookedStep ==
  Values /\ MeterInv /\ HeardInv /\ SampleInv /\ OrderInv /\ BookedInv /\ [Next]_vars
    => BookedInv'
<1> DEFINE Within == booked + Increment <= poured + OrZero(heard) + again
<1> SUFFICES ASSUME Values, MeterInv, HeardInv, SampleInv, OrderInv, BookedInv,
                    [Next]_vars, ~blemish'
             PROVE  ~spoilt' /\ Within'
  BY Zenon DEF BookedInv
<1> USE DEF device, meter, sensor, history
<1>1. ~blemish => ~spoilt /\ Within
  BY Zenon DEF BookedInv
<1>2. /\ native_value \in Nat /\ Pending \in Nat /\ Increment \in Nat
      /\ booked \in Nat /\ poured \in Nat /\ ticks \in Nat /\ shown \in Nat /\ again \in Nat
      /\ OrZero(heard) \in Nat /\ OrZero(restored) \in Nat
  <2>1. native_value \in Nat /\ Pending \in Nat /\ shown \in Nat
    BY NativeType DEF Values, Pending
  <2>2. Increment \in Nat
    BY <2>1 DEF Increment
  <2> QED
    BY <2>1, <2>2 DEF Values, OrZero
<1>3. ASSUME UNCHANGED <<water, sensor, heard, poured, spoilt, blemish, again>>
      PROVE  ~spoilt' /\ Within'
  <2>1. native_value' = native_value
    BY <1>3, NativeStays, Zenon
  <2>2. Increment' = Increment /\ OrZero(heard)' = OrZero(heard)
    BY <1>3, <2>1, Zenon DEF Increment, Pending, OrZero
  <2> QED
    BY <1>1, <1>3, <2>2, Zenon
<1>4. CASE Steering \/ UNCHANGED vars
  BY <1>3, <1>4, SteeringKeeps, Zenon DEF vars
<1>5. CASE RunEnds \/ SendsSample \/ \E n \in 0 .. MaxRate : Pours(n)
  BY <1>3, <1>5, Zenon DEF RunEnds, SendsSample, Pours
<1>6. CASE _begin_gen1_flow
  <2>1. /\ UNCHANGED <<sensor, poured, blemish>> /\ water' = None /\ (spoilt' => spoilt)
        /\ IF water = None THEN UNCHANGED <<heard, again>>
           ELSE heard' = None /\ again' = again + OrZero(heard) + OrZero(restored)
    BY <1>6, Zenon DEF _begin_gen1_flow, reset_gen1_flow
  <2>2. CASE water = None
    <3>1. UNCHANGED <<water, sensor, heard, poured, blemish, again>>
      BY <2>1, <2>2, Zenon
    <3>2. native_value' = native_value
      BY <3>1, NativeStays, Zenon
    <3>3. Increment' = Increment /\ OrZero(heard)' = OrZero(heard)
      BY <3>1, <3>2, Zenon DEF Increment, Pending, OrZero
    <3>4. ~spoilt' /\ Within
      BY <1>1, <2>1, Zenon
    <3>5. Within'
      BY <3>1, <3>3, <3>4, Zenon
    <3> QED
      BY <3>4, <3>5
  <2>3. CASE water # None
    <3>1. Pending' = OrZero(restored) /\ OrZero(heard)' = 0
      BY <2>1, <2>3, Zenon DEF Pending, native_value, OrZero
    <3>2. Increment' <= OrZero(restored) /\ Increment' \in Nat
      <4>1. Increment' = IF OrZero(restored) < shown THEN OrZero(restored)
                         ELSE OrZero(restored) - shown
        BY <2>1, <3>1, Zenon DEF Increment
      <4> QED
        BY <1>2, <4>1
    <3>3. Within
      BY <1>1, <2>1, Zenon
    <3>4. /\ booked' = booked /\ poured' = poured
          /\ again' = again + OrZero(heard) + OrZero(restored)
      BY <2>1, <2>3, Zenon
    <3>5. \A h, r, i, j \in Nat : booked + i <= poured + h + again /\ j <= r
            => booked + j <= poured + 0 + (again + h + r)
      BY <1>2
    <3>6. booked + Increment' <= poured + 0 + (again + OrZero(heard) + OrZero(restored))
      BY <1>2, <3>2, <3>3, <3>5, Zenon
    <3>7. Within'
      BY <3>1, <3>4, <3>6, Zenon
    <3> QED
      BY <1>1, <2>1, <3>7, Zenon
  <2> QED
    BY <2>2, <2>3
<1>7. CASE DeviceStarts
  <2>1. /\ ~blemish /\ ~spoilt' /\ heard' = None /\ poured' = poured + ticks
        /\ UNCHANGED <<water, sensor, again>>
    BY <1>7, Zenon DEF DeviceStarts
  <2>2. Pending' = native_value /\ OrZero(heard)' = 0
    BY <2>1, NativeStays, Zenon DEF Pending, OrZero
  <2>3. Increment' = IF native_value < shown THEN native_value ELSE native_value - shown
    BY <2>1, <2>2, Zenon DEF Increment
  <2>4. Increment' <= Increment /\ Increment' \in Nat /\ OrZero(heard) <= ticks
    <3>1. CASE heard = None
      <4>1. Pending = native_value /\ OrZero(heard) = 0
        BY <3>1, Zenon DEF Pending, OrZero
      <4>2. Increment = Increment'
        BY <2>3, <4>1, Zenon DEF Increment
      <4> QED
        BY <1>2, <4>1, <4>2
    <3>2. CASE heard # None
      <4>1. Pending = heard /\ OrZero(heard) = heard /\ heard <= ticks
            /\ (water = None => native_value = shown)
        BY <2>1, <3>2, Zenon DEF Pending, OrZero, OrderInv
      <4>2. CASE water = None
        <5>1. Increment' = 0
          BY <1>2, <2>3, <4>1, <4>2
        <5> QED
          BY <1>2, <4>1, <5>1
      <4>3. CASE water # None
        <5>1. native_value = heard
          BY <1>1, <2>1, <3>2, <4>3, NativeIsHeard, Zenon
        <5>2. Increment' = Increment
          BY <2>3, <4>1, <5>1, Zenon DEF Increment
        <5> QED
          BY <1>2, <4>1, <5>2
      <4> QED
        BY <4>2, <4>3
    <3> QED
      BY <3>1, <3>2
  <2>5. \A h, i, j \in Nat : booked + i <= poured + h + again /\ j <= i /\ h <= ticks
          => booked + j <= poured + ticks + 0 + again
    BY <1>2
  <2>6. booked + Increment' <= poured + ticks + 0 + again
    BY <1>1, <1>2, <2>1, <2>4, <2>5, Zenon
  <2>7. Within'
    BY <2>1, <2>2, <2>6, Zenon
  <2> QED
    BY <2>1, <2>7
<1>8. CASE _observe_plaintext
  <2>1. /\ UNCHANGED <<sensor, poured, ticks, again>> /\ inflight # NoSample
        /\ apply_gen1_flow_frame(inflight)
    BY <1>8, Zenon DEF _observe_plaintext
  <2>2. CASE inflight.elapsed = 0
    <3>1. UNCHANGED <<heard, spoilt, blemish>>
      BY <1>8, <2>2, Zenon DEF _observe_plaintext
    <3>2. water' = water
      BY <2>1, <2>2, Zenon DEF apply_gen1_flow_frame
    <3> QED
      BY <1>3, <2>1, <3>1, <3>2, Zenon
  <2>3. CASE inflight.elapsed # 0
    <3> DEFINE t == inflight.ticks
    <3>1. heard' = t /\ ~blemish /\ ~Misleads(inflight)
      BY <1>8, <2>3, Zenon DEF _observe_plaintext
    <3>2. ~spoilt /\ ~spoilt' /\ Within
      BY <1>1, <1>8, <2>3, <3>1, Zenon DEF _observe_plaintext
    <3>3. t \in Nat /\ t # None
      BY <2>1, ConstantsAssumption DEF Values, Samples
    <3>4. OrZero(heard)' = t /\ Pending' = t
      BY <3>1, <3>3, Zenon DEF OrZero, Pending
    <3>5. Increment' = IF t < shown THEN t ELSE t - shown
      BY <2>1, <3>4, Zenon DEF Increment
    <3> HIDE DEF t
    <3>6. booked + Increment' <= poured + t + again
      <4>1. CASE heard = None
        <5>1. OrZero(heard) = 0
          BY <4>1, Zenon DEF OrZero
        <5>2. booked <= poured + again
          <6>1. \A i \in Nat : booked + i <= poured + 0 + again => booked <= poured + again
            BY <1>2
          <6> QED
            BY <1>2, <3>2, <5>1, <6>1, Zenon
        <5> QED
          BY <1>2, <3>3, <3>5, <5>2
      <4>2. CASE heard # None
        <5>1. Pending = heard /\ OrZero(heard) = heard
          BY <4>2, Zenon DEF Pending, OrZero
        <5>2. heard <= t /\ heard \in Nat
          BY <1>2, <2>1, <2>3, <3>1, <4>2, <5>1, Zenon DEF OrderInv, t
        <5>3. Increment = IF heard < shown THEN heard ELSE heard - shown
          BY <5>1, Zenon DEF Increment
        <5>4. booked + Increment <= poured + heard + again
          BY <3>2, <5>1, Zenon
        <5> QED
          BY <1>2, <3>3, <3>5, <5>2, <5>3, <5>4
      <4> QED
        BY <4>1, <4>2
    <3>7. Within'
      BY <2>1, <3>4, <3>6, Zenon
    <3> QED
      BY <3>2, <3>7
  <2> QED
    BY <2>2, <2>3
<1>9. CASE WriteState
  <2>1. /\ UNCHANGED <<water, restored, heard, poured, spoilt, blemish, again>>
        /\ native_value # shown /\ shown' = native_value
        /\ booked' = booked + (IF native_value < shown THEN native_value
                               ELSE native_value - shown)
    BY <1>9, Zenon DEF WriteState
  <2>2. Pending = native_value
    <3>1. heard # None => water # None
      BY <2>1, Zenon DEF OrderInv
    <3> QED
      BY <1>1, <2>1, <3>1, NativeIsHeard, Zenon DEF Pending
  <2>3. booked' = booked + Increment
    BY <2>1, <2>2, Zenon DEF Increment
  <2>4. Pending' = native_value /\ shown' = native_value
    BY <2>1, <2>2, NativeStays, Zenon DEF Pending
  <2>5. Increment' = 0
    <3>1. Increment' = IF native_value < native_value THEN native_value
                       ELSE native_value - native_value
      BY <2>4, Zenon DEF Increment
    <3> QED
      BY <1>2, <3>1
  <2>6. booked' + Increment' = booked + Increment
    BY <1>2, <2>3, <2>5
  <2> QED
    BY <1>1, <2>1, <2>6, Zenon DEF OrZero
<1>10. CASE Restarts
  <2>1. /\ UNCHANGED <<shown, booked, heard, poured, spoilt, blemish, again>>
        /\ restored' = shown /\ water' = None
    BY <1>10, Zenon DEF Restarts, reset_gen1_flow
  <2>2. native_value' = shown'
    <3>1. shown # None
      BY <1>2, ConstantsAssumption
    <3> QED
      BY <2>1, <3>1, Zenon DEF native_value
  <2>3. CASE heard # None
    <3>1. Increment' = Increment
      BY <2>1, <2>3, Zenon DEF Increment, Pending
    <3> QED
      BY <1>1, <2>1, <3>1, Zenon DEF OrZero
  <2>4. CASE heard = None
    <3>1. Increment' = IF shown < shown THEN shown ELSE shown - shown
      BY <2>1, <2>2, <2>4, Zenon DEF Increment, Pending
    <3>2. Increment' = 0
      BY <1>2, <3>1
    <3>3. booked <= poured + OrZero(heard) + again
      <4>1. \A h, i \in Nat : booked + i <= poured + h + again => booked <= poured + h + again
        BY <1>2
      <4> QED
        BY <1>1, <1>2, <2>1, <4>1, Zenon
    <3>4. booked + 0 <= poured + OrZero(heard) + again
      BY <1>2, <3>3
    <3> QED
      BY <1>1, <2>1, <3>2, <3>4, Zenon DEF OrZero
  <2> QED
    BY <2>3, <2>4
<1>11. CASE Garbles
  BY <1>11, Zenon DEF Garbles
<1> QED
  BY <1>4, <1>5, <1>6, <1>7, <1>8, <1>9, <1>10, <1>11, Zenon DEF Next, Steering

-----------------------------------------------------------------------------
(* The theorems. *)

(* The inductive invariant holds of every behaviour.                       *)
LEMMA Invariant == Spec => [](TypeOK /\ IInv)
<1>1. Init => TypeOK /\ IInv
  <2>1. ASSUME Init  PROVE DeviceInv /\ MeterInv /\ HeardInv /\ SampleInv /\ OrderInv
    BY <2>1, Zenon DEF Init, DeviceInv, MeterInv, HeardInv, SampleInv, OrderInv
  <2>2. ASSUME Init  PROVE BookedInv
    <3>1. native_value = 0 /\ shown = 0 /\ heard = None
      BY <2>2, Zenon DEF Init, native_value
    <3>2. Increment = 0
      BY <3>1 DEF Increment, Pending
    <3>3. booked + Increment <= poured + OrZero(heard) + again
      <4>1. booked = 0 /\ poured = 0 /\ again = 0
        BY <2>2, Zenon DEF Init
      <4> QED
        BY <3>1, <3>2, <4>1 DEF OrZero
    <3> QED
      BY <2>2, <3>3, Zenon DEF Init, BookedInv
  <2>3. Init => Flags
    BY Zenon DEF Init, Flags
  <2>4. Init => Values
    BY DEF Init, Values
  <2> QED
    BY <2>1, <2>2, <2>3, <2>4, Types, Zenon DEF IInv
<1>2. TypeOK /\ IInv /\ [Next]_vars => (TypeOK /\ IInv)'
  <2> SUFFICES ASSUME TypeOK, IInv, [Next]_vars  PROVE (TypeOK /\ IInv)'
    OBVIOUS
  <2>1. Values /\ Flags
    BY Types, Zenon
  <2>2. Flags' /\ Values'
    BY <2>1, FlagsStep, ValuesStep, Zenon
  <2>3. TypeOK'
    BY <2>2, Zenon DEF TypeOK, Flags, Values
  <2>4. DeviceInv' /\ MeterInv' /\ HeardInv' /\ SampleInv'
    BY <2>1, DeviceStep, MeterStep, HeardStep, SampleStep, Zenon DEF IInv
  <2>5. OrderInv' /\ BookedInv'
    BY <2>1, OrderStep, BookedStep, Zenon DEF IInv
  <2> QED
    BY <2>3, <2>4, <2>5, Zenon DEF IInv
<1> QED
  BY <1>1, <1>2, PTL DEF Spec

(* The volume of a run is what the device had counted at the last sample   *)
(* since the reset, for every width of the counter and whatever became of  *)
(* START: apply_gen1_flow_frame, ht25.py 427-514, _begin_gen1_flow 516-537.*)
THEOREM VolumesAreTrue == Spec => []VolumeIsTrue
<1>1. IInv => VolumeIsTrue
  BY Zenon DEF IInv, MeterInv, HeardInv, VolumeIsTrue, Tells
<1> QED
  BY <1>1, Invariant, PTL

(* No water is booked twice, over restarts and lost STARTs, but for what   *)
(* the resets made the sensor show once more: sensor.py 474-508.           *)
THEOREM WaterIsBookedOnce == Spec => []BookedOnce
<1>1. TypeOK /\ IInv => BookedOnce
  <2> SUFFICES ASSUME TypeOK, IInv, ~blemish  PROVE booked <= poured + ticks + again
    BY Zenon DEF BookedOnce
  <2>1. Values
    BY Types, Zenon
  <2>2. /\ booked \in Nat /\ poured \in Nat /\ ticks \in Nat /\ again \in Nat
        /\ OrZero(heard) \in Nat /\ Increment \in Nat
    <3>1. Pending \in Nat /\ shown \in Nat
      BY <2>1, NativeType DEF Values, Pending
    <3>2. Increment \in Nat
      BY <3>1 DEF Increment
    <3> QED
      BY <2>1, <3>2 DEF Values, OrZero
  <2>3. booked + Increment <= poured + OrZero(heard) + again
    BY Zenon DEF IInv, BookedInv
  <2>4. OrZero(heard) <= ticks
    <3>1. heard # None => heard <= ticks
      BY Zenon DEF IInv, OrderInv
    <3>2. heard = None => OrZero(heard) = 0
      BY Zenon DEF OrZero
    <3>3. heard # None => OrZero(heard) = heard
      BY Zenon DEF OrZero
    <3> QED
      BY <2>2, <3>1, <3>2, <3>3
  <2> QED
    BY <2>2, <2>3, <2>4
<1> QED
  BY <1>1, Invariant, PTL

=============================================================================
