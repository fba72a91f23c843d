------------------------------ MODULE Gen1Flow ------------------------------
(***************************************************************************)
(* The volume that an HT25 reports of a run, devices/ht25.py 419-514, with *)
(* the sensor that shows it (sensor.py 126-142, 474-508) and the           *)
(* statistics that Home Assistant keeps of a TOTAL_INCREASING sensor.      *)
(*                                                                         *)
(* The device counts ticks from the start of a run in a counter that wraps *)
(* and sends samples of it with the seconds it has run.  Samples can be    *)
(* lost, garbled or kept back; the link drops and comes back; START and    *)
(* STOP are written and drained, and the device takes them then, later, or *)
(* never; a run can be started without being measured; Home Assistant      *)
(* restarts.  Volumes are in ticks (the calibration and the rounding are   *)
(* left out), a rate is none, zero, some or negative.  How long the        *)
(* session is held, and when measuring ends, is in HT25Device.             *)
(***************************************************************************)
EXTENDS Integers

CONSTANTS
  None,
  NoSample,      \* no sample, no anchor
  Wrap,          \* 65536
  MaxRate,       \* GEN1_MAX_TICKS_PER_SEC, and what the hardware can do
  MaxElapsed,    \* bound: seconds of a run
  MaxPoured,     \* bound: ticks of all earlier runs
  MaxAgain,      \* bound: a volume is reset while again stays within this
  MaxBooked      \* bound: the statistics are updated up to here

ASSUME ConstantsAssumption ==
  /\ Wrap \in Nat \ {0} /\ MaxRate \in Nat /\ MaxRate < Wrap
  /\ MaxElapsed \in Nat /\ MaxPoured \in Nat /\ MaxBooked \in Nat
  /\ MaxAgain \in Nat
  /\ None \notin Int

VARIABLES
  running,     \* the valve is open
  elapsed,     \* seconds since START, at the device
  ticks,       \* ticks since START, not wrapped
  due,         \* the device has not sampled this second yet
  inflight,    \* the sample on its way, or NoSample
  up,          \* there is a session with a subscription
  task,        \* measuring: off, START or the subscription is sent, renewed
  anchor,      \* _gen1_last_elapsed, _last_cum and _last_total, or NoSample
  wraps,       \* _gen1_wraps
  water,       \* state.water_used_gen1_l
  rate,        \* state.flow_lpm_gen1
  restored,    \* _restored_value of the sensor
  shown,       \* the state of the sensor as last written
  booked,      \* the sum of the statistics
  heard,       \* history: ticks of this run's last sample, None before one
               \* and when the volume was reset since
  poured,      \* history: ticks of the earlier runs
  spoilt,      \* history: this run's samples do not tell its volume
  blemish,     \* history: some run's did not
  again        \* history: ticks a reset has made the sensor show once more

device  == <<running, elapsed, ticks, due>>
meter   == <<anchor, wraps, water, rate>>
sensor  == <<restored, shown, booked>>
history == <<heard, poured, spoilt, blemish, again>>
vars    == <<device, inflight, up, task, meter, sensor, history>>

Samples == [elapsed : Nat, cum : 0 .. Wrap - 1, ticks : Nat]
Anchors == [elapsed : Nat, cum : 0 .. Wrap - 1, total : Nat]

ASSUME NoSampleAssumption == NoSample \notin Samples \cup Anchors

(* The variables take values of these sets.                                *)
TypeOK ==
  /\ running \in BOOLEAN /\ due \in BOOLEAN /\ up \in BOOLEAN
  /\ elapsed \in Nat /\ ticks \in Nat
  /\ inflight \in Samples \cup {NoSample}
  /\ anchor \in Anchors \cup {NoSample} /\ wraps \in Nat
  /\ water \in Nat \cup {None}
  /\ rate \in {"none", "zero", "some", "negative"}
  /\ restored \in Nat \cup {None} /\ shown \in Nat /\ booked \in Nat
  /\ heard \in Nat \cup {None} /\ poured \in Nat
  /\ spoilt \in BOOLEAN /\ blemish \in BOOLEAN /\ again \in Nat
  /\ task \in {"off", "start", "subscribe", "renew"}

Init ==
  /\ running = FALSE /\ elapsed = 0 /\ ticks = 0 /\ due = FALSE
  /\ inflight = NoSample /\ up = FALSE
  /\ anchor = NoSample /\ wraps = 0 /\ water = None /\ rate = "none"
  /\ restored = None /\ shown = 0 /\ booked = 0
  /\ heard = None /\ poured = 0 /\ spoilt = FALSE /\ blemish = FALSE
  /\ again = 0 /\ task = "off"

-----------------------------------------------------------------------------
(* The calls. *)

OrZero(v) == IF v = None THEN 0 ELSE v

(* Mutant: the wraps are reset to None, like the rest.                     *)
ResetWrapsToo ==
  /\ anchor' = NoSample /\ wraps' = None /\ water' = None /\ rate' = "none"

reset_gen1_flow ==
  /\ anchor' = NoSample /\ wraps' = 0 /\ water' = None /\ rate' = "none"

Disconnect == up' = FALSE /\ inflight' = NoSample

(* start_watering with measuring on, up to START's drain.  The session is  *)
(* the pooled one, where an earlier subscription may live, or a new one.   *)
(* Whether the device starts (DeviceStarts) is not told: _send_command     *)
(* swallows the timeout of a write, and nothing looks at an ack.           *)
start_watering ==
  /\ task \in {"off", "renew"} /\ task' = "start"
  /\ UNCHANGED <<device, inflight, up, meter, sensor, history>>

(* START raised: the finally disconnects a session that is not held, and   *)
(* an earlier renewal task may still run.                                  *)
StartFails ==
  /\ task = "start" /\ task' \in {"off", "renew"}
  /\ Disconnect \/ UNCHANGED <<up, inflight>>
  /\ UNCHANGED <<device, meter, sensor, history>>

(* Otherwise the volume is reset, whatever the device did with START.  The *)
(* history: what a run that goes on had shown will be shown once more, and *)
(* so will what was restored; but the meter no longer knows of a sample    *)
(* that misled it.                                                         *)
_begin_gen1_flow ==
  /\ task = "start" /\ task' = "subscribe"
  /\ reset_gen1_flow
  /\ IF water = None THEN UNCHANGED <<heard, again>>
     ELSE heard' = None /\ again' = again + OrZero(heard) + OrZero(restored)
  /\ again' <= MaxAgain
  /\ spoilt' = (spoilt /\ inflight # NoSample)
  /\ UNCHANGED <<device, inflight, up, sensor, poured, blemish>>

(* Its send of the subscription went through, or raised: what it catches   *)
(* ends the measuring and the session, what it does not leaves a session   *)
(* held and an earlier renewal task running.                               *)
Subscribed ==
  /\ task = "subscribe" /\ task' = "renew"
  /\ up' = TRUE
  /\ UNCHANGED <<device, inflight, meter, sensor, history>>

SubscribeFails ==
  /\ task = "subscribe" /\ task' \in {"off", "renew"}
  /\ Disconnect \/ UNCHANGED <<up, inflight>>
  /\ UNCHANGED <<device, meter, sensor, history>>

(* stop_watering from STOP's drain on; the device may have taken STOP      *)
(* (RunEnds) or not.  The rate is zeroed at once.  Of two renewal tasks,   *)
(* after a second start, the first goes on.                                *)
stop_watering ==
  /\ task \in {"off", "renew"} /\ task' \in {"off", task}
  /\ rate' = "zero"
  /\ Disconnect
  /\ UNCHANGED <<device, anchor, wraps, water, sensor, history>>

(* Measuring ends otherwise: the run-end frame, the auto-close, the switch,*)
(* the unload, or the end of the renewal task itself.                      *)
_end_gen1_flow ==
  /\ task = "renew" /\ task' = "off"
  /\ UNCHANGED <<device, inflight, up, meter, sensor, history>>

(* A renewal opens a session where there is none and subscribes again.     *)
_gen1_renewal_loop ==
  /\ task = "renew" /\ ~up
  /\ up' = TRUE
  /\ UNCHANGED <<device, inflight, task, meter, sensor, history>>

-----------------------------------------------------------------------------
(* The samples. *)

(* A sample moves the anchor, w wraps so far; dt is the time it is rated   *)
(* over, None when it is not rated.                                        *)
Anchored(s, w, dt) ==
  LET total == w * Wrap + s.cum
      rated == dt # None /\ total >= anchor.total
  IN /\ wraps' = w
     /\ IF rated /\ dt = 0                     \* the division raises
        THEN UNCHANGED <<anchor, water, rate>>
        ELSE /\ water' = total
             /\ anchor' = [elapsed |-> s.elapsed, cum |-> s.cum, total |-> total]
             /\ rate' = IF ~rated THEN rate
                        ELSE IF total = anchor.total THEN "zero"
                        ELSE IF dt > 0 THEN "some" ELSE "negative"

(* Mutants: a wrap is not carried; a drop of the counter always is.        *)
FrameCarriesNothing(s) ==
  IF s.elapsed = 0 THEN UNCHANGED meter ELSE Anchored(s, 0, None)

FrameTrustsDrops(s) ==
  IF s.elapsed = 0 THEN UNCHANGED meter
  ELSE IF anchor # NoSample /\ s.cum < anchor.cum THEN Anchored(s, wraps + 1, None)
  ELSE Anchored(s, wraps, None)

apply_gen1_flow_frame(s) ==
  LET dt      == IF anchor = NoSample THEN None ELSE s.elapsed - anchor.elapsed
      later   == dt # None /\ dt > 0
      drop    == later /\ s.cum < anchor.cum
      implied == Wrap - anchor.cum + s.cum
  IN \/ /\ s.elapsed = 0
        /\ rate' = IF rate = "none" THEN "none" ELSE "zero"
        /\ UNCHANGED <<anchor, wraps, water>>
     \/ s.elapsed # 0 /\ ~later /\ Anchored(s, 0, dt)
     \/ s.elapsed # 0 /\ drop /\ implied > MaxRate * dt /\ Anchored(s, 0, None)
     \/ s.elapsed # 0 /\ drop /\ implied <= MaxRate * dt /\ Anchored(s, wraps + 1, dt)
     \/ s.elapsed # 0 /\ later /\ ~drop /\ Anchored(s, wraps, dt)

(* A sample cannot tell the volume when the counter has gone round since   *)
(* the one before, or since the start of the run when the meter has none   *)
(* of it, or when it is the first of a run that was not measured from its  *)
(* start and looks like a later one of the run before.                     *)
Misleads(s) ==
  \/ s.ticks - (IF anchor = NoSample THEN 0 ELSE OrZero(heard)) >= Wrap
  \/ heard = None /\ anchor # NoSample /\ s.elapsed >= anchor.elapsed

(* _observe_plaintext: a sample is decoded.                                *)
_observe_plaintext ==
  /\ up /\ inflight # NoSample
  /\ inflight' = NoSample
  /\ apply_gen1_flow_frame(inflight)
  /\ IF inflight.elapsed = 0 THEN UNCHANGED <<heard, spoilt, blemish>>
     ELSE /\ heard' = inflight.ticks
          /\ spoilt' = (spoilt \/ Misleads(inflight))
          /\ blemish' = (blemish \/ Misleads(inflight))
  /\ UNCHANGED <<device, up, task, sensor, poured, again>>

-----------------------------------------------------------------------------
(* The device and the link. *)

(* The device starts over: it takes a START that start_watering has        *)
(* written, measured or not, early or late, or one of the button, the hub  *)
(* or the app.  A sample still on its way is of the run before.            *)
DeviceStarts ==
  /\ poured + ticks <= MaxPoured
  /\ running' = TRUE /\ elapsed' = 0 /\ ticks' = 0 /\ due' = FALSE
  /\ heard' = None /\ poured' = poured + ticks
  /\ spoilt' = (inflight # NoSample)
  /\ blemish' = (blemish \/ inflight # NoSample)
  /\ UNCHANGED <<inflight, up, task, meter, sensor, again>>

Pours(n) ==
  /\ running /\ elapsed < MaxElapsed
  /\ elapsed' = elapsed + 1 /\ ticks' = ticks + n /\ due' = TRUE
  /\ UNCHANGED <<running, inflight, up, task, meter, sensor, history>>

(* By its timer, by a STOP it takes, or by the button.                     *)
RunEnds ==
  /\ running
  /\ running' = FALSE /\ elapsed' = 0 /\ due' = TRUE
  /\ UNCHANGED <<ticks, inflight, up, task, meter, sensor, history>>

(* After a run every field is zero.                                        *)
SendsSample ==
  /\ up /\ due /\ inflight = NoSample
  /\ due' = FALSE
  /\ inflight' = IF elapsed = 0 THEN [elapsed |-> 0, cum |-> 0, ticks |-> 0]
                 ELSE [elapsed |-> elapsed, cum |-> ticks % Wrap, ticks |-> ticks]
  /\ UNCHANGED <<running, elapsed, ticks, up, task, meter, sensor, history>>

Loses ==
  /\ inflight # NoSample
  /\ inflight' = NoSample
  /\ UNCHANGED <<device, up, task, meter, sensor, history>>

(* A frame decodes to nonsense and passes for a sample.  Bounded to one.   *)
Garbles ==
  /\ inflight # NoSample /\ ~blemish
  /\ \E e \in 0 .. MaxElapsed, c \in 0 .. Wrap - 1 :
       inflight' = [elapsed |-> e, cum |-> c, ticks |-> inflight.ticks]
  /\ spoilt' = TRUE /\ blemish' = TRUE
  /\ UNCHANGED <<device, up, task, meter, sensor, heard, poured, again>>

(* The link is lost, or another call or the idle timer closes the session. *)
LinkDrops ==
  /\ up
  /\ Disconnect
  /\ UNCHANGED <<device, task, meter, sensor, history>>

-----------------------------------------------------------------------------
(* Home Assistant. *)

(* Mutant: what the sensor showed before a restart is not fallen back on.  *)
NativeForgets == IF water # None THEN water ELSE 0

native_value ==
  IF water # None THEN water
  ELSE IF restored # None THEN restored
  ELSE 0

(* A refresh writes the state of the sensor, and the statistics book it: a *)
(* value lower than the last is a meter that has started again from zero.  *)
WriteState ==
  /\ native_value # shown /\ booked <= MaxBooked
  /\ shown' = native_value
  /\ booked' = booked + (IF native_value < shown THEN native_value
                         ELSE native_value - shown)
  /\ UNCHANGED <<device, inflight, up, task, meter, restored, history>>

(* The integration is set up again with what the sensor last showed; the   *)
(* meter of a run that goes on begins again.  Bounded to one.              *)
Restarts ==
  /\ restored = None
  /\ restored' = shown
  /\ reset_gen1_flow
  /\ Disconnect
  /\ task' = "off"
  /\ UNCHANGED <<device, shown, booked, history>>

Next ==
  \/ start_watering
  \/ StartFails
  \/ _begin_gen1_flow
  \/ Subscribed
  \/ SubscribeFails
  \/ stop_watering
  \/ _end_gen1_flow
  \/ _gen1_renewal_loop
  \/ _observe_plaintext
  \/ DeviceStarts
  \/ \E n \in 0 .. MaxRate : Pours(n)
  \/ RunEnds
  \/ SendsSample
  \/ Loses
  \/ Garbles
  \/ LinkDrops
  \/ WriteState
  \/ Restarts

Spec == Init /\ [][Next]_vars

-----------------------------------------------------------------------------
(* Properties. *)

(* The volume of a run is what the device had counted at the last sample   *)
(* that was decoded since the reset, however often its counter has gone    *)
(* round, whatever was lost between, and whether START was taken before    *)
(* the reset, after it or not at all.                                      *)
VolumeIsTrue ==
  ~spoilt /\ heard # None /\ water # None => water = heard /\ heard <= ticks

(* As long as every sample told its volume, the statistics never book more *)
(* water than has flown, over any number of runs and over a restart amid   *)
(* one, but for what the resets made the sensor show once more: a volume   *)
(* already heard of the run that goes on, and what was restored.           *)
BookedOnce == ~blemish => booked <= poured + ticks + again

=============================================================================
