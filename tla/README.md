# Verification of orbit-bhyve-ble

TLA+ models, TLC runs and TLAPS proofs for the Home Assistant integration
`custom_components/orbit_bhyve`: irrigation timers that accept one BLE
session at a time, driven by asyncio coroutines over an encrypted GATT stream.
Source paths below are relative to that directory; line numbers are those of
the commit in `src/`.

The hard part of this program is not the protocol bytes. It is that one radio
session is shared by user commands, polls, flow-measuring renewals, timers, an
unlocked self-heal and an unlocked disconnect, over a link that loses frames,
and that a command is believed only if something read afterwards says so.

## The system

| Component | State | Operations | Talks to |
| --- | --- | --- | --- |
| BLE session, `connection.py` | `_client`, `_handshaken`, `_iv`, the two counters and the buffers of what is received, `_held`, `_hold_expiry`, `_idle_timer`, `_lock` | `ensure_connected`, `send`, `send_stream`, `send_actuation`, `disconnect`, `hold_open`, `release`, idle close, self-heal | bleak and `establish_connection`; every device class |
| Gen2/XD device, `devices/protobuf.py`, `ht25g2.py`, `ht34a.py` | `DeviceState` (watering, off timer, rain delay), `_status_parsed`, `consecutive_timeouts`, programs | start, stop, rain delay, controller mode, poll, flow read, program reads and writes | the session under `_api_lock` |
| Status decoder, `devices/status.py` | writes `DeviceState` | `apply_status_plaintext` on every notification | called from the session's notification callback |
| Wire format, `devices/protobuf.py`, `devices/status.py` | none | build and parse varints, fields, inner messages; split a stream | the two above |
| HT25 device, `devices/base.py`, `ht25.py`, `firmware.py` | `DeviceState`, `_flow_sub_task`, `flow_gen1_enabled` | start, stop, Sync, active poll, mesh frame decode, flow renewal task, unload | the session; the renewal task shares `_api_lock` |
| Coordinator, `coordinator.py` | poll interval, `expected_off_at`, `rain_delay_ends` | poll, wall-clock auto-close, next interval | `refresh_state` of a device; entities |
| Entry life cycle, `__init__.py`, `devices/__init__.py`, `devices/hub.py` | coordinators of the entry | setup, reload, unload, services | all of the above |
| Records, `merge.py`, `refresh.py`, `cloud.py`, `config_flow.py` | the entry's device list, the ids ever offered, the flow's snapshot | setup, reconfigure, reauth, refresh, merge | the vendor's cloud |
| Entities, `valve.py`, `switch.py`, `number.py`, `select.py`, `sensor.py`, `binary_sensor.py`, `button.py`, `diagnostics.py` | restored values, flow volume | service calls, presentation | devices through the coordinator |

How they interact. A service call or the coordinator's poll takes the device's
`_api_lock`, and inside it calls `send` / `send_actuation`, which take the
connection's own `_lock`. Notifications arrive in a callback without any lock
and decode straight into `DeviceState`, so a call finds out what its command
did by looking at the state after the drain of its write. Timers (idle, hold
backstop) and `hass.add_job(disconnect)` act on the same session between any
two awaits of a call.

What is hard, and where: unlocked `disconnect()` against opens
(`connection.py` 286-310, 155-191); keys that outlive a link (145); holds
against the idle timer (312-367); nested retries (147-191); confirmation by a
flag that was already set (`protobuf.py` 517-536); the recovery that writes a
rain delay to get an answer (337-367); a shown run that nothing ends
(`status.py` 487-511, `coordinator.py` 61-71); the renewal task against stop,
switch and unload (`ht25.py` 516-596). PROJECT.json lists each with its line
and the property that watches it.

What makes each component correct:

* session: a frame is encrypted with the key of the session it is written to;
  the device's only session is never lost track of; one open at a time; a hold
  keeps the idle timer away and always ends; every call returns; what is
  decrypted is what the device sent in this session, once and in order;
* protobuf device: True means that something read since the command says so; a
  poll that read nothing is not a success; the recovery does not undo what the
  user asked for; what is shown as watering ends;
* HT25 device: a renewal never writes beside a call; a stop, an end of run, the
  switch and the unload end the measuring and hand the session back; a volume
  that is shown is water that has flown, and none is booked twice, but for what a
  reset shows again;
* programs: a write never disables or blanks another program, frames lost or
  not;
* wire format: what is written is read back, and what is cut is not misread;
* records: no answer of the cloud loses a device or its key or brings an
  excluded one back, and what runs is what the list says.

## The modules

### BleConnection, BleSession (`connection.py`)

asyncio switches only at an `await`, so an action of `BleConnection` is the
code from one await to the next; `task[t].pc` names the await, `on` the client
of the GATT call awaited there. `_open` and `_handshake` are cut at every await
because each re-reads `self._client` when it resumes. `kind` is the entry point,
`att` the attempt counter, `then` what an awaited `disconnect()` returns to.
A `BleakClient` is a value of `Client`; the IV and counters are identified with
the client whose handshake made them, so "the key of another session" is
`iv # client`. The device accepts a connect only when no link is up.
`Calls` says which entry points the surroundings use: `send` (and `send_stream`)
and `send_actuation` take the lock; `ensure_connected`, `disconnect` and `heal`
(`_on_notify` scheduling a disconnect) do not; `cancel` is `task.cancel()` on a
caller, which the renewal task meets. An error is a nondeterministic branch at
every await that can raise.

`BleSession` is the abstract session its callers rely on: four Booleans and
seven steps. `BleConnection` implements it with
`open <- is_connected /\ ~BeingClosed`: a session counts as open until
`disconnect()` starts. `HT25Device` extends `BleSession` and is written against
it, so that what is proved of the connection carries over to its user.

### CtrStream, Delivery (`connection.py` 195-284, 376-494; `status.py` 162-174, 409-428)

The encrypted stream inside one session. `text` is what the device says, in
cells of four bytes, a message being a run of cells that starts with its header;
the device cuts the text into frames as it likes, each encrypted with the next
blocks of the key stream. The link loses a frame, repeats the last one, or
delivers an earlier one again; each of these but the repetition of the last is a
fault, and so is a disconnect that was scheduled in the session before. What is
decrypted is a sequence of places of the text, 0 for a cell decrypted with a
wrong block: such a cell is taken to be no header and to break the CRC. `_on_notify`
filters, decrypts, appends and may schedule a disconnect; `DrainEnds` is the
return of `send` or `send_stream`, the latter through `split_inner_messages`.
The length byte of a message is in its second cell, so when that cell is wrong
the scan may skip anywhere (nondeterminism in `split_inner_messages`). What is
not here: `_tx_ctr`, which a write that failed after `encrypt` leaves ahead (395)
until the session ends, and the mesh classes, which pass no reply header and
never self-heal.

`Delivery` is the promise to the two readers, the observer and `send_stream`:
what they get are messages of this session, in order and each once, any of them
missing. `CtrStream` implements it twice (`Heard`, `Streamed`).

### ProtobufDevice (`devices/protobuf.py`, `devices/status.py`, `coordinator.py` 61-91)

One call at a time (`_api_lock`), suspended at one `send()`: `call.stage` names
which, `call.ret` what `refresh_status` returns to. A `send` puts the message on
the link: it reaches the device or not, an answer is put in flight or not, and
the call goes on at the end of the drain whether or not the answer has been
decoded. `apply_status_plaintext` is an action of its own, since it runs in the
notification callback. The device is a valve with its own countdown, a rain
delay, and a possible #57 flow subscription left in its flash under which it
answers no query; a `mute` unit does not answer the passive #15. Time is ticks:
`off` is what is left until `expected_off_at`. `saw` is a history variable: the
run-states decoded since the command was sent. `env` is the environment the
behaviour is in, one of the constant's `Environments`; it never changes, so that
one run covers several surroundings.

### HT25Device (`devices/ht25.py`, `devices/base.py`, `switch.py`, `coordinator.py`)

Calls (start, stop, Sync) at their awaits, renewal tasks `loop[l]` with the
cycles they have left, the notification queue `inflight` (frames may be lost,
order is kept), the switch, the unload, the auto-close, the idle timer and the
hold backstop. `off` is abstracted to none / ahead / past by the grace. A
renewal task that `_gen1_renewal_loop` runs goes sleep, lock, send, drain; its
`finally` is `LoopEnds`. `overrun` is a history variable: a run was measured
over one that still was. `ShortFrames` says whether a STATUS frame can come
without its countdown.

### Gen1Flow (`devices/ht25.py` 270-343, 419-595, `sensor.py` 126-142, 474-508)

The meter of a run: the device counts ticks in a counter of `Wrap` values (65536
in the code) and samples it with the seconds since START; samples are lost,
garbled or kept back, the link drops and is renewed, and Home Assistant restarts.
`apply_gen1_flow_frame` anchors, carries a wrap, or re-anchors when a drop of the
counter implies more than `MaxRate` ticks a second. The sensor shows the live
volume, else the restored one, else 0, and `WriteState` books it the way a
`TOTAL_INCREASING` sensor is booked: a lower value is a meter that started again
from zero. It is a step of its own because `_notify_state_changed` only queues a
refresh (`coordinator.py` 55-59, `add_job`). Volumes are in ticks; a rate is none,
zero, some or negative. (Home Assistant also tolerates a dip of less than ten per
cent, which is left out.)

A start is three steps of `task`: START is written and drained (`start_watering`,
or `StartFails`); the volume is reset (`_begin_gen1_flow`, 524), whatever became
of START, since `_send_command` swallows a write timeout (335-341) and so does
`_write_locked` (`connection.py` 429), and no acknowledgement is looked at; the
subscription is sent (`Subscribed`, `SubscribeFails`). `DeviceStarts` is the
device's own step, at any time: it takes the START before the reset, so that a
pooled session with a live subscription can bring and show a sample that the
reset then wipes, or after it, or never, so that the old run goes on with its
volume reset; or it takes a START of the button, the hub or the app. `RunEnds` is
likewise apart from `stop_watering`.

History: `heard`, the true ticks of the last sample decoded since the reset;
`poured`, those of the runs before; `again`, what the resets made the sensor show
once more (what was heard of a run that goes on, and what was restored); `spoilt`
and `blemish`, that this run's, or some run's, samples do not tell its volume: one
was garbled or late from the run before, the counter went round more than once
between two, or the first of a run not measured from its start looks like a later
one of the run before.

### Programs (`devices/protobuf.py` 664-865, the schedule part of `status.py`)

The device keeps a body per slot, one mask that enables them, the controller
mode, and the slots it has armed (`armed`: it works a next start out when the
mask is written in automatic mode). A call of Home Assistant is the list of its
sends that are still to do (`call.todo`): `set_program` is read, store, read,
mask, auto, and for an enabled program store, mask, status again. An action is
one send with its drain, so a reply is decoded within its drain or is lost;
what arrives late is what `ProtobufDevice` is about. A read is a burst in the
order bodies, mask, status, cut where the first frame is lost (`S` are the
bodies that decode; the order of the slots in it is left open). `deaf` says that
the receive counter is out of step, after which nothing decodes in the session.
The vendor's app writes only while the session is down, the device having one.
`mask` is the mask the call computed from its first read, and `fresh` a history
variable: that read decoded the device's own mask, and the session has lasted
since. `Echoes` distinguishes hardware that sends a deleted slot as an empty
body from hardware that leaves it out (`protobuf.py` 692-701). A run in
progress, during which the poll reads no programs, is in `ProtobufDevice`.

### DeviceList (`merge.py`, `refresh.py`, `config_flow.py`, `__init__.py` 76-205)

`devices` is `entry.data[CONF_DEVICES]` by cloud id; a record keeps one sticky
field (`key`) and one that is not (`model`, the hardware). `discover` is the set
of what the cloud can answer: any of the devices, with any field of `Answers`
blank; a failed request is `FlowAborts`, or a refresh that does not happen. A
flow has a `stage` and the lists `_stored` and `_discovered` it holds while it
waits, for the cloud or for the user; `async_refresh_entry` reads the entry after
its await and is one action. `async_reload` is a place in the queue of the
entry's setup lock (`reloads`), then unload, setup with purge (up to the await of
the forward), and the forward, which adds the registry devices of the
coordinators made before it; the list may change between any two. Passwords are
not told apart: a re-entered one is another try of `Discovered`. One flow is
open at a time; the entry is not removed. `excluded` is a history variable. A
list without devices is refused by `async_setup_entry`, which is no action of
the model: an entry that got there would stay "unloaded" and `ChosenIsRun` would
fail. The listener for options never reloads here: `async_update_entry` finds
either a runtime, or an entry whose reload is under way (221-226).

`MC*` modules add symmetry sets and the model values of records; nothing else is
redefined for TLC.

### WireCodec (`devices/protobuf.py` 63-91, 226-249; `devices/status.py` 104-174, 340-349, 383-390, 409-428)

The bytes themselves, as recursive functions on sequences of bytes: varints,
fields, `pb_parse`, the start times of a program, `_build_message`,
`decode_inner` and `split_inner_messages`. Where the code moves an index through
`data`, a function takes what is left and yields what it read with the rest;
where the code returns None or raises, the result is the empty set. The CRC is
the code's, bit by bit, on a register that is the set of its ones. `CtrStream`
has the same splitter on cells, where a wrong block is a cell that breaks the
CRC; here it is on the bytes. What the device writes (`Packed`) is external.

`MCWireCodec` holds small cases as assumptions, which TLC evaluates before the
run `prog_lossy` since `MCPrograms` extends it: varints around each change of
length, a message cut at every byte, unknown wire types, runs of start times cut
and whole, the CRC against the published check value of the CRC that
`docs/protocol.md` names, two messages with noise before them, the second cut at
every byte. That the CRC rejects a message with any one byte wrong is checked
here for messages of up to 11 bytes and is not proved.

## The runs

| Run | Asks | Bounds |
| --- | --- | --- |
| `ble_locked` | type, key, orphan, single open, refinement, and that an abandoned hold goes down by backstop, idle timer and idle close, when every opener takes the lock and no caller is cancelled | 3 tasks, 3 clients, 2 attempts: one task opening, one queued, one timer's idle close; the attempts reach their limit |
| `ble_every_call_returns` | every call returns and gives the lock back, with cancellation, self-heal, disconnects and unlocked opens | 2 tasks, 2 attempts |
| `ble_orphan` (violation) | the unlocked self-heal forgets a session that a send opened | 3 tasks |
| `stream_lossy` | what is decoded is a delivery to both readers, whole replies are read whole, the counters stay in step, the self-heal has a reason | 6 cells of text in messages of 2 and 3, blocks of 2 cells, 2 faults a session |
| `pb_link` | phantom polls, the recovery against a delay command, delay confirmations are read, shown runs end; polls always read, stops close and the off timer is not early on a good link | two environments: loss of commands, answers and links with another commander, one duration, one delay; no loss but volunteered notices, durations 1 and 3 (apart by more than the guard), two delays |
| `pb_start_unread` (violation) | a start while watering is shown is confirmed unread | |
| `pb_noop_wipes` (violation) | the recovery write of a poll clears a delay | |
| `ht_runs` | type, radio, stops, timed runs, and everything of a run ends | 2 renewal tasks, 2 cycles, 1 frame in flight |
| `ht_unload` (violation) | a renewal task outlives the switch or the entry | as `ht_runs` |
| `flow_gen1` | the volume is true at its last sample, and what is booked has flown or was shown again by a reset | a counter of 3, rate 2, runs of 3 seconds, a new run at the device while 1 tick has flown at most (`MaxPoured`), resets that show at most 1 tick again (`MaxAgain`), 1 garbled sample, 1 restart |
| `prog_lossy` | what a write does to its own and to the other programs, what is shown and confirmed, and that what is shown is what is stored in the end | 2 slots, 1 body; any device to start with |
| `devices_merge` | exclusions, devices and keys survive any answer; what runs is the list; nothing chosen stays unapplied | 2 devices, whole records and records with either field blank, 2 reloads waiting |

Why the bounds are enough. Two concurrent openings need two tasks, and a
disconnect suspended across a completed open needs a third actor (the caller
whose session is lost); a fourth would only queue on `_lock`. Three clients: one
installed, one left over in an awaited operation, one whose key is still kept.
An object that nothing refers to can be used again, so the number of sessions is
not bounded. Of the renewals two matter, the one remembered in `_flow_sub_task`
and one it has replaced; two cycles make "skip and sleep again" and "last cycle"
differ. A frame waits while other things happen, which is what a late
acknowledgement needs; the proofs of the safety properties are for any number
of frames, tasks and cycles. Programs interact only through the mask and the
burst, so that a second slot is every other slot; a body is either there or
not. Devices of a list interact only through the refusal of an empty selection, so
that two are enough: one to keep and one to lose, add or exclude. A single in-flight status in `ProtobufDevice` keeps only the
latest, which is what matters to flags that each status overwrites; the drain
that ends before a decode gives the late answer. The retry limits (2 attempts,
2 recovery rounds) are the code's own. Messages of 2 and 3 cells over blocks of 2
make frames that end inside a block, inside a message and across two messages;
two faults can make one frame lost and another repeated, which is what could put
the counter back in step by accident. A counter of 3 at a rate of 2 wraps several
times in a run and can both drop by a wrap and go round unseen between samples.
`MaxPoured` = `MaxAgain` = 1 still have every order of START, reset, first sample
and refresh: a second run after one of no tick or one tick, and a reset amid a
run of which a tick was heard; the theorems are for any number of runs, resets and restarts.

What deliberately differs between environments. The lossy one of `pb_link` has
another commander and no unsolicited notices; the quiet one the other way round.
A #30 notice in progress shows a run without an off timer, and confirms a delay
that was only seeded; `ShownRunEnds` and `DelayNeedsEcho` exclude them (see the
divergences). `ble_locked` has no `cancel`: a caller cancelled in
`disconnect()` or in an open leaves the session up with no timer at all, so the
two BLE liveness properties do not hold in one environment.

Fairness. Every await of the connection is bounded (`asyncio.wait_for`, the
connect timeout, the retry sleep), and every error leaves through the same
`async with`, so the steps of a task are weakly fair. `asyncio.Lock` is FIFO,
hence strong fairness of `Acquire`, which can be disabled and enabled again.
A timer that is armed fires unless it is cancelled (weak fairness for the hold
backstop, which only ends by firing or by a release; strong for the idle timer,
whose cancellation by a hold is what the property excludes). The coordinator
polls for ever while an entry is loaded (`SF refresh_state`, since it queues
behind every other caller). In `HT25Device` deliveries, time and each task's
steps are weakly fair; the user's actions, the switch and the loss of the link
are not fair at all. In `Programs` the sends of a call go on (their drains are
bounded) and the poll is strongly fair, as above; `ShownInTheEnd` says what it
needs of the surroundings in its premise, a link that is good from some time on
and programs that stay as they are. In `DeviceList` only the set-up or reload
that Home Assistant has begun goes on (weak fairness); `ChosenIsRun` excludes an
unload that failed for good.

Each property has a mutant, a change of one mapped definition in the way the
code could plausibly be wrong (a dropped test of the hold, an error path that
keeps the lock, a read flag not reset, a task forgotten but not cancelled), and
TLC finds the property violated by it.

## What is proved

For every number of tasks, clients, attempts, renewal tasks, cycles, frames in
flight, and bytes, from the assumptions on the constants that each module names
`ConstantsAssumption` (and `NoneAssumption`).

Six properties are proved and need no run of their own: `HoldDisarmsIdleTimer`,
`OneRetryBudget`, `OneRenewal`, `NothingBlanked`, `FlagsAreReal`, `RegistryKept`.
So are the bounds (`CallsDescend`, `CallDescends`, `RenewalsDescend`) and the
ownership of the locks (`OwnerRuns`), which are stated in the proof modules.
They are what the liveness properties need besides fairness: a call or a renewal
cannot go round, and whoever has a lock is a call that runs, so that a lock comes
back once its owner is scheduled often enough.

`BleConnection_proofs`

* `TypeCorrect`. The types are not inductive: `attempt + 1` stays within the
  budget only because a retry is scheduled below the limit, so the invariant is
  `TypeOK /\ Budget`.
* `HoldIsSafe`: inductive by itself, since every action that sets the idle timer
  tests the hold and every action that clears the backstop clears the hold.
* `ImplementsSession`: `Spec => IsSession`, in every environment. Each action is
  a step of the abstract session or a stutter. The point of the argument is
  `BeingClosed`: `disconnect()` drops the hold and both timers before its first
  await and ends the link two awaits later, and it is one abstract `Closes`
  because from its first await on the session is being closed.
* `KeyIsOfSession` and `OpensAreExclusive`, where nobody opens without the lock
  and no caller is cancelled. The strengthening: whoever is inside is the lock's
  owner except a self-heal in its disconnect (`LockInv`); the handshake runs on
  the installed client or on one that was torn down (`OnInv`); a key of an
  earlier session survives only while the owner is between connecting and its
  handshake, or cleaning up for its next attempt (`StaleKeyInv`). The third is
  the heart of it: a link that drops by itself clears nothing.
* `BudgetIsNotMultiplied`: an action property from the type invariant.
* `OnlyLateDisconnectsForget`, for every mix of calls, without the lock,
  cancelled and self-healing ones included. `NoOrphan` is false of them (run
  `ble_orphan`, by a self-heal; every device's `finally` and the unload call
  `disconnect()` in the same way), so what is proved is how far it fails: a session that
  stays up is forgotten only in the last step of a `disconnect()` whose own link
  had already gone. The argument is `OneLink` (the device has one link at a time)
  and `WhoForgets` (an installed client changes only where a connection is
  established or a disconnect ends).
* `CallsAreBounded`, from the budget: `Rank` is a ladder of 8 awaits for each
  connect attempt that is left, above the awaits of the send and of the cleaning
  up, and each step of a running call takes it down, so that a call has at most
  `8 * OPEN_MAX_ATTEMPTS + 15` of them, whatever fails and whoever comes between.
* `LockComesBack`, in every environment: inductive with the types.

`CtrStream_proofs`

* `TypeCorrect`: what is decrypted names places of the text of this session.
* `CountersInStep`: each frame starts where the one before ended (`FrameInv`), so
  that advancing by the blocks of each frame once keeps the counter in step; the
  filter is what makes it once.
* `ObserverIsDelivery`: `Spec => Heard!Spec`. A frame that decrypts to anything
  was decrypted at its own counter; counters of frames rise strictly, and the
  receive counter never goes back, so a message is not applied twice
  (`HeardInv`), even after losses and late copies.
* `HealsAreMeant`, from `ClearInv`: with the counters in step the first frame
  after a clear starts with a header, unless a message was under way then.
* `SplitIsSound` and `SplitIsComplete`, about `split_inner_messages` on every
  stream: on places that rise it finds only messages with a header among them,
  each once and in order; on a stretch without a gap it finds every message that
  is whole in it. The split is a recursive function over the places, and each
  place looks only at later ones (`ScanLocal`), so that both, and that the
  function exists at all (`SplitIsScan`), go by induction from the last place
  down. `DownFrom` states that induction about the set of the places for which
  the claim holds, from the least element of a set of numbers.
* `StreamIsDelivery` (`Spec => Streamed!Spec`), from `PlacesInv` and
  `StreamedInv`: drained places were read, rise, and come after whatever was
  returned before. `ReadersAreDeliveries` puts the two readers together
  (`IsDelivery`).
* `RepliesAreWhole`, from `ReplyInv`: without a fault what is drained is the text
  right up to where the link is, and what lies before it was said before the
  request. `WholeInv` (every cell is of a message that was said whole) gives the
  header that the completeness of the split needs.

`Gen1Flow_proofs`

* `TypeCorrect`.
* `VolumesAreTrue`, from `HeardInv` and `SampleInv`: the anchor is the last sample
  of this run, so the carried wraps are those of the true count; a drop of the
  counter since then is a wrap because the device pours at most `MaxRate`. After
  a reset amid a run the next sample counts from zero again and is true by itself.
* `WaterIsBookedOnce`, from `BookedInv`: what is booked, with what the next
  refresh of the sensor would add, is at most the earlier runs, the last sample of
  this one and what was shown again, whichever of a new run, the reset, a restart
  and the refresh comes first. `OrderInv` is needed for it: samples of a run rise,
  over resets and restarts too, and until the first after a restart the sensor
  shows what it showed.

`ProtobufDevice_proofs`, in every environment, for all durations, delays, graces
and guards, with and without a flow subscription

* The kinds of steps are few: the call sends the next message (`GoesOn`), sends a
  command (`CommandKeeps`), asks for a status (`AskKeeps`) or returns
  (`FinishKeeps`); each has one lemma for the whole invariant, and each action
  is shown to be of one kind. What a send can do to the device and to what is in
  flight is said once, in `Wrote`.
* `TypeCorrect`; a status is never the "nothing in flight" (`NoneAssumption`).
* `PollsAreReal`, from `FlowInv`: `_status_parsed` is reset when the read starts,
  so once it is set again this call has decoded something, and a poll goes past
  its read only then.
* `PollsAlwaysRead`, from `RecoverInv`: when nothing is lost, the recovery has
  subscribed in its own session, so that its unsubscribe takes, and the echo of
  the delay it writes is in flight or decoded.
* `DelaysAreEchoed` and `CommandsAreSpared`, from `DelayInv`: until a status is
  decoded the known delay is the commanded one, which is what the recovery
  writes; afterwards it is the one a status of this call named.
* `StopsClose`, from `StopInv`, which rests on `RecoverInv` too: every stop reads.
* `OffTimerIsNotEarly`, from `OffInv`: a status in flight is never behind the
  valve, and the guard only ever leaves a timer that is later.
* `CallsAreBounded`: a call never goes back. Its second attempt, its recovery and
  its second flow session are taken once each, and `DrainsLeft`, the place in the
  round and the rounds that are left, falls with every step.

`HT25Device_proofs`

* `TypeCorrect`, with the strengthening that a sleeping task has a cycle left
  (otherwise the countdown leaves its set) and that only frames the device can
  send are in flight.
* `ExchangesAreExclusive` (`RadioIsExclusive`), restarts included, from
  `LockInv`: a renewal that sends or drains owns `_api_lock`, a running call owns
  it as "call", and a call suspended in its subscription is a start.
* `OneRenewalTask` and `StopsEndMeasuring`, until a run is measured over one
  that still is (`overrun`), from `TaskInv`: while a start runs no task is
  alive, and a live task is the one in `_flow_sub_task`, so cancelling that one
  kills all. The exception is needed: a second start overwrites
  `_flow_sub_task` (534).
* `ShownRunIsTimed`, where no STATUS frame is short (base.py 456).
* `RenewalsAreBounded`: a cycle is counted once its sleep starts
  (`LoopStepsLeft`), and a lock that does not come in time, a failed renewal and
  a cancellation all leave fewer steps than before.
* `LockComesBack`: whatever ends inside the exchange gives `_api_lock` back.

`Programs_proofs`

* `TypeCorrect`, whose strengthening is that a call that writes a slot has a
  read at the head of its list until its mask is known (`ReadsFirst`).
* `OthersAreSpared`, from `MaskIsDevices`: while the session of a read lasts, the
  mask of the call is the device's but for the call's own slot, since the app
  cannot come between and the call's own writes keep it. What happens when the
  first read was not whole is among the divergences.
* `SchedulesAreKept` and `ShownFlagsAreReal`, about every cut of a burst; only a
  read changes what is shown.
* `ConfirmedByItsSlot`: a `set_program` of an enabled program ends with a status
  (`EndsWithStatus`), or with the recovery of one.
* `CallsFollowPlans`: the list that `call.todo` starts with is given by the call
  alone (`Plan`), what is left is always an end of it (`OnPlan`), and how much of
  it is done (`Done`) says what the device and the call must be by now
  (`SetSoFar`, `DeletedSoFar`, `ToggledSoFar`): after the store the slot holds
  the body, after the mask its bit is the commanded one, and a slot is armed only
  by a store and a mask that come after automatic mode. The plan is what the code
  comments call the order that "takes".
* `CommandsAreDone` (`DoneAsCommanded`): a call returns only at the end of its
  plan, where these facts are what was commanded. That nothing is lost is used
  once, in `GoodLinkHears`; a session is deaf only on a link that loses
  (`DeafIsLossy`).
* `CallsAreBounded`: each step of a call leaves less of its list (`StepsLeft`); a
  status that was missed is asked for again once, by its recovery.
* `TogglesAgree` (`ToggleNotContradicted`), on every link, from `ToggleIsShown`: a
  toggle is confirmed only against the flag shown after its read-back, and
  nothing else of the call changes what is shown.

`DeviceList_proofs`

* `TypeCorrect`: a merge of records is a record, for every selection.
* `ExclusionsHold`, from `ExcludedAreKnown`: whatever was unticked is among the
  known ids, so that the default selection of a refresh leaves it out; a list
  alone would not say so.
* `ListIsApplied`, from `SetUpIsCurrent`: a set-up under way works on the current
  list or another reload waits.
* `OnlyUsersShrinkIt`, `KeysAreSticky`, from what the two writers of the list do
  to it (`RefreshWrites`, `PickerWrites`): no refresh drops a device or blanks a
  key, with or without a flow open; the exception is the step that submits a
  picker (`Picked`), of what its snapshot lacks. And `ConfiguredStayRegistered`.

`WireCodec_proofs`, for numbers and data of any size

* `VarintRoundTrip`, `MessageRoundTrip`, `PackedRoundTrip`,
  `StartTimesRoundTrip`, `InnerRoundTrip`: what a builder writes the parser reads
  back, whatever follows it in the data. `MessageRoundTrip` is about every list
  of fields, so about every body that `_build_program_pb` can make, and
  `StartTimesRoundTrip` about the two forms that start times have on the wire.
* `ParseJoins`: what was parsed from data comes first in what is parsed from any
  continuation of it. `ReadExtends` (a varint that was whole is read the same)
  and the case lemmas (`ReadCases`, `SizeCases`, `ValueCases`, `FieldCases`: at
  most one result, with less left than there was, and the same when more follows)
  carry it from numbers to values to fields to lists.
* `SplitJoins` and `SplitWaits`: messages back to back are split where they were
  joined, and of a message that is cut, anywhere, nothing is taken; together, a
  burst gives its messages up to the cut. `MessageParts` and `Middle` say where
  the parts of a message lie.
* How it is proved. A recursive function is to the provers a CHOOSE, of which
  nothing is known until a function with the equation is shown to exist
  (`RecursionExists`: a definition whose uses of itself decrease a measure is
  followed by a function, built up to each bound of the measure in turn).
  `VarintDef`, `ReadDef`, `ParseDef`, `SplitDef` and the others apply it, with the
  length of the data as the measure, so they are also the proof that the code's
  loops end on any bytes. `MeasureInduction` is the induction itself, about the
  set of the values for which a claim holds; no theorem with an operator
  parameter is used.

Model-checked only: the liveness properties (`CallsReturn`,
`AbandonedHoldCloses`, `ShownRunEnds`, `MeasuringEnds`, `ShownInTheEnd`,
`ChosenIsRun`), since TLAPS does not handle fairness here; their safety halves
are the bounds and the ownership above. Every other property of the runs is a
theorem. Of the bytes, what the CRC detects is checked on short messages only.

## Where the code and its comments differ

Four are runs (PROJECT.json, findings):

* `ble_orphan`: `disconnect()` re-reads `_client` after each await.
* `pb_start_unread`: a start while watering is shown is confirmed by the old flag.
* `pb_noop_wipes`: a status of a running device makes the state forget the rain
  delay, and the recovery's "no-op" write then clears it.
* `ht_unload`: the renewal task is created after an await without looking at the
  switch or the entry again.

Others were met while modelling and are kept in the models as the code has them:

* `_idle_close` queued before a hold closes the held session (`connection.py`
  369); a hold survives a dropped link into the next session (155); an error of
  `encrypt()` in the post-handshake hook leaves `_open` uncaught (184); a
  cancelled open or disconnect can leave a session up with no idle timer.
* A #30 notice in progress shows watering with no off timer (`status.py` 310),
  against `coordinator.py` 66-68; `set_rain_delay` is confirmed by an echo of the
  delay that stood before (`protobuf.py` 617), never during a run; a stop while
  idle is shown is confirmed with nothing read (564).
* `_begin_gen1_flow`: a typed connection error escapes it and the start with it,
  although the run has begun (`ht25.py` 528 against 519-522); a short STATUS frame
  shows watering without an off timer (`base.py` 456); a renewal on a session
  that is no longer held, failing or cancelled, leaves it open without an idle
  timer; Sync during a run drops the hold.
* The self-heal also fires in a session that is in step: a continuation that
  arrives after the drain of its reply, or across the clear of the next send, is
  the first frame of the buffer (`torn` in `HealIsMeant`), against "a bad header
  there is a real CTR desync" (`connection.py` 261).
* With notices, a #30 sets `_status_parsed` (`status.py` 310, 487-490), so that a
  rain delay is confirmed by the value that was seeded, against "Gate confirmed
  on a real #16 decoding this cycle" (`protobuf.py` 615-617).
* `_begin_gen1_flow` resets the volume without knowing whether the device took
  START (`ht25.py` 524 after 287-288; the timeouts are swallowed at 335-341 and
  `connection.py` 429). Where a START over a measured run is lost, the sensor goes
  C, 0, C' and the statistics book C + C' of a run of C'; a sample of the new run
  that a pooled session brings during START's drain is shown and wiped in the same
  way. After a restart the restored volume is shown again whenever a volume is
  reset and has had no sample yet (`sensor.py` 500), and booked once more each
  time. Both against "HA's statistics book the deltas cleanly" (`sensor.py`
  481-482); `BookedOnce` counts exactly these in `again` and shows that nothing
  else is booked twice.
* A flow sample whose seconds went back is anchored to but still rated, over a
  negative time, and one with the same seconds divides by zero and loses the
  sample (`ht25.py` 475-507; the exception is swallowed at `connection.py` 281),
  against "Anchor here instead" (478). A garbled sample re-anchored at the low
  wrap count, or a restart after a wrap, loses the laps; the rate stays at its
  last value when the link drops or the zero sample is lost. START refuses more
  than 65535 s (`ht25.py` 159), the services allow 1440 minutes.
* A refresh whose open raises a typed error is not recorded as unreachable
  (`ht25.py` 383 catches `BleakError`, timeouts and `OSError` only).
* `set_program` discards the mask its second read decodes (`protobuf.py` 748):
  when the first burst lost its bodies or mask and nothing was known before, it
  disables what the second shows enabled, against "Other slots unchanged" (755).
  `SparesOthers` asks for a whole first read.
* A burst that lost a body drops that slot from what is shown, and the next
  rebuilt mask disables it (`protobuf.py` 691, 729), against `get_programs`
  "never returns empty or de-enabled"; `delete_program` returns True when its
  read-back was lost (809); an enable is confirmed by the next start of an
  earlier status when none is decoded (777), and a mode likewise (863); a
  disable of a program that is not shown is confirmed unread (844); a write
  after a session that broke overwrites what the app did meanwhile.
* A reconfigure picker writes the list from its snapshot
  (`config_flow.py` 197, 260): a device that a refresh added while it was open
  and that its own discovery lacked is dropped and counts as excluded from then
  on, though no user unticked it (`__init__.py` 169: "only shrinks from an
  explicit user action"), a key found meanwhile is blanked, and an older password
  is written back (258).
* `hardware` is not sticky (`merge.py` 25-33): an answer without
  `hardware_version` stores "unknown", the next set-up finds the model
  unsupported, and the device does not run until a whole answer comes, against
  "a degraded cloud response never destroys a working device record"
  (`merge.py` 8). Its registry device stays (`RegistryKept`).
* `_build_message` has one byte for the length and raises for a protobuf of more
  than 253 bytes, against the two bytes of `docs/protocol.md` 141; the example
  inner frame of `services.yaml` 206 has a length without the CRC and a wrong CRC
  (`ExampleIsNoMessage`).
* `refresh_devices` without a target stops at the first entry that fails
  (`__init__.py` 356); the others are not refreshed.

## Plan

1. BleConnection, BleSession, their proofs: done.
2. ProtobufDevice: done, with proofs of all its safety properties.
3. HT25Device and its safety proofs: done; connectivity counters and battery to
   come.
4. CtrStream, Delivery and their proofs: done, for both readers.
5. Programs: done, with proofs of all its safety properties.
6. DeviceList and its proofs: done; the options listener and a second flow to
   come.
7. Gen1Flow and its proofs: done.
8. WireCodec and its proofs: done; the battery gauge and the choice of the poll
   interval to come.

A new question joins an existing run where one state space answers both, as the
liveness properties of `ble_locked` and `ht_runs` do.

## Not modelled

The cloud's HTTP calls, AES (taken as exact), the fields of a status or a
program beyond the start times (single reads of what is modelled), signed
fields, the HT25's frame encodings, the entities' presentation, diagnostics, and
which station of a device waters.
`send_raw` has no caller and is left out. The BLE stack and the device itself
are external: they are modelled from how the code in `src/` uses them, with the
outcomes its comments and error handling name.
