------------------------------- MODULE Programs -------------------------------
(***************************************************************************)
(* devices/protobuf.py, the watering programs and the controller mode: the *)
(* bodies stored in the device's slots and the one mask that enables them, *)
(* which Home Assistant can only write as a whole.  A write therefore      *)
(* starts from a read, a burst of many frames over a link that loses them: *)
(* what comes after a lost frame cannot be decrypted in this session.      *)
(*                                                                         *)
(* One call runs at a time (_api_lock), and it is the list of its sends    *)
(* that are still to do; an action is one send with its drain.  The device *)
(* has one session, so that the vendor's app reaches it only while the     *)
(* call's session is down.  The runs themselves are in ProtobufDevice.     *)
(***************************************************************************)
EXTENDS Naturals, Sequences

CONSTANTS
  Slot,        \* the program slots A, B, ...
  Body,        \* program bodies, told apart
  None,
  Losses,      \* frames, writes and links are lost
  OthersAct,   \* the vendor's app writes programs too
  Echoes       \* a deleted slot is sent as an empty body, not left out

ASSUME ConstantsAssumption ==
  /\ Slot \subseteq Nat \ {0}
  /\ None \notin Slot \cup Body /\ \A m \in SUBSET Slot : m # None
  /\ {Losses, OthersAct, Echoes} \subseteq BOOLEAN

VARIABLES
  dev,               \* the device, see Devices
  up, deaf,          \* the session; its receive counter is out of step
  lossy,             \* the link loses what it carries
  programs,          \* state.programs
  next_start_flags,  \* state.next_start_flags
  controller_mode,   \* state.controller_mode
  call               \* the running call, see Calls

link  == <<up, deaf, lossy>>
state == <<programs, next_start_flags, controller_mode>>
vars  == <<dev, link, state, call>>

(* armed: the slots whose next start the device has worked out, which it   *)
(* does when the mask is written in automatic mode.                        *)
Devices == [body: [Slot -> Body \cup {None}], on: SUBSET Slot,
            auto: BOOLEAN, armed: SUBSET Slot]

Flag == {"on", "off", "unknown"}
ProgramSummary == [body: Body \cup {None}, enabled: Flag]
FlagOf(b) == IF b THEN "on" ELSE "off"

Ops   == {"none", "get", "set", "delete", "toggle", "mode", "poll"}
Sends == {"read", "store", "clear", "mask", "auto", "mode", "status", "recover"}

(* todo: the sends left; on: spec.enabled, or the commanded flag or mode;  *)
(* mask: the mask to write, once it is known; ok: stored_ok, or what the   *)
(* call is to return; fresh (history): its read decoded the mask and the   *)
(* session has lasted since.                                               *)
Calls == [op: Ops, slot: Slot \cup {None}, body: Body \cup {None}, on: BOOLEAN,
          todo: Seq(Sends), mask: (SUBSET Slot) \cup {None}, ok: BOOLEAN,
          fresh: BOOLEAN]

NoCall == [op |-> "none", slot |-> None, body |-> None, on |-> FALSE,
           todo |-> <<>>, mask |-> None, ok |-> FALSE,
           fresh |-> FALSE]

(* The variables take values of these sets.                                *)
TypeOK ==
  /\ dev \in Devices
  /\ {up, deaf, lossy} \subseteq BOOLEAN
  /\ DOMAIN programs \subseteq Slot
  /\ \A s \in DOMAIN programs : programs[s] \in ProgramSummary
  /\ next_start_flags \subseteq Slot
  /\ controller_mode \in Flag
  /\ call \in Calls

NoPrograms == [s \in {} |-> None]

(* Home Assistant starts against a device that is in use.                  *)
Init ==
  /\ \E b \in [Slot -> Body \cup {None}], o \in SUBSET Slot :
       dev = [body |-> b, on |-> o, auto |-> TRUE, armed |-> {}]
  /\ up = FALSE /\ deaf = FALSE /\ lossy = Losses
  /\ programs = NoPrograms
  /\ next_start_flags = {} /\ controller_mode = "unknown"
  /\ call = NoCall

-----------------------------------------------------------------------------
(* The device. *)

Stored(d) == {s \in Slot : d.body[s] # None}
Sent(d)   == IF Echoes THEN Slot ELSE Stored(d)

Masked(d, m) ==
  [d EXCEPT !.on = m, !.armed = IF d.auto THEN m \cap Stored(d) ELSE @ \cap m]

(* What a delivered write makes of the device.                             *)
Effect(d, msg) ==
  CASE msg = "store" -> [d EXCEPT !.body[call.slot] = call.body]
    [] msg = "clear" -> [d EXCEPT !.body[call.slot] = None,
                                  !.armed = @ \ {call.slot}]
    [] msg = "mask"  -> Masked(d, call.mask)
    [] msg = "auto"  -> [d EXCEPT !.auto = TRUE]
    [] msg = "mode"  -> [d EXCEPT !.auto = call.on,
                                  !.armed = IF call.on THEN @ ELSE {}]

-----------------------------------------------------------------------------
(* The link. *)

Deaf == up /\ deaf

(* A send opens a session if there is none; its answer is heard, unless    *)
(* the counter is out of step.  Frames that are lost may put it there.     *)
Heard == ~Deaf /\ up' = TRUE /\ deaf' = FALSE /\ UNCHANGED lossy
Lost  == /\ Deaf \/ lossy
         /\ up' = TRUE /\ deaf' \in {Deaf, TRUE} /\ UNCHANGED lossy

(* apply_status_plaintext, as far as it is read here.  A status names the  *)
(* armed slots that start first; one that names none clears the flags.     *)
Status(d) ==
  /\ next_start_flags' \in {n \in SUBSET d.armed : n = {} <=> d.armed = {}}
  /\ controller_mode' = FlagOf(d.auto)
NoStatus  == UNCHANGED <<next_start_flags, controller_mode>>

-----------------------------------------------------------------------------
(* The calls: what each sends, in order. *)

Begins(c) ==
  /\ call.op = "none" /\ call' = c
  /\ UNCHANGED <<dev, link, state>>

(* Mutant: the program is stored and enabled once. *)
StoredOnce(s, b, on) ==
  Begins([NoCall EXCEPT !.op = "set", !.slot = s, !.body = b, !.on = on,
    !.todo = <<"read", "store", "read", "mask", "auto">>
               \o IF on THEN <<"status">> ELSE <<>>])

set_program(s, b, on) ==
  Begins([NoCall EXCEPT !.op = "set", !.slot = s, !.body = b, !.on = on,
    !.todo = <<"read", "store", "read", "mask", "auto">>
               \o IF on THEN <<"store", "mask", "status">> ELSE <<>>])
delete_program(s) ==
  Begins([NoCall EXCEPT !.op = "delete", !.slot = s,
    !.todo = <<"read", "mask", "clear", "auto", "read">>])
set_program_enabled(s, on) ==
  Begins([NoCall EXCEPT !.op = "toggle", !.slot = s, !.on = on,
    !.todo = <<"read", "mask", "auto">>
               \o (IF on THEN <<"mask">> ELSE <<>>) \o <<"status", "read">>])
set_controller_mode(on) ==
  Begins([NoCall EXCEPT !.op = "mode", !.on = on, !.todo = <<"mode", "status">>])
get_programs ==
  Begins([NoCall EXCEPT !.op = "get", !.todo = <<"read">>, !.ok = TRUE])
(* Mutant: the programs are read by a service call only. *)
PollsStatusOnly ==
  Begins([NoCall EXCEPT !.op = "poll", !.todo = <<"status">>, !.ok = TRUE])

refresh_state ==
  Begins([NoCall EXCEPT !.op = "poll", !.todo = <<"status", "read">>, !.ok = TRUE])

Awaits(send) == call.todo # <<>> /\ Head(call.todo) = send

-----------------------------------------------------------------------------
(* _read_programs: bodies S of the dump are decoded, its mask if m, its    *)
(* status if st.  The dump is bodies, mask, status, and is cut where the   *)
(* first frame is lost.                                                    *)

Carried(s) == IF s \in DOMAIN programs THEN programs[s].enabled ELSE "unknown"
ShownWithoutBodies(m, st) == IF m \/ st THEN NoPrograms ELSE programs

_read_programs(S, m, st) ==
  /\ programs' = IF S = {} THEN ShownWithoutBodies(m, st)
                 ELSE [s \in S |-> [body |-> dev.body[s],
                        enabled |-> IF m THEN FlagOf(s \in dev.on)
                                    ELSE Carried(s)]]
  /\ IF st THEN Status(dev) \/ NoStatus ELSE NoStatus

(* Mutants: the bits are counted from the slot's number; a mask that was   *)
(* dropped counts as 0.                                                    *)
MaskShifted(m) ==
  IF m THEN dev.on
  ELSE {s + 1 : s \in {r \in DOMAIN programs' : programs'[r].enabled = "on"}}
MaskOrZero(m) == IF m THEN dev.on ELSE {}

_enable_mask(m) ==
  IF m THEN dev.on
  ELSE {s \in DOMAIN programs' : programs'[s].enabled = "on"}

(* Mutant: the mask is made of the commanded slot alone. *)
NewMaskAlone(mask) == IF call.on THEN {call.slot} ELSE {}

NewMask(mask) ==
  IF call.on THEN mask \cup {call.slot} ELSE mask \ {call.slot}

(* What a read makes of the call: the mask to write, the first time, and   *)
(* what the call would return.                                             *)
ReadBack(S, m) ==
  /\ call' = [call EXCEPT
       !.todo  = Tail(@),
       !.mask  = IF @ = None /\ call.slot # None THEN NewMask(_enable_mask(m))
                 ELSE @,
       !.fresh = IF call.mask = None THEN m ELSE @ /\ up,
       !.ok    = IF call.mask = None THEN @ ELSE
                 CASE call.op = "set"    -> call.slot \in S \cap Stored(dev)
                   [] call.op = "delete" -> call.slot \notin S \cap Stored(dev)
                   [] call.op = "toggle" -> (call.slot \in _enable_mask(m)) = call.on
                   [] OTHER              -> @]
  /\ UNCHANGED dev

Reads ==
  /\ Awaits("read")
  /\ \/ /\ Heard
        /\ _read_programs(Sent(dev), TRUE, TRUE) /\ ReadBack(Sent(dev), TRUE)
     \/ /\ Lost
        /\ \E S \in (IF Deaf THEN {{}} ELSE SUBSET Sent(dev)) :
             _read_programs(S, FALSE, FALSE) /\ ReadBack(S, FALSE)
     \/ /\ Lost /\ ~Deaf
        /\ _read_programs(Sent(dev), TRUE, FALSE) /\ ReadBack(Sent(dev), TRUE)

-----------------------------------------------------------------------------
(* The writes; a reply may carry a status.  A mode is a write, too.        *)

Written == call' = [call EXCEPT !.todo = Tail(@), !.fresh = @ /\ up]

Writes ==
  /\ \E msg \in {"store", "clear", "mask", "auto", "mode"} :
       /\ Awaits(msg)
       /\ \/ /\ dev' = Effect(dev, msg)
             /\ \/ Heard /\ Status(dev')
                \/ (Heard \/ Lost) /\ NoStatus
          \/ lossy /\ Lost /\ UNCHANGED dev /\ NoStatus
  /\ Written
  /\ UNCHANGED <<programs>>

-----------------------------------------------------------------------------
(* refresh_status, and the second session of its recovery.                 *)

(* Mutant: any next start confirms this one. *)
ConfirmedByAny ==
  CASE call.op = "set"  -> next_start_flags' # {}
    [] call.op = "mode" -> controller_mode' = FlagOf(call.on)
    [] OTHER            -> call.ok

Confirmed ==
  CASE call.op = "set"  -> call.slot \in next_start_flags'
    [] call.op = "mode" -> controller_mode' = FlagOf(call.on)
    [] OTHER            -> call.ok

(* A poll that decoded no status does not read the programs.               *)
Refreshed(heard) ==
  /\ call' = [call EXCEPT
       !.todo  = IF call.op = "poll" /\ ~heard THEN <<>> ELSE Tail(@),
       !.fresh = @ /\ up,
       !.ok    = Confirmed]
  /\ UNCHANGED <<dev, programs>>

refresh_status ==
  /\ Awaits("status")
  /\ Heard /\ Status(dev) /\ Refreshed(TRUE)

(* No status came, the link at fault or the unit not answering: the        *)
(* recovery disconnects.                                                   *)
StatusMissed ==
  /\ Awaits("status")
  /\ up' = FALSE /\ deaf' = FALSE
  /\ call' = [call EXCEPT !.todo = <<"recover">> \o Tail(@)]
  /\ UNCHANGED <<dev, lossy, state>>

_recover_status ==
  /\ Awaits("recover")
  /\ \/ Heard /\ Status(dev) /\ Refreshed(TRUE)
     \/ Lost /\ NoStatus /\ Refreshed(FALSE)

-----------------------------------------------------------------------------
(* The finally clause: disconnect, and return call.ok.                     *)
Returns ==
  /\ call.op # "none" /\ call.todo = <<>>
  /\ up' = FALSE /\ deaf' = FALSE
  /\ call' = NoCall
  /\ UNCHANGED <<dev, lossy, state>>

(* A send on a session that went down: _ble_write_guard makes it a False,  *)
(* a poll counts it, get_programs raises.                                  *)
Raises ==
  /\ call.todo # <<>> /\ (lossy \/ Deaf)
  /\ call' = [call EXCEPT !.todo = <<>>, !.ok = FALSE]
  /\ up' = FALSE /\ deaf' = FALSE
  /\ UNCHANGED <<dev, lossy, state>>

-----------------------------------------------------------------------------
(* The surroundings. *)

(* The link, or the self-heal of a session that is out of step.            *)
LinkDrops ==
  /\ up /\ (lossy \/ deaf)
  /\ up' = FALSE /\ deaf' = FALSE
  /\ UNCHANGED <<dev, lossy, state, call>>

(* Between two calls, at the latest.                                       *)
LinkSettles ==
  /\ lossy /\ call.op = "none" /\ lossy' = FALSE
  /\ UNCHANGED <<dev, up, deaf, state, call>>

OtherCommands ==
  /\ OthersAct /\ ~up
  /\ \/ \E s \in Slot, b \in Body \cup {None} :
          dev' = [dev EXCEPT !.body[s] = b,
                             !.armed = IF b = None THEN @ \ {s} ELSE @]
     \/ \E m \in SUBSET Slot : dev' = Masked(dev, m)
  /\ UNCHANGED <<link, state, call>>

-----------------------------------------------------------------------------
Commands ==
  \/ \E s \in Slot, b \in Body, on \in BOOLEAN : set_program(s, b, on)
  \/ \E s \in Slot : delete_program(s)
  \/ \E s \in Slot, on \in BOOLEAN : set_program_enabled(s, on)
  \/ \E on \in BOOLEAN : set_controller_mode(on)
  \/ get_programs

Step == \/ Reads \/ Writes \/ refresh_status \/ StatusMissed \/ _recover_status
        \/ Returns \/ Raises

Next == \/ Commands \/ refresh_state \/ Step
        \/ LinkDrops \/ LinkSettles \/ OtherCommands

Spec == Init /\ [][Next]_vars

(* Every drain ends, and the coordinator keeps polling; it queues for      *)
(* _api_lock with the callers.                                             *)
Fairness == WF_vars(Step) /\ SF_vars(refresh_state)

FairSpec == Spec /\ Fairness

-----------------------------------------------------------------------------
(* Properties. *)

(* On a link that loses nothing, in a session nobody else came between, a  *)
(* call leaves its slot as commanded and says so, and an enabled program   *)
(* armed, whatever mode the controller was in: "the device computes a      *)
(* next-start only when store+enable arrive while already in autoMode".    *)
DoneAsCommanded ==
  [][call.op \in {"set", "delete", "toggle"} /\ call'.op = "none"
       /\ ~lossy /\ call.fresh /\ up
       => LET s == call.slot IN
          /\ dev.auto
          /\ s \in dev.on <=> call.on
          /\ s \in dev.armed <=> call.on /\ s \in Stored(dev)
          /\ call.op # "toggle" => dev.body[s] = call.body
          /\ call.ok \/ (call.op = "set" /\ call.on)]_vars

(* A call changes no program's enable bit but its own, if its read decoded *)
(* the mask and its session has lasted since ("Other slots unchanged").    *)
SparesOthers ==
  [][Awaits("mask") /\ call.fresh /\ up
       => \A s \in Slot \ {call.slot} : s \in dev'.on <=> s \in dev.on]_vars

(* The schedules that are shown go blank only when the device stores none: *)
(* a truncated burst "must NOT blank the last-known schedules".            *)
NothingBlanked ==
  [][DOMAIN programs # {} /\ DOMAIN programs' = {} => Sent(dev) = {}]_vars

(* The flag shown for a slot only ever changes to the one the device has,  *)
(* whatever bursts come without their mask ("so a partial burst doesn't    *)
(* spuriously de-enable a slot").                                          *)
FlagsAreReal ==
  [][\A s \in DOMAIN programs \cap DOMAIN programs' :
       programs'[s].enabled \in {programs[s].enabled, FlagOf(s \in dev.on)}]_vars

(* set_program_enabled never returns True against the flag that is shown:  *)
(* with the read-back lost, an unverified toggle of a program that was     *)
(* known the other way is unconfirmed "in BOTH directions".                *)
ToggleNotContradicted ==
  [][call.op = "toggle" /\ call'.op = "none" /\ call.ok
       /\ call.slot \in DOMAIN programs
       => programs[call.slot].enabled # FlagOf(~call.on)]_vars

(* set_program confirms an enabled program only if the device has armed    *)
(* it: "an already-enabled program with an earlier start" does not confirm *)
(* "a slot that didn't actually arm".  The exception is a status that was  *)
(* not heard, when the state already named this slot.                      *)
ArmedIsThisSlot ==
  [][call.op = "set" /\ call.on /\ call.todo # <<>>
       /\ call'.todo = <<>> /\ call'.ok
       => call.slot \in dev.armed \cup next_start_flags]_vars

(* Once the link is good and the programs stay as they are, they are shown *)
(* as they are: nothing is lost for good, and no deleted schedule lingers. *)
Shown(d) ==
  [s \in Sent(d) |-> [body |-> d.body[s], enabled |-> FlagOf(s \in d.on)]]
ShownInTheEnd ==
  <>[]~lossy /\ <>[][UNCHANGED dev]_vars => <>[](programs = Shown(dev))

===============================================================================
