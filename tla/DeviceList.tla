------------------------------ MODULE DeviceList ------------------------------
(***************************************************************************)
(* The device list of a config entry: merge.py, the setup and reconfigure  *)
(* flows of config_flow.py, refresh.py, and the setup, purge and unload of *)
(* __init__.py that turn it into coordinators and registry devices.        *)
(*                                                                         *)
(* The cloud's answer may leave out devices, and fields of a device.  A    *)
(* flow keeps a snapshot of the list while it waits for the cloud and then *)
(* for the user; a refresh, a reauth, a reload or a restart may come       *)
(* between.  Home Assistant runs the reloads of an entry one at a time.    *)
(***************************************************************************)
EXTENDS Naturals

CONSTANTS
  Dev,         \* the cloud ids of an account's devices
  Key,         \* the values of a sticky field; network_key stands for all
  Model,       \* the values of hardware, which is not sticky
  Supported,   \* the models resolve_device_class knows
  None,        \* blank; for hardware, "unknown"
  Answers,     \* the records the cloud answers with
  MaxReloads   \* bound: reloads waiting at once

Record == [key : Key \cup {None}, model : Model \cup {None}]

ASSUME ConstantsAssumption ==
  /\ None \notin Dev \cup Key \cup Model /\ \A D \in SUBSET Dev : D # None
  /\ Supported \subseteq Model
  /\ Answers \subseteq Record
  /\ MaxReloads \in Nat \ {0}

VARIABLES
  devices,    \* entry.data[CONF_DEVICES], by cloud id
  known,      \* entry.data[CONF_KNOWN_CLOUD_IDS]; None in a legacy entry
  phase,      \* the entry: absent, unloaded, forwarding, loaded, failed
  reloads,    \* calls of async_reload that wait for their turn
  runtime,    \* the ids in EntryRuntime.coordinators
  registry,   \* the entry's devices in the device registry
  flow,       \* the user's flow, see Flows
  excluded    \* history: unticked in a submitted picker, not ticked since

entry == <<devices, known>>
vars  == <<entry, phase, reloads, runtime, registry, flow, excluded>>

Lists     == UNION {[D -> Record] : D \in SUBSET Dev}
NoDevices == [d \in {} |-> None]

(* stored and found are the flow's _stored and _discovered.                *)
Flows  == [stage : {"none", "discover", "picker"}, stored : Lists, found : Lists]
NoFlow == [stage |-> "none", stored |-> NoDevices, found |-> NoDevices]

Phases == {"absent", "unloaded", "forwarding", "loaded", "failed"}

(* The variables take values of these sets.                                *)
TypeOK ==
  /\ devices \in Lists
  /\ known \in (SUBSET Dev) \cup {None}
  /\ phase \in Phases
  /\ reloads \in 0 .. MaxReloads
  /\ {runtime, registry, excluded} \subseteq SUBSET Dev
  /\ flow \in Flows

-----------------------------------------------------------------------------
(* merge.py *)

(* Mutant of merge_device_record: fresh wins, blank or not.                *)
MergeFreshWins(old, new) == new

(* Fresh wins, but a blank does not overwrite a sticky field.              *)
merge_device_record(old, new) ==
  [new EXCEPT !.key = IF @ = None THEN old.key ELSE @]

Catalogue(stored, found) == DOMAIN stored \cup DOMAIN found

(* Mutant of merge_device_lists: what the cloud does not return is dropped.*)
MergeFoundOnly(stored, found, selected) ==
  [d \in selected \cap DOMAIN found |->
     IF d \in DOMAIN stored THEN merge_device_record(stored[d], found[d]) ELSE found[d]]

(* Selected devices that the cloud does not return are kept as they are.   *)
merge_device_lists(stored, found, selected) ==
  [d \in selected \cap Catalogue(stored, found) |->
     CASE d \notin DOMAIN found  -> stored[d]
       [] d \notin DOMAIN stored -> found[d]
       [] OTHER                  -> merge_device_record(stored[d], found[d])]

default_selection(stored, kn, catalogue) ==
  {d \in catalogue : d \in stored \/ d \notin (IF kn = None THEN stored ELSE kn)}

(* Mutant of next_known_ids: only what is kept counts as known.            *)
KeptAreKnown(kn, stored, catalogue) == (IF kn = None THEN {} ELSE kn) \cup stored

next_known_ids(kn, stored, catalogue) ==
  (IF kn = None THEN {} ELSE kn) \cup stored \cup catalogue

(* What discover() can return: any part of the account, partly blank.      *)
discover == UNION {[D -> Answers] : D \in SUBSET Dev}

-----------------------------------------------------------------------------
(* A new installation, or an entry of an earlier version at start-up.      *)
Init ==
  /\ \/ phase = "absent" /\ devices = NoDevices /\ registry = {}
     \/ phase = "unloaded" /\ devices \in discover \ {NoDevices}
        /\ registry \in SUBSET Dev
  /\ known = None
  /\ reloads = 0 /\ runtime = {} /\ flow = NoFlow /\ excluded = {}

-----------------------------------------------------------------------------
(* The flows. *)

StartsFlow ==
  /\ flow = NoFlow
  /\ flow' = [NoFlow EXCEPT !.stage = "discover", !.stored = devices]
  /\ UNCHANGED <<entry, phase, reloads, runtime, registry, excluded>>

async_step_user        == phase = "absent" /\ StartsFlow
async_step_reconfigure == phase # "absent" /\ StartsFlow

(* The answer of the cloud, with the saved or a re-entered password.       *)
Discovered ==
  /\ flow.stage = "discover"
  /\ \E found \in discover \ {NoDevices} :
       flow' = [flow EXCEPT !.stage = "picker", !.found = found]
  /\ UNCHANGED <<entry, phase, reloads, runtime, registry, excluded>>

(* The cloud fails or knows no device, or the user closes the form.        *)
FlowAborts ==
  /\ flow.stage # "none"
  /\ flow' = NoFlow
  /\ UNCHANGED <<entry, phase, reloads, runtime, registry, excluded>>

Offered == Catalogue(flow.stored, flow.found)

(* Mutant of Submits: an empty selection is accepted.                      *)
SubmitsAnything(included) ==
  /\ flow.stage = "picker" /\ flow' = NoFlow
  /\ excluded' = (excluded \cup Offered) \ included

(* The user submits a picker; an empty selection is refused.               *)
Submits(included) ==
  /\ flow.stage = "picker" /\ flow' = NoFlow
  /\ included # {}
  /\ excluded' = (excluded \cup Offered) \ included

async_step_pick_devices ==
  /\ phase = "absent"
  /\ \E included \in SUBSET Offered :
       /\ Submits(included)
       /\ devices' = [d \in DOMAIN flow.found \cap included |-> flow.found[d]]
  /\ known' = next_known_ids(None, {}, DOMAIN flow.found)
  /\ phase' = "unloaded"
  /\ UNCHANGED <<reloads, runtime, registry>>

(* Mutant of RequestsReload: the list is updated and not reloaded.         *)
RequestsNothing == UNCHANGED reloads

(* async_reload, up to its wait for the entry's setup lock.                *)
RequestsReload == reloads < MaxReloads /\ reloads' = reloads + 1

(* The records and ids are the flow's snapshot; the known ids are read now.*)
async_step_reconfigure_devices ==
  /\ phase # "absent"
  /\ \E included \in SUBSET Offered :
       /\ Submits(included)
       /\ devices' = merge_device_lists(flow.stored, flow.found, included)
  /\ known' = next_known_ids(known, DOMAIN flow.stored, Offered)
  /\ RequestsReload
  /\ UNCHANGED <<phase, runtime, registry>>

(* Only the password changes, which is not told apart here.                *)
async_step_reauth_confirm ==
  /\ phase # "absent"
  /\ RequestsReload
  /\ UNCHANGED <<entry, phase, runtime, registry, flow, excluded>>

(* The refresh_devices service, from the cloud's answer on: everything it  *)
(* uses of the entry is read after that await.                             *)
async_refresh_entry ==
  /\ phase # "absent"
  /\ \E found \in discover :
       LET catalogue == Catalogue(devices, found)
           selected  == default_selection(DOMAIN devices, known, catalogue)
       IN  /\ devices' = merge_device_lists(devices, found, selected)
           /\ known' = next_known_ids(known, DOMAIN devices, catalogue)
  /\ RequestsReload
  /\ UNCHANGED <<phase, runtime, registry, flow, excluded>>

-----------------------------------------------------------------------------
(* The life of the entry. *)

(* build_device skips an unsupported model.                                *)
Runnable == {d \in DOMAIN devices : devices[d].model \in Supported}

_purge_unconfigured_devices == registry \cap DOMAIN devices

(* Up to the await of async_forward_entry_setups.  A list without devices  *)
(* is refused: such an entry never leaves "unloaded".                      *)
async_setup_entry ==
  /\ phase = "unloaded" /\ devices # NoDevices
  /\ runtime' = Runnable
  /\ registry' = _purge_unconfigured_devices
  /\ phase' = "forwarding"
  /\ UNCHANGED <<entry, reloads, flow, excluded>>

(* The platforms add the entities of the coordinators made above, and the  *)
(* registry their devices.                                                 *)
async_forward_entry_setups ==
  /\ phase = "forwarding"
  /\ registry' = registry \cup runtime
  /\ phase' = "loaded"
  /\ UNCHANGED <<entry, reloads, runtime, flow, excluded>>

(* Mutant of async_unload_entry: a reload runs that nobody waits for.      *)
UnloadsUnasked ==
  /\ phase = "loaded"
  /\ phase' = "unloaded" /\ runtime' = {}
  /\ reloads' = reloads - 1
  /\ UNCHANGED <<entry, registry, flow, excluded>>

(* A reload's turn; when a platform does not unload, the entry waits for a *)
(* restart and later reloads are refused.                                  *)
async_unload_entry ==
  /\ phase = "loaded" /\ reloads > 0
  /\ \/ phase' = "unloaded" /\ runtime' = {}
     \/ phase' = "failed" /\ UNCHANGED runtime
  /\ reloads' = reloads - 1
  /\ UNCHANGED <<entry, registry, flow, excluded>>

ReloadRefused ==
  /\ phase = "failed" /\ reloads > 0
  /\ reloads' = reloads - 1
  /\ UNCHANGED <<entry, phase, runtime, registry, flow, excluded>>

Restarts ==
  /\ phase \notin {"absent", "unloaded"}
  /\ phase' = "unloaded"
  /\ reloads' = 0 /\ runtime' = {} /\ flow' = NoFlow
  /\ UNCHANGED <<entry, registry, excluded>>

(* The user deletes a device on its page.                                  *)
async_remove_config_entry_device ==
  /\ \E d \in registry \ DOMAIN devices : registry' = registry \ {d}
  /\ UNCHANGED <<entry, phase, reloads, runtime, flow, excluded>>

Users ==
  \/ async_step_user
  \/ async_step_reconfigure
  \/ FlowAborts
  \/ async_step_pick_devices
  \/ async_step_reconfigure_devices
  \/ async_step_reauth_confirm
  \/ async_refresh_entry
  \/ async_remove_config_entry_device

Loading ==
  \/ async_setup_entry
  \/ async_forward_entry_setups
  \/ async_unload_entry
  \/ ReloadRefused

Next == Users \/ Discovered \/ Loading \/ Restarts

Spec == Init /\ [][Next]_vars

(* Home Assistant goes on with a set-up or reload it has begun.            *)
FairSpec == Spec /\ WF_vars(Loading)

-----------------------------------------------------------------------------
(* Properties *)

(* What the user unticked stays out of the list, whatever is discovered,   *)
(* refreshed, reloaded or restarted, until it is ticked again              *)
(* (refresh.py 28, merge.py 101-107).                                      *)
ExclusionsStick == excluded \cap DOMAIN devices = {}

(* The step that submits a picker, or gives one up.                        *)
Picked == flow.stage = "picker" /\ flow' = NoFlow

(* No answer of the cloud takes a device out of the list, with or without  *)
(* a flow open: a device leaves it only in the step that submits a picker, *)
(* and there because the user unticked it, or because the picker is from   *)
(* before the device was added and did not list it (merge.py 66-80;        *)
(* config_flow.py 254-266 writes from its snapshot).                       *)
OnlyUntickedGo ==
  [][\A d \in DOMAIN devices \ DOMAIN devices' :
       Picked /\ (d \in excluded' \/ d \notin Offered)]_vars

(* A device that has its key keeps one, however much of its record the     *)
(* cloud leaves out, with or without a flow open; the one exception is the *)
(* step that submits a picker whose snapshot is from before the key was    *)
(* known (merge.py 44-51).                                                 *)
KeysKept ==
  [][\A d \in DOMAIN devices \cap DOMAIN devices' :
       devices[d].key # None /\ devices'[d].key = None
         => /\ Picked
            /\ d \in DOMAIN flow.stored => flow.stored[d].key = None]_vars

(* A device leaves the registry, with its history and automations, only    *)
(* when it is not configured, and not because it cannot be run now         *)
(* (__init__.py 166-172).                                                  *)
RegistryKept == [][\A d \in registry \ registry' : d \notin DOMAIN devices]_vars

AtRest == phase = "loaded" /\ reloads = 0

(* When no reload is under way, what runs is what the list says, and the   *)
(* registry has nothing else: no change of the list is left unapplied,     *)
(* also one made while a set-up was under way (refresh.py 71).             *)
RegistryFollows ==
  AtRest => /\ runtime = Runnable
            /\ runtime \subseteq registry /\ registry \subseteq DOMAIN devices

(* What stays chosen is run again and again, and what stays unlisted leaves*)
(* the coordinators and the registry for good, unless an unload fails and  *)
(* Home Assistant is not restarted: no selection bricks the entry          *)
(* (config_flow.py 162-166, 250).                                          *)
ChosenIsRun ==
  []<>(phase \notin {"absent", "failed"}) =>
    \A d \in Dev :
      /\ <>[](d \in Runnable) => []<>(d \in runtime)
      /\ <>[](d \notin DOMAIN devices) => <>[](d \notin runtime \cup registry)

=============================================================================
