-------------------------- MODULE DeviceList_proofs --------------------------
(***************************************************************************)
(* Theorems about DeviceList, for every account, whatever the cloud leaves *)
(* out of its answers and however many reloads wait.                       *)
(***************************************************************************)
EXTENDS DeviceList, TLAPS

USE ConstantsAssumption DEF Record

-----------------------------------------------------------------------------
(* The strengthening. *)

(* Without an entry there is no list, and nothing to start a flow from.    *)
NothingYet ==
  phase = "absent" =>
    /\ DOMAIN devices = {} /\ DOMAIN flow.stored = {}
    /\ excluded = {} /\ reloads = 0

(* An exclusion is remembered, which is what keeps a refresh from undoing  *)
(* it.                                                                     *)
ExcludedAreKnown ==
  excluded # {} => known # None /\ excluded \subseteq known

(* A set-up that no reload is to follow works on the current list.         *)
SetUpIsCurrent ==
  phase = "forwarding" /\ reloads = 0
    => runtime = Runnable /\ registry \subseteq DOMAIN devices

-----------------------------------------------------------------------------
(* Lists and merges. *)

LEMMA ListsDef ==
  ASSUME NEW f
  PROVE  f \in Lists <=> DOMAIN f \in SUBSET Dev /\ f \in [DOMAIN f -> Record]
  BY DEF Lists

LEMMA NoDevicesTyped ==
  NoDevices \in Lists /\ DOMAIN NoDevices = {} /\ NoFlow \in Flows
<1>1. DOMAIN NoDevices = {} /\ NoDevices \in [{} -> Record]
  BY DEF NoDevices
<1>2. NoDevices \in Lists
  BY <1>1, ListsDef
<1>3. QED BY <1>1, <1>2 DEF NoFlow, Flows

LEMMA AnswersTyped == discover \subseteq Lists
  BY DEF discover, Lists

LEMMA RecordsMerge ==
  ASSUME NEW old \in Record, NEW new \in Record
  PROVE  /\ merge_device_record(old, new) \in Record
         /\ merge_device_record(old, new).key = None => old.key = None
  BY DEF merge_device_record

(* A merge has the selected devices that were stored or found.             *)
LEMMA ListsMerge ==
  ASSUME NEW stored \in Lists, NEW found \in Lists, NEW selected
  PROVE  /\ merge_device_lists(stored, found, selected) \in Lists
         /\ DOMAIN merge_device_lists(stored, found, selected)
              = selected \cap Catalogue(stored, found)
<1> DEFINE D == selected \cap Catalogue(stored, found)
           merged == merge_device_lists(stored, found, selected)
<1>1. /\ DOMAIN stored \in SUBSET Dev /\ \A d \in DOMAIN stored : stored[d] \in Record
      /\ DOMAIN found \in SUBSET Dev /\ \A d \in DOMAIN found : found[d] \in Record
  BY ListsDef
<1>2. /\ merged = [d \in D |-> merged[d]] /\ DOMAIN merged = D
      /\ D \in SUBSET Dev
  BY <1>1 DEF merge_device_lists, Catalogue
<1>3. ASSUME NEW d \in D PROVE merged[d] \in Record
  <2>1. CASE d \notin DOMAIN found
    BY <1>1, <2>1 DEF merge_device_lists, Catalogue
  <2>2. CASE d \in DOMAIN found /\ d \notin DOMAIN stored
    BY <1>1, <2>2 DEF merge_device_lists
  <2>3. CASE d \in DOMAIN found /\ d \in DOMAIN stored
    BY <1>1, <2>3, RecordsMerge DEF merge_device_lists
  <2>4. QED BY <2>1, <2>2, <2>3
<1>4. merged \in Lists
  BY <1>2, <1>3, ListsDef
<1>5. QED BY <1>2, <1>4

(* The key of a stored device stays.                                       *)
LEMMA KeysMerge ==
  ASSUME NEW stored \in Lists, NEW found \in Lists, NEW selected,
         NEW d \in selected \cap DOMAIN stored,
         merge_device_lists(stored, found, selected)[d].key = None
  PROVE  stored[d].key = None
<1>1. CASE d \notin DOMAIN found
  BY <1>1 DEF merge_device_lists, Catalogue
<1>2. CASE d \in DOMAIN found
  <2>1. merge_device_lists(stored, found, selected)[d]
          = merge_device_record(stored[d], found[d])
    BY <1>2 DEF merge_device_lists, Catalogue
  <2>2. stored[d] \in Record /\ found[d] \in Record
    BY <1>2, ListsDef
  <2>3. QED BY <2>1, <2>2, RecordsMerge
<1>3. QED BY <1>1, <1>2

(* A refresh keeps what is listed and adds only what was never offered.    *)
LEMMA DefaultsKeep ==
  ASSUME NEW stored, NEW kn, NEW catalogue, stored \subseteq catalogue
  PROVE  /\ stored \subseteq default_selection(stored, kn, catalogue)
         /\ default_selection(stored, kn, catalogue) \subseteq catalogue
         /\ kn # None => default_selection(stored, kn, catalogue) \cap kn \subseteq stored
  BY DEF default_selection

LEMMA KnownGrow ==
  ASSUME NEW kn \in (SUBSET Dev) \cup {None}, NEW stored \in SUBSET Dev,
         NEW catalogue \in SUBSET Dev
  PROVE  /\ next_known_ids(kn, stored, catalogue) \in SUBSET Dev
         /\ next_known_ids(kn, stored, catalogue) # None
         /\ kn # None => kn \subseteq next_known_ids(kn, stored, catalogue)
         /\ catalogue \subseteq next_known_ids(kn, stored, catalogue)
  BY DEF next_known_ids

LEMMA OfferedTyped ==
  ASSUME TypeOK
  PROVE  /\ Offered \in SUBSET Dev
         /\ flow.stored \in Lists /\ flow.found \in Lists
         /\ DOMAIN flow.stored \in SUBSET Dev /\ DOMAIN flow.found \in SUBSET Dev
<1>1. flow.stored \in Lists /\ flow.found \in Lists
  BY DEF TypeOK, Flows
<1>2. DOMAIN flow.stored \in SUBSET Dev /\ DOMAIN flow.found \in SUBSET Dev
  BY <1>1, ListsDef
<1>3. QED BY <1>1, <1>2 DEF Offered, Catalogue

-----------------------------------------------------------------------------
(* What the actions that write the list do to it. *)

LEMMA RefreshWrites ==
  ASSUME TypeOK, async_refresh_entry
  PROVE  /\ devices' \in Lists /\ known' \in SUBSET Dev /\ known' # None
         /\ DOMAIN devices \subseteq DOMAIN devices'
         /\ known # None => /\ known \subseteq known'
                            /\ DOMAIN devices' \cap known \subseteq DOMAIN devices
         /\ \A d \in DOMAIN devices : devices'[d].key = None => devices[d].key = None
<1>1. PICK found \in discover :
        /\ devices' = merge_device_lists(devices, found,
                        default_selection(DOMAIN devices, known, Catalogue(devices, found)))
        /\ known' = next_known_ids(known, DOMAIN devices, Catalogue(devices, found))
  BY DEF async_refresh_entry
<1> DEFINE catalogue == Catalogue(devices, found)
           selected  == default_selection(DOMAIN devices, known, catalogue)
<1>2. /\ devices \in Lists /\ found \in Lists /\ known \in (SUBSET Dev) \cup {None}
      /\ DOMAIN devices \in SUBSET Dev /\ DOMAIN found \in SUBSET Dev
      /\ DOMAIN devices \subseteq catalogue /\ catalogue \in SUBSET Dev
  BY AnswersTyped, ListsDef DEF TypeOK, Catalogue
<1>3. /\ DOMAIN devices \subseteq selected /\ selected \subseteq catalogue
      /\ known # None => selected \cap known \subseteq DOMAIN devices
  BY <1>2, DefaultsKeep
<1>4. /\ devices' \in Lists /\ DOMAIN devices' = selected \cap catalogue
      /\ \A d \in selected \cap DOMAIN devices :
           devices'[d].key = None => devices[d].key = None
  <2>1. devices' = merge_device_lists(devices, found, selected)
    BY <1>1
  <2> HIDE DEF selected
  <2>2. devices' \in Lists /\ DOMAIN devices' = selected \cap catalogue
    BY <1>2, <2>1, ListsMerge
  <2>3. QED BY <1>2, <2>1, <2>2, KeysMerge
<1>5. /\ known' \in SUBSET Dev /\ known' # None
      /\ known # None => known \subseteq known'
  BY <1>1, <1>2, KnownGrow
<1>6. QED BY <1>3, <1>4, <1>5

LEMMA PickerWrites ==
  ASSUME TypeOK, async_step_reconfigure_devices
  PROVE  /\ devices' \in Lists /\ known' \in SUBSET Dev /\ known' # None
         /\ known # None => known \subseteq known'
         /\ Offered \subseteq known'
         /\ excluded' \in SUBSET Dev /\ excluded' \subseteq excluded \cup Offered
         /\ excluded' \cap DOMAIN devices' = {}
         /\ Offered \ DOMAIN devices' \subseteq excluded'
         /\ \A d \in DOMAIN devices' \cap DOMAIN flow.stored :
              devices'[d].key = None => flow.stored[d].key = None
         /\ flow.stage = "picker" /\ flow' = NoFlow
<1>1. PICK included \in SUBSET Offered :
        /\ Submits(included)
        /\ devices' = merge_device_lists(flow.stored, flow.found, included)
  BY DEF async_step_reconfigure_devices
<1>2. /\ devices' \in Lists /\ DOMAIN devices' = included
      /\ \A d \in included \cap DOMAIN flow.stored :
           devices'[d].key = None => flow.stored[d].key = None
  <2>1. flow.stored \in Lists /\ flow.found \in Lists
    BY OfferedTyped
  <2>2. included \cap Catalogue(flow.stored, flow.found) = included
    BY DEF Offered
  <2>3. devices' = merge_device_lists(flow.stored, flow.found, included)
    BY <1>1
  <2>4. devices' \in Lists /\ DOMAIN devices' = included
    BY <2>1, <2>2, <2>3, ListsMerge
  <2>5. QED BY <2>1, <2>3, <2>4, KeysMerge
<1>3. /\ known' \in SUBSET Dev /\ known' # None
      /\ known # None => known \subseteq known'
      /\ Offered \subseteq known'
  <2>1. known' = next_known_ids(known, DOMAIN flow.stored, Offered)
    BY DEF async_step_reconfigure_devices
  <2>2. QED BY <2>1, OfferedTyped, KnownGrow DEF TypeOK
<1>4. /\ excluded' = (excluded \cup Offered) \ included
      /\ flow.stage = "picker" /\ flow' = NoFlow
  BY <1>1 DEF Submits
<1>5. excluded' \in SUBSET Dev
  BY <1>4, OfferedTyped DEF TypeOK
<1>6. QED BY <1>2, <1>3, <1>4, <1>5

LEMMA SetupWrites ==
  ASSUME TypeOK, NothingYet, async_step_pick_devices
  PROVE  /\ devices' \in Lists /\ known' \in SUBSET Dev /\ known' # None
         /\ excluded' \in SUBSET Dev /\ excluded' \subseteq known'
         /\ excluded' \cap DOMAIN devices' = {}
         /\ flow' = NoFlow
<1>1. PICK included \in SUBSET Offered :
        /\ Submits(included)
        /\ devices' = [d \in DOMAIN flow.found \cap included |-> flow.found[d]]
  BY DEF async_step_pick_devices
<1>2. /\ flow.found \in [DOMAIN flow.found -> Record] /\ DOMAIN flow.found \in SUBSET Dev
  BY OfferedTyped, ListsDef
<1>3. devices' \in [DOMAIN devices' -> Record]
      /\ DOMAIN devices' = DOMAIN flow.found \cap included
  BY <1>1, <1>2
<1>4. devices' \in Lists
  BY <1>2, <1>3, ListsDef
<1>5. Offered = DOMAIN flow.found /\ excluded = {}
  BY DEF NothingYet, async_step_pick_devices, Offered, Catalogue
<1>6. excluded' = (excluded \cup Offered) \ included /\ flow' = NoFlow
  BY <1>1 DEF Submits
<1>7. known' = next_known_ids(None, {}, DOMAIN flow.found)
  BY DEF async_step_pick_devices
<1>8. known' \in SUBSET Dev /\ known' # None /\ DOMAIN flow.found \subseteq known'
  BY <1>2, <1>7, KnownGrow
<1>9. QED BY <1>2, <1>3, <1>4, <1>5, <1>6, <1>8

-----------------------------------------------------------------------------
IInv == TypeOK /\ NothingYet /\ ExcludedAreKnown /\ ExclusionsStick
          /\ SetUpIsCurrent /\ RegistryFollows

LEMMA InitIInv == Init => IInv
<1> SUFFICES ASSUME Init PROVE IInv
  OBVIOUS
<1>1. devices \in Lists
  BY NoDevicesTyped, AnswersTyped DEF Init
<1>2. TypeOK
  BY <1>1, NoDevicesTyped DEF Init, TypeOK, Phases
<1>3. NothingYet
  BY NoDevicesTyped DEF Init, NothingYet, NoFlow
<1>4. ExcludedAreKnown /\ ExclusionsStick /\ SetUpIsCurrent /\ RegistryFollows
  BY DEF Init, ExcludedAreKnown, ExclusionsStick, SetUpIsCurrent, RegistryFollows, AtRest
<1>5. QED BY <1>2, <1>3, <1>4 DEF IInv

(* Runnable devices are configured ones.                                   *)
LEMMA RunnableListed ==
  ASSUME TypeOK
  PROVE  Runnable \subseteq DOMAIN devices /\ Runnable \in SUBSET Dev
         /\ DOMAIN devices \in SUBSET Dev
  BY ListsDef DEF TypeOK, Runnable

(* The actions that leave the list, the known ids and the exclusions.      *)
KeepsList == UNCHANGED <<devices, known, excluded>>

LEMMA FlowsKeepIInv ==
  ASSUME IInv,
         async_step_user \/ async_step_reconfigure \/ Discovered \/ FlowAborts
  PROVE  IInv'
<1>1. UNCHANGED <<entry, phase, reloads, runtime, registry, excluded>>
  BY DEF async_step_user, async_step_reconfigure, StartsFlow, Discovered, FlowAborts
<1>2. /\ flow' \in Flows
      /\ phase = "absent" => DOMAIN flow'.stored = {}
  <2>1. CASE async_step_user \/ async_step_reconfigure
    <3>1. flow' = [NoFlow EXCEPT !.stage = "discover", !.stored = devices]
      BY <2>1 DEF async_step_user, async_step_reconfigure, StartsFlow
    <3>2. QED BY <3>1, NoDevicesTyped DEF IInv, TypeOK, NothingYet, NoFlow, Flows
  <2>2. CASE Discovered
    <3>1. PICK found \in discover :
            flow' = [flow EXCEPT !.stage = "picker", !.found = found]
      BY <2>2 DEF Discovered
    <3>2. QED BY <3>1, AnswersTyped DEF IInv, TypeOK, NothingYet, Flows
  <2>3. CASE FlowAborts
    BY <2>3, NoDevicesTyped DEF FlowAborts, NoFlow
  <2>4. QED BY <2>1, <2>2, <2>3
<1>3. QED
  BY <1>1, <1>2 DEF IInv, TypeOK, NothingYet, ExcludedAreKnown, ExclusionsStick,
       SetUpIsCurrent, RegistryFollows, AtRest, entry, Runnable

LEMMA WritersKeepIInv ==
  ASSUME IInv,
         async_refresh_entry \/ async_step_reconfigure_devices
           \/ async_step_reauth_confirm
  PROVE  IInv'
<1>1. /\ phase # "absent" /\ phase' = phase /\ reloads' = reloads + 1
      /\ reloads < MaxReloads
      /\ runtime' = runtime /\ registry' = registry
  BY DEF async_refresh_entry, async_step_reconfigure_devices,
       async_step_reauth_confirm, RequestsReload
<1>2. reloads' \in 0 .. MaxReloads /\ reloads' # 0
  BY <1>1 DEF IInv, TypeOK
<1>3. /\ devices' \in Lists /\ known' \in (SUBSET Dev) \cup {None}
      /\ excluded' \in SUBSET Dev /\ flow' \in Flows
      /\ ExcludedAreKnown' /\ ExclusionsStick'
  <2>1. CASE async_refresh_entry
    <3>1. UNCHANGED <<flow, excluded>>
      BY <2>1 DEF async_refresh_entry
    <3>2. QED
      BY <2>1, <3>1, RefreshWrites DEF IInv, TypeOK, ExcludedAreKnown, ExclusionsStick
  <2>2. CASE async_step_reconfigure_devices
    BY <2>2, PickerWrites, NoDevicesTyped
       DEF IInv, TypeOK, ExcludedAreKnown, ExclusionsStick
  <2>3. CASE async_step_reauth_confirm
    BY <2>3 DEF async_step_reauth_confirm, entry, IInv, TypeOK, ExcludedAreKnown,
         ExclusionsStick
  <2>4. QED BY <2>1, <2>2, <2>3
<1>4. TypeOK'
  BY <1>1, <1>2, <1>3 DEF IInv, TypeOK
<1>5. QED
  BY <1>1, <1>2, <1>3, <1>4 DEF IInv, NothingYet, SetUpIsCurrent, RegistryFollows, AtRest

LEMMA SetupFlowKeepsIInv ==
  ASSUME IInv, async_step_pick_devices
  PROVE  IInv'
<1>1. /\ devices' \in Lists /\ known' \in SUBSET Dev /\ known' # None
      /\ excluded' \in SUBSET Dev /\ excluded' \subseteq known'
      /\ excluded' \cap DOMAIN devices' = {}
      /\ flow' = NoFlow
  BY SetupWrites DEF IInv
<1>2. phase' = "unloaded" /\ UNCHANGED <<reloads, runtime, registry>>
  BY DEF async_step_pick_devices
<1>3. QED
  BY <1>1, <1>2, NoDevicesTyped DEF IInv, TypeOK, Phases, NothingYet, ExcludedAreKnown,
       ExclusionsStick, SetUpIsCurrent, RegistryFollows, AtRest

LEMMA LifeKeepsIInv ==
  ASSUME IInv, Loading \/ Restarts \/ async_remove_config_entry_device
  PROVE  IInv'
<1>1. KeepsList
  BY DEF KeepsList, Loading, async_setup_entry, async_forward_entry_setups,
       async_unload_entry, ReloadRefused, Restarts, async_remove_config_entry_device, entry
<1>2. /\ ExcludedAreKnown' /\ ExclusionsStick' /\ Runnable' = Runnable
  BY <1>1 DEF IInv, KeepsList, ExcludedAreKnown, ExclusionsStick, Runnable
<1>3. /\ phase' \in Phases /\ reloads' \in 0 .. MaxReloads
      /\ {runtime', registry'} \subseteq SUBSET Dev
      /\ flow' \in Flows
      /\ NothingYet' /\ SetUpIsCurrent' /\ RegistryFollows'
  <2>1. CASE async_setup_entry
    BY <2>1, <1>1, RunnableListed DEF async_setup_entry, _purge_unconfigured_devices, IInv,
         TypeOK, Phases, NothingYet, SetUpIsCurrent, RegistryFollows, AtRest, KeepsList,
         Runnable
  <2>2. CASE async_forward_entry_setups
    BY <2>2, <1>1, <1>2, RunnableListed DEF async_forward_entry_setups, IInv, TypeOK, Phases,
         NothingYet, SetUpIsCurrent, RegistryFollows, AtRest, KeepsList
  <2>3. CASE async_unload_entry
    BY <2>3, <1>1 DEF async_unload_entry, IInv, TypeOK, Phases, NothingYet,
         SetUpIsCurrent, RegistryFollows, AtRest, KeepsList
  <2>4. CASE ReloadRefused
    BY <2>4, <1>1 DEF ReloadRefused, IInv, TypeOK, Phases, NothingYet,
         SetUpIsCurrent, RegistryFollows, AtRest, KeepsList
  <2>5. CASE Restarts
    BY <2>5, <1>1, NoDevicesTyped DEF Restarts, IInv, TypeOK, Phases, NothingYet,
         SetUpIsCurrent, RegistryFollows, AtRest, KeepsList
  <2>6. CASE async_remove_config_entry_device
    BY <2>6, <1>1, <1>2, RunnableListed DEF async_remove_config_entry_device, IInv, TypeOK,
         Phases, NothingYet, SetUpIsCurrent, RegistryFollows, AtRest, KeepsList
  <2>7. QED BY <2>1, <2>2, <2>3, <2>4, <2>5, <2>6 DEF Loading
<1>4. TypeOK'
  BY <1>1, <1>3 DEF IInv, TypeOK, KeepsList
<1>5. QED BY <1>2, <1>3, <1>4 DEF IInv

LEMMA NextIInv == IInv /\ [Next]_vars => IInv'
<1> SUFFICES ASSUME IInv, [Next]_vars PROVE IInv'
  OBVIOUS
<1>1. CASE async_step_user \/ async_step_reconfigure \/ Discovered \/ FlowAborts
  BY <1>1, FlowsKeepIInv
<1>2. CASE async_refresh_entry \/ async_step_reconfigure_devices
             \/ async_step_reauth_confirm
  BY <1>2, WritersKeepIInv
<1>3. CASE async_step_pick_devices
  BY <1>3, SetupFlowKeepsIInv
<1>4. CASE Loading \/ Restarts \/ async_remove_config_entry_device
  BY <1>4, LifeKeepsIInv
<1>5. CASE UNCHANGED vars
  BY <1>5 DEF vars, entry, IInv, TypeOK, NothingYet, ExcludedAreKnown, ExclusionsStick,
       SetUpIsCurrent, RegistryFollows, AtRest, Runnable
<1>6. QED BY <1>1, <1>2, <1>3, <1>4, <1>5 DEF Next, Users

-----------------------------------------------------------------------------
(* The theorems. *)

(* The strengthened invariant holds in every reachable state.              *)
THEOREM Inductive == Spec => []IInv
<1>1. QED BY InitIInv, NextIInv, PTL DEF Spec

(* Every variable keeps its set, records included: a merge makes a record  *)
(* out of records (merge.py 41-80).                                        *)
THEOREM TypeCorrect == Spec => []TypeOK
<1>1. IInv => TypeOK
  BY DEF IInv
<1>2. QED BY <1>1, Inductive, PTL

(* An unticked device stays out of the list, because it stays known        *)
(* (merge.py 101-107).                                                     *)
THEOREM ExclusionsHold == Spec => []ExclusionsStick
<1>1. IInv => ExclusionsStick
  BY DEF IInv
<1>2. QED BY <1>1, Inductive, PTL

(* At rest the coordinators are those of the list and the registry has no  *)
(* other device, since every change of the list is followed by a reload    *)
(* (refresh.py 63-71, config_flow.py 254-267).                             *)
THEOREM ListIsApplied == Spec => []RegistryFollows
<1>1. IInv => RegistryFollows
  BY DEF IInv
<1>2. QED BY <1>1, Inductive, PTL

(* Which actions write the list.                                           *)
LEMMA OthersKeepList ==
  ASSUME IInv, [Next]_vars
  PROVE  \/ async_refresh_entry \/ async_step_reconfigure_devices
         \/ async_step_pick_devices /\ DOMAIN devices = {}
         \/ UNCHANGED devices
  BY DEF Next, Users, Loading, async_step_user, async_step_reconfigure, StartsFlow,
       Discovered, FlowAborts, async_step_reauth_confirm, async_remove_config_entry_device,
       async_setup_entry, async_forward_entry_setups, async_unload_entry, ReloadRefused,
       Restarts, async_step_pick_devices, IInv, NothingYet, entry, vars

(* The list shrinks only in a picker's submission, by what the user        *)
(* unticked or the picker did not show: no refresh drops a device          *)
(* (merge.py 66-80, refresh.py 54-61, __init__.py 168-171).                *)
THEOREM OnlyUsersShrinkIt == Spec => OnlyUntickedGo
<1>1. IInv /\ [Next]_vars
        => [\A d \in DOMAIN devices \ DOMAIN devices' :
              Picked /\ (d \in excluded' \/ d \notin Offered)]_vars
  <2> SUFFICES ASSUME IInv, [Next]_vars, NEW d \in DOMAIN devices \ DOMAIN devices'
               PROVE  Picked /\ (d \in excluded' \/ d \notin Offered)
    OBVIOUS
  <2>1. ~async_refresh_entry
    BY RefreshWrites DEF IInv
  <2>2. CASE async_step_reconfigure_devices
    BY <2>2, PickerWrites DEF IInv, Picked
  <2>3. QED BY <2>1, <2>2, OthersKeepList
<1>2. QED BY <1>1, Inductive, PTL DEF Spec, OnlyUntickedGo

(* A blank never takes the place of a key that the writer knew, and a      *)
(* refresh knows every key of the list (merge.py 48-50).                   *)
THEOREM KeysAreSticky == Spec => KeysKept
<1>1. IInv /\ [Next]_vars
        => [\A d \in DOMAIN devices \cap DOMAIN devices' :
              devices[d].key # None /\ devices'[d].key = None
                => /\ Picked
                   /\ d \in DOMAIN flow.stored => flow.stored[d].key = None]_vars
  <2> SUFFICES ASSUME IInv, [Next]_vars, NEW d \in DOMAIN devices \cap DOMAIN devices',
                      devices[d].key # None, devices'[d].key = None
               PROVE  /\ Picked
                      /\ d \in DOMAIN flow.stored => flow.stored[d].key = None
    OBVIOUS
  <2>1. ~async_refresh_entry
    BY RefreshWrites DEF IInv
  <2>2. CASE async_step_reconfigure_devices
    BY <2>2, PickerWrites DEF IInv, Picked
  <2>3. QED BY <2>1, <2>2, OthersKeepList
<1>2. QED BY <1>1, Inductive, PTL DEF Spec, KeysKept

(* A configured device keeps its place in the registry, whether or not it  *)
(* can be run (__init__.py 166-168).                                       *)
THEOREM ConfiguredStayRegistered == Spec => RegistryKept
<1>1. [Next]_vars
        => [\A d \in registry \ registry' : d \notin DOMAIN devices]_vars
  BY DEF Next, Users, Loading, async_step_user, async_step_reconfigure, StartsFlow,
       Discovered, FlowAborts, async_step_reauth_confirm, async_remove_config_entry_device,
       async_setup_entry, _purge_unconfigured_devices, async_forward_entry_setups,
       async_unload_entry, ReloadRefused, Restarts, async_step_pick_devices,
       async_step_reconfigure_devices, async_refresh_entry, vars
<1>2. QED BY <1>1, PTL DEF Spec, RegistryKept

=============================================================================
