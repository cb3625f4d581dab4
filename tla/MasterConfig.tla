----------------------------- MODULE MasterConfig -----------------------------
(***************************************************************************)
(* A master that gets its own settings, the list of modules first of all,  *)
(* and the settings of its modules from an MQTT broker.                    *)
(*                                                                         *)
(* PJONMIMqttTransfer does this in phases: get the master settings and     *)
(* create the modules in the list, get their contracts, then subscribe to  *)
(* all settings, so that the retained ones come (again) when there are     *)
(* variables to put them in.  A module without a contract has none, and    *)
(* what is received for it is dropped.                                     *)
(*                                                                         *)
(* Not in this module: the values of settings (see MultiTransfer), a web   *)
(* server as the source of the master settings, JSON topics.               *)
(***************************************************************************)
EXTENDS Naturals, Sequences

CONSTANTS
  Modules,       \* names of modules
  Lists,         \* module lists the user may publish
  MaxLists,      \* bound on changes of the module list
  MaxOff,        \* bound on modules switched off
  MaxSilent,     \* bound on running modules found inactive
  MaxPrograms,   \* bound on modules given another contract
  MaxReconnects  \* bound on connections lost

ASSUME ListAssumption == Lists \subseteq (SUBSET Modules) \ {{}}
ASSUME BoundAssumption == {MaxLists, MaxOff, MaxSilent, MaxPrograms, MaxReconnects} \subseteq Nat

SettingAll == {"modules", "devid", "intsettings"}

VARIABLES
  up,           \* modules that are running
  modules,      \* retained list of modules; {} before it is published
  published,    \* retained master settings besides the list
  subscribed,   \* whether the master is subscribed to all settings
  toLists,      \* on their way to the master: module lists
  toOthers,     \* ... other master settings, and modules with settings
  phase, got_master_settings,
  waited,       \* contracts have been waited for longer than 120 seconds
  interfaces,   \* modules the master has objects for
  active,       \* of these: heard from lately
  contract,     \* ... contracts complete
  updated,      \* ... settings received
  late,         \* history: modules not heard when their contract was waited
                \* for, and modules given another one after that
  count         \* history: lists, switch-offs, silences, programs, reconnections

broker == <<modules, published>>
inbox == <<toLists, toOthers>>
objects == <<interfaces, active, contract, updated>>
vars == <<up, broker, subscribed, inbox, phase, got_master_settings, waited,
          objects, late, count>>

-----------------------------------------------------------------------------
(* What the broker sends when the master subscribes: retained messages.    *)
Resubscribed(all) ==
  /\ subscribed' = all
  /\ toLists' = IF modules = {} THEN <<>> ELSE <<modules>>
  /\ toOthers' = published \cup (IF all THEN Modules ELSE {})

(* got_all_contracts, and got_contracts in a Boolean that tells whether    *)
(* 120 seconds have passed.  Deviation: silent modules are not waited for. *)
GotContracts_Hasty(w) == \A m \in interfaces' : m \in contract' \/ m \notin active'
GotContracts(w) ==
  /\ \A m \in interfaces' : m \in contract' \/ m \notin active'
  /\ interfaces' \subseteq active' \/ w

(* check_phase, from phase p and with the other variables as they have     *)
(* become: waits for contracts when all master settings are there, and     *)
(* connects again, subscribing to everything, when the contracts are.      *)
(* What is left in the inbox is lost with the old connection.              *)
CheckPhase(p, w, lists, others) ==
  \/ /\ p = "wait_mqtt" /\ got_master_settings' = SettingAll
     /\ phase' = "wait_contracts" /\ waited' = FALSE
     /\ late' = {}
     /\ toLists' = lists /\ toOthers' = others /\ UNCHANGED subscribed
  \/ /\ p = "wait_contracts" /\ GotContracts(w)
     /\ phase' = "running" /\ waited' = w
     /\ Resubscribed(TRUE)
     /\ UNCHANGED late
  \/ /\ ~(p = "wait_mqtt" /\ got_master_settings' = SettingAll)
     /\ ~(p = "wait_contracts" /\ GotContracts(w))
     /\ phase' = p /\ waited' = w
     /\ toLists' = lists /\ toOthers' = others
     /\ UNCHANGED <<subscribed, late>>

-----------------------------------------------------------------------------
(* The master has called start(), without having any module yet.           *)
Init ==
  /\ up \in SUBSET Modules
  /\ modules \in Lists \cup {{}}
  /\ published \in SUBSET (SettingAll \ {"modules"})
  /\ subscribed = FALSE
  /\ toLists = IF modules = {} THEN <<>> ELSE <<modules>>
  /\ toOthers = published
  /\ phase = "wait_mqtt" /\ got_master_settings = {} /\ waited = FALSE
  /\ interfaces = {} /\ active = {} /\ contract = {} /\ updated = {}
  /\ late = {}
  /\ count = [lists |-> 0, offs |-> 0, silent |-> 0, programs |-> 0, reconnects |-> 0]

-----------------------------------------------------------------------------
(* The master reads a message. *)

(* read_master_topic with a list of modules.  set_interface_list replaces  *)
(* all objects if the list is another one.                                 *)
NewList(p) ==
  /\ interfaces' = Head(toLists)
  /\ active' = {} /\ contract' = {} /\ updated' = {}
  /\ got_master_settings' = got_master_settings \cup {"modules"}
  /\ CheckPhase(p, waited, Tail(toLists), toOthers)

SameList ==
  /\ UNCHANGED <<objects, got_master_settings>>
  /\ CheckPhase(phase, waited, Tail(toLists), toOthers)

(* Deviations: the list is taken once (as without                          *)
(* MI_ALLOW_MODULELIST_CHANGES); the phase is not set back.                *)
ReadModules_Once ==
  /\ toLists # <<>>
  /\ IF interfaces = {} THEN NewList("wait_mqtt") ELSE SameList
  /\ UNCHANGED <<up, broker, count>>

ReadModules_KeepPhase ==
  /\ toLists # <<>>
  /\ IF Head(toLists) = interfaces THEN SameList ELSE NewList(phase)
  /\ UNCHANGED <<up, broker, count>>

ReadModules ==
  /\ toLists # <<>>
  /\ IF Head(toLists) = interfaces THEN SameList ELSE NewList("wait_mqtt")
  /\ UNCHANGED <<up, broker, count>>

(* ... with the id of the master or its transfer interval.                 *)
ReadMasterSetting(t) ==
  /\ t \in toOthers /\ t \in SettingAll
  /\ got_master_settings' = got_master_settings \cup {t}
  /\ UNCHANGED objects
  /\ CheckPhase(phase, waited, toLists, toOthers \ {t})
  /\ UNCHANGED <<up, broker, count>>

(* read_from_mqtt with the settings of a module.  Deviation: a set without *)
(* variables counts as complete.                                           *)
ReadSettings_Unknown(m) ==
  /\ m \in toOthers /\ m \in Modules
  /\ toOthers' = toOthers \ {m}
  /\ updated' = updated \cup ({m} \cap interfaces)
  /\ UNCHANGED <<up, broker, subscribed, toLists, phase, got_master_settings, waited,
                 interfaces, active, contract, late, count>>

ReadSettings(m) ==
  /\ m \in toOthers /\ m \in Modules
  /\ toOthers' = toOthers \ {m}
  /\ updated' = IF m \in contract THEN updated \cup {m} ELSE updated
  /\ UNCHANGED <<up, broker, subscribed, toLists, phase, got_master_settings, waited,
                 interfaces, active, contract, late, count>>

(* update, when there is nothing to read but the phase can change.         *)
UpdatePhase ==
  /\ UNCHANGED <<objects, got_master_settings>>
  /\ CheckPhase(phase, waited, toLists, toOthers)
  /\ phase' # phase
  /\ UNCHANGED <<up, broker, count>>

(* 120 seconds have passed in the phase.  Modules that are off, or whose   *)
(* packets were all lost, are not waited for any longer.                   *)
Wait ==
  /\ phase = "wait_contracts" /\ ~waited
  /\ waited' = TRUE
  /\ late' = late \cup (interfaces \ (active \cup contract))
  /\ UNCHANGED <<up, broker, subscribed, inbox, phase, got_master_settings, objects, count>>

-----------------------------------------------------------------------------
(* The master and a module. *)

(* Something arrives from the module.                                      *)
Hear(m) ==
  /\ m \in interfaces \cap up /\ m \notin active
  /\ active' = active \cup {m}
  /\ UNCHANGED <<up, broker, subscribed, inbox, phase, got_master_settings, waited,
                 interfaces, contract, updated, late, count>>

(* The contracts arrive, the last one that was missing at least.           *)
GetContracts(m) ==
  /\ m \in interfaces \cap up /\ m \notin contract
  /\ active' = active \cup {m} /\ contract' = contract \cup {m}
  /\ late' = IF phase = "running" THEN late ELSE late \ {m}
  /\ UNCHANGED <<up, broker, subscribed, inbox, phase, got_master_settings, waited,
                 interfaces, updated, count>>

(* Nothing has arrived for 120 seconds, or five packets sent were not      *)
(* acknowledged: the module is off, or the packets were lost.              *)
BecomeInactive(m) ==
  /\ m \in active
  /\ \/ m \notin up /\ UNCHANGED count
     \/ /\ m \in up /\ count.silent < MaxSilent
        /\ count' = [count EXCEPT !.silent = @ + 1]
  /\ active' = active \ {m}
  /\ late' = IF phase = "wait_contracts" THEN late \cup ({m} \ contract) ELSE late
  /\ UNCHANGED <<up, broker, subscribed, inbox, phase, got_master_settings, waited,
                 interfaces, contract, updated>>

(* The status of a module says that it has another program now, with       *)
(* another contract.                                                       *)
LoseContract(m) ==
  /\ m \in contract \cap up /\ count.programs < MaxPrograms
  /\ active' = active \cup {m}
  /\ contract' = contract \ {m} /\ updated' = updated \ {m}
  /\ late' = IF phase = "running" THEN late \cup {m} ELSE late
  /\ count' = [count EXCEPT !.programs = @ + 1]
  /\ UNCHANGED <<up, broker, subscribed, inbox, phase, got_master_settings, waited, interfaces>>

SwitchOff(m) ==
  /\ m \in up /\ count.offs < MaxOff
  /\ up' = up \ {m}
  /\ count' = [count EXCEPT !.offs = @ + 1]
  /\ UNCHANGED <<broker, subscribed, inbox, phase, got_master_settings, waited, objects, late>>

SwitchOn(m) ==
  /\ m \notin up
  /\ up' = up \cup {m}
  /\ UNCHANGED <<broker, subscribed, inbox, phase, got_master_settings, waited, objects,
                 late, count>>

-----------------------------------------------------------------------------
(* The broker and its users. *)

PublishList(l) ==
  /\ l # modules /\ count.lists < MaxLists
  /\ modules' = l
  /\ toLists' = Append(toLists, l)
  /\ count' = [count EXCEPT !.lists = @ + 1]
  /\ UNCHANGED <<up, published, subscribed, toOthers, phase, got_master_settings, waited,
                 objects, late>>

Publish(t) ==
  /\ published' = published \cup {t} /\ published' # published
  /\ toOthers' = toOthers \cup {t}
  /\ UNCHANGED <<up, modules, subscribed, toLists, phase, got_master_settings, waited,
                 objects, late, count>>

(* The client library connects again and repeats its subscriptions.        *)
Reconnect ==
  /\ count.reconnects < MaxReconnects
  /\ Resubscribed(subscribed)
  /\ late' = IF subscribed THEN late \ contract ELSE late
  /\ count' = [count EXCEPT !.reconnects = @ + 1]
  /\ UNCHANGED <<up, broker, phase, got_master_settings, waited, objects>>

-----------------------------------------------------------------------------
MasterStep ==
  \/ ReadModules \/ UpdatePhase \/ Wait \/ Reconnect
  \/ \E t \in SettingAll : ReadMasterSetting(t)
  \/ \E m \in Modules : ReadSettings(m) \/ Hear(m) \/ GetContracts(m) \/ BecomeInactive(m)

Next ==
  \/ MasterStep
  \/ \E m \in Modules : LoseContract(m) \/ SwitchOff(m) \/ SwitchOn(m)
  \/ \E l \in Lists : PublishList(l)
  \/ \E t \in SettingAll \ {"modules"} : Publish(t)

Spec == Init /\ [][Next]_vars

(* The master keeps updating, messages and contracts arrive, and time      *)
(* passes.                                                                 *)
Fairness ==
  /\ WF_vars(ReadModules) /\ WF_vars(UpdatePhase) /\ WF_vars(Wait)
  /\ \A t \in SettingAll : WF_vars(ReadMasterSetting(t))
  /\ \A m \in Modules : WF_vars(ReadSettings(m)) /\ WF_vars(Hear(m)) /\ WF_vars(GetContracts(m))
                        /\ WF_vars(m \notin up /\ BecomeInactive(m))

FairSpec == Spec /\ Fairness

-----------------------------------------------------------------------------
(* Type invariant; what is known of a module is known of one in the list.  *)
TypeOK ==
  /\ {up, interfaces, late} \subseteq SUBSET Modules
  /\ modules \in SUBSET Modules /\ published \subseteq SettingAll \ {"modules"}
  /\ subscribed \in BOOLEAN
  /\ toLists \in Seq(SUBSET Modules) /\ toOthers \subseteq SettingAll \cup Modules
  /\ phase \in {"wait_mqtt", "wait_contracts", "running"}
  /\ got_master_settings \subseteq SettingAll /\ waited \in BOOLEAN
  /\ active \subseteq interfaces /\ contract \subseteq interfaces /\ updated \subseteq contract
  /\ count \in [lists : Nat, offs : Nat, silent : Nat, programs : Nat, reconnects : Nat]

(* When the master subscribes to the settings (PHASE_RUNNING), it has the  *)
(* contracts of all its modules, except of those that were not heard in    *)
(* 120 seconds or found inactive while they were waited for, and of those  *)
(* that have another program since: what the broker retains finds          *)
(* variables to go to (PJONModuleInterfaceMqttTransfer.h:32-36, 76-80).    *)
ContractsInTime ==
  phase = "running" => subscribed /\ interfaces \subseteq contract \cup late

(* The master at last works with the list that is on the broker, however   *)
(* the phases of start and changes of the list come together               *)
(* (set_interface_list, read_master_topic).                                *)
EventuallyListed == <>[](modules # {} => interfaces = modules)

(* If the master settings are complete, every running module at last has   *)
(* all its settings, but for the modules ContractsInTime excepts: what was *)
(* retained for these has been dropped, and comes again only if the        *)
(* connection to the broker is lost.  A module whose packets are lost for  *)
(* a time is excepted only if that is the time of the wait.                *)
EventuallyConfigured ==
  <>[](modules # {} /\ published = SettingAll \ {"modules"} =>
         interfaces \cap up \subseteq updated \cup late)
=============================================================================
