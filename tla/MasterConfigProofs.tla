-------------------------- MODULE MasterConfigProofs --------------------------
(***************************************************************************)
(* Proofs about MasterConfig: for all modules, lists and bounds its types  *)
(* are right, and the master subscribes to settings only when it has the   *)
(* contracts of the modules it heard while it waited for them.             *)
(***************************************************************************)
EXTENDS MasterConfig, TLAPS

(* What check_phase changes keeps its type.  TypeOK is inductive as it     *)
(* stands.                                                                 *)
LEMMA CheckPhaseTypes ==
  ASSUME TypeOK, NEW p \in {"wait_mqtt", "wait_contracts", "running"}, NEW w \in BOOLEAN,
         NEW lists \in Seq(SUBSET Modules), NEW others \in SUBSET (SettingAll \cup Modules),
         modules' = modules, published' = published, interfaces' \in SUBSET Modules,
         CheckPhase(p, w, lists, others)
  PROVE  /\ subscribed' \in BOOLEAN
         /\ toLists' \in Seq(SUBSET Modules) /\ toOthers' \subseteq SettingAll \cup Modules
         /\ phase' \in {"wait_mqtt", "wait_contracts", "running"}
         /\ waited' \in BOOLEAN /\ late' \in SUBSET Modules
<1>1. CASE phase' = "wait_contracts" /\ waited' = FALSE /\ late' = {}
           /\ toLists' = lists /\ toOthers' = others /\ UNCHANGED subscribed
  BY <1>1 DEF TypeOK
<1>2. CASE phase' = "running" /\ waited' = w /\ Resubscribed(TRUE) /\ UNCHANGED late
  <2>1. <<modules>> \in Seq(SUBSET Modules) /\ <<>> \in Seq(SUBSET Modules)
    BY DEF TypeOK
  <2> QED  BY <1>2, <2>1 DEF TypeOK, Resubscribed
<1>3. CASE phase' = p /\ waited' = w /\ toLists' = lists /\ toOthers' = others
           /\ UNCHANGED <<subscribed, late>>
  BY <1>3 DEF TypeOK
<1> QED  BY <1>1, <1>2, <1>3 DEF CheckPhase

(* MasterConfig.TypeOK holds in every reachable state, for all modules,    *)
(* lists and bounds: what the master knows of a module (active, contract,  *)
(* settings) it knows of one in its present list.                          *)
THEOREM TypeCorrect == Spec => []TypeOK
<1>1. Init => TypeOK
  <2> SUFFICES ASSUME Init PROVE TypeOK
    OBVIOUS
  <2>1. modules \in SUBSET Modules
    BY ListAssumption DEF Init
  <2>2. toLists \in Seq(SUBSET Modules)
    <3>1. <<modules>> \in Seq(SUBSET Modules) /\ <<>> \in Seq(SUBSET Modules)
      BY <2>1
    <3> QED  BY <3>1 DEF Init
  <2>3. count \in [lists : Nat, offs : Nat, silent : Nat, programs : Nat, reconnects : Nat]
    BY DEF Init
  <2> QED  BY <2>1, <2>2, <2>3 DEF Init, TypeOK, SettingAll
<1>2. TypeOK /\ [Next]_vars => TypeOK'
  <2> SUFFICES ASSUME TypeOK, [Next]_vars PROVE TypeOK'
    OBVIOUS
  <2>1. CASE ReadModules
    <3>1. /\ Head(toLists) \in SUBSET Modules /\ Tail(toLists) \in Seq(SUBSET Modules)
          /\ phase \in {"wait_mqtt", "wait_contracts", "running"} /\ waited \in BOOLEAN
          /\ toOthers \in SUBSET (SettingAll \cup Modules)
          /\ UNCHANGED <<up, modules, published, count>>
      BY <2>1 DEF TypeOK, ReadModules, broker
    <3>2. CASE SameList
      <4>1. UNCHANGED <<interfaces, active, contract, updated, got_master_settings>>
        BY <3>2 DEF SameList, objects
      <4> QED  BY <3>1, <3>2, <4>1, CheckPhaseTypes DEF SameList, TypeOK
    <3>3. CASE NewList("wait_mqtt")
      BY <3>1, <3>3, CheckPhaseTypes DEF NewList, TypeOK, SettingAll
    <3> QED  BY <2>1, <3>2, <3>3 DEF ReadModules
  <2>2. ASSUME NEW t \in SettingAll, ReadMasterSetting(t) PROVE TypeOK'
    <3>1. /\ phase \in {"wait_mqtt", "wait_contracts", "running"} /\ waited \in BOOLEAN
          /\ toOthers \ {t} \in SUBSET (SettingAll \cup Modules)
          /\ toLists \in Seq(SUBSET Modules)
          /\ UNCHANGED <<up, modules, published, count, interfaces, active, contract, updated>>
      BY <2>2 DEF TypeOK, ReadMasterSetting, broker, objects
    <3> QED  BY <2>2, <3>1, CheckPhaseTypes DEF ReadMasterSetting, TypeOK
  <2>3. CASE UpdatePhase
    <3>1. /\ phase \in {"wait_mqtt", "wait_contracts", "running"} /\ waited \in BOOLEAN
          /\ toOthers \in SUBSET (SettingAll \cup Modules)
          /\ toLists \in Seq(SUBSET Modules)
          /\ UNCHANGED <<up, modules, published, count, interfaces, active, contract, updated,
                        got_master_settings>>
      BY <2>3 DEF TypeOK, UpdatePhase, broker, objects
    <3> QED  BY <2>3, <3>1, CheckPhaseTypes DEF UpdatePhase, TypeOK
  <2>4. CASE Reconnect
    <3>1. <<modules>> \in Seq(SUBSET Modules) /\ <<>> \in Seq(SUBSET Modules)
      BY DEF TypeOK
    <3>2. toLists' \in Seq(SUBSET Modules)
      BY <2>4, <3>1 DEF Reconnect, Resubscribed
    <3>3. toOthers' \subseteq SettingAll \cup Modules /\ subscribed' \in BOOLEAN
      BY <2>4 DEF Reconnect, Resubscribed, TypeOK
    <3>4. late' \in SUBSET Modules
      BY <2>4 DEF Reconnect, TypeOK
    <3>5. /\ UNCHANGED <<up, modules, published, phase, got_master_settings, waited,
                        interfaces, active, contract, updated>>
          /\ count' = [count EXCEPT !.reconnects = @ + 1]
      BY <2>4 DEF Reconnect, broker, objects
    <3>6. count' \in [lists : Nat, offs : Nat, silent : Nat, programs : Nat, reconnects : Nat]
      BY <3>5 DEF TypeOK
    <3> QED  BY <3>2, <3>3, <3>4, <3>5, <3>6 DEF TypeOK
  <2>5. ASSUME NEW l \in Lists, PublishList(l) PROVE TypeOK'
    <3>1. l \in SUBSET Modules
      BY ListAssumption
    <3>2. toLists' \in Seq(SUBSET Modules)
      BY <2>5, <3>1 DEF PublishList, TypeOK
    <3>3. count' \in [lists : Nat, offs : Nat, silent : Nat, programs : Nat, reconnects : Nat]
      BY <2>5 DEF PublishList, TypeOK
    <3> QED  BY <2>5, <3>1, <3>2, <3>3 DEF PublishList, TypeOK, objects
  <2>6. ASSUME NEW t \in SettingAll \ {"modules"}, Publish(t) PROVE TypeOK'
    BY <2>6 DEF Publish, TypeOK, objects
  <2>7. ASSUME NEW m \in Modules,
               ReadSettings(m) \/ Hear(m) \/ GetContracts(m) \/ BecomeInactive(m)
        PROVE  TypeOK'
    BY <2>7 DEF ReadSettings, Hear, GetContracts, BecomeInactive, TypeOK, broker, inbox
  <2>8. ASSUME NEW m \in Modules, LoseContract(m) \/ SwitchOff(m) \/ SwitchOn(m)
        PROVE  TypeOK'
    BY <2>8 DEF LoseContract, SwitchOff, SwitchOn, TypeOK, broker, inbox, objects
  <2>9. CASE Wait
    BY <2>9 DEF Wait, TypeOK, broker, inbox, objects
  <2>10. CASE UNCHANGED vars
    BY <2>10 DEF vars, broker, inbox, objects, TypeOK
  <2> QED
    BY <2>1, <2>2, <2>3, <2>4, <2>5, <2>6, <2>7, <2>8, <2>9, <2>10 DEF Next, MasterStep
<1> QED
  BY <1>1, <1>2, PTL DEF Spec

-----------------------------------------------------------------------------
(* ContractsInTime is not inductive: when contracts have been waited for   *)
(* for 120 seconds, a module without one that is not late is active, and   *)
(* so it is waited for.                                                    *)
Missing == interfaces \ (late \cup contract)

WaitInv == phase = "wait_contracts" /\ waited => Missing \subseteq active

(* What a change of phase makes of both.                                   *)
LEMMA PhaseKeepsInv ==
  ASSUME NEW p \in {"wait_mqtt", "wait_contracts", "running"}, NEW lists, NEW others,
         CheckPhase(p, waited, lists, others),
         \/ p = "wait_mqtt"
         \/ p = phase /\ UNCHANGED objects /\ WaitInv /\ ContractsInTime
  PROVE  WaitInv' /\ ContractsInTime'
<1>1. CASE p = "wait_mqtt" /\ phase' = "wait_contracts" /\ waited' = FALSE /\ late' = {}
  BY <1>1 DEF WaitInv, Missing, ContractsInTime
<1>2. CASE p = "wait_contracts" /\ GotContracts(waited) /\ phase' = "running"
           /\ Resubscribed(TRUE) /\ UNCHANGED late
  <2>1. p = phase /\ UNCHANGED objects /\ WaitInv
    BY <1>2
  <2>2. interfaces' \subseteq contract' \cup late'
    BY <1>2, <2>1 DEF GotContracts, WaitInv, Missing, objects
  <2> QED  BY <1>2, <2>2 DEF WaitInv, ContractsInTime, Resubscribed
<1>3. CASE phase' = p /\ waited' = waited /\ UNCHANGED <<subscribed, late>>
  BY <1>3 DEF WaitInv, Missing, ContractsInTime, objects
<1> QED  BY <1>1, <1>2, <1>3 DEF CheckPhase

(* Invariant MasterConfig.ContractsInTime, for all modules and lists,      *)
(* however many modules are switched off, found inactive because of losses *)
(* or reprogrammed and lists are changed: at PHASE_RUNNING only modules    *)
(* that were not heard during the wait, were found inactive in it, or were *)
(* reprogrammed since lack a contract.                                     *)
THEOREM ContractsCorrect == Spec => []ContractsInTime
<1>1. Init => WaitInv /\ ContractsInTime
  BY DEF Init, WaitInv, ContractsInTime
<1>2. TypeOK /\ WaitInv /\ ContractsInTime /\ [Next]_vars => (WaitInv /\ ContractsInTime)'
  <2> SUFFICES ASSUME TypeOK, WaitInv, ContractsInTime, [Next]_vars
               PROVE  WaitInv' /\ ContractsInTime'
    OBVIOUS
  <2>0. phase \in {"wait_mqtt", "wait_contracts", "running"}
    BY DEF TypeOK
  <2>1. CASE ReadModules
    <3>1. CASE SameList
      BY <2>0, <3>1, PhaseKeepsInv DEF SameList
    <3>2. CASE NewList("wait_mqtt")
      BY <3>2, PhaseKeepsInv DEF NewList
    <3> QED  BY <2>1, <3>1, <3>2 DEF ReadModules
  <2>2. ASSUME NEW t \in SettingAll, ReadMasterSetting(t) PROVE WaitInv' /\ ContractsInTime'
    BY <2>0, <2>2, PhaseKeepsInv DEF ReadMasterSetting
  <2>3. CASE UpdatePhase
    BY <2>0, <2>3, PhaseKeepsInv DEF UpdatePhase
  <2>4. CASE Reconnect
    BY <2>4 DEF Reconnect, Resubscribed, objects, WaitInv, Missing, ContractsInTime
  <2>5. ASSUME NEW l \in Lists, PublishList(l) PROVE WaitInv' /\ ContractsInTime'
    BY <2>5 DEF PublishList, objects, WaitInv, Missing, ContractsInTime
  <2>6. ASSUME NEW t \in SettingAll \ {"modules"}, Publish(t) PROVE WaitInv' /\ ContractsInTime'
    BY <2>6 DEF Publish, objects, WaitInv, Missing, ContractsInTime
  <2>7. ASSUME NEW m \in Modules, ReadSettings(m) PROVE WaitInv' /\ ContractsInTime'
    BY <2>7 DEF ReadSettings, WaitInv, Missing, ContractsInTime
  <2>8. ASSUME NEW m \in Modules, Hear(m) PROVE WaitInv' /\ ContractsInTime'
    BY <2>8 DEF Hear, WaitInv, Missing, ContractsInTime
  <2>9. ASSUME NEW m \in Modules, GetContracts(m) PROVE WaitInv' /\ ContractsInTime'
    BY <2>9 DEF GetContracts, WaitInv, Missing, ContractsInTime
  <2>10. ASSUME NEW m \in Modules, BecomeInactive(m) PROVE WaitInv' /\ ContractsInTime'
    BY <2>10 DEF BecomeInactive, WaitInv, Missing, ContractsInTime
  <2>11. ASSUME NEW m \in Modules, LoseContract(m) PROVE WaitInv' /\ ContractsInTime'
    BY <2>11 DEF LoseContract, WaitInv, Missing, ContractsInTime
  <2>12. ASSUME NEW m \in Modules, SwitchOff(m) PROVE WaitInv' /\ ContractsInTime'
    BY <2>12 DEF SwitchOff, objects, WaitInv, Missing, ContractsInTime
  <2>13. ASSUME NEW m \in Modules, SwitchOn(m) PROVE WaitInv' /\ ContractsInTime'
    BY <2>13 DEF SwitchOn, objects, WaitInv, Missing, ContractsInTime
  <2>14. CASE Wait
    BY <2>14 DEF Wait, objects, WaitInv, Missing, ContractsInTime
  <2>15. CASE UNCHANGED vars
    BY <2>15 DEF vars, broker, inbox, objects, WaitInv, Missing, ContractsInTime
  <2> QED
    BY <2>1, <2>2, <2>3, <2>4, <2>5, <2>6, <2>7, <2>8, <2>9, <2>10, <2>11, <2>12, <2>13,
       <2>14, <2>15 DEF Next, MasterStep
<1> QED
  BY <1>1, <1>2, TypeCorrect, PTL DEF Spec
=============================================================================
