------------------------- MODULE SettingsSyncProofs -------------------------
(***************************************************************************)
(* Proofs about SettingsSync, for every number of variables, every set of  *)
(* values and every bound.                                                 *)
(***************************************************************************)
EXTENDS SettingsSync, TLAPS

(* Abbreviations every proof below may expand.                             *)
USE DEF Vars, OptValue, Nothing, NoPacket, SendSettings, SetSettings, SetOutputs,
        MasterPacket, ModulePacket, Phase, module, master

(* A module that takes over a set of values ends with values.              *)
LEMMA ModuleSetValuesType ==
  ASSUME TypeOK, NEW pos \in [Vars -> Vars], NEW vals \in [Vars -> Value],
         ModuleSetValues(pos, vals)
  PROVE  mval' \in [Vars -> Value] /\ mchg' \in [Vars -> BOOLEAN] /\ mupd' \in BOOLEAN
  BY DEF TypeOK, ModuleSetValues, Ignored, IsEqual

(* The master's copy has values after any packet from the module.          *)
LEMMA MasterSetValuesType ==
  ASSUME TypeOK, NEW vals \in [Vars -> OptValue], MasterSetValues(vals)
  PROVE  sval' \in [Vars -> Value] /\ schg' \in [Vars -> BOOLEAN] /\ supd' \in BOOLEAN
  BY DEF TypeOK, MasterSetValues

(* ... and after any answer from the database.                             *)
LEMMA MasterReadDatabaseType ==
  ASSUME TypeOK, MasterReadDatabase
  PROVE  sval' \in [Vars -> Value] /\ schg' \in [Vars -> BOOLEAN] /\ supd' \in BOOLEAN
  BY DEF TypeOK, MasterReadDatabase, IsEqual

(* Every initial state has the types declared.                             *)
LEMMA InitTypeOK == Init => TypeOK
<1> SUFFICES ASSUME Init PROVE TypeOK
  OBVIOUS
<1>1. mval \in [Vars -> Value] /\ sval \in [Vars -> Value]
  BY ValueAssumption DEF Init
<1>2. toMod \in MasterPacket /\ toMas \in ModulePacket
  BY DEF Init
<1>3. post \in [Vars -> OptValue] /\ wanted \in [Vars -> OptValue]
  BY DEF Init
<1> QED BY <1>1, <1>2, <1>3 DEF Init, TypeOK

(* The steps of the module keep the types.                                 *)
LEMMA ModuleStepTypeOK == TypeOK /\ ModuleStep => TypeOK'
<1> SUFFICES ASSUME TypeOK, ModuleStep PROVE TypeOK'
  OBVIOUS
<1> USE ValueAssumption
<1>1. ASSUME NEW v \in Vars, NEW x \in Legal[v], LocalChange(v, x) PROVE TypeOK'
  BY <1>1 DEF TypeOK, LocalChange
<1>2. ASSUME NEW acked \in BOOLEAN, ModuleHandlesRequest(acked) PROVE TypeOK'
  <2>1. ModuleChanges \in [Vars -> OptValue]
    BY DEF TypeOK, ModuleChanges
  <2> QED BY <1>2, <2>1 DEF TypeOK, ModuleHandlesRequest
<1>3. ASSUME NEW acked \in BOOLEAN, ModuleHandlesSettings(acked) PROVE TypeOK'
  <2>1. toMod.vals \in [Vars -> Value]
    BY <1>3 DEF TypeOK, ModuleHandlesSettings
  <2>2. mval' \in [Vars -> Value] /\ mchg' \in [Vars -> BOOLEAN] /\ mupd' \in BOOLEAN
    BY <1>3, <2>1, ModuleSetValuesType DEF ModuleHandlesSettings
  <2> QED BY <1>3, <2>2 DEF TypeOK, ModuleHandlesSettings
<1>4. CASE ModuleGivesUp
  BY <1>4 DEF TypeOK, ModuleGivesUp
<1>5. CASE ModuleRestart
  <2>1. mval' \in [Vars -> Value]
    BY <1>5 DEF ModuleRestart
  <2>2. wanted' \in [Vars -> OptValue]
    BY <1>5 DEF TypeOK, ModuleRestart
  <2>3. toMas' \in ModulePacket /\ count' \in [local : Nat, edits : Nat, module : Nat, master : Nat]
    BY <1>5 DEF TypeOK, ModuleRestart
  <2>4. mchg' \in [Vars -> BOOLEAN] /\ mupd' \in BOOLEAN
    BY <1>5 DEF ModuleRestart
  <2> QED BY <1>5, <2>1, <2>2, <2>3, <2>4 DEF TypeOK, ModuleRestart
<1> QED BY <1>1, <1>2, <1>3, <1>4, <1>5 DEF ModuleStep

(* The steps of the master keep the types.                                 *)
LEMMA MasterStepTypeOK == TypeOK /\ MasterStep => TypeOK'
<1> SUFFICES ASSUME TypeOK, MasterStep PROVE TypeOK'
  OBVIOUS
<1> USE ValueAssumption
<1>1. CASE StartTransfer
  BY <1>1 DEF TypeOK, StartTransfer
<1>2. CASE SendTimeout
  BY <1>2 DEF TypeOK, SendTimeout
<1>3. CASE ReplyTimeout
  BY <1>3 DEF TypeOK, ReplyTimeout
<1>4. CASE SendSettingsToModule
  BY <1>4 DEF TypeOK, SendSettingsToModule
<1>5. ASSUME NEW cmd \in {"mcSetSettings", "mcSetOutputs"}, NEW acked \in BOOLEAN,
             MasterHandles(cmd, acked)
      PROVE  TypeOK'
  <2>1. CASE cmd = "mcSetSettings"
    <3>1. toMas.vals \in [Vars -> OptValue]
      BY <1>5, <2>1 DEF TypeOK, MasterHandles
    <3>2. sval' \in [Vars -> Value] /\ schg' \in [Vars -> BOOLEAN] /\ supd' \in BOOLEAN
      BY <1>5, <2>1, <3>1, MasterSetValuesType DEF MasterHandles
    <3> QED BY <1>5, <2>1, <3>2 DEF TypeOK, MasterHandles
  <2>2. CASE cmd = "mcSetOutputs"
    BY <1>5, <2>2 DEF TypeOK, MasterHandles
  <2> QED BY <2>1, <2>2
<1>6. ASSUME NEW ok \in BOOLEAN, PutSettings(ok) PROVE TypeOK'
  <2>1. MasterChanges \in [Vars -> OptValue]
    BY DEF TypeOK, MasterChanges
  <2> QED BY <1>6, <2>1 DEF TypeOK, PutSettings
<1>7. ASSUME NEW ok \in BOOLEAN, GetSettings(ok) PROVE TypeOK'
  <2>1. sval' \in [Vars -> Value] /\ schg' \in [Vars -> BOOLEAN] /\ supd' \in BOOLEAN
    <3>1. CASE ok
      BY <1>7, <3>1, MasterReadDatabaseType DEF GetSettings
    <3>2. CASE ~ok
      BY <1>7, <3>2 DEF GetSettings, TypeOK
    <3> QED BY <3>1, <3>2
  <2> QED BY <1>7, <2>1 DEF TypeOK, GetSettings
<1>8. CASE MasterRestart
  <2>1. sval' \in [Vars -> Value]
    BY <1>8 DEF MasterRestart
  <2>2. toMod' \in MasterPacket /\ count' \in [local : Nat, edits : Nat, module : Nat, master : Nat]
    BY <1>8 DEF TypeOK, MasterRestart
  <2>3. schg' \in [Vars -> BOOLEAN] /\ supd' \in BOOLEAN /\ smod' \in BOOLEAN
    BY <1>8 DEF MasterRestart
  <2> QED BY <1>8, <2>1, <2>2, <2>3 DEF TypeOK, MasterRestart
<1> QED BY <1>1, <1>2, <1>3, <1>4, <1>5, <1>6, <1>7, <1>8 DEF MasterStep

(* The steps of the server and its users keep the types.                   *)
LEMMA ServerStepTypeOK == TypeOK /\ ServerStep => TypeOK'
<1> SUFFICES ASSUME TypeOK, ServerStep PROVE TypeOK'
  OBVIOUS
<1> USE ValueAssumption
<1>1. ASSUME NEW v \in Vars, NEW x \in Legal[v], UserEdit(v, x) PROVE TypeOK'
  BY <1>1 DEF TypeOK, UserEdit, Settled
<1>2. CASE ServerStores
  BY <1>2 DEF TypeOK, ServerStores, Settled
<1>3. CASE ServerFails
  BY <1>3 DEF TypeOK, ServerFails
<1> QED BY <1>1, <1>2, <1>3 DEF ServerStep

(* Type correctness, for every contract and every bound.                   *)
THEOREM TypeCorrect == Spec => []TypeOK
<1>1. TypeOK /\ [Next]_vars => TypeOK'
  <2> SUFFICES ASSUME TypeOK, [Next]_vars PROVE TypeOK'
    OBVIOUS
  <2>1. CASE Next
    BY <2>1, ModuleStepTypeOK, MasterStepTypeOK, ServerStepTypeOK DEF Next
  <2>2. CASE UNCHANGED vars
    BY <2>2 DEF TypeOK, vars
  <2> QED BY <2>1, <2>2
<1> QED BY InitTypeOK, <1>1, PTL DEF Spec

-----------------------------------------------------------------------------
(* Where values come from.                                                 *)

(* The steps of the module keep every value with the variable it was given *)
(* to: a report only carries flagged values.                               *)
LEMMA ModuleStepGiven == TypeOK /\ GivenInv /\ ModuleStep => GivenInv'
<1> SUFFICES ASSUME TypeOK, GivenInv, ModuleStep PROVE GivenInv'
  OBVIOUS
<1> USE ValueAssumption
<1>1. ASSUME NEW v \in Vars, NEW x \in Legal[v], LocalChange(v, x) PROVE GivenInv'
  BY <1>1 DEF TypeOK, GivenInv, OnlyGivenValues, LocalChange
<1>2. ASSUME NEW acked \in BOOLEAN, ModuleHandlesRequest(acked) PROVE GivenInv'
  <2>1. \A v \in Vars : ModuleChanges[v] # None => ModuleChanges[v] \in Legal[v]
    BY DEF GivenInv, ModuleChanges
  <2>2. toMas'.cmd = "mcSetSettings" => toMas'.vals = ModuleChanges
    BY <1>2 DEF ModuleHandlesRequest
  <2> QED BY <1>2, <2>1, <2>2 DEF GivenInv, OnlyGivenValues, ModuleHandlesRequest
<1>3. ASSUME NEW acked \in BOOLEAN, ModuleHandlesSettings(acked) PROVE GivenInv'
  <2>1. PICK pos \in [Vars -> Vars] : ModuleSetValues(pos, toMod.vals)
    BY <1>3 DEF ModuleHandlesSettings
  <2>2. \A v \in Vars : mchg'[v] => mval'[v] \in Legal[v]
    BY <2>1 DEF GivenInv, ModuleSetValues, Ignored
  <2>3. toMas'.cmd = "mcSetOutputs"
    BY <1>3 DEF ModuleHandlesSettings
  <2> QED BY <1>3, <2>2, <2>3 DEF GivenInv, OnlyGivenValues, ModuleHandlesSettings
<1>4. CASE ModuleGivesUp
  BY <1>4 DEF GivenInv, OnlyGivenValues, ModuleGivesUp
<1>5. CASE ModuleRestart
  BY <1>5 DEF GivenInv, OnlyGivenValues, ModuleRestart
<1> QED BY <1>1, <1>2, <1>3, <1>4, <1>5 DEF ModuleStep

(* The steps of the master keep every value with the variable it was given *)
(* to: a set is marked updated when the database has filled it, and a POST *)
(* only carries flagged values.                                            *)
LEMMA MasterStepGiven == TypeOK /\ GivenInv /\ MasterStep => GivenInv'
<1> SUFFICES ASSUME TypeOK, GivenInv, MasterStep PROVE GivenInv'
  OBVIOUS
<1> USE ValueAssumption
<1>1. CASE StartTransfer
  BY <1>1 DEF GivenInv, OnlyGivenValues, StartTransfer
<1>2. CASE SendTimeout
  BY <1>2 DEF GivenInv, OnlyGivenValues, SendTimeout
<1>3. CASE ReplyTimeout
  BY <1>3 DEF GivenInv, OnlyGivenValues, ReplyTimeout
<1>4. CASE SendSettingsToModule
  BY <1>4 DEF GivenInv, OnlyGivenValues, SendSettingsToModule
<1>5. ASSUME NEW cmd \in {"mcSetSettings", "mcSetOutputs"}, NEW acked \in BOOLEAN,
             MasterHandles(cmd, acked)
      PROVE  GivenInv'
  <2>1. CASE cmd = "mcSetSettings"
    <3>1. /\ \A v \in Vars : schg'[v] => sval'[v] \in Legal[v]
          /\ supd' => \A v \in Vars : sval'[v] \in Legal[v]
      BY <1>5, <2>1 DEF GivenInv, OnlyGivenValues, MasterHandles, MasterSetValues
    <3>2. toMas' \in {toMas, NoPacket}
      BY <1>5 DEF MasterHandles
    <3> QED BY <1>5, <3>1, <3>2 DEF GivenInv, OnlyGivenValues, MasterHandles
  <2>2. CASE cmd = "mcSetOutputs"
    BY <1>5, <2>2 DEF GivenInv, OnlyGivenValues, MasterHandles
  <2> QED BY <2>1, <2>2
<1>6. ASSUME NEW ok \in BOOLEAN, PutSettings(ok) PROVE GivenInv'
  <2>1. \A v \in Vars : MasterChanges[v] # None => MasterChanges[v] \in Legal[v]
    BY DEF GivenInv, MasterChanges
  <2>2. post' \in {MasterChanges, Nothing}
    BY <1>6 DEF PutSettings
  <2> QED BY <1>6, <2>1, <2>2 DEF GivenInv, OnlyGivenValues, PutSettings
<1>7. ASSUME NEW ok \in BOOLEAN, GetSettings(ok) PROVE GivenInv'
  <2>1. CASE ok
    BY <1>7, <2>1 DEF GivenInv, OnlyGivenValues, GetSettings, MasterReadDatabase
  <2>2. CASE ~ok
    BY <1>7, <2>2 DEF GivenInv, OnlyGivenValues, GetSettings
  <2> QED BY <2>1, <2>2
<1>8. CASE MasterRestart
  BY <1>8 DEF GivenInv, OnlyGivenValues, MasterRestart
<1> QED BY <1>1, <1>2, <1>3, <1>4, <1>5, <1>6, <1>7, <1>8 DEF MasterStep

(* So do the steps of the server and its users.                            *)
LEMMA ServerStepGiven == TypeOK /\ GivenInv /\ ServerStep => GivenInv'
<1> SUFFICES ASSUME TypeOK, GivenInv, ServerStep PROVE GivenInv'
  OBVIOUS
<1> USE ValueAssumption
<1>1. ASSUME NEW v \in Vars, NEW x \in Legal[v], UserEdit(v, x) PROVE GivenInv'
  BY <1>1 DEF TypeOK, GivenInv, OnlyGivenValues, UserEdit
<1>2. CASE ServerStores
  BY <1>2 DEF GivenInv, OnlyGivenValues, ServerStores
<1>3. CASE ServerFails
  BY <1>3 DEF GivenInv, OnlyGivenValues, ServerFails
<1> QED BY <1>1, <1>2, <1>3 DEF ServerStep

(* SettingsSync.GivenInv, which is inductive: what is flagged, reported or *)
(* posted for a setting has been given to that setting (is_updated guards  *)
(* in get_values, add_json_settings and send_settings).                    *)
THEOREM GivenAlways == Spec => []GivenInv
<1>1. Init => GivenInv
  BY DEF Init, GivenInv, OnlyGivenValues
<1>2. TypeOK /\ GivenInv /\ [Next]_vars => GivenInv'
  <2> SUFFICES ASSUME TypeOK, GivenInv, [Next]_vars PROVE GivenInv'
    OBVIOUS
  <2>1. CASE Next
    BY <2>1, ModuleStepGiven, MasterStepGiven, ServerStepGiven DEF Next
  <2>2. CASE UNCHANGED vars
    BY <2>2 DEF GivenInv, OnlyGivenValues, vars
  <2> QED BY <2>1, <2>2
<1> QED BY <1>1, <1>2, TypeCorrect, PTL DEF Spec

(* Whatever is lost, repeated or restarted, the content of a restarted     *)
(* device and the value of another variable never reach the database, nor  *)
(* a master whose settings are marked as updated.                          *)
THEOREM GivenCorrect == Spec => []OnlyGivenValues
<1>1. GivenInv => OnlyGivenValues
  BY DEF GivenInv
<1> QED BY <1>1, GivenAlways, PTL

-----------------------------------------------------------------------------
(* A flagged value is replaced only from the side it came from.            *)

(* No step of the system replaces a flagged value with one from the other  *)
(* side: in the module by anything but its own sketch, in the master by    *)
(* anything but the module's report; restarts apart.                       *)
THEOREM FlaggedCorrect == Spec => FlaggedValueKept
<1>1. TypeOK /\ [Next]_vars => [KeepsFlagged]_vars
  <2> SUFFICES ASSUME TypeOK, Next PROVE KeepsFlagged
    OBVIOUS
  <2>1. ASSUME NEW v \in Vars, NEW x \in Legal[v], LocalChange(v, x) PROVE KeepsFlagged
    BY <2>1 DEF TypeOK, KeepsFlagged, LocalChange
  <2>2. ASSUME NEW acked \in BOOLEAN, ModuleHandlesRequest(acked) PROVE KeepsFlagged
    BY <2>2 DEF KeepsFlagged, ModuleHandlesRequest
  <2>3. ASSUME NEW acked \in BOOLEAN, ModuleHandlesSettings(acked) PROVE KeepsFlagged
    BY <2>3 DEF TypeOK, KeepsFlagged, ModuleHandlesSettings, ModuleSetValues, Ignored, IsEqual
  <2>4. CASE ModuleRestart
    BY <2>4 DEF TypeOK, KeepsFlagged, ModuleRestart
  <2>5. ASSUME NEW cmd \in {"mcSetSettings", "mcSetOutputs"}, NEW acked \in BOOLEAN,
               MasterHandles(cmd, acked)
        PROVE  KeepsFlagged
    BY <2>5 DEF TypeOK, KeepsFlagged, MasterHandles, MasterSetValues
  <2>6. ASSUME NEW ok \in BOOLEAN, GetSettings(ok) PROVE KeepsFlagged
    BY <2>6 DEF TypeOK, KeepsFlagged, GetSettings, MasterReadDatabase
  <2>7. CASE MasterRestart
    BY <2>7 DEF TypeOK, KeepsFlagged, MasterRestart
  <2>8. CASE UNCHANGED <<mval, sval>>
    BY <2>8 DEF KeepsFlagged
  <2>9. ModuleStep => KeepsFlagged
    BY <2>1, <2>2, <2>3, <2>4, <2>8 DEF ModuleStep, ModuleGivesUp
  <2>10. MasterStep => KeepsFlagged
    BY <2>5, <2>6, <2>7, <2>8 DEF MasterStep, StartTransfer, SendTimeout, ReplyTimeout,
       SendSettingsToModule, PutSettings
  <2>11. ServerStep => KeepsFlagged
    BY <2>8 DEF ServerStep, UserEdit, ServerStores, ServerFails
  <2> QED BY <2>9, <2>10, <2>11 DEF Next
<1> QED BY <1>1, TypeCorrect, PTL DEF Spec, FlaggedValueKept

-----------------------------------------------------------------------------
(* No change of the first variable is lost until the master loses power.*)

(* The steps of the module keep the hand-over.                             *)
LEMMA ModuleStepHeld == TypeOK /\ HandOver /\ ModuleStep => HandOver'
<1> SUFFICES ASSUME TypeOK, HandOver, ModuleStep PROVE HandOver'
  OBVIOUS
<1> USE ValueAssumption, NAssumption
<1>0. 1 \in Vars
  OBVIOUS
<1>1. ASSUME NEW v \in Vars, NEW x \in Legal[v], LocalChange(v, x) PROVE HandOver'
  <2>1. CASE v = 1
    <3>1. mval'[1] = x /\ mchg'[1] /\ x # None
      BY <1>1, <2>1 DEF TypeOK, LocalChange
    <3>2. wanted'[1] = IF x = dval[1] \/ (x = sval[1] /\ ~schg[1]) THEN None ELSE x
      BY <1>1, <2>1 DEF TypeOK, LocalChange
    <3> QED BY <1>1, <3>1, <3>2 DEF HandOver, ChangeHeld, LocalChange
  <2>2. CASE v # 1
    <3>1. mval'[1] = mval[1] /\ mchg'[1] = mchg[1] /\ wanted'[1] = wanted[1]
      BY <1>0, <1>1, <2>2 DEF TypeOK, LocalChange
    <3> QED BY <1>1, <3>1 DEF HandOver, ChangeHeld, LocalChange
  <2> QED BY <2>1, <2>2
<1>2. ASSUME NEW acked \in BOOLEAN, ModuleHandlesRequest(acked) PROVE HandOver'
  <2>1. toMas'.cmd = "mcSetSettings" => toMas'.vals = ModuleChanges
    BY <1>2 DEF ModuleHandlesRequest
  <2>2. ModuleChanges[1] # None => mchg[1] /\ ModuleChanges[1] = mval[1]
    BY <1>0 DEF ModuleChanges
  <2>3. toMod.cmd # "mcSetSettings" /\ toMod'.cmd # "mcSetSettings"
    BY <1>2 DEF ModuleHandlesRequest
  <2> QED BY <1>2, <2>1, <2>2, <2>3
       DEF HandOver, ChangeHeld, ModuleHandlesRequest
<1>3. ASSUME NEW acked \in BOOLEAN, ModuleHandlesSettings(acked) PROVE HandOver'
  <2>1. PICK pos \in [Vars -> Vars] : ModuleSetValues(pos, toMod.vals)
    BY <1>3 DEF ModuleHandlesSettings
  <2>2. toMod.vals[1] = sval[1] /\ pc = "sending"
    BY <1>3 DEF HandOver, ModuleHandlesSettings
  <2>3. mchg'[1] = Ignored(1, sval[1]) /\ mval'[1] = IF Ignored(1, sval[1]) THEN mval[1] ELSE sval[1]
    BY <1>0, <2>1, <2>2 DEF ModuleSetValues, ReadPositions
  <2>4. toMas'.cmd = "mcSetOutputs"
    BY <1>3 DEF ModuleHandlesSettings
  <2>5. (toMod' = toMod /\ pc' = pc) \/ toMod' = NoPacket
    BY <1>3 DEF ModuleHandlesSettings
  <2> QED BY <1>3, <2>2, <2>3, <2>4, <2>5
       DEF HandOver, ChangeHeld, Ignored, IsEqual, ModuleHandlesSettings
<1>4. CASE ModuleGivesUp
  BY <1>4 DEF HandOver, ChangeHeld, ModuleGivesUp
<1>5. CASE ModuleRestart
  <2>1. /\ ~mchg'[1] /\ toMas' = NoPacket
        /\ wanted'[1] = IF schg[1] /\ sval[1] = wanted[1] THEN wanted[1] ELSE None
    BY <1>0, <1>5 DEF ModuleRestart
  <2> QED BY <1>5, <2>1 DEF HandOver, ChangeHeld, ModuleRestart
<1> QED BY <1>1, <1>2, <1>3, <1>4, <1>5 DEF ModuleStep

(* The steps of the master keep it, except a power loss.                   *)
LEMMA MasterStepHeld ==
  ASSUME TypeOK, HandOver, MasterStep, count'.master = 0
  PROVE  HandOver'
<1> USE ValueAssumption, NAssumption
<1>0. 1 \in Vars
  OBVIOUS
<1>1. CASE StartTransfer
  BY <1>1 DEF HandOver, ChangeHeld, StartTransfer
<1>2. CASE SendTimeout
  BY <1>2 DEF HandOver, ChangeHeld, SendTimeout
<1>3. CASE ReplyTimeout
  BY <1>3 DEF HandOver, ChangeHeld, ReplyTimeout
<1>4. CASE SendSettingsToModule
  BY <1>4 DEF HandOver, ChangeHeld, SendSettingsToModule
<1>5. ASSUME NEW cmd \in {"mcSetSettings", "mcSetOutputs"}, NEW acked \in BOOLEAN,
             MasterHandles(cmd, acked)
      PROVE  HandOver'
  <2>1. toMas' \in {toMas, NoPacket}
    BY <1>5 DEF MasterHandles
  <2>2. toMod.cmd # "mcSetSettings"
    BY <1>5 DEF HandOver, MasterHandles
  <2>3. CASE cmd = "mcSetSettings"
    <3>1. /\ sval'[1] = IF toMas.vals[1] # None THEN toMas.vals[1] ELSE sval[1]
          /\ schg'[1] = (schg[1] \/ (toMas.vals[1] # None /\ toMas.vals[1] # sval[1]))
      BY <1>0, <1>5, <2>3 DEF MasterHandles, MasterSetValues
    <3> QED BY <1>5, <2>1, <2>2, <2>3, <3>1 DEF HandOver, ChangeHeld, MasterHandles
  <2>4. CASE cmd = "mcSetOutputs"
    BY <1>5, <2>1, <2>2, <2>4 DEF HandOver, ChangeHeld, MasterHandles
  <2> QED BY <2>3, <2>4
<1>6. ASSUME NEW ok \in BOOLEAN, PutSettings(ok) PROVE HandOver'
  BY <1>6 DEF HandOver, ChangeHeld, PutSettings
<1>7. ASSUME NEW ok \in BOOLEAN, GetSettings(ok) PROVE HandOver'
  <2>1. CASE ok
    <3>1. /\ sval'[1] = IF schg[1] THEN sval[1] ELSE dval[1]
          /\ schg'[1] = (schg[1] /\ ~IsEqual(sval[1], dval[1]))
      BY <1>0, <1>7, <2>1 DEF GetSettings, MasterReadDatabase
    <3> QED BY <1>7, <3>1 DEF HandOver, ChangeHeld, GetSettings, IsEqual
  <2>2. CASE ~ok
    BY <1>7, <2>2 DEF HandOver, ChangeHeld, GetSettings
  <2> QED BY <2>1, <2>2
<1>8. CASE MasterRestart
  BY <1>8 DEF TypeOK, MasterRestart
<1> QED BY <1>1, <1>2, <1>3, <1>4, <1>5, <1>6, <1>7, <1>8 DEF MasterStep

(* The steps of the server and its users keep it: a value that reaches the *)
(* database is no longer wanted.                                           *)
LEMMA ServerStepHeld == TypeOK /\ HandOver /\ ServerStep => HandOver'
<1> SUFFICES ASSUME TypeOK, HandOver, ServerStep PROVE HandOver'
  OBVIOUS
<1> USE NAssumption
<1>1. ASSUME wanted' = Settled(wanted, dval'),
             UNCHANGED <<module, master, pc, toMod, toMas>>
      PROVE  HandOver'
  <2>1. wanted'[1] = IF wanted[1] = dval'[1] THEN None ELSE wanted[1]
    BY <1>1 DEF Settled
  <2> QED BY <1>1, <2>1 DEF HandOver, ChangeHeld
<1>2. ASSUME NEW v \in Vars, NEW x \in Legal[v], UserEdit(v, x) PROVE HandOver'
  BY <1>1, <1>2 DEF UserEdit
<1>3. CASE ServerStores
  BY <1>1, <1>3 DEF ServerStores
<1>4. CASE ServerFails
  BY <1>4 DEF HandOver, ChangeHeld, ServerFails
<1> QED BY <1>2, <1>3, <1>4 DEF ServerStep

(* The master's power losses are counted, and nothing takes one back.      *)
LEMMA PowerLossesCounted ==
  ASSUME TypeOK, Next
  PROVE  \/ count'.master = count.master
         \/ count.master < MaxRestarts.master /\ count'.master = count.master + 1
<1>1. ASSUME ModuleStep PROVE count'.master = count.master
  BY <1>1 DEF TypeOK, ModuleStep, LocalChange, ModuleHandlesRequest, ModuleHandlesSettings,
     ModuleGivesUp, ModuleRestart
<1>2. CASE MasterStep
  BY <1>2 DEF TypeOK, MasterStep, StartTransfer, SendTimeout, ReplyTimeout, SendSettingsToModule,
     MasterHandles, PutSettings, GetSettings, MasterRestart
<1>3. ASSUME ServerStep PROVE count'.master = count.master
  BY <1>3 DEF TypeOK, ServerStep, UserEdit, ServerStores, ServerFails
<1> QED BY <1>1, <1>2, <1>3 DEF Next

(* SettingsSync.HeldInv, for every contract: until the master loses power, *)
(* packets of the first setting agree with their sender, and a change of   *)
(* it is held, flagged (ModuleInterface.h:79-90).                          *)
THEOREM HeldAlways == Spec => []HeldInv
<1>1. Init => HeldInv
  BY NAssumption DEF Init, HeldInv, HandOver, ChangeHeld
<1>2. TypeOK /\ HeldInv /\ [Next]_vars => HeldInv'
  <2> SUFFICES ASSUME TypeOK, HeldInv, [Next]_vars, count'.master = 0 PROVE HandOver'
    BY DEF HeldInv
  <2>1. CASE Next
    <3>1. count.master = 0
      BY <2>1, PowerLossesCounted DEF TypeOK
    <3> QED BY <2>1, <3>1, ModuleStepHeld, MasterStepHeld, ServerStepHeld DEF Next, HeldInv
  <2>2. CASE UNCHANGED vars
    BY <2>2 DEF HeldInv, HandOver, ChangeHeld, vars
  <2> QED BY <2>1, <2>2
<1> QED BY <1>1, <1>2, TypeCorrect, PTL DEF Spec

(* A change of the first setting of a contract stays with the module or    *)
(* the master until it is in the database, for every contract, until the   *)
(* master loses power (ModuleInterface.h:79-90).                           *)
THEOREM FirstHeldCorrect == Spec => []FirstChangeHeld
<1>1. HeldInv => FirstChangeHeld
  BY DEF HeldInv, HandOver, FirstChangeHeld
<1> QED BY <1>1, HeldAlways, PTL

(* A module with one setting loses no change at all, if the master never   *)
(* loses power (ModuleInterface.h:79-90).                                  *)
THEOREM OneHeldCorrect ==
  ASSUME MaxRestarts.master = 0, N = 1
  PROVE  Spec => []NoChangeLost
<1> DEFINE Powered == count.master = 0
<1>1. Init => Powered
  BY DEF Init
<1>2. TypeOK /\ Powered /\ [Next]_vars => Powered'
  BY PowerLossesCounted DEF vars
<1>3. FirstChangeHeld /\ Powered => NoChangeLost
  BY DEF FirstChangeHeld, NoChangeLost
<1> HIDE DEF Powered
<1> QED BY <1>1, <1>2, <1>3, TypeCorrect, FirstHeldCorrect, PTL DEF Spec

-----------------------------------------------------------------------------
(* The first setting is handed over as SettingsStore says.                 *)

(* What packets on their way say of it, also after the master has lost     *)
(* power: a set is what the master holds, a report what the module has     *)
(* flagged.                                                                *)
Transit ==
  /\ toMod.cmd = "mcSetSettings" => pc = "sending" /\ toMod.vals[1] = sval[1]
  /\ toMas.cmd = "mcSetSettings" /\ toMas.vals[1] # None =>
       mchg[1] /\ toMas.vals[1] = mval[1]

StoreStep == [FirstSetting!Next]_(FirstSetting!vars)

(* Nothing of the first setting changes.                                   *)
LEMMA StoreStutters ==
  ASSUME dval'[1] = dval[1], sval'[1] = sval[1], schg'[1] = schg[1], post'[1] = post[1],
         \/ mchg'[1] = mchg[1] /\ mval'[1] = mval[1]
         \/ ~mchg'[1] /\ ~mchg[1]
  PROVE  StoreStep
  BY DEF StoreStep, FirstSetting!vars

(* The steps of the module are its steps in SettingsStore.                 *)
LEMMA ModuleStepStore ==
  ASSUME TypeOK, GivenInv, Transit, ModuleStep
  PROVE  Transit' /\ StoreStep
<1> USE ValueAssumption, NAssumption
<1>0. 1 \in Vars
  OBVIOUS
<1>1. ASSUME NEW v \in Vars, NEW x \in Legal[v], LocalChange(v, x) PROVE Transit' /\ StoreStep
  <2>1. CASE v = 1
    <3>1. mval'[1] = x /\ mchg'[1]
      BY <1>1, <2>1 DEF TypeOK, LocalChange
    <3>2. Transit'
      BY <1>1 DEF Transit, LocalChange
    <3>3. FirstSetting!Change(x)
      BY <1>1, <3>1 DEF LocalChange, FirstSetting!Change
    <3> QED BY <2>1, <3>2, <3>3 DEF StoreStep, FirstSetting!Next
  <2>2. CASE v # 1
    <3>1. mval'[1] = mval[1] /\ mchg'[1] = mchg[1]
      BY <1>0, <1>1, <2>2 DEF TypeOK, LocalChange
    <3> QED BY <1>1, <3>1, StoreStutters DEF Transit, LocalChange
  <2> QED BY <2>1, <2>2
<1>2. ASSUME NEW acked \in BOOLEAN, ModuleHandlesRequest(acked) PROVE Transit' /\ StoreStep
  <2>1. toMas'.cmd = "mcSetSettings" => toMas'.vals = ModuleChanges
    BY <1>2 DEF ModuleHandlesRequest
  <2>2. ModuleChanges[1] # None => mchg[1] /\ ModuleChanges[1] = mval[1]
    BY <1>0 DEF ModuleChanges
  <2>3. toMod'.cmd # "mcSetSettings"
    BY <1>2 DEF ModuleHandlesRequest
  <2>4. Transit'
    BY <1>2, <2>1, <2>2, <2>3 DEF Transit, ModuleHandlesRequest
  <2> QED BY <1>2, <2>4, StoreStutters DEF ModuleHandlesRequest
<1>3. ASSUME NEW acked \in BOOLEAN, ModuleHandlesSettings(acked) PROVE Transit' /\ StoreStep
  <2>1. PICK pos \in [Vars -> Vars] : ModuleSetValues(pos, toMod.vals)
    BY <1>3 DEF ModuleHandlesSettings
  <2>2. toMod.vals[1] = sval[1]
    BY <1>3 DEF Transit, ModuleHandlesSettings
  <2>3. mchg'[1] = Ignored(1, sval[1]) /\ mval'[1] = IF Ignored(1, sval[1]) THEN mval[1] ELSE sval[1]
    BY <1>0, <2>1, <2>2 DEF ModuleSetValues, ReadPositions
  <2>4. Transit'
    <3>1. toMas'.cmd = "mcSetOutputs" /\ sval' = sval
      BY <1>3 DEF ModuleHandlesSettings
    <3>2. (toMod' = toMod /\ pc' = pc) \/ toMod' = NoPacket
      BY <1>3 DEF ModuleHandlesSettings
    <3> QED BY <3>1, <3>2 DEF Transit
  <2>5. CASE mchg[1] /\ ~Ignored(1, sval[1])
    <3>1. mval[1] = sval[1] /\ mval[1] # None
      BY <1>0, <2>5 DEF TypeOK, Ignored, IsEqual
    <3>2. FirstSetting!Confirm
      BY <1>3, <2>3, <2>5, <3>1 DEF ModuleHandlesSettings, FirstSetting!Confirm
    <3> QED BY <2>4, <3>2 DEF StoreStep, FirstSetting!Next
  <2>6. CASE ~mchg[1] \/ Ignored(1, sval[1])
    <3>1. \/ mchg'[1] = mchg[1] /\ mval'[1] = mval[1]
          \/ ~mchg'[1] /\ ~mchg[1]
      BY <1>0, <2>3, <2>6 DEF TypeOK, Ignored
    <3> QED BY <1>3, <2>4, <3>1, StoreStutters DEF ModuleHandlesSettings
  <2> QED BY <2>5, <2>6
<1>4. CASE ModuleGivesUp
  BY <1>4, StoreStutters DEF Transit, ModuleGivesUp
<1>5. CASE ModuleRestart
  <2>1. ~mchg'[1] /\ toMas' = NoPacket
    BY <1>0, <1>5 DEF ModuleRestart
  <2>2. Transit'
    BY <1>5, <2>1 DEF Transit, ModuleRestart
  <2>3. FirstSetting!LosePower
    BY <1>5, <2>1 DEF ModuleRestart, FirstSetting!LosePower
  <2> QED BY <2>2, <2>3 DEF StoreStep, FirstSetting!Next
<1> QED BY <1>1, <1>2, <1>3, <1>4, <1>5 DEF ModuleStep

(* The steps of the master are its steps there.                            *)
LEMMA MasterStepStore ==
  ASSUME TypeOK, GivenInv, Transit, MasterStep
  PROVE  Transit' /\ StoreStep
<1> USE ValueAssumption, NAssumption
<1>0. 1 \in Vars
  OBVIOUS
<1>1. CASE StartTransfer
  BY <1>1, StoreStutters DEF Transit, StartTransfer
<1>2. CASE SendTimeout
  BY <1>2, StoreStutters DEF Transit, SendTimeout
<1>3. CASE ReplyTimeout
  BY <1>3, StoreStutters DEF Transit, ReplyTimeout
<1>4. CASE SendSettingsToModule
  BY <1>4, StoreStutters DEF Transit, SendSettingsToModule
<1>5. ASSUME NEW cmd \in {"mcSetSettings", "mcSetOutputs"}, NEW acked \in BOOLEAN,
             MasterHandles(cmd, acked)
      PROVE  Transit' /\ StoreStep
  <2>1. Transit'
    <3>1. toMas' \in {toMas, NoPacket} /\ UNCHANGED <<toMod, mval, mchg>>
      BY <1>5 DEF MasterHandles
    <3>2. toMod.cmd # "mcSetSettings"
      BY <1>5 DEF Transit, MasterHandles
    <3> QED BY <3>1, <3>2 DEF Transit
  <2>2. CASE cmd = "mcSetSettings"
    <3>1. /\ sval'[1] = IF toMas.vals[1] # None THEN toMas.vals[1] ELSE sval[1]
          /\ schg'[1] = (schg[1] \/ (toMas.vals[1] # None /\ toMas.vals[1] # sval[1]))
      BY <1>0, <1>5, <2>2 DEF MasterHandles, MasterSetValues
    <3>2. CASE toMas.vals[1] = None
      <4>1. sval'[1] = sval[1] /\ schg'[1] = schg[1]
        BY <1>0, <3>1, <3>2 DEF TypeOK
      <4> QED BY <1>5, <2>1, <4>1, StoreStutters DEF MasterHandles
    <3>3. CASE toMas.vals[1] # None
      <4>1. mchg[1] /\ toMas.vals[1] = mval[1]
        BY <1>5, <2>2, <3>3 DEF Transit, MasterHandles
      <4>2. FirstSetting!HandOver
        BY <1>5, <3>1, <3>3, <4>1 DEF MasterHandles, FirstSetting!HandOver
      <4> QED BY <2>1, <4>2 DEF StoreStep, FirstSetting!Next
    <3> QED BY <3>2, <3>3
  <2>3. CASE cmd = "mcSetOutputs"
    BY <1>5, <2>1, <2>3, StoreStutters DEF MasterHandles
  <2> QED BY <2>2, <2>3
<1>6. ASSUME NEW ok \in BOOLEAN, PutSettings(ok) PROVE Transit' /\ StoreStep
  <2>1. Transit'
    BY <1>6 DEF Transit, PutSettings
  <2>2. post[1] = None /\ post' \in {MasterChanges, Nothing}
    BY <1>0, <1>6 DEF PutSettings
  <2>3. CASE post'[1] = None
    BY <1>6, <2>1, <2>2, <2>3, StoreStutters DEF PutSettings
  <2>4. CASE post'[1] # None
    <3>1. schg[1] /\ supd /\ post'[1] = sval[1]
      BY <1>0, <2>2, <2>4 DEF MasterChanges
    <3>2. sval[1] \in Legal[1]
      BY <1>0, <3>1 DEF GivenInv
    <3>3. FirstSetting!Post
      BY <1>6, <2>2, <3>1, <3>2 DEF PutSettings, FirstSetting!Post
    <3> QED BY <2>1, <3>3 DEF StoreStep, FirstSetting!Next
  <2> QED BY <2>3, <2>4
<1>7. ASSUME NEW ok \in BOOLEAN, GetSettings(ok) PROVE Transit' /\ StoreStep
  <2>1. Transit'
    BY <1>7 DEF Transit, GetSettings
  <2>2. CASE ok
    <3>1. /\ sval'[1] = IF schg[1] THEN sval[1] ELSE dval[1]
          /\ schg'[1] = (schg[1] /\ ~IsEqual(sval[1], dval[1]))
      BY <1>0, <1>7, <2>2 DEF GetSettings, MasterReadDatabase
    <3>2. CASE ~schg[1]
      <4>1. FirstSetting!Read
        BY <1>0, <1>7, <3>1, <3>2 DEF TypeOK, GetSettings, FirstSetting!Read
      <4> QED BY <2>1, <4>1 DEF StoreStep, FirstSetting!Next
    <3>3. CASE schg[1] /\ IsEqual(sval[1], dval[1])
      <4>1. FirstSetting!Settle
        BY <1>7, <3>1, <3>3 DEF GetSettings, IsEqual, FirstSetting!Settle
      <4> QED BY <2>1, <4>1 DEF StoreStep, FirstSetting!Next
    <3>4. CASE schg[1] /\ ~IsEqual(sval[1], dval[1])
      <4>1. sval'[1] = sval[1] /\ schg'[1] = schg[1]
        BY <1>0, <3>1, <3>4 DEF TypeOK
      <4> QED BY <1>7, <2>1, <4>1, StoreStutters DEF GetSettings
    <3> QED BY <3>2, <3>3, <3>4
  <2>3. CASE ~ok
    BY <1>7, <2>1, <2>3, StoreStutters DEF GetSettings
  <2> QED BY <2>2, <2>3
<1>8. CASE MasterRestart
  <2>1. sval'[1] = Default /\ schg'[1] = FALSE /\ toMod' = NoPacket
    BY <1>0, <1>8 DEF MasterRestart
  <2>2. Transit'
    BY <1>8, <2>1 DEF Transit, MasterRestart
  <2>3. FirstSetting!MasterLosesPower
    BY <1>8, <2>1 DEF MasterRestart, FirstSetting!MasterLosesPower
  <2> QED BY <2>2, <2>3 DEF StoreStep, FirstSetting!Next
<1> QED BY <1>1, <1>2, <1>3, <1>4, <1>5, <1>6, <1>7, <1>8 DEF MasterStep

(* The steps of the server and its users are steps of the database there.  *)
LEMMA ServerStepStore ==
  ASSUME TypeOK, GivenInv, Transit, ServerStep
  PROVE  Transit' /\ StoreStep
<1> USE ValueAssumption, NAssumption
<1>0. 1 \in Vars
  OBVIOUS
<1>1. Transit'
  BY DEF ServerStep, UserEdit, ServerStores, ServerFails, Transit
<1>2. ASSUME NEW v \in Vars, NEW x \in Legal[v], UserEdit(v, x) PROVE StoreStep
  <2>1. CASE v = 1
    <3>1. FirstSetting!Edit(x)
      BY <1>2, <2>1 DEF TypeOK, UserEdit, FirstSetting!Edit
    <3> QED BY <2>1, <3>1 DEF StoreStep, FirstSetting!Next
  <2>2. CASE v # 1
    <3>1. dval'[1] = dval[1]
      BY <1>0, <1>2, <2>2 DEF TypeOK, UserEdit
    <3> QED BY <1>2, <3>1, StoreStutters DEF UserEdit
  <2> QED BY <2>1, <2>2
<1>3. CASE ServerStores
  <2>0. mval' = mval /\ mchg' = mchg /\ sval' = sval /\ schg' = schg
    BY <1>3 DEF ServerStores
  <2>1. dval'[1] = (IF post[1] # None THEN post[1] ELSE dval[1]) /\ post'[1] = None
    BY <1>0, <1>3 DEF ServerStores
  <2>2. CASE post[1] = None
    BY <1>1, <2>0, <2>1, <2>2, StoreStutters
  <2>3. CASE post[1] # None
    <3>1. FirstSetting!Receive
      BY <2>0, <2>1, <2>3 DEF FirstSetting!Receive
    <3> QED BY <1>1, <3>1 DEF StoreStep, FirstSetting!Next
  <2> QED BY <2>2, <2>3
<1>4. CASE ServerFails
  <2>0. mval' = mval /\ mchg' = mchg /\ sval' = sval /\ schg' = schg /\ dval' = dval
    BY <1>4 DEF ServerFails
  <2>1. post'[1] = None
    BY <1>0, <1>4 DEF ServerFails
  <2>2. FirstSetting!Miss
    BY <2>0, <2>1 DEF FirstSetting!Miss
  <2> QED BY <1>1, <2>2 DEF StoreStep, FirstSetting!Next
<1> QED BY <1>1, <1>2, <1>3, <1>4 DEF ServerStep

(* Property SettingsSync.FirstImplementsStore, for every contract, set of  *)
(* values and bound: however packets are lost and repeated and devices     *)
(* restarted, the first setting moves as in SettingsStore, where the       *)
(* module and the master drop a change only when the next one has it.      *)
THEOREM StoreImplemented == Spec => FirstImplementsStore
<1>1. Init => FirstSetting!Init /\ Transit
  BY NAssumption DEF Init, FirstSetting!Init, Transit
<1>2. TypeOK /\ GivenInv /\ Transit /\ [Next]_vars => Transit' /\ StoreStep
  <2>1. ASSUME TypeOK, GivenInv, Transit, Next PROVE Transit' /\ StoreStep
    BY <2>1, ModuleStepStore, MasterStepStore, ServerStepStore DEF Next
  <2>2. ASSUME Transit, UNCHANGED vars PROVE Transit' /\ StoreStep
    BY <2>2, StoreStutters DEF Transit, vars
  <2> QED BY <2>1, <2>2
<1> QED BY <1>1, <1>2, GivenAlways, TypeCorrect, PTL
        DEF Spec, StoreStep, FirstImplementsStore, FirstSetting!Spec
=============================================================================
