---------------------------- MODULE SettingsSync ----------------------------
(***************************************************************************)
(* Bidirectional synchronisation of the settings of one module between the *)
(* database behind the web server, the master's copy and the module itself *)
(* (the scheme described at ModuleInterface.h:74-92).                      *)
(*                                                                         *)
(* The master runs the transfer cycle of PJONModuleInterfaceSet            *)
(* ::transfer_settings: ask the module for locally modified settings,      *)
(* post them, get all settings, send them to the module and wait for the   *)
(* reply with outputs and status.  The bus is PJON: a sender blocks until  *)
(* the packet is acknowledged or a timeout passes and repeats the packet   *)
(* meanwhile, so a lost acknowledgement duplicates the packet.             *)
(*                                                                         *)
(* Not in this module: contracts (both sides hold the same one), event     *)
(* flags, more than one transfer, values of different sizes.               *)
(***************************************************************************)
EXTENDS Naturals

CONSTANTS
  N,            \* number of setting variables in the contract
  Value,        \* values a variable can hold
  Legal,        \* Legal[v]: what a user or the module's sketch gives v
  Default,      \* content of a variable after a restart (all bytes zero)
  NeverEqual,   \* values is_equal never accepts (the float 0.0)
  None,         \* no value in this place of a packet
  MaxLocal,     \* bound on local changes in the module
  MaxEdits,     \* bound on edits in the database
  MaxRestarts   \* MaxRestarts.module, MaxRestarts.master: bounds on restarts

Vars == 1..N

ASSUME NAssumption == N \in Nat \ {0}
ASSUME ValueAssumption ==
  /\ Default \in Value
  /\ None \notin Value
  /\ NeverEqual \subseteq Value
  /\ Legal \in [Vars -> SUBSET Value]
ASSUME BoundAssumption ==
  /\ MaxLocal \in Nat
  /\ MaxEdits \in Nat
  /\ MaxRestarts \in [module : Nat, master : Nat]

VARIABLES
  mval, mchg, mupd,  \* module: values, changed-flags, settings.is_updated()
  sval, schg, supd,  \* the same in the master's copy of the module
  smod,              \* MODIFIED_SETTINGS in the status the master last got
  pc,                \* where the master is in its transfer cycle
  toMod,             \* packet the master is sending
  toMas,             \* packet the module is sending
  dval,              \* database
  post,              \* POST request the server has not processed yet
  wanted,            \* history: newest local change not yet in the database
  count              \* history: changes, edits and restarts so far

module == <<mval, mchg, mupd>>
master == <<sval, schg, supd, smod>>
vars == <<mval, mchg, mupd, sval, schg, supd, smod, pc, toMod, toMas,
          dval, post, wanted, count>>

-----------------------------------------------------------------------------
(* Packets.  vals[v] = None: the packet has no value for variable v.       *)

OptValue == Value \cup {None}
Nothing  == [v \in Vars |-> None]

NoPacket          == [cmd |-> "none"]
SendSettings      == [cmd |-> "mcSendSettings"]
SetSettings(vals) == [cmd |-> "mcSetSettings", vals |-> vals]
SetOutputs(mod)   == [cmd |-> "mcSetOutputs", modified |-> mod]

MasterPacket == {NoPacket, SendSettings} \cup {SetSettings(f) : f \in [Vars -> Value]}
ModulePacket == {NoPacket} \cup {SetSettings(f) : f \in [Vars -> OptValue]}
                           \cup {SetOutputs(b) : b \in BOOLEAN}

Phase == {"idle", "ask", "await", "put", "get", "send", "sending", "outputs"}

-----------------------------------------------------------------------------
(* ModuleVariable::is_equal.  Distinct model values are further apart than *)
(* its relative tolerance; for 0.0 the tolerance is 0 and nothing is       *)
(* strictly closer than that.                                              *)
IsEqual(a, b) == a = b /\ a \notin NeverEqual

(* A module refuses a differing value while its own change is pending. *)
Ignored(v, x) == mchg[v] /\ ~IsEqual(mval[v], x)

(* The read position of set_values at each variable: the parser starts at  *)
(* the first value and steps over a value only when it has been used.      *)
ReadPositions(pos, vals) ==
  /\ pos[1] = 1
  /\ \A v \in Vars \ {N} :
       pos[v + 1] = IF Ignored(v, vals[pos[v]]) THEN pos[v] ELSE pos[v] + 1

(* ModuleVariableSet::set_values in a module, for a full set of values.    *)
ModuleSetValues(pos, vals) ==
  LET keep(v) == Ignored(v, vals[pos[v]])
  IN  /\ ReadPositions(pos, vals)
      /\ mval' = [v \in Vars |-> IF keep(v) THEN mval[v] ELSE vals[pos[v]]]
      /\ mchg' = [v \in Vars |-> keep(v)]
      /\ mupd' = TRUE

(* set_values in the master: every value that came is used, and a variable *)
(* is flagged when its bytes change.  Deviations: the packet is read as if *)
(* it were a full set; a part of a set makes the settings updated.         *)
MasterSetValues_AsFullSet(vals) ==
  /\ sval' = vals
  /\ schg' = [v \in Vars |-> schg[v] \/ vals[v] # sval[v]]
  /\ supd' = TRUE
MasterSetValues_PartUpdates(vals) ==
  LET given(v) == vals[v] # None
  IN  /\ sval' = [v \in Vars |-> IF given(v) THEN vals[v] ELSE sval[v]]
      /\ schg' = [v \in Vars |-> schg[v] \/ (given(v) /\ vals[v] # sval[v])]
      /\ supd' = (supd \/ \E v \in Vars : given(v))
MasterSetValues(vals) ==
  LET given(v) == vals[v] # None
  IN  /\ sval' = [v \in Vars |-> IF given(v) THEN vals[v] ELSE sval[v]]
      /\ schg' = [v \in Vars |-> schg[v] \/ (given(v) /\ vals[v] # sval[v])]
      /\ supd' = (supd \/ \A v \in Vars : given(v))

(* get_values in the module, changes only; nothing unless updated.         *)
ModuleChanges ==
  [v \in Vars |-> IF mupd /\ mchg[v] THEN mval[v] ELSE None]

(* MITransferBase::set_mv_and_changed_flags for every value from the       *)
(* database, single-transfer build.  Deviations: the flag is reset by any  *)
(* answer; it is never reset.                                              *)
MasterReadDatabase_AlwaysResets ==
  /\ sval' = [v \in Vars |-> IF schg[v] THEN sval[v] ELSE dval[v]]
  /\ schg' = [v \in Vars |-> FALSE]
  /\ supd' = TRUE
MasterReadDatabase_NeverResets ==
  /\ sval' = [v \in Vars |-> IF schg[v] THEN sval[v] ELSE dval[v]]
  /\ schg' = schg
  /\ supd' = TRUE
MasterReadDatabase ==
  /\ sval' = [v \in Vars |-> IF schg[v] THEN sval[v] ELSE dval[v]]
  /\ schg' = [v \in Vars |-> schg[v] /\ ~IsEqual(sval[v], dval[v])]
  /\ supd' = TRUE

(* The modified settings a POST carries (add_json_settings).               *)
MasterChanges ==
  [v \in Vars |-> IF supd /\ schg[v] THEN sval[v] ELSE None]

(* A history step: a wanted value that is in the database is no longer so. *)
Settled(w, db) == [v \in Vars |-> IF w[v] = db[v] THEN None ELSE w[v]]

-----------------------------------------------------------------------------
Init ==
  /\ mval = [v \in Vars |-> Default] /\ mchg = [v \in Vars |-> FALSE]
  /\ mupd = FALSE
  /\ sval = [v \in Vars |-> Default] /\ schg = [v \in Vars |-> FALSE]
  /\ supd = FALSE /\ smod = FALSE
  /\ pc = "idle" /\ toMod = NoPacket /\ toMas = NoPacket
  /\ dval \in {d \in [Vars -> Value] : \A v \in Vars : d[v] \in Legal[v]}
  /\ post = Nothing
  /\ wanted = Nothing
  /\ count = [local |-> 0, edits |-> 0, module |-> 0, master |-> 0]

-----------------------------------------------------------------------------
(* The module.  While it sends it blocks: neither its sketch nor its       *)
(* receiver runs.                                                          *)

(* The sketch changes a setting, after a button press for instance.        *)
(* The change counts as delivered at once when the master already holds    *)
(* the value unflagged: it is then the database that moves on.             *)
LocalChange(v, x) ==
  /\ toMas = NoPacket
  /\ count.local < MaxLocal
  /\ x # mval[v]
  /\ mval' = [mval EXCEPT ![v] = x]
  /\ mchg' = [mchg EXCEPT ![v] = TRUE]
  /\ wanted' = [wanted EXCEPT ![v] =
                  IF x = dval[v] \/ (x = sval[v] /\ ~schg[v]) THEN None ELSE x]
  /\ count' = [count EXCEPT !.local = @ + 1]
  /\ UNCHANGED <<mupd, master, pc, toMod, toMas, dval, post>>

(* The module handles mcSendSettings.  Nothing is replied when no variable *)
(* is flagged: the buffer stays empty.                                     *)
ModuleHandlesRequest(acked) ==
  /\ toMas = NoPacket
  /\ toMod = SendSettings
  /\ toMas' = IF \E v \in Vars : mchg[v] THEN SetSettings(ModuleChanges) ELSE NoPacket
  /\ toMod' = IF acked THEN NoPacket ELSE toMod
  /\ pc' = IF acked THEN "await" ELSE pc
  /\ UNCHANGED <<module, master, dval, post, wanted, count>>

(* The module handles mcSetSettings and replies with outputs and status.   *)
ModuleHandlesSettings(acked) ==
  /\ toMas = NoPacket
  /\ toMod.cmd = "mcSetSettings"
  /\ \E pos \in [Vars -> Vars] : ModuleSetValues(pos, toMod.vals)
  /\ toMas' = SetOutputs(\E v \in Vars : mchg'[v])
  /\ toMod' = IF acked THEN NoPacket ELSE toMod
  /\ pc' = IF acked THEN "outputs" ELSE pc
  /\ UNCHANGED <<master, dval, post, wanted, count>>

(* No acknowledgement came within MI_SEND_TIMEOUT: the reply is lost.      *)
ModuleGivesUp ==
  /\ toMas # NoPacket
  /\ toMas' = NoPacket
  /\ UNCHANGED <<module, master, pc, toMod, dval, post, wanted, count>>

(* Power loss: RAM is gone, and with it a change only the module knew.     *)
ModuleRestart ==
  /\ count.module < MaxRestarts.module
  /\ mval' = [v \in Vars |-> Default]
  /\ mchg' = [v \in Vars |-> FALSE]
  /\ mupd' = FALSE
  /\ toMas' = NoPacket
  /\ wanted' = [v \in Vars |-> IF schg[v] /\ sval[v] = wanted[v] THEN wanted[v] ELSE None]
  /\ count' = [count EXCEPT !.module = @ + 1]
  /\ UNCHANGED <<master, pc, toMod, dval, post>>

-----------------------------------------------------------------------------
(* The master.                                                             *)

(* The transfer interval has passed; update_settings asks for modified     *)
(* settings when the last status said there are any.                       *)
StartTransfer ==
  /\ pc = "idle"
  /\ pc' = IF smod THEN "ask" ELSE "put"
  /\ toMod' = IF smod THEN SendSettings ELSE NoPacket
  /\ UNCHANGED <<module, master, toMas, dval, post, wanted, count>>

(* A packet from the module arrives while the master is receiving, which   *)
(* it also does for other modules just before this one's turn to be sent   *)
(* its settings.                                                           *)
(* receive_packet ends when the awaited command has been handled; since    *)
(* the master has no reply to mcSetSettings, that command never counts as  *)
(* handled and the wait for it always runs into its timeout.               *)
MasterHandles(cmd, acked) ==
  /\ pc \in {"idle", "await", "put", "send", "outputs"}
  /\ toMas.cmd = cmd
  /\ \/ /\ cmd = "mcSetSettings"
        /\ MasterSetValues(toMas.vals)
        /\ UNCHANGED <<smod, pc>>
     \/ /\ cmd = "mcSetOutputs"
        /\ smod' = toMas.modified
        /\ pc' = IF pc = "outputs" THEN "idle" ELSE pc
        /\ UNCHANGED <<sval, schg, supd>>
  /\ toMas' = IF acked THEN NoPacket ELSE toMas
  /\ UNCHANGED <<module, toMod, dval, post, wanted, count>>

(* send: no acknowledgement within MI_SEND_TIMEOUT.                        *)
SendTimeout ==
  /\ pc \in {"ask", "sending"}
  /\ pc' = IF pc = "ask" THEN "put" ELSE "idle"
  /\ toMod' = NoPacket
  /\ UNCHANGED <<module, master, toMas, dval, post, wanted, count>>

(* receive_packet: no reply within MI_REQUEST_TIMEOUT.                     *)
ReplyTimeout ==
  /\ pc \in {"await", "outputs"}
  /\ pc' = IF pc = "await" THEN "put" ELSE "idle"
  /\ UNCHANGED <<module, master, toMod, toMas, dval, post, wanted, count>>

(* put_settings.  The master does not wait for the server's answer: the    *)
(* request may be processed later, or never.  One request is in flight at  *)
(* a time: the next is several seconds away.                               *)
PutSettings(sent) ==
  /\ pc = "put"
  /\ post = Nothing
  /\ post' = IF sent /\ (\E v \in Vars : schg[v]) THEN MasterChanges ELSE Nothing
  /\ pc' = "get"
  /\ UNCHANGED <<module, master, toMod, toMas, dval, wanted, count>>

(* get_settings, answered or not.                                          *)
GetSettings(answered) ==
  /\ pc = "get"
  /\ IF answered THEN MasterReadDatabase ELSE UNCHANGED <<sval, schg, supd>>
  /\ pc' = "send"
  /\ UNCHANGED <<module, smod, toMod, toMas, dval, post, wanted, count>>

(* send_settings: all values, once they have been received.                *)
SendSettingsToModule ==
  /\ pc = "send"
  /\ pc' = IF supd THEN "sending" ELSE "idle"
  /\ toMod' = IF supd THEN SetSettings(sval) ELSE NoPacket
  /\ UNCHANGED <<module, master, toMas, dval, post, wanted, count>>

(* Power loss in the master.  The contracts are exchanged again before the *)
(* next transfer does anything, which leaves the state unchanged here.     *)
MasterRestart ==
  /\ count.master < MaxRestarts.master
  /\ sval' = [v \in Vars |-> Default]
  /\ schg' = [v \in Vars |-> FALSE]
  /\ supd' = FALSE
  /\ smod' = FALSE
  /\ pc' = "idle"
  /\ toMod' = NoPacket
  /\ count' = [count EXCEPT !.master = @ + 1]
  /\ UNCHANGED <<module, toMas, dval, post, wanted>>

-----------------------------------------------------------------------------
(* The database and its users.                                             *)

UserEdit(v, x) ==
  /\ count.edits < MaxEdits
  /\ x # dval[v]
  /\ dval' = [dval EXCEPT ![v] = x]
  /\ wanted' = Settled(wanted, dval')
  /\ count' = [count EXCEPT !.edits = @ + 1]
  /\ UNCHANGED <<module, master, pc, toMod, toMas, post>>

ServerStores ==
  /\ post # Nothing
  /\ dval' = [v \in Vars |-> IF post[v] # None THEN post[v] ELSE dval[v]]
  /\ post' = Nothing
  /\ wanted' = Settled(wanted, dval')
  /\ UNCHANGED <<module, master, pc, toMod, toMas, count>>

ServerFails ==
  /\ post # Nothing
  /\ post' = Nothing
  /\ UNCHANGED <<module, master, pc, toMod, toMas, dval, wanted, count>>

-----------------------------------------------------------------------------
ModuleStep ==
  \/ \E v \in Vars : \E x \in Legal[v] : LocalChange(v, x)
  \/ \E acked \in BOOLEAN : ModuleHandlesRequest(acked) \/ ModuleHandlesSettings(acked)
  \/ ModuleGivesUp \/ ModuleRestart

MasterStep ==
  \/ StartTransfer \/ SendTimeout \/ ReplyTimeout \/ SendSettingsToModule
  \/ \E cmd \in {"mcSetSettings", "mcSetOutputs"}, acked \in BOOLEAN : MasterHandles(cmd, acked)
  \/ \E ok \in BOOLEAN : PutSettings(ok) \/ GetSettings(ok)
  \/ MasterRestart

ServerStep ==
  \/ \E v \in Vars : \E x \in Legal[v] : UserEdit(v, x)
  \/ ServerStores \/ ServerFails

Next == ModuleStep \/ MasterStep \/ ServerStep

Spec == Init /\ [][Next]_vars

(* The master's loop keeps running and every wait has a timeout.  Losses   *)
(* are intermittent: what is tried again and again succeeds at last, and a *)
(* reply then arrives while the master waits for it.                       *)
Fairness ==
  /\ WF_vars(StartTransfer) /\ WF_vars(SendTimeout) /\ WF_vars(ReplyTimeout)
  /\ WF_vars(SendSettingsToModule) /\ WF_vars(ModuleGivesUp)
  /\ WF_vars(\E ok \in BOOLEAN : PutSettings(ok))
  /\ WF_vars(\E ok \in BOOLEAN : GetSettings(ok))
  /\ WF_vars(ServerStores \/ ServerFails)
  /\ SF_vars(ModuleHandlesRequest(TRUE)) /\ SF_vars(ModuleHandlesSettings(TRUE))
  /\ SF_vars(pc = "await" /\ MasterHandles("mcSetSettings", TRUE))
  /\ SF_vars(pc = "outputs" /\ MasterHandles("mcSetOutputs", TRUE))
  /\ SF_vars(PutSettings(TRUE)) /\ SF_vars(GetSettings(TRUE))
  /\ SF_vars(ServerStores)

FairSpec == Spec /\ Fairness

-----------------------------------------------------------------------------
(* Type invariant. *)
TypeOK ==
  /\ mval \in [Vars -> Value] /\ mchg \in [Vars -> BOOLEAN] /\ mupd \in BOOLEAN
  /\ sval \in [Vars -> Value] /\ schg \in [Vars -> BOOLEAN] /\ supd \in BOOLEAN
  /\ smod \in BOOLEAN
  /\ pc \in Phase
  /\ toMod \in MasterPacket
  /\ toMas \in ModulePacket
  /\ dval \in [Vars -> Value]
  /\ post \in [Vars -> OptValue]
  /\ wanted \in [Vars -> OptValue]
  /\ count \in [local : Nat, edits : Nat, module : Nat, master : Nat]

(* The newest local change of v that has not reached the database is held, *)
(* flagged as changed, by the module or by the master.                     *)
ChangeHeld(v) ==
  wanted[v] # None => \/ mchg[v] /\ mval[v] = wanted[v]
                      \/ schg[v] /\ sval[v] = wanted[v]

(* No local change is lost, whatever packets and requests are: the         *)
(* changed-flag in the module is only reset when the master has the value, *)
(* and the one in the master only when the database has it                 *)
(* (ModuleInterface.h:79-90).                                              *)
NoChangeLost == \A v \in Vars : ChangeHeld(v)

(* The same for the variable that is first in the contract, as long as the *)
(* master has not lost power.                                              *)
FirstChangeHeld == count.master = 0 => ChangeHeld(1)

(* The content of a restarted device never spreads: the database only      *)
(* holds values somebody gave that variable, and so does the master once   *)
(* its settings are marked as updated (is_updated guards in get_values,    *)
(* add_json_settings and send_settings).                                   *)
OnlyGivenValues ==
  \A v \in Vars : dval[v] \in Legal[v] /\ (supd => sval[v] \in Legal[v])

(* A step that keeps flagged values, or replaces one from the side it came *)
(* from: in the module by a local change, in the master by a report of the *)
(* module; a restart loses them.                                           *)
KeepsFlagged ==
  \A v \in Vars :
    /\ (mchg[v] /\ mval'[v] # mval[v]) =>
         \/ count'.local # count.local
         \/ count'.module # count.module
    /\ (schg[v] /\ sval'[v] # sval[v]) =>
         \/ toMas.cmd = "mcSetSettings" /\ toMas.vals[v] = sval'[v]
         \/ count'.master # count.master

(* A flagged value is replaced only from the side it came from: in the     *)
(* module by its sketch (ModuleInterface.h:80), in the master by a report  *)
(* of the module (ModuleInterface.h:88).                                   *)
FlaggedValueKept == [][KeepsFlagged]_vars

(* All three hold the same values and nothing is flagged.                  *)
InSync ==
  /\ dval = sval /\ sval = mval
  /\ \A v \in Vars : ~mchg[v] /\ ~schg[v]

(* Once users and sketches stop changing settings, the database, the       *)
(* master and the module agree for ever (Protocol.md:68), unless a setting *)
(* holds a value is_equal never accepts: nothing resets its flag           *)
(* (ModuleVariable.h:167).                                                 *)
EventuallyInSync ==
  <>[](InSync \/ \E v \in Vars : {dval[v], sval[v], mval[v]} \cap NeverEqual # {})

-----------------------------------------------------------------------------
(* The setting that is first in the contract, as SettingsStore has it.     *)
FirstSetting ==
  INSTANCE SettingsStore WITH
    Given <- Legal[1], Blank <- Default,
    store <- dval[1], copy <- sval[1], dirty <- schg[1],
    local <- IF mchg[1] THEN mval[1] ELSE None,
    sent <- post[1]

(* With requests, reports, acknowledgements, losses, repetitions and       *)
(* timeouts, the first setting still moves as if it were handed over from  *)
(* register to register: the module drops its mark in no other moment than *)
(* when the master's copy has the value, the master drops its own in no    *)
(* other than when the database has it (ModuleInterface.h:79-90), and this *)
(* also after losses of power.  It does not hold for the settings behind   *)
(* it: see NoChangeLost.                                                   *)
FirstImplementsStore == FirstSetting!Spec

-----------------------------------------------------------------------------
(* Inductive strengthenings of the invariants, for the proofs.             *)

(* OnlyGivenValues, wherever a value is on its way: a flagged value, a     *)
(* report of the module and a POST only hold values somebody gave the      *)
(* variable they are for.                                                  *)
GivenInv ==
  /\ OnlyGivenValues
  /\ \A v \in Vars : /\ mchg[v] => mval[v] \in Legal[v]
                     /\ schg[v] => sval[v] \in Legal[v]
                     /\ post[v] # None => post[v] \in Legal[v]
  /\ toMas.cmd = "mcSetSettings" =>
       \A v \in Vars : toMas.vals[v] # None => toMas.vals[v] \in Legal[v]

(* What the hand-over of a change of the first variable from the module to *)
(* the master and from there to the database rests on: the change is held, *)
(* a set of values on its way is the one the master still holds, a report  *)
(* on its way is the value the module still has flagged, and the value of  *)
(* an undelivered change is not in the master without its flag             *)
(* (ModuleInterface.h:79-90).                                              *)
HandOver ==
  /\ ChangeHeld(1)
  /\ toMod.cmd = "mcSetSettings" => pc = "sending" /\ toMod.vals[1] = sval[1]
  /\ toMas.cmd = "mcSetSettings" /\ toMas.vals[1] # None =>
       mchg[1] /\ toMas.vals[1] = mval[1]
  /\ mchg[1] => wanted[1] \in {None, mval[1]}
  /\ wanted[1] # None => wanted[1] # dval[1]
  /\ wanted[1] # None /\ sval[1] = wanted[1] => schg[1]

(* The hand-over works until the master loses power for the first time     *)
(* (ModuleInterface.h:79-90).                                              *)
HeldInv == count.master = 0 => HandOver
=============================================================================
