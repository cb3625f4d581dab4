---------------------------- MODULE ContractSync ----------------------------
(***************************************************************************)
(* The exchange of contracts between the master and one module, and the    *)
(* value packets that depend on it.                                        *)
(*                                                                         *)
(* A module has three sets of variables: settings, inputs and outputs.     *)
(* Each is described by a contract, the list of names and types fixed when *)
(* the module is programmed.  The master fetches the contracts, and every  *)
(* value packet carries the id of the contract it was made for.  A module  *)
(* may be reprogrammed and put back while the master runs.                 *)
(*                                                                         *)
(* The content of a slot is abstracted to the name of the variable the     *)
(* value was meant for, or Blank.  The bus is that of SettingsSync: a      *)
(* sender blocks until its packet is acknowledged or a timeout passes, and *)
(* a lost acknowledgement repeats the packet.                              *)
(*                                                                         *)
(* Not in this module: changed-flags (SettingsSync), events to the module, *)
(* memory shortage, modules marked inactive.                               *)
(***************************************************************************)
EXTENDS Naturals, Sequences

CONSTANTS
  Program,        \* contracts a module can be programmed with
  Blank,          \* content of a slot nothing was written to
  WaitsForValues, \* the sketch has no outputs before settings and inputs came
  Wanted,         \* the setting a master's sketch uses by name
  MaxUnasked,     \* bound on packets a module sends unasked
  MaxReprogram,   \* bound on reprogramming
  MaxRestarts     \* bound on power losses in the master

Kind == {"settings", "inputs", "outputs"}

ASSUME ProgramAssumption ==
  \A p \in Program, k \in Kind : /\ p[k] \in Seq({p[k][i] : i \in DOMAIN p[k]})
                                 /\ \A i \in DOMAIN p[k] : p[k][i].name # Blank
ASSUME BoundAssumption ==
  /\ WaitsForValues \in BOOLEAN
  /\ MaxUnasked \in Nat /\ MaxReprogram \in Nat /\ MaxRestarts \in Nat

VARIABLES
  prog,           \* module: its three contracts
  mval, mupd,     \* module: content of the sets, is_updated() of each
  mis,            \* module: status bits CONTRACT_MISMATCH_SETTINGS, _INPUTS
  scon, got,      \* master: the contracts, got_contract() of each
  sval, supd,     \* master: content of the sets, is_updated() of each
  handle,         \* master's sketch: MIVariable with that name
  pc,             \* where the master is in its transfer cycle
  wait,           \* what receive_packet waits for
  toMod, toMas,   \* packets on the bus
  count           \* history: packets sent unasked, times the module was
                  \* reprogrammed, restarts of the master

module == <<prog, mval, mupd, mis>>
master == <<scon, got, sval, supd>>
vars == <<prog, mval, mupd, mis, scon, got, sval, supd, handle, pc, wait, toMod, toMas, count>>

-----------------------------------------------------------------------------
Empty(c) == [i \in DOMAIN c |-> Blank]
Full(c)  == [i \in DOMAIN c |-> c[i].name]

(* calculate_contract_id: a checksum of the first name and every type; the *)
(* loop restarts at the first word for every variable.  The CRC is taken   *)
(* to be free of collisions.                                               *)
Id(c) == [first |-> [i \in DOMAIN c |-> c[1].name], types |-> [i \in DOMAIN c |-> c[i].type]]

NoPacket        == [cmd |-> "none"]
SendContract(k) == [cmd |-> "mcSendContract", set |-> k]
SetContract(k, c) == [cmd |-> "mcSetContract", set |-> k, contract |-> c]
SetValues(k, c, vals) == [cmd |-> "mcSetValues", set |-> k, id |-> Id(c), vals |-> vals]
SetOutputs(c, updated, bits) ==
  [cmd |-> "mcSetOutputs", id |-> Id(c), updated |-> updated, bits |-> bits,
   vals |-> IF updated THEN Full(c) ELSE Empty(c)]

SetStatus(bits) == [cmd |-> "mcSetStatus", bits |-> bits]

-----------------------------------------------------------------------------
(* The master's side of a set of variables.                                *)

AllContracts == \A k \in Kind : got[k]

(* invalidate_contract for the sets in ks; the variables stay in place.    *)
Invalidate(ks) ==
  /\ got'  = [k \in Kind |-> got[k] /\ k \notin ks]
  /\ supd' = [k \in Kind |-> supd[k] /\ k \notin ks]
  /\ UNCHANGED <<scon, sval>>

(* set_variables: a contract with the id already held is ignored.          *)
(* Deviation: the variables keep their memory.                             *)
SetVariables_KeepsMemory(k, c) ==
  /\ scon' = [scon EXCEPT ![k] = c]
  /\ got'  = [got EXCEPT ![k] = TRUE]
  /\ UNCHANGED <<sval, supd>>
SetVariables(k, c) ==
  IF got[k] /\ Id(c) = Id(scon[k])
    THEN UNCHANGED master
    ELSE /\ scon' = [scon EXCEPT ![k] = c]
         /\ got'  = [got EXCEPT ![k] = TRUE]
         /\ sval' = [sval EXCEPT ![k] = Empty(c)]
         /\ UNCHANGED supd

(* set_values for the values present in vals; the set becomes updated when *)
(* they are all there.                                                     *)
Store(k, vals) ==
  /\ sval' = [sval EXCEPT ![k] = [i \in DOMAIN @ |-> IF vals[i] # Blank THEN vals[i] ELSE @[i]]]
  /\ supd' = [supd EXCEPT ![k] = @ \/ (DOMAIN vals # {} /\ \A i \in DOMAIN vals : vals[i] # Blank)]
  /\ UNCHANGED <<scon, got>>

(* set_updated, guarded by got_contract.  Deviation: it is not guarded.    *)
Fill_Unguarded(k) ==
  /\ sval' = [sval EXCEPT ![k] = Full(scon[k])]
  /\ supd' = [supd EXCEPT ![k] = TRUE]
  /\ UNCHANGED <<scon, got>>
Fill(k) ==
  IF got[k]
    THEN /\ sval' = [sval EXCEPT ![k] = Full(scon[k])]
         /\ supd' = [supd EXCEPT ![k] = TRUE]
         /\ UNCHANGED <<scon, got>>
    ELSE UNCHANGED master

(* get_variable_ix, and verify_mivariable: the index is searched again if  *)
(* the contract is another one than it was found in.  An index found after *)
(* the contract was dropped is not remembered.                             *)
(* Deviation: the index is searched once.                                  *)
NotFound == [ix |-> 0, id |-> Id(<<>>)]
NamedIn(c) == {i \in DOMAIN c : c[i].name = Wanted}
Find(c) == IF NamedIn(c) = {} THEN 0 ELSE CHOOSE i \in NamedIn(c) : \A j \in NamedIn(c) : i <= j

Index_Once == IF handle.ix = 0 THEN Find(scon["settings"]) ELSE handle.ix
Index ==
  IF got["settings"] /\ handle.ix # 0 /\ handle.id = Id(scon["settings"])
    THEN handle.ix ELSE Find(scon["settings"])

-----------------------------------------------------------------------------
Init ==
  /\ prog \in Program
  /\ mval = [k \in Kind |-> Empty(prog[k])] /\ mupd = [k \in Kind |-> FALSE]
  /\ mis = {}
  /\ scon = [k \in Kind |-> <<>>] /\ got = [k \in Kind |-> FALSE]
  /\ sval = [k \in Kind |-> <<>>] /\ supd = [k \in Kind |-> FALSE]
  /\ handle = NotFound
  /\ pc = "idle" /\ wait = "none"
  /\ toMod = NoPacket /\ toMas = NoPacket
  /\ count = [unasked |-> 0, program |-> 0, master |-> 0]

-----------------------------------------------------------------------------
(* The module.  It handles packets while it is not sending itself.         *)

(* A value packet from the master fits the module's own contract.          *)
(* Deviation: only the number of values is compared.                       *)
Conforms_Length(k, packet) == Len(packet.vals) = Len(prog[k])
Conforms(k, packet) == packet.id = Id(prog[k])

(* The acknowledgement of toMod reaches the master, or it does not.        *)
Acked(acked) == toMod' = IF acked THEN NoPacket ELSE toMod

(* mcSendSettingContract, mcSendInputContract, mcSendOutputContract.       *)
(* Deviation: the mismatch bit stays until values arrive.                  *)
ModuleSendsContract_KeepsBit(k, acked) ==
  /\ toMas = NoPacket
  /\ toMod = SendContract(k)
  /\ toMas' = SetContract(k, prog[k])
  /\ Acked(acked)
  /\ UNCHANGED <<module, master, pc, wait, count, handle>>
ModuleSendsContract(k, acked) ==
  /\ toMas = NoPacket
  /\ toMod = SendContract(k)
  /\ toMas' = SetContract(k, prog[k])
  /\ mis' = mis \ {k}
  /\ Acked(acked)
  /\ UNCHANGED <<prog, mval, mupd, master, pc, wait, count, handle>>

(* set_values in the module.  A set without variables never counts as      *)
(* updated.                                                                *)
TakeValues(k) ==
  IF Conforms(k, toMod)
    THEN /\ mis' = mis \ {k}
         /\ mval' = [mval EXCEPT ![k] = [i \in DOMAIN @ |-> toMod.vals[i]]]
         /\ mupd' = [mupd EXCEPT ![k] = @ \/ prog[k] # <<>>]
    ELSE /\ mis' = mis \cup {k}
         /\ UNCHANGED <<mval, mupd>>

(* mcSetSettings, answered with the outputs followed by the status.        *)
ModuleHandlesSettings(acked) ==
  /\ toMas = NoPacket
  /\ toMod.cmd = "mcSetValues" /\ toMod.set = "settings"
  /\ TakeValues("settings")
  /\ toMas' = SetOutputs(prog["outputs"], mupd["outputs"], mis')
  /\ Acked(acked)
  /\ UNCHANGED <<prog, master, pc, wait, count, handle>>

(* mcSetInputs, not answered. *)
ModuleHandlesInputs(acked) ==
  /\ toMas = NoPacket
  /\ toMod.cmd = "mcSetValues" /\ toMod.set = "inputs"
  /\ TakeValues("inputs")
  /\ Acked(acked)
  /\ UNCHANGED <<prog, master, pc, wait, toMas, count, handle>>

(* The sketch has all its outputs ready for the first time.                *)
SketchUpdatesOutputs ==
  /\ toMas = NoPacket
  /\ ~mupd["outputs"]
  /\ WaitsForValues => mupd["settings"] /\ mupd["inputs"]
  /\ mupd' = [mupd EXCEPT !["outputs"] = TRUE]
  /\ UNCHANGED <<prog, mval, mis, master, pc, wait, toMod, toMas, count, handle>>

(* A setting changed in the module goes to the master, as an event or on   *)
(* the master's request for modified settings.                             *)
ModuleReportsSetting(i) ==
  /\ toMas = NoPacket
  /\ count.unasked < MaxUnasked
  /\ toMas' = SetValues("settings", prog["settings"],
                        [Empty(prog["settings"]) EXCEPT ![i] = prog["settings"][i].name])
  /\ count' = [count EXCEPT !.unasked = @ + 1]
  /\ UNCHANGED <<module, master, pc, wait, toMod, handle>>

(* send_presence_broadcast: a module the master has not called for a while *)
(* sends its status unasked.                                               *)
ModuleSendsPresence ==
  /\ toMas = NoPacket
  /\ count.unasked < MaxUnasked
  /\ toMas' = SetStatus(mis)
  /\ count' = [count EXCEPT !.unasked = @ + 1]
  /\ UNCHANGED <<module, master, pc, wait, toMod, handle>>

(* send: no acknowledgement within MI_SEND_TIMEOUT.                        *)
ModuleGivesUp ==
  /\ toMas # NoPacket
  /\ toMas' = NoPacket
  /\ UNCHANGED <<module, master, pc, wait, toMod, count, handle>>

(* The module is programmed with p, or restarted with the same program.    *)
Reprogram(p) ==
  /\ count.program < MaxReprogram
  /\ prog' = p
  /\ mval' = [k \in Kind |-> Empty(p[k])]
  /\ mupd' = [k \in Kind |-> FALSE]
  /\ mis' = {}
  /\ toMas' = NoPacket
  /\ count' = [count EXCEPT !.program = @ + 1]
  /\ UNCHANGED <<master, pc, wait, toMod, handle>>

-----------------------------------------------------------------------------
(* The master.                                                             *)

(* It is neither sending nor waiting for a reply.                          *)
Free == toMod = NoPacket /\ wait = "none"

(* update_contract: request a contract that is missing.  This is called    *)
(* between transfers and between the steps of one.                         *)
RequestContract(k) ==
  /\ Free
  /\ pc \in {"idle", "relay", "inputs"}
  /\ ~got[k]
  /\ toMod' = SendContract(k)
  /\ wait' = k
  /\ UNCHANGED <<module, master, pc, toMas, count, handle>>

(* The transfer interval has passed and all contracts are there.           *)
StartTransfer ==
  /\ Free
  /\ pc = "idle"
  /\ AllContracts
  /\ pc' = "get"
  /\ UNCHANGED <<module, master, wait, toMod, toMas, count, handle>>

(* get_settings: the values of the database, when it answers.              *)
GetSettings(answered) ==
  /\ Free
  /\ pc = "get"
  /\ IF answered THEN Fill("settings") ELSE UNCHANGED master
  /\ pc' = "send"
  /\ UNCHANGED <<module, wait, toMod, toMas, count, handle>>

(* send_settings, also when the set is empty: the reply brings the outputs *)
(* and the status.                                                         *)
SendSettings ==
  /\ Free
  /\ pc = "send"
  /\ IF got["settings"] /\ (supd["settings"] \/ scon["settings"] = <<>>)
       THEN /\ toMod' = SetValues("settings", scon["settings"], sval["settings"])
            /\ wait' = "reply"
       ELSE UNCHANGED <<toMod, wait>>
  /\ pc' = "relay"
  /\ UNCHANGED <<module, master, toMas, count, handle>>

(* transfer_outputs_to_inputs; ready: the outputs of the modules that are  *)
(* the sources of the inputs are updated.                                  *)
RelayInputs(ready) ==
  /\ Free
  /\ pc = "relay"
  /\ IF ready /\ AllContracts /\ scon["inputs"] # <<>> THEN Fill("inputs") ELSE UNCHANGED master
  /\ pc' = "inputs"
  /\ UNCHANGED <<module, wait, toMod, toMas, count, handle>>

(* send_inputs *)
SendInputs ==
  /\ Free
  /\ pc = "inputs"
  /\ toMod' = IF got["inputs"] /\ supd["inputs"] /\ scon["inputs"] # <<>>
                THEN SetValues("inputs", scon["inputs"], sval["inputs"]) ELSE NoPacket
  /\ pc' = "idle"
  /\ UNCHANGED <<module, master, wait, toMas, count, handle>>

(* The status behind the outputs is found where the length of the values   *)
(* that were read says it is: not when there are outputs that the module   *)
(* has not announced as updated.  Deviation: the length is one off.        *)
StatusFound_OffByOne(packet) == FALSE
StatusFound(packet) == packet.updated \/ scon["outputs"] = <<>>

(* set_status: the contracts the module flags as mismatched are dropped,   *)
(* when the master has all three.                                          *)
Flagged(bits) == IF AllContracts THEN bits ELSE {}

(* mcSetOutputs: the outputs, and the status behind them if they conform.  *)
HandleOutputs(packet) ==
  LET ok   == got["outputs"] /\ packet.id = Id(scon["outputs"])
      new  == ok /\ packet.updated /\ packet.vals # <<>>
      drop == IF ~ok THEN {"outputs"}
              ELSE IF StatusFound(packet) THEN Flagged(packet.bits) ELSE {}
  IN  /\ got'  = [k \in Kind |-> got[k] /\ k \notin drop]
      /\ supd' = [k \in Kind |-> (supd[k] \/ (new /\ k = "outputs")) /\ k \notin drop]
      /\ sval' = IF new THEN [sval EXCEPT !["outputs"] = packet.vals] ELSE sval
      /\ UNCHANGED scon

(* mcSetSettings from the module.                                          *)
HandleSettings(packet) ==
  IF got["settings"] /\ packet.id = Id(scon["settings"])
    THEN Store("settings", packet.vals)
    ELSE Invalidate({"settings"})

(* A packet from the module arrives while the master is not sending.       *)
MasterHandles(acked) ==
  /\ toMod = NoPacket
  /\ \/ toMas.cmd = "mcSetContract" /\ SetVariables(toMas.set, toMas.contract)
     \/ toMas.cmd = "mcSetValues" /\ HandleSettings(toMas)
     \/ toMas.cmd = "mcSetOutputs" /\ HandleOutputs(toMas)
     \/ toMas.cmd = "mcSetStatus" /\ Invalidate(Flagged(toMas.bits))
  /\ wait' = IF \/ toMas.cmd = "mcSetContract" /\ wait = toMas.set
                \/ toMas.cmd = "mcSetOutputs" /\ wait = "reply" THEN "none" ELSE wait
  /\ toMas' = IF acked THEN NoPacket ELSE toMas
  /\ UNCHANGED <<module, pc, toMod, count, handle>>

(* send: no acknowledgement within MI_SEND_TIMEOUT.                        *)
SendTimeout ==
  /\ toMod # NoPacket
  /\ toMod' = NoPacket
  /\ wait' = "none"
  /\ UNCHANGED <<module, master, pc, toMas, count, handle>>

(* receive_packet: no reply within the request timeout.                    *)
ReplyTimeout ==
  /\ toMod = NoPacket /\ wait # "none"
  /\ wait' = "none"
  /\ UNCHANGED <<module, master, pc, toMod, toMas, count, handle>>

(* The sketch reads the variable.                                          *)
UseVariable ==
  /\ handle' = IF got["settings"] /\ Index # 0
                 THEN [ix |-> Index, id |-> Id(scon["settings"])] ELSE NotFound
  /\ UNCHANGED <<module, master, pc, wait, toMod, toMas, count>>

(* Power loss in the master. *)
MasterRestart ==
  /\ count.master < MaxRestarts
  /\ scon' = [k \in Kind |-> <<>>] /\ got' = [k \in Kind |-> FALSE]
  /\ sval' = [k \in Kind |-> <<>>] /\ supd' = [k \in Kind |-> FALSE]
  /\ handle' = NotFound
  /\ pc' = "idle" /\ wait' = "none" /\ toMod' = NoPacket
  /\ count' = [count EXCEPT !.master = @ + 1]
  /\ UNCHANGED <<module, toMas>>

-----------------------------------------------------------------------------
ModuleStep ==
  \/ \E k \in Kind, acked \in BOOLEAN : ModuleSendsContract(k, acked)
  \/ \E acked \in BOOLEAN : ModuleHandlesSettings(acked) \/ ModuleHandlesInputs(acked)
  \/ \E i \in DOMAIN prog["settings"] : ModuleReportsSetting(i)
  \/ SketchUpdatesOutputs \/ ModuleSendsPresence \/ ModuleGivesUp
  \/ \E p \in Program : Reprogram(p)

MasterLoop ==
  \/ \E k \in Kind : RequestContract(k)
  \/ StartTransfer \/ SendSettings \/ SendInputs
  \/ \E ok \in BOOLEAN : GetSettings(ok) \/ RelayInputs(ok)
  \/ SendTimeout \/ ReplyTimeout

MasterStep ==
  \/ MasterLoop
  \/ \E acked \in BOOLEAN : MasterHandles(acked)
  \/ UseVariable \/ MasterRestart

Next == ModuleStep \/ MasterStep

Spec == Init /\ [][Next]_vars

(* The master's loop and the module's sketch keep running, every wait has  *)
(* a timeout, and losses are intermittent: what is tried again and again   *)
(* succeeds at last, and its reply arrives while the master waits for it.  *)
Fairness ==
  /\ WF_vars(MasterLoop) /\ WF_vars(ModuleGivesUp)
  /\ SF_vars(\E k \in Kind : ModuleSendsContract(k, TRUE))
  /\ SF_vars(ModuleHandlesSettings(TRUE)) /\ SF_vars(ModuleHandlesInputs(TRUE))
  /\ SF_vars(MasterHandles(TRUE) /\ wait # wait')
  /\ SF_vars(GetSettings(TRUE)) /\ SF_vars(RelayInputs(TRUE))
  /\ SF_vars(SketchUpdatesOutputs)

FairSpec == Spec /\ Fairness

-----------------------------------------------------------------------------
Contracts(k) == {p[k] : p \in Program}

(* What the slots of a set described by contract c can hold.  A value may  *)
(* be meant for a variable of another program.                             *)
AllNames == UNION {UNION {{p[k][i].name : i \in DOMAIN p[k]} : k \in Kind} : p \in Program}
Contents(c) == [DOMAIN c -> AllNames \cup {Blank}]

Bits == SUBSET {"settings", "inputs"}

MasterPacket ==
  {NoPacket} \cup {SendContract(k) : k \in Kind}
  \cup UNION {UNION {{SetValues(k, c, f) : f \in Contents(c)} : c \in Contracts(k)}
             : k \in {"settings", "inputs"}}
ModulePacket ==
  {NoPacket} \cup {SetStatus(b) : b \in Bits}
  \cup (UNION {{SetContract(k, c) : c \in Contracts(k)} : k \in Kind})
  \cup (UNION {{SetValues("settings", c, f) : f \in Contents(c)} : c \in Contracts("settings")})
  \cup (UNION {UNION {{SetOutputs(c, u, b) : b \in Bits} : u \in BOOLEAN} : c \in Contracts("outputs")})

(* Type invariant. *)
TypeOK ==
  /\ prog \in Program /\ mis \in Bits
  /\ \A k \in Kind : /\ mval[k] \in Contents(prog[k])
                     /\ scon[k] \in Contracts(k) \cup {<<>>}
                     /\ sval[k] \in Contents(scon[k])
  /\ DOMAIN mval = Kind /\ DOMAIN sval = Kind /\ DOMAIN scon = Kind
  /\ mupd \in [Kind -> BOOLEAN] /\ got \in [Kind -> BOOLEAN] /\ supd \in [Kind -> BOOLEAN]
  /\ handle \in {NotFound} \cup UNION {{[ix |-> i, id |-> Id(c)] : i \in DOMAIN c} : c \in Contracts("settings")}
  /\ pc \in {"idle", "get", "send", "relay", "inputs"}
  /\ wait \in {"none", "reply"} \cup Kind
  /\ toMod \in MasterPacket
  /\ toMas \in ModulePacket
  /\ count \in [unasked : Nat, program : Nat, master : Nat]

(* Every value is in the slot of the variable it was meant for, in the     *)
(* module and in the master, however often the module was reprogrammed:    *)
(* what the contract id is for (Protocol.md:9-10).                         *)
ValuesReachTheirNames ==
  \A k \in Kind : /\ \A i \in DOMAIN prog[k] : mval[k][i] \in {Blank, prog[k][i].name}
                 /\ \A i \in DOMAIN scon[k] : sval[k][i] \in {Blank, scon[k][i].name}

(* A set that is marked as updated has a value in every slot: neither side *)
(* acts on, relays or sends values that never arrived, also not right      *)
(* after a new contract has replaced the variables                         *)
(* (ModuleVariableSet.h:255, 342-346, 597).                                *)
UpdatedSetsAreComplete ==
  \A k \in Kind : /\ mupd[k] /\ k # "outputs" => \A i \in DOMAIN prog[k] : mval[k][i] # Blank
                 /\ supd[k] => got[k] /\ \A i \in DOMAIN scon[k] : sval[k][i] # Blank

(* A sketch that uses a setting by its name gets that one whenever the     *)
(* master has it, and never another one, however often the module is       *)
(* reprogrammed ("Change-tolerant", ModuleVariableSet.h:467-468).          *)
VariableByName ==
  IF Index = 0 THEN NamedIn(scon["settings"]) = {}
  ELSE Index \in NamedIn(scon["settings"])

Agreed(k) == got[k] /\ scon[k] = prog[k]

(* The master does not drop a contract that is the module's own: a         *)
(* mismatch it is told of is never an old one, so that exchanging a        *)
(* contract once is enough (ModuleInterface.h:395, 399, 414, 339).         *)
CurrentContractKept ==
  [][\A k \in Kind : Agreed(k) /\ ~got'[k] => count'.master # count.master]_vars

(* A reprogrammed module gets its contracts exchanged and then its         *)
(* settings and inputs (Protocol.md:9-10).                                 *)
EventuallyExchanged ==
  <>[](/\ \A k \in Kind : Agreed(k)
       /\ \A k \in {"settings", "inputs"} : mupd[k] \/ prog[k] = <<>>)
=============================================================================
