------------------------- MODULE ContractSyncProofs -------------------------
(***************************************************************************)
(* Proofs about ContractSync, for any set of programs with contracts of    *)
(* any length, and for every bound.                                        *)
(***************************************************************************)
EXTENDS ContractSync, WellFoundedInduction, TLAPS

USE DEF Kind, module, master

(* What is known of a contract that some program has.                      *)
LEMMA ContractFacts ==
  ASSUME NEW k \in Kind, NEW c \in Contracts(k)
  PROVE  /\ DOMAIN c \subseteq Nat \ {0}
         /\ \A i \in DOMAIN c : c[i].name # Blank
         /\ Full(c) \in Contents(c)
<1>1. PICK p \in Program : c = p[k]
  BY DEF Contracts
<1>2. c \in Seq({c[i] : i \in DOMAIN c}) /\ \A i \in DOMAIN c : c[i].name # Blank
  BY <1>1, ProgramAssumption
<1>3. DOMAIN c \subseteq Nat \ {0}
  BY <1>2
<1>4. \A i \in DOMAIN c : c[i].name \in AllNames
  <2>1. \A i \in DOMAIN p[k] : p[k][i].name \in UNION {{p[l][j].name : j \in DOMAIN p[l]} : l \in Kind}
    OBVIOUS
  <2> QED BY <1>1, <2>1 DEF AllNames
<1> QED BY <1>2, <1>3, <1>4 DEF Full, Contents

(* The slots of a set can be empty.                                        *)
LEMMA EmptyIsContent == \A c : Empty(c) \in Contents(c)
  BY DEF Empty, Contents

(* Contracts with the same id have the same number of variables.           *)
LEMMA SameId ==
  ASSUME NEW c, NEW d, Id(c) = Id(d)
  PROVE  DOMAIN c = DOMAIN d
<1>1. Id(c).types = Id(d).types
  OBVIOUS
<1> QED BY <1>1 DEF Id

(* Between contracts with the same id, values fit from one to the other.   *)
LEMMA SameContents ==
  ASSUME NEW c, NEW d, Id(c) = Id(d)
  PROVE  Contents(c) = Contents(d)
  BY SameId DEF Contents

(* A set of numbers has a smallest one. *)
LEMMA SmallestIndex ==
  ASSUME NEW S \in SUBSET Nat, S # {}
  PROVE  \E x \in S : \A y \in S : x <= y
<1>1. PICK x \in S : \A y \in S : ~(<<y, x>> \in OpToRel(<, Nat))
  BY NatLessThanWellFounded, WFMin
<1>2. \A y \in S : ~(y < x)
  BY <1>1 DEF OpToRel
<1> QED BY <1>2

(* get_variable_ix finds a variable with the name, if there is one.        *)
LEMMA FindIsRight ==
  ASSUME NEW c \in Contracts("settings") \cup {<<>>}
  PROVE  IF NamedIn(c) = {} THEN Find(c) = 0
         ELSE Find(c) \in NamedIn(c) /\ Find(c) \in DOMAIN c /\ Find(c) # 0
<1>1. DOMAIN c \subseteq Nat \ {0}
  BY ContractFacts
<1>2. ASSUME NamedIn(c) # {} PROVE Find(c) \in NamedIn(c)
  <2>1. NamedIn(c) \in SUBSET Nat
    BY <1>1 DEF NamedIn
  <2>2. \E i \in NamedIn(c) : \A j \in NamedIn(c) : i <= j
    BY <1>2, <2>1, SmallestIndex
  <2> QED BY <1>2, <2>2 DEF Find
<1>3. NamedIn(c) \subseteq DOMAIN c
  BY DEF NamedIn
<1> QED BY <1>1, <1>2, <1>3 DEF Find

-----------------------------------------------------------------------------
(* The packets on the bus, by kind.                                        *)

LEMMA MasterPackets ==
  ASSUME NEW x \in MasterPacket
  PROVE  /\ x.cmd \in {"none", "mcSendContract", "mcSetValues"}
         /\ x.cmd = "none" <=> x = NoPacket
         /\ x.cmd = "mcSendContract" => x.set \in Kind /\ x = SendContract(x.set)
         /\ x.cmd = "mcSetValues" =>
              /\ x.set \in {"settings", "inputs"}
              /\ \E c \in Contracts(x.set) : x.id = Id(c) /\ x.vals \in Contents(c)
<1>1. CASE x = NoPacket
  BY <1>1 DEF NoPacket
<1>2. ASSUME NEW k \in Kind, x = SendContract(k) PROVE x.cmd = "mcSendContract" /\ x.set = k /\ x # NoPacket
  BY <1>2 DEF SendContract, NoPacket
<1>3. ASSUME NEW k \in {"settings", "inputs"}, NEW c \in Contracts(k), NEW f \in Contents(c), x = SetValues(k, c, f)
      PROVE  /\ x.cmd = "mcSetValues" /\ x.set = k /\ x.id = Id(c) /\ x.vals = f /\ x # NoPacket
  BY <1>3 DEF SetValues, NoPacket
<1>4. \/ x = NoPacket
      \/ \E k \in Kind : x = SendContract(k)
      \/ \E k \in {"settings", "inputs"} : \E c \in Contracts(k) : \E f \in Contents(c) : x = SetValues(k, c, f)
  BY DEF MasterPacket
<1> QED BY <1>1, <1>2, <1>3, <1>4

LEMMA ModulePackets ==
  ASSUME NEW x \in ModulePacket
  PROVE  /\ x.cmd \in {"none", "mcSetContract", "mcSetValues", "mcSetOutputs", "mcSetStatus"}
         /\ x.cmd = "none" <=> x = NoPacket
         /\ x.cmd = "mcSetContract" => x.set \in Kind /\ x.contract \in Contracts(x.set)
         /\ x.cmd = "mcSetValues" =>
              \E c \in Contracts("settings") : x.id = Id(c) /\ x.vals \in Contents(c)
         /\ x.cmd = "mcSetOutputs" =>
              /\ x.bits \in Bits /\ x.updated \in BOOLEAN
              /\ \E c \in Contracts("outputs") : /\ x.id = Id(c)
                                                 /\ x.vals = IF x.updated THEN Full(c) ELSE Empty(c)
         /\ x.cmd = "mcSetStatus" => x.bits \in Bits
<1>1. CASE x = NoPacket
  BY <1>1 DEF NoPacket
<1>2. ASSUME NEW b \in Bits, x = SetStatus(b) PROVE x.cmd = "mcSetStatus" /\ x.bits = b /\ x # NoPacket
  BY <1>2 DEF SetStatus, NoPacket
<1>3. ASSUME NEW k \in Kind, NEW c \in Contracts(k), x = SetContract(k, c)
      PROVE  x.cmd = "mcSetContract" /\ x.set = k /\ x.contract = c /\ x # NoPacket
  BY <1>3 DEF SetContract, NoPacket
<1>4. ASSUME NEW c \in Contracts("settings"), NEW f \in Contents(c), x = SetValues("settings", c, f)
      PROVE  x.cmd = "mcSetValues" /\ x.id = Id(c) /\ x.vals = f /\ x # NoPacket
  BY <1>4 DEF SetValues, NoPacket
<1>5. ASSUME NEW c \in Contracts("outputs"), NEW u \in BOOLEAN, NEW b \in Bits, x = SetOutputs(c, u, b)
      PROVE  /\ x.cmd = "mcSetOutputs" /\ x.id = Id(c) /\ x.updated = u /\ x.bits = b /\ x # NoPacket
             /\ x.vals = IF u THEN Full(c) ELSE Empty(c)
  BY <1>5 DEF SetOutputs, NoPacket
<1>6. \/ x = NoPacket
      \/ \E b \in Bits : x = SetStatus(b)
      \/ \E k \in Kind : \E c \in Contracts(k) : x = SetContract(k, c)
      \/ \E c \in Contracts("settings") : \E f \in Contents(c) : x = SetValues("settings", c, f)
      \/ \E c \in Contracts("outputs") : \E u \in BOOLEAN : \E b \in Bits : x = SetOutputs(c, u, b)
  BY DEF ModulePacket
<1> QED BY <1>1, <1>2, <1>3, <1>4, <1>5, <1>6

-----------------------------------------------------------------------------
(* Type correctness.                                                       *)

(* What the master holds: values that fit its contracts, and a contract    *)
(* that some program has if it counts as received.                         *)
HeldOK ==
  /\ DOMAIN sval = Kind /\ DOMAIN scon = Kind
  /\ got \in [Kind -> BOOLEAN] /\ supd \in [Kind -> BOOLEAN]
  /\ \A k \in Kind : /\ scon[k] \in Contracts(k) \cup {<<>>}
                     /\ sval[k] \in Contents(scon[k])
                     /\ got[k] => scon[k] \in Contracts(k)

IType == TypeOK /\ HeldOK

(* set_variables. *)
LEMMA SetVariablesType ==
  ASSUME HeldOK, NEW k \in Kind, NEW c \in Contracts(k), SetVariables(k, c)
  PROVE  HeldOK'
<1>1. CASE got[k] /\ Id(c) = Id(scon[k])
  BY <1>1 DEF SetVariables, HeldOK, Contents
<1>2. CASE ~(got[k] /\ Id(c) = Id(scon[k]))
  <2>1. \A l \in Kind : /\ scon'[l] = IF l = k THEN c ELSE scon[l]
                        /\ sval'[l] = IF l = k THEN Empty(c) ELSE sval[l]
                        /\ got'[l] = (l = k \/ got[l])
    BY <1>2 DEF SetVariables, HeldOK
  <2>2. /\ DOMAIN sval' = Kind /\ DOMAIN scon' = Kind
        /\ got' \in [Kind -> BOOLEAN] /\ supd' \in [Kind -> BOOLEAN]
    BY <1>2 DEF SetVariables, HeldOK
  <2> QED BY <2>1, <2>2, EmptyIsContent DEF HeldOK
<1> QED BY <1>1, <1>2

(* set_updated. *)
LEMMA FillType ==
  ASSUME HeldOK, NEW k \in Kind, Fill(k)
  PROVE  HeldOK'
<1>1. CASE got[k]
  <2>1. Full(scon[k]) \in Contents(scon[k])
    BY <1>1, ContractFacts DEF HeldOK
  <2> QED BY <1>1, <2>1 DEF Fill, HeldOK
<1>2. CASE ~got[k]
  BY <1>2 DEF Fill, HeldOK
<1> QED BY <1>1, <1>2

(* set_values for some of the values. *)
LEMMA StoreType ==
  ASSUME HeldOK, NEW k \in Kind, NEW vals \in Contents(scon[k]), Store(k, vals)
  PROVE  HeldOK'
<1>1. [i \in DOMAIN sval[k] |-> IF vals[i] # Blank THEN vals[i] ELSE sval[k][i]] \in Contents(scon[k])
  BY DEF HeldOK, Contents
<1> QED BY <1>1 DEF Store, HeldOK

(* invalidate_contract. *)
LEMMA InvalidateType ==
  ASSUME HeldOK, NEW ks, Invalidate(ks)
  PROVE  HeldOK'
  BY DEF Invalidate, HeldOK

(* mcSetSettings. *)
LEMMA HandleSettingsType ==
  ASSUME HeldOK, toMas \in ModulePacket, toMas.cmd = "mcSetValues", HandleSettings(toMas)
  PROVE  HeldOK'
<1>1. CASE got["settings"] /\ toMas.id = Id(scon["settings"])
  <2>1. toMas.vals \in Contents(scon["settings"])
    BY <1>1, ModulePackets, SameContents
  <2> QED BY <1>1, <2>1, StoreType DEF HandleSettings
<1>2. CASE ~(got["settings"] /\ toMas.id = Id(scon["settings"]))
  BY <1>2, InvalidateType DEF HandleSettings
<1> QED BY <1>1, <1>2

(* mcSetOutputs. *)
LEMMA HandleOutputsType ==
  ASSUME HeldOK, toMas \in ModulePacket, toMas.cmd = "mcSetOutputs", HandleOutputs(toMas)
  PROVE  HeldOK'
<1> DEFINE ok  == got["outputs"] /\ toMas.id = Id(scon["outputs"])
           new == ok /\ toMas.updated /\ toMas.vals # <<>>
<1>1. ASSUME ok PROVE toMas.vals \in Contents(scon["outputs"])
  <2>1. PICK c \in Contracts("outputs") :
          toMas.id = Id(c) /\ toMas.vals = IF toMas.updated THEN Full(c) ELSE Empty(c)
    BY ModulePackets
  <2>2. toMas.vals \in Contents(c)
    BY <2>1, ContractFacts, EmptyIsContent
  <2> QED BY <1>1, <2>1, <2>2, SameContents
<1>2. scon' = scon /\ sval' = IF new THEN [sval EXCEPT !["outputs"] = toMas.vals] ELSE sval
  BY DEF HandleOutputs
<1>3. DOMAIN sval' = Kind /\ \A k \in Kind : sval'[k] \in Contents(scon[k])
  BY <1>1, <1>2 DEF HeldOK
<1>4. got' \in [Kind -> BOOLEAN] /\ supd' \in [Kind -> BOOLEAN] /\ \A k \in Kind : got'[k] => got[k]
  BY DEF HandleOutputs, HeldOK
<1> QED BY <1>2, <1>3, <1>4 DEF HeldOK

(* Members of the packet sets.                                             *)
LEMMA PacketsTyped ==
  /\ NoPacket \in MasterPacket /\ NoPacket \in ModulePacket
  /\ \A k \in Kind : SendContract(k) \in MasterPacket
  /\ \A k \in {"settings", "inputs"} : \A c \in Contracts(k) : \A f \in Contents(c) :
       SetValues(k, c, f) \in MasterPacket
  /\ \A b \in Bits : SetStatus(b) \in ModulePacket
  /\ \A k \in Kind : \A c \in Contracts(k) : SetContract(k, c) \in ModulePacket
  /\ \A c \in Contracts("settings") : \A f \in Contents(c) : SetValues("settings", c, f) \in ModulePacket
  /\ \A c \in Contracts("outputs") : \A u \in BOOLEAN : \A b \in Bits : SetOutputs(c, u, b) \in ModulePacket
  BY DEF MasterPacket, ModulePacket

(* The contracts of a program. *)
LEMMA ProgramContracts == \A p \in Program : \A k \in Kind : p[k] \in Contracts(k)
  BY DEF Contracts

(* Nothing happens in the master while the module changes, or to the other *)
(* way round.                                                              *)
LEMMA HeldUnchanged == HeldOK /\ UNCHANGED master => HeldOK'
  BY DEF HeldOK

ModuleOK ==
  /\ prog \in Program /\ mis \in Bits
  /\ DOMAIN mval = Kind /\ mupd \in [Kind -> BOOLEAN]
  /\ \A k \in Kind : mval[k] \in Contents(prog[k])

LEMMA ModuleUnchanged == ModuleOK /\ UNCHANGED module => ModuleOK'
  BY DEF ModuleOK

(* The rest of the types. *)
LoopOK ==
  /\ handle \in {NotFound} \cup UNION {{[ix |-> i, id |-> Id(c)] : i \in DOMAIN c} : c \in Contracts("settings")}
  /\ pc \in {"idle", "get", "send", "relay", "inputs"}
  /\ wait \in {"none", "reply"} \cup Kind
  /\ toMod \in MasterPacket
  /\ toMas \in ModulePacket
  /\ count \in [unasked : Nat, program : Nat, master : Nat]

LEMMA Parts ==
  /\ IType <=> ModuleOK /\ HeldOK /\ LoopOK
  /\ IType' <=> ModuleOK' /\ HeldOK' /\ LoopOK'
  BY DEF IType, TypeOK, ModuleOK, HeldOK, LoopOK

LEMMA TakeValuesType ==
  ASSUME ModuleOK, LoopOK, NEW k \in {"settings", "inputs"},
         toMod.cmd = "mcSetValues", toMod.set = k, TakeValues(k), prog' = prog
  PROVE  ModuleOK'
<1>1. CASE Conforms(k, toMod)
  <2>1. toMod.vals \in Contents(prog[k])
    BY <1>1, MasterPackets, SameContents DEF Conforms, LoopOK
  <2>2. [i \in DOMAIN mval[k] |-> toMod.vals[i]] \in Contents(prog[k])
    BY <2>1 DEF Contents, ModuleOK
  <2> QED BY <1>1, <2>2 DEF TakeValues, ModuleOK, Bits
<1>2. CASE ~Conforms(k, toMod)
  BY <1>2 DEF TakeValues, ModuleOK, Bits
<1> QED BY <1>1, <1>2

LEMMA ModuleStepType == IType /\ ModuleStep => IType'
<1> SUFFICES ASSUME IType, ModuleStep PROVE IType'
  OBVIOUS
<1>0. ModuleOK /\ HeldOK /\ LoopOK
  BY Parts
<1> SUFFICES ModuleOK' /\ HeldOK' /\ LoopOK'
  BY Parts
<1>1. ASSUME NEW k \in Kind, NEW acked \in BOOLEAN, ModuleSendsContract(k, acked)
      PROVE  ModuleOK' /\ HeldOK' /\ LoopOK'
  <2>1. ModuleOK'
    BY <1>0, <1>1 DEF ModuleSendsContract, ModuleOK, Bits
  <2>2. LoopOK'
    BY <1>0, <1>1, PacketsTyped, ProgramContracts DEF ModuleSendsContract, ModuleOK, LoopOK, Acked
  <2> QED BY <1>0, <1>1, <2>1, <2>2, HeldUnchanged DEF ModuleSendsContract
<1>2. ASSUME NEW acked \in BOOLEAN, ModuleHandlesSettings(acked)
      PROVE  ModuleOK' /\ HeldOK' /\ LoopOK'
  <2>1. ModuleOK'
    BY <1>0, <1>2, TakeValuesType DEF ModuleHandlesSettings
  <2>2. mis' \in Bits
    BY <2>1 DEF ModuleOK
  <2>3. LoopOK'
    BY <1>0, <1>2, <2>2, PacketsTyped, ProgramContracts DEF ModuleHandlesSettings, ModuleOK, LoopOK, Acked
  <2> QED BY <1>0, <1>2, <2>1, <2>3, HeldUnchanged DEF ModuleHandlesSettings
<1>3. ASSUME NEW acked \in BOOLEAN, ModuleHandlesInputs(acked)
      PROVE  ModuleOK' /\ HeldOK' /\ LoopOK'
  <2>1. ModuleOK'
    BY <1>0, <1>3, TakeValuesType DEF ModuleHandlesInputs
  <2>2. LoopOK'
    BY <1>0, <1>3, PacketsTyped DEF ModuleHandlesInputs, LoopOK, Acked
  <2> QED BY <1>0, <1>3, <2>1, <2>2, HeldUnchanged DEF ModuleHandlesInputs
<1>4. ASSUME NEW i \in DOMAIN prog["settings"], ModuleReportsSetting(i)
      PROVE  ModuleOK' /\ HeldOK' /\ LoopOK'
  <2> DEFINE vals == [Empty(prog["settings"]) EXCEPT ![i] = prog["settings"][i].name]
  <2>1. prog["settings"] \in Contracts("settings")
    BY <1>0, ProgramContracts DEF ModuleOK
  <2>2. Full(prog["settings"]) \in Contents(prog["settings"])
    BY <2>1, ContractFacts
  <2>3. vals \in Contents(prog["settings"])
    BY <2>2 DEF Contents, Empty, Full
  <2> HIDE DEF vals
  <2>4. toMas' = SetValues("settings", prog["settings"], vals)
    BY <1>4 DEF ModuleReportsSetting, vals
  <2>5. count' \in [unasked : Nat, program : Nat, master : Nat]
    BY <1>0, <1>4 DEF ModuleReportsSetting, LoopOK
  <2>6. LoopOK'
    BY <1>0, <1>4, <2>1, <2>3, <2>4, <2>5, PacketsTyped DEF ModuleReportsSetting, LoopOK
  <2> QED BY <1>0, <1>4, <2>6, HeldUnchanged, ModuleUnchanged DEF ModuleReportsSetting
<1>5. CASE SketchUpdatesOutputs
  <2>1. ModuleOK'
    BY <1>0, <1>5 DEF SketchUpdatesOutputs, ModuleOK
  <2>2. LoopOK'
    BY <1>0, <1>5 DEF SketchUpdatesOutputs, LoopOK
  <2> QED BY <1>0, <1>5, <2>1, <2>2, HeldUnchanged DEF SketchUpdatesOutputs
<1>6. CASE ModuleSendsPresence
  <2>1. LoopOK'
    BY <1>0, <1>6, PacketsTyped DEF ModuleSendsPresence, LoopOK, ModuleOK
  <2> QED BY <1>0, <1>6, <2>1, HeldUnchanged, ModuleUnchanged DEF ModuleSendsPresence
<1>7. CASE ModuleGivesUp
  <2>1. LoopOK'
    BY <1>0, <1>7, PacketsTyped DEF ModuleGivesUp, LoopOK
  <2> QED BY <1>0, <1>7, <2>1, HeldUnchanged, ModuleUnchanged DEF ModuleGivesUp
<1>8. ASSUME NEW p \in Program, Reprogram(p)
      PROVE  ModuleOK' /\ HeldOK' /\ LoopOK'
  <2>1. ModuleOK'
    BY <1>8, EmptyIsContent DEF Reprogram, ModuleOK, Bits
  <2>2. LoopOK'
    BY <1>0, <1>8, PacketsTyped DEF Reprogram, LoopOK
  <2> QED BY <1>0, <1>8, <2>1, <2>2, HeldUnchanged DEF Reprogram
<1> QED BY <1>1, <1>2, <1>3, <1>4, <1>5, <1>6, <1>7, <1>8 DEF ModuleStep

(* The variable a name stands for is one of the settings.                  *)
LEMMA IndexInContract ==
  ASSUME HeldOK, LoopOK, got["settings"], Index # 0
  PROVE  Index \in DOMAIN scon["settings"]
<1>1. CASE handle.ix # 0 /\ handle.id = Id(scon["settings"])
  <2>1. PICK c \in Contracts("settings") : handle.id = Id(c) /\ handle.ix \in DOMAIN c
    BY <1>1 DEF LoopOK, NotFound
  <2>2. DOMAIN c = DOMAIN scon["settings"]
    BY <1>1, <2>1, SameId
  <2> QED BY <1>1, <2>1, <2>2 DEF Index
<1>2. CASE ~(handle.ix # 0 /\ handle.id = Id(scon["settings"]))
  BY <1>2, FindIsRight DEF Index, HeldOK
<1> QED BY <1>1, <1>2

LEMMA MasterStepType == IType /\ MasterStep => IType'
<1> SUFFICES ASSUME IType, MasterStep PROVE IType'
  OBVIOUS
<1>0. ModuleOK /\ HeldOK /\ LoopOK
  BY Parts
<1> SUFFICES ModuleOK' /\ HeldOK' /\ LoopOK'
  BY Parts
<1>1. ASSUME NEW k \in Kind, RequestContract(k) PROVE ModuleOK' /\ HeldOK' /\ LoopOK'
  <2>1. LoopOK'
    BY <1>0, <1>1, PacketsTyped DEF RequestContract, LoopOK
  <2> QED BY <1>0, <1>1, <2>1, HeldUnchanged, ModuleUnchanged DEF RequestContract
<1>2. CASE StartTransfer
  <2>1. LoopOK'
    BY <1>0, <1>2 DEF StartTransfer, LoopOK
  <2> QED BY <1>0, <1>2, <2>1, HeldUnchanged, ModuleUnchanged DEF StartTransfer
<1>3. CASE SendSettings
  <2>1. LoopOK'
    BY <1>0, <1>3, PacketsTyped DEF SendSettings, LoopOK, HeldOK
  <2> QED BY <1>0, <1>3, <2>1, HeldUnchanged, ModuleUnchanged DEF SendSettings
<1>4. CASE SendInputs
  <2>1. LoopOK'
    BY <1>0, <1>4, PacketsTyped DEF SendInputs, LoopOK, HeldOK
  <2> QED BY <1>0, <1>4, <2>1, HeldUnchanged, ModuleUnchanged DEF SendInputs
<1>5. ASSUME NEW ok \in BOOLEAN, GetSettings(ok) PROVE ModuleOK' /\ HeldOK' /\ LoopOK'
  <2>1. HeldOK'
    BY <1>0, <1>5, FillType, HeldUnchanged DEF GetSettings
  <2>2. LoopOK'
    BY <1>0, <1>5 DEF GetSettings, LoopOK
  <2> QED BY <1>0, <1>5, <2>1, <2>2, ModuleUnchanged DEF GetSettings
<1>6. ASSUME NEW ok \in BOOLEAN, RelayInputs(ok) PROVE ModuleOK' /\ HeldOK' /\ LoopOK'
  <2>1. HeldOK'
    BY <1>0, <1>6, FillType, HeldUnchanged DEF RelayInputs
  <2>2. LoopOK'
    BY <1>0, <1>6 DEF RelayInputs, LoopOK
  <2> QED BY <1>0, <1>6, <2>1, <2>2, ModuleUnchanged DEF RelayInputs
<1>7. CASE SendTimeout
  <2>1. LoopOK'
    BY <1>0, <1>7, PacketsTyped DEF SendTimeout, LoopOK
  <2> QED BY <1>0, <1>7, <2>1, HeldUnchanged, ModuleUnchanged DEF SendTimeout
<1>8. CASE ReplyTimeout
  <2>1. LoopOK'
    BY <1>0, <1>8 DEF ReplyTimeout, LoopOK
  <2> QED BY <1>0, <1>8, <2>1, HeldUnchanged, ModuleUnchanged DEF ReplyTimeout
<1>9. ASSUME NEW acked \in BOOLEAN, MasterHandles(acked) PROVE ModuleOK' /\ HeldOK' /\ LoopOK'
  <2>1. HeldOK'
    <3>1. CASE toMas.cmd = "mcSetContract" /\ SetVariables(toMas.set, toMas.contract)
      BY <1>0, <3>1, ModulePackets, SetVariablesType DEF LoopOK
    <3>2. CASE toMas.cmd = "mcSetValues" /\ HandleSettings(toMas)
      BY <1>0, <3>2, HandleSettingsType DEF LoopOK
    <3>3. CASE toMas.cmd = "mcSetOutputs" /\ HandleOutputs(toMas)
      BY <1>0, <3>3, HandleOutputsType DEF LoopOK
    <3>4. CASE toMas.cmd = "mcSetStatus" /\ Invalidate(Flagged(toMas.bits))
      BY <1>0, <3>4, InvalidateType
    <3> QED BY <1>9, <3>1, <3>2, <3>3, <3>4 DEF MasterHandles
  <2>2. LoopOK'
    BY <1>0, <1>9, PacketsTyped DEF MasterHandles, LoopOK
  <2> QED BY <1>0, <1>9, <2>1, <2>2, ModuleUnchanged DEF MasterHandles
<1>10. CASE UseVariable
  <2>1. handle' \in {NotFound} \cup UNION {{[ix |-> i, id |-> Id(c)] : i \in DOMAIN c} : c \in Contracts("settings")}
    <3>1. CASE got["settings"] /\ Index # 0
      <4>1. scon["settings"] \in Contracts("settings") /\ Index \in DOMAIN scon["settings"]
        BY <1>0, <3>1, IndexInContract DEF HeldOK
      <4> QED BY <1>10, <3>1, <4>1 DEF UseVariable
    <3>2. CASE ~(got["settings"] /\ Index # 0)
      BY <1>10, <3>2 DEF UseVariable
    <3> QED BY <3>1, <3>2
  <2>2. LoopOK'
    BY <1>0, <1>10, <2>1 DEF UseVariable, LoopOK
  <2> QED BY <1>0, <1>10, <2>2, HeldUnchanged, ModuleUnchanged DEF UseVariable
<1>11. CASE MasterRestart
  <2>1. HeldOK'
    BY <1>11 DEF MasterRestart, HeldOK, Contents
  <2>2. LoopOK'
    BY <1>0, <1>11, PacketsTyped DEF MasterRestart, LoopOK
  <2> QED BY <1>0, <1>11, <2>1, <2>2, ModuleUnchanged DEF MasterRestart
<1> QED BY <1>1, <1>2, <1>3, <1>4, <1>5, <1>6, <1>7, <1>8, <1>9, <1>10, <1>11 DEF MasterStep, MasterLoop

LEMMA InitType == Init => IType
<1> SUFFICES ASSUME Init PROVE ModuleOK /\ HeldOK /\ LoopOK
  BY Parts
<1>1. ModuleOK
  BY EmptyIsContent DEF Init, ModuleOK, Bits
<1>2. HeldOK
  BY DEF Init, HeldOK, Contents
<1>3. LoopOK
  BY PacketsTyped DEF Init, LoopOK
<1> QED BY <1>1, <1>2, <1>3

LEMMA TypeInductive == Spec => []IType
<1>1. IType /\ [Next]_vars => IType'
  <2> SUFFICES ASSUME IType, [Next]_vars PROVE IType'
    OBVIOUS
  <2>1. CASE Next
    BY <2>1, ModuleStepType, MasterStepType DEF Next
  <2>2. CASE UNCHANGED vars
    BY <2>2, HeldUnchanged, ModuleUnchanged, Parts DEF vars, LoopOK
  <2> QED BY <2>1, <2>2
<1> QED BY <1>1, InitType, PTL DEF Spec

(* Type correctness: after any number of reprogrammings and restarts, the  *)
(* values a side holds fit the contract it holds, so that no packet is     *)
(* read or written outside the variables of its set.                       *)
THEOREM TypeCorrect == Spec => []TypeOK
<1>1. IType => TypeOK
  BY DEF IType
<1> QED BY <1>1, TypeInductive, PTL

-----------------------------------------------------------------------------
(* What the packets on the bus still say of the two sides when they are    *)
(* handled.                                                                *)

(* The master waits while it sends: the contracts it has asked for are     *)
(* missing, and values go out with the contract it holds.                  *)
MasterWaits ==
  /\ toMod.cmd = "mcSendContract" => ~got[toMod.set]
  /\ toMod.cmd = "mcSetValues" => got[toMod.set] /\ toMod.id = Id(scon[toMod.set])

(* The module waits while it sends: a packet has the ids and status bits   *)
(* of the module as it is.                                                 *)
ModuleWaits ==
  /\ toMas.cmd = "mcSetContract" => toMas.contract = prog[toMas.set] /\ toMas.set \notin mis
  /\ toMas.cmd = "mcSetValues" => toMas.id = Id(prog["settings"])
  /\ toMas.cmd = "mcSetOutputs" => toMas.id = Id(prog["outputs"])
  /\ toMas.cmd \in {"mcSetOutputs", "mcSetStatus"} => toMas.bits = mis

(* A contract is sent to a master that lacks it, or is repeated to one     *)
(* that has it.                                                            *)
SentOnce == toMas.cmd = "mcSetContract" /\ got[toMas.set] => scon[toMas.set] = prog[toMas.set]

(* The mismatch bits are about contracts the master has not replaced yet.  *)
BitsAreTrue == \A k \in mis : ~Agreed(k)

OnTheWay == MasterWaits /\ ModuleWaits /\ SentOnce /\ BitsAreTrue

(* The kinds of the packets that the two sides make. *)
LEMMA Sent ==
  /\ NoPacket.cmd = "none"
  /\ \A k : SendContract(k).cmd = "mcSendContract" /\ SendContract(k).set = k
  /\ \A k, c : /\ SetContract(k, c).cmd = "mcSetContract"
               /\ SetContract(k, c).set = k /\ SetContract(k, c).contract = c
  /\ \A k, c, f : /\ SetValues(k, c, f).cmd = "mcSetValues" /\ SetValues(k, c, f).set = k
                  /\ SetValues(k, c, f).id = Id(c) /\ SetValues(k, c, f).vals = f
  /\ \A c, u, b : /\ SetOutputs(c, u, b).cmd = "mcSetOutputs" /\ SetOutputs(c, u, b).bits = b
                  /\ SetOutputs(c, u, b).id = Id(c) /\ SetOutputs(c, u, b).updated = u
                  /\ SetOutputs(c, u, b).vals = IF u THEN Full(c) ELSE Empty(c)
  /\ \A b : SetStatus(b).cmd = "mcSetStatus" /\ SetStatus(b).bits = b
  BY DEF NoPacket, SendContract, SetContract, SetValues, SetOutputs, SetStatus

(* A mismatch bit is set for values of a contract that is not the module's *)
(* own.                                                                    *)
LEMMA TakeValuesBits ==
  ASSUME OnTheWay, NEW k \in {"settings", "inputs"}, toMod.cmd = "mcSetValues", toMod.set = k,
         TakeValues(k), UNCHANGED <<prog, master>>
  PROVE  BitsAreTrue'
<1>1. CASE Conforms(k, toMod)
  BY <1>1 DEF TakeValues, OnTheWay, BitsAreTrue, Agreed
<1>2. CASE ~Conforms(k, toMod)
  <2>1. ~Agreed(k)
    BY <1>2 DEF Conforms, OnTheWay, MasterWaits, Agreed
  <2> QED BY <1>2, <2>1 DEF TakeValues, OnTheWay, BitsAreTrue, Agreed
<1> QED BY <1>1, <1>2

LEMMA ModuleStepOnTheWay == IType /\ OnTheWay /\ ModuleStep => OnTheWay'
<1> SUFFICES ASSUME IType, OnTheWay, ModuleStep PROVE OnTheWay'
  OBVIOUS
<1>0. ModuleOK /\ HeldOK /\ LoopOK
  BY Parts
<1> USE DEF OnTheWay
<1>1. ASSUME NEW k \in Kind, NEW acked \in BOOLEAN, ModuleSendsContract(k, acked) PROVE OnTheWay'
  <2>1. MasterWaits'
    BY <1>1, Sent DEF ModuleSendsContract, MasterWaits, Acked
  <2>2. ModuleWaits' /\ SentOnce'
    BY <1>1, Sent DEF ModuleSendsContract, ModuleWaits, SentOnce, MasterWaits
  <2>3. BitsAreTrue'
    BY <1>1 DEF ModuleSendsContract, BitsAreTrue, Agreed
  <2> QED BY <2>1, <2>2, <2>3
<1>2. ASSUME NEW acked \in BOOLEAN, ModuleHandlesSettings(acked) PROVE OnTheWay'
  <2>1. MasterWaits'
    BY <1>2, Sent DEF ModuleHandlesSettings, MasterWaits, Acked
  <2>2. ModuleWaits' /\ SentOnce'
    BY <1>2, Sent DEF ModuleHandlesSettings, ModuleWaits, SentOnce
  <2>3. BitsAreTrue'
    BY <1>2, TakeValuesBits DEF ModuleHandlesSettings
  <2> QED BY <2>1, <2>2, <2>3
<1>3. ASSUME NEW acked \in BOOLEAN, ModuleHandlesInputs(acked) PROVE OnTheWay'
  <2>1. MasterWaits'
    BY <1>3, Sent DEF ModuleHandlesInputs, MasterWaits, Acked
  <2>2. ModuleWaits' /\ SentOnce'
    BY <1>3, Sent DEF ModuleHandlesInputs, ModuleWaits, SentOnce
  <2>3. BitsAreTrue'
    BY <1>3, TakeValuesBits DEF ModuleHandlesInputs
  <2> QED BY <2>1, <2>2, <2>3
<1>4. ASSUME NEW i \in DOMAIN prog["settings"], ModuleReportsSetting(i) PROVE OnTheWay'
  BY <1>4, Sent DEF ModuleReportsSetting, MasterWaits, ModuleWaits, SentOnce, BitsAreTrue, Agreed
<1>5. CASE SketchUpdatesOutputs
  BY <1>5 DEF SketchUpdatesOutputs, MasterWaits, ModuleWaits, SentOnce, BitsAreTrue, Agreed
<1>6. CASE ModuleSendsPresence
  BY <1>6, Sent DEF ModuleSendsPresence, MasterWaits, ModuleWaits, SentOnce, BitsAreTrue, Agreed
<1>7. CASE ModuleGivesUp
  BY <1>7, Sent DEF ModuleGivesUp, MasterWaits, ModuleWaits, SentOnce, BitsAreTrue, Agreed
<1>8. ASSUME NEW p \in Program, Reprogram(p) PROVE OnTheWay'
  BY <1>8, Sent DEF Reprogram, MasterWaits, ModuleWaits, SentOnce, BitsAreTrue
<1> QED BY <1>1, <1>2, <1>3, <1>4, <1>5, <1>6, <1>7, <1>8 DEF ModuleStep

(* set_variables replaces nothing that the master has: a contract it has,  *)
(* it is only sent again.                                                  *)
LEMMA SentContractIsNew ==
  ASSUME IType, OnTheWay, toMas.cmd = "mcSetContract", SetVariables(toMas.set, toMas.contract)
  PROVE  /\ got[toMas.set] => UNCHANGED master
         /\ ~got[toMas.set] => /\ got' = [got EXCEPT ![toMas.set] = TRUE]
                              /\ scon' = [scon EXCEPT ![toMas.set] = prog[toMas.set]]
                              /\ sval' = [sval EXCEPT ![toMas.set] = Empty(prog[toMas.set])]
                              /\ supd' = supd
         /\ toMas.set \in Kind
<1>1. toMas.set \in Kind /\ toMas.contract = prog[toMas.set]
  BY Parts, ModulePackets DEF LoopOK, OnTheWay, ModuleWaits
<1>2. got[toMas.set] => scon[toMas.set] = toMas.contract
  BY <1>1 DEF OnTheWay, SentOnce
<1> QED BY <1>1, <1>2 DEF SetVariables

(* What becomes of the contracts when the master handles a packet.         *)
LEMMA HandledContracts ==
  ASSUME IType, OnTheWay, NEW acked \in BOOLEAN, MasterHandles(acked)
  PROVE  \A k \in Kind :
           /\ got'[k] => \/ got[k] /\ scon'[k] = scon[k]
                         \/ /\ toMas.cmd = "mcSetContract" /\ toMas.set = k
                            /\ ~got[k] /\ scon'[k] = prog[k]
           /\ Agreed(k) => got'[k] /\ scon'[k] = scon[k]
<1>0. ModuleOK /\ HeldOK /\ LoopOK
  BY Parts
<1>1. CASE toMas.cmd = "mcSetContract" /\ SetVariables(toMas.set, toMas.contract)
  <2>1. CASE got[toMas.set]
    BY <1>1, <2>1, SentContractIsNew DEF Agreed
  <2>2. CASE ~got[toMas.set]
    BY <1>0, <1>1, <2>2, SentContractIsNew DEF Agreed, HeldOK
  <2> QED BY <2>1, <2>2
<1>2. CASE toMas.cmd = "mcSetValues" /\ HandleSettings(toMas)
  <2>1. Agreed("settings") => toMas.id = Id(scon["settings"])
    BY <1>2 DEF OnTheWay, ModuleWaits, Agreed
  <2> QED BY <1>2, <2>1 DEF HandleSettings, Store, Invalidate, Agreed
<1>3. CASE toMas.cmd = "mcSetOutputs" /\ HandleOutputs(toMas)
  <2>1. Agreed("outputs") => toMas.id = Id(scon["outputs"])
    BY <1>3 DEF OnTheWay, ModuleWaits, Agreed
  <2>2. toMas.bits = mis
    BY <1>3 DEF OnTheWay, ModuleWaits
  <2>3. \A k \in mis : ~Agreed(k)
    BY DEF OnTheWay, BitsAreTrue
  <2> QED BY <1>3, <2>1, <2>2, <2>3 DEF HandleOutputs, Flagged, Agreed
<1>4. CASE toMas.cmd = "mcSetStatus" /\ Invalidate(Flagged(toMas.bits))
  <2>1. Flagged(toMas.bits) \subseteq mis
    BY <1>4 DEF OnTheWay, ModuleWaits, Flagged
  <2> QED BY <1>4, <2>1 DEF Invalidate, OnTheWay, BitsAreTrue, Agreed
<1> QED BY <1>1, <1>2, <1>3, <1>4 DEF MasterHandles

(* A set that is filled keeps its contract. *)
LEMMA FillKeepsContracts ==
  ASSUME NEW k \in Kind, Fill(k)
  PROVE  UNCHANGED <<scon, got>>
  BY DEF Fill

LEMMA MasterStepOnTheWay == IType /\ OnTheWay /\ MasterStep => OnTheWay'
<1> SUFFICES ASSUME IType, OnTheWay, MasterStep PROVE OnTheWay'
  OBVIOUS
<1>0. ModuleOK /\ HeldOK /\ LoopOK
  BY Parts
<1> USE DEF OnTheWay
<1>1. ASSUME NEW k \in Kind, RequestContract(k) PROVE OnTheWay'
  BY <1>1, Sent DEF RequestContract, MasterWaits, ModuleWaits, SentOnce, BitsAreTrue, Agreed
<1>2. CASE StartTransfer
  BY <1>2 DEF StartTransfer, MasterWaits, ModuleWaits, SentOnce, BitsAreTrue, Agreed
<1>3. CASE SendSettings
  BY <1>3, Sent DEF SendSettings, MasterWaits, ModuleWaits, SentOnce, BitsAreTrue, Agreed
<1>4. CASE SendInputs
  BY <1>4, Sent DEF SendInputs, MasterWaits, ModuleWaits, SentOnce, BitsAreTrue, Agreed
<1>5. ASSUME NEW ok \in BOOLEAN, GetSettings(ok) PROVE OnTheWay'
  <2>1. UNCHANGED <<scon, got>>
    BY <1>5, FillKeepsContracts DEF GetSettings
  <2> QED BY <1>5, <2>1 DEF GetSettings, MasterWaits, ModuleWaits, SentOnce, BitsAreTrue, Agreed
<1>6. ASSUME NEW ok \in BOOLEAN, RelayInputs(ok) PROVE OnTheWay'
  <2>1. UNCHANGED <<scon, got>>
    BY <1>6, FillKeepsContracts DEF RelayInputs
  <2> QED BY <1>6, <2>1 DEF RelayInputs, MasterWaits, ModuleWaits, SentOnce, BitsAreTrue, Agreed
<1>7. CASE SendTimeout
  BY <1>7, Sent DEF SendTimeout, MasterWaits, ModuleWaits, SentOnce, BitsAreTrue, Agreed
<1>8. CASE ReplyTimeout
  BY <1>8 DEF ReplyTimeout, MasterWaits, ModuleWaits, SentOnce, BitsAreTrue, Agreed
<1>9. ASSUME NEW acked \in BOOLEAN, MasterHandles(acked) PROVE OnTheWay'
  <2>1. MasterWaits'
    BY <1>9, Sent DEF MasterHandles, MasterWaits
  <2>2. ModuleWaits'
    BY <1>9, Sent DEF MasterHandles, ModuleWaits
  <2>3. SentOnce'
    <3>1. toMas'.cmd = "mcSetContract" => toMas' = toMas /\ toMas.set \in Kind /\ prog' = prog
      BY <1>0, <1>9, Sent, ModulePackets DEF MasterHandles, LoopOK
    <3> QED BY <1>9, <3>1, HandledContracts DEF SentOnce
  <2>4. BitsAreTrue'
    <3>1. mis' = mis /\ prog' = prog /\ mis \subseteq Kind
      BY <1>0, <1>9 DEF MasterHandles, ModuleOK, Bits
    <3> QED BY <1>9, <3>1, HandledContracts DEF BitsAreTrue, Agreed, ModuleWaits
  <2> QED BY <2>1, <2>2, <2>3, <2>4
<1>10. CASE UseVariable
  BY <1>10 DEF UseVariable, MasterWaits, ModuleWaits, SentOnce, BitsAreTrue, Agreed
<1>11. CASE MasterRestart
  <2>1. \A k \in Kind : ~got'[k]
    BY <1>11 DEF MasterRestart
  <2>2. toMas' = toMas /\ (toMas.cmd = "mcSetContract" => toMas.set \in Kind) /\ mis' \subseteq Kind
    BY <1>0, <1>11, ModulePackets DEF MasterRestart, LoopOK, ModuleOK, Bits
  <2> QED BY <1>11, <2>1, <2>2, Sent DEF MasterRestart, MasterWaits, ModuleWaits, SentOnce, BitsAreTrue, Agreed
<1> QED BY <1>1, <1>2, <1>3, <1>4, <1>5, <1>6, <1>7, <1>8, <1>9, <1>10, <1>11 DEF MasterStep, MasterLoop

LEMMA OnTheWayUnchanged == OnTheWay /\ UNCHANGED vars => OnTheWay'
  BY DEF OnTheWay, MasterWaits, ModuleWaits, SentOnce, BitsAreTrue, Agreed, vars

LEMMA OnTheWayInductive == Spec => []OnTheWay
<1>1. Init => OnTheWay
  BY Sent DEF Init, OnTheWay, MasterWaits, ModuleWaits, SentOnce, BitsAreTrue
<1>2. IType /\ OnTheWay /\ [Next]_vars => OnTheWay'
  BY ModuleStepOnTheWay, MasterStepOnTheWay, OnTheWayUnchanged DEF Next
<1> QED BY <1>1, <1>2, TypeInductive, PTL DEF Spec

(* A contract that is the module's own is not dropped, except by a restart *)
(* of the master: a mismatch is only reported by a module whose contract   *)
(* the master does not have (set_status, set_contract_mismatch_settings),  *)
(* and a packet is only refused if its contract is another one.            *)
THEOREM ContractKeptCorrect == Spec => CurrentContractKept
<1> DEFINE A == \A k \in Kind : Agreed(k) /\ ~got'[k] => count'.master # count.master
<1>1. ASSUME IType, OnTheWay, Next PROVE A
  <2>1. ASSUME NEW acked \in BOOLEAN, MasterHandles(acked) PROVE A
    BY <1>1, <2>1, HandledContracts
  <2>2. CASE MasterRestart
    BY <1>1, <2>2, Parts DEF MasterRestart, LoopOK
  <2>3. CASE MasterLoop
    BY <2>3, FillKeepsContracts DEF MasterLoop, RequestContract, StartTransfer, SendSettings, SendInputs,
         GetSettings, RelayInputs, SendTimeout, ReplyTimeout, Agreed
  <2>4. CASE UseVariable
    BY <2>4 DEF UseVariable, Agreed
  <2>5. CASE ModuleStep
    BY <2>5 DEF ModuleStep, ModuleSendsContract, ModuleHandlesSettings, ModuleHandlesInputs, ModuleReportsSetting,
         SketchUpdatesOutputs, ModuleSendsPresence, ModuleGivesUp, Reprogram, Agreed
  <2> QED BY <1>1, <2>1, <2>2, <2>3, <2>4, <2>5 DEF Next, MasterStep
<1>2. IType /\ OnTheWay /\ [Next]_vars => [A]_vars
  BY <1>1
<1> QED BY <1>2, TypeInductive, OnTheWayInductive, PTL DEF Spec, CurrentContractKept

-----------------------------------------------------------------------------
(* Sets that are marked as updated.                                        *)

(* The module's half and the master's half of UpdatedSetsAreComplete, and  *)
(* the values on their way between them.                                   *)
ModuleComplete == \A k \in Kind : mupd[k] /\ k # "outputs" => \A i \in DOMAIN prog[k] : mval[k][i] # Blank
MasterComplete == \A k \in Kind : supd[k] => got[k] /\ \A i \in DOMAIN scon[k] : sval[k][i] # Blank
PacketComplete == toMod.cmd = "mcSetValues" => \A i \in DOMAIN toMod.vals : toMod.vals[i] # Blank

CompleteInv == ModuleComplete /\ MasterComplete /\ PacketComplete

(* A module whose set becomes updated has taken over a value for every     *)
(* slot.                                                                   *)
LEMMA TakeValuesComplete ==
  ASSUME IType, CompleteInv, NEW k \in {"settings", "inputs"}, toMod.cmd = "mcSetValues", toMod.set = k,
         TakeValues(k), prog' = prog
  PROVE  ModuleComplete'
<1>0. ModuleOK /\ LoopOK
  BY Parts
<1>1. CASE Conforms(k, toMod)
  <2>1. DOMAIN mval[k] = DOMAIN prog[k] /\ DOMAIN toMod.vals = DOMAIN prog[k]
    BY <1>0, <1>1, MasterPackets, SameId DEF Conforms, LoopOK, ModuleOK, Contents
  <2>2. \A i \in DOMAIN prog[k] : mval'[k][i] # Blank
    BY <1>0, <1>1, <2>1 DEF TakeValues, CompleteInv, PacketComplete, ModuleOK
  <2>3. \A l \in Kind : l # k => mval'[l] = mval[l] /\ mupd'[l] = mupd[l]
    BY <1>0, <1>1 DEF TakeValues, ModuleOK
  <2> QED BY <2>2, <2>3 DEF CompleteInv, ModuleComplete
<1>2. CASE ~Conforms(k, toMod)
  BY <1>2 DEF TakeValues, CompleteInv, ModuleComplete
<1> QED BY <1>1, <1>2

(* The same of the master, for each packet it handles.                     *)
LEMMA HandledComplete ==
  ASSUME IType, OnTheWay, CompleteInv, NEW acked \in BOOLEAN, MasterHandles(acked)
  PROVE  MasterComplete'
<1>0. ModuleOK /\ HeldOK /\ LoopOK
  BY Parts
<1> USE DEF CompleteInv
<1>1. CASE toMas.cmd = "mcSetContract" /\ SetVariables(toMas.set, toMas.contract)
  <2>1. CASE got[toMas.set]
    BY <1>1, <2>1, SentContractIsNew DEF MasterComplete
  <2>2. CASE ~got[toMas.set]
    <3>1. ~supd[toMas.set] /\ supd' = supd /\ toMas.set \in Kind
      BY <1>1, <2>2, SentContractIsNew DEF MasterComplete
    <3>2. \A k \in Kind : k # toMas.set => sval'[k] = sval[k] /\ scon'[k] = scon[k] /\ got'[k] = got[k]
      BY <1>0, <1>1, <2>2, SentContractIsNew DEF HeldOK
    <3> QED BY <3>1, <3>2 DEF MasterComplete
  <2> QED BY <2>1, <2>2
<1>2. CASE toMas.cmd = "mcSetValues" /\ HandleSettings(toMas)
  <2>1. CASE got["settings"] /\ toMas.id = Id(scon["settings"])
    <3>1. DOMAIN toMas.vals = DOMAIN scon["settings"] /\ DOMAIN sval["settings"] = DOMAIN scon["settings"]
      BY <1>0, <1>2, <2>1, ModulePackets, SameId DEF LoopOK, HeldOK, Contents
    <3>2. Store("settings", toMas.vals)
      BY <1>2, <2>1 DEF HandleSettings
    <3>3. \A k \in Kind : k # "settings" => sval'[k] = sval[k] /\ supd'[k] = supd[k]
      BY <1>0, <3>2 DEF Store, HeldOK
    <3>4. supd'["settings"] =>
            \/ supd["settings"]
            \/ \A i \in DOMAIN scon["settings"] : toMas.vals[i] # Blank
      BY <1>0, <3>1, <3>2 DEF Store, HeldOK
    <3>5. \A i \in DOMAIN scon["settings"] :
            sval'["settings"][i] = IF toMas.vals[i] # Blank THEN toMas.vals[i] ELSE sval["settings"][i]
      BY <1>0, <3>1, <3>2 DEF Store, HeldOK
    <3>6. scon' = scon /\ got' = got
      BY <3>2 DEF Store
    <3> QED BY <2>1, <3>3, <3>4, <3>5, <3>6 DEF MasterComplete
  <2>2. CASE ~(got["settings"] /\ toMas.id = Id(scon["settings"]))
    BY <1>0, <1>2, <2>2 DEF HandleSettings, Invalidate, MasterComplete, HeldOK
  <2> QED BY <2>1, <2>2
<1>3. CASE toMas.cmd = "mcSetOutputs" /\ HandleOutputs(toMas)
  <2> DEFINE ok  == got["outputs"] /\ toMas.id = Id(scon["outputs"])
             new == ok /\ toMas.updated /\ toMas.vals # <<>>
  <2>1. ASSUME new PROVE \A i \in DOMAIN scon["outputs"] : toMas.vals[i] # Blank
    <3>1. PICK c \in Contracts("outputs") : toMas.id = Id(c) /\ toMas.vals = Full(c)
      BY <1>0, <1>3, <2>1, ModulePackets DEF LoopOK
    <3>2. DOMAIN c = DOMAIN scon["outputs"]
      BY <2>1, <3>1, SameId
    <3> QED BY <3>1, <3>2, ContractFacts DEF Full
  <2>2. scon' = scon /\ sval' = IF new THEN [sval EXCEPT !["outputs"] = toMas.vals] ELSE sval
    BY <1>3 DEF HandleOutputs
  <2>3. \A k \in Kind : supd'[k] => /\ supd[k] \/ (new /\ k = "outputs")
                                    /\ got[k] => got'[k]
    BY <1>3 DEF HandleOutputs
  <2>4. \A k \in Kind : supd'[k] => got[k]
    BY <2>3 DEF MasterComplete
  <2>5. \A k \in Kind : \A i \in DOMAIN scon[k] : supd'[k] => sval'[k][i] # Blank
    BY <1>0, <2>1, <2>2, <2>3 DEF MasterComplete, HeldOK
  <2> QED BY <2>2, <2>3, <2>4, <2>5 DEF MasterComplete
<1>4. CASE toMas.cmd = "mcSetStatus" /\ Invalidate(Flagged(toMas.bits))
  BY <1>0, <1>4 DEF Invalidate, MasterComplete, HeldOK
<1> QED BY <1>1, <1>2, <1>3, <1>4 DEF MasterHandles

(* ... and of set_updated. *)
LEMMA FillComplete ==
  ASSUME HeldOK, MasterComplete, NEW k \in Kind, Fill(k)
  PROVE  MasterComplete'
<1>1. CASE got[k]
  <2>1. \A i \in DOMAIN scon[k] : Full(scon[k])[i] # Blank
    BY <1>1, ContractFacts DEF HeldOK, Full
  <2> QED BY <1>1, <2>1 DEF Fill, MasterComplete, HeldOK
<1>2. CASE ~got[k]
  BY <1>2 DEF Fill, MasterComplete
<1> QED BY <1>1, <1>2

(* Only complete sets are sent (send_settings, send_inputs).               *)
LEMMA SentComplete ==
  ASSUME HeldOK, MasterComplete, NEW k \in Kind, supd[k] \/ scon[k] = <<>>
  PROVE  \A i \in DOMAIN sval[k] : sval[k][i] # Blank
<1>1. DOMAIN sval[k] = DOMAIN scon[k]
  BY DEF HeldOK, Contents
<1> QED BY <1>1 DEF MasterComplete

LEMMA CompleteStep == IType /\ OnTheWay /\ CompleteInv /\ Next => CompleteInv'
<1> SUFFICES ASSUME IType, OnTheWay, CompleteInv, Next PROVE CompleteInv'
  OBVIOUS
<1>0. ModuleOK /\ HeldOK /\ LoopOK
  BY Parts
<1> USE DEF CompleteInv
<1>1. ASSUME NEW k \in Kind, NEW acked \in BOOLEAN, ModuleSendsContract(k, acked) PROVE CompleteInv'
  BY <1>1, Sent DEF ModuleSendsContract, ModuleComplete, MasterComplete, PacketComplete, Acked
<1>2. ASSUME NEW acked \in BOOLEAN, ModuleHandlesSettings(acked) PROVE CompleteInv'
  <2>1. ModuleComplete'
    BY <1>2, TakeValuesComplete DEF ModuleHandlesSettings
  <2> QED BY <1>2, <2>1, Sent DEF ModuleHandlesSettings, MasterComplete, PacketComplete, Acked
<1>3. ASSUME NEW acked \in BOOLEAN, ModuleHandlesInputs(acked) PROVE CompleteInv'
  <2>1. ModuleComplete'
    BY <1>3, TakeValuesComplete DEF ModuleHandlesInputs
  <2> QED BY <1>3, <2>1, Sent DEF ModuleHandlesInputs, MasterComplete, PacketComplete, Acked
<1>4. ASSUME NEW i \in DOMAIN prog["settings"], ModuleReportsSetting(i) PROVE CompleteInv'
  BY <1>4 DEF ModuleReportsSetting, ModuleComplete, MasterComplete, PacketComplete
<1>5. CASE SketchUpdatesOutputs
  BY <1>0, <1>5 DEF SketchUpdatesOutputs, ModuleComplete, MasterComplete, PacketComplete, ModuleOK
<1>6. CASE ModuleSendsPresence
  BY <1>6 DEF ModuleSendsPresence, ModuleComplete, MasterComplete, PacketComplete
<1>7. CASE ModuleGivesUp
  BY <1>7 DEF ModuleGivesUp, ModuleComplete, MasterComplete, PacketComplete
<1>8. ASSUME NEW p \in Program, Reprogram(p) PROVE CompleteInv'
  BY <1>8 DEF Reprogram, ModuleComplete, MasterComplete, PacketComplete
<1>9. ASSUME NEW k \in Kind, RequestContract(k) PROVE CompleteInv'
  BY <1>9, Sent DEF RequestContract, ModuleComplete, MasterComplete, PacketComplete
<1>10. CASE StartTransfer
  BY <1>10 DEF StartTransfer, ModuleComplete, MasterComplete, PacketComplete
<1>11. CASE SendSettings
  <2>1. ModuleComplete' /\ MasterComplete'
    BY <1>11 DEF SendSettings, ModuleComplete, MasterComplete
  <2>2. PacketComplete'
    BY <1>0, <1>11, Sent, SentComplete DEF SendSettings, PacketComplete
  <2> QED BY <2>1, <2>2
<1>12. CASE SendInputs
  <2>1. ModuleComplete' /\ MasterComplete'
    BY <1>12 DEF SendInputs, ModuleComplete, MasterComplete
  <2>2. PacketComplete'
    BY <1>0, <1>12, Sent, SentComplete DEF SendInputs, PacketComplete
  <2> QED BY <2>1, <2>2
<1>13. ASSUME NEW ok \in BOOLEAN, GetSettings(ok) PROVE CompleteInv'
  <2>1. MasterComplete'
    BY <1>0, <1>13, FillComplete DEF GetSettings, MasterComplete
  <2> QED BY <1>13, <2>1 DEF GetSettings, ModuleComplete, PacketComplete
<1>14. ASSUME NEW ok \in BOOLEAN, RelayInputs(ok) PROVE CompleteInv'
  <2>1. MasterComplete'
    BY <1>0, <1>14, FillComplete DEF RelayInputs, MasterComplete
  <2> QED BY <1>14, <2>1 DEF RelayInputs, ModuleComplete, PacketComplete
<1>15. CASE SendTimeout
  BY <1>15, Sent DEF SendTimeout, ModuleComplete, MasterComplete, PacketComplete
<1>16. CASE ReplyTimeout
  BY <1>16 DEF ReplyTimeout, ModuleComplete, MasterComplete, PacketComplete
<1>17. ASSUME NEW acked \in BOOLEAN, MasterHandles(acked) PROVE CompleteInv'
  <2>1. MasterComplete'
    BY <1>17, HandledComplete
  <2> QED BY <1>17, <2>1 DEF MasterHandles, ModuleComplete, PacketComplete
<1>18. CASE UseVariable
  BY <1>18 DEF UseVariable, ModuleComplete, MasterComplete, PacketComplete
<1>19. CASE MasterRestart
  BY <1>19, Sent DEF MasterRestart, ModuleComplete, MasterComplete, PacketComplete
<1> QED BY <1>1, <1>2, <1>3, <1>4, <1>5, <1>6, <1>7, <1>8, <1>9, <1>10, <1>11, <1>12, <1>13, <1>14,
           <1>15, <1>16, <1>17, <1>18, <1>19 DEF Next, ModuleStep, MasterStep, MasterLoop

(* A set that is marked as updated has a value in every slot, so that      *)
(* neither side acts on or sends values that never arrived: set_variables  *)
(* empties a set without resetting its mark, which is harmless because a   *)
(* contract that replaces one the master has is always the same one.       *)
THEOREM CompleteCorrect == Spec => []UpdatedSetsAreComplete
<1>1. Init => CompleteInv
  BY Sent DEF Init, CompleteInv, ModuleComplete, MasterComplete, PacketComplete
<1>2. CompleteInv /\ UNCHANGED vars => CompleteInv'
  BY DEF vars, CompleteInv, ModuleComplete, MasterComplete, PacketComplete
<1>3. IType /\ OnTheWay /\ CompleteInv /\ [Next]_vars => CompleteInv'
  BY <1>2, CompleteStep
<1>4. CompleteInv => UpdatedSetsAreComplete
  BY DEF CompleteInv, ModuleComplete, MasterComplete, UpdatedSetsAreComplete
<1> QED BY <1>1, <1>3, <1>4, TypeInductive, OnTheWayInductive, PTL DEF Spec

-----------------------------------------------------------------------------
(* Values and the names they are meant for.                                *)

(* calculate_contract_id covers one name and all types.  What follows is   *)
(* about programs that this tells apart where their names differ; without  *)
(* it a value can get to another variable (run ContractSyncRenamed).       *)
IdsTellApart == \A k \in Kind : \A c, d \in Contracts(k) : Id(c) = Id(d) => Full(c) = Full(d)

(* The values in vals are meant for the variables of c, as far as they are *)
(* present.                                                                *)
Meant(vals, c) == \A i \in DOMAIN c : vals[i] \in {Blank, c[i].name}

(* With the same id values are meant for the same variables.               *)
LEMMA SameNames ==
  ASSUME IdsTellApart, NEW k \in Kind, NEW c \in Contracts(k), NEW d \in Contracts(k), Id(c) = Id(d),
         NEW vals, Meant(vals, c)
  PROVE  Meant(vals, d)
<1>1. DOMAIN c = DOMAIN d
  BY SameId
<1>2. \A i \in DOMAIN c : c[i].name = d[i].name
  <2>1. Full(c) = Full(d)
    BY DEF IdsTellApart
  <2>2. \A i \in DOMAIN c : Full(c)[i] = c[i].name /\ Full(d)[i] = d[i].name
    BY <1>1 DEF Full
  <2> QED BY <2>1, <2>2
<1> QED BY <1>1, <1>2 DEF Meant

LEMMA MeantForThem == \A c : Meant(Full(c), c) /\ Meant(Empty(c), c)
  BY DEF Meant, Full, Empty

(* Where values are: in the module, in the master and in the packets.      *)
ModuleNamed == \A k \in Kind : Meant(mval[k], prog[k])
MasterNamed == \A k \in Kind : Meant(sval[k], scon[k])
MasterPacketNamed == toMod.cmd = "mcSetValues" => Meant(toMod.vals, scon[toMod.set])
ModulePacketNamed ==
  /\ toMas.cmd = "mcSetValues" => Meant(toMas.vals, prog["settings"])
  /\ toMas.cmd = "mcSetOutputs" => Meant(toMas.vals, prog["outputs"])

NamedInv == ModuleNamed /\ MasterNamed /\ MasterPacketNamed /\ ModulePacketNamed

LEMMA TakeValuesNamed ==
  ASSUME IdsTellApart, IType, OnTheWay, NamedInv, NEW k \in {"settings", "inputs"},
         toMod.cmd = "mcSetValues", toMod.set = k, TakeValues(k), prog' = prog
  PROVE  ModuleNamed'
<1>0. ModuleOK /\ HeldOK /\ LoopOK
  BY Parts
<1>1. CASE Conforms(k, toMod)
  <2>1. scon[k] \in Contracts(k) /\ prog[k] \in Contracts(k) /\ Id(scon[k]) = Id(prog[k])
    BY <1>0, <1>1, ProgramContracts DEF Conforms, OnTheWay, MasterWaits, HeldOK, ModuleOK
  <2>2. Meant(toMod.vals, prog[k])
    BY <2>1, SameNames DEF NamedInv, MasterPacketNamed
  <2>3. DOMAIN mval[k] = DOMAIN prog[k]
    BY <1>0 DEF ModuleOK, Contents
  <2>4. \A i \in DOMAIN prog[k] : mval'[k][i] = toMod.vals[i]
    BY <1>0, <1>1, <2>3 DEF TakeValues, ModuleOK
  <2>5. \A l \in Kind : l # k => mval'[l] = mval[l]
    BY <1>0, <1>1 DEF TakeValues, ModuleOK
  <2> QED BY <2>2, <2>4, <2>5 DEF NamedInv, ModuleNamed, Meant
<1>2. CASE ~Conforms(k, toMod)
  BY <1>2 DEF TakeValues, NamedInv, ModuleNamed
<1> QED BY <1>1, <1>2

LEMMA HandledNamed ==
  ASSUME IdsTellApart, IType, OnTheWay, NamedInv, NEW acked \in BOOLEAN, MasterHandles(acked)
  PROVE  MasterNamed'
<1>0. ModuleOK /\ HeldOK /\ LoopOK
  BY Parts
<1> USE DEF NamedInv
<1>1. CASE toMas.cmd = "mcSetContract" /\ SetVariables(toMas.set, toMas.contract)
  <2>1. CASE got[toMas.set]
    BY <1>1, <2>1, SentContractIsNew DEF MasterNamed
  <2>2. CASE ~got[toMas.set]
    <3> DEFINE k == toMas.set
    <3>1. k \in Kind /\ sval' = [sval EXCEPT ![k] = Empty(prog[k])] /\ scon' = [scon EXCEPT ![k] = prog[k]]
      BY <1>1, <2>2, SentContractIsNew
    <3>2. Meant(sval'[k], scon'[k])
      BY <1>0, <3>1, MeantForThem DEF HeldOK
    <3>3. \A l \in Kind : l # k => sval'[l] = sval[l] /\ scon'[l] = scon[l]
      BY <1>0, <3>1 DEF HeldOK
    <3> QED BY <3>2, <3>3 DEF MasterNamed
  <2> QED BY <2>1, <2>2
<1>2. CASE toMas.cmd = "mcSetValues" /\ HandleSettings(toMas)
  <2>1. CASE got["settings"] /\ toMas.id = Id(scon["settings"])
    <3>1. prog["settings"] \in Contracts("settings") /\ scon["settings"] \in Contracts("settings")
      BY <1>0, <2>1, ProgramContracts DEF ModuleOK, HeldOK
    <3>2. Id(prog["settings"]) = Id(scon["settings"])
      BY <1>2, <2>1 DEF OnTheWay, ModuleWaits
    <3>3. Meant(toMas.vals, scon["settings"])
      BY <1>2, <3>1, <3>2, SameNames DEF ModulePacketNamed
    <3>4. Store("settings", toMas.vals)
      BY <1>2, <2>1 DEF HandleSettings
    <3>5. DOMAIN sval["settings"] = DOMAIN scon["settings"]
      BY <1>0 DEF HeldOK, Contents
    <3>6. \A i \in DOMAIN scon["settings"] : sval'["settings"][i] \in {toMas.vals[i], sval["settings"][i]}
      BY <1>0, <3>4, <3>5 DEF Store, HeldOK
    <3>7. \A l \in Kind : l # "settings" => sval'[l] = sval[l]
      BY <1>0, <3>4 DEF Store, HeldOK
    <3>8. scon' = scon
      BY <3>4 DEF Store
    <3> QED BY <3>3, <3>6, <3>7, <3>8 DEF MasterNamed, Meant
  <2>2. CASE ~(got["settings"] /\ toMas.id = Id(scon["settings"]))
    BY <1>2, <2>2 DEF HandleSettings, Invalidate, MasterNamed
  <2> QED BY <2>1, <2>2
<1>3. CASE toMas.cmd = "mcSetOutputs" /\ HandleOutputs(toMas)
  <2> DEFINE new == got["outputs"] /\ toMas.id = Id(scon["outputs"]) /\ toMas.updated /\ toMas.vals # <<>>
  <2>1. ASSUME new PROVE Meant(toMas.vals, scon["outputs"])
    <3>1. prog["outputs"] \in Contracts("outputs") /\ scon["outputs"] \in Contracts("outputs")
      BY <1>0, <2>1, ProgramContracts DEF ModuleOK, HeldOK
    <3>2. Id(prog["outputs"]) = Id(scon["outputs"])
      BY <1>3, <2>1 DEF OnTheWay, ModuleWaits
    <3> QED BY <1>3, <3>1, <3>2, SameNames DEF ModulePacketNamed
  <2>2. scon' = scon /\ sval' = IF new THEN [sval EXCEPT !["outputs"] = toMas.vals] ELSE sval
    BY <1>3 DEF HandleOutputs
  <2> QED BY <1>0, <2>1, <2>2 DEF MasterNamed, HeldOK
<1>4. CASE toMas.cmd = "mcSetStatus" /\ Invalidate(Flagged(toMas.bits))
  BY <1>4 DEF Invalidate, MasterNamed
<1> QED BY <1>1, <1>2, <1>3, <1>4 DEF MasterHandles

LEMMA FillNamed ==
  ASSUME HeldOK, MasterNamed, NEW k \in Kind, Fill(k)
  PROVE  MasterNamed'
<1>1. CASE got[k]
  BY <1>1, MeantForThem DEF Fill, MasterNamed, HeldOK
<1>2. CASE ~got[k]
  BY <1>2 DEF Fill, MasterNamed
<1> QED BY <1>1, <1>2

LEMMA NamedStep == IdsTellApart /\ IType /\ OnTheWay /\ NamedInv /\ Next => NamedInv'
<1> SUFFICES ASSUME IdsTellApart, IType, OnTheWay, NamedInv, Next PROVE NamedInv'
  OBVIOUS
<1>0. ModuleOK /\ HeldOK /\ LoopOK
  BY Parts
<1> USE DEF NamedInv
<1>1. ASSUME NEW k \in Kind, NEW acked \in BOOLEAN, ModuleSendsContract(k, acked) PROVE NamedInv'
  BY <1>1, Sent DEF ModuleSendsContract, ModuleNamed, MasterNamed, MasterPacketNamed, ModulePacketNamed, Acked
<1>2. ASSUME NEW acked \in BOOLEAN, ModuleHandlesSettings(acked) PROVE NamedInv'
  <2>1. ModuleNamed'
    BY <1>2, TakeValuesNamed DEF ModuleHandlesSettings
  <2>2. MasterNamed' /\ MasterPacketNamed'
    BY <1>2, Sent DEF ModuleHandlesSettings, MasterNamed, MasterPacketNamed, Acked
  <2>3. ModulePacketNamed'
    BY <1>2, Sent, MeantForThem DEF ModuleHandlesSettings, ModulePacketNamed
  <2> QED BY <2>1, <2>2, <2>3
<1>3. ASSUME NEW acked \in BOOLEAN, ModuleHandlesInputs(acked) PROVE NamedInv'
  <2>1. ModuleNamed'
    BY <1>3, TakeValuesNamed DEF ModuleHandlesInputs
  <2>2. MasterNamed' /\ MasterPacketNamed'
    BY <1>3, Sent DEF ModuleHandlesInputs, MasterNamed, MasterPacketNamed, Acked
  <2>3. ModulePacketNamed'
    BY <1>3 DEF ModuleHandlesInputs, ModulePacketNamed
  <2> QED BY <2>1, <2>2, <2>3
<1>4. ASSUME NEW i \in DOMAIN prog["settings"], ModuleReportsSetting(i) PROVE NamedInv'
  <2> DEFINE vals == [Empty(prog["settings"]) EXCEPT ![i] = prog["settings"][i].name]
  <2>1. Meant(vals, prog["settings"])
    BY DEF Meant, Empty
  <2> HIDE DEF vals
  <2>2. toMas' = SetValues("settings", prog["settings"], vals)
    BY <1>4 DEF ModuleReportsSetting, vals
  <2>3. ModulePacketNamed'
    BY <1>4, <2>1, <2>2, Sent DEF ModuleReportsSetting, ModulePacketNamed
  <2> QED BY <1>4, <2>3 DEF ModuleReportsSetting, ModuleNamed, MasterNamed, MasterPacketNamed
<1>5. CASE SketchUpdatesOutputs
  BY <1>5 DEF SketchUpdatesOutputs, ModuleNamed, MasterNamed, MasterPacketNamed, ModulePacketNamed
<1>6. CASE ModuleSendsPresence
  BY <1>6, Sent DEF ModuleSendsPresence, ModuleNamed, MasterNamed, MasterPacketNamed, ModulePacketNamed
<1>7. CASE ModuleGivesUp
  BY <1>7, Sent DEF ModuleGivesUp, ModuleNamed, MasterNamed, MasterPacketNamed, ModulePacketNamed
<1>8. ASSUME NEW p \in Program, Reprogram(p) PROVE NamedInv'
  BY <1>8, Sent, MeantForThem DEF Reprogram, ModuleNamed, MasterNamed, MasterPacketNamed, ModulePacketNamed
<1>9. ASSUME NEW k \in Kind, RequestContract(k) PROVE NamedInv'
  BY <1>9, Sent DEF RequestContract, ModuleNamed, MasterNamed, MasterPacketNamed, ModulePacketNamed
<1>10. CASE StartTransfer
  BY <1>10 DEF StartTransfer, ModuleNamed, MasterNamed, MasterPacketNamed, ModulePacketNamed
<1>11. CASE SendSettings
  BY <1>11, Sent DEF SendSettings, ModuleNamed, MasterNamed, MasterPacketNamed, ModulePacketNamed
<1>12. CASE SendInputs
  BY <1>12, Sent DEF SendInputs, ModuleNamed, MasterNamed, MasterPacketNamed, ModulePacketNamed
<1>13. ASSUME NEW ok \in BOOLEAN, GetSettings(ok) PROVE NamedInv'
  <2>1. MasterNamed'
    BY <1>0, <1>13, FillNamed DEF GetSettings, MasterNamed
  <2> QED BY <1>13, <2>1, Sent DEF GetSettings, Free, ModuleNamed, MasterPacketNamed, ModulePacketNamed
<1>14. ASSUME NEW ok \in BOOLEAN, RelayInputs(ok) PROVE NamedInv'
  <2>1. MasterNamed'
    BY <1>0, <1>14, FillNamed DEF RelayInputs, MasterNamed
  <2> QED BY <1>14, <2>1, Sent DEF RelayInputs, Free, ModuleNamed, MasterPacketNamed, ModulePacketNamed
<1>15. CASE SendTimeout
  BY <1>15, Sent DEF SendTimeout, ModuleNamed, MasterNamed, MasterPacketNamed, ModulePacketNamed
<1>16. CASE ReplyTimeout
  BY <1>16 DEF ReplyTimeout, ModuleNamed, MasterNamed, MasterPacketNamed, ModulePacketNamed
<1>17. ASSUME NEW acked \in BOOLEAN, MasterHandles(acked) PROVE NamedInv'
  <2>1. MasterNamed'
    BY <1>17, HandledNamed
  <2> QED BY <1>17, <2>1, Sent DEF MasterHandles, ModuleNamed, MasterPacketNamed, ModulePacketNamed
<1>18. CASE UseVariable
  BY <1>18 DEF UseVariable, ModuleNamed, MasterNamed, MasterPacketNamed, ModulePacketNamed
<1>19. CASE MasterRestart
  BY <1>19, Sent DEF MasterRestart, ModuleNamed, MasterNamed, MasterPacketNamed, ModulePacketNamed, Meant
<1> QED BY <1>1, <1>2, <1>3, <1>4, <1>5, <1>6, <1>7, <1>8, <1>9, <1>10, <1>11, <1>12, <1>13, <1>14,
           <1>15, <1>16, <1>17, <1>18, <1>19 DEF Next, ModuleStep, MasterStep, MasterLoop

(* Every value is in the slot of the variable it was meant for, however    *)
(* often the module is reprogrammed between two packets, if the ids of its *)
(* contracts differ where their names do.  Comparing the id of a packet    *)
(* with that of the receiver's own contract is enough, because no packet   *)
(* outlives the contract it was made for on the sender's side.             *)
THEOREM NamesCorrect ==
  ASSUME IdsTellApart
  PROVE  Spec => []ValuesReachTheirNames
<1>1. Init => NamedInv
  BY Sent, MeantForThem DEF Init, NamedInv, ModuleNamed, MasterNamed, MasterPacketNamed, ModulePacketNamed, Meant
<1>2. NamedInv /\ UNCHANGED vars => NamedInv'
  BY DEF vars, NamedInv, ModuleNamed, MasterNamed, MasterPacketNamed, ModulePacketNamed
<1>3. IType /\ OnTheWay /\ NamedInv /\ [Next]_vars => NamedInv'
  BY <1>2, NamedStep
<1>4. NamedInv => ValuesReachTheirNames
  BY DEF NamedInv, ModuleNamed, MasterNamed, Meant, ValuesReachTheirNames
<1> QED BY <1>1, <1>3, <1>4, TypeInductive, OnTheWayInductive, PTL DEF Spec

-----------------------------------------------------------------------------
(* Variables used by name.                                                 *)

(* The remembered index is that of a variable with the name in the         *)
(* contract with the remembered id.                                        *)
HandleInv ==
  handle.ix # 0 => \E c \in Contracts("settings") : handle.id = Id(c) /\ handle.ix \in NamedIn(c)

(* verify_mivariable: the index in use is right, remembered or not.        *)
LEMMA IndexIsRight ==
  ASSUME IdsTellApart, HeldOK, HandleInv
  PROVE  VariableByName
<1> DEFINE c == scon["settings"]
<1>1. CASE got["settings"] /\ handle.ix # 0 /\ handle.id = Id(c)
  <2>1. PICK d \in Contracts("settings") : Id(d) = Id(c) /\ handle.ix \in NamedIn(d)
    BY <1>1 DEF HandleInv
  <2>2. c \in Contracts("settings")
    BY <1>1 DEF HeldOK
  <2>3. DOMAIN c = DOMAIN d /\ Full(c) = Full(d)
    BY <2>1, <2>2, SameId DEF IdsTellApart
  <2>4. \A i \in DOMAIN c : Full(c)[i] = c[i].name /\ Full(d)[i] = d[i].name
    BY <2>3 DEF Full
  <2>5. handle.ix \in NamedIn(c)
    BY <2>1, <2>3, <2>4 DEF NamedIn
  <2>6. Index = handle.ix
    BY <1>1 DEF Index
  <2> QED BY <1>1, <2>5, <2>6 DEF VariableByName
<1>2. CASE ~(got["settings"] /\ handle.ix # 0 /\ handle.id = Id(c))
  <2>1. Index = Find(c)
    BY <1>2 DEF Index
  <2> QED BY <2>1, FindIsRight DEF VariableByName, HeldOK
<1> QED BY <1>1, <1>2

(* A sketch that uses a setting by its name gets that one whenever the     *)
(* master has it, and never another one, however often the module is       *)
(* reprogrammed (verify_mivariable), if the ids of the contracts differ    *)
(* where their names do.                                                   *)
THEOREM HandleCorrect ==
  ASSUME IdsTellApart
  PROVE  Spec => []VariableByName
<1>1. Init => HandleInv
  BY DEF Init, HandleInv, NotFound
<1>2. IType /\ HandleInv /\ [Next]_vars => HandleInv'
  <2> SUFFICES ASSUME IType, HandleInv, [Next]_vars PROVE HandleInv'
    OBVIOUS
  <2>0. ModuleOK /\ HeldOK /\ LoopOK
    BY Parts
  <2>1. CASE UseVariable
    <3>1. CASE got["settings"] /\ Index # 0
      <4>1. handle' = [ix |-> Index, id |-> Id(scon["settings"])]
        BY <2>1, <3>1 DEF UseVariable
      <4>2. scon["settings"] \in Contracts("settings")
        BY <2>0, <3>1 DEF HeldOK
      <4>3. Index \in NamedIn(scon["settings"])
        BY <2>0, <3>1, IndexIsRight DEF VariableByName
      <4> QED BY <4>1, <4>2, <4>3 DEF HandleInv
    <3>2. CASE ~(got["settings"] /\ Index # 0)
      BY <2>1, <3>2 DEF UseVariable, HandleInv, NotFound
    <3> QED BY <3>1, <3>2
  <2>2. CASE MasterRestart
    BY <2>2 DEF MasterRestart, HandleInv, NotFound
  <2>3. CASE UNCHANGED handle
    BY <2>3 DEF HandleInv
  <2>4. MasterLoop => UNCHANGED handle
    BY DEF MasterLoop, RequestContract, StartTransfer, SendSettings, SendInputs,
       GetSettings, RelayInputs, SendTimeout, ReplyTimeout
  <2>5. ModuleStep => UNCHANGED handle
    BY DEF ModuleStep, ModuleSendsContract, ModuleHandlesSettings, ModuleHandlesInputs, ModuleReportsSetting,
       SketchUpdatesOutputs, ModuleSendsPresence, ModuleGivesUp, Reprogram
  <2>6. \A acked \in BOOLEAN : MasterHandles(acked) => UNCHANGED handle
    BY DEF MasterHandles
  <2>7. UNCHANGED vars => UNCHANGED handle
    BY DEF vars
  <2> QED BY <2>1, <2>2, <2>3, <2>4, <2>5, <2>6, <2>7 DEF Next, MasterStep
<1>3. IType /\ HandleInv => VariableByName
  BY IndexIsRight, Parts
<1> QED BY <1>1, <1>2, <1>3, TypeInductive, PTL DEF Spec
=============================================================================
