---------------------------- MODULE RoutingProofs ----------------------------
(***************************************************************************)
(* Proofs about Routing, for any number of modules, any programs they may  *)
(* be given, and all bounds.                                               *)
(***************************************************************************)
EXTENDS Routing, FiniteSetTheorems, WellFoundedInduction, TLAPS

(* A set of numbers has a smallest one. *)
LEMMA Smallest ==
  ASSUME NEW S \in SUBSET Nat, S # {}
  PROVE  \E x \in S : \A y \in S : x <= y
<1>1. PICK x \in S : \A y \in S : ~(<<y, x>> \in OpToRel(<, Nat))
  BY NatLessThanWellFounded, WFMin
<1>2. \A y \in S : ~(y < x)
  BY <1>1 DEF OpToRel
<1> QED BY <1>2

(* What find_output_by_name finds is an output with the name. *)
LEMMA FirstMatchIsMatch ==
  ASSUME NEW name, Matches(name) # {},
         \A i \in Mod : held[i]["outputs"] \in Seq(Names)
  PROVE  FirstMatch(name) \in Matches(name)
<1> DEFINE S == Matches(name)
           before(x, y) == x.module < y.module \/ (x.module = y.module /\ x.output <= y.output)
<1>1. \A x \in S : x.module \in Nat /\ x.output \in Nat
  BY ModAssumption DEF Matches, Mod
<1> DEFINE modules0 == {x.module : x \in S}
<1>2. PICK m \in modules0 : \A y \in modules0 : m <= y
  BY <1>1, Smallest, modules0 # {}, modules0 \in SUBSET Nat
<1> DEFINE outputs0 == {x.output : x \in {y \in S : y.module = m}}
<1>3. PICK o \in outputs0 : \A y \in outputs0 : o <= y
  BY <1>1, <1>2, Smallest, outputs0 # {}, outputs0 \in SUBSET Nat
<1>4. PICK x \in S : x.module = m /\ x.output = o
  BY <1>3
<1>5. \A y \in S : before(x, y)
  <2> TAKE y \in S
  <2>1. y.module \in Nat /\ y.output \in Nat /\ x.module \in Nat /\ x.output \in Nat
    BY <1>1
  <2>2. m <= y.module
    BY <1>2
  <2>3. y.module = m => o <= y.output
    BY <1>3
  <2> QED BY <1>4, <2>1, <2>2, <2>3
<1> HIDE DEF before
<1>6. \E z \in S : \A y \in S : before(z, y)
  BY <1>5
<1>7. (CHOOSE z \in S : \A y \in S : before(z, y)) \in S
  BY <1>6
<1> QED BY <1>7 DEF FirstMatch, before
-----------------------------------------------------------------------------
(* Type correctness.                                                       *)

LEMMA ContractFacts ==
  ASSUME TypeOK, NEW i \in Mod, NEW k \in Kind
  PROVE  /\ prog[i][k] \in Seq(Names) /\ held[i][k] \in Seq(Names)
         /\ \A p \in Program[i] : p[k] \in Seq(Names)
<1>1. \A p \in Program[i] : p[k] \in Seq(Names)
  BY ProgramAssumption
<1>2. prog[i] \in Program[i]
  BY DEF TypeOK, ModuleType, MasterType
<1>3. held[i][k] = <<>> \/ \E p \in Program[i] : held[i][k] = p[k]
  BY DEF TypeOK, ModuleType, MasterType
<1>4. <<>> \in Seq(Names)
  OBVIOUS
<1>5. held[i][k] \in Seq(Names)
  BY <1>1, <1>3, <1>4, Zenon
<1> QED BY <1>1, <1>2, <1>5

LEMMA InitType == Init => TypeOK
<1> SUFFICES ASSUME Init PROVE TypeOK
  OBVIOUS
<1>1. /\ DOMAIN prog = Mod /\ DOMAIN mine = Mod /\ DOMAIN held = Mod
      /\ DOMAIN oval = Mod /\ DOMAIN oev = Mod /\ DOMAIN ival = Mod /\ DOMAIN source = Mod
  BY DEF Init
<1>2. FlagsType
  BY DEF Init, FlagsType
<1>3. ASSUME NEW i \in Mod
      PROVE  /\ ModuleType(i)
             /\ \A k \in Kind : held[i][k] = <<>>
             /\ oval[i] = <<>> /\ oev[i] = {} /\ ival[i] = <<>> /\ source[i] = <<>>
  BY DEF Init, ModuleType, Slots, Empty
<1>4. <<>> \in Slots(<<>>)
  BY DEF Slots
<1>5. ASSUME NEW i \in Mod PROVE MasterType(i)
  BY <1>3, <1>4 DEF MasterType, Kind
<1>6. LoopType /\ deps \in BOOLEAN /\ known \in 0..M
  <2>1. 1 \in Mod /\ 0 \in 0..M
    BY ModAssumption DEF Mod
  <2> QED BY <2>1 DEF Init, LoopType
<1>7. count \in [programs : Nat, away : Nat, late : Nat] /\ passed \subseteq Mod /\ misled \subseteq Mod
  BY DEF Init
<1> QED BY <1>1, <1>2, <1>3, <1>5, <1>6, <1>7 DEF TypeOK

LEMMA SameModules ==
  ASSUME TypeOK, UNCHANGED <<prog, mine>>
  PROVE  DOMAIN prog' = Mod /\ DOMAIN mine' = Mod /\ \A i \in Mod : ModuleType(i)'
BY DEF TypeOK, ModuleType

LEMMA SameMaster ==
  ASSUME TypeOK, UNCHANGED <<held, oval, oev, ival, source>>
  PROVE  /\ DOMAIN held' = Mod /\ DOMAIN oval' = Mod /\ DOMAIN oev' = Mod
         /\ DOMAIN ival' = Mod /\ DOMAIN source' = Mod
         /\ \A i \in Mod : MasterType(i)'
BY DEF TypeOK, MasterType

LEMMA SwitchOffType ==
  ASSUME TypeOK, NEW i \in Mod, SwitchOff(i)
  PROVE  TypeOK'
<1> USE DEF SwitchOff, contracts, outputs, inputs, cache, loop
<1>1. FlagsType' /\ LoopType'
  BY DEF TypeOK, FlagsType, LoopType
<1>2. count' \in [programs : Nat, away : Nat, late : Nat]
  BY DEF TypeOK
<1> QED BY <1>1, <1>2, SameModules, SameMaster DEF TypeOK

LEMMA StartType ==
  ASSUME TypeOK, NEW i \in Mod, NEW p \in Program[i], Start(i, p)
  PROVE  TypeOK'
<1> USE DEF Start, contracts, outputs, inputs, cache, loop
<1>1. ASSUME NEW n \in Mod PROVE ModuleType(n)'
  <2>1. CASE n = i
    BY <2>1 DEF TypeOK, ModuleType, Slots, Empty
  <2>2. CASE n # i
    BY <2>2 DEF TypeOK, ModuleType
  <2> QED BY <2>1, <2>2
<1>2. FlagsType' /\ LoopType'
  BY DEF TypeOK, FlagsType, LoopType
<1>3. count' \in [programs : Nat, away : Nat, late : Nat]
  BY DEF TypeOK
<1> QED BY <1>1, <1>2, <1>3, SameMaster DEF TypeOK

(* What modules are sent are values of inputs. *)
LEMMA DeliverType ==
  ASSUME TypeOK, NEW to, NEW js, NEW vals, Deliver(to, js, vals),
         \A i \in Mod : vals[i] \in Slots(held[i]["inputs"])
  PROVE  /\ DOMAIN prog' = Mod /\ DOMAIN mine' = Mod /\ mis' \in [Mod -> BOOLEAN]
         /\ prog' = prog /\ alive' = alive
         /\ \A i \in Mod : ModuleType(i)'
<1>1. ASSUME NEW i \in Mod PROVE ModuleType(i)'
  <2> USE DEF ModuleType, Slots
  <2>1. prog[i] \in Program[i] /\ mine[i] \in Slots(prog[i]["inputs"]) /\ prog' = prog
    BY DEF TypeOK, Deliver
  <2>2. CASE mine'[i] = mine[i]
    BY <2>1, <2>2
  <2>3. CASE /\ held[i]["inputs"] = prog[i]["inputs"]
             /\ mine'[i] = [j \in DOMAIN mine[i] |-> IF j \in js[i] THEN vals[i][j] ELSE mine[i][j]]
    <3>1. vals[i] \in Slots(prog[i]["inputs"])
      BY <2>3
    <3>2. \A j \in DOMAIN mine[i] : mine'[i][j] \in Names \cup {Blank}
      BY <2>1, <2>3, <3>1
    <3> QED BY <2>1, <2>3, <3>2
  <2>4. \/ mine'[i] = mine[i]
        \/ /\ held[i]["inputs"] = prog[i]["inputs"]
           /\ mine'[i] = [j \in DOMAIN mine[i] |-> IF j \in js[i] THEN vals[i][j] ELSE mine[i][j]]
    BY DEF Deliver
  <2> QED BY <2>2, <2>3, <2>4
<1>2. mis' \in [Mod -> BOOLEAN]
  <2>1. \A i \in Mod : mis[i] \in BOOLEAN
    BY DEF TypeOK, FlagsType
  <2> QED BY <2>1 DEF Deliver
<1>3. DOMAIN mine' = Mod /\ prog' = prog /\ alive' = alive
  BY DEF Deliver
<1> QED BY <1>1, <1>2, <1>3 DEF TypeOK

LEMMA ReceiveType ==
  ASSUME TypeOK, NEW i \in Mod, NEW slots, NEW event \in BOOLEAN,
         slots \subseteq DOMAIN prog[i]["outputs"], Receive(i, slots, event)
  PROVE  TypeOK'
<1> USE DEF Receive, modules, cache, loop
<1> DEFINE ok == "outputs" \in got[i] /\ held[i]["outputs"] = prog[i]["outputs"]
<1>1. ASSUME NEW n \in Mod PROVE MasterType(n)'
  <2>1. MasterType(n) /\ MasterType(i) /\ DOMAIN oval = Mod /\ DOMAIN oev = Mod
    BY DEF TypeOK
  <2>2. CASE ~ok
    BY <2>1, <2>2 DEF MasterType
  <2>3. CASE ok
    <3>1. oval' = [oval EXCEPT ![i] = [o \in DOMAIN @ |->
                     IF o \in slots THEN held[i]["outputs"][o] ELSE @[o]]]
      BY <2>3
    <3>2. oev' = [oev EXCEPT ![i] = IF event THEN @ \cup slots ELSE @]
      BY <2>3
    <3>3. held' = held /\ ival' = ival /\ source' = source
      OBVIOUS
    <3>4. \A m \in Mod : DOMAIN oval'[m] = DOMAIN oval[m]
      BY <2>1, <3>1
    <3>5. oval'[n] \in Slots(held[n]["outputs"])
      <4>1. CASE n # i
        BY <2>1, <3>1, <4>1 DEF MasterType
      <4>2. CASE n = i
        <5>1. held[i]["outputs"] \in Seq(Names)
          BY ContractFacts DEF Kind
        <5>2. \A o \in DOMAIN held[i]["outputs"] : held[i]["outputs"][o] \in Names
          BY <5>1
        <5>3. oval[i] \in Slots(held[i]["outputs"])
          BY <2>1 DEF MasterType
        <5>4. oval'[i] = [o \in DOMAIN oval[i] |->
                     IF o \in slots THEN held[i]["outputs"][o] ELSE oval[i][o]]
          BY <2>1, <3>1
        <5> QED BY <4>2, <5>2, <5>3, <5>4 DEF Slots
      <4> QED BY <4>1, <4>2
    <3>6. oev'[n] \subseteq DOMAIN oval[n]
      <4>1. oev[n] \subseteq DOMAIN oval[n] /\ DOMAIN oval[i] = DOMAIN held[i]["outputs"]
        BY <2>1 DEF MasterType, Slots
      <4> QED BY <2>1, <2>3, <3>2, <4>1
    <3> QED BY <2>1, <3>3, <3>4, <3>5, <3>6 DEF MasterType
  <2> QED BY <2>2, <2>3
<1>2. /\ DOMAIN held' = Mod /\ DOMAIN oval' = Mod /\ DOMAIN oev' = Mod
      /\ DOMAIN ival' = Mod /\ DOMAIN source' = Mod
  BY DEF TypeOK
<1>3. FlagsType'
  <2>1. oupd \in [Mod -> BOOLEAN] /\ iupd \in [Mod -> BOOLEAN] /\ got \in [Mod -> SUBSET Kind]
    BY DEF TypeOK, FlagsType
  <2>2. PICK b \in BOOLEAN : oupd' = [oupd EXCEPT ![i] = b] \/ oupd' = [oupd EXCEPT ![i] = @ \/ b]
    OBVIOUS
  <2>3. oupd[i] \in BOOLEAN
    BY <2>1
  <2>4. oupd' \in [Mod -> BOOLEAN]
    BY <2>1, <2>2, <2>3
  <2>5. iupd' = iupd \/ \E keep \in BOOLEAN : iupd' = [iupd EXCEPT ![i] = @ /\ keep]
    OBVIOUS
  <2>6. iupd' \in [Mod -> BOOLEAN]
    BY <2>1, <2>5
  <2>7. got' \in [Mod -> SUBSET Kind]
    BY <2>1
  <2> QED BY <2>4, <2>6, <2>7 DEF TypeOK, FlagsType
<1>4. count' \in [programs : Nat, away : Nat, late : Nat] /\ passed' \subseteq Mod
  BY DEF TypeOK
<1> QED BY <1>1, <1>2, <1>3, <1>4, SameModules DEF TypeOK, LoopType

LEMMA EndPollType ==
  ASSUME TypeOK, EndPoll
  PROVE  TypeOK'
<1> USE DEF EndPoll, modules, contracts, outputs, inputs, cache
<1>1. FlagsType' /\ LoopType'
  BY ModAssumption DEF TypeOK, FlagsType, LoopType, Mod
<1> QED BY <1>1, SameModules, SameMaster DEF TypeOK

LEMMA DeactivateType ==
  ASSUME TypeOK, NEW i \in Mod, Deactivate(i)
  PROVE  TypeOK'
<1> USE DEF Deactivate, modules, outputs, inputs, cache, loop
<1>1. FlagsType' /\ LoopType'
  BY DEF TypeOK, FlagsType, LoopType
<1>2. count' \in [programs : Nat, away : Nat, late : Nat]
  BY DEF TypeOK
<1> QED BY <1>1, <1>2, SameModules, SameMaster DEF TypeOK

(* The variables are those of the new contract. *)
LEMMA NewVariablesType ==
  ASSUME TypeOK, NEW n \in Mod, NEW ks \in SUBSET Kind, NewVariables(n, ks),
         UNCHANGED source
  PROVE  /\ DOMAIN held' = Mod /\ DOMAIN oval' = Mod /\ DOMAIN oev' = Mod
         /\ DOMAIN ival' = Mod /\ DOMAIN source' = Mod
         /\ \A i \in Mod : MasterType(i)'
<1>1. /\ DOMAIN held' = Mod /\ DOMAIN oval' = Mod /\ DOMAIN oev' = Mod
      /\ DOMAIN ival' = Mod /\ DOMAIN source' = Mod
  BY DEF TypeOK, NewVariables
<1>2. ASSUME NEW i \in Mod
      PROVE  /\ \A k \in Kind : held'[i][k] \in {p[k] : p \in Program[i]} \cup {<<>>}
             /\ oval'[i] \in Slots(held'[i]["outputs"]) /\ oev'[i] \subseteq DOMAIN oval'[i]
             /\ ival'[i] \in Slots(held'[i]["inputs"])
  <2>1. /\ \A k \in Kind : held[i][k] \in {p[k] : p \in Program[i]} \cup {<<>>}
        /\ oval[i] \in Slots(held[i]["outputs"]) /\ oev[i] \subseteq DOMAIN oval[i]
        /\ ival[i] \in Slots(held[i]["inputs"])
        /\ prog[i] \in Program[i]
    BY DEF TypeOK, MasterType, ModuleType
  <2>2. CASE i # n
    BY <2>1, <2>2, <1>1 DEF TypeOK, NewVariables
  <2>3. CASE i = n
    <3>1. \A k \in Kind : held'[i][k] = IF k \in ks THEN prog[i][k] ELSE held[i][k]
      BY <2>3 DEF TypeOK, NewVariables
    <3>2. /\ oval'[i] = IF "outputs" \in ks THEN Empty(prog[i]["outputs"]) ELSE oval[i]
          /\ ival'[i] = IF "inputs" \in ks THEN Empty(prog[i]["inputs"]) ELSE ival[i]
          /\ oev'[i] = IF "outputs" \in ks THEN {} ELSE oev[i]
      BY <2>3 DEF TypeOK, NewVariables
    <3>3. "outputs" \in Kind /\ "inputs" \in Kind
      BY DEF Kind
    <3>4. \A c : Empty(c) \in Slots(c)
      BY DEF Empty, Slots
    <3>5. oval'[i] \in Slots(held'[i]["outputs"]) /\ oev'[i] \subseteq DOMAIN oval'[i]
      BY <2>1, <3>1, <3>2, <3>3, <3>4
    <3>6. ival'[i] \in Slots(held'[i]["inputs"])
      BY <2>1, <3>1, <3>2, <3>3, <3>4
    <3> QED BY <2>1, <3>1, <3>5, <3>6
  <2> QED BY <2>2, <2>3
<1>3. ASSUME NEW i \in Mod, NEW j \in DOMAIN source'[i]
      PROVE  source'[i][j] = NoSource \/ source'[i][j].module \in Mod
  BY <1>3 DEF TypeOK, MasterType
<1> QED BY <1>1, <1>2, <1>3 DEF MasterType

LEMMA UpdateContractType ==
  ASSUME TypeOK, NEW ks \in SUBSET Kind, UpdateContract(ks)
  PROVE  TypeOK'
<1>1. visited \in Mod
  BY DEF TypeOK, LoopType
<1>2. NewVariables(visited, ks) /\ source' = source
  BY DEF UpdateContract, cache
<1>3. FlagsType' /\ LoopType'
  BY <1>1 DEF TypeOK, FlagsType, LoopType, UpdateContract
<1> QED BY <1>1, <1>2, <1>3, NewVariablesType, SameModules
        DEF TypeOK, UpdateContract, NewVariables, cache

LEMMA SendInputsType ==
  ASSUME TypeOK, NEW received \in BOOLEAN, SendInputs(received)
  PROVE  TypeOK'
<1> USE DEF SendInputs, contracts, outputs, inputs, cache
<1>1. \A i \in Mod : ival[i] \in Slots(held[i]["inputs"])
  BY DEF TypeOK, MasterType
<1>2. PICK to, js : Deliver(to, js, ival)
  OBVIOUS
<1>3. /\ DOMAIN prog' = Mod /\ DOMAIN mine' = Mod /\ mis' \in [Mod -> BOOLEAN]
      /\ alive' = alive /\ \A i \in Mod : ModuleType(i)'
  BY <1>1, <1>2, DeliverType
<1>4. FlagsType' /\ LoopType'
  BY <1>3 DEF TypeOK, FlagsType, LoopType
<1> QED BY <1>3, <1>4, SameMaster DEF TypeOK

LEMMA NextVisitType ==
  ASSUME TypeOK, pc \in {"check"}, NextVisit
  PROVE  LoopType'
BY ModAssumption DEF TypeOK, LoopType, NextVisit, Mod

(* What is read from the cache, garbage included, is the value of a module.*)
LEMMA SourceAtType ==
  ASSUME TypeOK, NEW src, NEW i \in Mod, NEW j, NEW wild \in Garbage,
         \A x \in DOMAIN src[i] : src[i][x] = NoSource \/ src[i][x].module \in Mod,
         SourceAt(src, i, j, wild) # NoSource
  PROVE  /\ SourceAt(src, i, j, wild).module \in Mod
         /\ Content(SourceAt(src, i, j, wild)) \in Names \cup {Blank}
<1> DEFINE s == SourceAt(src, i, j, wild)
<1>1. wild.source = NoSource \/ wild.source.module \in Mod
  BY DEF Garbage
<1>2. s.module \in Mod
  BY <1>1 DEF SourceAt
<1>3. oval[s.module] \in Slots(held[s.module]["outputs"])
  BY <1>2 DEF TypeOK, MasterType
<1> HIDE DEF s
<1>4. Content(s) \in Names \cup {Blank}
  BY <1>3 DEF Content, Slots
<1> QED BY <1>2, <1>4 DEF s

LEMMA CopyType ==
  ASSUME TypeOK, NEW src, NEW js, NEW wild \in Garbage, Copy(src, js, wild),
         \A i \in Mod : \A x \in DOMAIN src[i] : src[i][x] = NoSource \/ src[i][x].module \in Mod,
         \A i \in Mod : \A j \in js[i] : SourceAt(src, i, j, wild) # NoSource
  PROVE  /\ DOMAIN ival' = Mod /\ \A i \in Mod : ival'[i] \in Slots(held[i]["inputs"])
         /\ misled' \subseteq Mod
<1>1. ival' = [i \in Mod |-> [j \in DOMAIN ival[i] |->
                IF j \in js[i] THEN Content(SourceAt(src, i, j, wild)) ELSE ival[i][j]]]
  BY DEF Copy
<1>2. ASSUME NEW i \in Mod PROVE ival'[i] \in Slots(held[i]["inputs"])
  <2>1. ival[i] \in Slots(held[i]["inputs"])
    BY DEF TypeOK, MasterType
  <2>2. ASSUME NEW j \in js[i] PROVE Content(SourceAt(src, i, j, wild)) \in Names \cup {Blank}
    BY SourceAtType
  <2> QED BY <1>1, <2>1, <2>2 DEF Slots
<1>3. misled' \subseteq Mod
  BY DEF Copy, TypeOK
<1> QED BY <1>1, <1>2, <1>3

LEMMA CopyEventsType ==
  ASSUME TypeOK, NEW received \in BOOLEAN, NEW wild \in Garbage, CopyEvents(received, wild)
  PROVE  /\ DOMAIN prog' = Mod /\ DOMAIN mine' = Mod /\ mis' \in [Mod -> BOOLEAN]
         /\ alive' = alive /\ \A i \in Mod : ModuleType(i)'
         /\ DOMAIN ival' = Mod /\ \A i \in Mod : ival'[i] \in Slots(held[i]["inputs"])
         /\ misled' \subseteq Mod
<1> DEFINE js == [i \in Mod |-> {j \in DOMAIN ival[i] :
               LET s == SourceAt(source, i, j, wild) IN s # NoSource /\ IsEvent(s, wild)}]
<1>1. Copy(source, js, wild)
  BY DEF CopyEvents
<1>2. PICK to : Deliver(to, js, ival')
  BY DEF CopyEvents
<1>3. \A i \in Mod : \A x \in DOMAIN source[i] : source[i][x] = NoSource \/ source[i][x].module \in Mod
  BY DEF TypeOK, MasterType
<1>4. \A i \in Mod : \A j \in js[i] : SourceAt(source, i, j, wild) # NoSource
  OBVIOUS
<1> HIDE DEF js
<1>5. /\ DOMAIN ival' = Mod /\ \A i \in Mod : ival'[i] \in Slots(held[i]["inputs"])
      /\ misled' \subseteq Mod
  BY <1>1, <1>3, <1>4, CopyType
<1> QED BY <1>2, <1>5, DeliverType

LEMMA HandleEventsType ==
  ASSUME TypeOK, NEW received \in BOOLEAN, NEW wild \in Garbage, HandleEvents(received, wild)
  PROVE  TypeOK'
<1> USE DEF HandleEvents, contracts
<1>1. LoopType'
  BY NextVisitType
<1>2. /\ DOMAIN prog' = Mod /\ DOMAIN mine' = Mod /\ mis' \in [Mod -> BOOLEAN]
      /\ alive' = alive /\ \A i \in Mod : ModuleType(i)'
      /\ DOMAIN ival' = Mod /\ \A i \in Mod : ival'[i] \in Slots(held[i]["inputs"])
      /\ misled' \subseteq Mod
  <2>1. CASE CopyEvents(received, wild)
    BY <2>1, CopyEventsType
  <2>2. CASE UNCHANGED <<modules, ival, misled>>
    BY <2>2, SameModules DEF modules, TypeOK, FlagsType, MasterType
  <2> QED BY <2>1, <2>2
<1>3. \A i \in Mod : oev'[i] = {} \/ oev'[i] = oev[i]
  OBVIOUS
<1>4. ASSUME NEW i \in Mod PROVE MasterType(i)'
  BY <1>2, <1>3 DEF TypeOK, MasterType
<1>5. FlagsType'
  BY <1>2 DEF TypeOK, FlagsType
<1>6. deps' \in BOOLEAN /\ passed' \subseteq Mod
  BY DEF TypeOK, Dropped
<1> QED BY <1>1, <1>2, <1>4, <1>5, <1>6 DEF TypeOK

LEMMA ActiveContractsType == ActiveContracts \in 0..M
<1> DEFINE S == {i \in Mod : active[i] /\ got[i] = Kind}
<1>1. IsFiniteSet(Mod) /\ Cardinality(Mod) = M
  BY ModAssumption, FS_Interval DEF Mod
<1>2. S \in SUBSET Mod
  OBVIOUS
<1>3. Cardinality(S) <= Cardinality(Mod) /\ IsFiniteSet(S)
  BY <1>1, <1>2, FS_Subset
<1>4. Cardinality(S) \in Nat
  BY <1>3, FS_CardinalityType
<1> QED BY <1>1, <1>3, <1>4, ModAssumption DEF ActiveContracts

(* Sources that are found are outputs with the name of an input. *)
LEMMA CurrentSourcesType ==
  ASSUME TypeOK, NEW i \in Mod, NEW j \in DOMAIN CurrentSources[i],
         CurrentSources[i][j] # NoSource
  PROVE  CurrentSources[i][j].module \in Mod /\ SameName(i, j, CurrentSources[i][j])
<1> DEFINE name == held[i]["inputs"][j]
<1>1. j \in DOMAIN held[i]["inputs"] /\ CurrentSources[i][j] = SourceOf(name)
  BY DEF CurrentSources
<1>2. Matches(name) # {} /\ SourceOf(name) = FirstMatch(name)
  BY <1>1 DEF SourceOf
<1>3. \A m \in Mod : held[m]["outputs"] \in Seq(Names)
  BY ContractFacts DEF Kind
<1>4. FirstMatch(name) \in Matches(name)
  BY <1>2, <1>3, FirstMatchIsMatch
<1>5. \A x \in Matches(name) : /\ x.module \in Mod /\ x.output \in DOMAIN held[x.module]["outputs"]
                               /\ held[x.module]["outputs"][x.output] = name
  BY DEF Matches
<1> QED BY <1>1, <1>2, <1>4, <1>5 DEF SameName

LEMMA UpdateSourcesType ==
  ASSUME TypeOK, UpdateSources
  PROVE  /\ deps' \in BOOLEAN /\ known' \in 0..M /\ DOMAIN source' = Mod
         /\ source' = source \/ source' = CurrentSources
         /\ passed' \subseteq Mod
<1>1. ActiveContracts \in 0..M
  BY ActiveContractsType
<1>2. source' = source \/ source' = CurrentSources
  BY DEF UpdateSources
<1>3. known' = known \/ known' = ActiveContracts
  BY DEF UpdateSources
<1>4. deps' \in BOOLEAN
  <2>1. deps' = deps \/ deps' = (ActiveContracts > 0)
    BY DEF UpdateSources
  <2>2. deps \in BOOLEAN /\ (ActiveContracts > 0) \in BOOLEAN
    BY <1>1 DEF TypeOK
  <2> QED BY <2>1, <2>2, Zenon
<1>5. DOMAIN source' = Mod
  BY <1>2 DEF CurrentSources, TypeOK
<1>6. passed' \subseteq Mod
  BY DEF UpdateSources, Dropped, TypeOK
<1> QED BY <1>1, <1>2, <1>3, <1>4, <1>5, <1>6 DEF TypeOK

LEMMA RelayType ==
  ASSUME TypeOK, NEW wild \in Garbage, Relay(wild)
  PROVE  TypeOK'
<1> USE DEF modules, contracts, outputs
<1> DEFINE routed == [i \in Mod |-> {j \in DOMAIN ival[i] : SourceAt(source', i, j, wild) # NoSource}]
           used == [i \in Mod |-> {j \in routed[i] : oupd[SourceAt(source', i, j, wild).module]}]
<1>1. /\ deps' \in BOOLEAN /\ known' \in 0..M /\ DOMAIN source' = Mod
      /\ source' = source \/ source' = CurrentSources
      /\ passed' \subseteq Mod
  <2>1. CASE UpdateSources
    BY <2>1, UpdateSourcesType
  <2>2. CASE deps' = FALSE /\ passed' = {} /\ UNCHANGED <<source, known>>
    BY <2>2 DEF TypeOK
  <2> QED BY <2>1, <2>2 DEF Relay
<1>2. /\ UNCHANGED <<prog, mine, alive, mis, held, got, active, oval, oupd, oev, visited, count>>
      /\ pc = "relay" /\ pc' = "poll" /\ stage' = "relayed"
  BY DEF Relay
<1>3. ASSUME NEW i \in Mod, NEW j \in DOMAIN source'[i]
      PROVE  source'[i][j] = NoSource \/ source'[i][j].module \in Mod
  <2>1. CASE source' = source
    BY <1>3, <2>1 DEF TypeOK, MasterType
  <2>2. CASE source' = CurrentSources
    BY <2>2, CurrentSourcesType
  <2> QED BY <1>1, <2>1, <2>2
<1>4. /\ DOMAIN ival' = Mod /\ \A i \in Mod : ival'[i] \in Slots(held[i]["inputs"])
      /\ misled' \subseteq Mod
  <2>1. CASE Copy(source', used, wild)
    <3>1. \A i \in Mod : \A j \in used[i] : SourceAt(source', i, j, wild) # NoSource
      OBVIOUS
    <3> HIDE DEF used
    <3> QED BY <2>1, <3>1, <1>3, CopyType
  <2>2. CASE UNCHANGED <<inputs, misled>>
    BY <2>2 DEF inputs, TypeOK, MasterType
  <2> QED BY <2>1, <2>2 DEF Relay
<1>5. iupd' \in [Mod -> BOOLEAN]
  <2>1. \A i \in Mod : iupd[i] \in BOOLEAN
    BY DEF TypeOK, FlagsType
  <2> QED BY <2>1 DEF Relay, inputs, TypeOK, FlagsType
<1>6. ASSUME NEW i \in Mod PROVE MasterType(i)'
  BY <1>2, <1>3, <1>4 DEF TypeOK, MasterType
<1>7. LoopType'
  BY <1>2 DEF TypeOK, LoopType
<1> QED BY <1>1, <1>2, <1>4, <1>5, <1>6, <1>7, SameModules DEF TypeOK, FlagsType

LEMMA StepType == TypeOK /\ [Next]_vars => TypeOK'
<1> SUFFICES ASSUME TypeOK, [Next]_vars PROVE TypeOK'
  OBVIOUS
<1>1. ASSUME NEW i \in Mod, SwitchOff(i) PROVE TypeOK'
  BY <1>1, SwitchOffType
<1>2. ASSUME NEW i \in Mod, NEW p \in Program[i], Start(i, p) PROVE TypeOK'
  BY <1>2, StartType
<1>3. ASSUME NEW i \in Mod, NEW x \in Packets(i), Receive(i, x[1], x[2]) PROVE TypeOK'
  <2>1. x[1] \subseteq DOMAIN prog[i]["outputs"] /\ x[2] \in BOOLEAN
    <3>1. CASE x = <<DOMAIN prog[i]["outputs"], FALSE>>
      BY <3>1
    <3>2. ASSUME NEW o \in DOMAIN prog[i]["outputs"], x = <<{o}, TRUE>>
          PROVE  x[1] \subseteq DOMAIN prog[i]["outputs"] /\ x[2] \in BOOLEAN
      BY <3>2
    <3> QED BY <3>1, <3>2 DEF Packets
  <2> QED BY <1>3, <2>1, ReceiveType
<1>4. CASE EndPoll
  BY <1>4, EndPollType
<1>5. ASSUME NEW ks \in SUBSET Kind, UpdateContract(ks) PROVE TypeOK'
  BY <1>5, UpdateContractType
<1>6. ASSUME NEW received \in BOOLEAN, SendInputs(received) PROVE TypeOK'
  BY <1>6, SendInputsType
<1>7. ASSUME NEW received \in BOOLEAN, NEW wild \in Garbage, HandleEvents(received, wild) PROVE TypeOK'
  BY <1>7, HandleEventsType
<1>8. ASSUME NEW i \in Mod, Deactivate(i) PROVE TypeOK'
  BY <1>8, DeactivateType
<1>9. ASSUME NEW wild \in Garbage, Relay(wild) PROVE TypeOK'
  BY <1>9, RelayType
<1>10. CASE UNCHANGED vars
  BY <1>10, SameModules, SameMaster DEF vars, TypeOK, FlagsType, LoopType
<1> QED BY <1>1, <1>2, <1>3, <1>4, <1>5, <1>6, <1>7, <1>8, <1>9, <1>10 DEF Next, Visit

(* Type correctness: whatever the modules are programmed with, and however *)
(* they are reprogrammed, lost and found, the values and event flags the   *)
(* master has are those of the contracts it holds, as long as these        *)
(* (ModuleVariableSet::set_variables).                                     *)
THEOREM TypeCorrect == Spec => []TypeOK
BY InitType, StepType, PTL DEF Spec

-----------------------------------------------------------------------------
(* The cached sources.                                                     *)

LEMMA SameCache ==
  ASSUME CacheInv, UNCHANGED <<held, got, source, deps, passed, pc, visited>>
  PROVE  CacheInv'
BY DEF CacheInv, SourcesAreCurrent, SameName, Dropped, Known

(* A contract that was dropped is missed before it can be replaced.        *)
LEMMA UpdateContractCache ==
  ASSUME TypeOK, CacheInv, NEW ks \in SUBSET Kind, UpdateContract(ks)
  PROVE  CacheInv'
<1> DEFINE n == visited
<1>1. n \in Mod /\ "inputs" \in Kind /\ "outputs" \in Kind
  BY DEF TypeOK, LoopType, Kind
<1>2. /\ held' = [held EXCEPT ![n] = [k \in Kind |-> IF k \in ks THEN prog[n][k] ELSE @[k]]]
      /\ UNCHANGED <<source, deps, passed>>
      /\ pc = "visit" /\ pc' = "check" /\ ks \subseteq Kind \ got[n]
  BY DEF UpdateContract, NewVariables, cache
<1>3. DOMAIN held = Mod
  BY DEF TypeOK
<1> SUFFICES ASSUME deps PROVE CacheInv'
  BY <1>2 DEF CacheInv, SourcesAreCurrent
<1>4. ASSUME n \notin passed, ks # {}
      PROVE  DOMAIN source[n] = {} /\ \A k \in Kind : held[n][k] = <<>>
  <2>1. got[n] # Kind
    BY <1>1, <1>2, <1>4
  <2>2. n \notin Dropped
    BY <1>1, <1>2, <1>4 DEF CacheInv
  <2> QED BY <1>1, <2>1, <2>2 DEF Dropped, Known
<1>5. \A m \in Mod : (m # n \/ ks = {}) => \A k \in Kind : held'[m][k] = held[m][k]
  BY <1>2, <1>3
<1>6. SourcesAreCurrent'
  <2> SUFFICES ASSUME NEW i \in Mod \ passed, NEW j \in DOMAIN source[i], source[i][j] # NoSource,
                      source[i][j].module \notin passed
               PROVE  SameName(i, j, source[i][j])'
    BY <1>2 DEF SourcesAreCurrent, SameName
  <2> DEFINE s == source[i][j]
  <2>1. s.module \in Mod
    BY DEF TypeOK, MasterType
  <2>2. SameName(i, j, s)
    BY DEF CacheInv, SourcesAreCurrent
  <2>3. ks = {} \/ (i # n /\ s.module # n)
    BY <1>1, <1>4, <2>2 DEF SameName
  <2>4. held'[i]["inputs"] = held[i]["inputs"] /\ held'[s.module]["outputs"] = held[s.module]["outputs"]
    BY <1>1, <1>5, <2>1, <2>3
  <2> QED BY <1>2, <2>2, <2>4 DEF SameName
<1>7. ASSUME NEW i \in Mod \ passed
      PROVE  DOMAIN source[i] = {} \/ DOMAIN held'[i]["inputs"] \subseteq DOMAIN source[i]
  <2>1. DOMAIN source[i] = {} \/ DOMAIN held[i]["inputs"] \subseteq DOMAIN source[i]
    BY DEF CacheInv
  <2>2. CASE i = n /\ ks # {}
    BY <1>4, <2>2
  <2>3. CASE ~(i = n /\ ks # {})
    BY <1>1, <1>5, <2>1, <2>3
  <2> QED BY <2>2, <2>3
<1> QED BY <1>2, <1>6, <1>7 DEF CacheInv

(* A packet for another contract drops the one held: it is missed when the *)
(* contracts are checked, or in the poll before it is requested, unless it *)
(* is the first to be.                                                     *)
LEMMA ReceiveCache ==
  ASSUME TypeOK, CacheInv, NEW i \in Mod, NEW slots, NEW event, Receive(i, slots, event)
  PROVE  CacheInv'
<1>1. /\ UNCHANGED <<held, source, deps, pc, visited>>
      /\ pc \in {"check", "poll"}
      /\ passed' = IF deps /\ pc = "poll" /\ i = 1 /\ got' # got THEN passed \cup {i} ELSE passed
  BY DEF Receive, loop
<1>2. \A m \in Mod : m # i => got'[m] = got[m]
  BY DEF Receive, TypeOK, FlagsType
<1>3. pc = "poll" => visited = 1
  BY DEF TypeOK, LoopType
<1> SUFFICES ASSUME deps PROVE CacheInv'
  BY <1>1 DEF CacheInv, SourcesAreCurrent
<1>4. ASSUME NEW m \in Mod, m \notin passed', m \in Dropped', pc # "check"
      PROVE  m # 1 /\ visited = 1 /\ pc \in {"poll", "visit"}
  <2>1. CASE m # i \/ got' = got
    <3>1. m \in Dropped /\ m \notin passed
      BY <1>1, <1>2, <1>4, <2>1 DEF Dropped, Known
    <3> QED BY <1>4, <3>1 DEF CacheInv
  <2>2. CASE m = i /\ got' # got
    BY <1>1, <1>3, <1>4, <2>2
  <2> QED BY <2>1, <2>2
<1>5. SourcesAreCurrent'
  BY <1>1 DEF CacheInv, SourcesAreCurrent, SameName
<1> QED BY <1>1, <1>4, <1>5 DEF CacheInv

LEMMA HandleEventsCache ==
  ASSUME CacheInv, NEW received, NEW wild, HandleEvents(received, wild)
  PROVE  CacheInv'
<1>1. /\ UNCHANGED <<held, got, source>>
      /\ deps' => (deps /\ passed' = passed \cup Dropped)
  BY DEF HandleEvents, contracts
<1>2. Dropped' = Dropped
  BY <1>1 DEF Dropped, Known
<1>3. SourcesAreCurrent'
  BY <1>1 DEF CacheInv, SourcesAreCurrent, SameName
<1> QED BY <1>1, <1>2, <1>3 DEF CacheInv

LEMMA RelayCache ==
  ASSUME TypeOK, CacheInv, NEW wild, Relay(wild)
  PROVE  CacheInv'
<1>1. UNCHANGED <<held, got>>
  BY DEF Relay, contracts
<1> SUFFICES ASSUME deps' PROVE CacheInv'
  BY DEF CacheInv, SourcesAreCurrent
<1>2. UpdateSources
  BY DEF Relay
<1>3. CASE deps /\ source' = source /\ passed' = passed \cup Dropped
  <2>1. Dropped' = Dropped
    BY <1>1, <1>3 DEF Dropped, Known
  <2>2. SourcesAreCurrent'
    BY <1>1, <1>3 DEF CacheInv, SourcesAreCurrent, SameName
  <2> QED BY <1>1, <1>3, <2>1, <2>2 DEF CacheInv
<1>4. CASE source' = CurrentSources /\ passed' = Dropped
  <2>1. ASSUME NEW i \in Mod
        PROVE  DOMAIN source'[i] = DOMAIN source[i] \cup DOMAIN held[i]["inputs"]
    BY <1>4 DEF CurrentSources
  <2>2. Dropped' = Dropped
    <3>1. \A i \in Mod : held[i]["inputs"] = <<>> => DOMAIN held[i]["inputs"] = {}
      OBVIOUS
    <3>2. \A i \in Mod : Known(i)' <=> Known(i)
      BY <1>1, <2>1, <3>1 DEF Known, Kind
    <3> QED BY <1>1, <3>2 DEF Dropped
  <2>3. SourcesAreCurrent'
    <3>1. \A i \in Mod : \A j \in DOMAIN source'[i] :
            source'[i][j] # NoSource => SameName(i, j, source'[i][j])
      BY <1>4, CurrentSourcesType
    <3> QED BY <1>1, <3>1 DEF SourcesAreCurrent, SameName
  <2> QED BY <1>1, <1>4, <2>1, <2>2, <2>3 DEF CacheInv
<1> QED BY <1>2, <1>3, <1>4 DEF UpdateSources

LEMMA StepCache ==
  ASSUME TypeOK, CacheInv, [Next]_vars
  PROVE  CacheInv'
<1> USE DEF modules, contracts, outputs, inputs, cache, loop
<1>1. ASSUME NEW i \in Mod, SwitchOff(i) PROVE CacheInv'
  BY <1>1, SameCache DEF SwitchOff
<1>2. ASSUME NEW i \in Mod, NEW p \in Program[i], Start(i, p) PROVE CacheInv'
  BY <1>2, SameCache DEF Start
<1>3. ASSUME NEW i \in Mod, NEW x \in Packets(i), Receive(i, x[1], x[2]) PROVE CacheInv'
  BY <1>3, ReceiveCache
<1>4. CASE EndPoll
  <2>1. /\ UNCHANGED <<held, got, source, deps, passed>>
        /\ pc = "poll" /\ pc' = "visit" /\ visited' = 1
    BY <1>4 DEF EndPoll
  <2>2. Dropped' = Dropped /\ SourcesAreCurrent'
    BY <2>1 DEF CacheInv, SourcesAreCurrent, SameName, Dropped, Known
  <2> QED BY <2>1, <2>2 DEF CacheInv
<1>5. ASSUME NEW ks \in SUBSET Kind, UpdateContract(ks) PROVE CacheInv'
  BY <1>5, UpdateContractCache
<1>6. ASSUME NEW received \in BOOLEAN, SendInputs(received) PROVE CacheInv'
  <2>1. UNCHANGED <<held, got, source, deps, passed>> /\ pc' = "check"
    BY <1>6 DEF SendInputs
  <2> QED BY <2>1 DEF CacheInv, SourcesAreCurrent, SameName
<1>7. ASSUME NEW received \in BOOLEAN, NEW wild \in Garbage, HandleEvents(received, wild) PROVE CacheInv'
  BY <1>7, HandleEventsCache
<1>8. ASSUME NEW i \in Mod, Deactivate(i) PROVE CacheInv'
  BY <1>8, SameCache DEF Deactivate
<1>9. ASSUME NEW wild \in Garbage, Relay(wild) PROVE CacheInv'
  BY <1>9, RelayCache
<1>10. CASE UNCHANGED vars
  BY <1>10, SameCache DEF vars
<1> QED BY <1>1, <1>2, <1>3, <1>4, <1>5, <1>6, <1>7, <1>8, <1>9, <1>10 DEF Next, Visit

(* The inductive invariant behind the theorems below.                      *)
LEMMA CacheInductive == Spec => []CacheInv
<1>1. Init => CacheInv
  BY DEF Init, CacheInv, SourcesAreCurrent
<1>2. TypeOK /\ CacheInv /\ [Next]_vars => CacheInv'
  BY StepCache
<1> QED BY <1>1, <1>2, TypeCorrect, PTL DEF Spec

(* Whatever is reprogrammed, switched off or not heard, and whatever       *)
(* packets are lost or come early, a cached source that may be used is an  *)
(* output the master has, with the name of the input                       *)
(* (ModuleInterfaceSet::got_all_contracts), except for modules whose       *)
(* contract was dropped while they were taken to be inactive, or in the    *)
(* poll before the first of them is asked for it.                          *)
THEOREM SourcesCorrect == Spec => []SourcesAreCurrent
<1>1. CacheInv => SourcesAreCurrent
  BY DEF CacheInv
<1> QED BY <1>1, CacheInductive, PTL

-----------------------------------------------------------------------------
(* Values reach the inputs with the name of the output they come from.     *)

MineNamed ==
  \A i \in Mod \ misled : \A j \in DOMAIN mine[i] : mine[i][j] \in {Blank, prog[i]["inputs"][j]}
InputsNamed ==
  \A i \in Mod \ misled : \A j \in DOMAIN ival[i] : ival[i][j] \in {Blank, held[i]["inputs"][j]}
OutputsNamed == \A i \in Mod : \A o \in DOMAIN oval[i] : oval[i][o] \in {Blank, held[i]["outputs"][o]}

NamedInv == MineNamed /\ InputsNamed /\ OutputsNamed

(* The sources src have the names of the inputs, unless passed over.       *)
Current(src) ==
  \A i \in Mod \ passed' :
    /\ \A j \in DOMAIN src[i] : src[i][j] # NoSource /\ src[i][j].module \notin passed'
                                  => SameName(i, j, src[i][j])
    /\ DOMAIN src[i] = {} \/ DOMAIN held[i]["inputs"] \subseteq DOMAIN src[i]

LEMMA CacheIsCurrent ==
  ASSUME CacheInv', deps', UNCHANGED held
  PROVE  Current(source')
BY DEF CacheInv, SourcesAreCurrent, SameName, Current

(* Values copied from current sources are meant for the inputs.            *)
LEMMA CopyNamed ==
  ASSUME TypeOK, NamedInv, NEW src, NEW js, NEW wild, Copy(src, js, wild), Current(src),
         \A i \in Mod : \A x \in DOMAIN src[i] : src[i][x] = NoSource \/ src[i][x].module \in Mod,
         \A i \in Mod : \A j \in js[i] : j \in DOMAIN ival[i] /\ SourceAt(src, i, j, wild) # NoSource
  PROVE  \A i \in Mod \ misled' :
           /\ i \notin misled /\ DOMAIN ival'[i] = DOMAIN held[i]["inputs"]
           /\ \A j \in DOMAIN ival'[i] : ival'[i][j] \in {Blank, held[i]["inputs"][j]}
<1> SUFFICES ASSUME NEW i \in Mod, i \notin misled'
             PROVE  /\ i \notin misled /\ DOMAIN ival'[i] = DOMAIN held[i]["inputs"]
                    /\ \A j \in DOMAIN ival'[i] : ival'[i][j] \in {Blank, held[i]["inputs"][j]}
  OBVIOUS
<1>1. ival'[i] = [j \in DOMAIN ival[i] |->
                   IF j \in js[i] THEN Content(SourceAt(src, i, j, wild)) ELSE ival[i][j]]
  BY DEF Copy
<1>2. /\ i \notin misled
      /\ \A j \in js[i] : i \notin passed' /\ SourceAt(src, i, j, wild).module \notin passed'
  BY DEF Copy
<1>3. DOMAIN ival[i] = DOMAIN held[i]["inputs"]
  BY DEF TypeOK, MasterType, Slots
<1>4. ASSUME NEW j \in js[i] PROVE Content(SourceAt(src, i, j, wild)) \in {Blank, held[i]["inputs"][j]}
  <2>1. j \in DOMAIN held[i]["inputs"] /\ SourceAt(src, i, j, wild) # NoSource
    BY <1>3
  <2>2. j \in DOMAIN src[i] /\ SourceAt(src, i, j, wild) = src[i][j]
    BY <1>2, <2>1 DEF Current, SourceAt
  <2> DEFINE s == src[i][j]
  <2>3. SameName(i, j, s) /\ s.module \in Mod
    BY <1>2, <2>1, <2>2 DEF Current
  <2>4. Content(s) = Blank \/ (s.output \in DOMAIN oval[s.module] /\ Content(s) = oval[s.module][s.output])
    BY DEF Content
  <2>5. s.output \in DOMAIN oval[s.module] =>
          oval[s.module][s.output] \in {Blank, held[s.module]["outputs"][s.output]}
    BY <2>3 DEF NamedInv, OutputsNamed
  <2> QED BY <2>2, <2>3, <2>4, <2>5 DEF SameName
<1>5. \A j \in DOMAIN ival[i] : ival[i][j] \in {Blank, held[i]["inputs"][j]}
  BY <1>2 DEF NamedInv, InputsNamed
<1> QED BY <1>1, <1>2, <1>3, <1>4, <1>5

(* What modules are sent they only take over with the contract they have.  *)
LEMMA DeliverNamed ==
  ASSUME TypeOK, MineNamed, NEW to, NEW js, NEW vals, Deliver(to, js, vals),
         \A i \in Mod \ misled' :
           /\ i \notin misled /\ DOMAIN vals[i] = DOMAIN held[i]["inputs"]
           /\ \A j \in DOMAIN vals[i] : vals[i][j] \in {Blank, held[i]["inputs"][j]}
  PROVE  MineNamed'
<1> SUFFICES ASSUME NEW i \in Mod \ misled', NEW j \in DOMAIN mine'[i]
             PROVE  mine'[i][j] \in {Blank, prog'[i]["inputs"][j]}
  BY DEF MineNamed
<1>1. prog' = prog /\ DOMAIN mine[i] = DOMAIN prog[i]["inputs"] /\ i \notin misled
  BY DEF Deliver, TypeOK, ModuleType, Slots
<1>2. CASE mine'[i] = mine[i]
  BY <1>1, <1>2 DEF MineNamed
<1>3. CASE /\ held[i]["inputs"] = prog[i]["inputs"]
           /\ mine'[i] = [x \in DOMAIN mine[i] |-> IF x \in js[i] THEN vals[i][x] ELSE mine[i][x]]
  <2>1. j \in DOMAIN mine[i] /\ j \in DOMAIN vals[i]
    BY <1>1, <1>3
  <2>2. mine'[i][j] = vals[i][j] \/ mine'[i][j] = mine[i][j]
    BY <1>3, <2>1
  <2> QED BY <1>1, <1>3, <2>1, <2>2 DEF MineNamed
<1>4. \/ mine'[i] = mine[i]
      \/ /\ held[i]["inputs"] = prog[i]["inputs"]
         /\ mine'[i] = [x \in DOMAIN mine[i] |-> IF x \in js[i] THEN vals[i][x] ELSE mine[i][x]]
  BY DEF Deliver
<1> QED BY <1>2, <1>3, <1>4

(* mcSetOutputs: the values fit the contract of the packet.                *)
LEMMA ReceiveNamed ==
  ASSUME TypeOK, NamedInv, NEW i \in Mod, NEW slots, NEW event, Receive(i, slots, event)
  PROVE  NamedInv'
<1>1. MineNamed' /\ InputsNamed'
  BY DEF NamedInv, MineNamed, InputsNamed, Receive, modules
<1>2. held' = held
  BY DEF Receive
<1>3. \/ oval' = oval
      \/ oval' = [oval EXCEPT ![i] = [o \in DOMAIN @ |-> IF o \in slots THEN held[i]["outputs"][o] ELSE @[o]]]
  BY DEF Receive
<1>4. ASSUME NEW n \in Mod, NEW o \in DOMAIN oval'[n] PROVE oval'[n][o] \in {Blank, held[n]["outputs"][o]}
  <2>1. o \in DOMAIN oval[n] /\ oval'[n][o] \in {oval[n][o], held[n]["outputs"][o]}
    BY <1>3, <1>4 DEF TypeOK
  <2> QED BY <2>1 DEF NamedInv, OutputsNamed
<1> QED BY <1>1, <1>2, <1>4 DEF NamedInv, OutputsNamed

(* set_variables: the slots of a new contract are empty.                   *)
LEMMA UpdateContractNamed ==
  ASSUME TypeOK, NamedInv, NEW ks \in SUBSET Kind, UpdateContract(ks)
  PROVE  NamedInv'
<1> DEFINE n == visited
<1>1. n \in Mod /\ NewVariables(n, ks) /\ UNCHANGED <<prog, mine, misled>>
  BY DEF TypeOK, LoopType, UpdateContract
<1> HIDE DEF n
<1>2. \A i \in Mod : i # n => oval'[i] = oval[i] /\ ival'[i] = ival[i] /\ held'[i] = held[i]
  BY <1>1 DEF TypeOK, NewVariables
<1>3. \A k \in Kind : held'[n][k] = IF k \in ks THEN prog[n][k] ELSE held[n][k]
  BY <1>1 DEF TypeOK, NewVariables
<1>4. /\ oval'[n] = IF "outputs" \in ks THEN Empty(prog[n]["outputs"]) ELSE oval[n]
      /\ ival'[n] = IF "inputs" \in ks THEN Empty(prog[n]["inputs"]) ELSE ival[n]
  BY <1>1 DEF TypeOK, NewVariables
<1>5. \A c : \A j \in DOMAIN Empty(c) : Empty(c)[j] = Blank
  BY DEF Empty
<1>6. OutputsNamed'
  <2> SUFFICES ASSUME NEW i \in Mod, NEW o \in DOMAIN oval'[i]
               PROVE  oval'[i][o] \in {Blank, held'[i]["outputs"][o]}
    BY DEF OutputsNamed
  <2>1. CASE i = n /\ "outputs" \in ks
    BY <1>4, <1>5, <2>1
  <2>2. CASE ~(i = n /\ "outputs" \in ks)
    BY <1>2, <1>3, <1>4, <2>2 DEF NamedInv, OutputsNamed, Kind
  <2> QED BY <2>1, <2>2
<1>7. InputsNamed'
  <2> SUFFICES ASSUME NEW i \in Mod \ misled, NEW j \in DOMAIN ival'[i]
               PROVE  ival'[i][j] \in {Blank, held'[i]["inputs"][j]}
    BY <1>1 DEF InputsNamed
  <2>1. CASE i = n /\ "inputs" \in ks
    BY <1>4, <1>5, <2>1
  <2>2. CASE ~(i = n /\ "inputs" \in ks)
    BY <1>2, <1>3, <1>4, <2>2 DEF NamedInv, InputsNamed, Kind
  <2> QED BY <2>1, <2>2
<1> QED BY <1>1, <1>6, <1>7 DEF NamedInv, MineNamed

(* handle_events uses the sources it has just checked.                     *)
LEMMA CopyEventsNamed ==
  ASSUME TypeOK, NamedInv, CacheInv', deps', UNCHANGED <<held, source>>,
         NEW received \in BOOLEAN, NEW wild \in Garbage, CopyEvents(received, wild)
  PROVE  InputsNamed' /\ MineNamed'
<1> DEFINE js == [i \in Mod |-> {j \in DOMAIN ival[i] :
               LET s == SourceAt(source, i, j, wild) IN s # NoSource /\ IsEvent(s, wild)}]
<1>1. Copy(source, js, wild)
  BY DEF CopyEvents
<1>2. PICK to : Deliver(to, js, ival')
  BY DEF CopyEvents
<1>3. \A i \in Mod : \A j \in js[i] : j \in DOMAIN ival[i] /\ SourceAt(source, i, j, wild) # NoSource
  OBVIOUS
<1>4. Current(source)
  BY CacheIsCurrent
<1>5. \A i \in Mod : \A x \in DOMAIN source[i] : source[i][x] = NoSource \/ source[i][x].module \in Mod
  BY DEF TypeOK, MasterType
<1> HIDE DEF js
<1>6. \A i \in Mod \ misled' :
        /\ i \notin misled /\ DOMAIN ival'[i] = DOMAIN held[i]["inputs"]
        /\ \A j \in DOMAIN ival'[i] : ival'[i][j] \in {Blank, held[i]["inputs"][j]}
  BY <1>1, <1>3, <1>4, <1>5, CopyNamed
<1>7. MineNamed'
  BY <1>2, <1>6, DeliverNamed DEF NamedInv
<1> QED BY <1>6, <1>7 DEF InputsNamed

(* transfer_outputs_to_inputs uses the sources it has just checked or      *)
(* found.                                                                  *)
LEMMA RelayNamed ==
  ASSUME TypeOK, NamedInv, NEW wild \in Garbage, Relay(wild), TypeOK', CacheInv'
  PROVE  NamedInv'
<1> DEFINE routed == [i \in Mod |-> {j \in DOMAIN ival[i] : SourceAt(source', i, j, wild) # NoSource}]
           used == [i \in Mod |-> {j \in routed[i] : oupd[SourceAt(source', i, j, wild).module]}]
<1>1. UNCHANGED <<prog, mine, held, oval>>
  BY DEF Relay, modules, contracts, outputs
<1>2. OutputsNamed'
  BY <1>1 DEF NamedInv, OutputsNamed
<1>3. CASE deps'
  <2>1. Copy(source', used, wild)
    BY <1>3 DEF Relay
  <2>2. \A i \in Mod : \A j \in used[i] : j \in DOMAIN ival[i] /\ SourceAt(source', i, j, wild) # NoSource
    OBVIOUS
  <2>3. Current(source')
    BY <1>1, <1>3, CacheIsCurrent
  <2>4. \A i \in Mod : \A x \in DOMAIN source'[i] : source'[i][x] = NoSource \/ source'[i][x].module \in Mod
    BY DEF TypeOK, MasterType
  <2> HIDE DEF used
  <2>5. \A i \in Mod \ misled' :
          /\ i \notin misled
          /\ \A j \in DOMAIN ival'[i] : ival'[i][j] \in {Blank, held[i]["inputs"][j]}
    BY <2>1, <2>2, <2>3, <2>4, CopyNamed
  <2> QED BY <1>1, <1>2, <2>5 DEF NamedInv, InputsNamed, MineNamed
<1>4. CASE ~deps'
  BY <1>1, <1>2, <1>4 DEF Relay, inputs, NamedInv, InputsNamed, MineNamed
<1> QED BY <1>3, <1>4

LEMMA StepNamed ==
  ASSUME TypeOK, CacheInv, NamedInv, [Next]_vars, TypeOK', CacheInv'
  PROVE  NamedInv'
<1>1. ASSUME NEW i \in Mod, SwitchOff(i) PROVE NamedInv'
  BY <1>1 DEF SwitchOff, contracts, outputs, inputs, NamedInv, MineNamed, InputsNamed, OutputsNamed
<1>2. ASSUME NEW i \in Mod, NEW p \in Program[i], Start(i, p) PROVE NamedInv'
  <2>1. InputsNamed' /\ OutputsNamed'
    BY <1>2 DEF Start, contracts, outputs, inputs, NamedInv, InputsNamed, OutputsNamed
  <2>2. \A n \in Mod : IF n = i THEN prog'[n] = p /\ mine'[n] = Empty(p["inputs"])
                       ELSE prog'[n] = prog[n] /\ mine'[n] = mine[n]
    BY <1>2 DEF Start, TypeOK
  <2>3. misled' = misled
    BY <1>2 DEF Start
  <2>4. MineNamed'
    BY <2>2, <2>3 DEF NamedInv, MineNamed, Empty
  <2> QED BY <2>1, <2>4 DEF NamedInv
<1>3. ASSUME NEW i \in Mod, NEW x \in Packets(i), Receive(i, x[1], x[2]) PROVE NamedInv'
  BY <1>3, ReceiveNamed
<1>4. CASE EndPoll
  BY <1>4 DEF EndPoll, modules, contracts, outputs, inputs, NamedInv, MineNamed, InputsNamed, OutputsNamed
<1>5. ASSUME NEW ks \in SUBSET Kind, UpdateContract(ks) PROVE NamedInv'
  BY <1>5, UpdateContractNamed
<1>6. ASSUME NEW received \in BOOLEAN, SendInputs(received) PROVE NamedInv'
  <2>1. InputsNamed' /\ OutputsNamed'
    BY <1>6 DEF SendInputs, contracts, outputs, inputs, NamedInv, InputsNamed, OutputsNamed
  <2>2. PICK to, js : Deliver(to, js, ival)
    BY <1>6 DEF SendInputs
  <2>3. \A i \in Mod \ misled' :
          /\ i \notin misled /\ DOMAIN ival[i] = DOMAIN held[i]["inputs"]
          /\ \A j \in DOMAIN ival[i] : ival[i][j] \in {Blank, held[i]["inputs"][j]}
    BY <1>6 DEF SendInputs, TypeOK, MasterType, Slots, NamedInv, InputsNamed
  <2>4. MineNamed'
    BY <2>2, <2>3, DeliverNamed DEF NamedInv
  <2> QED BY <2>1, <2>4 DEF NamedInv
<1>7. ASSUME NEW received \in BOOLEAN, NEW wild \in Garbage, HandleEvents(received, wild) PROVE NamedInv'
  <2>1. UNCHANGED <<held, oval>>
    BY <1>7 DEF HandleEvents, contracts
  <2>2. OutputsNamed'
    BY <2>1 DEF NamedInv, OutputsNamed
  <2>3. CASE deps' /\ CopyEvents(received, wild)
    <3>1. source' = source
      BY <1>7 DEF HandleEvents
    <3> QED BY <2>1, <2>2, <2>3, <3>1, CopyEventsNamed DEF NamedInv
  <2>4. CASE UNCHANGED <<modules, ival, misled>>
    BY <2>1, <2>2, <2>4 DEF modules, NamedInv, MineNamed, InputsNamed
  <2> QED BY <1>7, <2>3, <2>4 DEF HandleEvents
<1>8. ASSUME NEW i \in Mod, Deactivate(i) PROVE NamedInv'
  BY <1>8 DEF Deactivate, modules, outputs, inputs, NamedInv, MineNamed, InputsNamed, OutputsNamed
<1>9. ASSUME NEW wild \in Garbage, Relay(wild) PROVE NamedInv'
  BY <1>9, RelayNamed
<1>10. CASE UNCHANGED vars
  BY <1>10 DEF vars, NamedInv, MineNamed, InputsNamed, OutputsNamed
<1> QED BY <1>1, <1>2, <1>3, <1>4, <1>5, <1>6, <1>7, <1>8, <1>9, <1>10 DEF Next, Visit

(* An input, in the master or in its module, only ever holds a value of an *)
(* output with its name, through every change of contracts: the values the *)
(* master has are emptied when a contract replaces them (set_variables),   *)
(* a module compares the contract, and the cached sources are current      *)
(* whenever they are used.  The exception are inputs that were copied to   *)
(* while the cache could be wrong, see SourcesCorrect.                     *)
THEOREM InputsCorrect == Spec => []InputsFromTheirSources
<1>1. Init => NamedInv
  <2> SUFFICES ASSUME Init PROVE NamedInv
    OBVIOUS
  <2>1. \A i \in Mod : mine[i] = Empty(prog[i]["inputs"]) /\ ival[i] = <<>> /\ oval[i] = <<>>
    BY DEF Init
  <2>2. DOMAIN <<>> = {}
    OBVIOUS
  <2>3. MineNamed
    BY <2>1 DEF MineNamed, Empty
  <2>4. InputsNamed /\ OutputsNamed
    BY <2>1, <2>2 DEF InputsNamed, OutputsNamed
  <2> QED BY <2>3, <2>4 DEF NamedInv
<1>2. TypeOK /\ CacheInv /\ NamedInv /\ [Next]_vars /\ TypeOK' /\ CacheInv' => NamedInv'
  BY StepNamed
<1>3. NamedInv => InputsFromTheirSources
  BY DEF NamedInv, MineNamed, InputsNamed, InputsFromTheirSources
<1> QED BY <1>1, <1>2, <1>3, TypeCorrect, CacheInductive, PTL DEF Spec
=============================================================================
