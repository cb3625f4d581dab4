------------------------------- MODULE Routing -------------------------------
(***************************************************************************)
(* How the master relays the outputs of modules to the inputs of other     *)
(* modules that have the same name (README.md:50).                         *)
(*                                                                         *)
(* For each input the master caches which output of which module is its    *)
(* source.  The cache is dropped when an active module is seen without its *)
(* contracts and rebuilt when the number of active contracts has changed.  *)
(* Outputs are copied to inputs once in each transfer, and at once when    *)
(* they are flagged as events.  Modules may be switched off and on again,  *)
(* reprogrammed with other contracts, or taken to be inactive because of   *)
(* losses alone.                                                           *)
(*                                                                         *)
(* As in ContractSync the content of a slot is the name of the variable    *)
(* the value was meant for, or Blank; ids of different contracts differ.   *)
(* A mismatch of settings acts like one of inputs and is left out, and so  *)
(* is what external transfers do.                                          *)
(***************************************************************************)
EXTENDS Naturals, Sequences, FiniteSets

CONSTANTS
  M,              \* number of modules, visited in the order 1..M
  Program,        \* Program[i]: contracts module i can be programmed with
  Blank,          \* content of a slot nothing was written to
  Events,         \* whether modules flag outputs as events
  MaxReprogram,   \* bound on reprogramming
  MaxAway,        \* bound on switching modules off, and on finding them
                  \* inactive while they run
  MaxLate         \* bound on packets that arrive between two transfers, when
                  \* the master polls the bus for the first time

Mod  == 1..M
Kind == {"inputs", "outputs"}
Names == UNION {{p[k][j] : j \in DOMAIN p[k]} : p \in UNION {Program[i] : i \in Mod}, k \in Kind}

ASSUME ModAssumption == M \in Nat \ {0}
ASSUME ProgramAssumption ==
  /\ DOMAIN Program = Mod
  /\ \A i \in Mod : Program[i] \subseteq [Kind -> Seq(Names)]
  /\ Blank \notin Names
ASSUME BoundAssumption ==
  Events \in BOOLEAN /\ MaxReprogram \in Nat /\ MaxAway \in Nat /\ MaxLate \in Nat

VARIABLES
  prog, alive,    \* modules: contracts; switched on
  mine, mis,      \* modules: content of the inputs; CONTRACT_MISMATCH_INPUTS
  held, got,      \* master: contracts, for which kinds they are valid
  active,         \* master: is_active() of each module
  oval, oupd, oev,\* master: outputs, is_updated(), the ones flagged as events
  ival, iupd,     \* master: inputs, is_updated()
  source,         \* input_source_module_ix, input_source_output_ix
  deps,           \* updated_intermodule_dependencies
  known,          \* active_contract_count
  pc, visited,    \* where the master is in a pass over its modules
  stage,          \* where it is in its transfer cycle
  count           \* history: reprogrammed, off or silent, late packets

VARIABLES         \* history of what the cache is used for
  passed,         \* modules whose contract was dropped without being missed
  misled          \* modules that may have got values of another name

modules == <<prog, alive, mine, mis>>
contracts == <<held, got, active>>
outputs == <<oval, oupd, oev>>
inputs == <<ival, iupd>>
cache == <<source, deps, known, passed>>
loop == <<pc, visited, stage>>
vars == <<prog, alive, mine, mis, held, got, active, oval, oupd, oev, ival, iupd,
          source, deps, known, pc, visited, stage, count, passed, misled>>

-----------------------------------------------------------------------------
Empty(c) == [j \in DOMAIN c |-> Blank]
NoSource == [module |-> 0, output |-> 0]

(* ModuleInterfaceSet::got_all_contracts, ::count_active_contracts.        *)
AllContracts == \A i \in Mod : active[i] => got[i] = Kind
ActiveContracts == Cardinality({i \in Mod : active[i] /\ got[i] = Kind})

(* Modules with contracts the master had, and no longer has: those that    *)
(* got_all_contracts misses if they are active, and passes over if not.    *)
Known(i) == DOMAIN source[i] # {} \/ \E k \in Kind : held[i][k] # <<>>
Dropped == {i \in Mod : got[i] # Kind /\ Known(i)}

(* find_output_by_name: the first match, in the order of modules and their *)
(* variables; an invalidated contract still counts.                        *)
Matches(name) ==
  UNION {{[module |-> i, output |-> o] : o \in {x \in DOMAIN held[i]["outputs"] :
                                                 held[i]["outputs"][x] = name}} : i \in Mod}
FirstMatch(name) ==
  LET before(x, y) == x.module < y.module \/ (x.module = y.module /\ x.output <= y.output)
  IN  CHOOSE x \in Matches(name) : \A y \in Matches(name) : before(x, y)
SourceOf(name) == IF Matches(name) = {} THEN NoSource ELSE FirstMatch(name)

-----------------------------------------------------------------------------
Init ==
  /\ prog \in {f \in [Mod -> UNION {Program[i] : i \in Mod}] : \A i \in Mod : f[i] \in Program[i]}
  /\ alive \in [Mod -> BOOLEAN]
  /\ mine = [i \in Mod |-> Empty(prog[i]["inputs"])]
  /\ mis = [i \in Mod |-> FALSE]
  /\ held = [i \in Mod |-> [k \in Kind |-> <<>>]] /\ got = [i \in Mod |-> {}]
  /\ active = [i \in Mod |-> FALSE]
  /\ oval = [i \in Mod |-> <<>>] /\ oupd = [i \in Mod |-> FALSE] /\ oev = [i \in Mod |-> {}]
  /\ ival = [i \in Mod |-> <<>>] /\ iupd = [i \in Mod |-> FALSE]
  /\ source = [i \in Mod |-> <<>>] /\ deps = FALSE /\ known = 0
  /\ pc = "poll" /\ visited = 1 /\ stage = "idle"
  /\ count = [programs |-> 0, away |-> 0, late |-> 0]
  /\ passed = {} /\ misled = {}

-----------------------------------------------------------------------------
(* Modules.                                                                *)

SwitchOff(i) ==
  /\ alive[i] /\ count.away < MaxAway
  /\ alive' = [alive EXCEPT ![i] = FALSE]
  /\ count' = [count EXCEPT !.away = @ + 1]
  /\ UNCHANGED <<prog, mine, mis, contracts, outputs, inputs, cache, loop, misled>>

(* Switched on, or restarted, with the same program or another one.        *)
Start(i, p) ==
  /\ IF p = prog[i] THEN ~alive[i] /\ UNCHANGED count
     ELSE /\ count.programs < MaxReprogram
          /\ count' = [count EXCEPT !.programs = @ + 1]
  /\ prog' = [prog EXCEPT ![i] = p]
  /\ alive' = [alive EXCEPT ![i] = TRUE]
  /\ mine' = [mine EXCEPT ![i] = Empty(p["inputs"])]
  /\ mis' = [mis EXCEPT ![i] = FALSE]
  /\ UNCHANGED <<contracts, outputs, inputs, cache, loop, misled>>

(* What the modules in to do with inputs from the master, the slots js[i]. *)
Deliver(to, js, vals) ==
  LET fits(i) == "inputs" \in got[i] /\ held[i]["inputs"] = prog[i]["inputs"]
  IN  /\ mine' = [i \in Mod |-> IF i \in to /\ fits(i)
                   THEN [j \in DOMAIN mine[i] |-> IF j \in js[i] THEN vals[i][j] ELSE mine[i][j]]
                   ELSE mine[i]]
      /\ mis' = [i \in Mod |-> IF i \in to THEN ~fits(i) ELSE mis[i]]
      /\ UNCHANGED <<prog, alive>>

-----------------------------------------------------------------------------
(* The master receives outputs of module i, as events or with the status   *)
(* behind them.  A packet for another contract invalidates the one held.   *)
(* In the poll that is missed for module 1: its contracts are requested    *)
(* before they are checked.                                                *)
Receive(i, slots, event) ==
  LET ok  == "outputs" \in got[i] /\ held[i]["outputs"] = prog[i]["outputs"]
      all == slots = DOMAIN prog[i]["outputs"]
  IN  /\ alive[i]
      /\ \/ pc = "check" /\ UNCHANGED count
         \/ /\ pc = "poll" /\ count.late < MaxLate
            /\ count' = [count EXCEPT !.late = @ + 1]
      /\ active' = [active EXCEPT ![i] = TRUE]
      /\ IF ok
           THEN /\ oval' = [oval EXCEPT ![i] = [o \in DOMAIN @ |->
                             IF o \in slots THEN held[i]["outputs"][o] ELSE @[o]]]
                /\ oev' = [oev EXCEPT ![i] = IF event THEN @ \cup slots ELSE @]
                /\ oupd' = [oupd EXCEPT ![i] = @ \/ (all /\ slots # {})]
                /\ LET drop == ~event /\ mis[i] /\ got[i] = Kind
                   IN  /\ got' = [got EXCEPT ![i] = IF drop THEN @ \ {"inputs"} ELSE @]
                       /\ iupd' = [iupd EXCEPT ![i] = @ /\ ~drop]
           ELSE /\ got' = [got EXCEPT ![i] = @ \ {"outputs"}]
                /\ oupd' = [oupd EXCEPT ![i] = FALSE]
                /\ UNCHANGED <<oval, oev, iupd>>
      /\ passed' = IF deps /\ pc = "poll" /\ i = 1 /\ got' # got THEN passed \cup {i} ELSE passed
      /\ UNCHANGED <<modules, held, ival, source, deps, known, loop, misled>>

(* The first poll of the bus is over. *)
EndPoll ==
  /\ pc = "poll"
  /\ pc' = "visit" /\ visited' = 1
  /\ UNCHANGED <<modules, contracts, outputs, inputs, cache, stage, count, misled>>

(* update_contract: the contracts for the kinds in ks arrive.  A new one   *)
(* replaces the variables.  Deviation: the values are kept.                *)
NewVariables_KeepsValues(i, ks) ==
  /\ held' = [held EXCEPT ![i] = [k \in Kind |-> IF k \in ks THEN prog[i][k] ELSE @[k]]]
  /\ oval' = [oval EXCEPT ![i] = IF oval[i] = <<>> THEN Empty(held'[i]["outputs"]) ELSE @]
  /\ ival' = [ival EXCEPT ![i] = IF ival[i] = <<>> THEN Empty(held'[i]["inputs"]) ELSE @]
  /\ oev' = [oev EXCEPT ![i] = IF "outputs" \in ks THEN {} ELSE @]
NewVariables(i, ks) ==
  /\ held' = [held EXCEPT ![i] = [k \in Kind |-> IF k \in ks THEN prog[i][k] ELSE @[k]]]
  /\ oval' = [oval EXCEPT ![i] = IF "outputs" \in ks THEN Empty(prog[i]["outputs"]) ELSE @]
  /\ ival' = [ival EXCEPT ![i] = IF "inputs" \in ks THEN Empty(prog[i]["inputs"]) ELSE @]
  /\ oev' = [oev EXCEPT ![i] = IF "outputs" \in ks THEN {} ELSE @]

UpdateContract(ks) ==
  LET i == visited
  IN  /\ pc = "visit" /\ stage # "sending"
      /\ ks \subseteq Kind \ got[i]
      /\ ks # {} => alive[i]
      /\ NewVariables(i, ks)
      /\ got' = [got EXCEPT ![i] = @ \cup ks]
      /\ mis' = [mis EXCEPT ![i] = @ /\ "inputs" \notin ks]
      /\ active' = [active EXCEPT ![i] = @ \/ ks # {}]
      /\ pc' = "check"
      /\ UNCHANGED <<prog, alive, mine, oupd, iupd, cache, visited, stage, count, misled>>

(* A module is found inactive, off or not: too many packets to it were not *)
(* acknowledged, or nothing has been heard of it for too long.             *)
Deactivate(i) ==
  /\ pc # "check" /\ active[i]
  /\ \/ ~alive[i] /\ UNCHANGED count
     \/ /\ alive[i] /\ count.away < MaxAway
        /\ count' = [count EXCEPT !.away = @ + 1]
  /\ active' = [active EXCEPT ![i] = FALSE]
  /\ UNCHANGED <<modules, held, got, outputs, inputs, cache, loop, misled>>

(* send_inputs, received by the module or not.                             *)
SendInputs(received) ==
  LET i == visited
      send == "inputs" \in got[i] /\ iupd[i] /\ held[i]["inputs"] # <<>>
      js == [x \in Mod |-> DOMAIN held[x]["inputs"]]
  IN  /\ pc = "visit" /\ stage = "sending"
      /\ Deliver(IF send /\ received /\ alive[i] THEN {i} ELSE {}, js, ival)
      /\ pc' = "check"
      /\ UNCHANGED <<contracts, outputs, inputs, cache, visited, stage, count, misled>>

(* Reading the cached indices.  What is read behind the end of the arrays  *)
(* is undefined; it is taken to name an output there is, or none.  Behind  *)
(* the end of the outputs get_value returns nothing, and zero is copied,   *)
(* while is_event reads what is there.                                     *)
Garbage ==
  [source : {NoSource} \cup UNION {{[module |-> i, output |-> o] : o \in DOMAIN oval[i]} : i \in Mod},
   event : BOOLEAN]
SourceAt(src, i, j, wild) ==
  IF DOMAIN src[i] = {} THEN NoSource ELSE IF j \in DOMAIN src[i] THEN src[i][j] ELSE wild.source
Content(s) == IF s.output \in DOMAIN oval[s.module] THEN oval[s.module][s.output] ELSE Blank
IsEvent(s, wild) == IF s.output \in DOMAIN oval[s.module] THEN s.output \in oev[s.module] ELSE wild.event

(* The inputs js[i] of each module i are set from their sources.           *)
Copy(src, js, wild) ==
  /\ ival' = [i \in Mod |-> [j \in DOMAIN ival[i] |->
                IF j \in js[i] THEN Content(SourceAt(src, i, j, wild)) ELSE ival[i][j]]]
  /\ misled' = misled \cup {i \in Mod :
                 \E j \in js[i] : {i, SourceAt(src, i, j, wild).module} \cap passed' # {}}

(* Events are copied to the inputs they are the source of and sent at      *)
(* once.                                                                   *)
CopyEvents(received, wild) ==
  LET js == [i \in Mod |-> {j \in DOMAIN ival[i] :
               LET s == SourceAt(source, i, j, wild) IN s # NoSource /\ IsEvent(s, wild)}]
  IN  /\ Copy(source, js, wild)
      /\ Deliver({i \in Mod : js[i] # {} /\ received /\ alive[i]}, js, ival')

(* The next module; or, after the last one, the next part of the cycle.    *)
(* A transfer starts when its interval has passed and all contracts are    *)
(* there.                                                                  *)
NextVisit ==
  IF visited < M THEN pc' = "visit" /\ visited' = visited + 1 /\ UNCHANGED stage
  ELSE /\ visited' = 1
       /\ \/ stage = "idle"    /\ pc' = "poll"
             /\ stage' \in IF AllContracts THEN {"idle", "started"} ELSE {"idle"}
          \/ stage = "started" /\ pc' = "relay" /\ UNCHANGED stage
          \/ stage = "relayed" /\ pc' = "visit" /\ stage' = "sending"
          \/ stage = "sending" /\ pc' = "poll" /\ stage' = "idle"
(* handle_events.  Flags are cleared whether events were sent or not.      *)
(* Deviation: the cache is not dropped.                                    *)
HandleEvents_KeepsCache(received, wild) ==
  /\ pc = "check"
  /\ deps' = deps
  /\ passed' = IF AllContracts /\ deps THEN passed \cup Dropped ELSE passed
  /\ IF AllContracts /\ deps THEN CopyEvents(received, wild) ELSE UNCHANGED <<modules, ival, misled>>
  /\ oev' = [i \in Mod |-> IF AllContracts THEN {} ELSE oev[i]]
  /\ NextVisit
  /\ UNCHANGED <<contracts, oval, oupd, iupd, source, known, count>>
HandleEvents(received, wild) ==
  /\ pc = "check"
  /\ deps' = (deps /\ AllContracts)
  /\ passed' = IF deps' THEN passed \cup Dropped ELSE {}
  /\ IF deps' THEN CopyEvents(received, wild) ELSE UNCHANGED <<modules, ival, misled>>
  /\ oev' = [i \in Mod |-> IF AllContracts THEN {} ELSE oev[i]]
  /\ NextVisit
  /\ UNCHANGED <<contracts, oval, oupd, iupd, source, known, count>>

(* update_intermodule_dependencies.  The arrays of sources never shrink.   *)
(* Deviation: the number of contracts is not compared.                     *)
CurrentSources ==
  [i \in Mod |-> [j \in DOMAIN source[i] \cup DOMAIN held[i]["inputs"] |->
     IF j \in DOMAIN held[i]["inputs"] THEN SourceOf(held[i]["inputs"][j]) ELSE NoSource]]
UpdateSources_Once ==
  IF deps \/ ActiveContracts = 0
    THEN UNCHANGED <<source, deps, known>> /\ passed' = IF deps THEN passed \cup Dropped ELSE {}
    ELSE deps' = TRUE /\ source' = CurrentSources /\ known' = ActiveContracts /\ passed' = Dropped
UpdateSources ==
  \/ /\ deps /\ ActiveContracts = known
     /\ passed' = passed \cup Dropped
     /\ UNCHANGED <<source, deps, known>>
  \/ /\ ~(deps /\ ActiveContracts = known)
     /\ deps' = (ActiveContracts > 0)
     /\ passed' = IF deps' THEN Dropped ELSE {}
     /\ IF deps' THEN source' = CurrentSources /\ known' = ActiveContracts
                 ELSE UNCHANGED <<source, known>>

(* transfer_outputs_to_inputs.  Inputs become updated when all the sources *)
(* they have are.                                                          *)
Ready(used, missing) == used # {} /\ missing = {}
Relay(wild) ==
  LET routed == [i \in Mod |-> {j \in DOMAIN ival[i] : SourceAt(source', i, j, wild) # NoSource}]
      used   == [i \in Mod |-> {j \in routed[i] : oupd[SourceAt(source', i, j, wild).module]}]
  IN  /\ pc = "relay"
      /\ IF AllContracts THEN UpdateSources
         ELSE deps' = FALSE /\ passed' = {} /\ UNCHANGED <<source, known>>
      /\ IF deps'
           THEN /\ Copy(source', used, wild)
                /\ iupd' = [i \in Mod |-> iupd[i] \/
                              ("inputs" \in got[i] /\ Ready(used[i], routed[i] \ used[i]))]
           ELSE UNCHANGED <<inputs, misled>>
      /\ pc' = "poll" /\ stage' = "relayed"
      /\ UNCHANGED <<modules, contracts, outputs, visited, count>>

-----------------------------------------------------------------------------
Packets(i) == {<<DOMAIN prog[i]["outputs"], FALSE>>}
              \cup {<<{o}, TRUE>> : o \in {x \in DOMAIN prog[i]["outputs"] : Events}}

Visit ==
  \/ \E ks \in SUBSET Kind : UpdateContract(ks)
  \/ \E received \in BOOLEAN : \/ SendInputs(received)
                              \/ \E wild \in Garbage : HandleEvents(received, wild)

Next ==
  \/ \E i \in Mod : \/ SwitchOff(i) \/ Deactivate(i)
                    \/ \E p \in Program[i] : Start(i, p)
                    \/ \E x \in Packets(i) : Receive(i, x[1], x[2])
  \/ EndPoll \/ Visit \/ \E wild \in Garbage : Relay(wild)

Spec == Init /\ [][Next]_vars

(* The master's loop keeps running, a module that is off is found          *)
(* inactive, and losses are intermittent.                                  *)
Fairness ==
  /\ WF_vars(EndPoll \/ Visit \/ \E wild \in Garbage : Relay(wild))
  /\ SF_vars(/\ \E wild \in Garbage : HandleEvents(TRUE, wild)
             /\ stage = "idle" /\ stage' = "started")
  /\ \A i \in Mod : /\ SF_vars(Deactivate(i) /\ ~alive[i])
                    /\ SF_vars(visited = i /\ UpdateContract(Kind \ got[i]) /\ got[i] # Kind)
                    /\ SF_vars(visited = i /\ SendInputs(TRUE))
                    /\ SF_vars(Receive(i, DOMAIN prog[i]["outputs"], FALSE))

FairSpec == Spec /\ Fairness

-----------------------------------------------------------------------------
Slots(c) == [DOMAIN c -> Names \cup {Blank}]

ModuleType(i) ==
  /\ prog[i] \in Program[i]
  /\ mine[i] \in Slots(prog[i]["inputs"])
MasterType(i) ==
  /\ \A k \in Kind : held[i][k] \in {p[k] : p \in Program[i]} \cup {<<>>}
  /\ oval[i] \in Slots(held[i]["outputs"]) /\ oev[i] \subseteq DOMAIN oval[i]
  /\ ival[i] \in Slots(held[i]["inputs"])
  /\ \A j \in DOMAIN source[i] : source[i][j] = NoSource \/ source[i][j].module \in Mod
FlagsType ==
  /\ alive \in [Mod -> BOOLEAN] /\ mis \in [Mod -> BOOLEAN] /\ active \in [Mod -> BOOLEAN]
  /\ oupd \in [Mod -> BOOLEAN] /\ iupd \in [Mod -> BOOLEAN]
  /\ got \in [Mod -> SUBSET Kind]
LoopType ==
  /\ pc \in {"poll", "visit", "check", "relay"} /\ visited \in Mod
  /\ stage \in {"idle", "started", "relayed", "sending"}
  /\ pc \in {"poll", "relay"} => visited = 1

(* Type invariant.  The values and event flags of inputs and outputs are   *)
(* those of the contracts the master holds.                                *)
TypeOK ==
  /\ DOMAIN prog = Mod /\ DOMAIN mine = Mod /\ DOMAIN held = Mod
  /\ DOMAIN oval = Mod /\ DOMAIN oev = Mod /\ DOMAIN ival = Mod /\ DOMAIN source = Mod
  /\ FlagsType
  /\ \A i \in Mod : ModuleType(i) /\ MasterType(i)
  /\ deps \in BOOLEAN /\ known \in 0..M
  /\ LoopType
  /\ count \in [programs : Nat, away : Nat, late : Nat]
  /\ passed \subseteq Mod /\ misled \subseteq Mod

(* Indices read from the cache.  A source that is still what it was found  *)
(* as is an output that has the name of the input.                         *)
SameName(i, j, s) ==
  /\ j \in DOMAIN held[i]["inputs"] /\ s.output \in DOMAIN held[s.module]["outputs"]
  /\ held[s.module]["outputs"][s.output] = held[i]["inputs"][j]

(* The cached sources are the outputs that have the names of the inputs,   *)
(* whenever they may be used ("Interconnections no longer valid, must be   *)
(* recomputed", ModuleInterfaceSet.h:151): between modules none of which   *)
(* lost its contract unnoticed, however often they are reprogrammed,       *)
(* switched off or not heard.                                              *)
SourcesAreCurrent ==
  deps => \A i \in Mod \ passed : \A j \in DOMAIN source[i] :
            LET s == source[i][j]
            IN  s # NoSource /\ s.module \notin passed => SameName(i, j, s)

(* Why: a contract that is dropped is missed by the next check, before it  *)
(* can be replaced, or passed over; and the arrays of a module that has    *)
(* sources are as long as its inputs.                                      *)
CacheInv ==
  /\ SourcesAreCurrent
  /\ deps => \A i \in Mod \ passed :
       /\ i \in Dropped => \/ pc = "check"
                           \/ i # 1 /\ visited = 1 /\ pc \in {"poll", "visit"}
       /\ DOMAIN source[i] = {} \/ DOMAIN held[i]["inputs"] \subseteq DOMAIN source[i]

(* Every input, in the master and in the module, holds a value of the      *)
(* output with its name (README.md:50), unless it was set by or for a      *)
(* module that had lost its contract unnoticed.                            *)
InputsFromTheirSources ==
  \A i \in Mod \ misled :
    /\ \A j \in DOMAIN ival[i] : ival[i][j] \in {Blank, held[i]["inputs"][j]}
    /\ \A j \in DOMAIN mine[i] : mine[i][j] \in {Blank, prog[i]["inputs"][j]}

(* The same in a module, without exception: "Output values from one module *)
(* will be delivered to all other modules that have an input value with    *)
(* the same name" (README.md:50).  This does not hold.                     *)
InputsAlwaysFromTheirSources ==
  \A i \in Mod : \A j \in DOMAIN mine[i] : mine[i][j] \in {Blank, prog[i]["inputs"][j]}

(* When a transfer relays outputs, each input of an active module has a    *)
(* source if the contract of an active module has an output with its name  *)
(* ("delivered to all other modules that have an input value with the same *)
(* name", README.md:50).  This does not hold: the number of contracts that *)
(* UpdateSources compares is the same if one module goes as another comes. *)
TransfersRelayAll ==
  [][stage = "started" /\ stage' = "relayed" /\ AllContracts =>
       \A i, m \in Mod : \A j \in DOMAIN held[i]["inputs"], o \in DOMAIN held[m]["outputs"] :
         active[i] /\ active[m] /\ held[i]["inputs"][j] = held[m]["outputs"][o]
           => j \in DOMAIN source'[i] /\ source'[i][j] # NoSource]_vars

(* Once modules stay as they are, every input of a running module has the  *)
(* value of the output with its name, if a running module has one          *)
(* (README.md:50).                                                         *)
EventuallyDelivered ==
  <>[](\A i \in Mod : \A j \in DOMAIN mine[i] :
         LET name == prog[i]["inputs"][j]
         IN  alive[i] /\ (\E m \in Mod : alive[m] /\ \E o \in DOMAIN prog[m]["outputs"] :
                                           prog[m]["outputs"][o] = name)
               => mine[i][j] = name)
=============================================================================
