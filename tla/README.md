# Verification of ModuleInterface

TLA+ models of the ModuleInterface library: a master that exchanges settings,
inputs and outputs with a number of modules over a PJON bus, relays the outputs
of modules to the inputs of others, and keeps the settings in step with a
database behind a web server. The modules are checked on small instances with
TLC, and the theorems of the modules `...Proofs` are proved with TLAPS.

Source names without a path are files of `src/src/MI` or `src/src/MI_PJON`.

## 1. The system

### Components

**Settings synchronisation** (`ModuleVariable.h`, `ModuleVariableSet.h`,
`ModuleInterface.h`, `PJONModuleInterface.h`, `MITransferBase.h`,
`ModuleInterfaceHttpTransfer.h`, the pages `set_setting.php`,
`set_settings.php`).
State: a value and a changed-flag for each setting, in the module and in the
master's copy of it; `is_updated()` of both sets; the bit `MODIFIED_SETTINGS` in
the module's status; the database. Operations: a change in the module's sketch,
an edit in the database, the master's request for modified settings and the
module's report, POST to and GET from the web server, the full set sent to the
module, its reply. Correct when no change made in a module is lost, nothing that
nobody gave (the zeroes in RAM after a restart) is taken for a value, and the
three copies agree in the end. Hard: every step may be lost, repeated or late,
and the three copies change independently meanwhile.

**Contract exchange** (`ModuleVariableSet.h`, `ModuleInterface.h`,
`PJONModuleInterface.h`, `PJONModuleInterfaceSet.h`).
State: the contracts (names and types of the variables) of the three sets of a
module, the master's copies of them, the mismatch bits in the module's status.
Operations: request and delivery of a contract, invalidation by a value packet
with another contract id or by a mismatch bit. Correct when a value never ends
up in a variable of another name, a set counts as updated only when all of it
has been received, a right contract is not dropped, and after reprogramming
everything is exchanged again. Hard: packets made for the old contract, mismatch
bits older than the exchange, the two sides' ideas of the length of a packet.

**Inter-module routing** (`ModuleInterfaceSet.h`, `PJONModuleInterfaceSet.h`).
State: for each input the module and output that is its source, whether these
are valid, the number of active contracts they were made for. Operations:
finding sources by name, copying outputs to inputs, events. Correct when the
sources in use belong to the contracts held, all outputs are relayed that can
be, and every input gets its value. Hard: contracts are replaced, and modules
come and go or are taken as inactive because packets are lost, between any two steps of
the master's loop.

**Event transfer** (`handle_input_events`, `send_input_events`,
`send_setting_events`, `send_output_events`). State: an event-flag for each
variable. Events of outputs belong to routing; events of settings are another
way for a single value to travel, sharing the changed-flags.

**Settings with several transfers** (`MASTER_MULTI_TRANSFER`, `change_bits` of
`ModuleVariable.h`, `MITransferBase.h`, `ModuleInterfaceMqttTransfer.h`). State: one
change bit for each transfer that still has to be told, the topics the broker
retains. Correct when a change that came from one transfer reaches the others
and a master that hears its own publication is not misled by it. Hard: edits on all sides
cross each other and the echoes.

**Configuration of the master** (`PJONModuleInterfaceMqttTransfer.h`): the phases in
which the master gets the list of its modules, their contracts and their
settings from a broker. Correct when settings are asked for when there are variables
to put them in, and the list is at last the one on the broker. Hard: the
list may change in any phase, and modules may be silent or reprogrammed in any.

**Module activity** (`ModuleInterface.h:276-280, 476-482`,
`PJONModuleInterface.h:255-330, 400-437`, comm_failures, last_alive). State: when
each side heard from the other, on clocks that wrap around and in which 0 means never;
how many packets failed. Correct when a dead module does not hold up the
others, and one that comes back, or gets behind another router, is noticed.

**Time synchronisation** (`ModuleInterface.h:487-595`,
`PJONModuleInterfaceSet.h:200-267`, `utils/MITime.h`,
`ModuleInterfaceHttpTransfer.h:96-106`). State: the clocks of master and module,
when they were set, `MISSING_TIME` in the status. Correct when every module
gets the time and clocks that are off are corrected.

**Persistence** (`ModuleInterfacePersistence.h`). State: EEPROM and what is being
written to it. Correct when what is read back is what was stored for the same
contract. Hard: power lost in the middle of a save.

**HTTP transfer** (`ModuleInterfaceHttpTransfer.h`), **MQTT transfer**
(`ModuleInterfaceMqttTransfer.h`, `PJONModuleInterfaceMqttTransfer.h`). Settings,
values and statistics to and from other systems.

**History of values** (`ModuleInterfaceHttpTransfer.h:377-466`,
`set_currentvalues.php`, `store_currentvalues.php`). State: when each resolution
was sampled last, the current values and the scan columns in the database. Correct
when rows of each resolution come neither too early nor too late, and have the
values of their transfer. Hard: marking, sending and storing are separate
requests, each may be lost, and the times are lost in a restart and noted anew, maybe before the clock is set.

**Bus links** (`MILink.h`, `PJONLink.h`): forward to PJON, an external library.
**Intervals** (`utils/MIUtilities.h`, `utils/MIUptime.h`): arithmetic on a
millisecond counter that wraps around. **Buffers** (`utils/BinaryBuffer.h`,
`utils/MemFrag.h`), **conversion** to JSON and text, **platform headers**, **web
pages** and **example sketches**: no protocol state.

### How they interact

The master is one sequential loop, `PJONModuleInterfaceSet::update`: poll the
bus; visit every module, requesting contracts that are missing and broadcasting
the time; copy events; then, when the transfer interval has passed and all
contracts are there, a transfer: settings of every module (request, external
transfers, send, reply with outputs and status), outputs to inputs, inputs to
every module. Between any two of these steps `update_frequent` receives packets,
so a packet from a module may change the master's state almost anywhere.
A module is one sequential loop too. Each side blocks while it sends, until the
packet is acknowledged or `MI_SEND_TIMEOUT` passes, and PJON repeats the packet
meanwhile. So a lost acknowledgement is a packet handled twice, and two sides
sending to each other both wait. Requests to the web server are not tied to
the bus and may be processed late or never.

## 2. The models

| module | part of the system | its state and the code |
|---|---|---|
| `SettingsSync` | one module's settings, master, database | `mval mchg mupd`: values, changed-flags and `is_updated()` in the module; `sval schg supd`: the master's; `smod`: the status bit; `toMod toMas`: packet being sent by master and module; `post`: POST the server has not processed; `pc`: step of `transfer_settings` |
| `SettingsStore` | abstract: what synchronisation promises of one setting | `local`: a change of the module the master has not confirmed; `copy dirty`: the master's; `sent store`: on its way and in the database |
| `ContractSync` | contracts and the value packets that depend on them, one module | `prog`: the module's contracts; `scon got`: the master's and their validity; `mval mupd sval supd`: contents; `mis`: mismatch bits; `wait`: what `receive_packet` waits for; `handle`: a `MIVariable` of the master's sketch |
| `Routing` | several modules, outputs to inputs, output events | `held got active`; `oval oupd oev`, `ival iupd`: outputs and inputs in the master; `source deps known`: the cache and when it is valid; `pc visited stage`: where the loop is |
| `MultiTransfer` | a setting shared by a module, a database and an MQTT broker | `mval mchg mev mupd`, `sval schg sev supd`: module and master; `bits`: `change_bits`; `bval inbox`: the retained message and those on their way to the master; `pc`: step of the transfer |
| `MasterConfig` | a master that is configured by a broker | `modules published`: retained topics; `subscribed toLists toOthers`: what comes to the master; `phase got_master_settings waited`; `interfaces active contract updated`: its modules |
| `Activity` | one module, the master, and the routers between them | `last_alive comm_failures clock`: the master's; `malive last_presence mclock known`: the module's; `on route`: power, and whether the master's packets get there |
| `Intervals` | times in a word that wraps around, for `Activity` and `TimeSync` | operators of `MIUtilities.h` |
| `Sampling` | history of values | `since`: age of the last sample of each resolution; `scan next`: what the transfer marks and sends; `posts snapshot`: requests not processed; `current`: scan columns in the database |
| `Persistence` | EEPROM of one module | `eeprom`: cells; `image pos`: what is being written and the next cell |
| `TimeSync` | clocks of the master and the modules | `miTimeS miLastUpdatedTimeMs miLastSyncedMs`: the master's clock; `last_time_sync at scheduled`: where `broadcast_time` is; `missing`: status bits; `ms mod`: the modules' millisecond counters and clocks |

`MC<module>` holds the instances TLC runs (the constants of `TimeSync` are plain numbers,
so it is run itself). Variables named in a module as
*history* (`wanted count`, `adrift`, `late`, `passed misled`, `silence failed lost`,
`made idle misdated sent fresh disturbed`,
in `Persistence` `last since`, in `TimeSync` `aligned restarts`) are not in the code: they say what
has been asked or done so that a property can speak of it, and no guard
except a bound depends on them. Definitions named `X_Y`, in front of `X`, are
deviations: `X` with a plausible mistake, to see that the properties notice.

### SettingsSync

Each action is one handler or one step of the master's cycle together with
everything it calls. `ModuleHandlesSettings`, for instance, is `set_settings`
(with `set_values` and the reading position in the packet), the status bits and
the reply. An action of a receiver has a parameter `acked`: the packet was
handled, and its acknowledgement arrived, or it did not and the packet is still
being sent. Timeouts of `send` and of `receive_packet` are actions; they may
happen at any time, also just before or after the answer. One thing that is easily missed: nothing the master
waits for with `mcSetSettings` counts as a reply, so the wait for modified
settings always ends in its timeout, with the report handled before, during or
after it.

Values are abstract. `ReadPositions` keeps the position in the packet, because
a value that is refused is not stepped over (`ModuleVariableSet.h:336`).
`NeverEqual` are values that `is_equal` does not accept even compared with
themselves: the float 0.0.

`SettingsStore` is what all this amounts to for one setting: each place marks a
change as its own until the next one has it. `FirstImplementsStore` maps the first setting
of `SettingsSync` to it: `local` is the module's value if it is flagged, `copy dirty`
the master's value and flag, `sent` the POST, `store` the database. Packets, their
losses and repetitions, timeouts and the status bit are stutters of it.

Left out: contracts (both sides have the same), event flags and the several
transfers build (see `MultiTransfer`), variables of different sizes.

### ContractSync

The content of a slot is abstracted to the name of the variable the value was
meant for. `Id` keeps what `calculate_contract_id` covers on the module's side:
the first name, the types and their number (the loop starts from the first
name for each variable, `ModuleVariableSet.h:73`); the CRC itself is taken to
be free of collisions. `WaitsForValues` tells two kinds of sketches apart: those
that have outputs at once, and those that wait for settings and inputs first,
like the LightController example. A module may be reprogrammed, or restarted, at
any time, and may send packets nobody asked for (presence broadcast, setting
events). `UseVariable` is the sketch of the master, which finds a setting by its name
once and then keeps the index (`ModuleVariableSet.h:460-490`); it searches again
when the contract id is another one or it has found nothing. Left out: changed-flags,
memory shortage, inactive modules.

### Routing

As in ContractSync a slot holds the name its value was meant for. The loop of the
master is `pc` (poll the bus, visit a module, check for packets and events, relay),
`visited` (which module) and `stage` (which pass: contracts, settings, inputs).
`Deactivate` is what `is_active` finds: a module that is off, or one that runs but whose
packets were lost (`ModuleInterface.h:476-482`); `MaxAway` bounds the second and switching off together.

Programs of a module may have other numbers of variables. An old index may then lie
outside the arrays: `Garbage` is what is read there, any output there is or none, and behind
the end of the outputs of a module `get_value` gives nothing. Ids of different contracts
differ: what happens if they do not is ContractSync's subject.

The code drops the cache when it sees an active module without its contract (`got_all_contracts`). Two
cases escape that. A module may be inactive when the check passes over it, with the variables of its
dropped contract still in the search for sources; and a packet that comes in the first poll of the
bus drops the contract of the first module just before it is requested anew. The history
`passed` are the modules to which that has happened since the sources were last found or dropped, and
`misled` the modules with inputs that were copied along a cached source from or to one of
them. `SourcesAreCurrent` and `InputsFromTheirSources` speak of all other modules,
`InputsAlwaysFromTheirSources` of all; TLC finds it violated in the instance of `routing_programs`.

### MultiTransfer

Transfer 0 is the web server, transfer 1 the broker. `FromTransfer` is
`set_mv_and_changed_flags`, `FromModule` what the module's report does to flag and bits. The
master is subscribed to the topics it publishes to; `echo` marks such a message.
`Adrift` says when the topic is left with another value than the master's:
a message comes while the bit for the broker is clear and the value is not taken (it
is changed and has to go to the database), or comes as an event that hides the topic. `Timely` says
that messages arrive before the next transfer starts; with `Timely = FALSE` TLC finds
`EchoHarmless` violated, an old echo that looks like a change.

### MasterConfig

A phase is a value of `phase`; `CheckPhase` is what the master does in each phase when it is
updated. A module has an object in the master (`interfaces`), may be heard from (`active`), have its
contracts (`contract`) and its settings (`updated`). What is received for a module without a
contract is dropped. `BecomeInactive` is what `is_active` finds, of a module that is off or of a running one whose
packets were lost. The wait for contracts ends after 120 seconds (`Wait`, at any time), whoever was heard in it;
`late` are the modules without a contract that were not heard when it ended or became inactive in it, and those that
have got another contract since. A module that is silent at any other time is not among them.
The model stops when nothing is on its way and nobody changes anything, so this is the one run in
which deadlock is not checked.

### Activity and Intervals

A tick is a second of an age, and the tick in which `millis()` is 0 stands for the
millisecond in which it is. A loop comes around every `MaxBlocked` ticks at most: `Pass(n)` is the time in
between, with the age that each side looks at when it comes around, because looking is what
forgets a time before the clock has wrapped around. Routers are external; that a broadcast tells
them where a module is comes from the comment at `PJONModuleInterface.h:406-407`.

In a word, A is after A (`MIUtilities.h`), so `mi_is_after` and `mi_after_or_equal` are the same.

### Sampling

`Compose` finds the scan columns that are due and sets their times before anything is sent.
`Send` and `Store` are the requests for the parts of the values and for storing a row;
`Parts` is 1 in builds with much memory, and the number of modules in the `MI_SMALLMEM`
build. Times are kept as ages on the master's clock. That clock counts seconds from the start of the
master (`MITime.h:15-22, 34-41`), so that times are noted (`timed`) before the server's time has come (`synced`);
when it comes (`GetTime`) they are older than any interval at once, and their levels are in
`misdated` until they are sampled. `made` is the age of the last sample or of the start, whichever is later. Corrections of the
clock after the first are left out: they are of the seconds it has drifted. The server handles or loses
the requests of a transfer before the next one, in
any order. A lost request may double or lose a row (`disturbed`), and the next sample
comes after the whole interval all the same.

### Persistence

A cell is a magic number, a contract id, the number of values or one byte of a
value. `Restart` is a power loss between any two cells, or in the middle of one
that has several bytes, followed by reading back. Contracts have variables of
the same sizes: with other sizes the image is read with other lengths, which
only the contract id excludes, the same as here.

### TimeSync

All counters of milliseconds are the words of `Intervals`; `Counted` is how a second
is carried along without its remainder. `ClockProofs` extends this module and `Activity`, so the
definitions that a module usually calls `Init`, `Next` and so on have the prefix `TS` here. `at = Nobody` is
`broadcast_time` when it is not sending. `BroadcastTime` and `AfterSending` are the parts of
`broadcast_time` between two calls of `receive`, where a status may come in
and its bit be cleared again. The server may answer with a time that is off by
up to `Slack` seconds either way; as `abs` is taken of the comparison (`ModuleInterfaceHttpTransfer.h:103`), the
master's clock is only ever set forward, and by 3 seconds at least: with `Slack = 2` it is set forward when an
answer that is late by 1 second or more follows one that was as early. `Tick` keeps one rule the code states: seconds are
counted at least once for each rollover (`ModuleInterface.h:557`). The master uses its time for broadcasts and
transfers; a module counts when it sends its status, which is with the answer to settings, or when its sketch asks for the
time. That a module does either in each rollover (49 days) is assumed, as the code does. A packet takes less than
a tick. Left out: the millisecond in which `millis()` is 0, when a time
that is set counts as never set (`MITime.h:64`); the time zone; uptimes.

## 3. What the runs show

| run | question | result |
|---|---|---|
| `settings` | with two settings: do zeroes of a restarted device spread, is a change of the first setting lost while the master runs, does all this implement `SettingsStore`, do database, master and module agree in the end? | no, no, yes, yes |
| `settings_lost` | is a change of the second setting lost? | **yes** |
| `contract_sync` | values with their names, updated sets complete, right contracts kept, variables found by their name, everything exchanged after reprogramming? | yes, if the sketch has outputs at once |
| `contract_renamed` | and if a setting that is not the first gets another name? | values under **wrong names** |
| `routing_programs` | are sources dropped before they can name a wrong output, and do inputs get values of their names only, while modules are reprogrammed, switched off and not heard? | yes, except where a contract was lost unnoticed |
| `routing_live` | does every input get its value in the end, while modules come and go or are not heard for a time? | yes |
| `multi_transfer` | do edits on all sides and echoes leave module, master and database with one value, and is the broker told of it? | yes, unless a message was dropped |
| `master_config` | are settings asked for in time, and is the list at last the broker's? | yes, but for late modules |
| `activity` | is a module active exactly if it was heard lately, on clocks that wrap around; is it found again? | yes, if it was moved while running |
| `sampling` | do rows of each resolution come neither too early nor too late, and with the values of their transfer? | yes, unless the clock is set in between or requests are lost |
| `persistence_safe` | are complete saves read back by their own contract only, and nothing older? | yes |
| `time_sync` | does a module keep the time it was sent, does each one get it in the end? | yes |

A run that ends in a violation is a disagreement of the code with its own
description; each is a finding in `PROJECT.json` with the lines concerned.

### Where the passing runs end

Each of these can be seen by running the instance with the constants named.

- Changes are held for the first of several settings (`FirstChangeHeld`);
  for the others they are not (`settings_lost`), and no packet has to be lost for that.
  It is the reading position: nothing before the first value can be refused. With a
  single setting no change is lost at all (theorem `OneHeldCorrect`).
- `FirstChangeHeld` speaks of a master that keeps running (`count.master = 0`):
  the module's flag is reset when only the master's RAM has the value, so
  a power loss of the master just then loses the change.
- A module may use a value that was meant for the setting before it in the
  contract: again the reading position. `OnlyGivenValues` therefore speaks of the
  master and the database.
- A changed float setting of 0.0 is never equal to itself (`ModuleVariable.h:167`), so its
  flag is never reset and the master ignores the database for it. `settings`
  has such a value in `NeverEqual`, and `EventuallyInSync` excepts a setting that holds it.
- A sketch that waits for settings and inputs before it has outputs (`WaitsForValues = TRUE` and
  `Program <- Controllers` in `contract_sync`, under `FairSpec`) may never be asked again after reprogramming:
  `EventuallyExchanged` is violated.
- Routing is right between modules whose contract is not lost unnoticed, however they are reprogrammed, switched off or not
  heard (`routing_programs`). For the others `InputsAlwaysFromTheirSources` is violated with the same constants, also with
  `MaxLate = 0`, by losses alone: a module is reprogrammed, one of its
  packets makes the master drop the old contract, losses make it inactive before the new one is there, sources are found in
  its old variables, and when it is heard again its next event is copied along them. It lasts until the next transfer
  in which the number of active contracts is another one.
- If one module goes as another comes the number of contracts is the same (`ModuleInterfaceSet.h:60`), and the one that came has
  no sources until the number changes: with `Program <- Gathering`, `M = 3` and the other constants of `routing_live`,
  `TransfersRelayAll` is violated. With the two modules of `routing_live` the one that came has nobody to
  get values from then.
- With `Program <- Revised` and `MaxReprogram = 1`
  in `routing_live` a new contract for inputs may never be noticed, because the old
  ones have no source: `EventuallyDelivered` is violated.
- A message of another MQTT client that comes while the value still has to go to the database is
  dropped, and stays on the topic: `EventuallyAllAgree` is violated, `EventuallyAgree`
  excepts it.
- A module without a contract when the master subscribes, or with another one afterwards, gets no
  settings until the connection is lost (`late` in `MasterConfig`). Losses of packets during the wait are enough.
- A module that was moved behind another router while it was off has heard nothing since its
  start; its age is -1, less than any limit, and it never announces itself
  (`PJONModuleInterface.h:412`). `EventuallyAlwaysFound` is violated with the constants of `activity`.
- A module that is heard in the millisecond in which `millis()` is 0 may count as never heard
  (`PJONModuleInterface.h:323`); `HeardMeansActive` excepts it.
- If values are put together before the server's time has come, all scan columns are sampled at once when it comes
  (`ModuleInterfaceHttpTransfer.h:394-396`): `NoSampleAtStartup` is violated with the constants of `sampling`, and
  `SamplesApart` excepts these samples.
- A power loss in the middle of a save leaves new values before old
  ones in EEPROM, and they are read back together. `NothingOlderIsRead` says that
  each of them is from the last complete save or from one begun since.

Read in the code while modelling, of no consequence to a property:

- Inputs are marked as updated as soon as the sources known so far are there
  (`ModuleInterfaceSet.h:90`): before all modules have been found, a module may be
  sent a zero for an input whose source comes later.
- The 12 hours after which a module asks for the time are counted from the
  last increment (`ModuleInterface.h:563`), so a module that is asked for its status
  regularly never asks for the time that way. The
  master broadcasts each minute all the same. A time set in the millisecond in which `millis()` is 0
  counts as never set (`MITime.h:64`).
- An uptime is wrong by the length of a rollover if the first time comes after
  `millis()` has wrapped around (`ModuleInterface.h:519`).
- `PJONModuleInterfaceSet.h:131` stores the transfer interval in 16 bits, and
  `ModuleInterfaceHttpTransfer.h:330` an age.
- `last_mastersettings_check` is a local variable (`GenericModuleMaster.cpp:177-178`),
  so a running master does not read its settings from the web server again.

### Bounds

Two settings are needed for one to be read at another's position, two values for
a change to differ from what was there, and a third for zeroes. In `settings` one local change and
one edit race with POST and GET, and both devices are restarted once, at any point of a
transfer. For any number of changes, edits and restarts the safety properties and the
refinement are proved; only `EventuallyInSync` depends on the bounds. In `settings_lost` two local changes
are enough.
In ContractSync one reprogramming leaves packets of both programs on their way, with a
restart of the master and one packet nobody asked for. The two versions are alike but for the names, so
the module starts with the first (`FirstVersionInit`).
In Routing two modules that use each other's outputs (`Swapped`) have every order of visits
and both directions; in `Revised` both have a program with more variables, in which the names are at other places.
One reprogramming, one absence (a module off, or running and taken as inactive) and one packet in a first poll
together are what the two ways around the check need.
In MultiTransfer one change on each side and two messages on their way let an echo cross an
edit; the values are interchangeable, so the database starts with the first (`MCInit`).
In MasterConfig one change of the list, one module that is off, one silence of a running module and one reprogramming fall into any phase.
In Activity the word has 8 values, an age is forgotten after 7 ticks, and the clocks wrap around
any number of times.
In Sampling the intervals 2 and 3 have different phases, and ages up to 4 are told apart; restarts are
two, so that one falls before the clock is set again, with times noted or not.
In Persistence three saves are the one before, one cut short and the one after.
In TimeSync one module is on the master's bus and one is not, a restart may fall
between any two packets, and six ticks make both clocks wrap around (after 4 ticks, `Half = 2`)
at another moment than their seconds end (`Second = 3`), with a scheduled
broadcast (`Every = 3`) and with a module that asks again (`Ask = 0`).
Every bound is a constant named `Max...`, and bounds only stop the environment
(users, sketches, power, unasked packets, the passing of time), never the protocol.

### Fairness

The master's loop and the module's loop never block for ever: each wait has a
timeout, hence weak fairness of the loop and of every timeout. Losses are
intermittent: an exchange that is tried again and again works at last, and its
answer then arrives while the master waits for it; hence strong fairness of handling a
packet with its acknowledgement. In `MultiTransfer` and `TimeSync` it is the same for requests to the web server, messages
of the broker and broadcasts; `MasterConfig` has weak fairness only, of the broker, of modules that are on, and of the
master's loop. In `Routing` also a module that is off is found inactive at last. In `Activity` nothing is assumed of answers; of the
announcements at most `MaxLost` are lost one after the other. In `Sampling` each step of a transfer
with all columns goes well if it is tried again and again: it is not in every such transfer that
something goes wrong at one place or another. Nothing is assumed of users, of restarts or
of packets nobody asked for. Without these assumptions a bus that
loses everything, or one late answer after the other, would be a counterexample.

Deadlock is checked in all runs but `master_config`, which stops when the master is configured and
nobody changes anything.

## 4. What is proved

`SettingsSyncProofs` proves, for every number of settings, every set of values
(with any values the comparison does not accept), and all bounds:

- `TypeCorrect`: `Spec => []TypeOK`.
- `GivenCorrect`: `Spec => []OnlyGivenValues`. A value in the database was in
  a POST before, in a flagged slot of the master before that, in a report of the
  module and in a flagged slot of the module; `GivenInv` says of each of
  these places that its value was given to that very variable. `OnlyGivenValues` alone is
  not inductive, as it says nothing of values on their way. It does not
  speak of unflagged values in the module: they may be another setting's.
- `FlaggedCorrect`: `Spec => FlaggedValueKept`, an action property that needs only
  the type invariant.
- `FirstHeldCorrect`: `Spec => []FirstChangeHeld`. `HandOver` adds the facts the
  hand-over rests on: a set on its way to the module is what the master still
  holds (it blocks while it sends), a report on its way is what the module still has
  flagged, a flag in the module belongs to the newest change, and the master has
  the value of an undelivered change only with a flag. `HeldInv` says this of
  executions in which the master has not lost power, and is inductive.
- `OneHeldCorrect`: with a single setting (`N = 1`) and a master that keeps running
  (`MaxRestarts.master = 0`), `Spec => []NoChangeLost`.

- `StoreImplemented`: `Spec => FirstImplementsStore`. Under `GivenInv` and `Transit` (a set on its way to
  the module is what the master holds, a report on its way what the module has flagged, also after losses of
  power) each step of the module, the master and the server is a step or a
  stutter of `SettingsStore`.

The inductive invariants are `GivenInv` and `HeldInv`. The
proofs have one lemma for the steps of the module, of the master and of the
server, with one step for each action. The assumptions on constants
are those named in `SettingsSync` (`NAssumption`, `ValueAssumption`); TLC evaluates
them in each run, like those of the other modules.

`ContractSyncProofs` proves, for any programs of the module whose contracts differ from each other as `ContractSync`
assumes, sketches that have outputs at once or not, and all bounds:

- `TypeCorrect`: `Spec => []TypeOK`. The inductive invariant is `IType`, which adds that what the master holds has the
  length of its contract, and is a contract some program has if it counts as received.
- `ContractKeptCorrect`: `Spec => CurrentContractKept`, an action property: the master does not drop the
  contract the module has. `OnTheWay` says what makes the packets on their way harmless: the sender blocks, so a packet belongs
  to the contract its sender still has, a contract that is repeated is the one already taken,
  and a mismatch bit is about a contract the master has not replaced yet.
- `CompleteCorrect`: `Spec => []UpdatedSetsAreComplete`. `CompleteInv` also speaks of the master's
  sets and of the values on their way.
- `NamesCorrect`: `Spec => []ValuesReachTheirNames`, under `IdsTellApart`: programs with
  the same contract id have the same names. `contract_renamed` is what happens without it. `NamedInv` says
  for each copy and each packet that its values are meant for the names of its contract; comparing ids is enough because no
  packet outlives the contract it was made for.
- `HandleCorrect`: `Spec => []VariableByName`, under `IdsTellApart`: the index a sketch remembers
  is that of its variable in the contract with the remembered id (`HandleInv`).

`RoutingProofs` proves, for any number of modules, any programs of any lengths
for each of them, with and without events, however many of them are reprogrammed, switched off, not heard or send
packets before the contracts are checked:

- `TypeCorrect`: `Spec => []TypeOK`. The values and flags of inputs and outputs are those of the contracts the master holds,
  through every change of contracts. It rests on `FirstMatchIsMatch` (what the search by name returns).
- `SourcesCorrect`: `Spec => []SourcesAreCurrent`. The inductive invariant is `CacheInv`: while the cache is valid, a contract
  that is dropped is either missed by the check that comes before it can be replaced, or the module is in `passed`; and the array of
  sources of a module is as long as its inputs, so that no index is read outside it. So a contract of a module that is not in
  `passed` is replaced only after the cache was dropped, or for a module that no source is in.
- `InputsCorrect`: `Spec => []InputsFromTheirSources`. `NamedInv` says of the
  outputs and inputs in the master and of the inputs in the modules that each value present is one for the name in the contract
  held there: copying along a current source keeps it so, and a replaced contract clears the values made for the old one.

`MultiTransferProofs` proves, for all values and bounds:

- `TypeCorrect`, and `BitsAreKept`: `Spec => []BitsAreChanges`. A value that some transfer still has
  to be told keeps its changed-flag, without which it would not be sent.
- `EchoesAreHarmless`: `Spec => EchoHarmless`, if messages arrive before the next transfer starts
  (`Timely`). The inductive invariant is `EchoInv`: an echo on its way was published in the last transfer or after it
  and finds the value flagged or unchanged. It rests on `Published`: only flagged values are published.
- `BrokerIsTold`: `Spec => []BrokerTold`, without `Timely`. `BrokerInv` follows the messages in the order of their way:
  the last one that is not an event has the value the topic retains, and when there is none left the master has that value,
  or the broker still has to be told, or a message was dropped (`adrift`). An event is not retained, so `BrokerTold` is not
  inductive: it says nothing while events are on their way.

`MasterConfigProofs` proves, for all sets of modules and lists:

- `TypeCorrect`, and `ContractsCorrect`: `Spec => []ContractsInTime`, whatever packets are lost. The strengthening `WaitInv` says
  that when 120 seconds have been waited, a module without a contract that is not late is active; so the wait goes on for it.

`ClockProofs` proves, for words of any size and any limits that fit in them:

- `AfterIsRight`, `ElapsedIsRight`: comparisons of words give what unbounded times would, as
  long as the times are closer than half a word, or an interval is looked at once for each rollover.
- `TypeCorrect`, and `AgeCorrect`: `Spec => []AgeInv`. `last_alive` is when the master heard from the module, or forgotten
  before the clock has wrapped around; each loop must come around in time for that
  (`Forget + MaxBlocked <= Wrap`).
- `ActiveCorrect` and `HeardCorrect` follow from it: a module is taken as active exactly if it was heard
  lately and few packets failed since, except for the moment 0.
- `TimeTypeCorrect`: `TSSpec => []TSTypeOK`, for any number of modules, on the master's bus or not.
- `WithinASecondCorrect`: `TSSpec => []ModuleWithinASecond`. `TimeInv` measures both times in ticks, seconds counted and not:
  counting seconds changes neither (`CountedIs`, also across a rollover), a tick adds one to both, so a module stays behind by
  exactly the part of a second that the master had begun when it sent the time; and while the master is sending it has
  a time that is not 0, which a module would take for none.

`SamplingProofs` proves, for any number of resolutions, intervals and requests:

- `TypeCorrect`, and `TimesCorrect`: the inductive invariant that a time is never before the last sample or the start,
  unless it was noted before the clock was set (`misdated`), and that the times of all levels are noted together.
- `SamplesAreApart`: samples of a resolution are its interval apart from each other and from a start, also across restarts,
  except for the one that comes because the clock was set after its time was noted.
- `InTime`: `Spec => []SampledInTime`, a bound on how late a sample may be that adds up from finer to coarser resolutions.
- `NestedCorrect`, and `RowsCorrect`: a row stored when nothing was lost or overtaken has the columns and values of its transfer.

`PersistenceProofs` proves, for any variables of any sizes, any contracts and values, and all bounds:

- `Inductive`: `Spec => []IInv`. While a save is being written, the cells before `pos` are those of its image. Every
  cell is torn, has never been written, or is as in the image of the last complete save or of one begun since; and
  every value that was ever saved was filled in. This also holds when power is lost between any two cells or in one.
- `TypeCorrect`, and from `IInv`: `ReadBackCorrect` (`Spec => []CompleteSaveIsReadBack`), `NothingOlderCorrect`
  (`Spec => []NothingOlderIsRead`) and `FilledInCorrect` (`Spec => []FilledInBeforeStoring`).
- They rest on the layout of the image: the cells of the variables are consecutive, disjoint and
  cover it (`StartOrder`, `StartCovers`, `VariableAt`). As the prover has no induction over data, `start` is a
  recursive function whose values are shown to exist by the smallest number for which they would not (`SmallestNumber`).

Every invariant and every safety property of the passing runs is now stated by a theorem, some of them under
assumptions on the constants: `NoChangeLost`, which `settings_lost` refutes for more settings, is proved for one.
Only model-checked: the nine liveness properties `Eventually...`. A proof of liveness needs fairness and ENABLED, which the
prover does not support.

## 5. Plan

Done: `SettingsSync`, `Routing`, `ContractSync`, `Persistence`, `TimeSync`; `SettingsStore` with its refinement,
`MultiTransfer`, `MasterConfig`, `Activity` with `Intervals`, `Sampling`; the proofs of section 4.

Left, in this order:

1. Proofs: the safety half of the liveness properties (once the copies agree
   and nobody changes anything, they go on to agree).
2. The module list from a web server (`get_master_settings_from_server`) beside the one from a broker.
3. Topics with a JSON object for a whole set (`MIMQTT_USE_JSON`), and inputs that come from a broker.
4. Uptimes across rollovers (`utils/MIUptime.h`).

## 6. Not modelled

- PJON: the bus itself, its retries and its routing; only what `send` and
  `receive` promise.
- Sizes of variables in packets, conversion of values to JSON and text, buffers
  and the allocation of memory: no decision of the protocol depends on them
  except the length check of outputs, which is modelled in ContractSync.
- The bits `MISSING_SETTINGS` and `MISSING_INPUTS` of the
  status: no decision in the library depends on them.
- What is sent to web server and MQTT broker for display, the web pages, the
  platform headers and the examples, except how a sketch announces its outputs.
