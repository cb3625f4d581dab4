------------------------------- MODULE TimeSync -------------------------------
(***************************************************************************)
(* How modules get the time: the master takes UTC from the web server and  *)
(* sends it to the modules, by a broadcast to those on its own bus and     *)
(* directly to the others, at regular intervals and whenever the status of *)
(* a module says that it has no time (MISSING_TIME).                       *)
(*                                                                         *)
(* All clocks count milliseconds (ticks here) in a word that wraps around, *)
(* and seconds are made from them by carrying the remainder along.  Clocks *)
(* run at the same rate, and a packet takes less than a tick.              *)
(*                                                                         *)
(* Not in this module: the time zone, uptimes, modules marked inactive,    *)
(* and an answer of the server in the very tick in which millis() is 0,    *)
(* which the master would take for never having been synchronised.         *)
(***************************************************************************)
EXTENDS Intervals

CONSTANTS
  M,            \* number of modules
  Local,        \* the ones on the master's own bus
  Second,       \* ticks per second
  Every,        \* interval of scheduled broadcasts, in ticks
  Ask,          \* seconds without an update after which a module asks
  First,        \* no earlier time is accepted
  Slack,        \* inaccuracy of the server's answer, in seconds
  MaxTime,      \* bound on time, in ticks
  MaxRestarts   \* bound on restarts of modules

Mod == 1..M
Nobody == M + 1

ASSUME SizeAssumption ==
  /\ M \in Nat \ {0} /\ Local \subseteq Mod
  /\ Second \in Nat \ {0} /\ Second < Wrap
  /\ Every \in millis /\ Ask \in Nat /\ First \in Nat /\ Slack \in Nat
ASSUME LimitAssumption == MaxTime \in Nat /\ MaxRestarts \in Nat

VARIABLES
  now,             \* real time: ticks since the master was started
  miTimeS, miLastUpdatedTimeMs, miLastSyncedMs,
                   \* master: seconds, clock when they were counted and set
  last_time_sync,  \* master: clock at the last scheduled broadcast
  missing,         \* master: MISSING_TIME in the status of each module
  at, scheduled,   \* master: whom broadcast_time is sending to, scheduled_sync
  ms,              \* modules: clock
  mod,             \* modules: the variables named below
  aligned,         \* history: modules whose time is the one the master has
  restarts         \* history: number of restarts

masterTime == <<miTimeS, miLastUpdatedTimeMs, miLastSyncedMs>>
sending == <<last_time_sync, at, scheduled>>
modules == <<ms, mod>>
noted == <<aligned, restarts>>
TSvars == <<now, masterTime, sending, missing, modules, noted>>

-----------------------------------------------------------------------------
Clock == now % Wrap

(* miTime::Update, Get.  The remainder of a second stays uncounted.        *)
(* Deviations: it is dropped; the clock does not wrap around.              *)
Counted_DropsRemainder(t, then) == t
Counted_NoWrap(t, then) == then + (Since(then, t) \div Second) * Second
Counted(t, then) == Later(then, (Since(then, t) \div Second) * Second)
Get == miTimeS + Since(miLastUpdatedTimeMs, Clock) \div Second
Update == /\ miTimeS' = Get
          /\ miLastUpdatedTimeMs' = Counted(Clock, miLastUpdatedTimeMs)
          /\ UNCHANGED miLastSyncedMs

IsSynced == miLastSyncedMs # 0 /\ First < Get

(* A module that has just started. *)
Started == [utc |-> 0, incremented |-> 0, received |-> 0, missing |-> TRUE]

(* set_time in a module whose clock is t.                                  *)
SetTime(m, utc, t) ==
  [m EXCEPT !.utc = utc, !.incremented = t, !.received = utc, !.missing = FALSE]

(* update_time in a module whose clock is t.                               *)
Elapsed(m, t) == Since(m.incremented, t) \div Second
UpdateTime(m, t) ==
  IF m.received = 0 THEN [m EXCEPT !.missing = TRUE]
  ELSE [m EXCEPT !.utc = @ + Elapsed(m, t),
                 !.incremented = Counted(t, @),
                 !.missing = @ \/ Elapsed(m, t) > Ask]

-----------------------------------------------------------------------------
TSInit ==
  /\ now = 0
  /\ miTimeS = 0 /\ miLastUpdatedTimeMs = 0 /\ miLastSyncedMs = 0
  /\ last_time_sync = 0 /\ at = Nobody /\ scheduled = FALSE
  /\ missing = [i \in Mod |-> FALSE]
  /\ ms = [i \in Mod |-> 0] /\ mod = [i \in Mod |-> Started]
  /\ aligned = {} /\ restarts = 0

(* Time passes.  Seconds are counted at least once for each time a clock   *)
(* wraps around.  The code asks for that ("This must be called regularly   *)
(* to keep the time updated", ModuleInterface.h:557): the master uses its  *)
(* time for each broadcast and transfer, and a module when it sends its    *)
(* status or its sketch asks for the time.                                 *)
Tick ==
  /\ now < MaxTime
  /\ Since(miLastUpdatedTimeMs, Clock) < Wrap - 1
  /\ \A i \in Mod : mod[i].received # 0 => Since(mod[i].incremented, ms[i]) < Wrap - 1
  /\ now' = now + 1
  /\ ms' = [i \in Mod |-> Later(ms[i], 1)]
  /\ UNCHANGED <<masterTime, sending, missing, mod, noted>>

(* set_time_from_json.  abs is taken of the comparison and not of the      *)
(* difference, so the master's time is only ever set forward.              *)
ServerAnswers(error) ==
  LET utc == First + 1 + now \div Second + error
  IN  /\ at = Nobody
      /\ Clock # 0
      /\ IF utc > Get + 2 /\ utc > First
           THEN /\ miTimeS' = utc
                /\ miLastUpdatedTimeMs' = Clock /\ miLastSyncedMs' = Clock
                /\ aligned' = {}
           ELSE Update /\ UNCHANGED aligned
      /\ UNCHANGED <<now, sending, missing, modules, restarts>>

(* The status of a module arrives.  Its bits are taken before the time is  *)
(* updated.                                                                *)
StatusArrives(i) ==
  /\ missing' = [missing EXCEPT ![i] = mod[i].missing]
  /\ mod' = [mod EXCEPT ![i] = UpdateTime(@, ms[i])]
  /\ UNCHANGED <<now, masterTime, sending, ms, aligned, restarts>>

(* send_timesync to the modules in to, of which those in heard receive it. *)
SendTimesync(heard) ==
  /\ Update
  /\ mod' = [i \in Mod |-> IF i \in heard THEN SetTime(mod[i], Get, ms[i]) ELSE mod[i]]
  /\ aligned' = aligned \cup heard

(* broadcast_time sends to the modules on the own bus together (at = 0),   *)
(* and to others one by one.  Packets are received after each sending, and *)
(* then the bits of the modules sent to are cleared.  Deviation: it is the *)
(* modules on the own bus that are sent to one by one.                     *)
NextDirected_Local(sync, bits, from) ==
  LET due == {i \in Local : i > from /\ (sync \/ bits[i])}
  IN  IF due = {} THEN Nobody ELSE CHOOSE i \in due : \A j \in due : i <= j
NextDirected(sync, bits, from) ==
  LET due == {i \in Mod \ Local : i > from /\ (sync \/ bits[i])}
  IN  IF due = {} THEN Nobody ELSE CHOOSE i \in due : \A j \in due : i <= j

SendNext(sync, bits, from, heard) ==
  /\ at' = NextDirected(sync, bits, from)
  /\ scheduled' = (sync /\ at' # Nobody)
  /\ IF at' = Nobody
       THEN /\ last_time_sync' = IF sync THEN Clock ELSE last_time_sync
            /\ Update
            /\ UNCHANGED <<mod, aligned>>
       ELSE SendTimesync({at'} \cap heard) /\ UNCHANGED last_time_sync

BroadcastTime(heard) ==
  LET sync == Since(last_time_sync, Clock) >= Every
  IN  /\ at = Nobody
      /\ IsSynced
      /\ IF sync \/ \E i \in Local : missing[i]
           THEN /\ at' = 0 /\ scheduled' = sync
                /\ SendTimesync(Local \cap heard)
                /\ UNCHANGED last_time_sync
           ELSE SendNext(sync, missing, 0, heard)
      /\ UNCHANGED <<now, missing, ms, restarts>>

AfterSending(heard) ==
  LET sent == IF at = 0 THEN Local ELSE {at}
  IN  /\ at # Nobody
      /\ missing' = [i \in Mod |-> missing[i] /\ i \notin sent]
      /\ SendNext(scheduled, missing', at, heard)
      /\ UNCHANGED <<now, ms, restarts>>

Restart(i) ==
  /\ restarts < MaxRestarts
  /\ restarts' = restarts + 1
  /\ ms' = [ms EXCEPT ![i] = 0]
  /\ mod' = [mod EXCEPT ![i] = Started]
  /\ aligned' = aligned \ {i}
  /\ UNCHANGED <<now, masterTime, sending, missing>>

TSNext ==
  \/ Tick
  \/ \E error \in -Slack..Slack : ServerAnswers(error)
  \/ \E i \in Mod : StatusArrives(i) \/ Restart(i)
  \/ \E heard \in SUBSET Mod : BroadcastTime(heard) \/ AfterSending(heard)

TSSpec == TSInit /\ [][TSNext]_TSvars

(* Time passes, the master's loop keeps running, and losses are            *)
(* intermittent: what is sent again and again is heard at last.            *)
TSFairness ==
  /\ WF_TSvars(Tick) /\ SF_TSvars(ServerAnswers(0))
  /\ WF_TSvars(\E heard \in SUBSET Mod : AfterSending(heard))
  /\ \A i \in Mod :
       /\ SF_TSvars(StatusArrives(i))
       /\ SF_TSvars((BroadcastTime(Mod) \/ AfterSending(Mod)) /\ at' = IF i \in Local THEN 0 ELSE i)

TSFairSpec == TSSpec /\ TSFairness

-----------------------------------------------------------------------------
(* Type invariant. *)
TSTypeOK ==
  /\ now \in 0..MaxTime
  /\ miTimeS \in Nat /\ {miLastUpdatedTimeMs, miLastSyncedMs, last_time_sync} \subseteq millis
  /\ missing \in [Mod -> BOOLEAN]
  /\ at \in 0..Nobody /\ scheduled \in BOOLEAN
  /\ ms \in [Mod -> millis]
  /\ mod \in [Mod -> [utc : Nat, incremented : millis, received : Nat, missing : BOOLEAN]]
  /\ aligned \subseteq Mod
  /\ restarts \in 0..MaxRestarts

(* A module that has the time of the master keeps it, over any number of   *)
(* rollovers of either clock and however irregularly seconds are counted:  *)
(* it is behind by less than the second that the master had begun when it  *)
(* sent the time ("at least once for each millis() rollover",              *)
(* ModuleInterface.h:557).                                                 *)
ModuleWithinASecond ==
  \A i \in aligned : Get - (mod[i].utc + Elapsed(mod[i], ms[i])) \in {0, 1}

(* Every module gets the time, on the master's bus or on another, whatever *)
(* broadcasts, statuses and restarts cross each other: a bit that is       *)
(* cleared too early comes back with the next status                       *)
(* (PJONModuleInterfaceSet.h:228-229, 244-245).                            *)
EventuallyTimed == <>[](\A i \in Mod : mod[i].received # 0 /\ ~mod[i].missing)
=============================================================================
