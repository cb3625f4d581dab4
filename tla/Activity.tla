------------------------------ MODULE Activity ------------------------------
(***************************************************************************)
(* Whether a module is active, as the master sees it, and how a module     *)
(* that hears nothing makes itself known again.                            *)
(*                                                                         *)
(* The master takes a module as active if it has heard from it less than   *)
(* Inactive ago and fewer than Threshold packets to it have failed since.  *)
(* A module that has heard from nobody for more than Idle sends its status *)
(* unasked, to the master if it knows the address of it and to everybody   *)
(* otherwise, which tells the routers where the module is now.             *)
(*                                                                         *)
(* Both count time in a word that wraps around, in which 0 means never.    *)
(* One tick is a second of an age here and also the tick in which millis() *)
(* is 0, so that tick is as long as a second.  Routers are not part of the *)
(* code: that they learn a route from a packet is taken from the comments. *)
(***************************************************************************)
EXTENDS Intervals

CONSTANTS
  Inactive,     \* MI_INACTIVE_TIME_THRESHOLD
  Threshold,    \* MI_INACTIVE_THRESHOLD
  MaxFailures,  \* where the count of failures stays
  Idle,         \* IDLE_TIME_BEFORE_PRESENCE_BROADCAST_S
  Forget,       \* an age that is taken as never
  MaxBlocked,   \* the longest that a loop may take
  MaxLost       \* bound on announcements that are lost one after the other

ASSUME AgeAssumption ==
  /\ Inactive \in Nat \ {0} /\ Idle \in Nat \ {0}
  /\ Forget \in Nat /\ MaxBlocked \in Nat \ {0}
  /\ Inactive < Forget /\ Idle < Forget /\ Forget + MaxBlocked <= Wrap
ASSUME FailureAssumption ==
  /\ Threshold \in Nat \ {0} /\ MaxFailures \in Nat
  /\ Threshold <= MaxFailures
ASSUME BoundAssumption == MaxLost \in Nat

VARIABLES
  clock, last_alive, comm_failures,
                  \* master: millis(), when it heard from the module, failures
  mclock, malive, \* module: millis(), when it heard anything
  last_presence,  \* module: when it announced itself
  known,          \* module: master_id is assigned
  on, route,      \* the module is on; packets from the master find it
  silence,        \* history: ticks since the master heard from the module
  failed,         \* history: packets that have failed since then
  lost            \* history: announcements lost since the last that was not

master == <<clock, last_alive, comm_failures>>
module == <<mclock, malive, last_presence, known>>
network == <<on, route>>
history == <<silence, failed, lost>>
vars == <<master, module, network, history>>

Capped(n, max) == IF n < max THEN n ELSE max

-----------------------------------------------------------------------------
(* Ages.                                                                   *)

(* last_alive after get_last_alive_age, which forgets a time long ago.     *)
Looked(alive, t) == IF Since(alive, t) < Forget THEN alive ELSE 0

(* What get_last_alive_age returns. *)
get_last_alive_age(alive, t) ==
  IF alive = 0 \/ Looked(alive, t) = 0 THEN -1 ELSE Since(alive, t)

Age == get_last_alive_age(last_alive, clock)
MAge == get_last_alive_age(malive, mclock)

(* is_active in the master. *)
is_active == comm_failures < Threshold /\ Age # -1 /\ Age < Inactive

(* When something is heard: millis(), and 1 instead of 0.                  *)
Stamp(t) == IF t = 0 THEN 1 ELSE t

-----------------------------------------------------------------------------
Init ==
  /\ clock = 0 /\ last_alive = 0 /\ comm_failures = 0
  /\ mclock = 0 /\ malive = 0 /\ last_presence = 0 /\ known = FALSE
  /\ on = TRUE /\ route = TRUE
  /\ silence = Wrap /\ failed = 0
  /\ lost = 0

(* The master hears from the module.  handle_message stamps the time once  *)
(* more, and this time also with 0, unless the message was not handled.    *)
(* Deviation: the failures before stay counted.                            *)
Hears_KeepsFailures(time) ==
  /\ last_alive' = time /\ silence' = 0 /\ failed' = 0
  /\ UNCHANGED comm_failures
Hears(time) ==
  /\ last_alive' = time /\ comm_failures' = 0
  /\ silence' = 0 /\ failed' = 0

(* send in the master: no acknowledgement came.  Deviations: the count     *)
(* wraps around; it does not stay at its limit.                            *)
SendFails_Wraps ==
  /\ comm_failures' = (comm_failures + 1) % (MaxFailures + 1)
  /\ failed' = Capped(failed + 1, Threshold)
SendFails_NoLimit ==
  /\ comm_failures' = comm_failures + 1
  /\ failed' = Capped(failed + 1, Threshold)
SendFails ==
  /\ comm_failures' = Capped(comm_failures + 1, MaxFailures)
  /\ failed' = Capped(failed + 1, Threshold)

(* The module gets a packet: a request also tells the master's address.    *)
Gets(request) ==
  /\ malive' = Stamp(mclock)
  /\ known' = (known \/ request)

(* A request of the master (its settings, a contract, the status) is       *)
(* answered and the answer arrives.                                        *)
Answered ==
  /\ on /\ route
  /\ Gets(TRUE)
  /\ Hears(clock)
  /\ UNCHANGED <<clock, mclock, last_presence, network, lost>>

(* The module gets a request, or inputs or the time that have no answer.   *)
(* An acknowledgement alone says nothing, and its absence is a failure.    *)
OneWay(request, acked) ==
  /\ on /\ route
  /\ Gets(request)
  /\ IF acked THEN UNCHANGED <<comm_failures, failed>> ELSE SendFails
  /\ UNCHANGED <<clock, last_alive, mclock, last_presence, network, silence, lost>>

(* A packet of the master does not get to the module. *)
Unanswered ==
  /\ SendFails
  /\ UNCHANGED <<clock, last_alive, module, network, silence, lost>>

(* The module sends outputs or settings that have changed at once.  The    *)
(* master has no response to settings, so handle_message does not stamp.   *)
ModuleSends(settings) ==
  /\ on /\ known
  /\ Hears(IF settings THEN Stamp(clock) ELSE clock)
  /\ route' = TRUE
  /\ UNCHANGED <<clock, module, on, lost>>

-----------------------------------------------------------------------------
(* send_presence_broadcast.  Deviation: only a module that knows the       *)
(* master announces itself.                                                *)
Due_OnlyKnown == /\ on /\ MAge > Idle /\ known
                 /\ Since(last_presence, mclock) > Idle
Due == /\ on /\ MAge > Idle
       /\ Since(last_presence, mclock) > Idle

(* The status goes to the master itself, or to everybody on the bus, where *)
(* the master may be or not.  Routers learn where the module is.           *)
Announce ==
  /\ Due
  /\ last_presence' = mclock
  /\ route' = TRUE /\ lost' = 0
  /\ \/ Hears(clock)
     \/ ~known /\ UNCHANGED <<last_alive, comm_failures, silence, failed>>
  /\ UNCHANGED <<clock, mclock, malive, known, on>>

LoseAnnouncement ==
  /\ Due /\ lost < MaxLost
  /\ last_presence' = mclock
  /\ lost' = lost + 1
  /\ UNCHANGED <<master, mclock, malive, known, network, silence, failed>>

-----------------------------------------------------------------------------
(* Time passes until the loops come around: update_contracts looks whether *)
(* the module is active, which takes its age only if few packets failed,   *)
(* and update in the module looks at the age before it announces anything. *)
Pass(n) ==
  /\ ~Due
  /\ clock' = Later(clock, n)
  /\ last_alive' = IF comm_failures < Threshold THEN Looked(last_alive, clock')
                                                ELSE last_alive
  /\ mclock' = IF on THEN Later(mclock, n) ELSE mclock
  /\ malive' = IF on THEN Looked(malive, mclock') ELSE malive
  /\ silence' = Capped(silence + n, Wrap)
  /\ UNCHANGED <<comm_failures, last_presence, known, network, failed, lost>>

(* The loops come around more than once in a tick; the status of a module  *)
(* is also shown on the web page.                                          *)
MasterLooks ==
  /\ last_alive' = Looked(last_alive, clock)
  /\ UNCHANGED <<clock, comm_failures, module, network, history>>

ModuleLooks ==
  /\ on
  /\ malive' = Looked(malive, mclock)
  /\ UNCHANGED <<master, mclock, last_presence, known, network, history>>

(* The module is switched off, and on again, maybe somewhere else. *)
SwitchOff ==
  /\ on
  /\ on' = FALSE
  /\ mclock' = 0 /\ malive' = 0 /\ last_presence' = 0 /\ known' = FALSE
  /\ UNCHANGED <<master, route, history>>

SwitchOn ==
  /\ ~on
  /\ on' = TRUE
  /\ UNCHANGED <<master, module, route, history>>

(* The module gets behind another router, running or switched off. *)
Move ==
  /\ route
  /\ route' = FALSE
  /\ UNCHANGED <<master, module, on, history>>

(* The master is restarted. *)
MasterRestarts ==
  /\ clock' = 0 /\ last_alive' = 0 /\ comm_failures' = 0
  /\ silence' = Wrap /\ failed' = 0
  /\ UNCHANGED <<module, network, lost>>

Next ==
  \/ Answered
  \/ \E request, acked \in BOOLEAN : OneWay(request, acked)
  \/ Unanswered
  \/ \E settings \in BOOLEAN : ModuleSends(settings)
  \/ Announce \/ LoseAnnouncement
  \/ \E n \in 1..MaxBlocked : Pass(n)
  \/ MasterLooks \/ ModuleLooks
  \/ SwitchOff \/ SwitchOn \/ Move \/ MasterRestarts

Spec == Init /\ [][Next]_vars

(* Time passes, and a module sends an announcement that is due.            *)
Fairness ==
  /\ WF_vars(\E n \in 1..MaxBlocked : Pass(n))
  /\ WF_vars(Announce \/ LoseAnnouncement)

FairSpec == Spec /\ Fairness

-----------------------------------------------------------------------------
(* Every variable has its type. *)
TypeOK ==
  /\ clock \in millis /\ last_alive \in millis /\ comm_failures \in 0..MaxFailures
  /\ mclock \in millis /\ malive \in millis /\ last_presence \in millis
  /\ known \in BOOLEAN /\ on \in BOOLEAN /\ route \in BOOLEAN
  /\ silence \in 0..Wrap /\ failed \in 0..Threshold
  /\ lost \in 0..MaxLost

(* The failures counted are those since the master heard from the module.  *)
(* last_alive is when that was, or 1 where that was 0, unless it was long  *)
(* ago and is forgotten; where few packets failed it is forgotten in time, *)
(* before a clock that wraps around makes an old time look like a new one, *)
(* and so is the time at which the module has heard anything.              *)
AgeInv ==
  /\ failed = Capped(comm_failures, Threshold)
  /\ silence < Wrap => \/ silence = Since(last_alive, clock)
                       \/ last_alive = 1 /\ silence = Since(0, clock)
                       \/ last_alive = 0 /\ silence >= Forget
  /\ (last_alive # 0 /\ comm_failures < Threshold) =>
       silence < Forget \/ (last_alive = 1 /\ silence = Forget /\ clock = Forget)
  /\ malive # 0 => Since(malive, mclock) < Forget \/ (malive = 1 /\ mclock = 0)

(* A module that is taken as active has been heard from less than Inactive *)
(* ago (or just then, if that was when millis() was 0), and fewer than     *)
(* Threshold packets have failed since, however often the clock has        *)
(* wrapped around and however many packets have failed before.             *)
ActiveMeansHeard ==
  is_active => /\ silence < Inactive \/ (silence = Inactive /\ last_alive = 1)
               /\ failed < Threshold

(* A module that has been heard from less than Inactive ago is taken as    *)
(* active, unless Threshold packets have failed since or it was heard when *)
(* millis() was 0.                                                         *)
HeardMeansActive ==
  (silence < Inactive /\ failed < Threshold /\ silence # Since(0, clock)) => is_active

(* A module that has heard something lately and gets behind another router *)
(* is found again: it announces itself before it forgets that it has.      *)
EventuallyFound == (on /\ ~route /\ MAge \in 0..Idle) ~> (route \/ ~on)

(* Code comment: a module that receives no requests sends a broadcast, so  *)
(* that one that was moved gets a route.  It does not if it was restarted. *)
EventuallyAlwaysFound == (on /\ ~route) ~> (route \/ ~on)
=============================================================================
