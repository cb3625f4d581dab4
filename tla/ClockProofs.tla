----------------------------- MODULE ClockProofs -----------------------------
(***************************************************************************)
(* Proofs about the modules in which clocks wrap around: Intervals,        *)
(* Activity and TimeSync.  For every size of the word and all limits,      *)
(* differences and comparisons of times that are close enough are right    *)
(* when the clock has wrapped around between them; the master takes a      *)
(* module as active exactly if it has heard from it lately; and a module   *)
(* that has got the time from the master keeps it.                         *)
(***************************************************************************)
EXTENDS Activity, TimeSync, WellFoundedInduction, TLAPS

(* A time and a difference are numbers of the word. *)
LEMMA WordTypes ==
  ASSUME NEW t \in millis, NEW a \in millis, NEW n \in 0..Wrap
  PROVE  Later(t, n) \in millis /\ Since(a, t) \in millis
BY HalfAssumption DEF Later, Since, millis, Wrap

(* Time that passes is added to a difference, as long as it fits.          *)
LEMMA SinceGrows ==
  ASSUME NEW a \in millis, NEW t \in millis, NEW n \in 0..Wrap, Since(a, t) + n < Wrap
  PROVE  Since(a, Later(t, n)) = Since(a, t) + n
BY HalfAssumption DEF Later, Since, millis, Wrap

(* mi_is_after (MIUtilities.h:19) tells the later of two times that are    *)
(* less than half the word apart, whether the clock has wrapped around     *)
(* between them or not; half the word apart, neither is after the other;   *)
(* and a time is after itself, so that mi_after_or_equal is the same.      *)
THEOREM AfterIsRight ==
  ASSUME NEW t \in millis, NEW n \in 0..Half
  PROVE  /\ n < Half => mi_is_after(Later(t, n), t)
         /\ n > 0 => ~mi_is_after(t, Later(t, n))
         /\ n = Half => ~mi_is_after(Later(t, n), t)
         /\ mi_after_or_equal(Later(t, n), t) <=> mi_is_after(Later(t, n), t)
BY HalfAssumption DEF mi_is_after, mi_after_or_equal, Later, Since, millis, Wrap

(* mi_interval_elapsed (MIUtilities.h:4) says after n ticks whether the    *)
(* interval has passed, whether the clock has wrapped around or not.       *)
THEOREM ElapsedIsRight ==
  ASSUME NEW t \in millis, NEW n \in millis, NEW interval \in millis
  PROVE  mi_interval_elapsed(t, Later(t, n), interval) <=> n >= interval
BY HalfAssumption DEF mi_interval_elapsed, Later, Since, millis, Wrap

-----------------------------------------------------------------------------
(* Activity.TypeOK holds in every reachable state, for all limits.         *)
THEOREM TypeCorrect == Spec => []TypeOK
<1> USE HalfAssumption, AgeAssumption, FailureAssumption, BoundAssumption
<1>0. /\ 0 \in millis /\ 0 \in 0..MaxFailures /\ 0 \in 0..Threshold /\ 0 \in 0..MaxLost
      /\ 0 \in 0..Wrap /\ Wrap \in 0..Wrap
  BY DEF millis, Wrap
<1>1. Init => TypeOK
  BY <1>0 DEF Init, TypeOK
<1>2. TypeOK /\ [Next]_vars => TypeOK'
  <2> SUFFICES ASSUME TypeOK, [Next]_vars PROVE TypeOK'
    OBVIOUS
  <2>0. Stamp(clock) \in millis /\ Stamp(mclock) \in millis
    BY DEF TypeOK, Stamp, millis, Wrap
  <2>1. CASE Answered
    BY <1>0, <2>0, <2>1 DEF Answered, Gets, Hears, TypeOK, network
  <2>2. CASE \E request, acked \in BOOLEAN : OneWay(request, acked)
    BY <1>0, <2>0, <2>2 DEF OneWay, Gets, SendFails, Capped, TypeOK, network
  <2>3. CASE Unanswered
    BY <2>3 DEF Unanswered, SendFails, Capped, TypeOK, module, network
  <2>4. CASE \E settings \in BOOLEAN : ModuleSends(settings)
    BY <1>0, <2>0, <2>4 DEF ModuleSends, Hears, TypeOK, module
  <2>5. CASE Announce
    <3>1. last_alive' \in millis /\ comm_failures' \in 0..MaxFailures
          /\ silence' \in 0..Wrap /\ failed' \in 0..Threshold
      BY <1>0, <2>5 DEF Announce, Hears, TypeOK
    <3> QED  BY <1>0, <2>5, <3>1 DEF Announce, TypeOK
  <2>11. CASE LoseAnnouncement
    <3>1. lost' \in 0..MaxLost
      BY <2>11 DEF LoseAnnouncement, TypeOK
    <3> QED  BY <2>11, <3>1 DEF LoseAnnouncement, TypeOK, master, network
  <2>6. CASE \E n \in 1..MaxBlocked : Pass(n)
    <3> PICK n \in 1..MaxBlocked : Pass(n)
      BY <2>6
    <3>1. n \in 0..Wrap
      BY DEF Wrap
    <3>2. Later(clock, n) \in millis /\ Later(mclock, n) \in millis
      BY <3>1, WordTypes DEF TypeOK
    <3>3. Capped(silence + n, Wrap) \in 0..Wrap
      BY DEF Capped, TypeOK, Wrap
    <3> QED  BY <1>0, <3>2, <3>3 DEF Pass, Looked, TypeOK, network
  <2>7. CASE MasterLooks \/ ModuleLooks
    BY <1>0, <2>0, <2>7 DEF MasterLooks, ModuleLooks, Looked, TypeOK, master, module, network, history
  <2>8. CASE SwitchOff \/ SwitchOn \/ Move
    BY <1>0, <2>0, <2>8 DEF SwitchOff, SwitchOn, Move, TypeOK, master, module, history
  <2>9. CASE MasterRestarts
    BY <1>0, <2>9 DEF MasterRestarts, TypeOK, module, network
  <2>10. CASE UNCHANGED vars
    BY <2>10 DEF TypeOK, vars, master, module, network, history
  <2> QED  BY <2>1, <2>2, <2>3, <2>4, <2>5, <2>6, <2>7, <2>8, <2>9, <2>10, <2>11 DEF Next
<1> QED  BY <1>1, <1>2, PTL DEF Spec

-----------------------------------------------------------------------------
(* The parts of AgeInv about the master and about the module. *)
MasterAge ==
  /\ failed = Capped(comm_failures, Threshold)
  /\ silence < Wrap => \/ silence = Since(last_alive, clock)
                       \/ last_alive = 1 /\ silence = Since(0, clock)
                       \/ last_alive = 0 /\ silence >= Forget
  /\ (last_alive # 0 /\ comm_failures < Threshold) =>
       silence < Forget \/ (last_alive = 1 /\ silence = Forget /\ clock = Forget)
ModuleAge == malive # 0 => Since(malive, mclock) < Forget \/ (malive = 1 /\ mclock = 0)

(* Hearing from the module starts its age anew. *)
LEMMA HearsAge ==
  ASSUME TypeOK, clock' = clock, Hears(clock) \/ Hears(Stamp(clock))
  PROVE  MasterAge'
<1> USE HalfAssumption, AgeAssumption, FailureAssumption
<1>1. Since(clock, clock) = 0
  BY DEF Since, TypeOK, millis, Wrap
<1>2. last_alive' = clock \/ (last_alive' = 1 /\ clock = 0)
  BY DEF Hears, Stamp
<1>3. silence' = Since(last_alive', clock) \/ (last_alive' = 1 /\ silence' = Since(0, clock))
  BY <1>1, <1>2 DEF Hears
<1> QED  BY <1>3 DEF MasterAge, Hears, Capped

(* A packet that fails is counted and does not change the age. *)
LEMMA SendFailsAge ==
  ASSUME TypeOK, MasterAge, SendFails, UNCHANGED <<clock, last_alive, silence>>
  PROVE  MasterAge'
<1> USE FailureAssumption
<1>1. failed' = Capped(comm_failures', Threshold)
  BY DEF TypeOK, MasterAge, SendFails, Capped
<1>2. comm_failures' < Threshold => comm_failures < Threshold
  BY DEF TypeOK, SendFails, Capped
<1> QED  BY <1>1, <1>2 DEF MasterAge

(* When time passes an old age is forgotten before it does not fit.        *)
LEMMA PassAge ==
  ASSUME TypeOK, MasterAge, NEW n \in 1..MaxBlocked, Pass(n)
  PROVE  MasterAge'
<1> USE HalfAssumption, AgeAssumption, FailureAssumption
<1>0. /\ n \in 0..Wrap /\ 0 \in millis /\ Later(clock, n) \in millis
      /\ clock \in millis /\ last_alive \in millis /\ silence \in 0..Wrap
      /\ clock' = Later(clock, n) /\ silence' = Capped(silence + n, Wrap)
      /\ UNCHANGED <<comm_failures, failed>>
  <2>1. n \in 0..Wrap /\ 0 \in millis
    BY DEF Wrap, millis
  <2> QED  BY <2>1, WordTypes DEF TypeOK, Pass
<1>1. /\ last_alive' \in {last_alive, 0}
      /\ comm_failures < Threshold => last_alive' = Looked(last_alive, clock')
      /\ comm_failures >= Threshold => last_alive' = last_alive
  BY DEF Pass, Looked, TypeOK
<1>2. failed' = Capped(comm_failures', Threshold)
  BY <1>0 DEF MasterAge
<1>3. silence' < Wrap => /\ silence' = silence + n /\ silence < Wrap
                         /\ silence = Since(last_alive, clock) => silence' = Since(last_alive, clock')
                         /\ silence = Since(0, clock) => silence' = Since(0, clock')
  BY <1>0, SinceGrows DEF Capped, Wrap
<1>4. silence' < Wrap => \/ silence' = Since(last_alive', clock')
                         \/ last_alive' = 1 /\ silence' = Since(0, clock')
                         \/ last_alive' = 0 /\ silence' >= Forget
  <2> SUFFICES ASSUME silence' < Wrap
               PROVE  \/ silence' = Since(last_alive', clock')
                      \/ last_alive' = 1 /\ silence' = Since(0, clock')
                      \/ last_alive' = 0 /\ silence' >= Forget
    OBVIOUS
  <2>1. CASE last_alive' = last_alive
    BY <1>0, <1>3, <2>1 DEF MasterAge
  <2>2. CASE last_alive' = 0 /\ last_alive # 0
    <3>1. Since(last_alive, clock') >= Forget /\ clock' \in millis
      BY <1>0, <1>1, <2>2 DEF Looked, Since, millis, Wrap, TypeOK
    <3>2. CASE silence = Since(last_alive, clock)
      BY <1>3, <2>2, <3>1, <3>2
    <3>3. CASE last_alive = 1 /\ silence = Since(0, clock)
      BY <1>0, <1>3, <2>2, <3>1, <3>3 DEF Since, millis, Wrap
    <3> QED  BY <1>3, <2>2, <3>2, <3>3 DEF MasterAge
  <2> QED  BY <1>1, <2>1, <2>2
<1>5. (last_alive' # 0 /\ comm_failures' < Threshold) =>
        silence' < Forget \/ (last_alive' = 1 /\ silence' = Forget /\ clock' = Forget)
  <2> SUFFICES ASSUME last_alive' # 0, comm_failures < Threshold
               PROVE  silence' < Forget \/ (last_alive' = 1 /\ silence' = Forget /\ clock' = Forget)
    BY <1>0
  <2>1. /\ last_alive' = last_alive /\ last_alive # 0
        /\ Since(last_alive, clock') < Forget
    BY <1>1 DEF Looked
  <2>2. CASE silence < Forget
    <3>1. silence' < Wrap
      BY <1>0, <2>2 DEF Capped, Wrap, Since, Later, millis, MasterAge
    <3> QED  BY <1>0, <1>4, <2>1, <3>1 DEF Since, millis, Wrap
  <2>3. CASE last_alive = 1 /\ silence = Forget /\ clock = Forget
    BY <1>0, <2>1, <2>3 DEF Since, Later, millis, Wrap, Capped
  <2> QED  BY <2>1, <2>2, <2>3 DEF MasterAge
<1> QED  BY <1>2, <1>4, <1>5 DEF MasterAge

(* AgeInv follows step by step from the types. *)
LEMMA AgeStep == TypeOK /\ AgeInv /\ [Next]_vars => AgeInv'
<1> USE HalfAssumption, AgeAssumption, FailureAssumption
<1> SUFFICES ASSUME TypeOK, MasterAge, ModuleAge, [Next]_vars PROVE MasterAge' /\ ModuleAge'
  BY DEF AgeInv, MasterAge, ModuleAge
<1>0. /\ UNCHANGED master /\ UNCHANGED <<silence, failed>> => MasterAge'
      /\ UNCHANGED module => ModuleAge'
  BY DEF MasterAge, ModuleAge, master, module
<1>1. ASSUME NEW request \in BOOLEAN, Gets(request), UNCHANGED mclock PROVE ModuleAge'
  BY <1>1 DEF Gets, Stamp, ModuleAge, Since, TypeOK, millis, Wrap
<1>2. CASE Answered
  BY <1>1, <1>2, HearsAge DEF Answered
<1>3. CASE \E request, acked \in BOOLEAN : OneWay(request, acked)
  <2> PICK request \in BOOLEAN, acked \in BOOLEAN : OneWay(request, acked)
    BY <1>3
  <2>1. ModuleAge'
    BY <1>1 DEF OneWay
  <2>2. MasterAge'
    BY <1>0, SendFailsAge DEF OneWay, master
  <2> QED  BY <2>1, <2>2
<1>4. CASE Unanswered
  BY <1>0, <1>4, SendFailsAge DEF Unanswered
<1>5. CASE \E settings \in BOOLEAN : ModuleSends(settings)
  BY <1>0, <1>5, HearsAge DEF ModuleSends
<1>6. CASE Announce
  <2>1. MasterAge'
    BY <1>0, <1>6, HearsAge DEF Announce, master
  <2>2. ModuleAge'
    BY <1>6 DEF Announce, ModuleAge
  <2> QED  BY <2>1, <2>2
<1>7. CASE LoseAnnouncement
  BY <1>0, <1>7 DEF LoseAnnouncement, ModuleAge
<1>8. CASE \E n \in 1..MaxBlocked : Pass(n)
  <2> PICK n \in 1..MaxBlocked : Pass(n)
    BY <1>8
  <2>1. ModuleAge'
    BY DEF Pass, Looked, ModuleAge
  <2> QED  BY <2>1, PassAge
<1>9. CASE MasterLooks
  BY <1>0, <1>9 DEF MasterLooks, MasterAge, Looked, Since, TypeOK, history, millis, Wrap
<1>10. CASE ModuleLooks
  BY <1>0, <1>10 DEF ModuleLooks, ModuleAge, Looked, history
<1>11. CASE SwitchOff \/ SwitchOn \/ Move
  BY <1>0, <1>11 DEF SwitchOff, SwitchOn, Move, ModuleAge, history
<1>12. CASE MasterRestarts
  BY <1>0, <1>12 DEF MasterRestarts, MasterAge, Capped, Wrap
<1>13. CASE UNCHANGED vars
  BY <1>0, <1>13 DEF vars, history
<1> QED  BY <1>2, <1>3, <1>4, <1>5, <1>6, <1>7, <1>8, <1>9, <1>10, <1>11, <1>12, <1>13 DEF Next

(* Activity.AgeInv holds in every reachable state, for all limits.  It is  *)
(* inductive, and says what last_alive is worth: the age of the last       *)
(* packet, as long as that age fits in a word.                             *)
THEOREM AgeCorrect == Spec => []AgeInv
<1>1. Init => AgeInv
  BY HalfAssumption, AgeAssumption, FailureAssumption DEF Init, AgeInv, Capped, Wrap
<1> QED  BY <1>1, AgeStep, TypeCorrect, PTL DEF Spec

(* Activity.ActiveMeansHeard: who is taken as active was heard lately.     *)
THEOREM ActiveCorrect == Spec => []ActiveMeansHeard
<1>1. TypeOK /\ AgeInv => ActiveMeansHeard
  <2> USE HalfAssumption, AgeAssumption, FailureAssumption
  <2> SUFFICES ASSUME TypeOK, AgeInv, is_active
               PROVE  /\ silence < Inactive \/ (silence = Inactive /\ last_alive = 1)
                      /\ failed < Threshold
    BY DEF ActiveMeansHeard
  <2>1. /\ last_alive # 0 /\ comm_failures < Threshold
        /\ Since(last_alive, clock) < Inactive /\ Since(last_alive, clock) < Forget
    BY DEF is_active, Age, get_last_alive_age, Looked
  <2>2. silence <= Forget /\ Forget < Wrap
    BY <2>1 DEF AgeInv, TypeOK, Wrap
  <2>3. failed < Threshold
    BY <2>1 DEF AgeInv, Capped
  <2>4. silence = Since(last_alive, clock) \/ (last_alive = 1 /\ silence = Since(0, clock))
    BY <2>1, <2>2 DEF AgeInv, TypeOK, Wrap
  <2> QED  BY <2>1, <2>2, <2>3, <2>4 DEF Since, TypeOK, millis, Wrap
<1> QED  BY <1>1, TypeCorrect, AgeCorrect, PTL

(* Activity.HeardMeansActive: who was heard lately is taken as active.     *)
THEOREM HeardCorrect == Spec => []HeardMeansActive
<1>1. TypeOK /\ AgeInv => HeardMeansActive
  <2> USE HalfAssumption, AgeAssumption, FailureAssumption
  <2> SUFFICES ASSUME TypeOK, AgeInv,
                      silence < Inactive, failed < Threshold, silence # Since(0, clock)
               PROVE  is_active
    BY DEF HeardMeansActive
  <2>1. comm_failures < Threshold
    BY DEF AgeInv, Capped, TypeOK
  <2>2. silence = Since(last_alive, clock) /\ last_alive # 0
    BY DEF AgeInv, TypeOK, Wrap
  <2> QED  BY <2>1, <2>2 DEF is_active, Age, get_last_alive_age, Looked, TypeOK
<1> QED  BY <1>1, TypeCorrect, AgeCorrect, PTL

-----------------------------------------------------------------------------
(* TimeSync.  The parameters, and the division it makes.                   *)
LEMMA SizesAre ==
  /\ M \in Nat \ {0} /\ Local \subseteq Mod
  /\ Second \in Nat \ {0} /\ Wrap \in Nat \ {0} /\ Second < Wrap
  /\ Every \in millis /\ Ask \in Nat /\ First \in Nat /\ Slack \in Nat
  /\ millis = 0..(Wrap - 1) /\ 0 \in millis
  BY SizeAssumption, HalfAssumption DEF Wrap, millis

LEMMA Distribute ==
  ASSUME NEW w \in Int, NEW p \in Int, NEW q \in Int
  PROVE  /\ w * (p + q) = w * p + w * q
         /\ w * (p - q) = w * p - w * q
         /\ w * p \in Int /\ w * p = p * w
OBVIOUS

LEMMA Order ==
  ASSUME NEW w \in Nat \ {0}, NEW p \in Int, NEW q \in Int, w * p < w * q
  PROVE  p < q
OBVIOUS

LEMMA Divided ==
  ASSUME NEW a \in Int, NEW w \in Nat \ {0}
  PROVE  /\ a \div w \in Int /\ a % w \in 0..(w - 1)
         /\ a = w * (a \div w) + (a % w)
OBVIOUS

(* A remainder is known by its size.                                       *)
LEMMA Remainder ==
  ASSUME NEW w \in Nat \ {0}, NEW q \in Int, NEW r \in 0..(w - 1)
  PROVE  (w * q + r) % w = r
<1> DEFINE a == w * q + r
<1>1. a \in Int /\ a = w * q + r
  BY Distribute
<1> HIDE DEF a
<1>2. a % w = r
  BY <1>1
<1> QED BY <1>2 DEF a

LEMMA SinceIs ==
  ASSUME NEW t \in millis, NEW then \in millis
  PROVE  /\ Since(then, t) \in 0..(Wrap - 1) /\ Since(then, t) \in Nat
         /\ Since(then, t) \div Second \in Nat
         /\ Since(t, t) = 0 /\ 0 \div Second = 0
<1>1. Since(then, t) \in 0..(Wrap - 1) /\ Since(t, t) = 0
  BY SizesAre DEF Since
<1>2. \A s \in Nat : s \div Second \in Nat
  BY SizesAre
<1>3. 0 \div Second = 0
  BY SizesAre
<1>4. Since(then, t) \in Nat
  BY <1>1
<1> QED BY <1>1, <1>2, <1>3, <1>4

(* Counting seconds changes no time: what is added to the seconds is taken *)
(* from the difference, of which less than a second is left (miTime::Get). *)
LEMMA CountedIs ==
  ASSUME NEW t \in millis, NEW then \in millis, NEW u \in Int
  PROVE  LET s == Since(then, t)
             c == Counted(t, then)
         IN  /\ c \in millis
             /\ Since(c, t) \in 0..(Second - 1)
             /\ Since(c, t) \div Second = 0
             /\ Second * (u + s \div Second) + Since(c, t) = Second * u + s
<1> DEFINE s == Since(then, t)
           c == Counted(t, then)
           q == s \div Second
           r == s % Second
           k == q * Second
<1>1. Second \in Nat \ {0} /\ Second < Wrap /\ Wrap \in Nat /\ t \in Int /\ then \in Int
  BY SizesAre
<1>2. s \in 0..(Wrap - 1) /\ s \in Int /\ q \in Nat
  BY SinceIs
<1>3. r \in 0..(Second - 1) /\ s = Second * q + r
  <2> HIDE DEF s
  <2> QED BY <1>1, <1>2, Divided, Zenon
<1>4. c = Later(then, k) /\ s = IF then <= t THEN t - then ELSE t + Wrap - then
  BY DEF Counted, Since
<1> HIDE DEF s, c, q, r
<1>5. k = Second * q /\ k \in Nat /\ k <= s /\ s - k = r
  BY <1>1, <1>2, <1>3
<1> HIDE DEF k
<1>6. c \in millis /\ Since(c, t) = r
  <2>1. c = IF then + k < Wrap THEN then + k ELSE then + k - Wrap
    BY <1>4 DEF Later
  <2>2. t \in 0..(Wrap - 1) /\ then \in 0..(Wrap - 1)
    BY SizesAre
  <2>3. c \in 0..(Wrap - 1) /\ c \in Int
    BY <1>1, <1>2, <1>4, <1>5, <2>1, <2>2
  <2>4. Since(c, t) = IF c <= t THEN t - c ELSE t + Wrap - c
    BY DEF Since
  <2>5. Since(c, t) = s - k
    <3>1. CASE then + k < Wrap
      BY <1>1, <1>2, <1>4, <1>5, <2>1, <2>2, <2>4, <3>1
    <3>2. CASE ~(then + k < Wrap)
      BY <1>1, <1>2, <1>4, <1>5, <2>1, <2>2, <2>4, <3>2
    <3> QED BY <3>1, <3>2
  <2> QED BY <1>5, <2>3, <2>5, SizesAre
<1>7. r \div Second = 0
  BY <1>1, <1>3
<1>8. Second * (u + q) + r = Second * u + s
  <2>1. Second * (u + q) = Second * u + Second * q /\ Second * u \in Int /\ Second * q \in Int
    BY <1>1, <1>2, Distribute
  <2> QED BY <1>3, <2>1
<1> QED BY <1>3, <1>6, <1>7, <1>8 DEF s, c, q

LEMMA ClockIs ==
  ASSUME TSTypeOK
  PROVE  /\ now \in Nat /\ Clock \in millis
         /\ miTimeS \in Nat /\ miLastUpdatedTimeMs \in millis
         /\ Get \in Nat
         /\ \A i \in Mod : ms[i] \in millis /\ mod[i].incremented \in millis
<1>1. /\ now \in Nat /\ miTimeS \in Nat /\ miLastUpdatedTimeMs \in millis
      /\ \A i \in Mod : ms[i] \in millis /\ mod[i].incremented \in millis
  BY LimitAssumption DEF TSTypeOK
<1>2. Clock \in millis
  <2>1. now \in Int
    BY <1>1
  <2> QED BY <2>1, SizesAre, Divided, Zenon DEF Clock
<1>3. Since(miLastUpdatedTimeMs, Clock) \div Second \in Nat
  BY <1>1, <1>2, SinceIs
<1>4. Get \in Nat
  BY <1>1, <1>3 DEF Get
<1> QED BY <1>1, <1>2, <1>4

(* The next module to be sent to is one with a number after the last one.  *)
LEMMA NextDirectedIs ==
  ASSUME NEW sync, NEW bits, NEW from
  PROVE  NextDirected(sync, bits, from) \in 1..Nobody
<1> DEFINE due == {i \in Mod \ Local : i > from /\ (sync \/ bits[i])}
<1>1. due \in SUBSET Nat /\ due \subseteq 1..Nobody /\ Nobody \in 1..Nobody
  BY SizesAre DEF Mod, Nobody
<1>2. CASE due = {}
  BY <1>1, <1>2 DEF NextDirected
<1>3. CASE due # {}
  <2>1. NextDirected(sync, bits, from) = CHOOSE i \in due : \A j \in due : i <= j
    BY <1>3 DEF NextDirected
  <2> HIDE DEF due
  <2>2. \E i \in due : \A j \in due : i <= j
    <3>1. PICK i \in due : \A j \in due : ~(<<j, i>> \in OpToRel(<, Nat))
      BY <1>1, <1>3, NatLessThanWellFounded, WFMin
    <3>2. \A j \in due : ~(j < i) /\ i \in Nat /\ j \in Nat
      BY <1>1, <3>1 DEF OpToRel
    <3> QED BY <3>2
  <2>3. (CHOOSE i \in due : \A j \in due : i <= j) \in due
    BY <2>2
  <2> QED BY <1>1, <2>1, <2>3
<1> QED BY <1>2, <1>3

LEMMA UpdateIs ==
  ASSUME TSTypeOK, Update
  PROVE  /\ miTimeS' \in Nat /\ miLastUpdatedTimeMs' \in millis
         /\ miLastSyncedMs' \in millis /\ miLastSyncedMs' = miLastSyncedMs
  BY ClockIs, CountedIs DEF Update, TSTypeOK

(* A module, of which some times may have been set.                        *)
ModuleType == [utc : Nat, incremented : millis, received : Nat, missing : BOOLEAN]

LEMMA ModuleSteps ==
  ASSUME NEW m \in ModuleType, NEW t \in millis, NEW u \in Nat
  PROVE  SetTime(m, u, t) \in ModuleType /\ UpdateTime(m, t) \in ModuleType
<1>1. t \in millis /\ m.incremented \in millis /\ m.utc \in Nat
  BY DEF ModuleType, millis
<1>2. SetTime(m, u, t) \in ModuleType
  BY DEF SetTime, ModuleType
<1>3. Elapsed(m, t) \in Nat /\ Counted(t, m.incremented) \in millis
  BY <1>1, SinceIs, CountedIs DEF Elapsed
<1>4. UpdateTime(m, t) \in ModuleType
  <2> DEFINE e == Elapsed(m, t)
             c == Counted(t, m.incremented)
  <2>1. UpdateTime(m, t) =
          IF m.received = 0 THEN [m EXCEPT !.missing = TRUE]
          ELSE [m EXCEPT !.utc = m.utc + e, !.incremented = c,
                         !.missing = (m.missing \/ e > Ask)]
    BY DEF UpdateTime, ModuleType
  <2>2. e \in Nat /\ c \in millis
    BY <1>3
  <2> HIDE DEF e, c
  <2>3. m.utc + e \in Nat /\ (m.missing \/ e > Ask) \in BOOLEAN
    BY <1>1, <2>2
  <2>4. [m EXCEPT !.missing = TRUE] \in ModuleType
    BY DEF ModuleType
  <2>5. [m EXCEPT !.utc = m.utc + e, !.incremented = c, !.missing = (m.missing \/ e > Ask)]
          \in ModuleType
    BY <2>2, <2>3 DEF ModuleType
  <2> QED BY <2>1, <2>4, <2>5
<1> QED BY <1>2, <1>4

LEMMA SendTimesyncType ==
  ASSUME TSTypeOK, NEW heard \in SUBSET Mod, SendTimesync(heard)
  PROVE  /\ miTimeS' \in Nat /\ miLastUpdatedTimeMs' \in millis /\ miLastSyncedMs' \in millis
         /\ mod' \in [Mod -> ModuleType] /\ aligned' \subseteq Mod
<1>1. Update
  BY DEF SendTimesync
<1>2. mod' \in [Mod -> ModuleType]
  <2>1. mod' = [i \in Mod |-> IF i \in heard THEN SetTime(mod[i], Get, ms[i]) ELSE mod[i]]
    BY DEF SendTimesync
  <2>2. Get \in Nat /\ \A i \in Mod : mod[i] \in ModuleType /\ ms[i] \in millis
    BY ClockIs DEF TSTypeOK, ModuleType
  <2>3. \A i \in Mod : SetTime(mod[i], Get, ms[i]) \in ModuleType
    BY <2>2, ModuleSteps
  <2> QED BY <2>1, <2>2, <2>3
<1>3. aligned' \subseteq Mod
  BY DEF SendTimesync, TSTypeOK
<1> QED BY <1>1, <1>2, <1>3, UpdateIs

LEMMA SendNextType ==
  ASSUME TSTypeOK, NEW sync \in BOOLEAN, NEW bits, NEW from,
         NEW heard \in SUBSET Mod, SendNext(sync, bits, from, heard)
  PROVE  /\ miTimeS' \in Nat /\ {miLastUpdatedTimeMs', miLastSyncedMs', last_time_sync'} \subseteq millis
         /\ mod' \in [Mod -> ModuleType] /\ aligned' \subseteq Mod
         /\ at' \in 0..Nobody /\ scheduled' \in BOOLEAN
<1>1. at' \in 1..Nobody /\ at' \in 0..Nobody
  BY NextDirectedIs DEF SendNext
<1>2. scheduled' \in BOOLEAN
  BY DEF SendNext
<1>3. CASE at' = Nobody
  <2>1. Update /\ UNCHANGED <<mod, aligned>> /\ last_time_sync' \in millis
    BY <1>3, ClockIs DEF SendNext, TSTypeOK
  <2> QED BY <1>1, <1>2, <2>1, UpdateIs DEF TSTypeOK, ModuleType
<1>4. CASE at' # Nobody
  <2>1. SendTimesync({at'} \cap heard) /\ last_time_sync' \in millis
    BY <1>4 DEF SendNext, TSTypeOK
  <2>2. {at'} \cap heard \in SUBSET Mod
    OBVIOUS
  <2> QED BY <1>1, <1>2, <2>1, <2>2, SendTimesyncType
<1> QED BY <1>3, <1>4

(* TimeSync.TSTypeOK: clocks and times stay in their words, and           *)
(* broadcast_time goes through the modules in their order.                *)
THEOREM TimeTypeCorrect ==
  TSSpec => []TSTypeOK
<1>1. TSInit => TSTypeOK
  <2> SUFFICES ASSUME TSInit PROVE TSTypeOK
    OBVIOUS
  <2>1. 0 \in millis /\ Nobody \in 0..Nobody /\ 0 \in 0..MaxTime /\ 0 \in 0..MaxRestarts
    BY SizesAre, LimitAssumption DEF Nobody
  <2>2. Started \in ModuleType
    BY <2>1 DEF Started, ModuleType
  <2>3. mod \in [Mod -> ModuleType]
    BY <2>2 DEF TSInit
  <2>4. missing \in [Mod -> BOOLEAN] /\ ms \in [Mod -> millis]
    BY <2>1 DEF TSInit
  <2> QED BY <2>1, <2>3, <2>4 DEF TSInit, TSTypeOK, ModuleType
<1>2. TSTypeOK /\ [TSNext]_(TSvars) => TSTypeOK'
  <2> SUFFICES ASSUME TSTypeOK, [TSNext]_(TSvars) PROVE TSTypeOK'
    OBVIOUS
  <2>1. CASE Tick
    <3>1. now' \in 0..MaxTime
      BY <2>1, LimitAssumption DEF Tick, TSTypeOK
    <3>2. ms' \in [Mod -> millis]
      <4>1. 1 \in 0..Wrap
        BY SizesAre
      <4>2. \A i \in Mod : Later(ms[i], 1) \in millis
        BY <4>1, ClockIs, WordTypes
      <4> QED BY <2>1, <4>2 DEF Tick
    <3> QED BY <2>1, <3>1, <3>2 DEF Tick, TSTypeOK, masterTime, sending, noted
  <2>2. ASSUME NEW error \in -Slack..Slack, ServerAnswers(error) PROVE TSTypeOK'
    <3> DEFINE utc == First + 1 + now \div Second + error
    <3>1. First \in Nat /\ Slack \in Nat /\ now \div Second \in Nat
      BY ClockIs, SizesAre
    <3>2. utc \in Int /\ (utc > First => utc \in Nat)
      BY <3>1
    <3> HIDE DEF utc
    <3>3. \/ /\ utc > First /\ miTimeS' = utc
             /\ miLastUpdatedTimeMs' = Clock /\ miLastSyncedMs' = Clock
             /\ aligned' = {}
          \/ Update /\ UNCHANGED aligned
      BY <2>2 DEF ServerAnswers, utc
    <3>4. miTimeS' \in Nat /\ {miLastUpdatedTimeMs', miLastSyncedMs'} \subseteq millis
      BY <3>2, <3>3, ClockIs, UpdateIs
    <3> QED BY <2>2, <3>3, <3>4 DEF ServerAnswers, TSTypeOK, sending, modules
  <2>3. ASSUME NEW i \in Mod, StatusArrives(i) PROVE TSTypeOK'
    <3>1. mod[i] \in ModuleType /\ ms[i] \in millis
      BY DEF TSTypeOK, ModuleType
    <3>2. UpdateTime(mod[i], ms[i]) \in ModuleType /\ mod[i].missing \in BOOLEAN
      BY <3>1, ModuleSteps DEF ModuleType
    <3> QED BY <2>3, <3>2 DEF StatusArrives, TSTypeOK, ModuleType, masterTime, sending
  <2>4. ASSUME NEW i \in Mod, Restart(i) PROVE TSTypeOK'
    <3>1. 0 \in millis
      BY SizesAre DEF millis
    <3> QED BY <2>4, <3>1, LimitAssumption DEF Restart, TSTypeOK, Started, masterTime, sending
  <2>5. ASSUME NEW heard \in SUBSET Mod, BroadcastTime(heard) PROVE TSTypeOK'
    <3> DEFINE sync == Since(last_time_sync, Clock) >= Every
    <3>1. sync \in BOOLEAN
      OBVIOUS
    <3> HIDE DEF sync
    <3>2. CASE SendNext(sync, missing, 0, heard)
      BY <2>5, <3>1, <3>2, SendNextType DEF BroadcastTime, TSTypeOK, ModuleType
    <3>3. CASE /\ at' = 0 /\ scheduled' = sync
               /\ SendTimesync(Local \cap heard)
               /\ UNCHANGED last_time_sync
      <4>1. Local \cap heard \in SUBSET Mod /\ 0 \in 0..Nobody
        BY SizesAre DEF Nobody
      <4> QED BY <2>5, <3>1, <3>3, <4>1, SendTimesyncType DEF BroadcastTime, TSTypeOK, ModuleType
    <3> QED BY <2>5, <3>2, <3>3 DEF BroadcastTime, sync
  <2>6. ASSUME NEW heard \in SUBSET Mod, AfterSending(heard) PROVE TSTypeOK'
    <3>1. SendNext(scheduled, missing', at, heard) /\ scheduled \in BOOLEAN
      BY <2>6 DEF AfterSending, TSTypeOK
    <3>2. missing' \in [Mod -> BOOLEAN]
      BY <2>6 DEF AfterSending, TSTypeOK
    <3> QED BY <2>6, <3>1, <3>2, SendNextType DEF AfterSending, TSTypeOK, ModuleType
  <2>7. CASE UNCHANGED TSvars
    BY <2>7 DEF TSvars, masterTime, sending, modules, noted, TSTypeOK
  <2> QED BY <2>1, <2>2, <2>3, <2>4, <2>5, <2>6, <2>7 DEF TSNext
<1> QED BY <1>1, <1>2, PTL DEF TSSpec

-----------------------------------------------------------------------------
(* Times in ticks, which counting seconds does not change.                 *)
MasterTicks == Second * miTimeS + Since(miLastUpdatedTimeMs, Clock)
ModuleTicks(m, t) == Second * m.utc + Since(m.incremented, t)

(* The inductive invariant: a module that has the master's time is behind  *)
(* by the part of a second that the master had when it sent the time; and  *)
(* while the master sends it, it has one.                                  *)
HasTime(i) ==
  /\ mod[i].received # 0
  /\ MasterTicks - ModuleTicks(mod[i], ms[i]) \in 0..(Second - 1)
TimeInv ==
  /\ at # Nobody => Get > 0
  /\ \A i \in aligned : HasTime(i)

LEMMA SinceTick ==
  ASSUME NEW t \in millis, NEW then \in millis, Since(then, t) < Wrap - 1
  PROVE  /\ Later(t, 1) \in millis
         /\ Since(then, Later(t, 1)) = Since(then, t) + 1
<1>1. 1 \in 0..Wrap
  BY SizesAre
<1>2. Since(then, t) + 1 < Wrap
  <2>1. Wrap \in Int /\ Since(then, t) \in Int
    BY SizesAre, SinceIs
  <2> QED BY <2>1
<1> QED BY <1>1, <1>2, WordTypes, SinceGrows

LEMMA ClockTick ==
  ASSUME NEW n \in Int
  PROVE  (n + 1) % Wrap = Later(n % Wrap, 1)
<1> DEFINE c == n % Wrap
           q == n \div Wrap
<1>1. Wrap \in Nat \ {0}
  BY SizesAre
<1>2. q \in Int /\ n = Wrap * q + c /\ c \in 0..(Wrap - 1)
  BY <1>1, Divided, Zenon
<1> HIDE DEF c, q
<1>3. CASE c + 1 < Wrap
  <2>1. c + 1 \in 0..(Wrap - 1)
    BY <1>1, <1>2, <1>3
  <2>2. (Wrap * q + (c + 1)) % Wrap = c + 1
    BY <1>1, <1>2, <2>1, Remainder, Zenon
  <2>3. n + 1 = Wrap * q + (c + 1)
    BY <1>1, <1>2, Distribute
  <2> QED BY <1>3, <2>2, <2>3 DEF Later, c
<1>4. CASE ~(c + 1 < Wrap)
  <2>1. c + 1 = Wrap /\ 0 \in 0..(Wrap - 1) /\ q + 1 \in Int
    BY <1>1, <1>2, <1>4
  <2>2. (Wrap * (q + 1) + 0) % Wrap = 0
    BY <1>1, <2>1, Remainder, Zenon
  <2>3. n + 1 = Wrap * (q + 1) + 0
    <3>1. Wrap * (q + 1) = Wrap * q + Wrap * 1 /\ Wrap * 1 = Wrap /\ Wrap * q \in Int
      BY <1>1, <1>2, Distribute
    <3> QED BY <1>1, <1>2, <2>1, <3>1
  <2>4. Later(c, 1) = 0
    BY <1>1, <1>2, <1>4, <2>1 DEF Later
  <2> QED BY <2>2, <2>3, <2>4 DEF c
<1> QED BY <1>3, <1>4

(* The whole seconds in s ticks. *)
LEMMA Whole ==
  ASSUME NEW s \in Nat
  PROVE  /\ s \div Second \in Nat
         /\ Second * (s \div Second) <= s /\ s < Second * (s \div Second) + Second
<1> DEFINE q == s \div Second
           r == s % Second
<1>1. Second \in Nat \ {0} /\ s \in Int
  BY SizesAre
<1>2. q \in Int /\ s = Second * q + r /\ r \in 0..(Second - 1)
  BY <1>1, Divided, Zenon
<1>3. q \in Nat
  BY <1>1
<1> HIDE DEF q, r
<1>4. Second * q \in Int
  BY <1>1, <1>2, Distribute
<1>5. Second * q <= s /\ s < Second * q + Second
  BY <1>1, <1>2, <1>4
<1> QED BY <1>3, <1>5 DEF q

(* Ticks are numbers, and seconds are the whole seconds in them.           *)
LEMMA TicksAre ==
  ASSUME NEW u \in Int, NEW s \in Nat, NEW x, x = u + s \div Second
  PROVE  /\ x \in Int /\ Second * u + s \in Int
         /\ Second * x <= Second * u + s /\ Second * u + s < Second * x + Second
<1> DEFINE q == s \div Second
<1>1. q \in Nat /\ Second * q <= s /\ s < Second * q + Second /\ x = u + q
  BY Whole
<1>2. Second \in Int
  BY SizesAre
<1> HIDE DEF q
<1>3. Second * (u + q) = Second * u + Second * q /\ Second * u \in Int /\ Second * q \in Int
  BY <1>1, <1>2, Distribute
<1> QED BY <1>1, <1>2, <1>3

LEMMA TickTypes ==
  ASSUME TSTypeOK
  PROVE  /\ Since(miLastUpdatedTimeMs, Clock) \in Nat /\ MasterTicks \in Int
         /\ Second * Get <= MasterTicks /\ MasterTicks < Second * Get + Second
         /\ \A i \in Mod :
              /\ Since(mod[i].incremented, ms[i]) \in Nat
              /\ mod[i].utc \in Nat /\ ModuleTicks(mod[i], ms[i]) \in Int
<1>1. Since(miLastUpdatedTimeMs, Clock) \in Nat
  BY ClockIs, SinceIs
<1>2. /\ MasterTicks \in Int
      /\ Second * Get <= MasterTicks /\ MasterTicks < Second * Get + Second
  <2>1. miTimeS \in Int
    BY ClockIs
  <2> QED BY <1>1, <2>1, TicksAre DEF MasterTicks, Get
<1>3. ASSUME NEW i \in Mod
      PROVE  /\ Since(mod[i].incremented, ms[i]) \in Nat
             /\ mod[i].utc \in Nat /\ ModuleTicks(mod[i], ms[i]) \in Int
  <2>1. mod[i].utc \in Nat
    BY DEF TSTypeOK
  <2> DEFINE s == Since(mod[i].incremented, ms[i])
             u == mod[i].utc
  <2>2. s \in Nat
    <3>1. ms[i] \in millis /\ mod[i].incremented \in millis
      BY ClockIs
    <3> QED BY <3>1, SinceIs
  <2>3. ModuleTicks(mod[i], ms[i]) = Second * u + s
    BY DEF ModuleTicks
  <2> HIDE DEF s, u
  <2>4. Second * u + s \in Int
    <3>1. Second \in Int /\ u \in Int
      BY <2>1, SizesAre DEF u
    <3>2. Second * u \in Int
      BY <3>1, Distribute
    <3> QED BY <2>2, <3>2
  <2> QED BY <2>1, <2>2, <2>3, <2>4 DEF s
<1> QED BY <1>1, <1>2, <1>3

LEMMA UpdateKeeps ==
  ASSUME TSTypeOK, Update, UNCHANGED now
  PROVE  /\ MasterTicks' = MasterTicks /\ Get' = Get
         /\ MasterTicks - Second * Get \in 0..(Second - 1)
<1> DEFINE s == Since(miLastUpdatedTimeMs, Clock)
           c == Counted(Clock, miLastUpdatedTimeMs)
           r == Since(c, Clock)
<1>1. miTimeS' = Get /\ miLastUpdatedTimeMs' = c /\ Clock' = Clock
  BY DEF Update, Clock
<1>2. Get = miTimeS + s \div Second /\ Get \in Nat /\ Second \in Nat
  BY ClockIs, SizesAre DEF Get
<1>3. /\ r \in 0..(Second - 1) /\ r \div Second = 0
      /\ Second * (miTimeS + s \div Second) + r = Second * miTimeS + s
  BY ClockIs, CountedIs
<1>4. MasterTicks = Second * miTimeS + s /\ MasterTicks' = Second * miTimeS' + r
  BY <1>1 DEF MasterTicks, Since
<1>5. Get' = miTimeS' + r \div Second
  BY <1>1 DEF Get, Since
<1> HIDE DEF s, c, r
<1>6. MasterTicks = Second * Get + r /\ MasterTicks' = Second * Get + r
  BY <1>1, <1>2, <1>3, <1>4
<1>7. Get' = Get
  BY <1>1, <1>2, <1>3, <1>5
<1>8. Second * Get \in Int
  BY <1>2, Distribute
<1> QED BY <1>3, <1>6, <1>7, <1>8

LEMMA StatusKeeps ==
  ASSUME NEW m \in ModuleType, NEW t \in millis, m.received # 0
  PROVE  /\ ModuleTicks(UpdateTime(m, t), t) = ModuleTicks(m, t)
         /\ UpdateTime(m, t).received = m.received
<1> DEFINE e == Elapsed(m, t)
           c == Counted(t, m.incremented)
           new == UpdateTime(m, t)
<1>1. new.utc = m.utc + e /\ new.incremented = c /\ new.received = m.received
  BY DEF UpdateTime, ModuleType
<1>2. t \in millis /\ m.incremented \in millis /\ m.utc \in Int
  BY DEF ModuleType, millis
<1>3. Second * (m.utc + Since(m.incremented, t) \div Second) + Since(c, t)
        = Second * m.utc + Since(m.incremented, t)
  BY <1>2, CountedIs
<1> QED BY <1>1, <1>3 DEF ModuleTicks, Elapsed

(* Sent times. *)
LEMMA SendKeeps ==
  ASSUME TSTypeOK, Get > 0, \A i \in aligned : HasTime(i),
         NEW heard \in SUBSET Mod, SendTimesync(heard), UNCHANGED <<now, ms>>
  PROVE  Get' = Get /\ \A i \in aligned' : HasTime(i)'
<1>1. Update
  BY DEF SendTimesync
<1>2. /\ MasterTicks' = MasterTicks /\ Get' = Get
      /\ MasterTicks - Second * Get \in 0..(Second - 1)
  BY <1>1, UpdateKeeps
<1>3. ASSUME NEW i \in heard PROVE HasTime(i)'
  <2>1. mod'[i] = SetTime(mod[i], Get, ms[i]) /\ mod[i] \in ModuleType /\ ms'[i] = ms[i]
    BY DEF SendTimesync, TSTypeOK, ModuleType
  <2>2. mod'[i].utc = Get /\ mod'[i].incremented = ms[i] /\ mod'[i].received = Get
    BY <2>1 DEF SetTime, ModuleType
  <2>3. Since(ms[i], ms[i]) = 0
    BY ClockIs, SinceIs
  <2>4. ModuleTicks(mod'[i], ms'[i]) = Second * Get + 0
    BY <2>1, <2>2, <2>3 DEF ModuleTicks
  <2>5. Second * Get \in Int /\ Get \in Nat
    BY ClockIs, Distribute, SizesAre
  <2>6. MasterTicks' - ModuleTicks(mod'[i], ms'[i]) \in 0..(Second - 1)
    BY <1>2, <2>4, <2>5
  <2>7. mod'[i].received # 0
    BY <2>2, <2>5
  <2> QED BY <2>6, <2>7 DEF HasTime
<1>4. ASSUME NEW i \in aligned \ heard PROVE HasTime(i)'
  <2>1. i \in Mod
    BY DEF TSTypeOK
  <2>2. mod'[i] = mod[i] /\ ms'[i] = ms[i]
    BY <2>1 DEF SendTimesync
  <2>3. ModuleTicks(mod'[i], ms'[i]) = ModuleTicks(mod[i], ms[i])
    BY <2>2
  <2> QED BY <1>2, <2>2, <2>3 DEF HasTime
<1>5. aligned' = aligned \cup heard
  BY DEF SendTimesync
<1> QED BY <1>2, <1>3, <1>4, <1>5

LEMMA SameModules ==
  ASSUME TSTypeOK, \A i \in aligned : HasTime(i),
         Update, UNCHANGED <<now, ms, mod, aligned>>
  PROVE  Get' = Get /\ \A i \in aligned' : HasTime(i)'
<1>1. MasterTicks' = MasterTicks /\ Get' = Get
  BY UpdateKeeps
<1>2. ASSUME NEW i \in aligned PROVE HasTime(i)'
  <2>1. ModuleTicks(mod'[i], ms'[i]) = ModuleTicks(mod[i], ms[i])
    BY DEF ModuleTicks, Since
  <2> QED BY <1>1, <2>1 DEF HasTime
<1> QED BY <1>1, <1>2

LEMMA SendNextKeeps ==
  ASSUME TSTypeOK, Get > 0, \A i \in aligned : HasTime(i),
         NEW sync, NEW bits, NEW from, NEW heard \in SUBSET Mod,
         SendNext(sync, bits, from, heard), UNCHANGED <<now, ms>>
  PROVE  TimeInv'
<1>1. CASE at' = Nobody
  <2>1. Update /\ UNCHANGED <<mod, aligned>>
    BY <1>1 DEF SendNext
  <2> QED BY <1>1, <2>1, SameModules DEF TimeInv, Nobody
<1>2. CASE at' # Nobody
  <2>1. SendTimesync({at'} \cap heard) /\ {at'} \cap heard \in SUBSET Mod
    BY <1>2 DEF SendNext
  <2> QED BY <2>1, SendKeeps DEF TimeInv
<1> QED BY <1>1, <1>2

LEMMA TickKeeps ==
  ASSUME TSTypeOK, TimeInv, Tick
  PROVE  TimeInv'
<1> DEFINE s == Since(miLastUpdatedTimeMs, Clock)
<1>1. s \in Nat /\ s + 1 \in Nat
  BY TickTypes
<1>2. Since(miLastUpdatedTimeMs, Clock)' = s + 1
  <2>1. Clock' = Later(Clock, 1)
    <3>1. now \in Int /\ now' = now + 1
      BY ClockIs DEF Tick
    <3> QED BY <3>1, ClockTick DEF Clock
  <2>2. Since(miLastUpdatedTimeMs, Later(Clock, 1)) = s + 1
    BY ClockIs, SinceTick DEF Tick
  <2>3. Since(miLastUpdatedTimeMs, Clock)' = Since(miLastUpdatedTimeMs, Clock')
    BY DEF Tick, masterTime, Since
  <2> QED BY <2>1, <2>2, <2>3
<1>3. MasterTicks' = MasterTicks + 1
  <2>1. MasterTicks = Second * miTimeS + s /\ MasterTicks' = Second * miTimeS + (s + 1)
    BY <1>2 DEF MasterTicks, Tick, masterTime
  <2>2. Second * miTimeS \in Int
    BY ClockIs, Distribute, SizesAre
  <2> HIDE DEF s
  <2> QED BY <1>1, <2>1, <2>2
<1>4. Get <= Get'
  <2> DEFINE q == s \div Second
             p == (s + 1) \div Second
  <2>1. Get = miTimeS + q /\ Get' = miTimeS + p /\ miTimeS \in Nat
    BY <1>2, ClockIs DEF Get, Tick, masterTime
  <2>2. /\ q \in Nat /\ Second * q <= s
        /\ p \in Nat /\ s + 1 < Second * p + Second
    BY <1>1, Whole
  <2>3. Second \in Nat \ {0}
    BY SizesAre
  <2> HIDE DEF p, q, s
  <2>4. Second * (p + 1) = Second * p + Second /\ Second * p \in Int /\ Second * q \in Int
    BY <2>2, <2>3
  <2>5. Second * q < Second * (p + 1)
    BY <1>1, <2>2, <2>3, <2>4
  <2>6. q < p + 1
    BY <2>2, <2>3, <2>5, Order
  <2> QED BY <2>1, <2>2, <2>6
<1>5. ASSUME NEW i \in aligned PROVE HasTime(i)'
  <2>1. i \in Mod /\ mod[i].received # 0 /\ HasTime(i)
    BY DEF TSTypeOK, TimeInv, HasTime
  <2> DEFINE a == Since(mod[i].incremented, ms[i])
  <2>2. a \in Nat /\ ModuleTicks(mod[i], ms[i]) = Second * mod[i].utc + a /\ mod[i].utc \in Nat
    BY <2>1, TickTypes DEF ModuleTicks
  <2>3. ms'[i] = Later(ms[i], 1) /\ mod' = mod /\ a < Wrap - 1
    BY <2>1 DEF Tick
  <2>4. Since(mod[i].incremented, ms'[i]) = a + 1
    BY <2>1, <2>3, ClockIs, SinceTick
  <2>5. ModuleTicks(mod[i], ms[i])' = Second * mod[i].utc + (a + 1)
    BY <2>3, <2>4 DEF ModuleTicks, Since
  <2>6. Second * mod[i].utc \in Int
    BY <2>2, Distribute, SizesAre
  <2> HIDE DEF a
  <2>7. ModuleTicks(mod[i], ms[i])' = ModuleTicks(mod[i], ms[i]) + 1
    BY <2>2, <2>5, <2>6
  <2>8. /\ MasterTicks \in Int /\ ModuleTicks(mod[i], ms[i]) \in Int
        /\ MasterTicks - ModuleTicks(mod[i], ms[i]) \in 0..(Second - 1)
    BY <2>1, TickTypes DEF HasTime
  <2>9. MasterTicks' - ModuleTicks(mod[i], ms[i])' = MasterTicks - ModuleTicks(mod[i], ms[i])
    BY <1>3, <2>7, <2>8
  <2>10. Second' = Second /\ mod'[i].received # 0
    BY <2>1, <2>3
  <2> QED BY <2>8, <2>9, <2>10 DEF HasTime
<1>6. aligned' = aligned /\ at' = at
  BY DEF Tick, noted, sending
<1>7. Get \in Nat /\ Get' \in Int
  <2>1. Get' = miTimeS + (s + 1) \div Second /\ miTimeS \in Nat
    BY <1>2, ClockIs DEF Get, Tick, masterTime
  <2>2. (s + 1) \div Second \in Nat
    BY <1>1, Whole
  <2> QED BY <2>1, <2>2, ClockIs
<1> QED BY <1>4, <1>5, <1>6, <1>7 DEF TimeInv, Nobody

(* TimeSync.ModuleWithinASecond: a module that has got the time of the     *)
(* master stays less than a second behind it, for clocks of any size and   *)
(* through any number of their rollovers, however irregularly either side  *)
(* counts its seconds (miTime::Update, update_time), until the master's    *)
(* clock is set anew or the module is restarted.                           *)
THEOREM WithinASecondCorrect ==
  TSSpec => []ModuleWithinASecond
<1>1. TSInit => TimeInv
  BY DEF TSInit, TimeInv
<1>2. TSTypeOK /\ TimeInv /\ [TSNext]_(TSvars) => TimeInv'
  <2> SUFFICES ASSUME TSTypeOK, TimeInv, [TSNext]_(TSvars) PROVE TimeInv'
    OBVIOUS
  <2>0. (\A i \in aligned : HasTime(i)) /\ (at # Nobody => Get > 0)
    BY DEF TimeInv
  <2>1. CASE Tick
    BY <2>1, TickKeeps
  <2>2. ASSUME NEW error \in -Slack..Slack, ServerAnswers(error) PROVE TimeInv'
    <3>1. at' = Nobody /\ UNCHANGED <<now, ms, mod>>
      BY <2>2 DEF ServerAnswers, sending, modules
    <3>2. CASE aligned' = {}
      BY <3>1, <3>2 DEF TimeInv, Nobody
    <3>3. CASE Update /\ UNCHANGED aligned
      BY <2>0, <3>1, <3>3, SameModules DEF TimeInv, Nobody
    <3> QED BY <2>2, <3>2, <3>3 DEF ServerAnswers
  <2>3. ASSUME NEW i \in Mod, StatusArrives(i) PROVE TimeInv'
    <3>1. /\ UNCHANGED <<now, miTimeS, miLastUpdatedTimeMs, ms, at, aligned>>
          /\ mod' = [mod EXCEPT ![i] = UpdateTime(mod[i], ms[i])]
      BY <2>3 DEF StatusArrives, masterTime, sending
    <3>2. MasterTicks' = MasterTicks /\ Get' = Get /\ Nobody' = Nobody
      BY <3>1 DEF MasterTicks, Get, Clock, Since, Nobody
    <3>3. ASSUME NEW j \in aligned PROVE HasTime(j)'
      <4>1. /\ j \in Mod /\ mod[j].received # 0 /\ HasTime(j)
            /\ mod \in [Mod -> ModuleType] /\ ms[j] \in millis
        BY <2>0 DEF TSTypeOK, HasTime, ModuleType
      <4>2. CASE j # i
        <5>1. mod'[j] = mod[j] /\ ms'[j] = ms[j]
          BY <3>1, <4>1, <4>2
        <5>2. ModuleTicks(mod'[j], ms'[j]) = ModuleTicks(mod[j], ms[j])
          BY <5>1
        <5> QED BY <3>2, <4>1, <5>1, <5>2 DEF HasTime
      <4>3. CASE j = i
        <5>1. mod'[j] = UpdateTime(mod[j], ms[j]) /\ ms'[j] = ms[j] /\ mod[j] \in ModuleType
          BY <3>1, <4>1, <4>3
        <5>2. /\ ModuleTicks(mod'[j], ms'[j]) = ModuleTicks(mod[j], ms[j])
              /\ mod'[j].received = mod[j].received
          BY <4>1, <5>1, StatusKeeps
        <5> QED BY <3>2, <4>1, <5>2 DEF HasTime
      <4> QED BY <4>2, <4>3
    <3> QED BY <2>0, <3>1, <3>2, <3>3 DEF TimeInv
  <2>4. ASSUME NEW i \in Mod, Restart(i) PROVE TimeInv'
    <3>1. /\ UNCHANGED <<now, miTimeS, miLastUpdatedTimeMs, at>> /\ aligned' = aligned \ {i}
          /\ \A j \in Mod \ {i} : mod'[j] = mod[j] /\ ms'[j] = ms[j]
      BY <2>4 DEF Restart, masterTime, sending, TSTypeOK
    <3>2. MasterTicks' = MasterTicks /\ Get' = Get /\ Nobody' = Nobody
      BY <3>1 DEF MasterTicks, Get, Clock, Since, Nobody
    <3>3. ASSUME NEW j \in aligned \ {i} PROVE HasTime(j)'
      <4>1. mod'[j] = mod[j] /\ ms'[j] = ms[j]
        BY <3>1 DEF TSTypeOK
      <4>2. ModuleTicks(mod'[j], ms'[j]) = ModuleTicks(mod[j], ms[j])
        BY <4>1
      <4> QED BY <2>0, <3>2, <4>1, <4>2 DEF HasTime
    <3> QED BY <2>0, <3>1, <3>2, <3>3 DEF TimeInv
  <2>5. ASSUME NEW heard \in SUBSET Mod, BroadcastTime(heard) PROVE TimeInv'
    <3>1. Get > 0 /\ UNCHANGED <<now, ms>>
      BY <2>5, ClockIs, SizesAre DEF BroadcastTime, IsSynced
    <3>2. CASE SendTimesync(Local \cap heard)
      <4>1. Local \cap heard \in SUBSET Mod
        OBVIOUS
      <4> QED BY <2>0, <3>1, <3>2, <4>1, SendKeeps DEF TimeInv
    <3>3. CASE \E sync : SendNext(sync, missing, 0, heard)
      BY <2>0, <3>1, <3>3, SendNextKeeps
    <3> QED BY <2>5, <3>2, <3>3 DEF BroadcastTime
  <2>6. ASSUME NEW heard \in SUBSET Mod, AfterSending(heard) PROVE TimeInv'
    <3>1. Get > 0 /\ UNCHANGED <<now, ms>> /\ SendNext(scheduled, missing', at, heard)
      BY <2>0, <2>6 DEF AfterSending
    <3> QED BY <2>0, <3>1, SendNextKeeps
  <2>7. CASE UNCHANGED TSvars
    <3>1. UNCHANGED <<now, miTimeS, miLastUpdatedTimeMs, at, ms, mod, aligned>>
      BY <2>7 DEF TSvars, masterTime, sending, modules, noted
    <3>2. MasterTicks' = MasterTicks /\ Get' = Get /\ Nobody' = Nobody
      BY <3>1 DEF MasterTicks, Get, Clock, Since, Nobody
    <3>3. \A i \in aligned : ModuleTicks(mod'[i], ms'[i]) = ModuleTicks(mod[i], ms[i])
      BY <3>1
    <3> QED BY <2>0, <3>1, <3>2, <3>3 DEF TimeInv, HasTime
  <2> QED BY <2>1, <2>2, <2>3, <2>4, <2>5, <2>6, <2>7 DEF TSNext
<1>3. TSTypeOK /\ TimeInv => ModuleWithinASecond
  <2> SUFFICES ASSUME TSTypeOK, TimeInv, NEW i \in aligned
               PROVE  Get - (mod[i].utc + Elapsed(mod[i], ms[i])) \in {0, 1}
    BY DEF ModuleWithinASecond
  <2> DEFINE a == Since(mod[i].incremented, ms[i])
             x == mod[i].utc + Elapsed(mod[i], ms[i])
             u == ModuleTicks(mod[i], ms[i])
  <2>1. i \in Mod /\ MasterTicks - u \in 0..(Second - 1)
    BY DEF TSTypeOK, TimeInv, HasTime
  <2>2. /\ x \in Int /\ u \in Int
        /\ Second * x <= u /\ u < Second * x + Second
    <3>1. mod[i].utc \in Int /\ a \in Nat /\ x = mod[i].utc + a \div Second
      BY <2>1, TickTypes DEF Elapsed
    <3>2. u = Second * mod[i].utc + a
      BY DEF ModuleTicks
    <3> HIDE DEF a, x, u
    <3> QED BY <3>1, <3>2, TicksAre
  <2>3. /\ Get \in Int /\ MasterTicks \in Int
        /\ Second * Get <= MasterTicks /\ MasterTicks < Second * Get + Second
    BY TickTypes, ClockIs
  <2>4. Second \in Nat \ {0}
    BY SizesAre
  <2> HIDE DEF x, u
  <2>5. /\ Second * (Get + 1) = Second * Get + Second
        /\ Second * (x + 2) = Second * x + Second + Second
        /\ Second * Get \in Int /\ Second * x \in Int
    <3>1. Second * 1 = Second /\ Second * 2 = Second + Second
      BY <2>4
    <3> QED BY <2>2, <2>3, <2>4, <3>1, Distribute
  <2>6. Second * x < Second * (Get + 1) /\ Second * Get < Second * (x + 2)
    BY <2>1, <2>2, <2>3, <2>4, <2>5
  <2>7. x < Get + 1 /\ Get < x + 2
    BY <2>2, <2>3, <2>4, <2>6, Order
  <2>8. Get - x \in {0, 1}
    BY <2>2, <2>3, <2>7
  <2> QED BY <2>8 DEF x
<1> QED BY <1>1, <1>2, <1>3, TimeTypeCorrect, PTL DEF TSSpec
=============================================================================
