---------------------------- MODULE SamplingProofs ----------------------------
(***************************************************************************)
(* Proofs about Sampling: for any number of scan columns, any intervals    *)
(* and any number of requests, samples are made neither too early nor too  *)
(* late and are marked for all finer resolutions, and a row that is stored *)
(* without trouble is the one of its transfer.                             *)
(***************************************************************************)
EXTENDS Sampling, TLAPS

(* An age grows with time, and an order of two ages is kept. *)
LEMMA OlderFacts ==
  ASSUME NEW a \in 0..MaxAge, NEW b \in 0..MaxAge
  PROVE  /\ Older(a, 1) \in 0..MaxAge /\ Older(a, 1) # Never
         /\ a <= b => Older(a, 1) <= Older(b, 1)
         /\ \A n \in Nat \ {0} : a < n + b => Older(a, 1) < n + Older(b, 1)
BY BoundAssumption DEF Older, Never

(* The times that set_scan_columns starts from and those it leaves. *)
LEMMA TimesType ==
  ASSUME TypeOK
  PROVE  /\ Started(since) \in [Level -> 0..MaxAge \cup {Never}]
         /\ Marked(Started(since)) \in [Level -> 0..MaxAge \cup {Never}]
         /\ Due(Started(since)) \subseteq Level
BY BoundAssumption DEF TypeOK, Started, Marked, Due

(* A level is due only if its time was set and its interval has passed. *)
LEMMA DueFacts ==
  ASSUME TypeOK, NEW i \in Due(Started(since))
  PROVE  i \in Level /\ since[i] # Never /\ since[i] >= Interval[i]
<1>1. i \in Level /\ i \in 1..i /\ Started(since)[i] >= Interval[i]
  BY IntervalAssumption DEF Due, Level
<1>2. Interval[i] > 0
  BY <1>1, IntervalAssumption
<1> QED BY <1>1, <1>2, IntervalAssumption DEF Started, Never, TypeOK

-----------------------------------------------------------------------------
(* Sampling.TypeOK holds in every reachable state, for all parameters. *)
THEOREM TypeCorrect == Spec => []TypeOK
<1> USE IntervalAssumption, PartsAssumption, BoundAssumption
<1>0. /\ 0 \in 0..MaxAge /\ MaxAge \in 0..MaxAge /\ 0 \in 0..MaxRestarts
      /\ 0 \in 0..(Parts + 1) /\ 1 \in 0..(Parts + 1)
      /\ \A n \in Part : n + 1 \in 0..(Parts + 1)
  BY DEF Part
<1>1. Init => TypeOK
  BY <1>0 DEF Init, TypeOK
<1>2. TypeOK /\ [Next]_vars => TypeOK'
  <2> SUFFICES ASSUME TypeOK, [Next]_vars PROVE TypeOK'
    OBVIOUS
  <2>1. CASE GetTime
    <3>1. since' \in [Level -> 0..MaxAge \cup {Never}] /\ idle' \in 0..MaxAge
      BY <1>0, <2>1 DEF GetTime, TypeOK
    <3> QED BY <2>1, <3>1 DEF GetTime, TypeOK, server, transfer
  <2>2. CASE Compose
    <3>1. scan' \subseteq Level /\ since' \in [Level -> 0..MaxAge \cup {Never}]
      BY <2>2, TimesType DEF Compose
    <3>2. made' \in [Level -> 0..MaxAge]
      BY <1>0, <2>2 DEF Compose, TypeOK
    <3>3. misdated' \subseteq Level
      BY <2>2 DEF Compose, TypeOK
    <3> QED BY <1>0, <2>2, <3>1, <3>2, <3>3 DEF Compose, TypeOK, server
  <2>3. ASSUME NEW connected \in BOOLEAN, Send(connected) PROVE TypeOK'
    <3>1. next \in Part /\ next' \in 0..(Parts + 1)
      BY <1>0, <2>3 DEF Send
    <3>2. /\ posts' \subseteq Part /\ sent' \subseteq Part
          /\ disturbed' = disturbed \/ disturbed' = TRUE
      BY <2>3, <3>1 DEF Send, TypeOK
    <3> QED BY <2>3, <3>1, <3>2 DEF Send, TypeOK, ages
  <2>4. ASSUME NEW connected \in BOOLEAN, Store(connected) PROVE TypeOK'
    BY <2>4 DEF Store, TypeOK, ages, transfer
  <2>5. CASE Skip
    BY <2>5 DEF Skip, TypeOK, Part, server, ages, transfer
  <2>6. ASSUME NEW p \in Part, Keep(p) PROVE TypeOK'
    BY <2>6 DEF Keep, TypeOK, master, ages
  <2>7. ASSUME NEW p \in Part, Lose(p) PROVE TypeOK'
    BY <2>7 DEF Lose, TypeOK, master, ages
  <2>8. CASE StoreRow
    BY <2>8 DEF StoreRow, TypeOK, master, ages
  <2>9. CASE LoseSnapshot
    BY <2>9 DEF LoseSnapshot, TypeOK, master, ages, transfer
  <2>10. CASE Tick
    <3>1. \A i \in Level : since[i] # Never => Older(since[i], 1) \in 0..MaxAge
      BY OlderFacts DEF TypeOK
    <3>2. Older(idle, 1) \in 0..MaxAge /\ \A i \in Level : Older(made[i], 1) \in 0..MaxAge
      BY OlderFacts DEF TypeOK
    <3> QED BY <2>10, <3>1, <3>2 DEF Tick, TypeOK, server, transfer
  <2>11. CASE Restart
    <3>1. restarts' \in 0..MaxRestarts
      BY <2>11 DEF Restart, TypeOK
    <3> QED BY <1>0, <2>11, <3>1 DEF Restart, TypeOK, server, transfer
  <2>12. CASE UNCHANGED vars
    BY <2>12 DEF vars, master, server, ages, transfer, TypeOK
  <2> QED BY <2>1, <2>2, <2>3, <2>4, <2>5, <2>6, <2>7, <2>8, <2>9, <2>10, <2>11, <2>12 DEF Next
<1> QED BY <1>1, <1>2, PTL DEF Spec

(* The times, their clock and their history change in four actions only.  *)
LEMMA TimesChange ==
  ASSUME [Next]_vars
  PROVE  \/ Compose \/ Tick \/ Restart \/ GetTime
         \/ UNCHANGED <<since, ages>> /\ (timed => timed')
BY DEF Next, Send, Store, Skip, Keep, Lose, StoreRow, LoseSnapshot,
       vars, master, server, ages, transfer

-----------------------------------------------------------------------------
(* All times are noted for the first time by the same transfer.            *)
AllOrNone == \A i, j \in Level : since[i] = Never => since[j] = Never

LEMMA StepTimes ==
  ASSUME TypeOK, TimesInv, AllOrNone, [Next]_vars
  PROVE  TimesInv' /\ AllOrNone'
<1>1. CASE Compose
  <2>1. \A i \in Level : since'[i] = IF i \in Due(Started(since)) THEN 0 ELSE Started(since)[i]
    BY <1>1 DEF Compose, Marked
  <2>2. \A i \in Level : Started(since)[i] = IF since[i] = Never /\ timed THEN 0 ELSE since[i]
    BY DEF Started
  <2>3. /\ timed' = timed /\ misdated' = misdated \ Due(Started(since))
        /\ \A i \in Level : made'[i] = IF i \in Due(Started(since)) THEN 0 ELSE made[i]
    BY <1>1 DEF Compose
  <2>4. \A i \in Level : i \in Due(Started(since)) => since[i] # Never
    BY DueFacts
  <2>5. \A i \in Level : made[i] \in 0..MaxAge
    BY DEF TypeOK
  <2>6. TimesInv'
    BY <2>1, <2>2, <2>3, <2>4, <2>5 DEF TimesInv, Never
  <2>7. AllOrNone'
    BY <2>1, <2>2, <2>4 DEF TimesInv, AllOrNone, Never
  <2> QED BY <2>6, <2>7
<1>2. CASE Tick
  <2>1. \A i \in Level : since[i] # Never =>
          /\ since[i] \in 0..MaxAge /\ made[i] \in 0..MaxAge
          /\ Older(since[i], 1) # Never
          /\ since[i] <= made[i] => Older(since[i], 1) <= Older(made[i], 1)
    BY OlderFacts DEF TypeOK
  <2>2. \A i \in Level : /\ since'[i] = IF since[i] = Never THEN Never ELSE Older(since[i], 1)
                         /\ made'[i] = Older(made[i], 1)
    BY <1>2 DEF Tick
  <2>3. timed' = TRUE /\ misdated' = misdated
    BY <1>2 DEF Tick
  <2> QED BY <2>1, <2>2, <2>3 DEF TimesInv, AllOrNone
<1>3. CASE Restart
  BY <1>3 DEF Restart, TimesInv, AllOrNone
<1>4. CASE GetTime
  BY <1>4, BoundAssumption DEF GetTime, TimesInv, AllOrNone, Never
<1>5. CASE UNCHANGED <<since, ages>> /\ (timed => timed')
  BY <1>5 DEF TimesInv, AllOrNone, ages
<1> QED BY <1>1, <1>2, <1>3, <1>4, <1>5, TimesChange

(* Sampling.TimesInv, and that times are noted together, for all           *)
(* parameters: a time is never before the last sample of its level or the  *)
(* start, unless it was noted before the server's time was there.          *)
THEOREM TimesCorrect == Spec => [](TimesInv /\ AllOrNone)
<1>1. Init => TimesInv /\ AllOrNone
  BY DEF Init, TimesInv, AllOrNone
<1>2. TypeOK /\ TimesInv /\ AllOrNone /\ [Next]_vars => TimesInv' /\ AllOrNone'
  BY StepTimes
<1> QED BY <1>1, <1>2, TypeCorrect, PTL DEF Spec

(* Sampling.SamplesApart: samples of a level are at least its interval     *)
(* apart, from each other and from a start of the master, for all          *)
(* intervals and any number of restarts, except for the one that is made   *)
(* because the clock was set after the time of the level was noted.        *)
THEOREM SamplesAreApart == Spec => SamplesApart
<1>1. ASSUME TypeOK, TimesInv, Compose, NEW i \in scan'
      PROVE  made[i] >= Interval[i] \/ i \in misdated
  <2>1. i \in Due(Started(since))
    BY <1>1 DEF Compose
  <2>2. i \in Level /\ since[i] # Never /\ since[i] >= Interval[i]
    BY <1>1, <2>1, DueFacts
  <2>3. since[i] <= made[i] \/ i \in misdated
    BY <1>1, <2>2 DEF TimesInv
  <2>4. since[i] \in Int /\ made[i] \in Int /\ Interval[i] \in Int
    BY <1>1, <2>2, IntervalAssumption DEF TypeOK, Never
  <2> QED BY <2>2, <2>3, <2>4
<1>2. TypeOK /\ TimesInv /\ [Next]_vars => [Compose => \A i \in scan' : made[i] >= Interval[i] \/ i \in misdated]_vars
  BY <1>1
<1> QED BY <1>2, TypeCorrect, TimesCorrect, PTL DEF Spec, SamplesApart

-----------------------------------------------------------------------------
LEMMA ComposeInTime ==
  ASSUME TypeOK, TimesInv, AllOrNone, SampledInTime, Compose
  PROVE  SampledInTime'
<1> DEFINE times == Started(since)
           due == Due(times)
<1>1. idle' = 0 /\ \A i \in Level : since'[i] = IF i \in due THEN 0 ELSE times[i]
  BY DEF Compose, Marked
<1>2. \A i \in Level : times[i] = IF since[i] = Never /\ timed THEN 0 ELSE since[i]
  BY DEF Started
<1>3. \A i \in Level : Interval[i] \in Nat \ {0} /\ times[i] \in 0..MaxAge \cup {Never}
  BY IntervalAssumption, TimesType
<1> SUFFICES ASSUME NEW i \in Level, since'[i] # Never
             PROVE  since'[i] < Interval[i] + (IF i = 1 THEN idle' ELSE since'[i - 1])
  BY DEF SampledInTime
<1>4. i # 1 => i - 1 \in Level
  BY IntervalAssumption DEF Level
<1>5. \A j \in Level : since'[j] \in 0..MaxAge
  <2>1. timed
    BY <1>1, <1>2, DueFacts DEF TimesInv, Never
  <2> QED BY <1>1, <1>2, <1>3, <2>1, BoundAssumption DEF Never
<1>6. CASE since'[i] < Interval[i]
  BY <1>1, <1>3, <1>4, <1>5, <1>6
<1>7. CASE since'[i] >= Interval[i]
  <2>1. i \notin due /\ since'[i] = times[i] /\ times[i] >= Interval[i]
    BY <1>1, <1>3, <1>7
  <2>2. PICK j \in 1..i : ~(times[j] >= Interval[j])
    BY <2>1 DEF Due
  <2>3. i # 1 /\ j \in 1..(i - 1)
    BY <2>1, <2>2, IntervalAssumption DEF Level
  <2>4. i - 1 \notin due /\ since'[i - 1] = times[i - 1]
    BY <1>1, <1>4, <2>2, <2>3 DEF Due
  <2>5. since[i] # Never /\ times[i] = since[i]
    BY <1>2, <1>3, <1>7, <2>1 DEF Never
  <2>6. times[i - 1] = since[i - 1]
    BY <1>2, <1>4, <2>3, <2>5 DEF AllOrNone
  <2>7. since[i] < Interval[i] + since[i - 1]
    BY <2>3, <2>5 DEF SampledInTime
  <2> QED BY <2>1, <2>3, <2>4, <2>5, <2>6, <2>7
<1> QED BY <1>3, <1>5, <1>6, <1>7

LEMMA TickInTime ==
  ASSUME TypeOK, AllOrNone, SampledInTime, Tick
  PROVE  SampledInTime'
<1> SUFFICES ASSUME NEW i \in Level, since'[i] # Never
             PROVE  since'[i] < Interval[i] + (IF i = 1 THEN idle' ELSE since'[i - 1])
  BY DEF SampledInTime
<1>1. since[i] # Never /\ since[i] \in 0..MaxAge /\ since'[i] = Older(since[i], 1)
  BY DEF Tick, TypeOK
<1>2. Interval[i] \in Nat \ {0}
  BY IntervalAssumption
<1>3. CASE i = 1
  <2>1. since[i] < Interval[i] + idle /\ idle \in 0..MaxAge /\ idle' = Older(idle, 1)
    BY <1>1, <1>3 DEF SampledInTime, Tick, TypeOK
  <2> QED BY <1>1, <1>2, <1>3, <2>1, OlderFacts
<1>4. CASE i # 1
  <2>1. i - 1 \in Level
    BY <1>4, IntervalAssumption DEF Level
  <2>2. since[i - 1] # Never
    BY <1>1, <2>1 DEF AllOrNone
  <2>3. since[i - 1] \in 0..MaxAge /\ since'[i - 1] = Older(since[i - 1], 1)
    BY <2>1, <2>2 DEF Tick, TypeOK
  <2>4. since[i] < Interval[i] + since[i - 1]
    BY <1>1, <1>4 DEF SampledInTime
  <2> QED BY <1>1, <1>2, <1>4, <2>3, <2>4, OlderFacts
<1> QED BY <1>3, <1>4

LEMMA GetTimeInTime ==
  ASSUME AllOrNone, GetTime
  PROVE  SampledInTime'
<1> SUFFICES ASSUME NEW i \in Level, since'[i] # Never
             PROVE  since'[i] < Interval[i] + (IF i = 1 THEN idle' ELSE since'[i - 1])
  BY DEF SampledInTime
<1>1. since'[i] = MaxAge /\ idle' = MaxAge /\ Interval[i] \in Nat \ {0} /\ MaxAge \in Nat
  BY IntervalAssumption, BoundAssumption DEF GetTime
<1>2. i # 1 => since'[i - 1] = MaxAge
  <2>1. i # 1 => i - 1 \in Level
    BY IntervalAssumption DEF Level
  <2> QED BY <2>1 DEF GetTime, AllOrNone
<1> QED BY <1>1, <1>2

(* Sampling.SampledInTime: a level is late by no more than the next finer  *)
(* one, for any number of levels and all intervals.                        *)
THEOREM InTime == Spec => []SampledInTime
<1>1. Init => SampledInTime
  BY DEF Init, SampledInTime
<1>2. TypeOK /\ TimesInv /\ AllOrNone /\ SampledInTime /\ [Next]_vars => SampledInTime'
  <2> SUFFICES ASSUME TypeOK, TimesInv, AllOrNone, SampledInTime, [Next]_vars
               PROVE  SampledInTime'
    OBVIOUS
  <2>1. CASE Restart
    BY <2>1 DEF Restart, SampledInTime
  <2>2. CASE UNCHANGED <<since, ages>>
    BY <2>2 DEF SampledInTime, ages
  <2> QED BY <2>1, <2>2, ComposeInTime, TickInTime, GetTimeInTime, TimesChange
<1> QED BY <1>1, <1>2, TypeCorrect, TimesCorrect, PTL DEF Spec

-----------------------------------------------------------------------------
(* Sampling.Nested: a row of a level is one of all finer levels.           *)
THEOREM NestedCorrect == Spec => []Nested
<1>1. Init => Nested
  BY DEF Init, Nested
<1>2. TypeOK /\ Nested /\ [Next]_vars => Nested'
  <2> SUFFICES ASSUME TypeOK, Nested, [Next]_vars PROVE Nested'
    OBVIOUS
  <2>1. CASE Compose
    <3>1. ASSUME NEW i \in Due(Started(since)) \ {1} PROVE i - 1 \in Due(Started(since))
      BY IntervalAssumption DEF Due, Level
    <3> QED BY <2>1, <3>1 DEF Compose, Nested, server
  <2>2. ASSUME NEW p \in Part, Keep(p) PROVE Nested'
    BY <2>2 DEF Keep, Nested, master
  <2>3. CASE UNCHANGED <<scan, current>>
    BY <2>3 DEF Nested
  <2>4. \/ Compose \/ (\E p \in Part : Keep(p)) \/ UNCHANGED <<scan, current>>
    BY DEF Next, GetTime, Send, Store, Skip, Lose, StoreRow, LoseSnapshot, Tick, Restart,
           vars, master, server
  <2> QED BY <2>1, <2>2, <2>3, <2>4
<1> QED BY <1>1, <1>2, TypeCorrect, PTL DEF Spec

(* What was sent is on its way or arrived, unless something went wrong,    *)
(* and the first request is among it before a row is asked for.            *)
RowInv ==
  /\ ~disturbed => sent \subseteq fresh \cup posts
  /\ ~disturbed /\ (next > 1 \/ snapshot) => 1 \in sent
  /\ 1 \in fresh => current = scan

LEMMA StepRow ==
  ASSUME TypeOK, RowInv, [Next]_vars
  PROVE  RowInv'
<1> USE PartsAssumption
<1>1. CASE GetTime
  BY <1>1 DEF GetTime, RowInv, server, transfer
<1>2. CASE Compose
  BY <1>2 DEF Compose, RowInv, server
<1>3. ASSUME NEW connected \in BOOLEAN, Send(connected) PROVE RowInv'
  <2>1. next \in Part /\ (next = 1 \/ next > 1)
    BY <1>3 DEF Send, Part
  <2>2. CASE ~connected
    BY <1>3, <2>2 DEF Send, RowInv
  <2>3. CASE connected
    BY <1>3, <2>1, <2>3 DEF Send, RowInv
  <2> QED BY <2>2, <2>3
<1>4. ASSUME NEW connected \in BOOLEAN, Store(connected) PROVE RowInv'
  BY <1>4 DEF Store, RowInv, transfer
<1>5. CASE Skip
  BY <1>5 DEF Skip, RowInv, Part, server, transfer
<1>6. ASSUME NEW p \in Part, Keep(p) PROVE RowInv'
  BY <1>6 DEF Keep, RowInv, master
<1>7. ASSUME NEW p \in Part, Lose(p) PROVE RowInv'
  BY <1>7 DEF Lose, RowInv, master
<1>8. CASE StoreRow
  BY <1>8 DEF StoreRow, RowInv, master
<1>9. CASE LoseSnapshot
  BY <1>9 DEF LoseSnapshot, RowInv, master, transfer
<1>10. CASE Tick
  BY <1>10 DEF Tick, RowInv, server, transfer
<1>11. CASE Restart
  BY <1>11 DEF Restart, RowInv, server, transfer
<1>12. CASE UNCHANGED vars
  BY <1>12 DEF vars, master, server, transfer, RowInv
<1> QED BY <1>1, <1>2, <1>3, <1>4, <1>5, <1>6, <1>7, <1>8, <1>9, <1>10, <1>11, <1>12 DEF Next

(* Sampling.RowsOfThisTransfer: if no request of a transfer is lost or     *)
(* overtaken, its row has its columns and all values that were sent.       *)
THEOREM RowsCorrect == Spec => RowsOfThisTransfer
<1>1. Init => RowInv
  BY DEF Init, RowInv
<1>2. TypeOK /\ RowInv /\ [Next]_vars => RowInv'
  BY StepRow
<1>3. RowInv /\ [Next]_vars
        => [StoreRow /\ ~disturbed' => current = scan /\ sent \subseteq fresh]_vars
  BY DEF StoreRow, RowInv
<1> QED BY <1>1, <1>2, <1>3, TypeCorrect, PTL DEF Spec, RowsOfThisTransfer
=============================================================================
