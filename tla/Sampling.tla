------------------------------ MODULE Sampling ------------------------------
(***************************************************************************)
(* How the values of modules get into the history on the web server.       *)
(*                                                                         *)
(* In each transfer the master posts the values, which the server keeps as *)
(* the current ones, and then asks it to store a row with all of them.     *)
(* Scan columns mark the rows of coarser resolutions; the master knows for *)
(* each resolution when it marked a row last, but not whether that arrived.*)
(*                                                                         *)
(* The values go in one request, or in one for each module if the master   *)
(* has little memory; what is in a request is its part of the values.      *)
(* Times are represented by their age on the clock of the master, which    *)
(* counts seconds from its start, until the server's time makes all times  *)
(* noted before older than any interval.  (With MI_USE_SYSTEMTIME it comes *)
(* at once.)  Later corrections, of what the clock has drifted, are left   *)
(* out.  The server handles or loses the requests of a transfer before the *)
(* next one, but not always in their order.                                *)
(***************************************************************************)
EXTENDS Integers

CONSTANTS
  K, Interval,    \* Interval[1..K] of the scan columns: 1 min, ..., 1 day
  Parts,          \* requests in which the values go
  MaxAge,         \* bound on ages, from which on they are not counted
  MaxRestarts     \* bound on restarts of the master

Level == 1..K
Part == 1..Parts

ASSUME IntervalAssumption == K \in Nat \ {0} /\ Interval \in [Level -> Nat \ {0}]
ASSUME PartsAssumption == Parts \in Nat \ {0}
ASSUME BoundAssumption ==
  /\ MaxRestarts \in Nat /\ MaxAge \in Nat
  /\ \A i \in Level : Interval[i] <= MaxAge

VARIABLES
  timed, synced,  \* master: miTime::Get() is not 0; is the server's time
  since,          \* master: age of last_scan_times.times[i], Never if that is 0
  scan,           \* master: scan columns of this transfer
  next,           \* master: the next request, 0 between transfers
  posts,          \* parts on their way to set_currentvalues.php
  snapshot,       \* a request for store_currentvalues.php is on its way
  current,        \* server: scan columns in the table currentvalues
  idle,           \* history: age of the last transfer, on the clock
  made,           \* history: age of the last sample of each level, or of
                  \* the start of the master
  misdated,       \* history: levels whose time was noted before the clock
                  \* was set, and is taken for one of the set clock
  sent, fresh,    \* history: parts sent; parts in currentvalues that are
                  \* of this transfer
  disturbed,      \* history: a request was lost or overtaken in this transfer
  restarts        \* history: restarts of the master

master == <<timed, synced, since, scan, next>>
server == <<posts, snapshot, current>>
ages == <<idle, made, misdated>>
transfer == <<sent, fresh, disturbed>>
vars == <<master, server, ages, transfer, restarts>>

Never == -1
Older(age, n) == IF age + n < MaxAge THEN age + n ELSE MaxAge

-----------------------------------------------------------------------------
(* set_scan_columns.                                                       *)

(* "Do not sample at startup, init time array to now".  Deviation: times   *)
(* that are 0 are left.                                                    *)
Started_Not(times) == [i \in Level |-> IF times[i] = Never /\ timed THEN MaxAge ELSE times[i]]
Started(times) == [i \in Level |-> IF times[i] = Never /\ timed THEN 0 ELSE times[i]]

(* The columns that are set: a row of a level is also one of all finer     *)
(* ones.  Deviation: later than the interval.                              *)
Due_Later(times) == {i \in Level : \A j \in 1..i : times[j] > Interval[j]}
Due(times) == {i \in Level : \A j \in 1..i : times[j] >= Interval[j]}

(* The times after that.  Deviations: they are set for every transfer; one *)
(* behind the last is set, too.                                            *)
Marked_OneMore(times) == [i \in 1..(K + 1) |-> IF i > K \/ i \in Due(times) THEN 0 ELSE times[i]]
Marked_Always(times) == [i \in Level |-> IF timed THEN 0 ELSE times[i]]
Marked(times) == [i \in Level |-> IF i \in Due(times) THEN 0 ELSE times[i]]

-----------------------------------------------------------------------------
Init ==
  /\ timed = FALSE /\ synced = FALSE
  /\ since = [i \in Level |-> Never] /\ scan = {} /\ next = 0
  /\ posts = {} /\ snapshot = FALSE /\ current = {}
  /\ idle = 0 /\ made = [i \in Level |-> 0] /\ misdated = {}
  /\ sent = {} /\ fresh = {} /\ disturbed = FALSE
  /\ restarts = 0

(* The time comes with the settings from the web server for the first      *)
(* time.  Times noted before were those of a clock that counted from 0.    *)
GetTime ==
  /\ next = 0 /\ ~synced
  /\ timed' = TRUE /\ synced' = TRUE
  /\ since' = [i \in Level |-> IF since[i] = Never THEN Never ELSE MaxAge]
  /\ idle' = MaxAge
  /\ misdated' = {i \in Level : since[i] # Never}
  /\ UNCHANGED <<scan, next, server, made, transfer, restarts>>

(* put_values: the scan columns are found before the first request. *)
Compose ==
  /\ next = 0 /\ posts = {} /\ ~snapshot
  /\ scan' = Due(Started(since))
  /\ since' = Marked(Started(since))
  /\ next' = 1 /\ idle' = 0
  /\ made' = [i \in Level |-> IF i \in scan' THEN 0 ELSE made[i]]
  /\ misdated' = misdated \ scan'
  /\ sent' = {} /\ fresh' = {} /\ disturbed' = FALSE
  /\ UNCHANGED <<timed, synced, server, restarts>>

(* The connection is there or not.  Nothing is sent for a module without   *)
(* values, but the first request also has the status of the master.        *)
(* Deviation: it is also not sent if no scan column is set.                *)
Send_IfScanned(connected) ==
  /\ next \in Part
  /\ next' = next + 1
  /\ IF connected /\ (next = 1 => scan # {})
     THEN posts' = posts \cup {next} /\ sent' = sent \cup {next} /\ UNCHANGED disturbed
     ELSE /\ disturbed' = (disturbed \/ ~connected)
          /\ UNCHANGED <<posts, sent>>
  /\ UNCHANGED <<timed, synced, since, scan, snapshot, current, ages, fresh, restarts>>
Send(connected) ==
  /\ next \in Part
  /\ next' = next + 1
  /\ IF connected THEN posts' = posts \cup {next} /\ sent' = sent \cup {next} /\ UNCHANGED disturbed
                  ELSE disturbed' = TRUE /\ UNCHANGED <<posts, sent>>
  /\ UNCHANGED <<timed, synced, since, scan, snapshot, current, ages, fresh, restarts>>

Skip ==
  /\ next \in Part \ {1}
  /\ next' = next + 1
  /\ UNCHANGED <<timed, synced, since, scan, server, ages, transfer, restarts>>

(* "Take a snapshot of the currentvalues table into the timeseries table". *)
Store(connected) ==
  /\ next = Parts + 1
  /\ next' = 0
  /\ snapshot' = connected
  /\ UNCHANGED <<timed, synced, since, scan, posts, current, ages, transfer, restarts>>

-----------------------------------------------------------------------------
(* The server.  A post replaces the values that it has, the scan columns   *)
(* with the first part; a row has all values there are.                    *)
Keep(p) ==
  /\ p \in posts
  /\ posts' = posts \ {p}
  /\ current' = IF p = 1 THEN scan ELSE current
  /\ fresh' = fresh \cup {p}
  /\ UNCHANGED <<master, snapshot, ages, sent, disturbed, restarts>>

StoreRow ==
  /\ snapshot
  /\ snapshot' = FALSE
  /\ disturbed' = (disturbed \/ posts # {})
  /\ UNCHANGED <<master, posts, current, ages, sent, fresh, restarts>>

Lose(p) ==
  /\ p \in posts
  /\ posts' = posts \ {p}
  /\ disturbed' = TRUE
  /\ UNCHANGED <<master, snapshot, current, ages, sent, fresh, restarts>>

LoseSnapshot ==
  /\ snapshot
  /\ snapshot' = FALSE
  /\ UNCHANGED <<master, posts, current, ages, transfer, restarts>>

-----------------------------------------------------------------------------
(* Time passes; no transfer is made while contracts are missing. *)
Tick ==
  /\ timed' = TRUE
  /\ since' = [i \in Level |-> IF since[i] = Never THEN Never ELSE Older(since[i], 1)]
  /\ idle' = Older(idle, 1)
  /\ made' = [i \in Level |-> Older(made[i], 1)]
  /\ UNCHANGED <<synced, scan, next, server, misdated, transfer, restarts>>

(* The master is restarted between two transfers, or in one. *)
Restart ==
  /\ restarts < MaxRestarts
  /\ restarts' = restarts + 1
  /\ timed' = FALSE /\ synced' = FALSE /\ since' = [i \in Level |-> Never] /\ next' = 0
  /\ made' = [i \in Level |-> 0] /\ misdated' = {}
  /\ UNCHANGED <<scan, server, idle, transfer>>

Next ==
  \/ GetTime \/ Compose
  \/ \E connected \in BOOLEAN : Send(connected) \/ Store(connected)
  \/ Skip
  \/ \E p \in Part : Keep(p) \/ Lose(p)
  \/ StoreRow \/ LoseSnapshot
  \/ Tick \/ Restart

Spec == Init /\ [][Next]_vars

(* A row of all resolutions that is of this transfer. *)
StoresSample == StoreRow /\ ~disturbed' /\ K \in scan

(* The master's loop goes on, a request is handled or lost, and it is not  *)
(* in every transfer with all columns that something goes wrong at one     *)
(* place or another.                                                       *)
GoesWell == ~disturbed /\ K \in scan /\ ~snapshot

Fairness ==
  /\ WF_vars(Tick) /\ WF_vars(Compose)
  /\ WF_vars(\E connected \in BOOLEAN : Send(connected) \/ Store(connected))
  /\ WF_vars(\E p \in Part : Keep(p) \/ Lose(p))
  /\ WF_vars(StoreRow \/ LoseSnapshot)
  /\ \A p \in Part : /\ SF_vars(GoesWell /\ Send(TRUE) /\ next = p /\ posts = {})
                    /\ SF_vars(GoesWell /\ Keep(p) /\ next = p + 1 /\ posts = {p})
  /\ SF_vars(GoesWell /\ Store(TRUE) /\ posts = {})
  /\ SF_vars(StoresSample)

FairSpec == Spec /\ Fairness

-----------------------------------------------------------------------------
(* Every variable has its type. *)
TypeOK ==
  /\ timed \in BOOLEAN /\ synced \in BOOLEAN
  /\ since \in [Level -> 0..MaxAge \cup {Never}]
  /\ scan \subseteq Level /\ next \in 0..(Parts + 1)
  /\ posts \subseteq Part /\ snapshot \in BOOLEAN /\ current \subseteq Level
  /\ idle \in 0..MaxAge /\ made \in [Level -> 0..MaxAge] /\ misdated \subseteq Level
  /\ sent \subseteq Part /\ fresh \subseteq Part /\ disturbed \in BOOLEAN
  /\ restarts \in 0..MaxRestarts

(* A column is late by no more than the next finer one was, which decides  *)
(* whether it is looked at, and the finest one by no more than the pause   *)
(* between transfers; so a daily row comes a day, an hour and 11 minutes   *)
(* after the last one at most, if the transfers go on.                     *)
SampledInTime ==
  \A i \in Level : since[i] # Never =>
    since[i] < Interval[i] + (IF i = 1 THEN idle ELSE since[i - 1])

(* A row that is marked for a resolution is marked for all finer ones,     *)
(* whatever requests are lost and in whatever order they are handled.      *)
Nested ==
  \A columns \in {scan, current} : \A i \in columns \ {1} : i - 1 \in columns

(* Two samples of a level are at least its interval apart, and the first   *)
(* one comes an interval after the start of the master, also if it is      *)
(* restarted any number of times; except for the one sample that is made   *)
(* because the clock was set after the time of the level was noted         *)
(* (set_scan_columns).                                                     *)
SamplesApart ==
  [][Compose => \A i \in scan' : made[i] >= Interval[i] \/ i \in misdated]_vars

(* Why: a time that is noted is never before the last sample or start,     *)
(* unless it was noted before the clock was set, and none is noted while   *)
(* the clock is 0.                                                         *)
TimesInv ==
  \A i \in Level : since[i] # Never => timed /\ (since[i] <= made[i] \/ i \in misdated)

(* The same as SamplesApart without the exception: "Do not sample at       *)
(* startup, init time array to now" (ModuleInterfaceHttpTransfer.h:393).   *)
(* This does not hold.                                                     *)
NoSampleAtStartup ==
  [][Compose => \A i \in scan' : made[i] >= Interval[i]]_vars

(* A row that is stored when nothing was lost or overtaken in the transfer *)
(* has the columns and the values of this transfer: no sample is stored    *)
(* twice or misses.                                                        *)
RowsOfThisTransfer ==
  [][StoreRow /\ ~disturbed' => current = scan /\ sent \subseteq fresh]_vars

(* Rows of all resolutions are stored again and again. *)
EventuallySampled == []<><<StoresSample>>_vars
=============================================================================
