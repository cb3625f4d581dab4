----------------------------- MODULE Persistence -----------------------------
(***************************************************************************)
(* Settings of a module kept in its EEPROM, so that it can work right      *)
(* after a power loss, before it has heard from the master.                *)
(*                                                                         *)
(* An image is written cell by cell and power may go between two cells, or *)
(* inside a cell of several bytes.  A cell is the magic number, a contract *)
(* id (it is stored twice, in front of the values and inside the packet    *)
(* with the values), the number of values, or one byte of a value.  The    *)
(* length and the header byte of the packet are the same in every image    *)
(* and are left out.                                                       *)
(*                                                                         *)
(* A byte of a value is abstracted to what it is a byte of.  The contracts *)
(* a module is programmed with have variables of the same sizes, and no    *)
(* setting has its changed-flag set when the EEPROM is read, which is in   *)
(* setup.                                                                  *)
(***************************************************************************)
EXTENDS Naturals, Sequences

CONSTANTS
  Contract,      \* ids of contracts the module can be programmed with
  Size,          \* Size[v]: number of bytes of variable v
  Value,         \* values given to variables
  Zero,          \* content of a byte of RAM after a restart
  Erased, Torn,  \* content of a cell never written, and of one cut short
  Magic,
  MaxGiven,      \* bound on new values
  MaxSaves       \* bound on saves

Vars == 1..Len(Size)

ASSUME SizeAssumption == Size \in Seq(Nat \ {0}) /\ Size # <<>>
ASSUME ContentAssumption ==
  /\ Erased \notin Contract \cup {Magic, Torn}
  /\ Torn \notin Contract \cup {Magic}
  /\ Zero \notin {Erased} \cup [contract : Contract, var : Vars, byte : Nat, value : Value]
ASSUME BoundAssumption == MaxGiven \in Nat /\ MaxSaves \in Nat

VARIABLES
  id, mval, mupd,  \* module: contract id, values (bytes), is_updated()
  eeprom,          \* cells
  image, pos,      \* what is being written and the next cell; 0: not writing
  last, since,     \* history: the last complete save, those begun after it
  count            \* history: new values and saves so far

vars == <<id, mval, mupd, eeprom, image, pos, last, since, count>>

-----------------------------------------------------------------------------
Bytes(c, v, x) == [b \in 1..Size[v] |-> [contract |-> c, var |-> v, byte |-> b, value |-> x]]
Zeroes == [v \in Vars |-> [b \in 1..Size[v] |-> Zero]]

(* The values one behind the other; where the bytes of variable v start.   *)
start[v \in 1..(Len(Size) + 1)] == IF v = 1 THEN 0 ELSE start[v - 1] + Size[v - 1]
Flat(vals) ==
  [p \in 1..start[Len(Size) + 1] |->
     LET v == CHOOSE w \in Vars : start[w] < p /\ p <= start[w + 1]
     IN  vals[v][p - start[v]]]

(* write_settings_to_eeprom: the magic number, the contract id, and what   *)
(* get_values makes: the contract id again, the number of values, values.  *)
Image(c, vals) == <<Magic, c, c, Len(Size)>> \o Flat(vals)
Cells == 1..(4 + start[Len(Size) + 1])

(* read_settings_from_eeprom and set_values, for a module with contract c: *)
(* the values it gets, or none.  Deviation: contract ids are not compared. *)
None == <<>>
Stored(e) == [v \in Vars |-> [b \in 1..Size[v] |-> e[4 + start[v] + b]]]
Restored_AnyContract(c, e) ==
  IF e[1] = Magic /\ e[4] = Len(Size) THEN Stored(e) ELSE None
Restored(c, e) ==
  IF e[1] = Magic /\ e[2] = c /\ e[3] = c /\ e[4] = Len(Size) THEN Stored(e) ELSE None

Save(c, vals) == [contract |-> c, vals |-> vals]
NoSave == Save(Erased, None)

-----------------------------------------------------------------------------
Init ==
  /\ id \in Contract
  /\ mval = Zeroes /\ mupd = FALSE
  /\ eeprom = [p \in Cells |-> Erased]
  /\ image = None /\ pos = 0
  /\ last = NoSave /\ since = {}
  /\ count = [given |-> 0, saves |-> 0]

(* A full set of settings comes from the master. *)
SetValues(f) ==
  /\ pos = 0
  /\ count.given < MaxGiven
  /\ mval' = [v \in Vars |-> Bytes(id, v, f[v])]
  /\ mupd' = TRUE
  /\ count' = [count EXCEPT !.given = @ + 1]
  /\ UNCHANGED <<id, eeprom, image, pos, last, since>>

(* The sketch changes a setting. *)
LocalChange(v, x) ==
  /\ pos = 0
  /\ count.given < MaxGiven
  /\ mval' = [mval EXCEPT ![v] = Bytes(id, v, x)]
  /\ count' = [count EXCEPT !.given = @ + 1]
  /\ UNCHANGED <<id, mupd, eeprom, image, pos, last, since>>

(* write_to_eeprom_when_needed, the interval has passed.  Deviation: a set *)
(* that is not filled in is stored, too.                                   *)
StartSave_Unfilled ==
  /\ pos = 0
  /\ count.saves < MaxSaves
  /\ image' = Image(id, mval)
  /\ pos' = 1
  /\ since' = since \cup {Save(id, mval)}
  /\ count' = [count EXCEPT !.saves = @ + 1]
  /\ UNCHANGED <<id, mval, mupd, eeprom, last>>
StartSave ==
  /\ pos = 0
  /\ count.saves < MaxSaves
  /\ mupd
  /\ image' = Image(id, mval)
  /\ pos' = 1
  /\ since' = since \cup {Save(id, mval)}
  /\ count' = [count EXCEPT !.saves = @ + 1]
  /\ UNCHANGED <<id, mval, mupd, eeprom, last>>

(* eeprom_update_bytes: one cell.  Deviations: it stops at a cell that has *)
(* its content already; it goes on after the last cell.                    *)
WriteCell_OneMore ==
  /\ pos # 0
  /\ eeprom' = [eeprom EXCEPT ![pos] = image[pos]]
  /\ pos' = pos + 1
  /\ UNCHANGED <<id, mval, mupd, image, last, since, count>>
WriteCell_StopsWhenEqual ==
  /\ pos # 0
  /\ eeprom' = [eeprom EXCEPT ![pos] = image[pos]]
  /\ IF pos = Len(image) \/ (eeprom[pos] = image[pos] /\ pos > 4)
       THEN pos' = 0 /\ image' = None /\ last' = Save(id, mval) /\ since' = {}
       ELSE pos' = pos + 1 /\ UNCHANGED <<image, last, since>>
  /\ UNCHANGED <<id, mval, mupd, count>>
WriteCell ==
  /\ pos # 0
  /\ eeprom' = [eeprom EXCEPT ![pos] = image[pos]]
  /\ IF pos = Len(image)
       THEN pos' = 0 /\ image' = None /\ last' = Save(id, mval) /\ since' = {}
       ELSE pos' = pos + 1 /\ UNCHANGED <<image, last, since>>
  /\ UNCHANGED <<id, mval, mupd, count>>

(* Power is lost, in the middle of a cell perhaps; the module starts with  *)
(* contract c and reads its settings.                                      *)
Restart(c) ==
  /\ id' = c
  /\ eeprom' \in {eeprom} \cup {[eeprom EXCEPT ![p] = Torn] :
                                 p \in {q \in {pos} \cap 1..3 : eeprom[q] # image[q]}}
  /\ pos' = 0 /\ image' = None
  /\ mupd' = (Restored(c, eeprom') # None)
  /\ mval' = IF mupd' THEN Restored(c, eeprom') ELSE Zeroes
  /\ UNCHANGED <<last, since, count>>

Next ==
  \/ \E f \in [Vars -> Value] : SetValues(f)
  \/ \E v \in Vars, x \in Value : LocalChange(v, x)
  \/ StartSave \/ WriteCell
  \/ \E c \in Contract : Restart(c)

Spec == Init /\ [][Next]_vars

-----------------------------------------------------------------------------
Byte == {Zero, Erased} \cup [contract : Contract, var : Vars, byte : Nat, value : Value]

(* Type invariant; the bytes of all variables fit into the cells. *)
TypeOK ==
  /\ id \in Contract /\ mupd \in BOOLEAN
  /\ DOMAIN mval = Vars /\ \A v \in Vars : mval[v] \in [1..Size[v] -> Byte]
  /\ DOMAIN eeprom = Cells
  /\ \A p \in Cells : eeprom[p] \in IF p <= 3 THEN Contract \cup {Magic, Erased, Torn}
                                     ELSE IF p = 4 THEN {Erased, Len(Size)} ELSE Byte
  /\ pos \in {0} \cup Cells
  /\ image # None => pos # 0 /\ DOMAIN image = Cells
  /\ count \in [given : Nat, saves : Nat]

(* A save that was not cut short is read back as it was, by a module with  *)
(* the same contract and by no other ("Not the correct contract, so        *)
(* return", ModuleInterfacePersistence.h:83).                              *)
CompleteSaveIsReadBack ==
  last # NoSave /\ since = {} =>
    \A c \in Contract : Restored(c, eeprom) = IF c = last.contract THEN last.vals ELSE None

(* Saves cut short never bring back anything older than the last complete  *)
(* one: what is read has the contract of that save or of one begun since,  *)
(* and each byte is a byte of one of them or was never written.            *)
NothingOlderIsRead ==
  \A c \in Contract :
    LET r == Restored(c, eeprom)
    IN  r # None =>
          /\ \E x \in since \cup {last} : x.contract = c
          /\ \A v \in Vars : \A b \in 1..Size[v] :
               \/ r[v][b] = Erased /\ last = NoSave
               \/ \E x \in (since \cup {last}) \ {NoSave} : r[v][b] = x.vals[v][b]

(* Zeroes of a restarted module are never stored: "Make sure it is         *)
(* properly filled in before storing" (ModuleInterfacePersistence.h:37).   *)
FilledInBeforeStoring ==
  \A c \in Contract :
    LET r == Restored(c, eeprom)
    IN  r # None => \A v \in Vars : \A b \in 1..Size[v] : r[v][b] # Zero
=============================================================================
