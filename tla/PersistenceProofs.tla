-------------------------- MODULE PersistenceProofs --------------------------
(***************************************************************************)
(* Proofs about Persistence, for any contracts, for any number of          *)
(* variables of any sizes, and for every bound.                            *)
(***************************************************************************)
EXTENDS Persistence, SequenceTheorems, WellFoundedInduction, TLAPS

-----------------------------------------------------------------------------
(* The layout of the values.  It is defined by recursion over the          *)
(* variables; the inductions are by the smallest counterexample.           *)

N == Len(Size) + 1

LEMMA Sizes == N \in Nat /\ N > 1 /\ Vars = 1..(N - 1) /\ \A v \in Vars : Size[v] \in Nat \ {0}
  BY SizeAssumption DEF N, Vars

LEMMA SmallestNumber ==
  ASSUME NEW S \in SUBSET Nat, S # {}
  PROVE  \E x \in S : \A y \in S : x <= y
<1>1. PICK x \in S : \A y \in S : ~(<<y, x>> \in OpToRel(<, Nat))
  BY NatLessThanWellFounded, WFMin
<1>2. \A y \in S : ~(y < x)
  BY <1>1 DEF OpToRel
<1> QED BY <1>2

(* There is a function that satisfies the definition of start.             *)
Starts(f, n) == \A v \in 1..n : f[v] = IF v = 1 THEN 0 ELSE f[v - 1] + Size[v - 1]

LEMMA StartExists == \E f : f = [v \in 1..N |-> IF v = 1 THEN 0 ELSE f[v - 1] + Size[v - 1]]
<1> DEFINE S == {n \in 1..N : ~\E f \in [1..N -> Nat] : Starts(f, n)}
<1>1. S = {}
  <2> SUFFICES ASSUME S # {} PROVE FALSE
    OBVIOUS
  <2>0. S \in SUBSET Nat
    BY Sizes
  <2>1. PICK n \in S : \A m \in S : n <= m
    <3> HIDE DEF S
    <3> QED BY <2>0, SmallestNumber
  <2>2. n # 1
    <3>1. Starts([v \in 1..N |-> 0], 1)
      BY Sizes DEF Starts
    <3>2. [v \in 1..N |-> 0] \in [1..N -> Nat]
      OBVIOUS
    <3> QED BY <3>1, <3>2
  <2>3. n \in 1..N /\ n - 1 \in 1..N
    BY <2>2, Sizes
  <2>4. n - 1 \notin S
    <3> HIDE DEF S
    <3> QED BY <2>1, <2>3, Sizes
  <2>5. PICK f \in [1..N -> Nat] : Starts(f, n - 1)
    BY <2>3, <2>4
  <2> DEFINE g == [f EXCEPT ![n] = f[n - 1] + Size[n - 1]]
  <2>6. g \in [1..N -> Nat]
    BY <2>2, <2>3, Sizes
  <2>7. Starts(g, n)
    <3> SUFFICES ASSUME NEW v \in 1..n
                 PROVE  g[v] = IF v = 1 THEN 0 ELSE g[v - 1] + Size[v - 1]
      BY DEF Starts
    <3>1. CASE v = n
      BY <3>1, <2>2, <2>3, Sizes
    <3>2. CASE v < n
      <4>1. v \in 1..(n - 1) /\ v \in 1..N /\ v # n /\ v - 1 # n
        BY <3>2, <2>3, Sizes
      <4>2. f[v] = IF v = 1 THEN 0 ELSE f[v - 1] + Size[v - 1]
        BY <4>1, <2>5 DEF Starts
      <4>3. g[v] = f[v]
        BY <4>1
      <4>4. v # 1 => g[v - 1] = f[v - 1]
        BY <4>1
      <4> HIDE DEF g
      <4> QED BY <4>2, <4>3, <4>4
    <3> QED BY <3>1, <3>2, <2>3, Sizes
  <2> QED BY <2>6, <2>7
<1>2. N \in 1..N /\ N \notin S
  <2> HIDE DEF S
  <2> QED BY <1>1, Sizes
<1>3. PICK f \in [1..N -> Nat] : Starts(f, N)
  BY <1>2
<1>4. f = [v \in 1..N |-> IF v = 1 THEN 0 ELSE f[v - 1] + Size[v - 1]]
  BY <1>3 DEF Starts
<1> QED BY <1>4

LEMMA StartDef == start = [v \in 1..N |-> IF v = 1 THEN 0 ELSE start[v - 1] + Size[v - 1]]
  BY StartExists DEF start, N

LEMMA StartAt ==
  /\ 1 \in 1..N /\ start[1] = 0
  /\ \A v \in Vars : v \in 1..N /\ v + 1 \in 1..N /\ start[v + 1] = start[v] + Size[v]
<1>1. \A v \in 1..N : start[v] = IF v = 1 THEN 0 ELSE start[v - 1] + Size[v - 1]
  BY StartDef
<1>2. ASSUME NEW v \in Vars
      PROVE  v \in 1..N /\ v + 1 \in 1..N /\ v + 1 # 1 /\ (v + 1) - 1 = v
  BY Sizes
<1>3. ASSUME NEW v \in Vars PROVE start[v + 1] = start[v] + Size[v]
  BY <1>1, <1>2
<1> QED BY <1>1, <1>2, <1>3, Sizes

(* The variables lie one behind the other.                                 *)
LEMMA StartType == \A v \in 1..N : start[v] \in Nat
<1> DEFINE S == {v \in 1..N : start[v] \notin Nat}
<1>1. S = {}
  <2> SUFFICES ASSUME S # {} PROVE FALSE
    OBVIOUS
  <2>0. S \in SUBSET Nat
    BY Sizes
  <2>1. PICK n \in S : \A m \in S : n <= m
    <3> HIDE DEF S
    <3> QED BY <2>0, SmallestNumber
  <2>2. n # 1
    BY StartAt
  <2>3. n \in 1..N /\ n - 1 \in Vars /\ (n - 1) + 1 = n
    BY <2>2, Sizes
  <2>4. n - 1 \notin S
    <3> HIDE DEF S
    <3> QED BY <2>1, <2>3, Sizes
  <2>5. start[n - 1] \in Nat
    BY <2>3, <2>4, StartAt
  <2>6. start[n] = start[n - 1] + Size[n - 1]
    BY <2>3, StartAt
  <2>7. start[n] \in Nat
    BY <2>3, <2>5, <2>6, Sizes
  <2> QED BY <2>7
<1> QED BY <1>1

LEMMA StartOrder ==
  \A v \in 1..N : \A u \in Vars : u < v => start[u] + Size[u] <= start[v]
<1> DEFINE Ordered(v) == \A u \in Vars : u < v => start[u] + Size[u] <= start[v]
           S == {v \in 1..N : ~Ordered(v)}
<1>1. S = {}
  <2> SUFFICES ASSUME S # {} PROVE FALSE
    OBVIOUS
  <2>0. S \in SUBSET Nat
    BY Sizes
  <2>1. PICK n \in S : \A m \in S : n <= m
    <3> HIDE DEF S
    <3> QED BY <2>0, SmallestNumber
  <2>2. n # 1
    BY Sizes
  <2>3. n \in 1..N /\ n - 1 \in Vars /\ (n - 1) + 1 = n
    BY <2>2, Sizes
  <2>4. n - 1 \notin S
    <3> HIDE DEF S
    <3> QED BY <2>1, <2>3, Sizes
  <2>5. Ordered(n - 1)
    BY <2>3, <2>4, StartAt
  <2>6. start[n] = start[n - 1] + Size[n - 1]
    BY <2>3, StartAt
  <2>7. Ordered(n)
    <3> SUFFICES ASSUME NEW u \in Vars, u < n PROVE start[u] + Size[u] <= start[n]
      OBVIOUS
    <3>1. start[u] \in Nat /\ start[n] \in Nat /\ start[n - 1] \in Nat
      BY <2>3, StartType, StartAt
    <3>2. Size[u] \in Nat /\ Size[n - 1] \in Nat
      BY <2>3, Sizes
    <3>3. CASE u = n - 1
      BY <3>1, <3>2, <3>3, <2>6
    <3>4. CASE u < n - 1
      <4>1. start[u] + Size[u] <= start[n - 1]
        BY <3>4, <2>5
      <4> QED BY <4>1, <3>1, <3>2, <2>6
    <3> QED BY <3>3, <3>4, <2>3, Sizes
  <2> HIDE DEF Ordered
  <2> QED BY <2>7
<1> QED BY <1>1

(* Every byte of the image belongs to a variable.                          *)
LEMMA StartCovers ==
  ASSUME NEW p \in 1..start[N]
  PROVE  \E w \in Vars : start[w] < p /\ p <= start[w + 1]
<1> DEFINE S == {v \in 1..N : p <= start[v]}
<1>1. S \in SUBSET Nat /\ N \in S
  BY Sizes, StartType
<1>2. PICK n \in S : \A m \in S : n <= m
  <2> HIDE DEF S
  <2> QED BY <1>1, SmallestNumber
<1>3. n # 1
  BY StartAt
<1>4. n \in 1..N /\ n - 1 \in Vars /\ (n - 1) + 1 = n
  BY <1>3, Sizes
<1>5. n - 1 \notin S
  <2> HIDE DEF S
  <2> QED BY <1>2, <1>4, Sizes
<1>6. start[n - 1] < p
  BY <1>4, <1>5, StartAt, StartType
<1> QED BY <1>4, <1>6

(* The byte of the values that cell 4 + p holds.                           *)
LEMMA VariableAt ==
  ASSUME NEW v \in Vars, NEW b \in 1..Size[v]
  PROVE  /\ start[v] \in Nat /\ start[N] \in Nat
         /\ start[v] + b \in 1..start[N]
         /\ (CHOOSE w \in Vars : start[w] < start[v] + b /\ start[v] + b <= start[w + 1]) = v
<1>1. start[v] \in Nat /\ start[N] \in Nat /\ Size[v] \in Nat
  BY Sizes, StartType, StartAt
<1>2. start[v] + Size[v] <= start[N]
  BY Sizes, StartOrder
<1>3. start[v + 1] = start[v] + Size[v]
  BY StartAt
<1>4. start[v] < start[v] + b /\ start[v] + b <= start[v + 1]
  BY <1>1, <1>3
<1>5. ASSUME NEW w \in Vars, start[w] < start[v] + b, start[v] + b <= start[w + 1] PROVE w = v
  <2>1. start[w] \in Nat /\ Size[w] \in Nat /\ start[w + 1] = start[w] + Size[w]
    BY Sizes, StartType, StartAt
  <2>2. w < v => start[w] + Size[w] <= start[v]
    BY StartAt, StartOrder
  <2>3. v < w => start[v] + Size[v] <= start[w]
    BY StartAt, StartOrder
  <2> QED BY <1>1, <1>5, <2>1, <2>2, <2>3, Sizes
<1> QED BY <1>1, <1>2, <1>4, <1>5

-----------------------------------------------------------------------------
(* The image: four cells, then the bytes of the variables.                 *)

LEMMA CellsAre ==
  /\ start[N] \in Nat /\ Cells = 1..(4 + start[N]) /\ {1, 2, 3, 4} \subseteq Cells
  /\ \A v \in Vars : \A b \in 1..Size[v] :
       start[v] \in Nat /\ b \in Nat /\ 4 + start[v] + b \in Cells /\ 4 + start[v] + b > 4
  /\ \A p \in Cells : p > 4 => \E v \in Vars : \E b \in 1..Size[v] : p = 4 + start[v] + b
<1>1. start[N] \in Nat /\ Cells = 1..(4 + start[N])
  BY StartType, Sizes DEF Cells, N
<1>2. ASSUME NEW v \in Vars, NEW b \in 1..Size[v]
      PROVE  start[v] \in Nat /\ b \in Nat /\ 4 + start[v] + b \in Cells /\ 4 + start[v] + b > 4
  <2>1. start[v] \in Nat /\ start[v] + b \in 1..start[N]
    BY VariableAt, Zenon
  <2>2. b \in Nat /\ b > 0
    BY Sizes
  <2> QED BY <1>1, <2>1, <2>2
<1>3. ASSUME NEW p \in Cells, p > 4
      PROVE  \E v \in Vars : \E b \in 1..Size[v] : p = 4 + start[v] + b
  <2>1. p - 4 \in 1..start[N]
    BY <1>1, <1>3
  <2>2. PICK w \in Vars : start[w] < p - 4 /\ p - 4 <= start[w + 1]
    BY <2>1, StartCovers
  <2>3. start[w] \in Nat /\ Size[w] \in Nat /\ start[w + 1] = start[w] + Size[w]
    BY Sizes, StartType, StartAt
  <2>4. (p - 4) - start[w] \in 1..Size[w] /\ p = 4 + start[w] + ((p - 4) - start[w])
    BY <1>1, <2>2, <2>3
  <2> QED BY <2>4
<1> QED BY <1>1, <1>2, <1>3

LEMMA ImageIs ==
  ASSUME NEW c, NEW vals
  PROVE  /\ DOMAIN Image(c, vals) = Cells
         /\ Len(Image(c, vals)) = 4 + start[N]
         /\ Image(c, vals) = [p \in Cells |-> Image(c, vals)[p]]
         /\ Image(c, vals)[1] = Magic
         /\ Image(c, vals)[2] = c
         /\ Image(c, vals)[3] = c
         /\ Image(c, vals)[4] = Len(Size)
         /\ \A v \in Vars : \A b \in 1..Size[v] : Image(c, vals)[4 + start[v] + b] = vals[v][b]
<1> DEFINE F == Flat(vals)
           X == {Magic, c, Len(Size)} \cup {F[p] : p \in 1..start[N]}
           H == <<Magic, c, c, Len(Size)>>
<1>1. F = [p \in 1..start[N] |-> F[p]]
  BY DEF Flat, N
<1>2. F \in Seq(X) /\ Len(F) = start[N]
  <2> HIDE DEF F
  <2>1. \A p \in 1..start[N] : F[p] \in X
    OBVIOUS
  <2>2. F \in [1..start[N] -> X]
    BY <1>1, <2>1
  <2> HIDE DEF X
  <2> QED BY <2>2, CellsAre
<1>3. H \in Seq(X) /\ Len(H) = 4 /\ H[1] = Magic /\ H[2] = c /\ H[3] = c /\ H[4] = Len(Size)
  OBVIOUS
<1>4. Image(c, vals) = H \o F
  BY DEF Image
<1> HIDE DEF F, X, H
<1>5. /\ H \o F \in Seq(X)
      /\ Len(H \o F) = 4 + start[N]
      /\ \A i \in 1..(4 + start[N]) : (H \o F)[i] = IF i <= 4 THEN H[i] ELSE F[i - 4]
  <2>1. F \in Seq(X) /\ H \in Seq(X)
    BY <1>2, <1>3
  <2>2. /\ H \o F \in Seq(X)
        /\ Len(H \o F) = Len(H) + Len(F)
        /\ \A i \in 1 .. Len(H) + Len(F) :
             (H \o F)[i] = IF i <= Len(H) THEN H[i] ELSE F[i - Len(H)]
    BY ONLY <2>1, ConcatProperties, Zenon
  <2> QED BY <1>2, <1>3, <2>2
<1>6. DOMAIN Image(c, vals) = Cells /\ Image(c, vals) = [p \in Cells |-> Image(c, vals)[p]]
  <2> DEFINE I == H \o F
  <2>1. I \in Seq(X) /\ Len(I) = 4 + start[N]
    BY <1>5
  <2> HIDE DEF I
  <2>2. DOMAIN I = Cells /\ I = [p \in Cells |-> I[p]]
    BY <2>1, CellsAre
  <2> QED BY <1>4, <2>2 DEF I
<1>7. ASSUME NEW v \in Vars, NEW b \in 1..Size[v]
      PROVE  Image(c, vals)[4 + start[v] + b] = vals[v][b]
  <2> DEFINE q == start[v] + b
  <2>1. q \in 1..start[N] /\ start[v] \in Nat /\ b \in Nat
    BY VariableAt, Sizes
  <2>2. F[q] = vals[v][q - start[v]]
    <3>1. (CHOOSE w \in Vars : start[w] < q /\ q <= start[w + 1]) = v
      BY VariableAt
    <3> QED BY <2>1, <3>1 DEF F, Flat, N
  <2>3. q - start[v] = b
    BY <2>1
  <2>4. (H \o F)[4 + q] = F[q]
    <3>1. 4 + q \in 1..(4 + start[N]) /\ ~(4 + q <= 4) /\ (4 + q) - 4 = q
      BY <2>1, CellsAre
    <3>2. (H \o F)[4 + q] = F[(4 + q) - 4]
      BY <1>5, <3>1
    <3> QED BY <3>1, <3>2
  <2>5. 4 + start[v] + b = 4 + q
    BY <2>1
  <2> QED BY <1>4, <2>2, <2>3, <2>4, <2>5
<1>8. ASSUME NEW i \in {1, 2, 3, 4} PROVE Image(c, vals)[i] = H[i]
  <2>1. i \in 1..(4 + start[N]) /\ i <= 4
    BY CellsAre
  <2> QED BY <1>4, <1>5, <2>1
<1>9. Len(Image(c, vals)) = 4 + start[N]
  BY <1>4, <1>5
<1> QED BY <1>3, <1>6, <1>7, <1>8, <1>9

-----------------------------------------------------------------------------
(* The inductive invariant.  Every cell is cut short, or has never been    *)
(* written, or has the content it has in the image of the last complete    *)
(* save or of one begun after it; and what has been saved was filled in.   *)

Shaped(vals) ==
  vals = [v \in Vars |-> vals[v]] /\ \A v \in Vars : vals[v] \in [1..Size[v] -> Byte]
Filled(vals) == \A v \in Vars : \A b \in 1..Size[v] : vals[v][b] # Zero

Good(x) ==
  /\ x.contract \in Contract
  /\ Shaped(x.vals) /\ Filled(x.vals)
ImageOf(x) == Image(x.contract, x.vals)

Saves == \A x \in since \cup {last} : x = NoSave \/ Good(x)
Begun == NoSave \notin since
Values == Shaped(mval) /\ (mupd => Filled(mval))

(* e[p] is a cell of a save that is known. *)
FromSave(e, p) == \E x \in since \cup {last} : x # NoSave /\ e[p] = ImageOf(x)[p]
HeldIn(e) ==
  /\ DOMAIN e = Cells
  /\ \A p \in Cells : \/ p <= 3 /\ e[p] = Torn
                      \/ e[p] = Erased /\ last = NoSave
                      \/ FromSave(e, p)
Held == HeldIn(eeprom)
Whole == since = {} => \A p \in Cells : p <= 3 => eeprom[p] # Torn
Writing ==
  IF pos = 0
    THEN image = None
    ELSE /\ pos \in Cells
         /\ image = Image(id, mval)
         /\ Save(id, mval) \in since
         /\ \A p \in Cells : p < pos => eeprom[p] = image[p]
Basic == id \in Contract /\ mupd \in BOOLEAN /\ count \in [given : Nat, saves : Nat]

IInv == Basic /\ Saves /\ Begun /\ Values /\ Held /\ Whole /\ Writing

LEMMA Contents ==
  /\ Erased \notin Contract \cup {Magic, Torn} /\ Torn \notin Contract \cup {Magic}
  /\ Zero \in Byte /\ Erased \in Byte /\ Zero # Erased
  /\ \A x \in [contract : Contract, var : Vars, byte : Nat, value : Value] :
       x \in Byte /\ x # Zero
  BY ContentAssumption DEF Byte

LEMMA GoodIsASave ==
  ASSUME NEW x, Good(x) PROVE x # NoSave
  BY Contents DEF Good, NoSave, Save

(* What the cells of a good save hold.                                     *)
LEMMA CellsOfGood ==
  ASSUME NEW x, Good(x)
  PROVE  /\ ImageOf(x)[1] = Magic
         /\ ImageOf(x)[2] = x.contract /\ ImageOf(x)[3] = x.contract
         /\ x.contract \in Contract
         /\ ImageOf(x)[4] = Len(Size)
         /\ \A v \in Vars : \A b \in 1..Size[v] :
              /\ ImageOf(x)[4 + start[v] + b] = x.vals[v][b]
              /\ x.vals[v][b] \in Byte /\ x.vals[v][b] # Zero
<1> DEFINE c == x.contract
           vals == x.vals
<1>1. c \in Contract /\ Shaped(vals) /\ Filled(vals)
  BY DEF Good
<1>2. ImageOf(x) = Image(c, vals)
  BY DEF ImageOf
<1>3. ASSUME NEW v \in Vars, NEW b \in 1..Size[v]
      PROVE  vals[v][b] \in Byte /\ vals[v][b] # Zero
  <2> HIDE DEF vals
  <2> QED BY <1>1 DEF Shaped, Filled
<1>4. /\ Image(c, vals)[1] = Magic
      /\ Image(c, vals)[2] = c /\ Image(c, vals)[3] = c
      /\ Image(c, vals)[4] = Len(Size)
      /\ \A v \in Vars : \A b \in 1..Size[v] : Image(c, vals)[4 + start[v] + b] = vals[v][b]
  <2> HIDE DEF c, vals
  <2> QED BY ImageIs
<1> QED BY <1>1, <1>2, <1>3, <1>4

(* A byte of a value, in an EEPROM that holds cells of saves.              *)
LEMMA ByteHeld ==
  ASSUME Saves, NEW e, HeldIn(e), NEW v \in Vars, NEW b \in 1..Size[v]
  PROVE  LET p == 4 + start[v] + b
         IN  /\ e[p] \in Byte /\ e[p] # Zero
             /\ \/ e[p] = Erased /\ last = NoSave
                \/ \E x \in (since \cup {last}) \ {NoSave} : e[p] = x.vals[v][b]
<1> DEFINE p == 4 + start[v] + b
<1>1. p \in Cells /\ ~(p <= 3)
  BY CellsAre
<1>2. CASE e[p] = Erased /\ last = NoSave
  BY <1>2, Contents
<1>3. CASE FromSave(e, p)
  <2>1. PICK x \in since \cup {last} : x # NoSave /\ e[p] = ImageOf(x)[p]
    BY <1>3 DEF FromSave
  <2>2. Good(x)
    BY <2>1 DEF Saves
  <2>3. e[p] = x.vals[v][b] /\ x.vals[v][b] \in Byte /\ x.vals[v][b] # Zero
    BY <2>1, <2>2, CellsOfGood
  <2> HIDE DEF p
  <2> QED BY <2>1, <2>3 DEF p
<1>4. \/ e[p] = Erased /\ last = NoSave
      \/ FromSave(e, p)
  <2> HIDE DEF p
  <2> QED BY <1>1 DEF HeldIn
<1> QED BY <1>2, <1>3, <1>4

LEMMA StoredShape ==
  ASSUME Saves, NEW e, HeldIn(e)
  PROVE  Stored(e) # None /\ Shaped(Stored(e)) /\ Filled(Stored(e))
<1>1. Stored(e) # None
  <2>1. DOMAIN Stored(e) = Vars /\ 1 \in Vars
    BY Sizes DEF Stored
  <2>2. DOMAIN None = {}
    BY DEF None
  <2> QED BY <2>1, <2>2
<1>2. \A v \in Vars : \A b \in 1..Size[v] :
        e[4 + start[v] + b] \in Byte /\ e[4 + start[v] + b] # Zero
  BY ByteHeld
<1>3. \A v \in Vars : \A b \in 1..Size[v] : Stored(e)[v][b] = e[4 + start[v] + b]
  BY DEF Stored
<1>4. \A v \in Vars : Stored(e)[v] \in [1..Size[v] -> Byte]
  BY <1>2 DEF Stored
<1>5. Stored(e) = [v \in Vars |-> Stored(e)[v]]
  BY DEF Stored
<1> QED BY <1>1, <1>2, <1>3, <1>4, <1>5 DEF Shaped, Filled

LEMMA RestoredIs ==
  ASSUME NEW c, NEW e, Restored(c, e) # None
  PROVE  /\ e[1] = Magic /\ e[2] = c /\ e[3] = c /\ e[4] = Len(Size)
         /\ Restored(c, e) = Stored(e)
  BY DEF Restored

LEMMA ZeroesShape == Shaped(Zeroes)
<1>1. \A v \in Vars : Zeroes[v] \in [1..Size[v] -> Byte]
  BY Contents DEF Zeroes
<1>2. Zeroes = [v \in Vars |-> Zeroes[v]]
  BY DEF Zeroes
<1> QED BY <1>1, <1>2 DEF Shaped

LEMMA BytesShape ==
  ASSUME NEW c \in Contract, NEW v \in Vars, NEW x \in Value
  PROVE  /\ Bytes(c, v, x) \in [1..Size[v] -> Byte]
         /\ \A b \in 1..Size[v] : Bytes(c, v, x)[b] # Zero
<1>1. ASSUME NEW b \in 1..Size[v]
      PROVE  [contract |-> c, var |-> v, byte |-> b, value |-> x]
               \in [contract : Contract, var : Vars, byte : Nat, value : Value]
  BY Sizes
<1> QED BY <1>1, Contents DEF Bytes

-----------------------------------------------------------------------------
LEMMA InitIInv == Init => IInv
<1> SUFFICES ASSUME Init PROVE IInv
  OBVIOUS
<1> USE DEF Init
<1>1. Basic
  BY BoundAssumption DEF Basic
<1>2. Saves /\ Begun
  BY DEF Saves, Begun
<1>3. Values
  BY ZeroesShape DEF Values
<1>4. Held
  BY DEF Held, HeldIn
<1>5. Whole
  BY Contents, CellsAre DEF Whole
<1>6. Writing
  BY DEF Writing
<1> QED BY <1>1, <1>2, <1>3, <1>4, <1>5, <1>6 DEF IInv

(* A full set of settings is filled in. *)
LEMMA SetValuesStep ==
  ASSUME IInv, NEW f \in [Vars -> Value], SetValues(f)
  PROVE  IInv'
<1> USE DEF IInv, SetValues
<1>1. Basic'
  BY DEF Basic
<1>2. (Saves /\ Begun /\ Held /\ Whole)'
  BY DEF Saves, Begun, Held, HeldIn, FromSave, Whole
<1>3. Values'
  <2>1. \A v \in Vars : mval'[v] = Bytes(id, v, f[v]) /\ f[v] \in Value
    OBVIOUS
  <2>2. \A v \in Vars : /\ mval'[v] \in [1..Size[v] -> Byte]
                        /\ \A b \in 1..Size[v] : mval'[v][b] # Zero
    BY <2>1, BytesShape DEF Basic
  <2>3. mval' = [v \in Vars |-> mval'[v]]
    OBVIOUS
  <2> QED BY <2>2, <2>3 DEF Values, Shaped, Filled
<1>4. Writing'
  BY DEF Writing
<1> QED BY <1>1, <1>2, <1>3, <1>4

LEMMA LocalChangeStep ==
  ASSUME IInv, NEW v \in Vars, NEW x \in Value, LocalChange(v, x)
  PROVE  IInv'
<1> USE DEF IInv, LocalChange
<1>1. Basic'
  BY DEF Basic
<1>2. (Saves /\ Begun /\ Held /\ Whole)'
  BY DEF Saves, Begun, Held, HeldIn, FromSave, Whole
<1>3. Values'
  <2>1. mval = [w \in Vars |-> mval[w]]
    BY DEF Values, Shaped
  <2>2. \A w \in Vars : mval'[w] = IF w = v THEN Bytes(id, v, x) ELSE mval[w]
    BY <2>1
  <2>3. Bytes(id, v, x) \in [1..Size[v] -> Byte] /\ \A b \in 1..Size[v] : Bytes(id, v, x)[b] # Zero
    BY BytesShape DEF Basic
  <2>4. \A w \in Vars : mval'[w] \in [1..Size[w] -> Byte]
    BY <2>2, <2>3 DEF Values, Shaped
  <2>5. mupd => \A w \in Vars : \A b \in 1..Size[w] : mval'[w][b] # Zero
    BY <2>2, <2>3 DEF Values, Filled
  <2>6. mval' = [w \in Vars |-> mval'[w]]
    BY <2>1
  <2> QED BY <2>4, <2>5, <2>6 DEF Values, Shaped, Filled
<1>4. Writing'
  BY DEF Writing
<1> QED BY <1>1, <1>2, <1>3, <1>4

(* What is saved is filled in; the cells are those they were. *)
LEMMA StartSaveStep ==
  ASSUME IInv, StartSave
  PROVE  IInv'
<1> USE DEF IInv, StartSave
<1>1. Basic' /\ Values'
  BY DEF Basic, Values, Shaped, Filled
<1>2. Good(Save(id, mval))
  BY DEF Good, Save, Basic, Values
<1>3. Saves' /\ Begun'
  <2>1. Save(id, mval) # NoSave
    BY <1>2, GoodIsASave
  <2> QED BY <1>2, <2>1 DEF Saves, Begun, Good
<1>4. Held'
  <2>1. \A p : FromSave(eeprom, p) => FromSave(eeprom, p)'
    BY DEF FromSave
  <2> QED BY <2>1 DEF Held, HeldIn
<1>5. Whole'
  BY DEF Whole
<1>6. Writing'
  <2>1. 1 \in Cells /\ \A p \in Cells : ~(p < 1)
    BY CellsAre
  <2> QED BY <2>1 DEF Writing, Image
<1> QED BY <1>1, <1>3, <1>4, <1>5, <1>6

(* A cell gets the content it has in the image of the save being made;     *)
(* after the last one, every cell has it.                                  *)
LEMMA WriteCellStep ==
  ASSUME IInv, WriteCell
  PROVE  IInv'
<1> DEFINE new == Save(id, mval)
<1>1. /\ pos \in Cells /\ pos # 0 /\ image = Image(id, mval) /\ new \in since
      /\ \A p \in Cells : p < pos => eeprom[p] = image[p]
  BY DEF IInv, Writing, WriteCell
<1>2. Good(new) /\ new # NoSave /\ ImageOf(new) = image
  <2>1. new # NoSave
    BY <1>1 DEF IInv, Begun
  <2> QED BY <1>1, <2>1 DEF IInv, Saves, ImageOf, Save
<1>3. Basic' /\ Values'
  BY DEF WriteCell, IInv, Basic, Values, Shaped, Filled
<1>4. /\ DOMAIN eeprom' = Cells
      /\ \A p \in Cells : eeprom'[p] = IF p = pos THEN image[pos] ELSE eeprom[p]
  BY DEF WriteCell, IInv, Held, HeldIn
<1>5. CASE pos = Len(image)
  <2>1. pos' = 0 /\ image' = None /\ last' = new /\ since' = {}
    BY <1>5 DEF WriteCell
  <2>2. \A p \in Cells : eeprom'[p] = image[p]
    <3>1. Cells = 1..pos
      BY <1>1, <1>5, ImageIs, CellsAre
    <3>2. \A p \in Cells : p = pos \/ p < pos
      BY <3>1, <1>1, CellsAre
    <3> QED BY <1>1, <1>4, <3>2
  <2>3. Saves' /\ Begun'
    BY <1>2, <2>1 DEF Saves, Begun, Good
  <2>4. Held'
    <3>1. \A p \in Cells : FromSave(eeprom, p)'
      BY <1>2, <2>1, <2>2 DEF FromSave, ImageOf
    <3> QED BY <1>4, <3>1 DEF Held, HeldIn
  <2>5. Whole'
    <3>1. \A p \in Cells : p <= 3 => p \in {1, 2, 3}
      BY CellsAre
    <3>2. \A p \in {1, 2, 3} : image[p] # Torn
      BY <1>2, CellsOfGood, Contents
    <3> QED BY <2>2, <3>1, <3>2 DEF Whole
  <2>6. Writing'
    BY <2>1 DEF Writing
  <2> QED BY <1>3, <2>3, <2>4, <2>5, <2>6 DEF IInv
<1>6. CASE pos # Len(image)
  <2>1. pos' = pos + 1 /\ UNCHANGED <<image, last, since, id, mval>>
    BY <1>6 DEF WriteCell
  <2>2. Saves' /\ Begun'
    BY <2>1 DEF IInv, Saves, Begun, Good
  <2>3. Held'
    <3> SUFFICES ASSUME NEW p \in Cells
                 PROVE  \/ p <= 3 /\ eeprom'[p] = Torn
                        \/ eeprom'[p] = Erased /\ last' = NoSave
                        \/ FromSave(eeprom, p)'
      BY <1>4 DEF Held, HeldIn
    <3>1. CASE p = pos
      <4>1. FromSave(eeprom, p)'
        BY <1>1, <1>2, <1>4, <2>1, <3>1 DEF FromSave, ImageOf
      <4> QED BY <4>1
    <3>2. CASE p # pos
      <4>1. eeprom'[p] = eeprom[p]
        BY <1>4, <3>2
      <4>2. FromSave(eeprom, p) => FromSave(eeprom, p)'
        BY <2>1, <4>1 DEF FromSave, ImageOf
      <4> QED BY <2>1, <4>1, <4>2 DEF IInv, Held, HeldIn
    <3> QED BY <3>1, <3>2
  <2>4. Whole'
    BY <1>1, <2>1 DEF Whole
  <2>5. Writing'
    <3>1. pos + 1 \in Cells /\ pos + 1 # 0
      BY <1>1, <1>6, ImageIs, CellsAre
    <3>2. \A p \in Cells : p < pos + 1 => p = pos \/ p < pos
      BY <1>1, CellsAre
    <3>3. \A p \in Cells : p < pos + 1 => eeprom'[p] = image[p]
      BY <1>1, <1>4, <3>2, CellsAre
    <3> QED BY <1>1, <2>1, <3>1, <3>3 DEF Writing
  <2> QED BY <1>3, <2>2, <2>3, <2>4, <2>5 DEF IInv
<1> QED BY <1>5, <1>6

(* Power is lost: one cell is cut short at most, and only when a save was  *)
(* being made; what is read back is shaped and filled in.                  *)
LEMMA RestartStep ==
  ASSUME IInv, NEW c \in Contract, Restart(c)
  PROVE  IInv'
<1>1. /\ id' = c /\ pos' = 0 /\ image' = None /\ since' = since /\ last' = last
      /\ count' = count
  BY DEF Restart
<1>2. \/ eeprom' = eeprom
      \/ \E q \in {pos} \cap 1..3 : eeprom' = [eeprom EXCEPT ![q] = Torn]
  BY DEF Restart
<1>3. Saves' /\ Begun'
  BY <1>1 DEF IInv, Saves, Begun, Good
<1>4. /\ DOMAIN eeprom' = Cells
      /\ \A p \in Cells : eeprom'[p] = eeprom[p] \/ (p <= 3 /\ eeprom'[p] = Torn)
  <2>1. DOMAIN eeprom = Cells
    BY DEF IInv, Held, HeldIn
  <2>2. CASE eeprom' = eeprom
    BY <2>1, <2>2
  <2>3. CASE \E q \in {pos} \cap 1..3 : eeprom' = [eeprom EXCEPT ![q] = Torn]
    <3>1. PICK q \in 1..3 : eeprom' = [eeprom EXCEPT ![q] = Torn]
      BY <2>3
    <3>2. DOMAIN eeprom' = Cells
      BY <2>1, <3>1
    <3>3. \A p \in Cells : eeprom'[p] = IF p = q THEN Torn ELSE eeprom[p]
      BY <2>1, <3>1
    <3> QED BY <3>2, <3>3
  <2> QED BY <1>2, <2>2, <2>3
<1>5. Held'
  <2> SUFFICES ASSUME NEW p \in Cells
               PROVE  \/ p <= 3 /\ eeprom'[p] = Torn
                      \/ eeprom'[p] = Erased /\ last' = NoSave
                      \/ FromSave(eeprom, p)'
    BY <1>4 DEF Held, HeldIn
  <2>1. CASE eeprom'[p] = eeprom[p]
    <3>1. FromSave(eeprom, p) => FromSave(eeprom, p)'
      BY <1>1, <2>1 DEF FromSave, ImageOf
    <3> QED BY <1>1, <2>1, <3>1 DEF IInv, Held, HeldIn
  <2> QED BY <1>4, <2>1
<1>6. Whole'
  <2>1. CASE since = {}
    <3>1. pos = 0
      BY <2>1 DEF IInv, Writing
    <3>2. eeprom' = eeprom
      BY <1>2, <3>1
    <3> QED BY <1>1, <3>2 DEF IInv, Whole
  <2> QED BY <1>1, <2>1 DEF Whole
<1>7. mupd' \in BOOLEAN /\ Values'
  <2> DEFINE r == Restored(c, eeprom')
  <2>1. mupd' = (r # None) /\ mval' = IF r # None THEN r ELSE Zeroes
    BY DEF Restart
  <2>2. r # None => Shaped(r) /\ Filled(r)
    <3>1. HeldIn(eeprom')
      BY <1>1, <1>5 DEF Held, HeldIn, FromSave, ImageOf
    <3> QED BY <3>1, StoredShape, RestoredIs DEF IInv
  <2>3. Shaped(mval') /\ (mupd' => Filled(mval'))
    <3> HIDE DEF r
    <3> QED BY <2>1, <2>2, ZeroesShape
  <2> HIDE DEF r
  <2> QED BY <2>1, <2>3 DEF Values, Shaped, Filled
<1>8. Basic'
  BY <1>1, <1>7 DEF IInv, Basic
<1>9. Writing'
  BY <1>1 DEF Writing
<1> QED BY <1>3, <1>5, <1>6, <1>7, <1>8, <1>9 DEF IInv

(* Power may be lost between any two cells, or inside one: the cells stay  *)
(* those of the last complete save and of the ones begun after it          *)
(* (eeprom_update_bytes, read_settings_from_eeprom).                       *)
THEOREM Inductive == Spec => []IInv
<1>1. IInv /\ [Next]_vars => IInv'
  <2> SUFFICES ASSUME IInv, [Next]_vars PROVE IInv'
    OBVIOUS
  <2>1. CASE Next
    BY <2>1, SetValuesStep, LocalChangeStep, StartSaveStep, WriteCellStep, RestartStep DEF Next
  <2>2. CASE UNCHANGED vars
    BY <2>2 DEF vars, IInv, Basic, Saves, Begun, Good, Values, Shaped, Filled, Held, HeldIn,
                FromSave, Whole, Writing
  <2> QED BY <2>1, <2>2
<1> QED BY InitIInv, <1>1, PTL DEF Spec

-----------------------------------------------------------------------------
(* The types, the bytes of all variables fitting into the cells: every     *)
(* cell that is stored and every byte that is read is one of the layout of *)
(* the values (write_settings_to_eeprom, read_settings_from_eeprom).       *)
THEOREM TypeCorrect == Spec => []TypeOK
<1>1. IInv => TypeOK
  <2> SUFFICES ASSUME IInv PROVE TypeOK
    OBVIOUS
  <2>1. id \in Contract /\ mupd \in BOOLEAN /\ count \in [given : Nat, saves : Nat]
    BY DEF IInv, Basic
  <2>2. DOMAIN mval = Vars /\ \A v \in Vars : mval[v] \in [1..Size[v] -> Byte]
    BY DEF IInv, Values, Shaped
  <2>3. DOMAIN eeprom = Cells
    BY DEF IInv, Held, HeldIn
  <2>4. ASSUME NEW p \in Cells
        PROVE  eeprom[p] \in IF p <= 3 THEN Contract \cup {Magic, Erased, Torn}
                             ELSE IF p = 4 THEN {Erased, Len(Size)} ELSE Byte
    <3>1. p \in Nat
      BY CellsAre
    <3>2. CASE p > 4
      <4>1. PICK v \in Vars : \E b \in 1..Size[v] : p = 4 + start[v] + b
        BY <3>2, CellsAre
      <4>2. eeprom[p] \in Byte
        BY <4>1, ByteHeld DEF IInv, Held
      <4> QED BY <3>1, <3>2, <4>2
    <3>3. CASE p \in {1, 2, 3, 4}
      <4>1. CASE FromSave(eeprom, p)
        <5>1. PICK x \in since \cup {last} : x # NoSave /\ eeprom[p] = ImageOf(x)[p]
          BY <4>1 DEF FromSave
        <5>2. Good(x)
          BY <5>1 DEF IInv, Saves
        <5> QED BY <3>3, <5>1, <5>2, CellsOfGood
      <4>2. CASE ~FromSave(eeprom, p)
        BY <3>3, <4>2 DEF IInv, Held, HeldIn
      <4> QED BY <4>1, <4>2
    <3>4. p > 4 \/ p \in {1, 2, 3, 4}
      BY CellsAre
    <3> QED BY <3>2, <3>3, <3>4
  <2>5. pos \in {0} \cup Cells /\ (image # None => pos # 0 /\ DOMAIN image = Cells)
    BY ImageIs DEF IInv, Writing
  <2> QED BY <2>1, <2>2, <2>3, <2>4, <2>5 DEF TypeOK
<1> QED BY Inductive, <1>1, PTL

(* A save that was not cut short is read back as it was, by a module with  *)
(* the same contract and by no other: with no later save begun, every cell *)
(* is one of that save (write_settings_to_eeprom has ended).               *)
THEOREM ReadBackCorrect == Spec => []CompleteSaveIsReadBack
<1>1. IInv => CompleteSaveIsReadBack
  <2> SUFFICES ASSUME IInv, last # NoSave, since = {}, NEW c \in Contract
               PROVE  Restored(c, eeprom) = IF c = last.contract THEN last.vals ELSE None
    BY DEF CompleteSaveIsReadBack
  <2>1. Good(last)
    BY DEF IInv, Saves
  <2>2. \A p \in Cells : eeprom[p] = ImageOf(last)[p]
    <3> SUFFICES ASSUME NEW p \in Cells PROVE eeprom[p] = ImageOf(last)[p]
      OBVIOUS
    <3>1. ~(p <= 3 /\ eeprom[p] = Torn)
      BY DEF IInv, Whole
    <3>2. FromSave(eeprom, p)
      BY <3>1 DEF IInv, Held, HeldIn
    <3> QED BY <3>2 DEF FromSave
  <2>3. /\ eeprom[1] = Magic
        /\ eeprom[2] = last.contract /\ eeprom[3] = last.contract
        /\ eeprom[4] = Len(Size)
    BY <2>1, <2>2, CellsOfGood, CellsAre
  <2>4. Stored(eeprom) = last.vals
    <3> DEFINE vals == last.vals
    <3>1. Shaped(vals) /\ Shaped(Stored(eeprom))
      BY <2>1, StoredShape DEF Good, IInv, Held
    <3>2. ASSUME NEW v \in Vars, NEW b \in 1..Size[v]
          PROVE  Stored(eeprom)[v][b] = vals[v][b]
      <4>1. Stored(eeprom)[v][b] = eeprom[4 + start[v] + b]
        BY DEF Stored
      <4>2. 4 + start[v] + b \in Cells
        BY CellsAre
      <4>3. ImageOf(last)[4 + start[v] + b] = vals[v][b]
        BY <2>1, CellsOfGood
      <4> QED BY <2>2, <4>1, <4>2, <4>3
    <3> HIDE DEF vals
    <3>3. ASSUME NEW v \in Vars PROVE Stored(eeprom)[v] = vals[v]
      <4> DEFINE r == Stored(eeprom)[v]
                 w == vals[v]
                 B == 1..Size[v]
      <4>1. r \in [B -> Byte] /\ w \in [B -> Byte]
        BY <3>1 DEF Shaped
      <4>2. \A b \in B : r[b] = w[b]
        BY <3>2
      <4> HIDE DEF r, w, B
      <4>3. r = [b \in B |-> r[b]] /\ w = [b \in B |-> w[b]]
        BY <4>1
      <4>4. r = w
        BY <4>2, <4>3
      <4> QED BY <4>4 DEF r, w
    <3>4. Stored(eeprom) = vals
      BY <3>1, <3>3 DEF Shaped
    <3> QED BY <3>4 DEF vals
  <2> QED BY <2>3, <2>4 DEF Restored
<1> QED BY Inductive, <1>1, PTL

(* However saves are cut short, what is read has the contract of the last  *)
(* complete save or of one begun since, and each of its bytes is a byte of *)
(* one of them or was never written (read_settings_from_eeprom after an    *)
(* interrupted write_settings_to_eeprom).                                  *)
THEOREM NothingOlderCorrect == Spec => []NothingOlderIsRead
<1>1. IInv => NothingOlderIsRead
  <2> SUFFICES ASSUME IInv, NEW c \in Contract, Restored(c, eeprom) # None
               PROVE  /\ \E x \in since \cup {last} : x.contract = c
                      /\ \A v \in Vars : \A b \in 1..Size[v] :
                           \/ Restored(c, eeprom)[v][b] = Erased /\ last = NoSave
                           \/ \E x \in (since \cup {last}) \ {NoSave} :
                                Restored(c, eeprom)[v][b] = x.vals[v][b]
    BY DEF NothingOlderIsRead
  <2>1. eeprom[2] = c /\ Restored(c, eeprom) = Stored(eeprom)
    BY RestoredIs
  <2>2. \E x \in since \cup {last} : x.contract = c
    <3>1. 2 \in Cells /\ eeprom[2] # Torn /\ eeprom[2] # Erased
      BY <2>1, Contents, CellsAre
    <3>2. FromSave(eeprom, 2)
      BY <3>1 DEF IInv, Held, HeldIn
    <3>3. PICK x \in since \cup {last} : x # NoSave /\ eeprom[2] = ImageOf(x)[2]
      BY <3>2 DEF FromSave
    <3>4. Good(x)
      BY <3>3 DEF IInv, Saves
    <3> QED BY <2>1, <3>3, <3>4, CellsOfGood
  <2>3. ASSUME NEW v \in Vars, NEW b \in 1..Size[v]
        PROVE  \/ Stored(eeprom)[v][b] = Erased /\ last = NoSave
               \/ \E x \in (since \cup {last}) \ {NoSave} : Stored(eeprom)[v][b] = x.vals[v][b]
    <3>1. Stored(eeprom)[v][b] = eeprom[4 + start[v] + b]
      BY DEF Stored
    <3> QED BY <3>1, ByteHeld DEF IInv, Held
  <2> QED BY <2>1, <2>2, <2>3
<1> QED BY Inductive, <1>1, PTL

(* Zeroes of a restarted module are never read from the EEPROM: a save is  *)
(* made of settings that are filled in, all of them                        *)
(* (write_to_eeprom_when_needed), and what is read back is filled in, too. *)
THEOREM FilledInCorrect == Spec => []FilledInBeforeStoring
<1>1. IInv => FilledInBeforeStoring
  <2> SUFFICES ASSUME IInv, NEW c \in Contract, Restored(c, eeprom) # None
               PROVE  Filled(Restored(c, eeprom))
    BY DEF FilledInBeforeStoring, Filled
  <2> QED BY RestoredIs, StoredShape DEF IInv, Held
<1> QED BY Inductive, <1>1, PTL
=============================================================================
