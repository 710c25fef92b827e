------------------------- MODULE SteamerHolesProofs -------------------------
(***************************************************************************)
(* Proofs about the rows of the kitchen and the holes of the steamers      *)
(* (SteamerHoles), for every set of tablets and holes, every capacity,     *)
(* every list of lines and every bound.  After lemmas about numbers, rows  *)
(* and calls there is one lemma for each transaction, which says row by    *)
(* row what it writes; the three invariants rest on those and look into no *)
(* action again.  The types (TypeInv) come first; then what is known of    *)
(* cancelled rows (CancelledInv), of the cages of a hole (SoundInv) and of *)
(* the portions of a line (CountInv).                                      *)
(***************************************************************************)
EXTENDS SteamerHoles, FiniteSetTheorems, SequenceTheorems, TLAPS

-----------------------------------------------------------------------------
(* Numbers and sets.  A set of numbers has a least element; that is what     *)
(* the inductions below are made of.                                         *)

\* A set of numbers that is not empty has a least one.
LEMMA LeastNumber ==
  ASSUME NEW T \in SUBSET Nat, T # {}
  PROVE  \E n \in T : \A m \in T : n <= m
<1> DEFINE R == {p \in Nat \X Nat : p[1] < p[2]}
<1>1. IsWellFoundedOn(R, Nat)
  BY NatLessThanWellFounded DEF OpToRel
<1>2. \E x \in T : \A y \in T : ~ (<<y, x>> \in R)
  <2> HIDE DEF R
  <2> QED BY <1>1, WFMin
<1>3. \A x, y \in Nat : x < y => <<x, y>> \in R
  OBVIOUS
<1> HIDE DEF R
<1>4. PICK x \in T : \A y \in T : ~ (<<y, x>> \in R)
  BY <1>2
<1>5. ASSUME NEW m \in T PROVE x <= m
  <2>1. m \in Nat /\ x \in Nat /\ ~ (<<m, x>> \in R)
    BY <1>4
  <2> QED BY <2>1, <1>3
<1> QED
  BY <1>5

\* And one that is bounded has a greatest.
LEMMA MaxOfBounded ==
  ASSUME NEW T \in SUBSET Nat, T # {}, NEW n \in Nat, \A x \in T : x <= n
  PROVE  Max(T) \in T /\ \A x \in T : Max(T) >= x
<1> DEFINE D == {k \in Nat : \E x \in T : k = n - x}
<1>2. \A x \in T : n - x \in D
  OBVIOUS
<1>1. PICK m \in D : \A k \in D : m <= k
  <2>1. D # {} /\ D \in SUBSET Nat
    BY <1>2
  <2> HIDE DEF D
  <2> QED BY <2>1, LeastNumber
<1>3. n - m \in T /\ \A x \in T : n - m >= x
  BY <1>1, <1>2
<1> QED
  BY <1>3 DEF Max

\* The numbers of a sequence are bounded.
LEMMA Bounded ==
  ASSUME NEW n \in Nat, NEW f \in [1..n -> Nat]
  PROVE  \E b \in Nat : \A i \in 1..n : f[i] <= b
<1> DEFINE Bound(k) == \E b \in Nat : \A i \in 1..k : f[i] <= b
           D == {k \in 0..n : ~Bound(k)}
<1>1. Bound(0)
  OBVIOUS
<1>2. ASSUME NEW m \in 1..n, Bound(m - 1) PROVE Bound(m)
  <2>1. PICK b \in Nat : \A i \in 1..(m - 1) : f[i] <= b
    BY <1>2
  <2>2. f[m] \in Nat /\ \A i \in 1..m : i \in 1..(m - 1) \/ i = m
    OBVIOUS
  <2>3. CASE f[m] <= b
    BY <2>1, <2>2, <2>3
  <2>4. CASE ~(f[m] <= b)
    <3>1. \A i \in 1..m : f[i] <= f[m]
      <4> SUFFICES ASSUME NEW i \in 1..m PROVE f[i] <= f[m]
        OBVIOUS
      <4>1. f[i] \in Nat
        OBVIOUS
      <4> QED BY <2>1, <2>2, <2>4, <4>1
    <3> QED BY <2>2, <3>1
  <2> QED BY <2>3, <2>4
<1> SUFFICES Bound(n)
  OBVIOUS
<1> HIDE DEF Bound
<1>3. SUFFICES ASSUME ~Bound(n) PROVE FALSE
  OBVIOUS
<1>4. n \in D /\ D \in SUBSET Nat
  BY <1>3
<1>5. PICK m \in D : \A k \in D : m <= k
  <2> HIDE DEF D
  <2> QED BY <1>4, LeastNumber
<1>6. m \in 1..n
  BY <1>1, <1>5
<1>7. Bound(m - 1)
  BY <1>5, <1>6
<1> QED BY <1>2, <1>5, <1>6, <1>7

\* Ranks by a total order are a numbering from 1.
Ordering(S, R) ==
  /\ \A x \in S : <<x, x>> \in R
  /\ \A x, y \in S : <<x, y>> \in R \/ <<y, x>> \in R
  /\ \A x, y \in S : <<x, y>> \in R /\ <<y, x>> \in R => x = y
  /\ \A x, y, z \in S : <<x, y>> \in R /\ <<y, z>> \in R => <<x, z>> \in R

\* The number of elements not above one numbers the elements from 1, without gap or double.
LEMMA Ranks ==
  ASSUME NEW S, IsFiniteSet(S), NEW R, Ordering(S, R), NEW f,
         f = [x \in S |-> Cardinality({y \in S : <<y, x>> \in R})]
  PROVE  /\ Cardinality(S) \in Nat
         /\ f \in Bijection(S, 1..Cardinality(S))
<1> DEFINE Below(x) == {y \in S : <<y, x>> \in R}
<1>1. Cardinality(S) \in Nat
  BY FS_CardinalityType
<1>2. ASSUME NEW x \in S
      PROVE  /\ IsFiniteSet(Below(x)) /\ Cardinality(Below(x)) \in Nat
             /\ Cardinality(Below(x)) >= 1 /\ Cardinality(Below(x)) <= Cardinality(S)
  <2>1. IsFiniteSet(Below(x)) /\ Cardinality(Below(x)) <= Cardinality(S)
    BY FS_Subset
  <2>2. Cardinality(Below(x)) \in Nat
    BY <2>1, FS_CardinalityType
  <2>3. x \in Below(x)
    BY DEF Ordering
  <2>4. Cardinality(Below(x)) # 0
    BY <2>1, <2>3, FS_EmptySet
  <2> QED BY <2>1, <2>2, <2>4
<1>3. ASSUME NEW x \in S, NEW y \in S, <<x, y>> \in R, x # y
      PROVE  Cardinality(Below(x)) # Cardinality(Below(y))
  <2>1. Below(x) \subseteq Below(y) /\ y \in Below(y) /\ y \notin Below(x)
    BY <1>3 DEF Ordering
  <2>2. Below(x) # Below(y) /\ Below(x) \in SUBSET Below(y)
    BY <2>1
  <2> QED BY <1>2, <2>2, FS_Subset
<1>4. f \in [S -> 1..Cardinality(S)]
  BY <1>1, <1>2
<1>5. f \in Injection(S, 1..Cardinality(S))
  <2>1. \A x, y \in S : f[x] = f[y] => x = y
    <3> SUFFICES ASSUME NEW x \in S, NEW y \in S, f[x] = f[y], x # y PROVE FALSE
      OBVIOUS
    <3>1. f[x] = Cardinality(Below(x)) /\ f[y] = Cardinality(Below(y))
      OBVIOUS
    <3>2. <<x, y>> \in R \/ <<y, x>> \in R
      BY DEF Ordering
    <3> HIDE DEF Below
    <3> QED BY <1>3, <3>1, <3>2
  <2> QED BY <1>4, <2>1 DEF Injection, IsInjective
<1>6. IsFiniteSet(1..Cardinality(S)) /\ Cardinality(1..Cardinality(S)) = Cardinality(S)
  BY <1>1, FS_Interval
<1>7. f \in Surjection(S, 1..Cardinality(S))
  BY <1>5, <1>6, FS_Injection
<1> QED BY <1>1, <1>5, <1>7 DEF Bijection

\* A function on 1..n is a sequence.
LEMMA IsSequence ==
  ASSUME NEW S, NEW n \in Nat, NEW f \in [1..n -> S]
  PROVE  f \in Seq(S) /\ Len(f) = n /\ DOMAIN f = 1..n
<1>1. f \in Seq(S)
  BY SeqDef
<1> QED BY <1>1, LenProperties

-----------------------------------------------------------------------------
(* Rows and calls.  What each edit of a row changes, and what it leaves.     *)

\* To be on no hole is a placement.
LEMMA NoSpot == NoHole \in Spots
  BY DEF Spots

\* The rows of the table, by primary key.
LEMMA RowShape ==
  ASSUME NEW rs \in Seq(Row)
  PROVE  /\ Len(rs) \in Nat /\ DOMAIN rs = 1..Len(rs)
         /\ rs \in [1..Len(rs) -> Row]
         /\ \A r \in DOMAIN rs : rs[r] \in Row
  BY LenProperties, ElementOfSeq

\* The fields of a row.
LEMMA RowFields ==
  ASSUME NEW x \in Row
  PROVE  /\ x.line \in Lines /\ x.table \in {Ordered[i].table : i \in Lines}
         /\ x.delivery \in BOOLEAN /\ x.dish \in {"waiting", "made", "cancelled"}
         /\ x.refund \in BOOLEAN /\ x.qty \in Nat /\ x.hole \in Spots
         /\ x.stack \in Nat /\ x.held \in BOOLEAN /\ x.rushed \in BOOLEAN
  BY DEF Row

\* A row that is put on a hole, at a level.
LEMMA Placed ==
  ASSUME NEW x \in Row, NEW h \in Spots, NEW s \in Nat
  PROVE  LET y == Place(x, h, s) IN
         /\ y \in Row
         /\ y.hole = h /\ y.stack = s /\ y.line = x.line
         /\ y.table = x.table /\ y.delivery = x.delivery /\ y.dish = x.dish
         /\ y.refund = x.refund /\ y.qty = x.qty /\ y.held = x.held
         /\ y.rushed = x.rushed
<1> DEFINE y == Place(x, h, s)
<1>1. y \in Row
  BY NoSpot DEF Row, Place
<1>2. /\ y.hole = h /\ y.stack = s
  BY DEF Row, Place
<1>3. /\ y.line = x.line /\ y.table = x.table /\ y.delivery = x.delivery
      /\ y.dish = x.dish /\ y.refund = x.refund /\ y.qty = x.qty
      /\ y.held = x.held /\ y.rushed = x.rushed
  BY DEF Row, Place
<1> QED BY <1>1, <1>2, <1>3

\* A row that is taken off its hole.
LEMMA TakenOff ==
  ASSUME NEW x \in Row
  PROVE  LET y == OffHole(x) IN
         /\ y \in Row
         /\ y.hole = NoHole /\ y.stack = 0 /\ y.line = x.line
         /\ y.table = x.table /\ y.delivery = x.delivery /\ y.dish = x.dish
         /\ y.refund = x.refund /\ y.qty = x.qty /\ y.held = x.held
         /\ y.rushed = x.rushed
<1> DEFINE y == OffHole(x)
<1>1. y \in Row
  BY NoSpot DEF Row, OffHole, Place
<1>2. /\ y.hole = NoHole /\ y.stack = 0
  BY DEF Row, OffHole, Place
<1>3. /\ y.line = x.line /\ y.table = x.table /\ y.delivery = x.delivery
      /\ y.dish = x.dish /\ y.refund = x.refund /\ y.qty = x.qty
      /\ y.held = x.held /\ y.rushed = x.rushed
  BY DEF Row, OffHole, Place
<1> QED BY <1>1, <1>2, <1>3

\* A row that is held back: off its hole and not rushed.
LEMMA HeldBack ==
  ASSUME NEW x \in Row
  PROVE  LET y == Hold(x) IN
         /\ y \in Row
         /\ y.hole = NoHole /\ y.stack = 0 /\ y.held = TRUE
         /\ y.rushed = FALSE /\ y.line = x.line /\ y.table = x.table
         /\ y.delivery = x.delivery /\ y.dish = x.dish /\ y.refund = x.refund
         /\ y.qty = x.qty
<1> DEFINE y == Hold(x)
<1>1. y \in Row
  BY NoSpot DEF Row, Hold, OffHole, Place
<1>2. /\ y.hole = NoHole /\ y.stack = 0 /\ y.held = TRUE
      /\ y.rushed = FALSE
  BY DEF Row, Hold, OffHole, Place
<1>3. /\ y.line = x.line /\ y.table = x.table /\ y.delivery = x.delivery
      /\ y.dish = x.dish /\ y.refund = x.refund /\ y.qty = x.qty
  BY DEF Row, Hold, OffHole, Place
<1> QED BY <1>1, <1>2, <1>3

\* A row that is served.
LEMMA IsMade ==
  ASSUME NEW x \in Row
  PROVE  LET y == Made(x) IN
         /\ y \in Row
         /\ y.dish = "made" /\ y.hole = NoHole /\ y.stack = 0
         /\ y.rushed = FALSE /\ y.line = x.line /\ y.table = x.table
         /\ y.delivery = x.delivery /\ y.refund = x.refund /\ y.qty = x.qty
         /\ y.held = x.held
<1> DEFINE y == Made(x)
<1>1. y \in Row
  BY NoSpot DEF Row, Made, OffHole, Place
<1>2. /\ y.dish = "made" /\ y.hole = NoHole /\ y.stack = 0
      /\ y.rushed = FALSE
  BY DEF Row, Made, OffHole, Place
<1>3. /\ y.line = x.line /\ y.table = x.table /\ y.delivery = x.delivery
      /\ y.refund = x.refund /\ y.qty = x.qty /\ y.held = x.held
  BY DEF Row, Made, OffHole, Place
<1> QED BY <1>1, <1>2, <1>3

\* A row on which money is given back.
LEMMA IsRefunded ==
  ASSUME NEW x \in Row
  PROVE  LET y == Refunded(x) IN
         /\ y \in Row
         /\ y.dish = "cancelled" /\ y.refund = TRUE /\ y.qty = 0
         /\ y.line = x.line /\ y.table = x.table /\ y.delivery = x.delivery
         /\ y.hole = x.hole /\ y.stack = x.stack /\ y.held = x.held
         /\ y.rushed = x.rushed
<1> DEFINE y == Refunded(x)
<1>1. y \in Row
  BY NoSpot DEF Row, Refunded
<1>2. /\ y.dish = "cancelled" /\ y.refund = TRUE /\ y.qty = 0
  BY DEF Row, Refunded
<1>3. /\ y.line = x.line /\ y.table = x.table /\ y.delivery = x.delivery
      /\ y.hole = x.hole /\ y.stack = x.stack /\ y.held = x.held
      /\ y.rushed = x.rushed
  BY DEF Row, Refunded
<1> QED BY <1>1, <1>2, <1>3

\* A row that is brought back.
LEMMA IsRestored ==
  ASSUME NEW x \in Row, NEW n \in Nat
  PROVE  LET y == Restored(x, n) IN
         /\ y \in Row
         /\ y.dish = "waiting" /\ y.refund = FALSE /\ y.qty = n
         /\ y.line = x.line /\ y.table = x.table /\ y.delivery = x.delivery
         /\ y.hole = x.hole /\ y.stack = x.stack /\ y.held = x.held
         /\ y.rushed = x.rushed
<1> DEFINE y == Restored(x, n)
<1>1. y \in Row
  BY NoSpot DEF Row, Restored
<1>2. /\ y.dish = "waiting" /\ y.refund = FALSE /\ y.qty = n
  BY DEF Row, Restored
<1>3. /\ y.line = x.line /\ y.table = x.table /\ y.delivery = x.delivery
      /\ y.hole = x.hole /\ y.stack = x.stack /\ y.held = x.held
      /\ y.rushed = x.rushed
  BY DEF Row, Restored
<1> QED BY <1>1, <1>2, <1>3

\* A row that a partial completion splits off.
LEMMA IsSplit ==
  ASSUME NEW x \in Row, NEW n \in Nat
  PROVE  LET y == Split(x, n) IN
         /\ y \in Row
         /\ y.delivery = FALSE /\ y.dish = "made" /\ y.refund = FALSE
         /\ y.qty = n /\ y.hole = NoHole /\ y.stack = 0
         /\ y.held = FALSE /\ y.rushed = FALSE /\ y.line = x.line
         /\ y.table = x.table
<1> DEFINE y == Split(x, n)
<1>1. y \in Row
  BY NoSpot DEF Row, Split, Made, OffHole, Place
<1>2. /\ y.delivery = FALSE /\ y.dish = "made" /\ y.refund = FALSE
      /\ y.qty = n /\ y.hole = NoHole /\ y.stack = 0
      /\ y.held = FALSE /\ y.rushed = FALSE
  BY DEF Row, Split, Made, OffHole, Place
<1>3. /\ y.line = x.line /\ y.table = x.table
  BY DEF Row, Split, Made, OffHole, Place
<1> QED BY <1>1, <1>2, <1>3

\* A row at another level of its hole.
LEMMA Relevelled ==
  ASSUME NEW x \in Row, NEW s \in Nat
  PROVE  LET y == [x EXCEPT !.stack = s] IN
         /\ y \in Row
         /\ y.stack = s /\ y.line = x.line /\ y.table = x.table
         /\ y.delivery = x.delivery /\ y.dish = x.dish /\ y.refund = x.refund
         /\ y.qty = x.qty /\ y.hole = x.hole /\ y.held = x.held
         /\ y.rushed = x.rushed
<1> DEFINE y == [x EXCEPT !.stack = s]
<1>1. y \in Row
  BY NoSpot DEF Row
<1>2. /\ y.stack = s
  BY DEF Row
<1>3. /\ y.line = x.line /\ y.table = x.table /\ y.delivery = x.delivery
      /\ y.dish = x.dish /\ y.refund = x.refund /\ y.qty = x.qty
      /\ y.hole = x.hole /\ y.held = x.held /\ y.rushed = x.rushed
  BY DEF Row
<1> QED BY <1>1, <1>2, <1>3

\* A row with another number of portions.
LEMMA Counted ==
  ASSUME NEW x \in Row, NEW n \in Nat
  PROVE  LET y == [x EXCEPT !.qty = n] IN
         /\ y \in Row
         /\ y.qty = n /\ y.line = x.line /\ y.table = x.table
         /\ y.delivery = x.delivery /\ y.dish = x.dish /\ y.refund = x.refund
         /\ y.hole = x.hole /\ y.stack = x.stack /\ y.held = x.held
         /\ y.rushed = x.rushed
<1> DEFINE y == [x EXCEPT !.qty = n]
<1>1. y \in Row
  BY NoSpot DEF Row
<1>2. /\ y.qty = n
  BY DEF Row
<1>3. /\ y.line = x.line /\ y.table = x.table /\ y.delivery = x.delivery
      /\ y.dish = x.dish /\ y.refund = x.refund /\ y.hole = x.hole
      /\ y.stack = x.stack /\ y.held = x.held /\ y.rushed = x.rushed
  BY DEF Row
<1> QED BY <1>1, <1>2, <1>3

\* A row that is held back before it is loaded.
LEMMA HeldInPlace ==
  ASSUME NEW x \in Row
  PROVE  LET y == [x EXCEPT !.held = TRUE, !.rushed = FALSE] IN
         /\ y \in Row
         /\ y.held = TRUE /\ y.rushed = FALSE /\ y.line = x.line
         /\ y.table = x.table /\ y.delivery = x.delivery /\ y.dish = x.dish
         /\ y.refund = x.refund /\ y.qty = x.qty /\ y.hole = x.hole
         /\ y.stack = x.stack
<1> DEFINE y == [x EXCEPT !.held = TRUE, !.rushed = FALSE]
<1>1. y \in Row
  BY NoSpot DEF Row
<1>2. /\ y.held = TRUE /\ y.rushed = FALSE
  BY DEF Row
<1>3. /\ y.line = x.line /\ y.table = x.table /\ y.delivery = x.delivery
      /\ y.dish = x.dish /\ y.refund = x.refund /\ y.qty = x.qty
      /\ y.hole = x.hole /\ y.stack = x.stack
  BY DEF Row
<1> QED BY <1>1, <1>2, <1>3

\* A row that is no longer held back.
LEMMA Fired ==
  ASSUME NEW x \in Row
  PROVE  LET y == [x EXCEPT !.held = FALSE] IN
         /\ y \in Row
         /\ y.held = FALSE /\ y.line = x.line /\ y.table = x.table
         /\ y.delivery = x.delivery /\ y.dish = x.dish /\ y.refund = x.refund
         /\ y.qty = x.qty /\ y.hole = x.hole /\ y.stack = x.stack
         /\ y.rushed = x.rushed
<1> DEFINE y == [x EXCEPT !.held = FALSE]
<1>1. y \in Row
  BY NoSpot DEF Row
<1>2. /\ y.held = FALSE
  BY DEF Row
<1>3. /\ y.line = x.line /\ y.table = x.table /\ y.delivery = x.delivery
      /\ y.dish = x.dish /\ y.refund = x.refund /\ y.qty = x.qty
      /\ y.hole = x.hole /\ y.stack = x.stack /\ y.rushed = x.rushed
  BY DEF Row
<1> QED BY <1>1, <1>2, <1>3

\* A row that is rushed.
LEMMA Rushed ==
  ASSUME NEW x \in Row
  PROVE  LET y == [x EXCEPT !.rushed = TRUE] IN
         /\ y \in Row
         /\ y.rushed = TRUE /\ y.line = x.line /\ y.table = x.table
         /\ y.delivery = x.delivery /\ y.dish = x.dish /\ y.refund = x.refund
         /\ y.qty = x.qty /\ y.hole = x.hole /\ y.stack = x.stack
         /\ y.held = x.held
<1> DEFINE y == [x EXCEPT !.rushed = TRUE]
<1>1. y \in Row
  BY NoSpot DEF Row
<1>2. /\ y.rushed = TRUE
  BY DEF Row
<1>3. /\ y.line = x.line /\ y.table = x.table /\ y.delivery = x.delivery
      /\ y.dish = x.dish /\ y.refund = x.refund /\ y.qty = x.qty
      /\ y.hole = x.hole /\ y.stack = x.stack /\ y.held = x.held
  BY DEF Row
<1> QED BY <1>1, <1>2, <1>3

\* The calls a tablet may have under way when the rows of D exist.
Freed(p) == {q[1] : q \in ToSet(p.pairs)}
Takers(p) == {q[2] : q \in ToSet(p.pairs)}

Apart(p) ==
  /\ Freed(p) \cap p.direct = {}
  /\ Takers(p) \cap (Freed(p) \cup p.direct) = {}
  /\ \A i, j \in DOMAIN p.pairs :
       i # j => p.pairs[i][1] # p.pairs[j][1] /\ p.pairs[i][2] # p.pairs[j][2]

HoldPlan(D) == {p \in [direct : SUBSET D, pairs : Seq(D \X D)] : Apart(p)}

PlanIn(c, D) ==
  /\ Len(c.read) = Len(c.ids)
  /\ c.op \in Placing => c.plan[1] \in [next : Nat, first : Spots]
  /\ c.op \in Taking => c.plan[1] \in [first : Spots]
  /\ c.op = "hold" => c.plan[1] \in HoldPlan(D)

\* No row is named twice.
Distinct(c) == \A i, j \in DOMAIN c.ids : c.ids[i] = c.ids[j] => i = j

CallIn(c, D) ==
  /\ c \in Call
  /\ \A i \in DOMAIN c.ids : c.ids[i] \in D
  /\ c.op \in Floor => Distinct(c)
  /\ Len(c.ids) >= 1
  /\ Len(c.read) <= Len(c.ids)
  /\ c.op \in Placing => c.hole \in Holes
  /\ c.op = "complete" =>
       /\ Len(c.portions) = Len(c.ids)
       /\ \A i \in DOMAIN c.read : c.portions[i] <= c.read[i].qty
       /\ \A i, j \in DOMAIN c.read : c.ids[i] = c.ids[j] => i = j
  /\ c.plan # <<>> => PlanIn(c, D)

CallsIn ==
  /\ call \in [Tablets -> {NoCall} \cup Call]
  /\ \A t \in Tablets : call[t] # NoCall => CallIn(call[t], DOMAIN rows)

Rest ==
  /\ picked \subseteq DOMAIN rows
  /\ commits \in Nat /\ changes \in Nat /\ serial \in BOOLEAN
  /\ touched \subseteq Lines /\ raced \subseteq DOMAIN rows /\ twice \in BOOLEAN

TypeInv == rows \in Seq(Row) /\ CallsIn /\ Rest

\* The fields of a call.
LEMMA CallShape ==
  ASSUME NEW c \in Call
  PROVE  /\ c.op \in Ops /\ c.hole \in Spots
         /\ c.portions \in Seq(Nat) /\ Len(c.portions) \in Nat
         /\ \A i \in 1..Len(c.portions) : c.portions[i] \in Nat
         /\ c.ids \in Seq(Nat) /\ Len(c.ids) \in Nat /\ DOMAIN c.ids = 1..Len(c.ids)
         /\ \A i \in DOMAIN c.ids : c.ids[i] \in Nat
         /\ c.read \in Seq([hole : Spots, qty : Nat])
         /\ Len(c.read) \in Nat /\ DOMAIN c.read = 1..Len(c.read)
         /\ \A i \in DOMAIN c.read : c.read[i].hole \in Spots /\ c.read[i].qty \in Nat
         /\ c.plan \in Seq(Plan)
<1>1. /\ c.op \in Ops /\ c.hole \in Spots /\ c.portions \in Seq(Nat)
      /\ c.ids \in Seq(Nat) /\ c.plan \in Seq(Plan)
      /\ c.read \in Seq([hole : Spots, qty : Nat])
  BY DEF Call
<1>2. Len(c.ids) \in Nat /\ DOMAIN c.ids = 1..Len(c.ids)
      /\ \A i \in DOMAIN c.ids : c.ids[i] \in Nat
  BY <1>1, LenProperties, ElementOfSeq
<1>3. Len(c.read) \in Nat /\ DOMAIN c.read = 1..Len(c.read)
      /\ \A i \in DOMAIN c.read : c.read[i] \in [hole : Spots, qty : Nat]
  BY <1>1, LenProperties, ElementOfSeq
<1>4. Len(c.portions) \in Nat /\ \A i \in 1..Len(c.portions) : c.portions[i] \in Nat
  BY <1>1, LenProperties, ElementOfSeq
<1> QED BY <1>1, <1>2, <1>3, <1>4

\* The fields that change while a call is under way.
LEMMA CallEdits ==
  ASSUME NEW c \in Call, NEW v
  PROVE  /\ v \in Seq([hole : Spots, qty : Nat]) =>
              /\ [c EXCEPT !.read = v] \in Call
              /\ [c EXCEPT !.read = v].read = v /\ [c EXCEPT !.read = v].ids = c.ids
              /\ [c EXCEPT !.read = v].op = c.op /\ [c EXCEPT !.read = v].hole = c.hole
              /\ [c EXCEPT !.read = v].portions = c.portions
              /\ [c EXCEPT !.read = v].plan = c.plan
         /\ v \in Seq(Nat) =>
              /\ [c EXCEPT !.ids = v] \in Call
              /\ [c EXCEPT !.ids = v].ids = v /\ [c EXCEPT !.ids = v].read = c.read
              /\ [c EXCEPT !.ids = v].op = c.op /\ [c EXCEPT !.ids = v].hole = c.hole
              /\ [c EXCEPT !.ids = v].portions = c.portions
              /\ [c EXCEPT !.ids = v].plan = c.plan
         /\ v \in Seq(Plan) =>
              /\ [c EXCEPT !.plan = v] \in Call
              /\ [c EXCEPT !.plan = v].plan = v /\ [c EXCEPT !.plan = v].ids = c.ids
              /\ [c EXCEPT !.plan = v].op = c.op /\ [c EXCEPT !.plan = v].hole = c.hole
              /\ [c EXCEPT !.plan = v].portions = c.portions
              /\ [c EXCEPT !.plan = v].read = c.read
<1>1. ASSUME v \in Seq([hole : Spots, qty : Nat])
      PROVE  [c EXCEPT !.read = v] \in Call
  BY <1>1 DEF Call
<1>2. ASSUME v \in Seq(Nat)
      PROVE  [c EXCEPT !.ids = v] \in Call
  BY <1>2 DEF Call
<1>3. ASSUME v \in Seq(Plan)
      PROVE  [c EXCEPT !.plan = v] \in Call
  BY <1>3 DEF Call
<1>4. /\ [c EXCEPT !.read = v].read = v /\ [c EXCEPT !.read = v].ids = c.ids
      /\ [c EXCEPT !.read = v].op = c.op /\ [c EXCEPT !.read = v].hole = c.hole
      /\ [c EXCEPT !.read = v].portions = c.portions
      /\ [c EXCEPT !.read = v].plan = c.plan
  BY DEF Call
<1>5. /\ [c EXCEPT !.ids = v].ids = v /\ [c EXCEPT !.ids = v].read = c.read
      /\ [c EXCEPT !.ids = v].op = c.op /\ [c EXCEPT !.ids = v].hole = c.hole
      /\ [c EXCEPT !.ids = v].portions = c.portions
      /\ [c EXCEPT !.ids = v].plan = c.plan
  BY DEF Call
<1>6. /\ [c EXCEPT !.plan = v].plan = v /\ [c EXCEPT !.plan = v].ids = c.ids
      /\ [c EXCEPT !.plan = v].op = c.op /\ [c EXCEPT !.plan = v].hole = c.hole
      /\ [c EXCEPT !.plan = v].portions = c.portions
      /\ [c EXCEPT !.plan = v].read = c.read
  BY DEF Call
<1> QED BY <1>1, <1>2, <1>3, <1>4, <1>5, <1>6

\* A call on some rows is a call when there are more of them.
LEMMA CallGrows ==
  ASSUME NEW c, NEW D, NEW E, CallIn(c, D), D \subseteq E
  PROVE  CallIn(c, E)
<1>1. ASSUME c.plan # <<>> PROVE PlanIn(c, E)
  <2>1. PlanIn(c, D)
    BY <1>1 DEF CallIn
  <2>2. HoldPlan(D) \subseteq HoldPlan(E)
    <3>1. Seq(D \X D) \subseteq Seq(E \X E)
      <4>1. D \X D \subseteq E \X E
        OBVIOUS
      <4> QED BY <4>1, SeqMonotonic
    <3> QED BY <3>1 DEF HoldPlan
  <2> QED BY <2>1, <2>2 DEF PlanIn
<1> QED BY <1>1 DEF CallIn

\* A step of one tablet, or none, and rows that may have become more.
LEMMA CallMoves ==
  ASSUME CallsIn, DOMAIN rows \subseteq DOMAIN rows',
         \/ UNCHANGED call
         \/ \E t \in Tablets, c \in {NoCall} \cup Call :
              /\ call' = [call EXCEPT ![t] = c]
              /\ c # NoCall => CallIn(c, DOMAIN rows')
  PROVE  CallsIn'
<1>1. \A t \in Tablets : call[t] # NoCall => CallIn(call[t], DOMAIN rows')
  BY CallGrows DEF CallsIn
<1>2. CASE UNCHANGED call
  BY <1>1, <1>2 DEF CallsIn
<1>3. ASSUME NEW t \in Tablets, NEW c \in {NoCall} \cup Call,
             call' = [call EXCEPT ![t] = c],
             c # NoCall => CallIn(c, DOMAIN rows')
      PROVE  CallsIn'
  <2>1. call' \in [Tablets -> {NoCall} \cup Call]
    BY <1>3 DEF CallsIn
  <2>2. \A u \in Tablets : call'[u] = IF u = t THEN c ELSE call[u]
    BY <1>3 DEF CallsIn
  <2> QED BY <1>1, <1>3, <2>1, <2>2 DEF CallsIn
<1> QED BY <1>2, <1>3

\* The type invariant is stronger than the one the runs check.
LEMMA TypeInvType == TypeInv => TypeOK
  BY DEF TypeInv, TypeOK, CallsIn, CallIn, Rest

\* The lines of the bills, as they are ordered.
LEMMA OrderedShape ==
  /\ Len(Ordered) \in Nat /\ Lines = 1..Len(Ordered)
  /\ \A i \in Lines : /\ Ordered[i].qty \in Nat \ {0} /\ Ordered[i].delivery \in BOOLEAN
                      /\ Ordered[i].table \in {Ordered[j].table : j \in Lines}
  /\ Portions \subseteq Nat \ {0}
<1> DEFINE Order == [table : {Ordered[i].table : i \in DOMAIN Ordered},
                     delivery : BOOLEAN, qty : Nat \ {0}]
<1>1. Ordered \in Seq(Order)
  BY SteamerAssumption
<1>2. Len(Ordered) \in Nat /\ DOMAIN Ordered = 1..Len(Ordered)
      /\ \A i \in DOMAIN Ordered : Ordered[i] \in Order
  <2> HIDE DEF Order
  <2> QED BY <1>1, LenProperties, ElementOfSeq
<1>3. \A i \in Lines : /\ Ordered[i].qty \in Nat \ {0} /\ Ordered[i].delivery \in BOOLEAN
                       /\ Ordered[i].table \in {Ordered[j].table : j \in Lines}
  BY <1>2 DEF Lines
<1>4. Portions \subseteq Nat \ {0}
  BY <1>3 DEF Portions
<1> QED BY <1>2, <1>3, <1>4 DEF Lines

\* A line is stored as a row.
LEMMA StoredRow ==
  ASSUME NEW i \in Lines
  PROVE  Stored(i) \in Row
  BY OrderedShape, NoSpot DEF Stored, Row

\* The type invariant holds at the start.
LEMMA TypeInit == Init => TypeInv
<1> SUFFICES ASSUME Init PROVE TypeInv
  OBVIOUS
<1>1. rows \in Seq(Row)
  <2>1. rows \in [1..Len(Ordered) -> Row]
    BY OrderedShape, StoredRow DEF Init
  <2> QED BY <2>1, OrderedShape, IsSequence
<1>2. CallsIn
  BY DEF Init, CallsIn
<1>3. Rest
  BY DEF Init, Rest
<1> QED BY <1>1, <1>2, <1>3 DEF TypeInv

\* A call that a tablet sends names rows there are.
LEMMA OpenType ==
  ASSUME TypeInv, NEW t \in Tablets, Open(t)
  PROVE  TypeInv'
<1>0. PICK op \in Ops, k \in 1..MaxNamed[serial] :
        \E ids \in [1..k -> DOMAIN rows],
           h \in IF op \in Placing THEN Holes ELSE {NoHole},
           n \in IF op = "complete" THEN [1..k -> {0} \cup Portions] ELSE {<<>>} :
          /\ op \in Floor => IsInjective(ids)
          /\ call' = [call EXCEPT ![t] = [op |-> op, ids |-> ids, hole |-> h, portions |-> n,
                                         read |-> <<>>, plan |-> <<>>]]
  BY DEF Open
<1>1. PICK ids \in [1..k -> DOMAIN rows],
           h \in IF op \in Placing THEN Holes ELSE {NoHole},
           n \in IF op = "complete" THEN [1..k -> {0} \cup Portions] ELSE {<<>>} :
        /\ op \in Floor => IsInjective(ids)
        /\ call' = [call EXCEPT ![t] = [op |-> op, ids |-> ids, hole |-> h, portions |-> n,
                                        read |-> <<>>, plan |-> <<>>]]
  BY <1>0
<1> DEFINE c == [op |-> op, ids |-> ids, hole |-> h, portions |-> n,
                 read |-> <<>>, plan |-> <<>>]
<1>2. UNCHANGED <<rows, picked, commits, changes, serial, touched, raced, twice>>
  BY DEF Open, counts, history
<1>3. k \in Nat /\ k >= 1
  <2>1. MaxNamed[serial] \in Nat
    BY SteamerAssumption DEF TypeInv, Rest
  <2> QED BY <2>1
<1>4. ids \in Seq(Nat) /\ Len(ids) = k /\ DOMAIN ids = 1..k
  <2>1. DOMAIN rows \subseteq Nat
    BY RowShape DEF TypeInv
  <2>2. ids \in [1..k -> Nat]
    BY <2>1
  <2> QED BY <1>3, <2>2, IsSequence
<1>9. n \in Seq(Nat) /\ (op = "complete" => Len(n) = k)
  <2>1. CASE op = "complete"
    <3>1. {0} \cup Portions \subseteq Nat
      BY OrderedShape
    <3>2. n \in [1..k -> Nat]
      BY <2>1, <3>1
    <3> QED BY <1>3, <3>2, IsSequence
  <2>2. CASE op # "complete"
    BY <2>2, EmptySeq
  <2> QED BY <2>1, <2>2
<1>5. c \in Call
  <2>1. <<>> \in Seq([hole : Spots, qty : Nat]) /\ <<>> \in Seq(Plan)
    BY EmptySeq
  <2>2. h \in Spots
    BY DEF Spots
  <2> QED BY <1>4, <1>9, <2>1, <2>2 DEF Call
<1>6. CallIn(c, DOMAIN rows)
  <2>1. \A i \in DOMAIN ids : ids[i] \in DOMAIN rows
    BY <1>4
  <2>2. op \in Floor => Distinct(c)
    BY <1>1 DEF Distinct, IsInjective
  <2>3. Len(<<>>) = 0 /\ DOMAIN <<>> = {}
    OBVIOUS
  <2>4. op \in Placing => h \in Holes
    OBVIOUS
  <2> QED BY <1>3, <1>4, <1>5, <1>9, <2>1, <2>2, <2>3, <2>4 DEF CallIn
<1>7. CallsIn'
  <2>1. call' = [call EXCEPT ![t] = c]
    BY <1>1
  <2> HIDE DEF c
  <2> QED BY <1>2, <1>5, <1>6, <2>1, CallMoves DEF TypeInv
<1> QED BY <1>2, <1>7 DEF TypeInv, Rest

\* Dropping one element of a sequence.
LEMMA Removed ==
  ASSUME NEW S, NEW s \in Seq(S), NEW i \in 1..Len(s)
  PROVE  /\ RemoveAt(s, i) \in Seq(S)
         /\ Len(RemoveAt(s, i)) = Len(s) - 1
         /\ \A j \in 1..(Len(s) - 1) :
              RemoveAt(s, i)[j] = IF j < i THEN s[j] ELSE s[j + 1]
<1>1. Len(s) \in Nat /\ \A j \in 1..Len(s) : s[j] \in S
  BY LenProperties, ElementOfSeq
<1> DEFINE a == SubSeq(s, 1, i - 1)
           b == SubSeq(s, i + 1, Len(s))
<1>2. /\ a \in Seq(S) /\ Len(a) = i - 1
      /\ \A j \in 1..(i - 1) : a[j] = s[j]
  <2>1. /\ SubSeq(s, 1, i - 1) \in Seq(S)
        /\ Len(SubSeq(s, 1, i - 1)) = IF 1 <= i - 1 THEN i - 1 - 1 + 1 ELSE 0
        /\ \A j \in 1..(i - 1 - 1 + 1) : SubSeq(s, 1, i - 1)[j] = s[1 + j - 1]
    BY <1>1, SubSeqProperties
  <2> QED BY <1>1, <2>1
<1>3. /\ b \in Seq(S) /\ Len(b) = Len(s) - i
      /\ \A j \in 1..(Len(s) - i) : b[j] = s[i + j]
  <2>1. /\ SubSeq(s, i + 1, Len(s)) \in Seq(S)
        /\ Len(SubSeq(s, i + 1, Len(s))) = IF i + 1 <= Len(s) THEN Len(s) - (i + 1) + 1 ELSE 0
        /\ \A j \in 1..(Len(s) - (i + 1) + 1) : SubSeq(s, i + 1, Len(s))[j] = s[(i + 1) + j - 1]
    BY <1>1, SubSeqProperties
  <2> QED BY <1>1, <2>1
<1> HIDE DEF a, b
<1>4. /\ a \o b \in Seq(S) /\ Len(a \o b) = Len(a) + Len(b)
      /\ \A j \in 1..(Len(a) + Len(b)) : (a \o b)[j] = IF j <= Len(a) THEN a[j] ELSE b[j - Len(a)]
  BY <1>2, <1>3, ConcatProperties
<1>5. Len(a \o b) = Len(s) - 1
  BY <1>1, <1>2, <1>3, <1>4
<1>6. ASSUME NEW j \in 1..(Len(s) - 1)
      PROVE  (a \o b)[j] = IF j < i THEN s[j] ELSE s[j + 1]
  <2>1. CASE j < i
    BY <1>1, <1>2, <1>3, <1>4, <2>1
  <2>2. CASE ~(j < i)
    <3>1. j - Len(a) \in 1..(Len(s) - i) /\ i + (j - Len(a)) = j + 1
      BY <1>1, <1>2, <2>2
    <3>2. (a \o b)[j] = b[j - Len(a)]
      BY <1>1, <1>2, <1>3, <1>4, <2>2
    <3> QED BY <1>3, <2>2, <3>1, <3>2
  <2> QED BY <2>1, <2>2
<1>7. RemoveAt(s, i) = a \o b
  BY DEF RemoveAt, a, b
<1> QED BY <1>4, <1>5, <1>6, <1>7

\* An answer leaves nothing under way at its tablet.
LEMMA AnswerType ==
  ASSUME CallsIn, NEW t \in Tablets, Answer(t), DOMAIN rows \subseteq DOMAIN rows'
  PROVE  CallsIn'
  BY CallMoves DEF Answer

\* A check reads one more row of the call, leaves one out or ends it.
LEMMA CheckType ==
  ASSUME TypeInv, NEW t \in Tablets, Check(t)
  PROVE  TypeInv'
<1> DEFINE c == call[t]
           i == Len(c.read) + 1
           x == rows[c.ids[i]]
           seen == [hole |-> x.hole, qty |-> x.qty]
<1>1. /\ c \in Call /\ CallIn(c, DOMAIN rows) /\ Len(c.read) # Len(c.ids)
      /\ UNCHANGED <<rows, picked, commits, changes, serial, touched, raced, twice>>
  BY DEF TypeInv, CallsIn, Check, AllRead, Idle, Unwritten, counts, history
<1>2. /\ Len(c.ids) \in Nat /\ DOMAIN c.ids = 1..Len(c.ids) /\ c.ids \in Seq(Nat)
      /\ Len(c.read) \in Nat /\ DOMAIN c.read = 1..Len(c.read)
      /\ c.read \in Seq([hole : Spots, qty : Nat])
  BY <1>1, CallShape
<1>3. i \in 1..Len(c.ids)
  BY <1>1, <1>2 DEF CallIn
<1>4. x \in Row
  <2>1. c.ids[i] \in DOMAIN rows
    BY <1>1, <1>2, <1>3 DEF CallIn
  <2> QED BY <2>1, RowShape DEF TypeInv
<1>5. c.plan = <<>>
  BY <1>1 DEF CallIn, PlanIn
<1>6. ASSUME Fits(c, i, x), call' = [call EXCEPT ![t].read = Append(@, seen)]
      PROVE  CallsIn'
  <2> DEFINE read == Append(c.read, seen)
             d == [c EXCEPT !.read = read]
  <2>1. seen \in [hole : Spots, qty : Nat]
    BY <1>4, RowFields
  <2>2. /\ read \in Seq([hole : Spots, qty : Nat]) /\ Len(read) = i
        /\ DOMAIN read = 1..i
        /\ \A j \in 1..Len(c.read) : read[j] = c.read[j]
        /\ read[i] = seen
    <3> HIDE DEF seen
    <3>1. /\ read \in Seq([hole : Spots, qty : Nat]) /\ Len(read) = Len(c.read) + 1
          /\ \A j \in 1..Len(c.read) : read[j] = c.read[j]
          /\ read[Len(c.read) + 1] = seen
      BY <1>2, <2>1, AppendProperties
    <3> QED BY <3>1, LenProperties
  <2>3. c.op = "complete" => c.portions[i] <= x.qty /\ ~Again(c, i)
    BY <1>6 DEF Fits, Completable
  <2> HIDE DEF read
  <2>4. /\ d \in Call /\ d.read = read /\ d.ids = c.ids /\ d.op = c.op /\ d.hole = c.hole
        /\ d.portions = c.portions /\ d.plan = c.plan
    <3> HIDE DEF c
    <3>1. c \in Call /\ read \in Seq([hole : Spots, qty : Nat])
      BY <1>1, <2>2
    <3> QED BY <3>1, CallEdits
  <2>5. call' = [call EXCEPT ![t] = d]
    BY <1>6 DEF read
  <2> HIDE DEF d
  <2>6. c.op = "complete" => \A j \in DOMAIN read : c.portions[j] <= read[j].qty
    <3> SUFFICES ASSUME c.op = "complete", NEW j \in 1..i
                 PROVE  c.portions[j] <= read[j].qty
      BY <2>2
    <3>1. CASE j = i
      BY <2>2, <2>3, <3>1
    <3>2. CASE j # i
      <4>1. j \in 1..Len(c.read)
        BY <1>2, <3>2
      <4> HIDE DEF c, i
      <4> QED BY <1>1, <1>2, <2>2, <4>1 DEF CallIn
    <3> QED BY <3>1, <3>2
  <2>8. c.op = "complete" => \A j, k \in DOMAIN read : c.ids[j] = c.ids[k] => j = k
    <3> SUFFICES ASSUME c.op = "complete", NEW j \in 1..i, NEW k \in 1..i,
                        c.ids[j] = c.ids[k], j # k
                 PROVE  FALSE
      BY <2>2
    <3>1. i \in Nat /\ Len(c.read) \in Nat /\ i = Len(c.read) + 1
      BY <1>2
    <3>2. \A m \in 1..(i - 1) : c.ids[m] # c.ids[i]
      BY <2>3 DEF Again
    <3>3. \A m, n \in DOMAIN c.read : c.ids[m] = c.ids[n] => m = n
      BY <1>1 DEF CallIn
    <3> HIDE DEF c, i
    <3>4. CASE j = i
      BY <3>1, <3>2, <3>4
    <3>5. CASE k = i
      BY <3>1, <3>2, <3>5
    <3>6. CASE j # i /\ k # i
      <4>1. j \in DOMAIN c.read /\ k \in DOMAIN c.read
        BY <1>2, <3>1, <3>6
      <4> QED BY <3>3, <4>1
    <3> QED BY <3>4, <3>5, <3>6
  <2>9. d.op \in Floor => Distinct(d)
    BY <1>1, <2>4 DEF CallIn, Distinct
  <2>7. CallIn(d, DOMAIN rows)
    <3> HIDE DEF c, i
    <3>1. Len(read) <= Len(c.ids)
      BY <1>2, <1>3, <2>2
    <3> QED BY <1>1, <1>5, <2>4, <2>6, <2>8, <2>9, <3>1 DEF CallIn
  <2> HIDE DEF c
  <2> QED BY <1>1, <2>4, <2>5, <2>7, CallMoves DEF TypeInv
<1>7. ASSUME c.op \in Floor, Len(c.ids) > 1, call' = [call EXCEPT ![t].ids = RemoveAt(@, i)]
      PROVE  CallsIn'
  <2> DEFINE ids == RemoveAt(c.ids, i)
             d == [c EXCEPT !.ids = ids]
  <2>1. /\ ids \in Seq(Nat) /\ Len(ids) = Len(c.ids) - 1
        /\ \A j \in 1..(Len(c.ids) - 1) :
             ids[j] = IF j < i THEN c.ids[j] ELSE c.ids[j + 1]
    <3> HIDE DEF i
    <3> QED BY <1>2, <1>3, Removed
  <2>2. DOMAIN ids = 1..(Len(c.ids) - 1)
    BY <2>1, LenProperties
  <2> HIDE DEF ids
  <2>3. /\ d \in Call /\ d.read = c.read /\ d.ids = ids /\ d.op = c.op /\ d.hole = c.hole
        /\ d.portions = c.portions /\ d.plan = c.plan
    <3> HIDE DEF c
    <3> QED BY <1>1, <2>1, CallEdits
  <2>4. call' = [call EXCEPT ![t] = d]
    BY <1>7 DEF ids
  <2> HIDE DEF d
  <2>5. \A j \in DOMAIN ids : ids[j] \in DOMAIN rows
    <3> HIDE DEF c, i
    <3> SUFFICES ASSUME NEW j \in 1..(Len(c.ids) - 1) PROVE ids[j] \in DOMAIN rows
      BY <2>2
    <3>1. j \in DOMAIN c.ids /\ j + 1 \in DOMAIN c.ids
      BY <1>2
    <3> QED BY <1>1, <2>1, <3>1 DEF CallIn
  <2>6. \A j, k \in DOMAIN ids : ids[j] = ids[k] => j = k
    <3> SUFFICES ASSUME NEW j \in DOMAIN ids, NEW k \in DOMAIN ids, ids[j] = ids[k]
                 PROVE  j = k
      OBVIOUS
    <3> DEFINE up(n) == IF n < i THEN n ELSE n + 1
    <3>0. /\ j \in 1..(Len(c.ids) - 1) /\ k \in 1..(Len(c.ids) - 1)
          /\ i \in Nat /\ Len(c.ids) \in Nat
      BY <1>2, <2>2
    <3> HIDE DEF c, i
    <3>1. up(j) \in DOMAIN c.ids
      BY <1>2, <3>0
    <3>2. up(k) \in DOMAIN c.ids
      BY <1>2, <3>0
    <3>3. up(j) = up(k) => j = k
      BY <3>0
    <3>4. ids[j] = c.ids[up(j)] /\ ids[k] = c.ids[up(k)]
      BY <2>1, <2>2
    <3> QED BY <1>1, <1>7, <3>1, <3>2, <3>3, <3>4 DEF CallIn, Distinct
  <2>8. d.op \in Floor => Distinct(d)
    BY <2>3, <2>6 DEF Distinct
  <2>7. CallIn(d, DOMAIN rows)
    <3>2. c.op # "complete"
      BY <1>7 DEF Floor
    <3>1. Len(ids) >= 1 /\ Len(c.read) <= Len(ids)
      BY <1>2, <1>3, <1>7, <2>1
    <3> HIDE DEF c, i
    <3> QED BY <1>1, <1>5, <2>3, <2>5, <2>8, <3>1, <3>2 DEF CallIn
  <2> HIDE DEF c
  <2> QED BY <1>1, <2>3, <2>4, <2>7, CallMoves DEF TypeInv
<1>8. ASSUME Answer(t) PROVE CallsIn'
  BY <1>1, <1>8, AnswerType DEF TypeInv
<1>9. CallsIn'
  BY <1>6, <1>7, <1>8 DEF Check
<1> QED BY <1>1, <1>9 DEF TypeInv, Rest

\* The top of a hole.
LEMMA StacksBounded ==
  ASSUME rows \in Seq(Row), NEW h
  PROVE  /\ Top(h) \in Nat
         /\ Top(h) = 0 \/ \E r \in OnHole(h) : Top(h) = rows[r].stack
         /\ \A r \in OnHole(h) : rows[r].stack <= Top(h)
<1>1. /\ Len(rows) \in Nat /\ DOMAIN rows = 1..Len(rows)
      /\ \A r \in DOMAIN rows : rows[r].stack \in Nat
  BY RowShape, RowFields
<1> DEFINE f == [r \in 1..Len(rows) |-> rows[r].stack]
           T == {0} \cup {rows[r].stack : r \in OnHole(h)}
<1>2. PICK b \in Nat : \A r \in 1..Len(rows) : f[r] <= b
  <2>1. f \in [1..Len(rows) -> Nat]
    BY <1>1
  <2> HIDE DEF f
  <2> QED BY <1>1, <2>1, Bounded
<1>3. T \in SUBSET Nat /\ 0 \in T /\ \A x \in T : x <= b
  BY <1>1, <1>2 DEF OnHole
<1>4. Max(T) \in T /\ \A x \in T : Max(T) >= x
  <2> HIDE DEF T
  <2> QED BY <1>3, MaxOfBounded
<1>5. Top(h) = Max(T)
  BY DEF Top
<1> QED BY <1>1, <1>3, <1>4, <1>5 DEF OnHole

\* A call that has read all its rows gets a plan.
LEMMA PlanType ==
  ASSUME TypeInv, NEW t \in Tablets, AllRead(t), NEW p \in Plan,
         call' = [call EXCEPT ![t].plan = <<p>>], Unwritten,
         call[t].op \in Placing => p \in [next : Nat, first : Spots],
         call[t].op \in Taking => p \in [first : Spots],
         call[t].op = "hold" => p \in HoldPlan(DOMAIN rows)
  PROVE  TypeInv'
<1> DEFINE c == call[t]
           d == [c EXCEPT !.plan = <<p>>]
<1>1. /\ c \in Call /\ CallIn(c, DOMAIN rows) /\ Len(c.read) = Len(c.ids)
      /\ UNCHANGED <<rows, picked, commits, changes, serial, touched, raced, twice>>
  BY DEF TypeInv, CallsIn, AllRead, Idle, Unwritten, counts, history
<1>2. <<p>> \in Seq(Plan) /\ <<p>>[1] = p
  OBVIOUS
<1>3. /\ d \in Call /\ d.plan = <<p>> /\ d.ids = c.ids /\ d.op = c.op /\ d.hole = c.hole
      /\ d.portions = c.portions /\ d.read = c.read
  <2> HIDE DEF c
  <2> QED BY <1>1, <1>2, CallEdits
<1>4. call' = [call EXCEPT ![t] = d]
  OBVIOUS
<1> HIDE DEF d
<1>5. CallIn(d, DOMAIN rows)
  BY <1>1, <1>2, <1>3 DEF CallIn, PlanIn, Distinct
<1>6. CallsIn'
  BY <1>1, <1>3, <1>4, <1>5, CallMoves DEF TypeInv
<1> QED BY <1>1, <1>6 DEF TypeInv, Rest

\* A step that only answers keeps the types.
LEMMA AnswerOnly ==
  ASSUME TypeInv, NEW t \in Tablets, Answer(t), Unwritten
  PROVE  TypeInv'
<1>1. UNCHANGED <<rows, picked, commits, changes, serial, touched, raced, twice>>
  BY DEF Unwritten, counts, history
<1>2. CallsIn'
  BY <1>1, AnswerType DEF TypeInv
<1> QED BY <1>1, <1>2 DEF TypeInv, Rest

\* The first row of a call that has read all its rows.
LEMMA FirstRow ==
  ASSUME TypeInv, NEW t \in Tablets, AllRead(t)
  PROVE  /\ call[t] \in Call /\ CallIn(call[t], DOMAIN rows)
         /\ 1 \in DOMAIN call[t].ids /\ rows[call[t].ids[1]] \in Row
<1>1. call[t] \in Call /\ CallIn(call[t], DOMAIN rows)
  BY DEF TypeInv, CallsIn, AllRead, Idle
<1>2. 1 \in DOMAIN call[t].ids
  BY <1>1, CallShape DEF CallIn
<1> QED BY <1>1, <1>2, RowShape DEF TypeInv, CallIn

\* What a load or a move reads of its hole.
LEMMA MeasureType ==
  ASSUME TypeInv, NEW t \in Tablets, Measure(t)
  PROVE  TypeInv'
<1>1. AllRead(t) /\ call[t].op \in Placing /\ Unwritten
  BY DEF Measure
<1>2. CASE Answer(t)
  BY <1>1, <1>2, AnswerOnly
<1> DEFINE p == [next |-> Top(call[t].hole) + 1, first |-> rows[call[t].ids[1]].hole]
<1>3. CASE call' = [call EXCEPT ![t].plan = <<p>>]
  <2>1. p \in [next : Nat, first : Spots]
    BY <1>1, FirstRow, StacksBounded, RowFields DEF TypeInv
  <2>2. p \in Plan
    BY <2>1 DEF Plan
  <2>3. call[t].op \notin Taking /\ call[t].op # "hold"
    BY <1>1 DEF Placing, Taking
  <2> HIDE DEF p
  <2> QED BY <1>1, <1>3, <2>1, <2>2, <2>3, PlanType
<1> QED BY <1>2, <1>3 DEF Measure

\* What an unload or a pluck reads again.
LEMMA RereadType ==
  ASSUME TypeInv, NEW t \in Tablets, Reread(t)
  PROVE  TypeInv'
<1> DEFINE p == [first |-> rows[call[t].ids[1]].hole]
<1>1. /\ AllRead(t) /\ call[t].op \in Taking /\ Unwritten
      /\ call' = [call EXCEPT ![t].plan = <<p>>]
  BY DEF Reread
<1>2. p \in [first : Spots]
  BY <1>1, FirstRow, RowFields
<1>3. p \in Plan
  BY <1>2 DEF Plan
<1>4. call[t].op \notin Placing /\ call[t].op # "hold"
  BY <1>1 DEF Placing, Taking
<1> HIDE DEF p
<1> QED BY <1>1, <1>2, <1>3, <1>4, PlanType

\* A substitute comes from the pool of the rows that wait, and no row is used twice.
Pool(c) == {r \in DOMAIN rows : ~rows[r].delivery /\ Awaiting(rows[r])} \ IdSet(c)

PairsFit(c, pairs, k) ==
  /\ pairs \in Seq((DOMAIN rows) \X (DOMAIN rows))
  /\ \A j \in DOMAIN pairs :
       /\ \E i \in 1..k : c.ids[i] = pairs[j][1] /\ c.read[i].hole # NoHole
       /\ pairs[j][2] \in Pool(c)
  /\ \A j, l \in DOMAIN pairs :
       j # l => pairs[j][1] # pairs[l][1] /\ pairs[j][2] # pairs[l][2]

\* The substitute is one of those to choose from.
LEMMA BestIsOne ==
  ASSUME rows \in Seq(Row), NEW x, NEW pool \in SUBSET DOMAIN rows, pool # {}
  PROVE  Best(x, pool) \in pool
<1> DEFINE same == {r \in pool : rows[r].table = x.table}
           best == IF same # {} THEN same ELSE pool
<1>1. Len(rows) \in Nat /\ DOMAIN rows = 1..Len(rows)
  BY RowShape
<1>2. best \in SUBSET pool /\ best # {} /\ best \in SUBSET Nat
      /\ \A r \in best : r <= Len(rows)
  BY <1>1
<1>3. Max(best) \in best
  <2> HIDE DEF best
  <2> QED BY <1>1, <1>2, MaxOfBounded
<1> QED BY <1>2, <1>3 DEF Best

\* One more row of a hold: at most one more pair, of rows that are in no pair yet.
LEMMA NextPairFits ==
  ASSUME rows \in Seq(Row), NEW c, CallIn(c, DOMAIN rows), Distinct(c),
         NEW k \in 1..Len(c.ids), NEW pairs, PairsFit(c, pairs, k - 1)
  PROVE  PairsFit(c, NextPair(c, pairs, k), k)
<1> DEFINE free == Pool(c) \ {p[2] : p \in ToSet(pairs)}
           pair == <<c.ids[k], Best(rows[c.ids[k]], free)>>
<1>1. Len(c.ids) \in Nat /\ DOMAIN c.ids = 1..Len(c.ids)
  BY CallShape DEF CallIn
<1>2. Len(pairs) \in Nat /\ DOMAIN pairs = 1..Len(pairs)
  BY LenProperties DEF PairsFit
<1>3. k - 1 \in Nat /\ 1..(k - 1) \subseteq 1..k
  BY <1>1
<1>4. PairsFit(c, pairs, k)
  BY <1>3 DEF PairsFit
<1>5. NextPair(c, pairs, k) = IF c.read[k].hole = NoHole \/ free = {}
                               THEN pairs ELSE Append(pairs, pair)
  BY DEF NextPair, Pool
<1>6. CASE c.read[k].hole = NoHole \/ free = {}
  BY <1>4, <1>5, <1>6
<1>7. CASE ~(c.read[k].hole = NoHole \/ free = {})
  <2> DEFINE new == Append(pairs, pair)
  <2>1. free \in SUBSET DOMAIN rows
    BY DEF Pool
  <2>2. pair[2] \in free /\ pair[1] = c.ids[k] /\ pair \in (DOMAIN rows) \X (DOMAIN rows)
    <3> DEFINE best == Best(rows[c.ids[k]], free)
    <3>1. best \in free
      <4> HIDE DEF free
      <4> QED BY <1>7, <2>1, BestIsOne
    <3>2. c.ids[k] \in DOMAIN rows
      BY <1>1 DEF CallIn
    <3>3. best \in DOMAIN rows
      BY <2>1, <3>1
    <3>4. pair[2] = best /\ pair[1] = c.ids[k]
      OBVIOUS
    <3> HIDE DEF best, free
    <3>5. <<c.ids[k], best>> \in (DOMAIN rows) \X (DOMAIN rows)
      BY <3>2, <3>3
    <3> QED BY <3>1, <3>4, <3>5 DEF best
  <2> HIDE DEF pair
  <2>3. /\ new \in Seq((DOMAIN rows) \X (DOMAIN rows))
        /\ DOMAIN new = 1..(Len(pairs) + 1)
        /\ \A j \in 1..Len(pairs) : new[j] = pairs[j]
        /\ new[Len(pairs) + 1] = pair
    <3>1. /\ new \in Seq((DOMAIN rows) \X (DOMAIN rows)) /\ Len(new) = Len(pairs) + 1
          /\ \A j \in 1..Len(pairs) : new[j] = pairs[j]
          /\ new[Len(pairs) + 1] = pair
      BY <2>2, AppendProperties DEF PairsFit
    <3> QED BY <3>1, LenProperties
  <2>4. \A j \in 1..Len(pairs) : pairs[j][1] # pair[1] /\ pairs[j][2] # pair[2]
    <3> SUFFICES ASSUME NEW j \in 1..Len(pairs)
                 PROVE  pairs[j][1] # pair[1] /\ pairs[j][2] # pair[2]
      OBVIOUS
    <3>1. PICK i \in 1..(k - 1) : c.ids[i] = pairs[j][1]
      BY <1>2 DEF PairsFit
    <3>2. pairs[j][1] # pair[1]
      <4> HIDE DEF free
      <4>1. i \in DOMAIN c.ids /\ k \in DOMAIN c.ids /\ i # k
        BY <1>1
      <4> QED BY <2>2, <3>1, <4>1 DEF Distinct
    <3>3. pairs[j] \in ToSet(pairs)
      BY <1>2 DEF ToSet
    <3>4. pairs[j][2] # pair[2]
      BY <2>2, <3>3
    <3> QED BY <3>2, <3>4
  <2>5. \A j \in DOMAIN new : j \in 1..Len(pairs) \/ j = Len(pairs) + 1
    BY <1>2, <2>3
  <2>6. ASSUME NEW j \in DOMAIN new
        PROVE  /\ \E i \in 1..k : c.ids[i] = new[j][1] /\ c.read[i].hole # NoHole
               /\ new[j][2] \in Pool(c)
    <3>1. CASE j \in 1..Len(pairs)
      BY <1>2, <1>4, <2>3, <3>1 DEF PairsFit
    <3>2. CASE j = Len(pairs) + 1
      <4>1. k \in 1..k /\ new[j] = pair
        BY <1>1, <2>3, <3>2
      <4>2. c.ids[k] = new[j][1] /\ c.read[k].hole # NoHole /\ new[j][2] \in free
        BY <1>7, <2>2, <4>1
      <4> HIDE DEF new
      <4> QED BY <4>1, <4>2
    <3> QED BY <2>5, <3>1, <3>2
  <2>7. ASSUME NEW j \in DOMAIN new, NEW l \in DOMAIN new, j # l
        PROVE  new[j][1] # new[l][1] /\ new[j][2] # new[l][2]
    <3> HIDE DEF new
    <3>1. CASE j \in 1..Len(pairs) /\ l \in 1..Len(pairs)
      BY <1>2, <2>3, <2>7, <3>1 DEF PairsFit
    <3>2. CASE j \in 1..Len(pairs) /\ l = Len(pairs) + 1
      BY <2>3, <2>4, <3>2
    <3>3. CASE j = Len(pairs) + 1 /\ l \in 1..Len(pairs)
      BY <2>3, <2>4, <3>3
    <3> QED BY <2>5, <2>7, <3>1, <3>2, <3>3
  <2> HIDE DEF new
  <2>8. PairsFit(c, new, k)
    BY <2>3, <2>6, <2>7 DEF PairsFit
  <2> QED BY <1>5, <1>7, <2>8 DEF new
<1> QED BY <1>6, <1>7

\* The recursion of Substitutes has a solution, and what it makes fits.
LEMMA SubstitutesFit ==
  ASSUME rows \in Seq(Row), NEW c, CallIn(c, DOMAIN rows), Distinct(c)
  PROVE  PairsFit(c, Substitutes(c), Len(c.ids))
<1> DEFINE L == Len(c.ids)
           Solves(f, k) == /\ f = [j \in 0..k |-> f[j]]
                           /\ f[0] = <<>>
                           /\ \A j \in 1..k : f[j] = NextPair(c, f[j - 1], j)
           Solvable(k) == \E f : Solves(f, k)
           pairs[k \in 0..L] == IF k = 0 THEN <<>> ELSE NextPair(c, pairs[k - 1], k)
           Made1(g) == g = [k \in 0..L |-> IF k = 0 THEN <<>> ELSE NextPair(c, g[k - 1], k)]
<1>1. L \in Nat
  BY CallShape DEF CallIn
<1>2. Substitutes(c) = pairs[L]
  BY DEF Substitutes
<1>3. pairs = CHOOSE g : Made1(g)
  BY DEF pairs
<1>4. Solvable(0)
  <2>1. Solves([j \in 0..0 |-> <<>>], 0)
    OBVIOUS
  <2> QED BY <2>1
<1>5. ASSUME NEW k \in 1..L, Solvable(k - 1) PROVE Solvable(k)
  <2>1. PICK f : Solves(f, k - 1)
    BY <1>5
  <2> DEFINE g == [j \in 0..k |-> IF j = k THEN NextPair(c, f[k - 1], k) ELSE f[j]]
  <2>2. g = [j \in 0..k |-> g[j]] /\ g[0] = <<>>
    BY <1>1, <2>1
  <2>3. ASSUME NEW j \in 1..k PROVE g[j] = NextPair(c, g[j - 1], j)
    <3>1. j - 1 \in 0..k /\ j \in 0..k /\ j - 1 # k /\ g[j - 1] = f[j - 1]
      BY <1>1
    <3>2. CASE j = k
      BY <3>1, <3>2
    <3>3. CASE j # k
      <4>1. j \in 1..(k - 1)
        BY <1>1, <3>3
      <4>2. g[j] = f[j]
        BY <3>1, <3>3
      <4> QED BY <2>1, <3>1, <4>1, <4>2
    <3> QED BY <3>2, <3>3
  <2> HIDE DEF g
  <2>4. Solves(g, k)
    BY <2>2, <2>3
  <2> QED BY <2>4
<1>6. Solvable(L)
  <2> HIDE DEF Solvable
  <2> SUFFICES ASSUME ~Solvable(L) PROVE FALSE
    OBVIOUS
  <2> DEFINE D == {k \in 0..L : ~Solvable(k)}
  <2>1. L \in D /\ D \in SUBSET Nat
    BY <1>1
  <2>2. PICK m \in D : \A k \in D : m <= k
    <3> HIDE DEF D
    <3> QED BY <2>1, LeastNumber
  <2>3. m \in 1..L
    BY <1>1, <1>4, <2>2
  <2>4. Solvable(m - 1)
    BY <1>1, <2>2, <2>3
  <2> QED BY <1>5, <2>2, <2>3, <2>4
<1>7. Made1(pairs)
  <2>1. PICK f : Solves(f, L)
    BY <1>6
  <2>2. Made1(f)
    <3>1. f[0] = <<>> /\ \A k \in 1..L : f[k] = NextPair(c, f[k - 1], k)
      BY <2>1
    <3>2. f = [k \in 0..L |-> f[k]]
      BY <2>1
    <3> HIDE DEF L
    <3>3. ASSUME NEW k \in 0..L
          PROVE  f[k] = IF k = 0 THEN <<>> ELSE NextPair(c, f[k - 1], k)
      <4>1. CASE k = 0
        BY <3>1, <4>1
      <4>2. CASE k # 0
        <5>1. k \in 1..L
          BY <1>1, <4>2
        <5> QED BY <3>1, <4>2, <5>1
      <4> QED BY <4>1, <4>2
    <3> QED BY <3>2, <3>3
  <2> HIDE DEF Made1, pairs
  <2> QED BY <1>3, <2>2
<1> HIDE DEF pairs, L
<1>8. /\ pairs[0] = <<>>
      /\ \A k \in 1..L : pairs[k] = NextPair(c, pairs[k - 1], k)
  <2>1. ASSUME NEW k \in 0..L
        PROVE  pairs[k] = IF k = 0 THEN <<>> ELSE NextPair(c, pairs[k - 1], k)
    BY <1>7
  <2>2. 0 \in 0..L
    BY <1>1
  <2>3. ASSUME NEW k \in 1..L
        PROVE  k \in 0..L /\ k # 0
    BY <1>1
  <2> HIDE DEF Made1
  <2> QED BY <2>1, <2>2, <2>3
<1> HIDE DEF Made1
<1>9. PairsFit(c, pairs[0], 0)
  <2>1. <<>> \in Seq((DOMAIN rows) \X (DOMAIN rows)) /\ DOMAIN <<>> = {}
    BY EmptySeq
  <2> QED BY <1>8, <2>1 DEF PairsFit
<1>10. PairsFit(c, pairs[L], L)
  <2> SUFFICES ASSUME ~PairsFit(c, pairs[L], L) PROVE FALSE
    OBVIOUS
  <2> DEFINE D == {k \in 0..L : ~PairsFit(c, pairs[k], k)}
  <2>1. L \in D /\ D \in SUBSET Nat
    BY <1>1
  <2>2. PICK m \in D : \A k \in D : m <= k
    <3> HIDE DEF D
    <3> QED BY <2>1, LeastNumber
  <2>3. m \in 1..L
    BY <1>1, <1>9, <2>2
  <2>4. m - 1 \in 0..L /\ m - 1 \notin D
    BY <1>1, <2>2, <2>3
  <2>5. PairsFit(c, pairs[m - 1], m - 1)
    BY <2>4
  <2>6. PairsFit(c, pairs[m], m)
    BY <1>8, <2>3, <2>5, NextPairFits DEF L
  <2> QED BY <2>2, <2>6
<1> QED BY <1>2, <1>10 DEF L

\* What a hold plans: rows held where they are, and pairs that have no row in common.
LEMMA SubstituteType ==
  ASSUME TypeInv, NEW t \in Tablets, Substitute(t)
  PROVE  TypeInv'
<1> DEFINE c == call[t]
           direct == {c.ids[i] : i \in {j \in DOMAIN c.ids : c.read[j].hole = NoHole}}
           p == [direct |-> direct, pairs |-> Substitutes(c)]
<1>1. AllRead(t) /\ c.op = "hold" /\ Unwritten
  BY DEF Substitute
<1>2. CASE Answer(t)
  BY <1>1, <1>2, AnswerOnly
<1>3. CASE call' = [call EXCEPT ![t].plan = <<p>>]
  <2>1. CallIn(c, DOMAIN rows) /\ Distinct(c)
    BY <1>1, FirstRow DEF CallIn, Floor
  <2>2. direct \in SUBSET DOMAIN rows /\ Substitutes(c) \in Seq((DOMAIN rows) \X (DOMAIN rows))
    BY <2>1, SubstitutesFit DEF TypeInv, CallIn, PairsFit
  <2>3. p \in HoldPlan(DOMAIN rows)
    <3> DEFINE pairs == Substitutes(c)
               plan == [direct |-> direct, pairs |-> pairs]
    <3>0. /\ DOMAIN pairs = 1..Len(pairs) /\ PairsFit(c, pairs, Len(c.ids))
          /\ DOMAIN c.ids = 1..Len(c.ids) /\ IdSet(c) = {c.ids[i] : i \in DOMAIN c.ids}
      <4>1. PairsFit(c, pairs, Len(c.ids))
        BY <2>1, SubstitutesFit DEF TypeInv
      <4> HIDE DEF pairs
      <4>2. DOMAIN pairs = 1..Len(pairs)
        BY <4>1, LenProperties DEF PairsFit
      <4> QED BY <2>1, <4>1, <4>2, CallShape DEF CallIn, IdSet, ToSet
    <3>7. \A i, j \in DOMAIN c.ids : c.ids[i] = c.ids[j] => i = j
      BY <2>1 DEF Distinct
    <3>8. \A r \in direct : \E i \in DOMAIN c.ids : r = c.ids[i] /\ c.read[i].hole = NoHole
      OBVIOUS
    <3>9. direct \subseteq IdSet(c)
      BY <3>0
    <3> HIDE DEF direct, pairs, c
    <3>10. ToSet(pairs) = {pairs[j] : j \in DOMAIN pairs}
      BY DEF ToSet
    <3>2. plan.direct = direct /\ plan.pairs = pairs
      OBVIOUS
    <3> HIDE DEF plan
    <3>3. ASSUME NEW q \in ToSet(pairs)
          PROVE  /\ q[1] \in IdSet(c) /\ q[1] \notin direct
                 /\ q[2] \notin IdSet(c) /\ q[2] \notin direct
      <4>1. PICK j \in DOMAIN pairs : q = pairs[j]
        BY <3>10
      <4>2. PICK i \in 1..Len(c.ids) : c.ids[i] = q[1] /\ c.read[i].hole # NoHole
        BY <3>0, <4>1 DEF PairsFit
      <4>3. q[2] \in Pool(c)
        BY <3>0, <4>1 DEF PairsFit
      <4>4. q[1] \in IdSet(c) /\ q[2] \notin IdSet(c)
        BY <3>0, <4>2, <4>3 DEF Pool
      <4>5. q[1] \notin direct
        BY <3>0, <3>7, <3>8, <4>2
      <4> QED BY <3>9, <4>4, <4>5
    <3>4. Apart(plan)
      <4>1. Freed(plan) \cap direct = {} /\ Freed(plan) \subseteq IdSet(c)
        BY <3>2, <3>3 DEF Freed
      <4>2. \A r \in Takers(plan) : r \notin IdSet(c) /\ r \notin direct
        BY <3>2, <3>3 DEF Takers
      <4>3. \A i, j \in DOMAIN pairs :
              i # j => pairs[i][1] # pairs[j][1] /\ pairs[i][2] # pairs[j][2]
        BY <3>0 DEF PairsFit
      <4> QED BY <3>2, <4>1, <4>2, <4>3 DEF Apart
    <3> SUFFICES plan \in HoldPlan(DOMAIN rows)
      BY DEF pairs, plan, c
    <3>1. direct \in SUBSET DOMAIN rows /\ pairs \in Seq((DOMAIN rows) \X (DOMAIN rows))
      BY <2>2 DEF pairs, c
    <3>5. plan \in [direct : SUBSET DOMAIN rows, pairs : Seq((DOMAIN rows) \X (DOMAIN rows))]
      BY <3>1 DEF plan
    <3> QED BY <3>4, <3>5 DEF HoldPlan
  <2>4. p \in Plan
    <3> DEFINE pairs == Substitutes(c)
    <3> HIDE DEF direct, pairs
    <3>1. DOMAIN rows \subseteq Nat
      BY RowShape DEF TypeInv
    <3>2. (DOMAIN rows) \X (DOMAIN rows) \subseteq Nat \X Nat
      BY <3>1
    <3>3. Seq((DOMAIN rows) \X (DOMAIN rows)) \subseteq Seq(Nat \X Nat)
      BY <3>2, SeqMonotonic
    <3>4. direct \in SUBSET Nat /\ pairs \in Seq(Nat \X Nat)
      BY <2>2, <3>1, <3>3 DEF pairs
    <3>5. [direct |-> direct, pairs |-> pairs]
             \in [direct : SUBSET Nat, pairs : Seq(Nat \X Nat)]
      BY <3>4
    <3> QED BY <3>5 DEF Plan, pairs
  <2>5. call[t].op \notin Placing /\ call[t].op \notin Taking
    BY <1>1 DEF Placing, Taking
  <2> HIDE DEF p
  <2> QED BY <1>1, <1>3, <2>3, <2>4, <2>5, PlanType
<1> QED BY <1>1, <1>2, <1>3 DEF Substitute

-----------------------------------------------------------------------------
(* The transactions: the rows they leave, field by field.                    *)

\* The portions of a row are the same, and its flags.
SamePortions(x, y) ==
  /\ y.line = x.line /\ y.table = x.table /\ y.delivery = x.delivery
  /\ y.dish = x.dish /\ y.refund = x.refund /\ y.qty = x.qty
SameFlags(x, y) == y.held = x.held /\ y.rushed = x.rushed

\* Rows changed one by one are a table again.
LEMMA Mapped ==
  ASSUME rows \in Seq(Row), NEW new,
         DOMAIN new = DOMAIN rows, new = [r \in DOMAIN rows |-> new[r]],
         \A r \in DOMAIN rows : new[r] \in Row
  PROVE  new \in Seq(Row) /\ DOMAIN new = DOMAIN rows /\ Len(new) = Len(rows)
<1>1. Len(rows) \in Nat /\ DOMAIN rows = 1..Len(rows)
  BY RowShape
<1>2. new \in [1..Len(rows) -> Row]
  BY <1>1
<1> QED BY <1>1, <1>2, IsSequence

\* A level is a number.
LEMMA Levels ==
  ASSUME NEW rs \in Seq(Row), NEW r \in DOMAIN rs
  PROVE  Level(rs, r) \in Nat
<1> DEFINE below == {q \in DOMAIN rs :
                       /\ rs[q].hole = rs[r].hole
                       /\ \/ rs[q].stack < rs[r].stack
                          \/ (rs[q].stack = rs[r].stack /\ q <= r)}
<1>1. IsFiniteSet(DOMAIN rs)
  BY RowShape, FS_Interval
<1>2. below \in SUBSET DOMAIN rs
  OBVIOUS
<1>3. IsFiniteSet(below)
  BY <1>1, <1>2, FS_Subset
<1>4. Cardinality(below) \in Nat
  BY <1>3, FS_CardinalityType
<1> QED BY <1>4 DEF Level

\* Renumbering a hole changes the stack of its rows and nothing else.
LEMMA CompactKeeps ==
  ASSUME NEW rs \in Seq(Row), NEW hs
  PROVE  LET new == Compact(rs, hs) IN
         /\ new \in Seq(Row) /\ DOMAIN new = DOMAIN rs
         /\ \A r \in DOMAIN rs :
              /\ SamePortions(rs[r], new[r]) /\ SameFlags(rs[r], new[r])
              /\ new[r].hole = rs[r].hole
              /\ new[r].stack = IF rs[r].hole \in hs \ {NoHole} THEN Level(rs, r)
                                                                ELSE rs[r].stack
<1> DEFINE new == Compact(rs, hs)
<1>1. Len(rs) \in Nat /\ DOMAIN rs = 1..Len(rs) /\ \A r \in DOMAIN rs : rs[r] \in Row
  BY RowShape
<1>2. DOMAIN new = DOMAIN rs /\ new = [r \in DOMAIN rs |-> new[r]]
  BY DEF Compact
<1>3. ASSUME NEW r \in DOMAIN rs
      PROVE  /\ new[r] \in Row
             /\ SamePortions(rs[r], new[r]) /\ SameFlags(rs[r], new[r])
             /\ new[r].hole = rs[r].hole
             /\ new[r].stack = IF rs[r].hole \in hs \ {NoHole} THEN Level(rs, r)
                                                               ELSE rs[r].stack
  <2>1. new[r] = IF rs[r].hole \in hs \ {NoHole} THEN [rs[r] EXCEPT !.stack = Level(rs, r)]
                                                 ELSE rs[r]
    BY DEF Compact
  <2>2. Level(rs, r) \in Nat /\ rs[r] \in Row
    BY <1>1, Levels
  <2> DEFINE x == rs[r]
             s == Level(rs, r)
             y == [x EXCEPT !.stack = s]
  <2>3. /\ y \in Row /\ y.stack = s /\ y.hole = x.hole
        /\ SamePortions(x, y) /\ SameFlags(x, y)
    <3> HIDE DEF x, s
    <3>1. x \in Row /\ s \in Nat
      BY <2>2 DEF x, s
    <3> QED BY <3>1, Relevelled DEF SamePortions, SameFlags
  <2>4. SamePortions(x, x) /\ SameFlags(x, x)
    BY DEF SamePortions, SameFlags
  <2> HIDE DEF new
  <2>5. CASE rs[r].hole \in hs \ {NoHole}
    <3>1. new[r] = y
      BY <2>1, <2>5
    <3> HIDE DEF y
    <3> QED BY <2>3, <2>5, <3>1
  <2>6. CASE rs[r].hole \notin hs \ {NoHole}
    BY <2>1, <2>2, <2>4, <2>6
  <2> QED BY <2>5, <2>6
<1> HIDE DEF new
<1>4. new \in Seq(Row)
  <2>1. new \in [1..Len(rs) -> Row]
    BY <1>1, <1>2, <1>3
  <2> QED BY <1>1, <2>1, IsSequence
<1> QED BY <1>2, <1>3, <1>4 DEF new

\* A transaction that writes a table of rows keeps the types.
LEMMA CommitType ==
  ASSUME TypeInv, NEW t \in Tablets, NEW rs \in Seq(Row), DOMAIN rows \subseteq DOMAIN rs,
         Commit(t, rs)
  PROVE  TypeInv' /\ rows' = rs /\ DOMAIN rows \subseteq DOMAIN rows'
<1>1. /\ rows' = rs /\ Answer(t) /\ commits' = commits + 1
      /\ UNCHANGED <<picked, changes, serial, touched, raced>>
  BY DEF Commit, history
<1>2. CallsIn'
  BY <1>1, AnswerType DEF TypeInv
<1>3. twice' \in BOOLEAN
  BY DEF Commit
<1> QED BY <1>1, <1>2, <1>3 DEF TypeInv, Rest

\* The rows of a call, by their place in it.
LEMMA Positions ==
  ASSUME NEW c, NEW D, CallIn(c, D)
  PROVE  /\ Len(c.ids) \in Nat /\ DOMAIN c.ids = 1..Len(c.ids) /\ IdSet(c) \subseteq D
         /\ \A r \in IdSet(c) : Position(c.ids, r) \in DOMAIN c.ids
                                /\ c.ids[Position(c.ids, r)] = r
         /\ \A i \in DOMAIN c.ids : c.ids[i] \in IdSet(c)
         /\ Distinct(c) => \A i \in DOMAIN c.ids : Position(c.ids, c.ids[i]) = i
<1>1. Len(c.ids) \in Nat /\ DOMAIN c.ids = 1..Len(c.ids)
  BY CallShape DEF CallIn
<1>2. IdSet(c) = {c.ids[i] : i \in DOMAIN c.ids}
  BY DEF IdSet, ToSet
<1>3. IdSet(c) \subseteq D
  BY <1>2 DEF CallIn
<1>4. ASSUME NEW r \in IdSet(c)
      PROVE  Position(c.ids, r) \in DOMAIN c.ids /\ c.ids[Position(c.ids, r)] = r
  <2> DEFINE T == {i \in DOMAIN c.ids : c.ids[i] = r}
  <2>1. T # {} /\ T \in SUBSET Nat /\ \A i \in T : i <= Len(c.ids)
    BY <1>1, <1>2
  <2>2. Max(T) \in T
    <3> HIDE DEF T
    <3> QED BY <1>1, <2>1, MaxOfBounded
  <2> QED BY <2>2 DEF Position
<1>5. ASSUME NEW i \in DOMAIN c.ids
      PROVE  c.ids[i] \in IdSet(c) /\ (Distinct(c) => Position(c.ids, c.ids[i]) = i)
  <2>1. c.ids[i] \in IdSet(c)
    BY <1>2
  <2>2. Position(c.ids, c.ids[i]) \in DOMAIN c.ids
        /\ c.ids[Position(c.ids, c.ids[i])] = c.ids[i]
    BY <1>4, <2>1
  <2> QED BY <2>1, <2>2 DEF Distinct
<1> QED BY <1>1, <1>3, <1>4, <1>5

\* A call under way, as the lemmas on its transaction need it.
LEMMA UnderWayCall ==
  ASSUME TypeInv, NEW t \in Tablets, call[t] # NoCall
  PROVE  call[t] \in Call /\ CallIn(call[t], DOMAIN rows)
  BY DEF TypeInv, CallsIn

\* A load: what becomes of the rows it names; the others stay.
LEMMA LoadRows ==
  ASSUME TypeInv, NEW t \in Tablets, Load(t)
  PROVE  /\ TypeInv' /\ DOMAIN rows' = DOMAIN rows
         /\ CallIn(call[t], DOMAIN rows) /\ call[t].plan[1] \in [next : Nat, first : Spots]
         /\ \A r \in DOMAIN rows : /\ SamePortions(rows[r], rows'[r])
                                   /\ SameFlags(rows[r], rows'[r])
         /\ \A r \in DOMAIN rows \ IdSet(call[t]) : rows'[r] = rows[r]
         /\ \A r \in IdSet(call[t]) :
              /\ rows'[r].hole = call[t].hole
              /\ rows'[r].stack = call[t].plan[1].next + Position(call[t].ids, r) - 1
<1> DEFINE c == call[t]
           n == c.plan[1].next
           rs == [r \in DOMAIN rows |->
                    IF r \in IdSet(c) THEN Place(rows[r], c.hole, n + Position(c.ids, r) - 1)
                                      ELSE rows[r]]
<1>1. c # NoCall /\ c.op = "load" /\ c.plan # <<>> /\ Commit(t, rs)
  BY DEF Load, Planned
<1>2. CallIn(c, DOMAIN rows) /\ c \in Call
  BY <1>1, UnderWayCall
<1>3. c.plan[1] \in [next : Nat, first : Spots] /\ n \in Nat
  BY <1>1, <1>2 DEF CallIn, PlanIn, Placing
<1>4. c.hole \in Spots
  BY <1>2, CallShape
<1>5. DOMAIN rs = DOMAIN rows /\ rs = [r \in DOMAIN rows |-> rs[r]]
      /\ \A r \in DOMAIN rows :
           rs[r] = IF r \in IdSet(c) THEN Place(rows[r], c.hole, n + Position(c.ids, r) - 1)
                                     ELSE rows[r]
  OBVIOUS
<1> HIDE DEF rs, n, c
<1>6. ASSUME NEW r \in DOMAIN rows
      PROVE  /\ rs[r] \in Row /\ SamePortions(rows[r], rs[r]) /\ SameFlags(rows[r], rs[r])
             /\ r \in IdSet(c) => /\ rs[r].hole = c.hole
                                  /\ rs[r].stack = n + Position(c.ids, r) - 1
  <2>1. rows[r] \in Row
    BY RowShape DEF TypeInv
  <2>2. CASE r \notin IdSet(c)
    BY <1>5, <2>1, <2>2 DEF SamePortions, SameFlags
  <2>3. CASE r \in IdSet(c)
    <3> DEFINE s == n + Position(c.ids, r) - 1
    <3>1. s \in Nat
      BY <1>2, <1>3, <2>3, Positions
    <3>2. rs[r] = Place(rows[r], c.hole, s)
      BY <1>5, <2>3
    <3> HIDE DEF s
    <3>3. /\ rs[r] \in Row /\ rs[r].hole = c.hole /\ rs[r].stack = s
          /\ SamePortions(rows[r], rs[r]) /\ SameFlags(rows[r], rs[r])
      BY <1>4, <2>1, <3>1, <3>2, Placed DEF SamePortions, SameFlags
    <3> QED BY <3>3 DEF s
  <2> QED BY <2>2, <2>3
<1>7. rs \in Seq(Row)
  BY <1>5, <1>6, Mapped DEF TypeInv
<1>8. TypeInv' /\ rows' = rs
  BY <1>1, <1>5, <1>7, CommitType
<1>9. IdSet(c) \subseteq DOMAIN rows
  BY <1>2, Positions
<1> QED BY <1>2, <1>3, <1>5, <1>6, <1>8, <1>9 DEF c, n

\* The places of a set of numbers, in their order.
LEMMA NthOrders ==
  ASSUME NEW n \in Nat, NEW S \in SUBSET (1..n)
  PROVE  /\ Cardinality(S) \in Nat /\ IsFiniteSet(S)
         /\ [i \in S |-> Nth(S, i)] \in Bijection(S, 1..Cardinality(S))
         /\ \A i \in S : Nth(S, i) \in 1..Cardinality(S)
<1> DEFINE R == {p \in S \X S : p[1] <= p[2]}
           f == [x \in S |-> Cardinality({y \in S : <<y, x>> \in R})]
<1>1. IsFiniteSet(S)
  <2>1. IsFiniteSet(1..n)
    BY FS_Interval
  <2> QED BY <2>1, FS_Subset
<1>2. Ordering(S, R)
  BY DEF Ordering
<1>3. ASSUME NEW i \in S PROVE f[i] = Nth(S, i)
  <2>1. {y \in S : <<y, i>> \in R} = {y \in S : y <= i}
    OBVIOUS
  <2> QED BY <2>1 DEF Nth
<1>4. Cardinality(S) \in Nat /\ f \in Bijection(S, 1..Cardinality(S))
  <2>1. f = [x \in S |-> Cardinality({y \in S : <<y, x>> \in R})]
    OBVIOUS
  <2> HIDE DEF f, R
  <2> QED BY <1>1, <1>2, <2>1, Ranks
<1>5. f = [i \in S |-> Nth(S, i)]
  BY <1>3
<1> HIDE DEF f
<1>6. \A i \in S : f[i] \in 1..Cardinality(S)
  BY <1>4 DEF Bijection, Injection, Surjection
<1> QED BY <1>1, <1>3, <1>4, <1>5, <1>6

\* A call puts each row it names on a hole once.
LEMMA ActsOnce ==
  ASSUME NEW c, NEW D, CallIn(c, D), NEW h
  PROVE  /\ Acting(c, h) \in SUBSET (1..Len(c.ids)) /\ Len(c.ids) \in Nat
         /\ \A i, j \in Acting(c, h) : c.ids[i] = c.ids[j] => i = j
         /\ \A i \in Acting(c, h) : c.ids[i] \in D
<1>1. Len(c.ids) \in Nat /\ DOMAIN c.ids = 1..Len(c.ids)
  BY CallShape DEF CallIn
<1>2. Acting(c, h) \in SUBSET (1..Len(c.ids)) /\ \A i \in Acting(c, h) : Source(c, i) # h
  BY <1>1 DEF Acting
<1>3. ASSUME NEW i \in Acting(c, h), NEW j \in Acting(c, h), c.ids[i] = c.ids[j], i < j
      PROVE  FALSE
  <2>1. i \in 1..(j - 1)
    BY <1>1, <1>2, <1>3
  <2>2. Source(c, i) = h
    BY <1>3, <2>1 DEF Acting
  <2> QED BY <1>2, <2>2
<1>4. ASSUME NEW i \in Acting(c, h), NEW j \in Acting(c, h), c.ids[i] = c.ids[j]
      PROVE  i = j
  <2>1. i < j \/ i = j \/ j < i
    BY <1>1, <1>2
  <2> QED BY <1>3, <1>4, <2>1
<1>5. \A i \in Acting(c, h) : c.ids[i] \in D
  BY <1>1, <1>2 DEF CallIn
<1> QED BY <1>1, <1>2, <1>4, <1>5

\* A move: the rows it places, and the levels of the holes they leave.
LEMMA MoveRows ==
  ASSUME TypeInv, NEW t \in Tablets, Move(t)
  PROVE  LET c == call[t]
             moved == Acting(c, c.hole)
         IN
         /\ TypeInv' /\ DOMAIN rows' = DOMAIN rows /\ CallIn(c, DOMAIN rows)
         /\ c.plan[1] \in [next : Nat, first : Spots]
         /\ \A r \in DOMAIN rows : /\ SamePortions(rows[r], rows'[r])
                                   /\ SameFlags(rows[r], rows'[r])
         /\ \E placed \in Seq(Row) :
              /\ rows' = Compact(placed, {Source(c, i) : i \in moved})
              /\ DOMAIN placed = DOMAIN rows
              /\ \A r \in DOMAIN rows \ {c.ids[i] : i \in moved} : placed[r] = rows[r]
              /\ \A i \in moved :
                   /\ placed[c.ids[i]].hole = c.hole
                   /\ placed[c.ids[i]].stack = c.plan[1].next + Nth(moved, i) - 1
<1> DEFINE c == call[t]
           n == c.plan[1].next
           moved == Acting(c, c.hole)
           at(r) == CHOOSE i \in moved : c.ids[i] = r
           away == {c.ids[i] : i \in moved}
           placed == [r \in DOMAIN rows |->
                        IF r \in away
                          THEN Place(rows[r], c.hole, n + Nth(moved, at(r)) - 1)
                          ELSE rows[r]]
           hs == {Source(c, i) : i \in moved}
<1>1. c # NoCall /\ c.op = "move" /\ c.plan # <<>> /\ Commit(t, Compact(placed, hs))
  BY DEF Move, Planned
<1>2. CallIn(c, DOMAIN rows) /\ c \in Call
  BY <1>1, UnderWayCall
<1>3. c.plan[1] \in [next : Nat, first : Spots] /\ n \in Nat
  BY <1>1, <1>2 DEF CallIn, PlanIn, Placing
<1>4. c.hole \in Spots
  BY <1>2, CallShape
<1>5. DOMAIN placed = DOMAIN rows /\ placed = [r \in DOMAIN rows |-> placed[r]]
      /\ \A r \in DOMAIN rows :
           placed[r] = IF r \in away
                         THEN Place(rows[r], c.hole, n + Nth(moved, at(r)) - 1)
                         ELSE rows[r]
  OBVIOUS
<1>6. /\ moved \in SUBSET (1..Len(c.ids)) /\ Len(c.ids) \in Nat
      /\ \A i, j \in moved : c.ids[i] = c.ids[j] => i = j
      /\ \A i \in moved : c.ids[i] \in DOMAIN rows
  <2> HIDE DEF c
  <2> QED BY <1>2, ActsOnce
<1>15. ASSUME NEW r \in away PROVE at(r) \in moved /\ c.ids[at(r)] = r
  <2> HIDE DEF moved
  <2> QED BY <1>15
<1>16. \A i \in moved : c.ids[i] \in away
  OBVIOUS
<1> HIDE DEF placed, n, c, moved, at, away, hs
<1>7. \A i \in moved : Nth(moved, i) \in Nat \ {0}
  <2>1. Cardinality(moved) \in Nat /\ \A i \in moved : Nth(moved, i) \in 1..Cardinality(moved)
    BY <1>6, NthOrders
  <2> QED BY <2>1
<1>8. ASSUME NEW r \in DOMAIN rows
      PROVE  /\ placed[r] \in Row
             /\ SamePortions(rows[r], placed[r]) /\ SameFlags(rows[r], placed[r])
             /\ IF r \in away
                  THEN /\ placed[r].hole = c.hole
                       /\ placed[r].stack = n + Nth(moved, at(r)) - 1
                  ELSE placed[r] = rows[r]
  <2>1. rows[r] \in Row
    BY RowShape DEF TypeInv
  <2>2. CASE r \notin away
    BY <1>5, <2>1, <2>2 DEF SamePortions, SameFlags
  <2>3. CASE r \in away
    <3> DEFINE k == Nth(moved, at(r))
               s == n + k - 1
    <3>1. k \in Nat \ {0}
      BY <1>7, <1>15, <2>3
    <3>2. s \in Nat
      <4> HIDE DEF k
      <4> QED BY <1>3, <3>1
    <3>3. placed[r] = Place(rows[r], c.hole, s)
      BY <1>5, <2>3
    <3> HIDE DEF s
    <3>4. /\ placed[r] \in Row /\ placed[r].hole = c.hole /\ placed[r].stack = s
          /\ SamePortions(rows[r], placed[r]) /\ SameFlags(rows[r], placed[r])
      BY <1>4, <2>1, <3>2, <3>3, Placed DEF SamePortions, SameFlags
    <3> QED BY <2>3, <3>4 DEF s
  <2> QED BY <2>2, <2>3
<1>9. placed \in Seq(Row)
  BY <1>5, <1>8, Mapped DEF TypeInv
<1> DEFINE new == Compact(placed, hs)
<1>10. /\ new \in Seq(Row) /\ DOMAIN new = DOMAIN rows
       /\ \A r \in DOMAIN rows : SamePortions(placed[r], new[r]) /\ SameFlags(placed[r], new[r])
  BY <1>5, <1>9, CompactKeeps
<1> HIDE DEF new
<1>11. TypeInv' /\ rows' = new
  BY <1>1, <1>10, CommitType DEF new
<1>12. \A r \in DOMAIN rows : SamePortions(rows[r], new[r]) /\ SameFlags(rows[r], new[r])
  BY <1>8, <1>10 DEF SamePortions, SameFlags
<1>13. ASSUME NEW i \in moved
       PROVE  /\ placed[c.ids[i]].hole = c.hole
              /\ placed[c.ids[i]].stack = n + Nth(moved, i) - 1
  <2>1. at(c.ids[i]) = i
    BY <1>6, <1>15, <1>16
  <2> QED BY <1>6, <1>8, <1>16, <2>1
<1>14. \A r \in DOMAIN rows \ away : placed[r] = rows[r]
  BY <1>8
<1> QED BY <1>2, <1>3, <1>5, <1>9, <1>10, <1>11, <1>12, <1>13, <1>14
        DEF c, n, moved, away, new, hs

\* An unload or a pluck: the rows it takes off, and the levels of their holes.
LEMMA TakeOffRows ==
  ASSUME TypeInv, NEW t \in Tablets, TakeOff(t)
  PROVE  LET c == call[t]
             taken == {c.ids[i] : i \in Acting(c, NoHole)}
         IN
         /\ TypeInv' /\ DOMAIN rows' = DOMAIN rows /\ CallIn(c, DOMAIN rows)
         /\ c.plan[1] \in [first : Spots]
         /\ \A r \in DOMAIN rows : /\ SamePortions(rows[r], rows'[r])
                                   /\ SameFlags(rows[r], rows'[r])
         /\ \E off \in Seq(Row) :
              /\ rows' = Compact(off, {Source(c, i) : i \in Acting(c, NoHole)})
              /\ DOMAIN off = DOMAIN rows
              /\ \A r \in DOMAIN rows : IF r \in taken THEN off[r].hole = NoHole
                                                       ELSE off[r] = rows[r]
<1> DEFINE c == call[t]
           taken == {c.ids[i] : i \in Acting(c, NoHole)}
           off == [r \in DOMAIN rows |-> IF r \in taken THEN OffHole(rows[r]) ELSE rows[r]]
           hs == {Source(c, i) : i \in Acting(c, NoHole)}
<1>1. c # NoCall /\ c.op \in Taking /\ c.plan # <<>> /\ Commit(t, Compact(off, hs))
  BY DEF TakeOff, Planned
<1>2. CallIn(c, DOMAIN rows) /\ c \in Call
  BY <1>1, UnderWayCall
<1>3. c.plan[1] \in [first : Spots]
  BY <1>1, <1>2 DEF CallIn, PlanIn
<1>5. DOMAIN off = DOMAIN rows /\ off = [r \in DOMAIN rows |-> off[r]]
      /\ \A r \in DOMAIN rows : off[r] = IF r \in taken THEN OffHole(rows[r]) ELSE rows[r]
  OBVIOUS
<1> HIDE DEF off, c, taken, hs
<1>8. ASSUME NEW r \in DOMAIN rows
      PROVE  /\ off[r] \in Row
             /\ SamePortions(rows[r], off[r]) /\ SameFlags(rows[r], off[r])
             /\ IF r \in taken THEN off[r].hole = NoHole ELSE off[r] = rows[r]
  <2>1. rows[r] \in Row
    BY RowShape DEF TypeInv
  <2>2. CASE r \notin taken
    BY <1>5, <2>1, <2>2 DEF SamePortions, SameFlags
  <2>3. CASE r \in taken
    <3>1. off[r] = OffHole(rows[r])
      BY <1>5, <2>3
    <3>2. /\ off[r] \in Row /\ off[r].hole = NoHole
          /\ SamePortions(rows[r], off[r]) /\ SameFlags(rows[r], off[r])
      BY <2>1, <3>1, TakenOff DEF SamePortions, SameFlags
    <3> QED BY <2>3, <3>2
  <2> QED BY <2>2, <2>3
<1>9. off \in Seq(Row)
  BY <1>5, <1>8, Mapped DEF TypeInv
<1> DEFINE new == Compact(off, hs)
<1>10. /\ new \in Seq(Row) /\ DOMAIN new = DOMAIN rows
       /\ \A r \in DOMAIN rows : SamePortions(off[r], new[r]) /\ SameFlags(off[r], new[r])
  BY <1>5, <1>9, CompactKeeps
<1> HIDE DEF new
<1>11. TypeInv' /\ rows' = new
  BY <1>1, <1>10, CommitType DEF new
<1>12. \A r \in DOMAIN rows : SamePortions(rows[r], new[r]) /\ SameFlags(rows[r], new[r])
  BY <1>8, <1>10 DEF SamePortions, SameFlags
<1> QED BY <1>2, <1>3, <1>5, <1>8, <1>9, <1>10, <1>11, <1>12 DEF c, taken, new, hs

\* A completion: what becomes of the rows it names, and the rows it splits off.
DoneRow(c, part, i, x, y) ==
  IF i \in part
    THEN /\ y.line = x.line /\ y.table = x.table /\ y.delivery = x.delivery
         /\ y.dish = x.dish /\ y.refund = x.refund /\ y.qty = c.read[i].qty - c.portions[i]
         /\ y.hole = x.hole /\ y.stack = x.stack /\ SameFlags(x, y)
    ELSE /\ y.line = x.line /\ y.table = x.table /\ y.delivery = x.delivery
         /\ y.dish = "made" /\ y.refund = x.refund /\ y.qty = x.qty
         /\ y.hole = NoHole /\ y.held = x.held /\ y.rushed = FALSE

SplitRow(c, i, x, y) ==
  /\ y.line = x.line /\ y.dish = "made" /\ y.refund = FALSE /\ y.qty = c.portions[i]
  /\ y.hole = NoHole /\ y.held = FALSE /\ y.rushed = FALSE

\* A completion, row by row, before the holes are compacted and after.
LEMMA CompleteRows ==
  ASSUME TypeInv, NEW t \in Tablets, Complete(t)
  PROVE  LET c == call[t]
             part == {i \in DOMAIN c.ids : c.read[i].qty # c.portions[i]}
             pick(k) == CHOOSE j \in part : Nth(part, j) = k
         IN
         /\ TypeInv' /\ CallIn(c, DOMAIN rows) /\ c.op = "complete"
         /\ Len(c.read) = Len(c.ids) /\ Distinct(c) /\ Cardinality(part) \in Nat
         /\ DOMAIN rows' = 1..(Len(rows) + Cardinality(part))
         /\ \A k \in 1..Cardinality(part) : pick(k) \in part /\ Nth(part, pick(k)) = k
         /\ \E new \in Seq(Row) :
              /\ rows' = Compact(new, {c.read[i].hole : i \in DOMAIN c.read})
              /\ DOMAIN new = DOMAIN rows'
              /\ \A r \in DOMAIN rows \ IdSet(c) : new[r] = rows[r]
              /\ \A i \in DOMAIN c.ids : DoneRow(c, part, i, rows[c.ids[i]], new[c.ids[i]])
              /\ \A k \in 1..Cardinality(part) :
                   SplitRow(c, pick(k), rows[c.ids[pick(k)]], new[Len(rows) + k])
<1> DEFINE c == call[t]
           part == {i \in DOMAIN c.ids : c.read[i].qty # c.portions[i]}
           pick(k) == CHOOSE j \in part : Nth(part, j) = k
           after(r, i) == IF i \in part
                            THEN [rows[r] EXCEPT !.qty = c.read[i].qty - c.portions[i]]
                            ELSE Made(rows[r])
           done == [r \in DOMAIN rows |->
                      IF r \notin IdSet(c) THEN rows[r] ELSE after(r, Position(c.ids, r))]
           split == [k \in 1..Cardinality(part) |->
                       Split(rows[c.ids[pick(k)]], c.portions[pick(k)])]
           hs == {c.read[i].hole : i \in DOMAIN c.read}
           new == done \o split
<1>1. c # NoCall /\ Len(c.read) = Len(c.ids) /\ c.op = "complete"
      /\ Commit(t, Compact(new, hs))
  BY DEF Complete, AllRead, Idle
<1>2. CallIn(c, DOMAIN rows) /\ c \in Call
  BY <1>1, UnderWayCall
<1>3. /\ \A i \in DOMAIN c.ids : /\ c.read[i].qty \in Nat /\ c.portions[i] \in Nat
                                 /\ c.portions[i] <= c.read[i].qty
      /\ Distinct(c)
  <2> HIDE DEF c
  <2>1. /\ DOMAIN c.ids = DOMAIN c.read /\ DOMAIN c.ids = 1..Len(c.ids)
        /\ \A i \in 1..Len(c.portions) : c.portions[i] \in Nat
        /\ \A i \in DOMAIN c.read : c.read[i].qty \in Nat
    BY <1>1, <1>2, CallShape
  <2> QED BY <1>1, <1>2, <2>1 DEF CallIn, Distinct
<1>4. /\ Len(c.ids) \in Nat /\ DOMAIN c.ids = 1..Len(c.ids)
      /\ \A i \in DOMAIN c.ids : /\ c.ids[i] \in IdSet(c) /\ Position(c.ids, c.ids[i]) = i
                                 /\ c.ids[i] \in DOMAIN rows
      /\ \A r \in IdSet(c) : Position(c.ids, r) \in DOMAIN c.ids
  <2> HIDE DEF c
  <2>1. /\ Len(c.ids) \in Nat /\ DOMAIN c.ids = 1..Len(c.ids)
        /\ \A i \in DOMAIN c.ids : c.ids[i] \in IdSet(c) /\ Position(c.ids, c.ids[i]) = i
        /\ \A r \in IdSet(c) : Position(c.ids, r) \in DOMAIN c.ids
    BY <1>2, <1>3, Positions
  <2> QED BY <1>2, <2>1 DEF CallIn
<1>5. /\ Cardinality(part) \in Nat
      /\ [i \in part |-> Nth(part, i)] \in Bijection(part, 1..Cardinality(part))
  <2>1. part \in SUBSET (1..Len(c.ids))
    BY <1>4
  <2> HIDE DEF part, c
  <2> QED BY <1>4, <2>1, NthOrders
<1>6. ASSUME NEW k \in 1..Cardinality(part)
      PROVE  pick(k) \in part /\ Nth(part, pick(k)) = k
  <2> DEFINE f == [i \in part |-> Nth(part, i)]
  <2> HIDE DEF part
  <2>1. \E j \in part : Nth(part, j) = k
    <3>1. \E j \in part : f[j] = k
      <4> HIDE DEF f
      <4>1. f \in Bijection(part, 1..Cardinality(part))
        BY <1>5 DEF f
      <4> QED BY <4>1 DEF Bijection, Surjection
    <3> QED BY <3>1
  <2> QED BY <2>1
<1>7. \A r \in DOMAIN rows : rows[r] \in Row
  BY RowShape DEF TypeInv
<1>8. DOMAIN done = DOMAIN rows /\ done = [r \in DOMAIN rows |-> done[r]]
      /\ \A r \in DOMAIN rows : done[r] = IF r \notin IdSet(c) THEN rows[r]
                                          ELSE after(r, Position(c.ids, r))
  OBVIOUS
<1>9. /\ \A k \in 1..Cardinality(part) :
           split[k] = Split(rows[c.ids[pick(k)]], c.portions[pick(k)])
      /\ DOMAIN split = 1..Cardinality(part)
      /\ split = [k \in 1..Cardinality(part) |-> split[k]]
  OBVIOUS
<1>10. part \subseteq DOMAIN c.ids
  OBVIOUS
<1> HIDE DEF done, split, part, c, hs, pick
<1>11. ASSUME NEW r \in DOMAIN rows, NEW i \in DOMAIN c.ids
       PROVE  after(r, i) \in Row /\ DoneRow(c, part, i, rows[r], after(r, i))
  <2> DEFINE x == rows[r]
             n == c.read[i].qty - c.portions[i]
  <2>1. x \in Row /\ n \in Nat
    BY <1>3, <1>7
  <2>2. CASE i \in part
    <3> DEFINE y == [x EXCEPT !.qty = n]
    <3>1. after(r, i) = y
      BY <2>2
    <3> HIDE DEF x
    <3>2. /\ y \in Row
          /\ y.qty = n /\ y.line = x.line /\ y.table = x.table
          /\ y.delivery = x.delivery /\ y.dish = x.dish /\ y.refund = x.refund
          /\ y.hole = x.hole /\ y.stack = x.stack /\ y.held = x.held
          /\ y.rushed = x.rushed
      <4> HIDE DEF n
      <4> QED BY <2>1, Counted
    <3> HIDE DEF y
    <3>3. DoneRow(c, part, i, x, y)
      BY <2>2, <3>2 DEF DoneRow, SameFlags
    <3> QED BY <3>1, <3>2, <3>3 DEF x
  <2>3. CASE i \notin part
    <3> DEFINE y == Made(x)
    <3>1. after(r, i) = y
      BY <2>3
    <3> HIDE DEF x
    <3>2. /\ y \in Row
          /\ y.dish = "made" /\ y.hole = NoHole /\ y.stack = 0
          /\ y.rushed = FALSE /\ y.line = x.line /\ y.table = x.table
          /\ y.delivery = x.delivery /\ y.refund = x.refund /\ y.qty = x.qty
          /\ y.held = x.held
      BY <2>1, IsMade
    <3> HIDE DEF y
    <3>3. DoneRow(c, part, i, x, y)
      BY <2>3, <3>2 DEF DoneRow
    <3> QED BY <3>1, <3>2, <3>3 DEF x
  <2> QED BY <2>2, <2>3
<1> HIDE DEF after
<1>12. ASSUME NEW r \in DOMAIN rows PROVE done[r] \in Row
  <2>1. CASE r \notin IdSet(c)
    BY <1>7, <1>8, <2>1
  <2>2. CASE r \in IdSet(c)
    BY <1>4, <1>8, <1>11, <2>2
  <2> QED BY <2>1, <2>2
<1>13. /\ done \in Seq(Row) /\ Len(done) = Len(rows)
       /\ DOMAIN rows = 1..Len(rows) /\ Len(rows) \in Nat
  BY <1>8, <1>12, Mapped, RowShape DEF TypeInv
<1>14. ASSUME NEW k \in 1..Cardinality(part)
       PROVE  /\ split[k] \in Row
              /\ SplitRow(c, pick(k), rows[c.ids[pick(k)]], split[k])
  <2> DEFINE x == rows[c.ids[pick(k)]]
             m == c.portions[pick(k)]
             y == Split(x, m)
  <2>1. x \in Row /\ m \in Nat
    BY <1>3, <1>4, <1>6, <1>7, <1>10
  <2>2. split[k] = y
    BY <1>9
  <2> HIDE DEF x, m
  <2>3. /\ y \in Row
        /\ y.delivery = FALSE /\ y.dish = "made" /\ y.refund = FALSE
        /\ y.qty = m /\ y.hole = NoHole /\ y.stack = 0
        /\ y.held = FALSE /\ y.rushed = FALSE /\ y.line = x.line
        /\ y.table = x.table
    BY <2>1, IsSplit
  <2> HIDE DEF y
  <2> QED BY <2>2, <2>3 DEF SplitRow, x, m
<1>15. split \in Seq(Row) /\ Len(split) = Cardinality(part)
  <2>1. split \in [1..Cardinality(part) -> Row]
    BY <1>9, <1>14
  <2> QED BY <1>5, <2>1, IsSequence
<1>16. /\ new \in Seq(Row) /\ DOMAIN new = 1..(Len(rows) + Cardinality(part))
       /\ \A r \in DOMAIN rows : new[r] = done[r]
       /\ \A k \in 1..Cardinality(part) : new[Len(rows) + k] = split[k]
  <2>1. /\ new \in Seq(Row) /\ Len(new) = Len(rows) + Cardinality(part)
        /\ \A i \in 1..(Len(rows) + Cardinality(part)) :
             new[i] = IF i <= Len(rows) THEN done[i] ELSE split[i - Len(rows)]
    <3>1. /\ done \o split \in Seq(Row) /\ Len(done \o split) = Len(done) + Len(split)
          /\ \A i \in 1..(Len(done) + Len(split)) :
               (done \o split)[i] = IF i <= Len(done) THEN done[i] ELSE split[i - Len(done)]
      BY <1>13, <1>15, ConcatProperties
    <3> QED BY <1>13, <1>15, <3>1
  <2>2. DOMAIN new = 1..(Len(rows) + Cardinality(part))
    BY <2>1, LenProperties
  <2> HIDE DEF new
  <2>3. ASSUME NEW r \in DOMAIN rows
        PROVE  new[r] = done[r]
    <3>1. r \in 1..(Len(rows) + Cardinality(part)) /\ r <= Len(rows)
      BY <1>5, <1>13
    <3> QED BY <2>1, <3>1
  <2>4. ASSUME NEW k \in 1..Cardinality(part)
        PROVE  new[Len(rows) + k] = split[k]
    <3>1. /\ Len(rows) + k \in 1..(Len(rows) + Cardinality(part))
          /\ ~(Len(rows) + k <= Len(rows)) /\ Len(rows) + k - Len(rows) = k
      BY <1>5, <1>13
    <3> QED BY <2>1, <3>1
  <2> QED BY <2>1, <2>2, <2>3, <2>4
<1> HIDE DEF new
<1> DEFINE rs == Compact(new, hs)
<1>17. rs \in Seq(Row) /\ DOMAIN rs = DOMAIN new
  BY <1>16, CompactKeeps
<1>18. DOMAIN rows \subseteq DOMAIN rs
  BY <1>5, <1>13, <1>16, <1>17
<1> HIDE DEF rs
<1>19. TypeInv' /\ rows' = rs
  BY <1>1, <1>17, <1>18, CommitType DEF rs
<1>20. \A r \in DOMAIN rows \ IdSet(c) : new[r] = rows[r]
  BY <1>8, <1>16
<1>21. ASSUME NEW i \in DOMAIN c.ids
       PROVE  DoneRow(c, part, i, rows[c.ids[i]], new[c.ids[i]])
  <2>1. new[c.ids[i]] = after(c.ids[i], i)
    BY <1>4, <1>8, <1>16
  <2> QED BY <1>4, <1>11, <2>1
<1>22. \A k \in 1..Cardinality(part) :
         SplitRow(c, pick(k), rows[c.ids[pick(k)]], new[Len(rows) + k])
  BY <1>14, <1>16
<1>23. /\ rows' = Compact(new, hs) /\ DOMAIN new = DOMAIN rows'
       /\ DOMAIN rows' = 1..(Len(rows) + Cardinality(part))
  BY <1>16, <1>17, <1>19 DEF rs
<1> QED BY <1>1, <1>2, <1>3, <1>5, <1>6, <1>16, <1>19, <1>20, <1>21, <1>22, <1>23
        DEF c, part, hs, pick

\* What becomes of a row when portions are held back.
HeldRow(plan, r, x, y) ==
  /\ SamePortions(x, y)
  /\ IF r \in Freed(plan)
       THEN y.hole = NoHole /\ y.held = TRUE /\ y.rushed = FALSE
     ELSE IF r \in plan.direct
       THEN y.hole = x.hole /\ y.stack = x.stack /\ y.held = TRUE /\ y.rushed = FALSE
     ELSE IF r \in Takers(plan)
       THEN /\ SameFlags(x, y)
            /\ \E p \in ToSet(plan.pairs) :
                 p[2] = r /\ y.hole = rows[p[1]].hole /\ y.stack = rows[p[1]].stack
       ELSE y = x

\* A hold, row by row.
LEMMA HoldRows ==
  ASSUME TypeInv, NEW t \in Tablets, HoldPortions(t)
  PROVE  LET plan == call[t].plan[1] IN
         /\ TypeInv' /\ DOMAIN rows' = DOMAIN rows
         /\ CallIn(call[t], DOMAIN rows) /\ plan \in HoldPlan(DOMAIN rows)
         /\ \A r \in DOMAIN rows : HeldRow(plan, r, rows[r], rows'[r])
<1> DEFINE c == call[t]
           plan == c.plan[1]
           pairs == ToSet(plan.pairs)
           freed == {p[1] : p \in pairs}
           taker(r) == \E p \in pairs : p[2] = r
           for(r) == CHOOSE p \in pairs : p[2] = r
           new == [r \in DOMAIN rows |->
                     CASE r \in freed -> Hold(rows[r])
                       [] r \in plan.direct -> [rows[r] EXCEPT !.held = TRUE, !.rushed = FALSE]
                       [] taker(r) -> Place(rows[r], rows[for(r)[1]].hole, rows[for(r)[1]].stack)
                       [] OTHER -> rows[r]]
<1>1. c # NoCall /\ c.op = "hold" /\ c.plan # <<>>
  BY DEF HoldPortions, Planned
<1>2. Commit(t, [r \in DOMAIN rows |->
                      CASE r \in freed -> Hold(rows[r])
                        [] r \in plan.direct ->
                             [rows[r] EXCEPT !.held = TRUE, !.rushed = FALSE]
                        [] \E p \in ToSet(plan.pairs) : p[2] = r ->
                             Place(rows[r], rows[(CHOOSE p \in ToSet(plan.pairs) : p[2] = r)[1]].hole,
                                            rows[(CHOOSE p \in ToSet(plan.pairs) : p[2] = r)[1]].stack)
                        [] OTHER -> rows[r]])
  BY DEF HoldPortions
<1>3. CallIn(c, DOMAIN rows)
  BY <1>1, UnderWayCall
<1>4. plan \in HoldPlan(DOMAIN rows)
  BY <1>1, <1>3 DEF CallIn, PlanIn
<1>5. \A p \in pairs : p[1] \in DOMAIN rows /\ p[2] \in DOMAIN rows
  <2> HIDE DEF plan
  <2>1. plan.pairs \in Seq((DOMAIN rows) \X (DOMAIN rows))
    BY <1>4 DEF HoldPlan
  <2>2. DOMAIN plan.pairs = 1..Len(plan.pairs)
        /\ \A i \in 1..Len(plan.pairs) : plan.pairs[i] \in (DOMAIN rows) \X (DOMAIN rows)
    BY <2>1, LenProperties, ElementOfSeq
  <2> QED BY <2>2 DEF ToSet
<1>6. /\ DOMAIN new = DOMAIN rows /\ new = [r \in DOMAIN rows |-> new[r]]
      /\ \A r \in DOMAIN rows :
           /\ r \in freed => new[r] = Hold(rows[r])
           /\ r \notin freed /\ r \in plan.direct =>
                new[r] = [rows[r] EXCEPT !.held = TRUE, !.rushed = FALSE]
           /\ r \notin freed /\ r \notin plan.direct /\ taker(r) =>
                new[r] = Place(rows[r], rows[for(r)[1]].hole, rows[for(r)[1]].stack)
           /\ r \notin freed /\ r \notin plan.direct /\ ~taker(r) => new[r] = rows[r]
  <2> DEFINE sub(r) == Place(rows[r], rows[for(r)[1]].hole, rows[for(r)[1]].stack)
             back(r) == [rows[r] EXCEPT !.held = TRUE, !.rushed = FALSE]
  <2> HIDE DEF freed, taker, for, plan, pairs
  <2>1. DOMAIN new = DOMAIN rows /\ new = [r \in DOMAIN rows |-> new[r]]
    OBVIOUS
  <2>2. ASSUME NEW r \in DOMAIN rows
        PROVE  new[r] = CASE r \in freed -> Hold(rows[r])
                          [] r \in plan.direct -> back(r)
                          [] taker(r) -> sub(r)
                          [] OTHER -> rows[r]
    OBVIOUS
  <2>0. \A r : /\ r \in freed => r \notin plan.direct /\ ~taker(r)
               /\ r \in plan.direct => ~taker(r)
    <3>1. Apart(plan)
      BY <1>4 DEF HoldPlan
    <3>2. Freed(plan) = freed /\ \A r : taker(r) <=> r \in Takers(plan)
      BY DEF Freed, Takers, freed, taker, pairs
    <3> QED BY <3>1, <3>2 DEF Apart
  <2> HIDE DEF new, sub, back
  <2>3. ASSUME NEW r \in DOMAIN rows, r \in freed PROVE new[r] = Hold(rows[r])
    BY <2>0, <2>2, <2>3
  <2>4. ASSUME NEW r \in DOMAIN rows, r \notin freed, r \in plan.direct
        PROVE  new[r] = back(r)
    BY <2>0, <2>2, <2>4
  <2>5. ASSUME NEW r \in DOMAIN rows, r \notin freed, r \notin plan.direct, taker(r)
        PROVE  new[r] = sub(r)
    BY <2>2, <2>5
  <2>6. ASSUME NEW r \in DOMAIN rows, r \notin freed, r \notin plan.direct, ~taker(r)
        PROVE  new[r] = rows[r]
    BY <2>2, <2>6
  <2> QED BY <2>1, <2>3, <2>4, <2>5, <2>6 DEF sub, back
<1>7. Commit(t, new)
  <2> HIDE DEF plan, c
  <2> QED BY <1>2
<1> HIDE DEF new, c
<1>8. \A r \in DOMAIN rows : rows[r] \in Row
  BY RowShape DEF TypeInv
<1>9. ASSUME NEW r \in DOMAIN rows
      PROVE  new[r] \in Row /\ HeldRow(plan, r, rows[r], new[r])
  <2>1. r \in Freed(plan) <=> r \in freed
    BY DEF Freed
  <2>2. r \in Takers(plan) <=> taker(r)
    BY DEF Takers
  <2> DEFINE x == rows[r]
  <2>3. x \in Row
    BY <1>8
  <2>4. CASE r \in freed
    <3>1. /\ new[r] \in Row /\ SamePortions(x, new[r])
          /\ new[r].hole = NoHole /\ new[r].held = TRUE /\ new[r].rushed = FALSE
      <4>1. new[r] = Hold(x)
        BY <1>6, <2>4
      <4> HIDE DEF x
      <4> QED BY <2>3, <4>1, HeldBack DEF SamePortions
    <3> HIDE DEF plan, freed, x
    <3> QED BY <2>1, <2>4, <3>1 DEF HeldRow, x
  <2>5. CASE r \notin freed /\ r \in plan.direct
    <3>1. /\ new[r] \in Row /\ SamePortions(x, new[r]) /\ new[r].hole = x.hole
          /\ new[r].stack = x.stack /\ new[r].held = TRUE /\ new[r].rushed = FALSE
      <4>1. new[r] = [x EXCEPT !.held = TRUE, !.rushed = FALSE]
        BY <1>6, <2>5
      <4> HIDE DEF x
      <4> QED BY <2>3, <4>1, HeldInPlace DEF SamePortions
    <3> HIDE DEF plan, freed, x
    <3> QED BY <2>1, <2>5, <3>1 DEF HeldRow, x
  <2>6. CASE r \notin freed /\ r \notin plan.direct /\ taker(r)
    <3> DEFINE q == for(r)
               h == rows[q[1]].hole
               s == rows[q[1]].stack
    <3>1. q \in pairs /\ q[2] = r
      <4> HIDE DEF pairs
      <4> QED BY <2>6
    <3>2. new[r] = Place(x, h, s)
      BY <1>6, <2>6
    <3> HIDE DEF q
    <3>3. h \in Spots /\ s \in Nat
      BY <1>5, <1>8, <3>1, RowFields
    <3>4. /\ new[r] \in Row /\ SamePortions(x, new[r]) /\ SameFlags(x, new[r])
          /\ new[r].hole = h /\ new[r].stack = s
      <4> HIDE DEF x, h, s
      <4> QED BY <2>3, <3>2, <3>3, Placed DEF SamePortions, SameFlags
    <3>5. /\ q \in ToSet(plan.pairs) /\ q[2] = r
          /\ new[r].hole = rows[q[1]].hole /\ new[r].stack = rows[q[1]].stack
      BY <3>1, <3>4
    <3> HIDE DEF plan, freed, x, taker
    <3> QED BY <2>1, <2>2, <2>6, <3>4, <3>5 DEF HeldRow, x
  <2>7. CASE r \notin freed /\ r \notin plan.direct /\ ~taker(r)
    <3>1. new[r] = x /\ SamePortions(x, x)
      BY <1>6, <2>7 DEF SamePortions
    <3> HIDE DEF plan, freed, x, taker
    <3> QED BY <2>1, <2>2, <2>3, <2>7, <3>1 DEF HeldRow, x
  <2> QED BY <2>4, <2>5, <2>6, <2>7
<1>10. new \in Seq(Row)
  BY <1>6, <1>9, Mapped DEF TypeInv
<1>11. TypeInv' /\ rows' = new
  BY <1>6, <1>7, <1>10, CommitType
<1> HIDE DEF plan, freed, taker, for, pairs
<1> QED BY <1>3, <1>4, <1>6, <1>9, <1>11 DEF plan, c

\* A fire or a rush, row by row.
LEMMA FlagRows ==
  ASSUME TypeInv, NEW t \in Tablets, FirePortions(t) \/ RushPortions(t)
  PROVE  /\ TypeInv' /\ DOMAIN rows' = DOMAIN rows /\ CallIn(call[t], DOMAIN rows)
         /\ Len(call[t].read) = Len(call[t].ids)
         /\ \A r \in DOMAIN rows :
              /\ SamePortions(rows[r], rows'[r])
              /\ rows'[r].hole = rows[r].hole /\ rows'[r].stack = rows[r].stack
              /\ FirePortions(t) => rows'[r].held \in {FALSE, rows[r].held}
                                    /\ rows'[r].rushed = rows[r].rushed
              /\ RushPortions(t) =>
                   /\ rows'[r].held = rows[r].held
                   /\ r \notin IdSet(call[t]) => rows'[r].rushed = rows[r].rushed
<1> DEFINE c == call[t]
           fired == [r \in DOMAIN rows |->
                       IF r \in IdSet(c) THEN [rows[r] EXCEPT !.held = FALSE] ELSE rows[r]]
           rushed == [r \in DOMAIN rows |->
                        IF r \in IdSet(c) THEN [rows[r] EXCEPT !.rushed = TRUE] ELSE rows[r]]
<1>1. c # NoCall /\ Len(c.read) = Len(c.ids)
  BY DEF FirePortions, RushPortions, AllRead, Idle
<1>2. CallIn(c, DOMAIN rows)
  BY <1>1, UnderWayCall
<1>3. \A r \in DOMAIN rows : rows[r] \in Row
  BY RowShape DEF TypeInv
<1>4. \A x : SamePortions(x, x)
  BY DEF SamePortions
<1>5. CASE FirePortions(t)
  <2>0. c.op = "fire" /\ Commit(t, fired)
    BY <1>5 DEF FirePortions
  <2>1. ~RushPortions(t)
    BY <2>0 DEF RushPortions
  <2>2. DOMAIN fired = DOMAIN rows /\ fired = [r \in DOMAIN rows |-> fired[r]]
        /\ \A r \in DOMAIN rows :
             fired[r] = IF r \in IdSet(c) THEN [rows[r] EXCEPT !.held = FALSE] ELSE rows[r]
    OBVIOUS
  <2> HIDE DEF fired, c
  <2>3. ASSUME NEW r \in DOMAIN rows
        PROVE  /\ fired[r] \in Row /\ SamePortions(rows[r], fired[r])
               /\ fired[r].hole = rows[r].hole /\ fired[r].stack = rows[r].stack
               /\ fired[r].held \in {FALSE, rows[r].held}
               /\ fired[r].rushed = rows[r].rushed
    <3>1. CASE r \in IdSet(c)
      <4> DEFINE x == rows[r]
                 y == [x EXCEPT !.held = FALSE]
      <4>1. x \in Row /\ fired[r] = y
        BY <1>3, <2>2, <3>1
      <4> HIDE DEF x
      <4>2. /\ y \in Row /\ y.held = FALSE /\ y.hole = x.hole /\ y.stack = x.stack
            /\ y.rushed = x.rushed /\ SamePortions(x, y)
        BY <4>1, Fired DEF SamePortions
      <4> HIDE DEF y
      <4> QED BY <4>1, <4>2 DEF x
    <3>2. CASE r \notin IdSet(c)
      BY <1>3, <1>4, <2>2, <3>2
    <3> QED BY <3>1, <3>2
  <2>4. fired \in Seq(Row)
    BY <2>2, <2>3, Mapped DEF TypeInv
  <2>5. TypeInv' /\ rows' = fired
    BY <2>0, <2>2, <2>4, CommitType
  <2> QED BY <1>1, <1>2, <2>1, <2>2, <2>3, <2>5 DEF c
<1>6. CASE RushPortions(t)
  <2>0. c.op = "rush" /\ Commit(t, rushed)
    BY <1>6 DEF RushPortions
  <2>1. ~FirePortions(t)
    BY <2>0 DEF FirePortions
  <2>2. DOMAIN rushed = DOMAIN rows /\ rushed = [r \in DOMAIN rows |-> rushed[r]]
        /\ \A r \in DOMAIN rows :
             rushed[r] = IF r \in IdSet(c) THEN [rows[r] EXCEPT !.rushed = TRUE] ELSE rows[r]
    OBVIOUS
  <2> HIDE DEF rushed, c
  <2>3. ASSUME NEW r \in DOMAIN rows
        PROVE  /\ rushed[r] \in Row /\ SamePortions(rows[r], rushed[r])
               /\ rushed[r].hole = rows[r].hole /\ rushed[r].stack = rows[r].stack
               /\ rushed[r].held = rows[r].held
               /\ r \notin IdSet(c) => rushed[r].rushed = rows[r].rushed
    <3>1. CASE r \in IdSet(c)
      <4> DEFINE x == rows[r]
                 y == [x EXCEPT !.rushed = TRUE]
      <4>1. x \in Row /\ rushed[r] = y
        BY <1>3, <2>2, <3>1
      <4> HIDE DEF x
      <4>2. /\ y \in Row /\ y.held = x.held /\ y.hole = x.hole /\ y.stack = x.stack
            /\ SamePortions(x, y)
        BY <4>1, Rushed DEF SamePortions
      <4> HIDE DEF y
      <4> QED BY <3>1, <4>1, <4>2 DEF x
    <3>2. CASE r \notin IdSet(c)
      BY <1>3, <1>4, <2>2, <3>2
    <3> QED BY <3>1, <3>2
  <2>4. rushed \in Seq(Row)
    BY <2>2, <2>3, Mapped DEF TypeInv
  <2>5. TypeInv' /\ rows' = rushed
    BY <2>0, <2>2, <2>4, CommitType
  <2> QED BY <1>1, <1>2, <2>1, <2>2, <2>3, <2>5 DEF c
<1> QED BY <1>5, <1>6

-----------------------------------------------------------------------------
(* The scraper.                                                              *)

\* What the scraper may do to a row, whatever the tablets are about: it takes the row
\* off, brings it back or leaves it, and never touches its place or its flags.
ScrapedRow(r, x, y) ==
  /\ y.line = x.line /\ y.hole = x.hole /\ y.stack = x.stack /\ SameFlags(x, y)
  /\ \/ y = x /\ (r \in raced => r \in raced')
     \/ /\ y.dish = "cancelled" /\ y.refund = TRUE /\ y.qty = 0
        /\ y.line \in touched' /\ (UnderWay(r) => r \in raced')
     \/ x.refund /\ y.dish = "waiting" /\ y.refund = FALSE

\* A cancellation, row by row.
LEMMA RefundRows ==
  ASSUME TypeInv, NEW rs \in SUBSET DOMAIN rows, Refund(rs)
  PROVE  /\ rows' \in Seq(Row) /\ DOMAIN rows' = DOMAIN rows /\ CallsIn'
         /\ touched' \subseteq Lines /\ raced' \subseteq DOMAIN rows
         /\ UNCHANGED <<call, serial, commits, twice>> /\ touched \subseteq touched'
         /\ \A r \in DOMAIN rows : ScrapedRow(r, rows[r], rows'[r])
<1>1. /\ rows' = [r \in DOMAIN rows |-> IF r \in rs THEN Refunded(rows[r]) ELSE rows[r]]
      /\ touched' = touched \cup {rows[r].line : r \in rs}
      /\ raced' = (raced \ rs) \cup {r \in rs : UnderWay(r)}
      /\ UNCHANGED <<call, commits, serial, twice>>
  BY DEF Refund
<1>2. \A r \in DOMAIN rows : rows[r] \in Row
  BY RowShape DEF TypeInv
<1>3. ASSUME NEW r \in DOMAIN rows
      PROVE  rows'[r] \in Row /\ ScrapedRow(r, rows[r], rows'[r])
  <2>1. CASE r \in rs
    <3> DEFINE x == rows[r]
    <3>1. rows'[r] = Refunded(x) /\ x \in Row
      BY <1>1, <1>2, <2>1
    <3>2. x.line \in touched' /\ (UnderWay(r) => r \in raced')
      BY <1>1, <2>1
    <3> HIDE DEF x
    <3>3. /\ rows'[r] \in Row
          /\ rows'[r].dish = "cancelled" /\ rows'[r].refund = TRUE /\ rows'[r].qty = 0
          /\ rows'[r].line = x.line /\ rows'[r].hole = x.hole /\ rows'[r].stack = x.stack
          /\ SameFlags(x, rows'[r])
      <4> DEFINE y == Refunded(x)
      <4>1. /\ y \in Row
            /\ y.dish = "cancelled" /\ y.refund = TRUE /\ y.qty = 0
            /\ y.line = x.line /\ y.table = x.table /\ y.delivery = x.delivery
            /\ y.hole = x.hole /\ y.stack = x.stack /\ y.held = x.held
            /\ y.rushed = x.rushed
        BY <3>1, IsRefunded
      <4>2. rows'[r] = y
        BY <3>1
      <4> HIDE DEF y
      <4> QED BY <4>1, <4>2 DEF SameFlags
    <3> QED BY <3>2, <3>3 DEF ScrapedRow, x
  <2>2. CASE r \notin rs
    <3>1. rows'[r] = rows[r] /\ (r \in raced => r \in raced')
      BY <1>1, <2>2
    <3> QED BY <1>2, <3>1 DEF ScrapedRow, SameFlags
  <2> QED BY <2>1, <2>2
<1>4. DOMAIN rows' = DOMAIN rows /\ rows' = [r \in DOMAIN rows |-> rows'[r]]
  BY <1>1
<1>5. rows' \in Seq(Row)
  BY <1>3, <1>4, Mapped DEF TypeInv
<1>6. CallsIn'
  BY <1>1, <1>4, CallMoves DEF TypeInv
<1>7. touched' \subseteq Lines /\ raced' \subseteq DOMAIN rows /\ touched \subseteq touched'
  BY <1>1, <1>2, RowFields DEF TypeInv, Rest
<1> QED BY <1>1, <1>3, <1>4, <1>5, <1>6, <1>7

\* Rows that are brought back.
LEMMA RestoredRows ==
  ASSUME TypeInv, NEW rs \in SUBSET DOMAIN rows, NEW n \in Nat,
         \A r \in rs : rows[r].refund,
         rows' = [r \in DOMAIN rows |-> IF r \in rs THEN Restored(rows[r], n) ELSE rows[r]],
         UNCHANGED <<call, picked, commits, serial, history>>, changes' = changes + 1
  PROVE  /\ TypeInv' /\ DOMAIN rows' = DOMAIN rows
         /\ \A r \in DOMAIN rows : ScrapedRow(r, rows[r], rows'[r])
<1>1. UNCHANGED <<touched, raced, twice>>
  BY DEF history
<1>2. \A r \in DOMAIN rows : rows[r] \in Row
  BY RowShape DEF TypeInv
<1>3. ASSUME NEW r \in DOMAIN rows
      PROVE  rows'[r] \in Row /\ ScrapedRow(r, rows[r], rows'[r])
  <2>1. CASE r \in rs
    <3> DEFINE x == rows[r]
    <3>1. rows'[r] = Restored(x, n) /\ x \in Row /\ x.refund
      BY <1>2, <2>1
    <3> HIDE DEF x
    <3>3. /\ rows'[r] \in Row
          /\ rows'[r].dish = "waiting" /\ rows'[r].refund = FALSE
          /\ rows'[r].line = x.line /\ rows'[r].hole = x.hole /\ rows'[r].stack = x.stack
          /\ SameFlags(x, rows'[r])
      <4> DEFINE y == Restored(x, n)
      <4>1. /\ y \in Row
            /\ y.dish = "waiting" /\ y.refund = FALSE /\ y.qty = n
            /\ y.line = x.line /\ y.table = x.table /\ y.delivery = x.delivery
            /\ y.hole = x.hole /\ y.stack = x.stack /\ y.held = x.held
            /\ y.rushed = x.rushed
        BY <3>1, IsRestored
      <4>2. rows'[r] = y
        BY <3>1
      <4> HIDE DEF y
      <4> QED BY <4>1, <4>2 DEF SameFlags
    <3> QED BY <3>1, <3>3 DEF ScrapedRow, x
  <2>2. CASE r \notin rs
    <3>1. rows'[r] = rows[r]
      BY <2>2
    <3> QED BY <1>1, <1>2, <3>1 DEF ScrapedRow, SameFlags
  <2> QED BY <2>1, <2>2
<1>4. DOMAIN rows' = DOMAIN rows /\ rows' = [r \in DOMAIN rows |-> rows'[r]]
  OBVIOUS
<1>5. rows' \in Seq(Row)
  BY <1>3, <1>4, Mapped DEF TypeInv
<1>6. CallsIn'
  BY <1>4, CallMoves DEF TypeInv
<1>7. Rest'
  BY <1>1, <1>4 DEF TypeInv, Rest
<1> QED BY <1>3, <1>4, <1>5, <1>6, <1>7 DEF TypeInv

\* Every step of the scraper, row by row.
LEMMA ScraperRows ==
  ASSUME TypeInv, Scraper
  PROVE  /\ TypeInv' /\ DOMAIN rows' = DOMAIN rows
         /\ UNCHANGED <<call, serial, commits, twice>> /\ touched \subseteq touched'
         /\ \A r \in DOMAIN rows : ScrapedRow(r, rows[r], rows'[r])
<1>1. ASSUME NEW table \in Tables, PickPortions(table)
      PROVE  /\ TypeInv' /\ DOMAIN rows' = DOMAIN rows
             /\ UNCHANGED <<call, serial, commits, twice>> /\ touched \subseteq touched'
             /\ \A r \in DOMAIN rows : ScrapedRow(r, rows[r], rows'[r])
  <2>1. /\ UNCHANGED <<rows, call, commits, serial, touched, raced, twice>>
        /\ changes' = changes + 1 /\ picked' \subseteq DOMAIN rows
    BY <1>1 DEF PickPortions, Change, history
  <2>2. CallsIn'
    BY <2>1, CallMoves DEF TypeInv
  <2>3. \A r \in DOMAIN rows : ScrapedRow(r, rows[r], rows'[r])
    BY <2>1 DEF ScrapedRow, SameFlags
  <2> QED BY <2>1, <2>2, <2>3 DEF TypeInv, Rest
<1>2. ASSUME NEW table \in Tables, RestorePortion(table)
      PROVE  /\ TypeInv' /\ DOMAIN rows' = DOMAIN rows
             /\ UNCHANGED <<call, serial, commits, twice>> /\ touched \subseteq touched'
             /\ \A r \in DOMAIN rows : ScrapedRow(r, rows[r], rows'[r])
  <2>1. PICK q \in DOMAIN rows : /\ rows[q].refund
                                 /\ rows' = [rows EXCEPT ![q] = Restored(@, 1)]
    BY <1>2 DEF RestorePortion
  <2>2. /\ UNCHANGED <<call, picked, commits, serial, history>>
        /\ UNCHANGED <<call, commits, serial, touched, twice>> /\ changes' = changes + 1
    BY <1>2 DEF RestorePortion, Change, history
  <2>3. rows' = [r \in DOMAIN rows |-> IF r \in {q} THEN Restored(rows[r], 1) ELSE rows[r]]
    <3>1. rows = [r \in DOMAIN rows |-> rows[r]]
      <4>1. rows \in [1..Len(rows) -> Row]
        BY RowShape DEF TypeInv
      <4> QED BY <4>1
    <3> QED BY <2>1, <3>1
  <2> QED BY <2>1, <2>2, <2>3, RestoredRows
<1>3. ASSUME CancelPortions
      PROVE  /\ TypeInv' /\ DOMAIN rows' = DOMAIN rows
             /\ UNCHANGED <<call, serial, commits, twice>> /\ touched \subseteq touched'
             /\ \A r \in DOMAIN rows : ScrapedRow(r, rows[r], rows'[r])
  <2>1. Refund(picked) /\ picked' = {} /\ UNCHANGED changes /\ picked \in SUBSET DOMAIN rows
    BY <1>3 DEF CancelPortions, TypeInv, Rest
  <2> QED BY <2>1, RefundRows DEF TypeInv, Rest
<1>4. ASSUME NEW i \in Lines, CancelBill(i)
      PROVE  /\ TypeInv' /\ DOMAIN rows' = DOMAIN rows
             /\ UNCHANGED <<call, serial, commits, twice>> /\ touched \subseteq touched'
             /\ \A r \in DOMAIN rows : ScrapedRow(r, rows[r], rows'[r])
  <2> DEFINE rs == {r \in Bill(i) : ~rows[r].refund}
  <2>1. /\ Refund(rs) /\ changes' = changes + 1 /\ UNCHANGED picked
        /\ rs \in SUBSET DOMAIN rows
    BY <1>4 DEF CancelBill, Change, Bill
  <2> HIDE DEF rs
  <2> QED BY <2>1, RefundRows DEF TypeInv, Rest
<1>5. ASSUME NEW i \in Lines, RevertBill(i)
      PROVE  /\ TypeInv' /\ DOMAIN rows' = DOMAIN rows
             /\ UNCHANGED <<call, serial, commits, twice>> /\ touched \subseteq touched'
             /\ \A r \in DOMAIN rows : ScrapedRow(r, rows[r], rows'[r])
  <2> DEFINE rs == {r \in Bill(i) : rows[r].refund}
  <2>1. /\ UNCHANGED <<call, picked, commits, serial, history>>
        /\ UNCHANGED <<call, commits, serial, touched, twice>> /\ changes' = changes + 1
    BY <1>5 DEF RevertBill, Change, history
  <2>2. rs \in SUBSET DOMAIN rows /\ (\A r \in rs : rows[r].refund) /\ Ordered[i].qty \in Nat
    BY OrderedShape DEF Bill
  <2>3. rows' = [r \in DOMAIN rows |-> IF r \in rs THEN Restored(rows[r], Ordered[i].qty)
                                                   ELSE rows[r]]
    BY <1>5 DEF RevertBill
  <2> HIDE DEF rs
  <2> QED BY <2>1, <2>2, <2>3, RestoredRows
<1> QED BY <1>1, <1>2, <1>3, <1>4, <1>5 DEF Scraper

\* Every step of a tablet keeps the types.
LEMMA TabletType ==
  ASSUME TypeInv, NEW t \in Tablets, Tablet(t)
  PROVE  TypeInv'
<1>1. ASSUME Open(t) PROVE TypeInv'
  BY <1>1, OpenType
<1>2. ASSUME Check(t) PROVE TypeInv'
  BY <1>2, CheckType
<1>3. ASSUME Measure(t) \/ Reread(t) \/ Substitute(t) PROVE TypeInv'
  BY <1>3, MeasureType, RereadType, SubstituteType
<1>4. ASSUME Load(t) PROVE TypeInv'
  BY <1>4, LoadRows
<1>5. ASSUME Move(t) PROVE TypeInv'
  BY <1>5, MoveRows
<1>6. ASSUME TakeOff(t) PROVE TypeInv'
  BY <1>6, TakeOffRows
<1>7. ASSUME Complete(t) PROVE TypeInv'
  BY <1>7, CompleteRows
<1>8. ASSUME HoldPortions(t) PROVE TypeInv'
  BY <1>8, HoldRows
<1>9. ASSUME FirePortions(t) \/ RushPortions(t) PROVE TypeInv'
  BY <1>9, FlagRows
<1> QED BY <1>1, <1>2, <1>3, <1>4, <1>5, <1>6, <1>7, <1>8, <1>9 DEF Tablet

\* The type invariant is inductive.
LEMMA TypeStep ==
  ASSUME TypeInv, [Next]_vars
  PROVE  TypeInv'
<1>1. CASE Next
  BY <1>1, TabletType, ScraperRows DEF Next
<1>2. CASE UNCHANGED vars
  <2>1. CallsIn'
    BY <1>2, CallMoves DEF vars, TypeInv
  <2> QED BY <1>2, <2>1 DEF vars, TypeInv, Rest
<1> QED BY <1>1, <1>2

\* Whatever the tablets and the scraper do, rows keep their shape, a completion leaves no row
\* with fewer than no portions, and a call names rows that exist and has read no more
\* than it named (kds_orders.py, floor_console.py, orders_repo.py).
THEOREM KitchenTypeCorrect == Spec => []TypeOK
<1>1. TypeInv /\ [Next]_vars => TypeInv'
  BY TypeStep
<1> QED BY TypeInit, TypeInvType, <1>1, PTL DEF Spec

-----------------------------------------------------------------------------
(* The calls under way, from one step to the next.                           *)

\* A step of one tablet that writes no row leaves the calls of the others as they were.
Quiet(t) == \/ Open(t) \/ Check(t) \/ Measure(t) \/ Reread(t) \/ Substitute(t)
Writes(t) == \/ Load(t) \/ Move(t) \/ TakeOff(t) \/ Complete(t)
             \/ HoldPortions(t) \/ FirePortions(t) \/ RushPortions(t)

\* A step of a tablet reads or writes.
LEMMA TwoKinds ==
  ASSUME NEW t \in Tablets, Tablet(t)
  PROVE  Quiet(t) \/ Writes(t)
  BY DEF Tablet, Quiet, Writes

\* One that reads changes nothing but its call.
LEMMA QuietSteps ==
  ASSUME NEW t \in Tablets, Quiet(t)
  PROVE  UNCHANGED <<rows, picked, commits, changes, serial, touched, raced, twice>>
<1>1. ASSUME Open(t)
      PROVE  UNCHANGED <<rows, picked, commits, changes, serial, touched, raced, twice>>
  BY <1>1 DEF Open, counts, history
<1>2. ASSUME Unwritten
      PROVE  UNCHANGED <<rows, picked, commits, changes, serial, touched, raced, twice>>
  BY <1>2 DEF Unwritten, counts, history
<1>3. Open(t) \/ Unwritten
  BY DEF Quiet, Check, Measure, Reread, Substitute
<1> QED BY <1>1, <1>2, <1>3

\* One that writes is a transaction.
LEMMA WritesCommit ==
  ASSUME NEW t \in Tablets, Writes(t)
  PROVE  \E rs : Commit(t, rs)
<1>1. CASE Load(t)
  BY <1>1 DEF Load
<1>2. CASE Move(t)
  BY <1>2 DEF Move
<1>3. CASE TakeOff(t)
  BY <1>3 DEF TakeOff
<1>4. CASE Complete(t)
  BY <1>4 DEF Complete
<1>5. CASE HoldPortions(t)
  BY <1>5 DEF HoldPortions
<1>6. CASE FirePortions(t)
  BY <1>6 DEF FirePortions
<1>7. CASE RushPortions(t)
  BY <1>7 DEF RushPortions
<1> QED BY <1>1, <1>2, <1>3, <1>4, <1>5, <1>6, <1>7 DEF Writes

\* One that writes ends its call.
LEMMA WritingSteps ==
  ASSUME TypeInv, NEW t \in Tablets, Writes(t)
  PROVE  /\ UNCHANGED <<picked, changes, serial, touched, raced>>
         /\ call' = [call EXCEPT ![t] = NoCall]
<1>1. ASSUME NEW rs, Commit(t, rs)
      PROVE  /\ UNCHANGED <<picked, changes, serial, touched, raced>>
             /\ call' = [call EXCEPT ![t] = NoCall]
  BY <1>1 DEF Commit, Answer, history
<1> QED BY <1>1, WritesCommit

\* What one call may become in a step that writes no row: nothing, another call, or
\* itself with one more row read, one row left out or its plan made.
Became(c, d) ==
  \/ d.read = <<>>
  \/ /\ c # NoCall /\ d.op = c.op /\ d.hole = c.hole /\ d.portions = c.portions
     /\ \/ /\ d.ids = c.ids /\ d.plan = c.plan /\ d.plan = <<>>
           /\ Len(d.read) = Len(c.read) + 1 /\ Len(d.read) \in DOMAIN c.ids
           /\ \A i \in DOMAIN c.read : d.read[i] = c.read[i]
           /\ LET x == rows[c.ids[Len(d.read)]]
              IN  Fits(c, Len(d.read), x) /\ d.read[Len(d.read)] = [hole |-> x.hole, qty |-> x.qty]
        \/ /\ d.read = c.read /\ d.plan = c.plan /\ d.plan = <<>> /\ c.op \in Floor
           /\ Len(d.ids) = Len(c.ids) - 1
           /\ \A i \in DOMAIN c.read : d.ids[i] = c.ids[i]
        \/ /\ d.ids = c.ids /\ d.read = c.read /\ d.plan # <<>> /\ c.plan = <<>>
           /\ Len(c.read) = Len(c.ids)

\* A check and the call it leaves.
LEMMA CheckedCall ==
  ASSUME TypeInv, NEW t \in Tablets, Check(t), call'[t] # NoCall
  PROVE  Became(call[t], call'[t])
<1> DEFINE c == call[t]
           i == Len(c.read) + 1
           x == rows[c.ids[i]]
           seen == [hole |-> x.hole, qty |-> x.qty]
<1>1. /\ c # NoCall /\ c \in Call /\ CallIn(c, DOMAIN rows) /\ Len(c.read) # Len(c.ids)
      /\ call \in [Tablets -> {NoCall} \cup Call]
  BY DEF TypeInv, CallsIn, Check, AllRead, Idle
<1>2. /\ Len(c.ids) \in Nat /\ DOMAIN c.ids = 1..Len(c.ids) /\ c.ids \in Seq(Nat)
      /\ Len(c.read) \in Nat /\ DOMAIN c.read = 1..Len(c.read)
      /\ c.read \in Seq([hole : Spots, qty : Nat])
  BY <1>1, CallShape
<1>3. i \in 1..Len(c.ids)
  BY <1>1, <1>2 DEF CallIn
<1>4. c.plan = <<>>
  BY <1>1 DEF CallIn, PlanIn
<1>5. ASSUME Fits(c, i, x), call' = [call EXCEPT ![t].read = Append(@, seen)]
      PROVE  Became(c, call'[t])
  <2> DEFINE read == Append(c.read, seen)
             d == [c EXCEPT !.read = read]
  <2>1. x \in Row
    <3>1. c.ids[i] \in DOMAIN rows
      BY <1>1, <1>2, <1>3 DEF CallIn
    <3> QED BY <3>1, RowShape DEF TypeInv
  <2>2. /\ read \in Seq([hole : Spots, qty : Nat]) /\ Len(read) = i
        /\ \A j \in DOMAIN c.read : read[j] = c.read[j]
        /\ read[i] = seen
    <3>1. seen \in [hole : Spots, qty : Nat]
      BY <2>1, RowFields
    <3> HIDE DEF seen
    <3>2. /\ read \in Seq([hole : Spots, qty : Nat]) /\ Len(read) = Len(c.read) + 1
          /\ \A j \in 1..Len(c.read) : read[j] = c.read[j]
          /\ read[Len(c.read) + 1] = seen
      BY <1>2, <3>1, AppendProperties
    <3> QED BY <1>2, <3>2
  <2>3. call'[t] = d
    BY <1>1, <1>5
  <2> HIDE DEF read
  <2>4. /\ d.read = read /\ d.ids = c.ids /\ d.op = c.op /\ d.hole = c.hole
        /\ d.portions = c.portions /\ d.plan = c.plan
    <3> HIDE DEF c
    <3> QED BY <1>1, <2>2, CallEdits
  <2> HIDE DEF d
  <2>5. Len(d.read) = i /\ i = Len(c.read) + 1 /\ i \in DOMAIN c.ids
    BY <1>2, <1>3, <2>2, <2>4
  <2>6. d.read[i] = [hole |-> x.hole, qty |-> x.qty] /\ Fits(c, i, x)
    BY <1>5, <2>2, <2>4
  <2> HIDE DEF c, i
  <2> QED BY <1>1, <1>4, <2>2, <2>3, <2>4, <2>5, <2>6 DEF Became
<1>6. ASSUME c.op \in Floor, Len(c.ids) > 1, call' = [call EXCEPT ![t].ids = RemoveAt(@, i)]
      PROVE  Became(c, call'[t])
  <2> DEFINE ids == RemoveAt(c.ids, i)
             d == [c EXCEPT !.ids = ids]
  <2>1. /\ ids \in Seq(Nat) /\ Len(ids) = Len(c.ids) - 1
        /\ \A j \in 1..(Len(c.ids) - 1) :
             ids[j] = IF j < i THEN c.ids[j] ELSE c.ids[j + 1]
    <3> HIDE DEF i
    <3> QED BY <1>2, <1>3, Removed
  <2>2. call'[t] = d
    BY <1>1, <1>6
  <2> HIDE DEF ids
  <2>3. /\ d.read = c.read /\ d.ids = ids /\ d.op = c.op /\ d.hole = c.hole
        /\ d.portions = c.portions /\ d.plan = c.plan
    <3> HIDE DEF c
    <3> QED BY <1>1, <2>1, CallEdits
  <2> HIDE DEF d
  <2>4. ASSUME NEW j \in DOMAIN c.read PROVE ids[j] = c.ids[j]
    <3> HIDE DEF c
    <3>1. j \in 1..(Len(c.ids) - 1) /\ j < i
      BY <1>2, <1>3
    <3> HIDE DEF i
    <3> QED BY <2>1, <3>1
  <2> HIDE DEF c, i
  <2> QED BY <1>1, <1>4, <1>6, <2>1, <2>2, <2>3, <2>4 DEF Became
<1>7. ~Answer(t)
  BY <1>1 DEF Answer
<1>8. \/ Fits(c, i, x) /\ call' = [call EXCEPT ![t].read = Append(@, seen)]
      \/ c.op \in Floor /\ Len(c.ids) > 1 /\ call' = [call EXCEPT ![t].ids = RemoveAt(@, i)]
  BY <1>7 DEF Check
<1> QED BY <1>5, <1>6, <1>8

\* A plan and the call it leaves.
LEMMA PlannedCall ==
  ASSUME TypeInv, NEW t \in Tablets, AllRead(t), ~Planned(t), NEW p,
         call' = [call EXCEPT ![t].plan = <<p>>]
  PROVE  Became(call[t], call'[t]) /\ call'[t].plan[1] = p
<1> DEFINE c == call[t]
           d == [c EXCEPT !.plan = <<p>>]
<1>1. /\ c \in Call /\ Len(c.read) = Len(c.ids) /\ c.plan = <<>> /\ c # NoCall
      /\ call \in [Tablets -> {NoCall} \cup Call]
  BY DEF TypeInv, CallsIn, AllRead, Idle, Planned
<1>2. <<p>>[1] = p /\ <<p>> # <<>>
  OBVIOUS
<1>3. d.plan = <<p>> /\ d.ids = c.ids /\ d.op = c.op /\ d.hole = c.hole
      /\ d.portions = c.portions /\ d.read = c.read
  <2> HIDE DEF c
  <2> QED BY <1>1 DEF Call
<1>4. call'[t] = d
  BY <1>1
<1> HIDE DEF d, c
<1> QED BY <1>1, <1>2, <1>3, <1>4 DEF Became, c

\* The steps that read, and the calls they leave.
LEMMA QuietCalls ==
  ASSUME TypeInv, NEW t \in Tablets, Quiet(t)
  PROVE  /\ \A u \in Tablets \ {t} : call'[u] = call[u]
         /\ call'[t] # NoCall => Became(call[t], call'[t])
<1>1. call \in [Tablets -> {NoCall} \cup Call]
  BY DEF TypeInv, CallsIn
<1>2. ASSUME Open(t)
      PROVE  /\ \A u \in Tablets \ {t} : call'[u] = call[u]
             /\ call'[t] # NoCall => Became(call[t], call'[t])
  BY <1>1, <1>2 DEF Open, Became
<1>3. ASSUME Check(t)
      PROVE  /\ \A u \in Tablets \ {t} : call'[u] = call[u]
             /\ call'[t] # NoCall => Became(call[t], call'[t])
  <2>1. \A u \in Tablets \ {t} : call'[u] = call[u]
    BY <1>1, <1>3 DEF Check, Answer
  <2> QED BY <1>3, <2>1, CheckedCall
<1>4. ASSUME Answer(t)
      PROVE  /\ \A u \in Tablets \ {t} : call'[u] = call[u]
             /\ call'[t] # NoCall => Became(call[t], call'[t])
  BY <1>1, <1>4 DEF Answer
<1>5. ASSUME NEW p, AllRead(t), ~Planned(t), call' = [call EXCEPT ![t].plan = <<p>>]
      PROVE  /\ \A u \in Tablets \ {t} : call'[u] = call[u]
             /\ call'[t] # NoCall => Became(call[t], call'[t])
  <2>1. \A u \in Tablets \ {t} : call'[u] = call[u]
    BY <1>1, <1>5
  <2> QED BY <1>5, <2>1, PlannedCall
<1>6. CASE Measure(t)
  <2>1. AllRead(t) /\ ~Planned(t)
        /\ (Answer(t) \/ \E p : call' = [call EXCEPT ![t].plan = <<p>>])
    BY <1>6 DEF Measure
  <2> QED BY <1>4, <1>5, <2>1
<1>7. CASE Reread(t)
  <2>1. AllRead(t) /\ ~Planned(t) /\ \E p : call' = [call EXCEPT ![t].plan = <<p>>]
    BY <1>7 DEF Reread
  <2> QED BY <1>5, <2>1
<1>8. CASE Substitute(t)
  <2>1. AllRead(t) /\ ~Planned(t)
        /\ (Answer(t) \/ \E p : call' = [call EXCEPT ![t].plan = <<p>>])
    BY <1>8 DEF Substitute
  <2> QED BY <1>4, <1>5, <2>1
<1> QED BY <1>2, <1>3, <1>6, <1>7, <1>8 DEF Quiet

\* Only a completion touches the portions of a row.
LEMMA PortionsStay ==
  ASSUME TypeInv, NEW t \in Tablets, Writes(t), ~Complete(t)
  PROVE  /\ DOMAIN rows' = DOMAIN rows
         /\ \A r \in DOMAIN rows : SamePortions(rows[r], rows'[r])
<1>1. CASE Load(t)
  BY <1>1, LoadRows
<1>2. CASE Move(t)
  BY <1>2, MoveRows
<1>3. CASE TakeOff(t)
  BY <1>3, TakeOffRows
<1>4. CASE HoldPortions(t)
  BY <1>4, HoldRows DEF HeldRow
<1>5. CASE FirePortions(t) \/ RushPortions(t)
  BY <1>5, FlagRows
<1> QED BY <1>1, <1>2, <1>3, <1>4, <1>5 DEF Writes

\* And that of the rows it names: the others stay, the rows split off are new.
LEMMA PortionsDone ==
  ASSUME TypeInv, NEW t \in Tablets, Complete(t)
  PROVE  LET c == call[t]
             part == {i \in DOMAIN c.ids : c.read[i].qty # c.portions[i]}
             pick(k) == CHOOSE j \in part : Nth(part, j) = k
         IN
         /\ CallIn(c, DOMAIN rows) /\ c.op = "complete" /\ Len(c.read) = Len(c.ids)
         /\ Distinct(c)
         /\ Cardinality(part) \in Nat
         /\ DOMAIN rows' = 1..(Len(rows) + Cardinality(part))
         /\ \A k \in 1..Cardinality(part) : pick(k) \in part /\ Nth(part, pick(k)) = k
         /\ \A r \in DOMAIN rows : rows'[r].line = rows[r].line
                                   /\ rows'[r].refund = rows[r].refund
         /\ \A r \in DOMAIN rows \ IdSet(c) : SamePortions(rows[r], rows'[r])
         /\ \A i \in DOMAIN c.ids :
              rows'[c.ids[i]].qty = IF i \in part THEN c.read[i].qty - c.portions[i]
                                                  ELSE rows[c.ids[i]].qty
         /\ \A k \in 1..Cardinality(part) :
              /\ rows'[Len(rows) + k].line = rows[c.ids[pick(k)]].line
              /\ rows'[Len(rows) + k].refund = FALSE /\ rows'[Len(rows) + k].dish = "made"
              /\ rows'[Len(rows) + k].qty = c.portions[pick(k)]
<1> DEFINE c == call[t]
           part == {i \in DOMAIN c.ids : c.read[i].qty # c.portions[i]}
           pick(k) == CHOOSE j \in part : Nth(part, j) = k
           hs == {c.read[i].hole : i \in DOMAIN c.read}
<1>1. /\ CallIn(c, DOMAIN rows) /\ c.op = "complete" /\ Len(c.read) = Len(c.ids)
      /\ Distinct(c)
      /\ Cardinality(part) \in Nat
      /\ DOMAIN rows' = 1..(Len(rows) + Cardinality(part))
      /\ \A k \in 1..Cardinality(part) : pick(k) \in part /\ Nth(part, pick(k)) = k
  BY CompleteRows
<1>2. PICK new \in Seq(Row) :
        /\ rows' = Compact(new, hs)
        /\ DOMAIN new = DOMAIN rows'
        /\ \A r \in DOMAIN rows \ IdSet(c) : new[r] = rows[r]
        /\ \A i \in DOMAIN c.ids : DoneRow(c, part, i, rows[c.ids[i]], new[c.ids[i]])
        /\ \A k \in 1..Cardinality(part) :
             SplitRow(c, pick(k), rows[c.ids[pick(k)]], new[Len(rows) + k])
  BY CompleteRows
<1>3. /\ Len(rows) \in Nat /\ DOMAIN rows = 1..Len(rows)
  BY RowShape DEF TypeInv
<1> HIDE DEF c, part, pick, hs
<1>4. \A r \in DOMAIN rows' : SamePortions(new[r], rows'[r])
  BY <1>2, CompactKeeps
<1>5. ASSUME NEW r \in DOMAIN rows \ IdSet(c) PROVE SamePortions(rows[r], rows'[r])
  <2>1. r \in DOMAIN rows'
    BY <1>1, <1>3
  <2> QED BY <1>2, <1>4, <2>1
<1>6. ASSUME NEW i \in DOMAIN c.ids
      PROVE  /\ rows'[c.ids[i]].line = rows[c.ids[i]].line
             /\ rows'[c.ids[i]].refund = rows[c.ids[i]].refund
             /\ rows'[c.ids[i]].qty = IF i \in part THEN c.read[i].qty - c.portions[i]
                                                    ELSE rows[c.ids[i]].qty
  <2>1. c.ids[i] \in DOMAIN rows'
    BY <1>1, <1>3 DEF CallIn
  <2>2. SamePortions(new[c.ids[i]], rows'[c.ids[i]])
    BY <1>4, <2>1
  <2>3. DoneRow(c, part, i, rows[c.ids[i]], new[c.ids[i]])
    BY <1>2
  <2> QED BY <2>2, <2>3 DEF SamePortions, DoneRow
<1>7. ASSUME NEW r \in DOMAIN rows
      PROVE  rows'[r].line = rows[r].line /\ rows'[r].refund = rows[r].refund
  <2>1. CASE r \in IdSet(c)
    <3>1. Position(c.ids, r) \in DOMAIN c.ids /\ c.ids[Position(c.ids, r)] = r
      BY <1>1, <2>1, Positions
    <3> QED BY <1>6, <3>1
  <2>2. CASE r \notin IdSet(c)
    BY <1>5, <2>2 DEF SamePortions
  <2> QED BY <2>1, <2>2
<1>8. ASSUME NEW k \in 1..Cardinality(part)
      PROVE  /\ rows'[Len(rows) + k].line = rows[c.ids[pick(k)]].line
             /\ rows'[Len(rows) + k].refund = FALSE /\ rows'[Len(rows) + k].dish = "made"
             /\ rows'[Len(rows) + k].qty = c.portions[pick(k)]
  <2>1. Len(rows) + k \in DOMAIN rows'
    BY <1>1, <1>3
  <2>2. SamePortions(new[Len(rows) + k], rows'[Len(rows) + k])
    BY <1>4, <2>1
  <2>3. SplitRow(c, pick(k), rows[c.ids[pick(k)]], new[Len(rows) + k])
    BY <1>2
  <2> QED BY <2>2, <2>3 DEF SamePortions, SplitRow
<1> QED BY <1>1, <1>5, <1>6, <1>7, <1>8 DEF c, part, pick

-----------------------------------------------------------------------------
(* A cancelled row counts nothing.                                           *)

\* A completion that has seen a row of which money is given back now was under way when
\* that happened.
Witnessed(c) ==
  c.op = "complete" =>
    \A i \in DOMAIN c.read : rows[c.ids[i]].refund => c.ids[i] \in raced

CancelledInv ==
  /\ CancelledCountsNothing
  /\ \A t \in Tablets : call[t] # NoCall => Witnessed(call[t])

\* At the start no row is cancelled and no call is under way.
LEMMA CancelledInit == Init => CancelledInv
<1> SUFFICES ASSUME Init PROVE CancelledInv
  OBVIOUS
<1>1. \A i \in Lines : ~Stored(i).refund
  BY DEF Stored
<1>2. DOMAIN rows = Lines /\ \A r \in DOMAIN rows : ~rows[r].refund
  BY <1>1 DEF Init
<1>3. CancelledCountsNothing
  BY <1>2 DEF CancelledCountsNothing
<1>4. \A t \in Tablets : call[t] = NoCall
  BY DEF Init
<1> QED BY <1>3, <1>4 DEF CancelledInv

\* The invariant is inductive: the one call that could bring back a row has seen it cancelled,
\* or was under way when it was.
LEMMA CancelledStep ==
  ASSUME TypeInv, CancelledInv, Next
  PROVE  CancelledInv'
<1>0. TypeInv'
  BY TypeStep
<1>1. ASSUME NEW t \in Tablets, Quiet(t) PROVE CancelledInv'
  <2>1. UNCHANGED <<rows, raced>>
    BY <1>1, QuietSteps
  <2>2. CancelledCountsNothing'
    BY <2>1 DEF CancelledInv, CancelledCountsNothing
  <2>3. ASSUME NEW u \in Tablets \ {t}, call'[u] # NoCall PROVE Witnessed(call[u])'
    <3>1. call'[u] = call[u] /\ Witnessed(call[u])
      BY <1>1, <2>3, QuietCalls DEF CancelledInv
    <3> QED BY <2>1, <3>1 DEF Witnessed
  <2>4. ASSUME call'[t] # NoCall PROVE Witnessed(call[t])'
    <3> DEFINE c == call[t]
               d == call'[t]
    <3>1. Became(c, d)
      BY <1>1, <2>4, QuietCalls
    <3>2. d \in Call /\ DOMAIN d.read = 1..Len(d.read) /\ Len(d.read) \in Nat
      BY <1>0, <2>4, CallShape DEF TypeInv, CallsIn
    <3>3. c # NoCall => /\ Witnessed(c) /\ DOMAIN c.read = 1..Len(c.read)
                        /\ Len(c.read) \in Nat
      BY CallShape DEF TypeInv, CallsIn, CancelledInv
    <3> SUFFICES ASSUME d.op = "complete", NEW i \in DOMAIN d.read, rows[d.ids[i]].refund
                 PROVE  d.ids[i] \in raced
      BY <2>1 DEF Witnessed
    <3> HIDE DEF c, d
    <3>4. d.read # <<>>
      BY <3>2
    <3>5. c # NoCall /\ c.op = "complete" /\ d.ids = c.ids /\ c.op \notin Floor
      BY <3>1, <3>4 DEF Became, Floor
    <3>6. CASE d.read = c.read
      BY <3>3, <3>5, <3>6 DEF Witnessed
    <3>7. CASE d.read # c.read
      <4>1. /\ Len(d.read) = Len(c.read) + 1
            /\ Fits(c, Len(d.read), rows[c.ids[Len(d.read)]])
        BY <3>1, <3>4, <3>5, <3>7 DEF Became
      <4>2. ~rows[c.ids[Len(d.read)]].refund
        BY <3>5, <4>1 DEF Fits, Completable
      <4>3. i # Len(d.read)
        BY <3>5, <4>2
      <4>4. i \in DOMAIN c.read
        BY <3>2, <3>3, <3>5, <4>1, <4>3
      <4> QED BY <3>3, <3>5, <4>4 DEF Witnessed
    <3> QED BY <3>6, <3>7
  <2> QED BY <2>2, <2>3, <2>4 DEF CancelledInv
<1>2. ASSUME NEW t \in Tablets, Writes(t) PROVE CancelledInv'
  <2>1. /\ UNCHANGED raced
        /\ \A u \in Tablets : call'[u] = IF u = t THEN NoCall ELSE call[u]
    BY <1>2, WritingSteps DEF TypeInv, CallsIn
  <2>2. ASSUME \A r \in DOMAIN rows : rows'[r].refund = rows[r].refund,
               NEW u \in Tablets, call'[u] # NoCall
        PROVE  Witnessed(call[u])'
    <3>1. call'[u] = call[u] /\ call[u] # NoCall
      BY <2>1, <2>2
    <3>2. /\ Witnessed(call[u]) /\ CallIn(call[u], DOMAIN rows)
          /\ DOMAIN call[u].read \subseteq DOMAIN call[u].ids
      <4>1. Witnessed(call[u]) /\ CallIn(call[u], DOMAIN rows)
        BY <3>1 DEF TypeInv, CallsIn, CancelledInv
      <4> QED BY <4>1, CallShape DEF CallIn
    <3>3. \A i \in DOMAIN call[u].read : call[u].ids[i] \in DOMAIN rows
      BY <3>2 DEF CallIn
    <3> QED BY <2>1, <2>2, <3>1, <3>2, <3>3 DEF Witnessed
  <2>3. CASE ~Complete(t)
    <3>1. DOMAIN rows' = DOMAIN rows /\ \A r \in DOMAIN rows : SamePortions(rows[r], rows'[r])
      BY <1>2, <2>3, PortionsStay
    <3>2. CancelledCountsNothing'
      BY <2>1, <3>1 DEF CancelledCountsNothing, SamePortions, CancelledInv
    <3> QED BY <2>2, <3>1, <3>2 DEF CancelledInv, SamePortions
  <2>4. CASE Complete(t)
    <3> DEFINE c == call[t]
               m == Cardinality({i \in DOMAIN c.ids : c.read[i].qty # c.portions[i]})
    <3>1. /\ CallIn(c, DOMAIN rows) /\ c.op = "complete" /\ Len(c.read) = Len(c.ids)
          /\ m \in Nat /\ DOMAIN rows' = 1..(Len(rows) + m)
          /\ \A r \in DOMAIN rows : rows'[r].refund = rows[r].refund
          /\ \A r \in DOMAIN rows \ IdSet(c) : SamePortions(rows[r], rows'[r])
          /\ \A k \in 1..m : rows'[Len(rows) + k].refund = FALSE
      BY <2>4, PortionsDone
    <3>2. c # NoCall /\ Witnessed(c)
      BY <2>4 DEF Complete, AllRead, Idle, CancelledInv
    <3>3. /\ DOMAIN c.read = DOMAIN c.ids /\ Len(rows) \in Nat /\ DOMAIN rows = 1..Len(rows)
      BY <3>1, CallShape, RowShape DEF CallIn, TypeInv
    <3> HIDE DEF c, m
    <3>4. ASSUME NEW r \in DOMAIN rows' \ raced, rows'[r].refund
          PROVE  rows'[r].dish = "cancelled" /\ rows'[r].qty = 0
      <4>1. r \in DOMAIN rows
        <5> SUFFICES ASSUME r \notin DOMAIN rows PROVE FALSE
          OBVIOUS
        <5>1. r - Len(rows) \in 1..m /\ Len(rows) + (r - Len(rows)) = r
          BY <3>1, <3>3
        <5> QED BY <3>1, <3>4, <5>1
      <4>2. rows[r].refund
        BY <3>1, <3>4, <4>1
      <4>3. r \notin IdSet(c)
        <5> SUFFICES ASSUME r \in IdSet(c) PROVE FALSE
          OBVIOUS
        <5>1. Position(c.ids, r) \in DOMAIN c.ids /\ c.ids[Position(c.ids, r)] = r
          BY <3>1, Positions
        <5> QED BY <3>1, <3>2, <3>3, <4>2, <5>1 DEF Witnessed
      <4>4. rows[r].dish = "cancelled" /\ rows[r].qty = 0
        BY <4>1, <4>2 DEF CancelledInv, CancelledCountsNothing
      <4> QED BY <3>1, <4>1, <4>3, <4>4 DEF SamePortions
    <3>5. CancelledCountsNothing'
      BY <2>1, <3>4 DEF CancelledCountsNothing
    <3> QED BY <2>2, <3>1, <3>5 DEF CancelledInv
  <2> QED BY <2>3, <2>4
<1>3. ASSUME Scraper PROVE CancelledInv'
  <2>1. /\ DOMAIN rows' = DOMAIN rows /\ UNCHANGED call
        /\ \A r \in DOMAIN rows : ScrapedRow(r, rows[r], rows'[r])
    BY <1>3, ScraperRows
  <2>2. ASSUME NEW r \in DOMAIN rows \ raced', rows'[r].refund
        PROVE  rows'[r].dish = "cancelled" /\ rows'[r].qty = 0
    <3>1. CASE rows'[r] = rows[r] /\ (r \in raced => r \in raced')
      BY <2>2, <3>1 DEF CancelledInv, CancelledCountsNothing
    <3>2. CASE rows'[r].dish = "cancelled" /\ rows'[r].qty = 0
      BY <3>2
    <3> QED BY <2>1, <2>2, <3>1, <3>2 DEF ScrapedRow
  <2>3. CancelledCountsNothing'
    BY <2>1, <2>2 DEF CancelledCountsNothing
  <2>4. ASSUME NEW u \in Tablets, call[u] # NoCall PROVE Witnessed(call[u])'
    <3> DEFINE c == call[u]
    <3>1. /\ Witnessed(c) /\ CallIn(c, DOMAIN rows)
          /\ DOMAIN c.read \subseteq DOMAIN c.ids
      <4>1. Witnessed(c) /\ CallIn(c, DOMAIN rows)
        BY <2>4 DEF TypeInv, CallsIn, CancelledInv
      <4> HIDE DEF c
      <4> QED BY <4>1, CallShape DEF CallIn
    <3> SUFFICES ASSUME c.op = "complete", NEW i \in DOMAIN c.read, rows'[c.ids[i]].refund
                 PROVE  c.ids[i] \in raced'
      BY <2>1 DEF Witnessed
    <3>2. c.ids[i] \in DOMAIN rows /\ c.ids[i] \in IdSet(c)
      BY <3>1, Positions DEF CallIn
    <3>3. UnderWay(c.ids[i])
      BY <2>4, <3>2 DEF UnderWay, Idle
    <3>4. ScrapedRow(c.ids[i], rows[c.ids[i]], rows'[c.ids[i]])
      BY <2>1, <3>2
    <3> HIDE DEF c
    <3>5. CASE rows'[c.ids[i]] = rows[c.ids[i]]
               /\ (c.ids[i] \in raced => c.ids[i] \in raced')
      BY <3>1, <3>5 DEF Witnessed
    <3> QED BY <3>3, <3>4, <3>5 DEF ScrapedRow
  <2> QED BY <2>1, <2>3, <2>4 DEF CancelledInv
<1> QED BY <1>1, <1>2, <1>3, TwoKinds DEF Next

\* A row on which money is given back counts no portion and stays cancelled, whichever calls
\* checked it before, unless a completion of it was under way (orders_repo.py:
\* mark_delivery_cancelled, cancel_dine_in_portions, apply_steamer_*, apply_floor_mutations).
THEOREM CancelledCounts == Spec => []CancelledCountsNothing
<1>1. TypeInv /\ [Next]_vars => TypeInv'
  BY TypeStep
<1>2. TypeInv /\ CancelledInv /\ [Next]_vars => CancelledInv'
  <2>1. ASSUME CancelledInv, UNCHANGED vars PROVE CancelledInv'
    BY <2>1 DEF vars, CancelledInv, CancelledCountsNothing, Witnessed
  <2> QED BY <2>1, CancelledStep
<1>3. CancelledInv => CancelledCountsNothing
  BY DEF CancelledInv
<1> QED BY TypeInit, CancelledInit, <1>1, <1>2, <1>3, PTL DEF Spec

-----------------------------------------------------------------------------
(* The steamers when calls come one at a time.                               *)

\* The cages of a hole, counted.
LEMMA HoleFinite ==
  ASSUME rows \in Seq(Row), NEW h
  PROVE  IsFiniteSet(OnHole(h)) /\ Cardinality(OnHole(h)) \in Nat
<1>1. IsFiniteSet(DOMAIN rows)
  BY RowShape, FS_Interval
<1>2. OnHole(h) \in SUBSET DOMAIN rows
  BY DEF OnHole
<1>3. IsFiniteSet(OnHole(h))
  BY <1>1, <1>2, FS_Subset
<1> QED BY <1>3, FS_CardinalityType

\* A hole is in order: its cages are numbered from 1 without gaps or doubles.
On(rs, h) == {q \in DOMAIN rs : rs[q].hole = h}
Tight(rs, h) == {rs[r].stack : r \in On(rs, h)} = 1..Cardinality(On(rs, h))

\* The number of a cage is its rank, whatever the numbers were before.
LEMMA CompactIsTight ==
  ASSUME NEW rs \in Seq(Row), NEW hs, NEW h \in hs \ {NoHole}
  PROVE  Tight(Compact(rs, hs), h)
<1> DEFINE new == Compact(rs, hs)
           S == {q \in DOMAIN rs : rs[q].hole = h}
           R == {p \in S \X S : \/ rs[p[1]].stack < rs[p[2]].stack
                                \/ (rs[p[1]].stack = rs[p[2]].stack /\ p[1] <= p[2])}
           f == [r \in S |-> Cardinality({q \in S : <<q, r>> \in R})]
<1>1. /\ Len(rs) \in Nat /\ DOMAIN rs = 1..Len(rs)
      /\ \A r \in DOMAIN rs : rs[r].stack \in Nat
  BY RowShape, RowFields
<1>2. IsFiniteSet(S)
  <2>1. IsFiniteSet(DOMAIN rs)
    BY <1>1, FS_Interval
  <2>2. S \in SUBSET DOMAIN rs
    OBVIOUS
  <2> QED BY <2>1, <2>2, FS_Subset
<1>3. \A r \in S : r \in Nat /\ rs[r].stack \in Nat
  BY <1>1
<1>4. /\ DOMAIN new = DOMAIN rs
      /\ \A r \in DOMAIN rs : new[r].hole = rs[r].hole
                              /\ (r \in S => new[r].stack = Level(rs, r))
  BY CompactKeeps
<1>5. \A r \in S : rs[r].hole = h /\ r \in DOMAIN rs
  OBVIOUS
<1>6. ASSUME NEW r \in S PROVE Level(rs, r) = f[r]
  <2>1. {q \in DOMAIN rs : /\ rs[q].hole = rs[r].hole
                           /\ \/ rs[q].stack < rs[r].stack
                              \/ (rs[q].stack = rs[r].stack /\ q <= r)}
          = {q \in S : <<q, r>> \in R}
    BY <1>5
  <2> QED BY <2>1 DEF Level
<1>7. On(new, h) = S
  BY <1>4 DEF On
<1> HIDE DEF S
<1>8. Ordering(S, R)
  <2> DEFINE s(r) == rs[r].stack
  <2>1. \A x, y \in S : <<x, y>> \in R <=> s(x) < s(y) \/ (s(x) = s(y) /\ x <= y)
    OBVIOUS
  <2>2. \A x \in S : s(x) \in Nat /\ x \in Nat
    BY <1>3
  <2> HIDE DEF R, s
  <2>3. \A x \in S : <<x, x>> \in R
    BY <2>1, <2>2
  <2>4. ASSUME NEW x \in S, NEW y \in S PROVE <<x, y>> \in R \/ <<y, x>> \in R
    <3>1. s(x) \in Nat /\ s(y) \in Nat /\ x \in Nat /\ y \in Nat
      BY <2>2
    <3>2. s(x) < s(y) \/ (s(x) = s(y) /\ x <= y) \/ s(y) < s(x) \/ (s(y) = s(x) /\ y <= x)
      BY <3>1
    <3> QED BY <2>1, <3>2
  <2>5. \A x, y \in S : <<x, y>> \in R /\ <<y, x>> \in R => x = y
    BY <2>1, <2>2
  <2>6. \A x, y, z \in S : <<x, y>> \in R /\ <<y, z>> \in R => <<x, z>> \in R
    BY <2>1, <2>2
  <2> QED BY <2>3, <2>4, <2>5, <2>6 DEF Ordering
<1>9. f = [r \in S |-> Cardinality({q \in S : <<q, r>> \in R})]
  OBVIOUS
<1> HIDE DEF R, f, new
<1>10. Cardinality(S) \in Nat /\ f \in Bijection(S, 1..Cardinality(S))
  BY <1>2, <1>8, <1>9, Ranks
<1>11. /\ \A r \in S : f[r] \in 1..Cardinality(S)
       /\ \A k \in 1..Cardinality(S) : \E r \in S : f[r] = k
  BY <1>10 DEF Bijection, Injection, Surjection
<1>12. \A r \in S : new[r].stack = f[r]
  BY <1>4, <1>6 DEF S
<1>13. {new[r].stack : r \in S} = 1..Cardinality(S)
  BY <1>11, <1>12
<1> QED BY <1>7, <1>13 DEF Tight, new

\* A hole whose cages stay as they are stays in order.
LEMMA SameHole ==
  ASSUME NEW rs, NEW h, DOMAIN rows \subseteq DOMAIN rs,
         \A r \in DOMAIN rs : rs[r].hole = h <=> (r \in DOMAIN rows /\ rows[r].hole = h),
         \A r \in OnHole(h) : rs[r].stack = rows[r].stack,
         Tight(rows, h)
  PROVE  Tight(rs, h)
<1>1. On(rs, h) = OnHole(h) /\ On(rows, h) = OnHole(h)
  BY DEF On, OnHole
<1>2. {rs[r].stack : r \in OnHole(h)} = {rows[r].stack : r \in OnHole(h)}
  OBVIOUS
<1> QED BY <1>1, <1>2 DEF Tight

\* The highest number on a hole in order is the number of its cages.
LEMMA TopOfTight ==
  ASSUME rows \in Seq(Row), NEW h, Tight(rows, h)
  PROVE  Top(h) = Cardinality(OnHole(h))
<1> DEFINE n == Cardinality(OnHole(h))
<1>1. n \in Nat
  BY HoleFinite
<1>2. {rows[r].stack : r \in OnHole(h)} = 1..n
  BY DEF Tight, On, OnHole
<1>3. /\ Top(h) \in Nat
      /\ Top(h) = 0 \/ \E r \in OnHole(h) : Top(h) = rows[r].stack
      /\ \A r \in OnHole(h) : rows[r].stack <= Top(h)
  BY StacksBounded
<1> HIDE DEF n
<1>4. Top(h) <= n
  BY <1>1, <1>2, <1>3
<1>5. CASE n = 0
  BY <1>3, <1>4, <1>5 DEF n
<1>6. CASE n # 0
  <2>1. PICK r \in OnHole(h) : rows[r].stack = n
    <3>1. n \in 1..n
      BY <1>1, <1>6
    <3> QED BY <1>2, <3>1
  <2>2. n <= Top(h)
    BY <1>3, <2>1
  <2> QED BY <1>1, <1>3, <1>4, <2>2 DEF n
<1> QED BY <1>5, <1>6

\* What a call knows stays true until it writes: the rows it has checked are where it saw
\* them, and its plan still fits.  The scraper moves no cage and holds nothing back.
SoundReads(c) ==
  \A i \in DOMAIN c.read :
    /\ c.read[i].hole = rows[c.ids[i]].hole
    /\ c.op \in {"load", "rush"} => rows[c.ids[i]].held = FALSE
    /\ c.op = "load" => rows[c.ids[i]].hole = NoHole /\ rows[c.ids[i]].dish # "made"
    /\ c.op = "move" => rows[c.ids[i]].hole # NoHole

\* A portion that can take over a cage.
Spare(x) == x.hole = NoHole /\ x.held = FALSE /\ x.dish # "made"

SoundPlan(c) ==
  /\ c.op \in Placing =>
       /\ c.plan[1].next = Cardinality(OnHole(c.hole)) + 1
       /\ Cardinality(OnHole(c.hole) \ IdSet(c)) + Len(c.ids) <= Capacity
  /\ c.op \in Placing \cup Taking => c.plan[1].first = rows[c.ids[1]].hole
  /\ c.op = "hold" =>
       /\ \A r \in c.plan[1].direct : rows[r].hole = NoHole
       /\ \A r \in Takers(c.plan[1]) : Spare(rows[r])

SoundCall(c) == SoundReads(c) /\ (c.plan # <<>> => SoundPlan(c))

Alone == \A t, u \in Tablets : (call[t] # NoCall /\ call[u] # NoCall) => t = u

InOrder == HolesFit /\ StacksAreTight /\ HeldIsOffTheSteamer /\ MadeIsOffTheSteamer

Sound == InOrder /\ \A t \in Tablets : call[t] # NoCall => SoundCall(call[t])

SoundInv == (serial => Alone) /\ (serial /\ ~twice => Sound)

\* At the start the holes are empty and no call is under way.
LEMMA SoundInit == Init => SoundInv
<1> SUFFICES ASSUME Init PROVE Alone /\ InOrder /\ \A t \in Tablets : call[t] = NoCall
  BY DEF SoundInv, Sound
<1>1. /\ DOMAIN rows = Lines
      /\ \A r \in DOMAIN rows : rows[r].hole = NoHole /\ rows[r].held = FALSE
                                /\ rows[r].dish = "waiting"
  BY DEF Init, Stored
<1>2. \A h \in Holes : OnHole(h) = {}
  BY <1>1, SteamerAssumption DEF OnHole
<1>3. \A h \in Holes : Cardinality(OnHole(h)) = 0
  BY <1>2, FS_EmptySet
<1>4. HolesFit
  BY <1>3, SteamerAssumption DEF HolesFit
<1>5. StacksAreTight
  <2> SUFFICES ASSUME NEW h \in Holes
               PROVE  {rows[r].stack : r \in OnHole(h)} = 1..Cardinality(OnHole(h))
    BY DEF StacksAreTight
  <2> QED BY <1>2, <1>3
<1>6. \A t \in Tablets : call[t] = NoCall
  BY DEF Init
<1> QED BY <1>1, <1>4, <1>5, <1>6
        DEF InOrder, Alone, HeldIsOffTheSteamer, MadeIsOffTheSteamer

\* What a load or a move reads of a hole in order: its cages, counted and numbered.
LEMMA SoundMeasure ==
  ASSUME TypeInv, StacksAreTight, NEW t \in Tablets, Measure(t), call'[t] # NoCall
  PROVE  /\ call'[t].plan[1].next = Cardinality(OnHole(call[t].hole)) + 1
         /\ Cardinality(OnHole(call[t].hole) \ IdSet(call[t])) + Len(call[t].ids) <= Capacity
         /\ call'[t].plan[1].first = rows[call[t].ids[1]].hole
         /\ call[t].op \in Placing
<1> DEFINE c == call[t]
           p == [next |-> Top(c.hole) + 1, first |-> rows[c.ids[1]].hole]
<1>1. AllRead(t) /\ ~Planned(t) /\ c.op \in Placing
  BY DEF Measure
<1>2. ~Answer(t)
  BY DEF Answer, TypeInv, CallsIn
<1>3. /\ call' = [call EXCEPT ![t].plan = <<p>>]
      /\ Cardinality(OnHole(c.hole) \ IdSet(c)) + Len(c.ids) <= Capacity
  BY <1>2 DEF Measure
<1>4. call'[t].plan[1] = p
  <2> HIDE DEF p
  <2> QED BY <1>1, <1>3, PlannedCall
<1>5. c.hole \in Holes
  BY <1>1, FirstRow DEF CallIn
<1>6. Top(c.hole) = Cardinality(OnHole(c.hole))
  <2>1. Tight(rows, c.hole)
    BY <1>5 DEF StacksAreTight, Tight, On, OnHole
  <2> HIDE DEF c
  <2> QED BY <2>1, TopOfTight DEF TypeInv
<1> QED BY <1>1, <1>3, <1>4, <1>6

\* The first row of an unload or a pluck, read again.
LEMMA SoundReread ==
  ASSUME TypeInv, NEW t \in Tablets, Reread(t)
  PROVE  call'[t].plan[1].first = rows[call[t].ids[1]].hole /\ call[t].op \in Taking
<1> DEFINE p == [first |-> rows[call[t].ids[1]].hole]
<1>1. /\ AllRead(t) /\ ~Planned(t) /\ call[t].op \in Taking
      /\ call' = [call EXCEPT ![t].plan = <<p>>]
  BY DEF Reread
<1>2. call'[t].plan[1] = p
  <2> HIDE DEF p
  <2> QED BY <1>1, PlannedCall
<1> QED BY <1>1, <1>2

\* The rows a hold leaves where they are are on no hole, and those that take a cage over can.
LEMMA SoundSubstitute ==
  ASSUME TypeInv, NEW t \in Tablets, SoundReads(call[t]), Substitute(t), call'[t] # NoCall
  PROVE  /\ call[t].op = "hold"
         /\ \A r \in call'[t].plan[1].direct : rows[r].hole = NoHole
         /\ \A r \in Takers(call'[t].plan[1]) : Spare(rows[r])
<1> DEFINE c == call[t]
           direct == {c.ids[i] : i \in {j \in DOMAIN c.ids : c.read[j].hole = NoHole}}
           pairs == Substitutes(c)
           p == [direct |-> direct, pairs |-> pairs]
<1>1. AllRead(t) /\ ~Planned(t) /\ c.op = "hold"
  BY DEF Substitute
<1>2. ~Answer(t)
  BY DEF Answer, TypeInv, CallsIn
<1>3. call' = [call EXCEPT ![t].plan = <<p>>]
  BY <1>2 DEF Substitute
<1>4. call'[t].plan[1] = p
  <2> HIDE DEF p
  <2> QED BY <1>1, <1>3, PlannedCall
<1>5. /\ CallIn(c, DOMAIN rows) /\ DOMAIN c.read = DOMAIN c.ids /\ Distinct(c)
  <2>1. CallIn(c, DOMAIN rows) /\ DOMAIN c.read = DOMAIN c.ids
    BY <1>1, FirstRow, CallShape DEF AllRead
  <2> QED BY <1>1, <2>1 DEF CallIn, Floor
<1>6. \A r \in direct : rows[r].hole = NoHole
  BY <1>5 DEF SoundReads
<1>7. ASSUME NEW q \in ToSet(pairs) PROVE Spare(rows[q[2]])
  <2>1. PairsFit(c, pairs, Len(c.ids))
    BY <1>5, SubstitutesFit DEF TypeInv
  <2> HIDE DEF pairs, c
  <2>2. PICK j \in DOMAIN pairs : q = pairs[j]
    BY <1>7 DEF ToSet
  <2>3. q[2] \in Pool(c)
    BY <2>1, <2>2 DEF PairsFit
  <2>4. q[2] \in DOMAIN rows /\ Awaiting(rows[q[2]])
    BY <2>3 DEF Pool
  <2>5. rows[q[2]].held \in BOOLEAN
    BY <2>4, RowShape, RowFields DEF TypeInv
  <2> QED BY <2>4, <2>5 DEF Awaiting, Spare
<1> HIDE DEF direct, pairs
<1>8. p.direct = direct /\ p.pairs = pairs
  OBVIOUS
<1> HIDE DEF p
<1>9. \A r \in Takers(p) : Spare(rows[r])
  BY <1>7, <1>8 DEF Takers
<1> QED BY <1>1, <1>4, <1>6, <1>8, <1>9

\* A kitchen that sends one call at a time has one under way.
LEMMA AloneStep ==
  ASSUME TypeInv, serial, Alone, Next
  PROVE  Alone' /\ serial'
<1>1. ASSUME NEW t \in Tablets, Quiet(t) PROVE Alone' /\ serial'
  <2>1. \A u \in Tablets \ {t} : call'[u] = call[u]
    BY <1>1, QuietCalls
  <2>2. serial'
    BY <1>1, QuietSteps
  <2>3. CASE Open(t)
    <3>1. \A u \in Tablets : call[u] = NoCall
      BY <2>3 DEF Open, Idle
    <3> QED BY <2>1, <2>2, <3>1 DEF Alone
  <2>4. CASE ~Open(t)
    <3>1. call[t] # NoCall
      BY <1>1, <2>4 DEF Quiet, Check, Measure, Reread, Substitute, AllRead, Idle
    <3> QED BY <2>1, <2>2, <3>1 DEF Alone
  <2> QED BY <2>3, <2>4
<1>2. ASSUME NEW t \in Tablets, Writes(t) PROVE Alone' /\ serial'
  <2>1. /\ UNCHANGED serial
        /\ \A u \in Tablets : call'[u] = IF u = t THEN NoCall ELSE call[u]
    BY <1>2, WritingSteps DEF TypeInv, CallsIn
  <2> QED BY <2>1 DEF Alone
<1>3. ASSUME Scraper PROVE Alone' /\ serial'
  <2>1. UNCHANGED <<call, serial>>
    BY <1>3, ScraperRows
  <2> QED BY <2>1 DEF Alone
<1> QED BY <1>1, <1>2, <1>3, TwoKinds DEF Next

\* A step that reads leaves a call that knows the truth, and the other calls what they knew.
LEMMA SoundQuiet ==
  ASSUME TypeInv, Sound, NEW t \in Tablets, Quiet(t)
  PROVE  Sound'
<1>0. /\ TypeInv' /\ UNCHANGED <<rows, serial>>
      /\ InOrder /\ \A u \in Tablets : call[u] # NoCall => SoundCall(call[u])
  <2>1. Tablet(t)
    BY DEF Quiet, Tablet
  <2> QED BY <2>1, TabletType, QuietSteps DEF Sound
<1>1. /\ \A u \in Tablets \ {t} : call'[u] = call[u]
      /\ call'[t] # NoCall => Became(call[t], call'[t])
  BY QuietCalls
<1>2. InOrder'
  <2>1. rows' = rows /\ InOrder
    BY <1>0
  <2>2. \A h : OnHole(h)' = OnHole(h)
    BY <2>1 DEF OnHole
  <2>3. HolesFit' /\ StacksAreTight'
    BY <2>1, <2>2 DEF InOrder, HolesFit, StacksAreTight
  <2>4. HeldIsOffTheSteamer' /\ MadeIsOffTheSteamer'
    BY <2>1 DEF InOrder, HeldIsOffTheSteamer, MadeIsOffTheSteamer
  <2> QED BY <2>3, <2>4 DEF InOrder
<1>4. ASSUME NEW u \in Tablets \ {t}, call'[u] # NoCall PROVE SoundCall(call[u])'
  <2>1. SoundCall(call[u]) /\ call'[u] = call[u]
    BY <1>0, <1>1, <1>4
  <2> QED BY <1>0, <2>1 DEF SoundCall, SoundReads, SoundPlan, OnHole
<1>5. ASSUME call'[t] # NoCall PROVE SoundCall(call[t])'
  <2> DEFINE c == call[t]
             d == call'[t]
  <2>1. /\ CallIn(d, DOMAIN rows) /\ d \in Call /\ DOMAIN d.read = 1..Len(d.read)
        /\ Len(d.read) \in Nat /\ Len(d.ids) \in Nat
    BY <1>0, <1>5, CallShape DEF TypeInv, CallsIn
  <2>2. Became(c, d)
    BY <1>1, <1>5
  <2>3. c # NoCall => /\ SoundReads(c) /\ DOMAIN c.read = 1..Len(c.read)
                      /\ Len(c.read) \in Nat /\ CallIn(c, DOMAIN rows)
    BY <1>0, CallShape DEF SoundCall, TypeInv, CallsIn
  <2>4. SoundReads(d)
    <3> HIDE DEF c, d
    <3>1. CASE d.read = <<>>
      BY <3>1 DEF SoundReads
    <3>2. CASE d.read # <<>> /\ d.read = c.read
      <4>1. c # NoCall /\ d.op = c.op /\ \A i \in DOMAIN c.read : d.ids[i] = c.ids[i]
        BY <2>2, <2>3, <3>2 DEF Became
      <4> QED BY <2>3, <3>2, <4>1 DEF SoundReads
    <3>3. CASE d.read # <<>> /\ d.read # c.read
      <4> DEFINE n == Len(d.read)
                 x == rows[c.ids[n]]
      <4>1. /\ c # NoCall /\ d.op = c.op /\ d.ids = c.ids
            /\ n = Len(c.read) + 1 /\ n \in DOMAIN c.ids
            /\ \A i \in DOMAIN c.read : d.read[i] = c.read[i]
            /\ Fits(c, n, x) /\ d.read[n].hole = x.hole
        BY <2>2, <3>3 DEF Became
      <4>2. /\ c.op = "load" => x.held = FALSE /\ x.hole = NoHole /\ x.dish # "made"
            /\ c.op = "rush" => x.held = FALSE
            /\ c.op = "move" => x.hole # NoHole
        <5>1. x.held \in BOOLEAN
          <6>1. c.ids[n] \in DOMAIN rows
            BY <2>3, <4>1 DEF CallIn
          <6> QED BY <6>1, RowShape, RowFields DEF TypeInv
        <5> HIDE DEF x, n
        <5> QED BY <4>1, <5>1 DEF Fits, Awaiting
      <4>3. \A i \in DOMAIN d.read : i \in DOMAIN c.read \/ i = n
        <5>1. DOMAIN d.read = 1..n /\ n = Len(c.read) + 1 /\ DOMAIN c.read = 1..Len(c.read)
              /\ Len(c.read) \in Nat
          BY <2>1, <2>3, <4>1
        <5> HIDE DEF n
        <5> QED BY <5>1
      <4> HIDE DEF n
      <4> SUFFICES ASSUME NEW i \in DOMAIN d.read
                   PROVE  /\ d.read[i].hole = rows[d.ids[i]].hole
                          /\ d.op \in {"load", "rush"} => rows[d.ids[i]].held = FALSE
                          /\ d.op = "load" => rows[d.ids[i]].hole = NoHole
                                              /\ rows[d.ids[i]].dish # "made"
                          /\ d.op = "move" => rows[d.ids[i]].hole # NoHole
        BY DEF SoundReads
      <4>4. CASE i = n
        BY <4>1, <4>2, <4>4
      <4>5. CASE i \in DOMAIN c.read
        BY <2>3, <4>1, <4>5 DEF SoundReads
      <4> QED BY <4>3, <4>4, <4>5
    <3> QED BY <3>1, <3>2, <3>3
  <2>5. ASSUME d.plan # <<>> PROVE SoundPlan(d)
    <3>1. /\ c # NoCall /\ d.op = c.op /\ d.hole = c.hole /\ d.ids = c.ids /\ c.plan = <<>>
          /\ d.read = c.read /\ Len(c.read) = Len(c.ids)
      <4> HIDE DEF c, d
      <4>1. d.read # <<>>
        BY <2>1, <2>5 DEF CallIn, PlanIn
      <4> QED BY <2>2, <2>5, <4>1 DEF Became
    <3>2. Measure(t) \/ Reread(t) \/ Substitute(t)
      <4>1. ~Open(t)
        BY <3>1 DEF Open, Idle
      <4>2. ~Check(t)
        BY <3>1 DEF Check, AllRead, Idle
      <4> QED BY <4>1, <4>2 DEF Quiet
    <3>3. CASE Measure(t)
      <4>1. /\ d.plan[1].next = Cardinality(OnHole(c.hole)) + 1
            /\ Cardinality(OnHole(c.hole) \ IdSet(c)) + Len(c.ids) <= Capacity
            /\ d.plan[1].first = rows[c.ids[1]].hole
            /\ c.op \in Placing
        BY <1>0, <1>5, <3>3, SoundMeasure DEF InOrder
      <4>2. c.op # "hold"
        BY <4>1 DEF Placing
      <4> HIDE DEF c, d
      <4> QED BY <3>1, <4>1, <4>2 DEF SoundPlan, IdSet
    <3>4. CASE Reread(t)
      <4>1. d.plan[1].first = rows[c.ids[1]].hole /\ c.op \in Taking
        BY <3>4, SoundReread
      <4>2. c.op # "hold" /\ c.op \notin Placing
        BY <4>1 DEF Placing, Taking
      <4> HIDE DEF c, d
      <4> QED BY <3>1, <4>1, <4>2 DEF SoundPlan
    <3>5. CASE Substitute(t)
      <4>1. /\ c.op = "hold"
            /\ \A r \in d.plan[1].direct : rows[r].hole = NoHole
            /\ \A r \in Takers(d.plan[1]) : Spare(rows[r])
        BY <1>5, <2>3, <3>1, <3>5, SoundSubstitute
      <4>2. c.op \notin Placing /\ c.op \notin Placing \cup Taking
        BY <4>1 DEF Placing, Taking
      <4> HIDE DEF c, d
      <4> QED BY <3>1, <4>1, <4>2 DEF SoundPlan
    <3> QED BY <3>2, <3>3, <3>4, <3>5
  <2>6. SoundReads(d) /\ (d.plan # <<>> => SoundPlan(d))
    BY <2>4, <2>5
  <2> QED BY <1>0, <2>6 DEF SoundCall, SoundReads, SoundPlan, OnHole
<1> QED BY <1>0, <1>2, <1>4, <1>5 DEF Sound

\* What has to be shown of a transaction.
LEMMA InOrderAfter ==
  ASSUME \A h \in Holes : Tight(rows', h) /\ Cardinality(On(rows', h)) <= Capacity,
         \A r \in DOMAIN rows' : rows'[r].held => rows'[r].hole = NoHole /\ ~rows'[r].rushed,
         \A r \in DOMAIN rows' : rows'[r].dish = "made" => rows'[r].hole = NoHole
  PROVE  InOrder'
<1>1. HolesFit'
  BY DEF HolesFit, OnHole, On
<1>2. StacksAreTight'
  BY DEF StacksAreTight, Tight, OnHole, On
<1>3. HeldIsOffTheSteamer' /\ MadeIsOffTheSteamer'
  BY DEF HeldIsOffTheSteamer, MadeIsOffTheSteamer
<1> QED BY <1>1, <1>2, <1>3 DEF InOrder

\* What order says of the rows.
LEMMA InOrderNow ==
  ASSUME InOrder
  PROVE  /\ \A h \in Holes : On(rows, h) = OnHole(h) /\ Tight(rows, h)
                             /\ Cardinality(OnHole(h)) <= Capacity
         /\ \A r \in DOMAIN rows : rows[r].held => rows[r].hole = NoHole /\ ~rows[r].rushed
         /\ \A r \in DOMAIN rows : rows[r].dish = "made" => rows[r].hole = NoHole
<1>1. \A h : On(rows, h) = OnHole(h)
  BY DEF On, OnHole
<1> QED BY <1>1 DEF InOrder, HolesFit, StacksAreTight, Tight, HeldIsOffTheSteamer,
                    MadeIsOffTheSteamer

\* Fewer cages on a hole that had room for more.
LEMMA FewerFit ==
  ASSUME rows \in Seq(Row), NEW h, NEW S \in SUBSET OnHole(h)
  PROVE  Cardinality(S) \in Nat /\ Cardinality(S) <= Cardinality(OnHole(h))
<1>1. IsFiniteSet(OnHole(h))
  BY HoleFinite
<1>2. IsFiniteSet(S) /\ Cardinality(S) <= Cardinality(OnHole(h))
  BY <1>1, FS_Subset
<1> QED BY <1>2, FS_CardinalityType

\* The rows of a call are no more than its places.
LEMMA IdsFew ==
  ASSUME NEW c, NEW D, CallIn(c, D)
  PROVE  /\ IsFiniteSet(IdSet(c)) /\ Cardinality(IdSet(c)) \in Nat /\ Len(c.ids) \in Nat
         /\ Cardinality(IdSet(c)) <= Len(c.ids)
<1> DEFINE f == [r \in IdSet(c) |-> Position(c.ids, r)]
<1>1. /\ Len(c.ids) \in Nat
      /\ \A r \in IdSet(c) : Position(c.ids, r) \in 1..Len(c.ids)
                             /\ c.ids[Position(c.ids, r)] = r
  BY Positions
<1>2. f \in Injection(IdSet(c), 1..Len(c.ids))
  <2>1. f \in [IdSet(c) -> 1..Len(c.ids)]
    BY <1>1
  <2>2. \A r, q \in IdSet(c) : f[r] = f[q] => r = q
    <3>1. \A r \in IdSet(c) : c.ids[f[r]] = r
      BY <1>1
    <3> HIDE DEF f
    <3> QED BY <3>1
  <2> HIDE DEF f
  <2> QED BY <2>1, <2>2 DEF Injection, IsInjective
<1>3. IsFiniteSet(1..Len(c.ids)) /\ Cardinality(1..Len(c.ids)) = Len(c.ids)
  BY <1>1, FS_Interval
<1> HIDE DEF f
<1>4. IsFiniteSet(IdSet(c)) /\ Cardinality(IdSet(c)) <= Cardinality(1..Len(c.ids))
  BY <1>2, <1>3, FS_Injection
<1> QED BY <1>1, <1>3, <1>4, FS_CardinalityType

\* A call that names no row twice has as many rows as places.
LEMMA IdCount ==
  ASSUME NEW c, NEW D, CallIn(c, D), Distinct(c)
  PROVE  /\ IsFiniteSet(IdSet(c)) /\ Cardinality(IdSet(c)) = Len(c.ids)
         /\ [r \in IdSet(c) |-> Position(c.ids, r)] \in Bijection(IdSet(c), 1..Len(c.ids))
<1> DEFINE g == [i \in 1..Len(c.ids) |-> c.ids[i]]
           f == [r \in IdSet(c) |-> Position(c.ids, r)]
<1>1. /\ Len(c.ids) \in Nat /\ DOMAIN c.ids = 1..Len(c.ids)
      /\ \A r \in IdSet(c) : Position(c.ids, r) \in 1..Len(c.ids)
                             /\ c.ids[Position(c.ids, r)] = r
      /\ \A i \in 1..Len(c.ids) : c.ids[i] \in IdSet(c) /\ Position(c.ids, c.ids[i]) = i
  BY Positions
<1>2. g \in Bijection(1..Len(c.ids), IdSet(c))
  <2>1. g \in Injection(1..Len(c.ids), IdSet(c))
    <3>1. g \in [1..Len(c.ids) -> IdSet(c)]
      BY <1>1
    <3>2. \A i, j \in 1..Len(c.ids) : g[i] = g[j] => i = j
      <4>1. \A i \in 1..Len(c.ids) : Position(c.ids, g[i]) = i
        BY <1>1
      <4> HIDE DEF g
      <4> QED BY <4>1
    <3> HIDE DEF g
    <3> QED BY <3>1, <3>2 DEF Injection, IsInjective
  <2>2. g \in Surjection(1..Len(c.ids), IdSet(c))
    <3>1. \A r \in IdSet(c) : \E i \in 1..Len(c.ids) : g[i] = r
      BY <1>1
    <3>2. g \in [1..Len(c.ids) -> IdSet(c)]
      BY <1>1
    <3> QED BY <3>1, <3>2 DEF Surjection
  <2> QED BY <2>1, <2>2 DEF Bijection
<1>3. f \in Bijection(IdSet(c), 1..Len(c.ids))
  <2>1. f \in [IdSet(c) -> 1..Len(c.ids)]
    BY <1>1
  <2>2. \A r, q \in IdSet(c) : f[r] = f[q] => r = q
    <3>1. \A r \in IdSet(c) : c.ids[f[r]] = r
      BY <1>1
    <3> HIDE DEF f
    <3> QED BY <3>1
  <2>3. \A i \in 1..Len(c.ids) : \E r \in IdSet(c) : f[r] = i
    BY <1>1
  <2> HIDE DEF f
  <2>4. f \in Injection(IdSet(c), 1..Len(c.ids))
    BY <2>1, <2>2 DEF Injection, IsInjective
  <2>5. f \in Surjection(IdSet(c), 1..Len(c.ids))
    BY <2>1, <2>3 DEF Surjection
  <2> QED BY <2>4, <2>5 DEF Bijection
<1>4. IsFiniteSet(1..Len(c.ids)) /\ Cardinality(1..Len(c.ids)) = Len(c.ids)
  BY <1>1, FS_Interval
<1>5. IsFiniteSet(IdSet(c)) /\ Cardinality(IdSet(c)) = Cardinality(1..Len(c.ids))
  <2>1. ExistsBijection(1..Len(c.ids), IdSet(c))
    BY <1>2 DEF ExistsBijection
  <2> QED BY <1>4, <2>1, FS_Bijection
<1> QED BY <1>3, <1>4, <1>5

\* A hole that had room for the rows of a call holds no more than they and its own.
LEMMA RoomForCall ==
  ASSUME rows \in Seq(Row), NEW c, CallIn(c, DOMAIN rows), NEW h,
         Cardinality(OnHole(h) \ IdSet(c)) + Len(c.ids) <= Capacity,
         NEW S \in SUBSET (OnHole(h) \cup IdSet(c))
  PROVE  Cardinality(S) <= Capacity
<1> DEFINE A == OnHole(h) \ IdSet(c)
           B == IdSet(c)
<1>1. IsFiniteSet(A) /\ Cardinality(A) \in Nat
  <2>1. IsFiniteSet(OnHole(h)) /\ A \in SUBSET OnHole(h)
    BY HoleFinite
  <2> HIDE DEF A
  <2>2. IsFiniteSet(A)
    BY <2>1, FS_Subset
  <2> QED BY <2>2, FS_CardinalityType
<1>2. /\ IsFiniteSet(B) /\ Cardinality(B) <= Len(c.ids) /\ Cardinality(B) \in Nat
      /\ Len(c.ids) \in Nat
  BY IdsFew
<1>3. A \cap B = {} /\ S \in SUBSET (A \cup B)
  OBVIOUS
<1>4. Cardinality(A) + Len(c.ids) <= Capacity /\ Capacity \in Nat
  BY SteamerAssumption
<1> HIDE DEF A, B
<1>5. IsFiniteSet(A \cup B) /\ Cardinality(A \cup B) = Cardinality(A) + Cardinality(B)
  <2>1. /\ IsFiniteSet(A \cup B)
        /\ Cardinality(A \cup B) = Cardinality(A) + Cardinality(B) - Cardinality(A \cap B)
    BY <1>1, <1>2, FS_Union
  <2>2. Cardinality(A \cap B) = 0
    BY <1>3, FS_EmptySet
  <2> QED BY <1>1, <1>2, <2>1, <2>2
<1>6. IsFiniteSet(S) /\ Cardinality(S) <= Cardinality(A \cup B)
  BY <1>3, <1>5, FS_Subset
<1>7. Cardinality(S) \in Nat /\ Capacity \in Nat
  BY <1>6, FS_CardinalityType, SteamerAssumption
<1> QED BY <1>1, <1>2, <1>4, <1>5, <1>6, <1>7

\* Cages put on top of a hole in order, one above the other, leave it in order.
LEMMA StackedOn ==
  ASSUME rows \in Seq(Row), NEW h, Tight(rows, h), NEW rs, NEW S, IsFiniteSet(S),
         NEW m \in Nat, NEW g \in Bijection(S, 1..m),
         S \cap OnHole(h) = {}, On(rs, h) = OnHole(h) \cup S,
         \A r \in OnHole(h) : rs[r].stack = rows[r].stack,
         \A r \in S : rs[r].stack = Cardinality(OnHole(h)) + g[r]
  PROVE  Tight(rs, h)
<1> DEFINE n == Cardinality(OnHole(h))
<1>1. IsFiniteSet(OnHole(h)) /\ n \in Nat
  BY HoleFinite
<1>2. Cardinality(S) = m
  <2>1. ExistsBijection(S, 1..m)
    BY DEF ExistsBijection
  <2>2. Cardinality(1..m) = Cardinality(S)
    BY <2>1, FS_Bijection
  <2>3. Cardinality(1..m) = m
    BY FS_Interval
  <2> QED BY <2>2, <2>3
<1>3. Cardinality(On(rs, h)) = n + m
  <2>1. Cardinality(OnHole(h) \cup S)
          = Cardinality(OnHole(h)) + Cardinality(S) - Cardinality(OnHole(h) \cap S)
    BY <1>1, FS_Union
  <2>2. OnHole(h) \cap S = {}
    OBVIOUS
  <2>3. Cardinality(OnHole(h) \cap S) = 0
    BY <2>2, FS_EmptySet
  <2> QED BY <1>1, <1>2, <2>1, <2>3
<1>4. {rows[r].stack : r \in OnHole(h)} = 1..n
  BY DEF Tight, On, OnHole
<1>5. /\ \A r \in S : g[r] \in 1..m
      /\ \A k \in 1..m : \E r \in S : g[r] = k
  BY DEF Bijection, Injection, Surjection
<1>6. {rs[r].stack : r \in OnHole(h)} = 1..n
  BY <1>4
<1>7. {rs[r].stack : r \in S} = (n + 1)..(n + m)
  <2> HIDE DEF n
  <2>1. \A r \in S : rs[r].stack = n + g[r]
    BY DEF n
  <2>2. \A r \in S : n + g[r] \in (n + 1)..(n + m)
    BY <1>1, <1>5
  <2>3. ASSUME NEW k \in (n + 1)..(n + m) PROVE \E r \in S : rs[r].stack = k
    <3>1. k - n \in 1..m /\ n + (k - n) = k
      BY <1>1
    <3>2. PICK r \in S : g[r] = k - n
      BY <1>5, <3>1
    <3> QED BY <2>1, <3>1, <3>2
  <2> QED BY <2>1, <2>2, <2>3
<1>8. 1..(n + m) = 1..n \cup (n + 1)..(n + m)
  <2> HIDE DEF n
  <2> QED BY <1>1
<1> HIDE DEF n
<1>9. {rs[r].stack : r \in OnHole(h) \cup S} = 1..(n + m)
  BY <1>6, <1>7, <1>8
<1> QED BY <1>3, <1>9 DEF Tight

\* The flags of the rows, where a transaction changes places only.
LEMMA FlagsInOrder ==
  ASSUME TypeInv, InOrder, DOMAIN rows' = DOMAIN rows,
         \A r \in DOMAIN rows :
           /\ SamePortions(rows[r], rows'[r]) /\ SameFlags(rows[r], rows'[r])
           /\ \/ rows'[r].hole = rows[r].hole \/ rows'[r].hole = NoHole
              \/ rows[r].hole # NoHole
              \/ rows[r].held = FALSE /\ rows[r].dish # "made"
  PROVE  /\ \A r \in DOMAIN rows' : rows'[r].held => rows'[r].hole = NoHole /\ ~rows'[r].rushed
         /\ \A r \in DOMAIN rows' : rows'[r].dish = "made" => rows'[r].hole = NoHole
<1> SUFFICES ASSUME NEW r \in DOMAIN rows
             PROVE  /\ rows'[r].held => rows'[r].hole = NoHole /\ ~rows'[r].rushed
                    /\ rows'[r].dish = "made" => rows'[r].hole = NoHole
  OBVIOUS
<1>1. /\ rows[r].held => rows[r].hole = NoHole /\ ~rows[r].rushed
      /\ rows[r].dish = "made" => rows[r].hole = NoHole
  BY InOrderNow
<1>2. rows'[r].held = rows[r].held /\ rows'[r].rushed = rows[r].rushed
      /\ rows'[r].dish = rows[r].dish
  BY DEF SamePortions, SameFlags
<1>3. rows[r].held \in BOOLEAN /\ rows[r].rushed \in BOOLEAN
  BY RowShape, RowFields DEF TypeInv
<1> QED BY <1>1, <1>2, <1>3

\* Cages that a load adds go on top, and there is room for them.
LEMMA SoundLoad ==
  ASSUME TypeInv, InOrder, NEW t \in Tablets, SoundCall(call[t]), Load(t), Distinct(call[t])
  PROVE  InOrder'
<1> DEFINE c == call[t]
           h == c.hole
           n == Cardinality(OnHole(h))
           g == [r \in IdSet(c) |-> Position(c.ids, r)]
<1>1. /\ DOMAIN rows' = DOMAIN rows /\ CallIn(c, DOMAIN rows)
      /\ \A r \in DOMAIN rows : /\ SamePortions(rows[r], rows'[r])
                                /\ SameFlags(rows[r], rows'[r])
      /\ \A r \in DOMAIN rows \ IdSet(c) : rows'[r] = rows[r]
      /\ \A r \in IdSet(c) : /\ rows'[r].hole = h
                              /\ rows'[r].stack = c.plan[1].next + Position(c.ids, r) - 1
  BY LoadRows
<1>2. c.op = "load" /\ c.plan # <<>> /\ h \in Holes /\ DOMAIN c.read = DOMAIN c.ids
  <2>1. c.op = "load" /\ c.plan # <<>>
    BY DEF Load, Planned
  <2> HIDE DEF c
  <2>2. c.hole \in Holes /\ Len(c.read) = Len(c.ids)
    BY <1>1, <2>1 DEF CallIn, PlanIn, Placing
  <2> QED BY <1>1, <2>1, <2>2, CallShape DEF CallIn
<1>3. /\ \A i \in DOMAIN c.ids : /\ rows[c.ids[i]].held = FALSE
                                 /\ rows[c.ids[i]].hole = NoHole
                                 /\ rows[c.ids[i]].dish # "made"
      /\ c.plan[1].next = n + 1 /\ Cardinality(OnHole(h) \ IdSet(c)) + Len(c.ids) <= Capacity
  BY <1>2 DEF SoundCall, SoundReads, SoundPlan, Placing
<1>4. n \in Nat
  BY HoleFinite DEF TypeInv
<1>5. ASSUME NEW r \in IdSet(c)
      PROVE  /\ rows[r].held = FALSE /\ rows[r].hole = NoHole /\ rows[r].dish # "made"
             /\ rows'[r].hole = h /\ rows'[r].stack = n + g[r] /\ r \in DOMAIN rows
  <2>1. /\ Position(c.ids, r) \in DOMAIN c.ids /\ c.ids[Position(c.ids, r)] = r
        /\ r \in DOMAIN rows /\ DOMAIN c.ids = 1..Len(c.ids)
    BY <1>1, Positions
  <2> DEFINE i == Position(c.ids, r)
  <2>2. g[r] = i
    OBVIOUS
  <2>3. i \in Nat
    BY <2>1
  <2> HIDE DEF i
  <2>4. rows[r].held = FALSE /\ rows[r].hole = NoHole /\ rows[r].dish # "made"
    <3> HIDE DEF c
    <3> QED BY <1>3, <2>1 DEF i
  <2>5. rows'[r].hole = h /\ rows'[r].stack = c.plan[1].next + i - 1
    <3> HIDE DEF c, h
    <3> QED BY <1>1, <2>1 DEF i
  <2> HIDE DEF g, n
  <2>6. c.plan[1].next + i - 1 = n + g[r]
    BY <1>3, <1>4, <2>2, <2>3
  <2> QED BY <2>1, <2>4, <2>5, <2>6
<1>6. IdSet(c) \cap OnHole(h) = {} /\ h # NoHole
  BY <1>2, <1>5, SteamerAssumption DEF OnHole
<1>7. On(rows', h) = OnHole(h) \cup IdSet(c)
  BY <1>1, <1>5 DEF On, OnHole
<1>8. Tight(rows', h)
  <2>1. /\ IsFiniteSet(IdSet(c)) /\ g \in Bijection(IdSet(c), 1..Len(c.ids))
        /\ Len(c.ids) \in Nat
    BY <1>1, IdCount, Positions
  <2>2. \A r \in OnHole(h) : rows'[r].stack = rows[r].stack
    BY <1>1, <1>6 DEF OnHole
  <2>3. \A r \in IdSet(c) : rows'[r].stack = Cardinality(OnHole(h)) + g[r]
    BY <1>5
  <2>4. Tight(rows, h)
    BY <1>2, InOrderNow
  <2> HIDE DEF g, c, n, h
  <2> QED BY <1>6, <1>7, <2>1, <2>2, <2>3, <2>4, StackedOn DEF TypeInv
<1>9. Cardinality(On(rows', h)) <= Capacity
  BY <1>1, <1>3, <1>7, RoomForCall DEF TypeInv
<1>10. ASSUME NEW k \in Holes \ {h}
       PROVE  Tight(rows', k) /\ Cardinality(On(rows', k)) <= Capacity
  <2>1. k # NoHole
    BY SteamerAssumption
  <2>2. \A r \in DOMAIN rows' : rows'[r].hole = k <=> (r \in DOMAIN rows /\ rows[r].hole = k)
    BY <1>1, <1>5, <2>1
  <2>3. \A r \in OnHole(k) : rows'[r].stack = rows[r].stack
    BY <1>1, <1>5, <2>1 DEF OnHole
  <2>4. Tight(rows, k) /\ Cardinality(OnHole(k)) <= Capacity
    BY InOrderNow
  <2>5. On(rows', k) = OnHole(k)
    BY <1>1, <2>2 DEF On, OnHole
  <2> QED BY <1>1, <2>2, <2>3, <2>4, <2>5, SameHole
<1> HIDE DEF c, h
<1>11. /\ \A r \in DOMAIN rows' : rows'[r].held => rows'[r].hole = NoHole /\ ~rows'[r].rushed
       /\ \A r \in DOMAIN rows' : rows'[r].dish = "made" => rows'[r].hole = NoHole
  BY <1>1, <1>5, FlagsInOrder
<1> QED BY <1>8, <1>9, <1>10, <1>11, InOrderAfter

\* Where the rows of a call are found when it writes is where they are.
LEMMA SourcesKnown ==
  ASSUME TypeInv, NEW t \in Tablets, call[t] # NoCall, call[t].plan # <<>>,
         SoundCall(call[t]), call[t].op \in Placing \cup Taking
  PROVE  \A i \in DOMAIN call[t].ids : Source(call[t], i) = rows[call[t].ids[i]].hole
  BY DEF SoundCall, SoundPlan, Source

\* A hole that is not renumbered keeps its cages; the others are numbered anew.
LEMMA AfterCompact ==
  ASSUME TypeInv, InOrder, NEW new \in Seq(Row), NEW hs, rows' = Compact(new, hs),
         NEW h \in Holes, DOMAIN rows \subseteq DOMAIN new,
         \A r \in DOMAIN new : new[r].hole = h => r \in DOMAIN rows /\ rows[r].hole = h,
         h \notin hs => \A r \in OnHole(h) : new[r].hole = h /\ new[r].stack = rows[r].stack
  PROVE  Tight(rows', h) /\ Cardinality(On(rows', h)) <= Capacity
<1>1. h # NoHole
  BY SteamerAssumption
<1>2. /\ DOMAIN rows' = DOMAIN new
      /\ \A r \in DOMAIN new :
           /\ rows'[r].hole = new[r].hole
           /\ rows'[r].stack = IF new[r].hole \in hs \ {NoHole} THEN Level(new, r)
                                                               ELSE new[r].stack
  BY CompactKeeps
<1>3. Tight(rows, h) /\ Cardinality(OnHole(h)) <= Capacity
  BY InOrderNow
<1>4. On(rows', h) \in SUBSET OnHole(h)
  BY <1>2 DEF On, OnHole
<1>5. Cardinality(On(rows', h)) <= Capacity
  <2>1. Cardinality(OnHole(h)) \in Nat /\ Capacity \in Nat
    BY HoleFinite, SteamerAssumption DEF TypeInv
  <2>2. /\ Cardinality(On(rows', h)) \in Nat
        /\ Cardinality(On(rows', h)) <= Cardinality(OnHole(h))
    BY <1>4, FewerFit DEF TypeInv
  <2> QED BY <1>3, <2>1, <2>2
<1>6. CASE h \in hs
  BY <1>1, <1>5, <1>6, CompactIsTight
<1>7. CASE h \notin hs
  <2>1. \A r \in DOMAIN rows' : rows'[r].hole = h <=> (r \in DOMAIN rows /\ rows[r].hole = h)
    BY <1>2, <1>7 DEF OnHole
  <2>2. \A r \in OnHole(h) : rows'[r].stack = rows[r].stack
    BY <1>2, <1>7 DEF OnHole
  <2>3. DOMAIN rows \subseteq DOMAIN rows'
    BY <1>2
  <2>4. Tight(rows', h)
    <3> DEFINE rs == rows'
    <3>1. /\ DOMAIN rows \subseteq DOMAIN rs
          /\ \A r \in DOMAIN rs : rs[r].hole = h <=> (r \in DOMAIN rows /\ rows[r].hole = h)
          /\ \A r \in OnHole(h) : rs[r].stack = rows[r].stack
      BY <2>1, <2>2, <2>3
    <3> HIDE DEF rs
    <3>2. Tight(rs, h)
      BY <1>3, <3>1, SameHole
    <3> QED BY <3>2 DEF rs
  <2> QED BY <1>5, <2>4
<1> QED BY <1>6, <1>7

\* Those of a move too, and the holes they leave are compacted.
LEMMA SoundMove ==
  ASSUME TypeInv, InOrder, NEW t \in Tablets, SoundCall(call[t]), Move(t)
  PROVE  InOrder'
<1> DEFINE c == call[t]
           h == c.hole
           n == Cardinality(OnHole(h))
           moved == Acting(c, h)
           hs == {Source(c, i) : i \in moved}
           S == {c.ids[i] : i \in moved}
           at(r) == CHOOSE i \in moved : c.ids[i] = r
<1>1. /\ DOMAIN rows' = DOMAIN rows /\ CallIn(c, DOMAIN rows)
      /\ \A r \in DOMAIN rows : /\ SamePortions(rows[r], rows'[r])
                                /\ SameFlags(rows[r], rows'[r])
  BY MoveRows
<1>2. PICK placed \in Seq(Row) :
        /\ rows' = Compact(placed, hs)
        /\ DOMAIN placed = DOMAIN rows
        /\ \A r \in DOMAIN rows \ S : placed[r] = rows[r]
        /\ \A i \in moved : /\ placed[c.ids[i]].hole = h
                            /\ placed[c.ids[i]].stack = c.plan[1].next + Nth(moved, i) - 1
  BY MoveRows
<1>3. c.op = "move" /\ c.plan # <<>> /\ h \in Holes /\ DOMAIN c.read = DOMAIN c.ids
      /\ c # NoCall
  <2>1. c.op = "move" /\ c.plan # <<>> /\ c # NoCall
    BY DEF Move, Planned
  <2> HIDE DEF c
  <2>2. c.hole \in Holes /\ Len(c.read) = Len(c.ids)
    BY <1>1, <2>1 DEF CallIn, PlanIn, Placing
  <2> QED BY <1>1, <2>1, <2>2, CallShape DEF CallIn
<1>4. /\ \A i \in DOMAIN c.ids : Source(c, i) = rows[c.ids[i]].hole
                                 /\ rows[c.ids[i]].hole # NoHole
      /\ c.plan[1].next = n + 1 /\ Cardinality(OnHole(h) \ IdSet(c)) + Len(c.ids) <= Capacity
  <2>1. \A i \in DOMAIN c.ids : Source(c, i) = rows[c.ids[i]].hole
    BY <1>3, SourcesKnown DEF Placing
  <2>2. \A i \in DOMAIN c.ids : rows[c.ids[i]].hole # NoHole
    BY <1>3 DEF SoundCall, SoundReads
  <2>3. /\ c.plan[1].next = n + 1
        /\ Cardinality(OnHole(h) \ IdSet(c)) + Len(c.ids) <= Capacity
    BY <1>3 DEF SoundCall, SoundPlan, Placing
  <2> QED BY <2>1, <2>2, <2>3
<1>5. /\ moved \in SUBSET (1..Len(c.ids)) /\ Len(c.ids) \in Nat /\ DOMAIN c.ids = 1..Len(c.ids)
      /\ \A i, j \in moved : c.ids[i] = c.ids[j] => i = j
      /\ \A i \in moved : c.ids[i] \in DOMAIN rows
      /\ \A i \in DOMAIN c.ids : c.ids[i] \in IdSet(c)
  <2> HIDE DEF c
  <2> QED BY <1>1, ActsOnce, Positions
<1>6. \A i \in moved : rows[c.ids[i]].hole # h /\ rows[c.ids[i]].hole \in hs
  <2>1. \A i \in moved : Source(c, i) # h /\ Source(c, i) = rows[c.ids[i]].hole
    BY <1>4 DEF Acting
  <2> HIDE DEF c
  <2> QED BY <2>1
<1>7. h \notin hs
  BY DEF Acting
<1>8. h # NoHole /\ n \in Nat
  BY <1>3, HoleFinite, SteamerAssumption DEF TypeInv
<1>9. moved \subseteq DOMAIN c.ids
  BY <1>5
<1>10. /\ \A i \in moved : c.ids[i] \in S
       /\ \A r \in S : at(r) \in moved /\ c.ids[at(r)] = r
  <2> HIDE DEF moved
  <2> QED OBVIOUS
<1> HIDE DEF c, h, n, moved, hs, S, at
<1>11. /\ S \subseteq IdSet(c)
       /\ \A i \in moved : at(c.ids[i]) = i
  BY <1>5, <1>9, <1>10
<1>12. /\ \A r \in DOMAIN rows : IF r \in S THEN placed[r].hole = h ELSE placed[r] = rows[r]
       /\ \A r \in S : /\ r \in DOMAIN rows /\ rows[r].hole # h /\ rows[r].hole \in hs
                       /\ placed[r].stack = n + Nth(moved, at(r))
  <2>1. ASSUME NEW r \in S
        PROVE  /\ r \in DOMAIN rows /\ rows[r].hole # h /\ rows[r].hole \in hs
               /\ placed[r].hole = h /\ placed[r].stack = n + Nth(moved, at(r))
    <3> DEFINE i == at(r)
               k == Nth(moved, i)
    <3>1. i \in moved /\ c.ids[i] = r /\ r \in DOMAIN rows
      <4>1. i \in moved /\ c.ids[i] = r
        BY <1>10
      <4> HIDE DEF i
      <4> QED BY <1>5, <4>1
    <3>2. k \in Nat
      <4>1. Cardinality(moved) \in Nat /\ \A j \in moved : Nth(moved, j) \in 1..Cardinality(moved)
        BY <1>5, NthOrders
      <4> QED BY <3>1, <4>1
    <3>3. rows[r].hole # h /\ rows[r].hole \in hs /\ placed[r].hole = h
      BY <1>2, <1>6, <3>1
    <3>4. placed[r].stack = c.plan[1].next + k - 1
      BY <1>2, <3>1
    <3>5. c.plan[1].next + k - 1 = n + k
      <4> HIDE DEF k
      <4> QED BY <1>4, <1>8, <3>2
    <3> QED BY <3>1, <3>3, <3>4, <3>5
  <2> QED BY <1>2, <2>1
<1>13. /\ DOMAIN rows' = DOMAIN placed
       /\ \A r \in DOMAIN placed :
            /\ rows'[r].hole = placed[r].hole
            /\ rows'[r].stack = IF placed[r].hole \in hs \ {NoHole} THEN Level(placed, r)
                                                                   ELSE placed[r].stack
  BY <1>2, CompactKeeps
<1>14. On(rows', h) = OnHole(h) \cup S
  BY <1>2, <1>12, <1>13 DEF On, OnHole
<1>15. Tight(rows', h)
  <2> DEFINE g == [i \in moved |-> Nth(moved, i)]
             f == [r \in S |-> Nth(moved, at(r))]
             m == Cardinality(moved)
  <2>1. m \in Nat /\ g \in Bijection(moved, 1..m)
    BY <1>5, NthOrders
  <2>2. f \in Bijection(S, 1..m)
    <3>0. \A i \in moved : c.ids[i] \in S /\ at(c.ids[i]) = i
      BY <1>10, <1>11
    <3>1. \A r \in S : at(r) \in moved /\ f[r] = g[at(r)]
      BY <1>10
    <3>2. \A i \in moved : f[c.ids[i]] = g[i]
      BY <3>0
    <3>3. /\ \A i \in moved : g[i] \in 1..m
          /\ \A i, j \in moved : g[i] = g[j] => i = j
          /\ \A k \in 1..m : \E i \in moved : g[i] = k
      <4> HIDE DEF g, m
      <4> QED BY <2>1 DEF Bijection, Injection, IsInjective, Surjection
    <3>4. f = [r \in S |-> f[r]] /\ DOMAIN f = S
      OBVIOUS
    <3> HIDE DEF f, g, m
    <3>5. f \in [S -> 1..m]
      BY <3>1, <3>3, <3>4
    <3>6. \A r, q \in S : f[r] = f[q] => r = q
      <4> SUFFICES ASSUME NEW r \in S, NEW q \in S, f[r] = f[q] PROVE r = q
        OBVIOUS
      <4>1. at(r) = at(q)
        BY <3>1, <3>3
      <4> QED BY <1>10, <4>1
    <3>7. \A k \in 1..m : \E r \in S : f[r] = k
      BY <3>0, <3>2, <3>3
    <3>8. f \in Injection(S, 1..m)
      BY <3>5, <3>6 DEF Injection, IsInjective
    <3>9. f \in Surjection(S, 1..m)
      BY <3>5, <3>7 DEF Surjection
    <3> QED BY <3>8, <3>9 DEF Bijection
  <2>3. IsFiniteSet(S)
    <3>1. IsFiniteSet(IdSet(c))
      BY <1>1, IdsFew
    <3>2. S \in SUBSET IdSet(c)
      BY <1>11
    <3> QED BY <3>1, <3>2, FS_Subset
  <2>4. S \cap OnHole(h) = {}
    BY <1>12 DEF OnHole
  <2>5. \A r \in OnHole(h) : rows'[r].stack = rows[r].stack
    BY <1>2, <1>7, <1>12, <1>13 DEF OnHole
  <2>6. \A r \in S : rows'[r].stack = Cardinality(OnHole(h)) + f[r]
    BY <1>2, <1>7, <1>12, <1>13 DEF n
  <2>7. Tight(rows, h)
    BY <1>3, InOrderNow
  <2> HIDE DEF f, g, m
  <2> QED BY <1>14, <2>1, <2>2, <2>3, <2>4, <2>5, <2>6, <2>7, StackedOn DEF TypeInv
<1>16. Cardinality(On(rows', h)) <= Capacity
  <2>1. On(rows', h) \in SUBSET (OnHole(h) \cup IdSet(c))
    BY <1>11, <1>14
  <2> QED BY <1>1, <1>4, <2>1, RoomForCall DEF TypeInv
<1>17. ASSUME NEW k \in Holes \ {h}
       PROVE  Tight(rows', k) /\ Cardinality(On(rows', k)) <= Capacity
  <2>1. \A r \in DOMAIN placed : placed[r].hole = k => r \in DOMAIN rows /\ rows[r].hole = k
    BY <1>2, <1>12
  <2>2. ASSUME k \notin hs, NEW r \in OnHole(k)
        PROVE  placed[r].hole = k /\ placed[r].stack = rows[r].stack
    <3>1. r \notin S
      BY <1>12, <2>2 DEF OnHole
    <3> QED BY <1>2, <3>1 DEF OnHole
  <2> QED BY <1>2, <2>1, <2>2, AfterCompact
<1>18. /\ \A r \in DOMAIN rows' : rows'[r].held => rows'[r].hole = NoHole /\ ~rows'[r].rushed
       /\ \A r \in DOMAIN rows' : rows'[r].dish = "made" => rows'[r].hole = NoHole
  <2>1. ASSUME NEW r \in DOMAIN rows
        PROVE  rows'[r].hole = rows[r].hole \/ rows[r].hole # NoHole
    <3>1. CASE r \notin S
      BY <1>2, <1>12, <1>13, <3>1
    <3>2. CASE r \in S
      <4>1. at(r) \in DOMAIN c.ids /\ c.ids[at(r)] = r
        BY <1>9, <1>10, <3>2
      <4> QED BY <1>4, <4>1
    <3> QED BY <3>1, <3>2
  <2> QED BY <1>1, <2>1, FlagsInOrder
<1> QED BY <1>15, <1>16, <1>17, <1>18, InOrderAfter

\* The holes of the rows that are taken off are compacted.
LEMMA SoundTakeOff ==
  ASSUME TypeInv, InOrder, NEW t \in Tablets, SoundCall(call[t]), TakeOff(t)
  PROVE  InOrder'
<1> DEFINE c == call[t]
           acting == Acting(c, NoHole)
           taken == {c.ids[i] : i \in acting}
           hs == {Source(c, i) : i \in acting}
<1>1. /\ DOMAIN rows' = DOMAIN rows /\ CallIn(c, DOMAIN rows)
      /\ \A r \in DOMAIN rows : /\ SamePortions(rows[r], rows'[r])
                                /\ SameFlags(rows[r], rows'[r])
  BY TakeOffRows
<1>2. PICK off \in Seq(Row) :
        /\ rows' = Compact(off, hs)
        /\ DOMAIN off = DOMAIN rows
        /\ \A r \in DOMAIN rows : IF r \in taken THEN off[r].hole = NoHole
                                                 ELSE off[r] = rows[r]
  BY TakeOffRows
<1>3. c.op \in Taking /\ c.plan # <<>> /\ c # NoCall
  BY DEF TakeOff, Planned
<1>4. \A i \in DOMAIN c.ids : Source(c, i) = rows[c.ids[i]].hole
  BY <1>3, SourcesKnown
<1>5. acting \subseteq DOMAIN c.ids
  BY DEF Acting
<1>6. \A r \in taken : rows[r].hole \in hs
  <2> HIDE DEF c, acting
  <2> QED BY <1>4, <1>5
<1> HIDE DEF c, acting, taken, hs
<1>7. ASSUME NEW k \in Holes
      PROVE  Tight(rows', k) /\ Cardinality(On(rows', k)) <= Capacity
  <2>1. k # NoHole
    BY SteamerAssumption
  <2>2. \A r \in DOMAIN off : off[r].hole = k => r \in DOMAIN rows /\ rows[r].hole = k
    BY <1>2, <2>1
  <2>3. ASSUME k \notin hs, NEW r \in OnHole(k)
        PROVE  off[r].hole = k /\ off[r].stack = rows[r].stack
    <3>1. r \notin taken
      BY <1>6, <2>3 DEF OnHole
    <3> QED BY <1>2, <3>1 DEF OnHole
  <2> QED BY <1>2, <2>2, <2>3, AfterCompact
<1>8. \A r \in DOMAIN rows : rows'[r].hole = rows[r].hole \/ rows'[r].hole = NoHole
  BY <1>2, CompactKeeps
<1>9. /\ \A r \in DOMAIN rows' : rows'[r].held => rows'[r].hole = NoHole /\ ~rows'[r].rushed
      /\ \A r \in DOMAIN rows' : rows'[r].dish = "made" => rows'[r].hole = NoHole
  BY <1>1, <1>8, FlagsInOrder
<1> QED BY <1>7, <1>9, InOrderAfter

\* So are those of rows that are served; the rows of partial completions keep their place.
LEMMA SoundComplete ==
  ASSUME TypeInv, InOrder, NEW t \in Tablets, SoundCall(call[t]), Complete(t)
  PROVE  InOrder'
<1> DEFINE c == call[t]
           part == {i \in DOMAIN c.ids : c.read[i].qty # c.portions[i]}
           m == Cardinality(part)
           pick(k) == CHOOSE j \in part : Nth(part, j) = k
           hs == {c.read[i].hole : i \in DOMAIN c.read}
<1>1. /\ CallIn(c, DOMAIN rows) /\ Len(c.read) = Len(c.ids) /\ m \in Nat
      /\ DOMAIN rows' = 1..(Len(rows) + m)
  BY CompleteRows
<1>2. PICK new \in Seq(Row) :
        /\ rows' = Compact(new, hs)
        /\ DOMAIN new = DOMAIN rows'
        /\ \A r \in DOMAIN rows \ IdSet(c) : new[r] = rows[r]
        /\ \A i \in DOMAIN c.ids : DoneRow(c, part, i, rows[c.ids[i]], new[c.ids[i]])
        /\ \A k \in 1..m : SplitRow(c, pick(k), rows[c.ids[pick(k)]], new[Len(rows) + k])
  BY CompleteRows
<1> HIDE DEF c, part, m, pick, hs
<1>3. /\ Len(rows) \in Nat /\ DOMAIN rows = 1..Len(rows)
      /\ \A r \in DOMAIN rows : rows[r].held \in BOOLEAN /\ rows[r].rushed \in BOOLEAN
  BY RowShape, RowFields DEF TypeInv
<1>4. DOMAIN c.read = DOMAIN c.ids /\ DOMAIN c.ids = 1..Len(c.ids)
  BY <1>1, CallShape DEF CallIn
<1>5. \A i \in DOMAIN c.ids : rows[c.ids[i]].hole \in hs
  BY <1>4 DEF SoundCall, SoundReads, hs, c
<1>6. \A r \in IdSet(c) : \E i \in DOMAIN c.ids : r = c.ids[i]
  BY <1>1, Positions
<1>7. ASSUME NEW r \in DOMAIN new
      PROVE  \/ r \in DOMAIN rows \ IdSet(c) /\ new[r] = rows[r]
             \/ r \in DOMAIN rows /\ new[r].hole = rows[r].hole
                  /\ SameFlags(rows[r], new[r]) /\ new[r].dish = rows[r].dish
             \/ new[r].hole = NoHole /\ new[r].rushed = FALSE
  <2>1. CASE r \notin DOMAIN rows
    <3>1. r - Len(rows) \in 1..m /\ Len(rows) + (r - Len(rows)) = r
      BY <1>1, <1>2, <1>3, <2>1
    <3>2. SplitRow(c, pick(r - Len(rows)), rows[c.ids[pick(r - Len(rows))]], new[r])
      BY <1>2, <3>1
    <3> QED BY <3>2 DEF SplitRow
  <2>2. CASE r \in DOMAIN rows /\ r \notin IdSet(c)
    BY <1>2, <2>2
  <2>3. CASE r \in DOMAIN rows /\ r \in IdSet(c)
    <3>1. PICK i \in DOMAIN c.ids : r = c.ids[i]
      BY <1>6, <2>3
    <3>2. DoneRow(c, part, i, rows[r], new[r])
      BY <1>2, <3>1
    <3> QED BY <2>3, <3>2 DEF DoneRow
  <2> QED BY <2>1, <2>2, <2>3
<1>8. ASSUME NEW k \in Holes
      PROVE  Tight(rows', k) /\ Cardinality(On(rows', k)) <= Capacity
  <2>1. k # NoHole
    BY SteamerAssumption
  <2>2. \A r \in DOMAIN new : new[r].hole = k => r \in DOMAIN rows /\ rows[r].hole = k
    BY <1>7, <2>1
  <2>3. ASSUME k \notin hs, NEW r \in OnHole(k)
        PROVE  new[r].hole = k /\ new[r].stack = rows[r].stack
    <3>1. r \notin IdSet(c)
      BY <1>5, <1>6, <2>3 DEF OnHole
    <3> QED BY <1>2, <3>1 DEF OnHole
  <2>4. DOMAIN rows \subseteq DOMAIN new
    BY <1>1, <1>2, <1>3
  <2> QED BY <1>2, <2>2, <2>3, <2>4, AfterCompact
<1>9. /\ \A r \in DOMAIN rows : rows[r].held => rows[r].hole = NoHole /\ ~rows[r].rushed
      /\ \A r \in DOMAIN rows : rows[r].dish = "made" => rows[r].hole = NoHole
  BY InOrderNow
<1>10. \A r \in DOMAIN rows' : /\ SamePortions(new[r], rows'[r]) /\ SameFlags(new[r], rows'[r])
                               /\ rows'[r].hole = new[r].hole
  BY <1>2, CompactKeeps
<1>11. ASSUME NEW r \in DOMAIN rows'
       PROVE  /\ rows'[r].held => rows'[r].hole = NoHole /\ ~rows'[r].rushed
              /\ rows'[r].dish = "made" => rows'[r].hole = NoHole
  <2>1. /\ rows'[r].held = new[r].held /\ rows'[r].rushed = new[r].rushed
        /\ rows'[r].dish = new[r].dish /\ rows'[r].hole = new[r].hole /\ r \in DOMAIN new
    BY <1>2, <1>10 DEF SamePortions, SameFlags
  <2>2. CASE r \in DOMAIN rows /\ new[r] = rows[r]
    BY <1>9, <2>1, <2>2
  <2>3. CASE r \in DOMAIN rows /\ new[r].hole = rows[r].hole
               /\ SameFlags(rows[r], new[r]) /\ new[r].dish = rows[r].dish
    <3>1. /\ rows'[r].held = rows[r].held /\ rows'[r].rushed = rows[r].rushed
          /\ rows'[r].dish = rows[r].dish /\ rows'[r].hole = rows[r].hole
      BY <2>1, <2>3 DEF SameFlags
    <3> QED BY <1>3, <1>9, <2>3, <3>1
  <2>4. CASE new[r].hole = NoHole /\ new[r].rushed = FALSE
    BY <2>1, <2>4
  <2> QED BY <1>7, <2>1, <2>2, <2>3, <2>4
<1> QED BY <1>8, <1>11, InOrderAfter

\* Cages that change owners and keep their numbers.
LEMMA Carried ==
  ASSUME rows \in Seq(Row), NEW h, Tight(rows, h), NEW rs,
         NEW f \in Bijection(On(rs, h), OnHole(h)),
         \A r \in On(rs, h) : rs[r].stack = rows[f[r]].stack
  PROVE  Tight(rs, h) /\ Cardinality(On(rs, h)) = Cardinality(OnHole(h))
<1>1. IsFiniteSet(OnHole(h))
  BY HoleFinite
<1>2. /\ f \in Injection(On(rs, h), OnHole(h)) /\ f \in Surjection(On(rs, h), OnHole(h))
      /\ \A r \in On(rs, h) : f[r] \in OnHole(h)
      /\ \A q \in OnHole(h) : \E r \in On(rs, h) : f[r] = q
  BY DEF Bijection, Injection, Surjection
<1>3. Cardinality(On(rs, h)) = Cardinality(OnHole(h))
  BY <1>1, <1>2, FS_Injection
<1>4. {rs[r].stack : r \in On(rs, h)} = {rows[q].stack : q \in OnHole(h)}
  BY <1>2
<1>5. {rows[q].stack : q \in OnHole(h)} = 1..Cardinality(OnHole(h))
  BY DEF Tight, On, OnHole
<1> QED BY <1>3, <1>4, <1>5 DEF Tight

\* A row that takes over a cage takes its level: the hole has as many cages as before.
LEMMA SoundHold ==
  ASSUME TypeInv, InOrder, NEW t \in Tablets, SoundCall(call[t]), HoldPortions(t)
  PROVE  InOrder'
<1> DEFINE plan == call[t].plan[1]
           P == ToSet(plan.pairs)
           F == Freed(plan)
           T == Takers(plan)
           from(r) == (CHOOSE p \in P : p[2] = r)[1]
<1>1. /\ DOMAIN rows' = DOMAIN rows /\ plan \in HoldPlan(DOMAIN rows)
      /\ \A r \in DOMAIN rows : HeldRow(plan, r, rows[r], rows'[r])
  BY HoldRows
<1>2. call[t].op = "hold" /\ call[t].plan # <<>>
  BY DEF HoldPortions, Planned
<1>3. /\ \A r \in plan.direct : rows[r].hole = NoHole
      /\ \A r \in T : rows[r].hole = NoHole /\ rows[r].held = FALSE /\ rows[r].dish # "made"
  BY <1>2 DEF SoundCall, SoundPlan, Spare
<1> HIDE DEF plan
<1>4. /\ plan.pairs \in Seq((DOMAIN rows) \X (DOMAIN rows))
      /\ F \cap plan.direct = {} /\ T \cap (F \cup plan.direct) = {}
      /\ \A i, j \in DOMAIN plan.pairs :
           i # j => plan.pairs[i][1] # plan.pairs[j][1] /\ plan.pairs[i][2] # plan.pairs[j][2]
  BY <1>1 DEF HoldPlan, Apart
<1>5. /\ \A p \in P : p \in (DOMAIN rows) \X (DOMAIN rows)
      /\ \A p, q \in P : p[1] = q[1] => p = q
      /\ \A p, q \in P : p[2] = q[2] => p = q
  <2>1. \A p \in P : \E i \in DOMAIN plan.pairs : p = plan.pairs[i]
    BY DEF ToSet
  <2>2. \A i \in DOMAIN plan.pairs : plan.pairs[i] \in (DOMAIN rows) \X (DOMAIN rows)
    BY <1>4, LenProperties, ElementOfSeq
  <2> HIDE DEF P, F, T
  <2> QED BY <1>4, <2>1, <2>2
<1>6. /\ F = {p[1] : p \in P} /\ T = {p[2] : p \in P}
  BY DEF Freed, Takers
<1> HIDE DEF P, F, T
<1>7. ASSUME NEW r \in T
      PROVE  \E p \in P : p[2] = r /\ from(r) = p[1] /\ from(r) \in F
  <2>1. \E p \in P : p[2] = r
    BY <1>6
  <2> QED BY <1>6, <2>1
<1>8. \A r, q \in T : from(r) = from(q) => r = q
  <2> SUFFICES ASSUME NEW r \in T, NEW q \in T, from(r) = from(q) PROVE r = q
    OBVIOUS
  <2> HIDE DEF from
  <2> QED BY <1>5, <1>7
<1>9. \A s \in F : \E r \in T : from(r) = s
  <2> SUFFICES ASSUME NEW s \in F PROVE \E r \in T : from(r) = s
    OBVIOUS
  <2>1. PICK p \in P : s = p[1]
    BY <1>6
  <2>2. p[2] \in T
    BY <1>6
  <2> HIDE DEF from
  <2> QED BY <1>5, <1>7, <2>1, <2>2
<1>10. ASSUME NEW r \in T
       PROVE  /\ rows'[r].hole = rows[from(r)].hole /\ rows'[r].stack = rows[from(r)].stack
              /\ SameFlags(rows[r], rows'[r]) /\ SamePortions(rows[r], rows'[r])
              /\ r \in DOMAIN rows /\ from(r) \in DOMAIN rows
  <2>1. PICK p \in P : p[2] = r /\ from(r) = p[1]
    BY <1>7
  <2>2. r \in DOMAIN rows /\ from(r) \in DOMAIN rows
    BY <1>5, <2>1
  <2>3. r \notin F /\ r \notin plan.direct
    BY <1>4
  <2>4. HeldRow(plan, r, rows[r], rows'[r])
    BY <1>1, <2>2
  <2>5. /\ SameFlags(rows[r], rows'[r]) /\ SamePortions(rows[r], rows'[r])
        /\ \E q \in P : q[2] = r /\ rows'[r].hole = rows[q[1]].hole
                        /\ rows'[r].stack = rows[q[1]].stack
    BY <2>3, <2>4 DEF HeldRow, F, T, P
  <2> HIDE DEF from
  <2> QED BY <1>5, <2>1, <2>2, <2>5
<1> HIDE DEF from
<1>11. ASSUME NEW r \in DOMAIN rows
       PROVE  /\ SamePortions(rows[r], rows'[r])
              /\ r \in F => /\ rows'[r].hole = NoHole /\ rows'[r].held = TRUE
                            /\ rows'[r].rushed = FALSE
              /\ r \in plan.direct => /\ rows'[r].hole = NoHole /\ rows'[r].held = TRUE
                                      /\ rows'[r].rushed = FALSE
              /\ r \notin F \cup T \cup plan.direct => rows'[r] = rows[r]
  <2>1. HeldRow(plan, r, rows[r], rows'[r])
    BY <1>1
  <2>2. r \in plan.direct => r \notin F
    BY <1>4
  <2> QED BY <1>3, <2>1, <2>2 DEF HeldRow, F, T
<1>12. ASSUME NEW k \in Holes
       PROVE  Tight(rows', k) /\ Cardinality(On(rows', k)) <= Capacity
  <2> DEFINE rs == rows'
             A == On(rs, k)
             B == OnHole(k)
             f == [r \in A |-> IF r \in T THEN from(r) ELSE r]
  <2>1. k # NoHole
    BY SteamerAssumption
  <2>2. Tight(rows, k) /\ Cardinality(B) <= Capacity
    BY InOrderNow
  <2>3. /\ \A r : r \in A <=> r \in DOMAIN rows /\ rows'[r].hole = k
        /\ \A r : r \in B <=> r \in DOMAIN rows /\ rows[r].hole = k
    BY <1>1 DEF On, OnHole
  <2>4. DOMAIN f = A /\ \A r \in A : f[r] = IF r \in T THEN from(r) ELSE r
    OBVIOUS
  <2>5. f = [r \in A |-> f[r]]
    OBVIOUS
  <2> HIDE DEF f, A, B, rs
  <2>6. ASSUME NEW r \in A \ T
        PROVE  r \in B /\ r \notin F /\ rows'[r] = rows[r] /\ f[r] = r
    <3>1. r \in DOMAIN rows /\ rows'[r].hole = k /\ f[r] = r
      BY <2>3, <2>4, <2>6
    <3>2. r \notin F /\ r \notin plan.direct
      BY <1>11, <2>1, <3>1
    <3>3. rows'[r] = rows[r]
      BY <1>11, <2>6, <3>1, <3>2
    <3>4. r \in B
      BY <2>3, <3>1, <3>3
    <3> QED BY <3>1, <3>2, <3>3, <3>4
  <2>7. ASSUME NEW r \in A \cap T
        PROVE  f[r] = from(r) /\ f[r] \in B /\ f[r] \in F /\ rows'[r].stack = rows[f[r]].stack
    <3>1. f[r] = from(r)
      BY <2>4
    <3> QED BY <1>7, <1>10, <2>3, <3>1
  <2>8. f \in [A -> B]
    BY <2>5, <2>6, <2>7
  <2>9. \A r, q \in A : f[r] = f[q] => r = q
    BY <1>8, <2>6, <2>7
  <2>10. ASSUME NEW s \in B PROVE \E r \in A : f[r] = s
    <3>1. CASE s \in F
      <4>1. PICK r \in T : from(r) = s
        BY <1>9, <3>1
      <4>2. r \in A
        BY <1>10, <2>3, <4>1
      <4> QED BY <2>7, <4>1, <4>2
    <3>2. CASE s \notin F
      <4>1. s \notin T /\ s \notin plan.direct
        BY <1>3, <2>1, <2>3
      <4>2. s \in A
        BY <1>11, <2>3, <3>2, <4>1
      <4> QED BY <2>6, <4>1, <4>2
    <3> QED BY <3>1, <3>2
  <2>11. f \in Injection(A, B)
    BY <2>8, <2>9 DEF Injection, IsInjective
  <2>12. f \in Surjection(A, B)
    BY <2>8, <2>10 DEF Surjection
  <2>13. f \in Bijection(A, B)
    BY <2>11, <2>12 DEF Bijection
  <2>14. \A r \in A : rs[r].stack = rows[f[r]].stack
    BY <2>6, <2>7 DEF rs
  <2>15. Tight(rs, k) /\ Cardinality(On(rs, k)) = Cardinality(OnHole(k))
    BY <2>2, <2>13, <2>14, Carried DEF A, B, TypeInv
  <2> QED BY <2>2, <2>15 DEF B, rs
<1>13. ASSUME NEW r \in DOMAIN rows
       PROVE  /\ rows'[r].held => rows'[r].hole = NoHole /\ ~rows'[r].rushed
              /\ rows'[r].dish = "made" => rows'[r].hole = NoHole
  <2>1. CASE r \in F \cup plan.direct
    BY <1>11, <2>1
  <2>2. CASE r \in T
    <3>1. rows'[r].held = rows[r].held /\ rows'[r].dish = rows[r].dish
      BY <1>10, <2>2 DEF SameFlags, SamePortions
    <3> QED BY <1>3, <2>2, <3>1
  <2>3. CASE r \notin F \cup T \cup plan.direct
    BY <1>11, <2>3, InOrderNow
  <2> QED BY <2>1, <2>2, <2>3
<1> QED BY <1>1, <1>12, <1>13, InOrderAfter

\* A fire or a rush moves no cage; what is rushed is not held.
LEMMA SoundFlags ==
  ASSUME TypeInv, InOrder, NEW t \in Tablets, SoundCall(call[t]),
         FirePortions(t) \/ RushPortions(t)
  PROVE  InOrder'
<1> DEFINE c == call[t]
<1>1. /\ DOMAIN rows' = DOMAIN rows /\ CallIn(c, DOMAIN rows) /\ Len(c.read) = Len(c.ids)
      /\ \A r \in DOMAIN rows :
           /\ SamePortions(rows[r], rows'[r])
           /\ rows'[r].hole = rows[r].hole /\ rows'[r].stack = rows[r].stack
           /\ FirePortions(t) => rows'[r].held \in {FALSE, rows[r].held}
                                 /\ rows'[r].rushed = rows[r].rushed
           /\ RushPortions(t) =>
                /\ rows'[r].held = rows[r].held
                /\ r \notin IdSet(c) => rows'[r].rushed = rows[r].rushed
  BY FlagRows
<1>2. /\ \A r \in DOMAIN rows : rows[r].held => rows[r].hole = NoHole /\ ~rows[r].rushed
      /\ \A r \in DOMAIN rows : rows[r].dish = "made" => rows[r].hole = NoHole
  BY InOrderNow
<1>3. ASSUME RushPortions(t), NEW r \in IdSet(c) PROVE rows[r].held = FALSE
  <2>1. c.op = "rush"
    BY <1>3 DEF RushPortions
  <2> HIDE DEF c
  <2>2. DOMAIN c.read = DOMAIN c.ids
    BY <1>1, CallShape DEF CallIn
  <2>3. Position(c.ids, r) \in DOMAIN c.ids /\ c.ids[Position(c.ids, r)] = r
    BY <1>1, <1>3, Positions
  <2>4. SoundReads(c)
    BY DEF SoundCall, c
  <2> QED BY <2>1, <2>2, <2>3, <2>4 DEF SoundReads
<1>4. ASSUME NEW k \in Holes
      PROVE  Tight(rows', k) /\ Cardinality(On(rows', k)) <= Capacity
  <2>1. Tight(rows, k) /\ Cardinality(OnHole(k)) <= Capacity
    BY InOrderNow
  <2> DEFINE rs == rows'
  <2>2. /\ DOMAIN rows \subseteq DOMAIN rs
        /\ \A r \in DOMAIN rs : rs[r].hole = k <=> (r \in DOMAIN rows /\ rows[r].hole = k)
        /\ \A r \in OnHole(k) : rs[r].stack = rows[r].stack
    BY <1>1 DEF OnHole
  <2>3. On(rs, k) = OnHole(k)
    BY <1>1 DEF On, OnHole
  <2> HIDE DEF rs
  <2>4. Tight(rs, k)
    BY <2>1, <2>2, SameHole
  <2> QED BY <2>1, <2>3, <2>4 DEF rs
<1>5. ASSUME NEW r \in DOMAIN rows
      PROVE  /\ rows'[r].held => rows'[r].hole = NoHole /\ ~rows'[r].rushed
             /\ rows'[r].dish = "made" => rows'[r].hole = NoHole
  <2>1. rows'[r].dish = rows[r].dish /\ rows'[r].hole = rows[r].hole
    BY <1>1 DEF SamePortions
  <2>2. rows'[r].held => rows'[r].hole = NoHole /\ ~rows'[r].rushed
    <3>1. CASE FirePortions(t)
      BY <1>1, <1>2, <2>1, <3>1
    <3>2. CASE RushPortions(t)
      BY <1>1, <1>2, <1>3, <2>1, <3>2
    <3> QED BY <3>1, <3>2
  <2> QED BY <1>2, <2>1, <2>2
<1> QED BY <1>1, <1>4, <1>5, InOrderAfter

\* What twice remembers.
LEMMA LoadsOnce ==
  ASSUME NEW t \in Tablets, Load(t), ~twice'
  PROVE  Distinct(call[t]) /\ ~twice
<1>1. /\ call[t].op = "load"
      /\ twice' = (twice \/ (call[t].op = "load" /\ ~IsInjective(call[t].ids)))
  BY DEF Load, Commit
<1>2. ~twice /\ IsInjective(call[t].ids)
  BY <1>1
<1> QED BY <1>2 DEF IsInjective, Distinct

\* A load that named a row twice is not forgotten.
LEMMA StaysTwice ==
  ASSUME TypeInv, Next, ~twice'
  PROVE  ~twice
<1>1. ASSUME NEW t \in Tablets, Writes(t) PROVE ~twice
  <2>1. ASSUME NEW rs, Commit(t, rs) PROVE ~twice
    BY <2>1 DEF Commit
  <2>2. \E rs : Commit(t, rs)
    BY <1>1, WritesCommit
  <2> QED BY <2>1, <2>2
<1>2. ASSUME NEW t \in Tablets, Quiet(t) PROVE ~twice
  BY <1>2, QuietSteps
<1>3. ASSUME Scraper PROVE ~twice
  BY <1>3, ScraperRows
<1> QED BY <1>1, <1>2, <1>3, TwoKinds DEF Next

\* With one call at a time every transaction keeps the steamers in order, but for a load that
\* names a row twice.
LEMMA SoundWrites ==
  ASSUME TypeInv, Alone, Sound, NEW t \in Tablets, Writes(t), ~twice'
  PROVE  Sound'
<1>1. \A u \in Tablets : call'[u] = IF u = t THEN NoCall ELSE call[u]
  BY WritingSteps DEF TypeInv, CallsIn
<1>2. call[t] # NoCall
  BY DEF Writes, Load, Move, TakeOff, Complete, HoldPortions, FirePortions, RushPortions,
         AllRead, Idle
<1>3. InOrder /\ SoundCall(call[t])
  BY <1>2 DEF Sound
<1>4. \A u \in Tablets : call'[u] = NoCall
  BY <1>1, <1>2 DEF Alone
<1>5. ASSUME Load(t) PROVE Distinct(call[t])
  BY <1>5, LoadsOnce
<1>6. InOrder'
  BY <1>3, <1>5, SoundLoad, SoundMove, SoundTakeOff, SoundComplete, SoundHold, SoundFlags
     DEF Writes
<1> QED BY <1>4, <1>6 DEF Sound

\* The scraper keeps order, and all that a call under way knows.
LEMMA SoundScraper ==
  ASSUME TypeInv, Sound, Scraper
  PROVE  Sound'
<1>1. /\ DOMAIN rows' = DOMAIN rows /\ UNCHANGED <<call, serial>>
      /\ \A r \in DOMAIN rows : ScrapedRow(r, rows[r], rows'[r])
  BY ScraperRows
<1>2. \A r \in DOMAIN rows :
        /\ rows'[r].hole = rows[r].hole /\ rows'[r].stack = rows[r].stack
        /\ rows'[r].held = rows[r].held /\ rows'[r].rushed = rows[r].rushed
        /\ rows'[r].dish = "made" => rows[r].dish = "made"
  BY <1>1 DEF ScrapedRow, SameFlags
<1>3. InOrder /\ \A u \in Tablets : call[u] # NoCall => SoundCall(call[u])
  BY DEF Sound
<1>4. \A h : OnHole(h)' = OnHole(h)
  BY <1>1, <1>2 DEF OnHole
<1>5. \A h : \A r \in OnHole(h) : rows'[r].stack = rows[r].stack
  BY <1>2 DEF OnHole
<1>6. HolesFit'
  BY <1>3, <1>4 DEF InOrder, HolesFit
<1>7. StacksAreTight'
  <2> SUFFICES ASSUME NEW h \in Holes
               PROVE  {rows'[r].stack : r \in OnHole(h)} = 1..Cardinality(OnHole(h))
    BY <1>4 DEF StacksAreTight
  <2>1. {rows[r].stack : r \in OnHole(h)} = 1..Cardinality(OnHole(h))
    BY <1>3 DEF InOrder, StacksAreTight
  <2>2. {rows'[r].stack : r \in OnHole(h)} = {rows[r].stack : r \in OnHole(h)}
    BY <1>5
  <2> QED BY <2>1, <2>2
<1>8. HeldIsOffTheSteamer' /\ MadeIsOffTheSteamer'
  BY <1>1, <1>2, <1>3 DEF InOrder, HeldIsOffTheSteamer, MadeIsOffTheSteamer
<1>9. ASSUME NEW u \in Tablets, call[u] # NoCall PROVE SoundCall(call[u])'
  <2> DEFINE c == call[u]
  <2>1. /\ SoundCall(c) /\ CallIn(c, DOMAIN rows) /\ c' = c
        /\ DOMAIN c.read \subseteq DOMAIN c.ids /\ 1 \in DOMAIN c.ids
    <3>1. SoundCall(c) /\ CallIn(c, DOMAIN rows) /\ c' = c
      BY <1>1, <1>3, <1>9 DEF TypeInv, CallsIn
    <3> QED BY <3>1, CallShape DEF CallIn
  <2>2. SoundReads(c)'
    <3>1. \A i \in DOMAIN c.read : c.ids[i] \in DOMAIN rows
      BY <2>1 DEF CallIn
    <3>2. SoundReads(c)
      BY <2>1 DEF SoundCall
    <3> HIDE DEF c
    <3> QED BY <1>2, <2>1, <3>1, <3>2 DEF SoundReads
  <2>3. ASSUME c.plan # <<>> PROVE SoundPlan(c)'
    <3>1. SoundPlan(c) /\ PlanIn(c, DOMAIN rows) /\ c.ids[1] \in DOMAIN rows
      BY <2>1, <2>3 DEF SoundCall, CallIn
    <3>2. c.op = "hold" => /\ c.plan[1].direct \subseteq DOMAIN rows
                           /\ Takers(c.plan[1]) \subseteq DOMAIN rows
      <4> SUFFICES ASSUME c.op = "hold"
                   PROVE  /\ c.plan[1].direct \subseteq DOMAIN rows
                          /\ Takers(c.plan[1]) \subseteq DOMAIN rows
        OBVIOUS
      <4> DEFINE p == c.plan[1]
      <4>1. p \in HoldPlan(DOMAIN rows)
        BY <3>1 DEF PlanIn
      <4> HIDE DEF p
      <4>2. p.direct \subseteq DOMAIN rows /\ p.pairs \in Seq((DOMAIN rows) \X (DOMAIN rows))
        BY <4>1 DEF HoldPlan
      <4>3. \A j \in DOMAIN p.pairs : p.pairs[j] \in (DOMAIN rows) \X (DOMAIN rows)
        BY <4>2, LenProperties, ElementOfSeq
      <4>4. Takers(p) \subseteq DOMAIN rows
        BY <4>3 DEF Takers, ToSet
      <4> QED BY <4>2, <4>4 DEF p
    <3> HIDE DEF c
    <3>3. \A h : {r \in DOMAIN rows' : rows'[r].hole = h} = OnHole(h)
      BY <1>1, <1>2 DEF OnHole
    <3>4. c.op \in Placing \cup Taking => c.plan[1].first = rows'[c.ids[1]].hole
      BY <1>2, <3>1 DEF SoundPlan
    <3>5. c.op = "hold" => /\ \A r \in c.plan[1].direct : rows'[r].hole = NoHole
                           /\ \A r \in Takers(c.plan[1]) : Spare(rows'[r])
      BY <1>2, <3>1, <3>2 DEF SoundPlan, Spare
    <3>6. c' = c
      BY <2>1
    <3>7. c.op \in Placing =>
            /\ c.plan[1].next = Cardinality({r \in DOMAIN rows' : rows'[r].hole = c.hole}) + 1
            /\ Cardinality({r \in DOMAIN rows' : rows'[r].hole = c.hole} \ IdSet(c))
                 + Len(c.ids) <= Capacity
      BY <3>1, <3>3 DEF SoundPlan
    <3> QED BY <3>4, <3>5, <3>6, <3>7 DEF SoundPlan, OnHole, Spare, Takers, IdSet
  <2> QED BY <2>1, <2>2, <2>3 DEF SoundCall
<1> QED BY <1>1, <1>6, <1>7, <1>8, <1>9 DEF Sound, InOrder

\* The invariant is inductive.
LEMMA SoundStep ==
  ASSUME TypeInv, SoundInv, [Next]_vars
  PROVE  SoundInv'
<1>1. CASE UNCHANGED vars
  <2>1. UNCHANGED <<rows, call, serial, twice>>
    BY <1>1 DEF vars
  <2>2. InOrder' = InOrder /\ Alone' = Alone
    BY <2>1 DEF Alone, InOrder, HolesFit, StacksAreTight, OnHole, HeldIsOffTheSteamer,
                MadeIsOffTheSteamer
  <2>3. \A u \in Tablets : SoundCall(call[u]) => SoundCall(call[u])'
    BY <2>1 DEF SoundCall, SoundReads, SoundPlan, OnHole, Spare, Takers, IdSet
  <2> QED BY <2>1, <2>2, <2>3 DEF SoundInv, Sound
<1>2. CASE Next /\ serial
  <2>1. Alone' /\ Alone
    BY <1>2, AloneStep DEF SoundInv
  <2>2. ASSUME ~twice' PROVE Sound'
    <3>1. Sound
      BY <1>2, <2>2, StaysTwice DEF SoundInv
    <3> QED BY <1>2, <2>1, <2>2, <3>1, SoundQuiet, SoundWrites, SoundScraper, TwoKinds DEF Next
  <2> QED BY <2>1, <2>2 DEF SoundInv
<1>3. CASE Next /\ ~serial
  <2>1. UNCHANGED serial
    BY <1>3, TwoKinds, QuietSteps, WritingSteps, ScraperRows DEF Next
  <2> QED BY <1>3, <2>1 DEF SoundInv
<1> QED BY <1>1, <1>2, <1>3

\* When the kitchen sends one call at a time, and as long as no load has named a row twice, no
\* hole holds more cages than it has room for, the cages of a hole are numbered from 1 without
\* gap or double, a portion held back is neither steaming nor rushed and one that was served has
\* left its hole, whatever the scraper does between the checks of a call and its transaction
\* (orders_repo.py: apply_steamer_*, apply_cooking_completion, apply_floor_mutations).
THEOREM KitchenCorrect == Spec => []KitchenIsSound
<1>1. TypeInv /\ [Next]_vars => TypeInv'
  BY TypeStep
<1>2. TypeInv /\ SoundInv /\ [Next]_vars => SoundInv'
  BY SoundStep
<1>3. SoundInv => KitchenIsSound
  BY DEF SoundInv, Sound, InOrder, KitchenIsSound
<1> QED BY TypeInit, SoundInit, <1>1, <1>2, <1>3, PTL DEF Spec

-----------------------------------------------------------------------------
(* The portions of a line: those of its own row, and those of the rows split *)
(* off it.                                                                   *)

Units(rs, i) ==
  {p \in (DOMAIN rs) \X Nat : rs[p[1]].line = i /\ p[2] \in 1..rs[p[1]].qty}
UnitsBeside(rs, i) == {p \in Units(rs, i) : p[1] # i}
Beside(rs, i) == Cardinality(UnitsBeside(rs, i))

\* The units of a line are finitely many.
LEMMA UnitsFinite ==
  ASSUME NEW rs \in Seq(Row), NEW i
  PROVE  /\ IsFiniteSet(Units(rs, i)) /\ IsFiniteSet(UnitsBeside(rs, i))
         /\ Beside(rs, i) \in Nat
<1> DEFINE n == Len(rs)
           f == [r \in 1..n |-> rs[r].qty]
<1>1. n \in Nat /\ DOMAIN rs = 1..n /\ \A r \in DOMAIN rs : rs[r].qty \in Nat
  BY RowShape, RowFields
<1>2. f \in [1..n -> Nat] /\ \A r \in 1..n : f[r] = rs[r].qty
  BY <1>1
<1> HIDE DEF f, n
<1>3. PICK b \in Nat : \A r \in 1..n : f[r] <= b
  BY <1>1, <1>2, Bounded
<1>4. IsFiniteSet(DOMAIN rs) /\ IsFiniteSet(1..b)
  BY <1>1, FS_Interval
<1>5. IsFiniteSet((DOMAIN rs) \X (1..b))
  BY <1>4, FS_Product
<1>6. Units(rs, i) \in SUBSET ((DOMAIN rs) \X (1..b))
  <2> SUFFICES ASSUME NEW p \in Units(rs, i) PROVE p \in (DOMAIN rs) \X (1..b)
    OBVIOUS
  <2>1. p \in (DOMAIN rs) \X Nat /\ p[1] \in DOMAIN rs /\ p[2] \in 1..rs[p[1]].qty
    BY DEF Units
  <2>2. rs[p[1]].qty <= b /\ rs[p[1]].qty \in Nat
    BY <1>1, <1>2, <1>3, <2>1
  <2>3. p[2] \in 1..b
    BY <2>1, <2>2
  <2> QED BY <2>1, <2>3
<1>7. IsFiniteSet(Units(rs, i))
  BY <1>5, <1>6, FS_Subset
<1>8. UnitsBeside(rs, i) \in SUBSET Units(rs, i)
  BY DEF UnitsBeside
<1>9. IsFiniteSet(UnitsBeside(rs, i))
  BY <1>7, <1>8, FS_Subset
<1> QED BY <1>7, <1>9, FS_CardinalityType DEF Beside

\* A row has as many units as portions.
LEMMA RowUnits ==
  ASSUME NEW r, NEW n \in Nat
  PROVE  IsFiniteSet({r} \X (1..n)) /\ Cardinality({r} \X (1..n)) = n
<1>1. IsFiniteSet({r}) /\ Cardinality({r}) = 1
  BY FS_Singleton
<1>2. IsFiniteSet(1..n) /\ Cardinality(1..n) = n
  BY FS_Interval
<1>3. /\ IsFiniteSet({r} \X (1..n))
      /\ Cardinality({r} \X (1..n)) = Cardinality({r}) * Cardinality(1..n)
  BY <1>1, <1>2, FS_Product, Zenon
<1>4. 1 * n = n
  OBVIOUS
<1> QED BY <1>1, <1>2, <1>3, <1>4

\* One more row, beside those there are.
LEMMA MoreUnits ==
  ASSUME NEW S, IsFiniteSet(S), NEW r, NEW n \in Nat, \A p \in S : p[1] # r
  PROVE  Cardinality(S \cup ({r} \X (1..n))) = Cardinality(S) + n
<1> DEFINE T == {r} \X (1..n)
<1>1. IsFiniteSet(T) /\ Cardinality(T) = n
  BY RowUnits
<1>2. S \cap T = {}
  OBVIOUS
<1>3. Cardinality(S) \in Nat
  BY FS_CardinalityType
<1>4. Cardinality(S \cup T) = Cardinality(S) + Cardinality(T) - Cardinality(S \cap T)
  <2> HIDE DEF T
  <2> QED BY <1>1, FS_Union
<1>5. Cardinality(S \cap T) = 0
  BY <1>2, FS_EmptySet
<1> HIDE DEF T
<1>6. Cardinality(S \cup T) = Cardinality(S) + n
  BY <1>1, <1>3, <1>4, <1>5
<1> QED BY <1>6 DEF T

\* The portions of a line are those of its own row and those beside it.
LEMMA PortionsCounted ==
  ASSUME rows \in Seq(Row), NEW i \in DOMAIN rows, rows[i].line = i
  PROVE  PortionsOf(i) = Beside(rows, i) + rows[i].qty
<1> DEFINE S == UnitsBeside(rows, i)
           T == {i} \X (1..rows[i].qty)
<1>1. rows[i].qty \in Nat
  BY RowShape, RowFields
<1>2. IsFiniteSet(S) /\ \A p \in S : p[1] # i
  BY UnitsFinite DEF UnitsBeside
<1>3. PortionUnits(i) = S \cup T
  <2>1. ASSUME NEW p \in PortionUnits(i) PROVE p \in S \cup T
    <3>1. PICK r \in DOMAIN rows : rows[r].line = i /\ p \in {r} \X (1..rows[r].qty)
      BY <2>1 DEF PortionUnits
    <3>2. rows[r].qty \in Nat
      BY RowShape, RowFields
    <3>3. p = <<p[1], p[2]>> /\ p[1] = r /\ p[2] \in 1..rows[r].qty /\ p[2] \in Nat
      BY <3>1, <3>2
    <3>4. CASE r = i
      BY <3>3, <3>4
    <3>5. CASE r # i
      <4>1. p \in (DOMAIN rows) \X Nat
        BY <3>3
      <4> QED BY <3>1, <3>3, <3>5, <4>1 DEF UnitsBeside, Units
    <3> QED BY <3>4, <3>5
  <2>2. ASSUME NEW p \in S \cup T PROVE p \in PortionUnits(i)
    <3>1. CASE p \in T
      BY <3>1 DEF PortionUnits
    <3>2. CASE p \in S
      <4>1. /\ p \in (DOMAIN rows) \X Nat /\ p[1] \in DOMAIN rows /\ rows[p[1]].line = i
            /\ p[2] \in 1..rows[p[1]].qty
        BY <3>2 DEF UnitsBeside, Units
      <4>2. p \in {p[1]} \X (1..rows[p[1]].qty)
        BY <4>1
      <4> QED BY <4>1, <4>2 DEF PortionUnits
    <3> QED BY <2>2, <3>1, <3>2
  <2> QED BY <2>1, <2>2
<1> HIDE DEF S
<1>4. Cardinality(S \cup T) = Cardinality(S) + rows[i].qty
  BY <1>1, <1>2, MoreUnits
<1> QED BY <1>3, <1>4 DEF PortionsOf, Beside, S

\* The units beside a line's own row stay when the rows split off it do and no row joins them.
LEMMA SameBeside ==
  ASSUME rows \in Seq(Row), NEW rs \in Seq(Row), NEW i, DOMAIN rows \subseteq DOMAIN rs,
         \A r \in DOMAIN rows : rs[r].line = rows[r].line,
         \A r \in DOMAIN rows : rows[r].line = i /\ r # i => rs[r].qty = rows[r].qty,
         \A r \in (DOMAIN rs) \ DOMAIN rows : rs[r].line # i
  PROVE  Beside(rs, i) = Beside(rows, i)
<1>1. ASSUME NEW p \in UnitsBeside(rs, i) PROVE p \in UnitsBeside(rows, i)
  <2>1. /\ p \in (DOMAIN rs) \X Nat /\ p[1] \in DOMAIN rs /\ p[2] \in Nat
        /\ rs[p[1]].line = i /\ p[1] # i
        /\ p[2] \in 1..rs[p[1]].qty
    BY <1>1 DEF UnitsBeside, Units
  <2>2. p[1] \in DOMAIN rows
    BY <2>1
  <2>3. p \in (DOMAIN rows) \X Nat
    BY <2>1, <2>2
  <2> QED BY <2>1, <2>2, <2>3 DEF UnitsBeside, Units
<1>2. ASSUME NEW p \in UnitsBeside(rows, i) PROVE p \in UnitsBeside(rs, i)
  <2>1. /\ p \in (DOMAIN rows) \X Nat /\ p[1] \in DOMAIN rows /\ p[2] \in Nat
        /\ rows[p[1]].line = i /\ p[1] # i
        /\ p[2] \in 1..rows[p[1]].qty
    BY <1>2 DEF UnitsBeside, Units
  <2>2. p \in (DOMAIN rs) \X Nat
    BY <2>1
  <2> QED BY <2>1, <2>2 DEF UnitsBeside, Units
<1>3. UnitsBeside(rs, i) = UnitsBeside(rows, i)
  BY <1>1, <1>2
<1> QED BY <1>3 DEF Beside

\* They become more when one row joins them.
LEMMA MoreBeside ==
  ASSUME rows \in Seq(Row), NEW rs \in Seq(Row), NEW i, DOMAIN rows \subseteq DOMAIN rs,
         \A r \in DOMAIN rows : rs[r].line = rows[r].line,
         \A r \in DOMAIN rows : rows[r].line = i /\ r # i => rs[r].qty = rows[r].qty,
         NEW q \in (DOMAIN rs) \ DOMAIN rows, rs[q].line = i, q # i,
         \A r \in (DOMAIN rs) \ DOMAIN rows : rs[r].line = i => r = q
  PROVE  Beside(rs, i) = Beside(rows, i) + rs[q].qty
<1> DEFINE S == UnitsBeside(rows, i)
           n == rs[q].qty
           T == {q} \X (1..n)
<1>1. n \in Nat
  BY RowShape, RowFields
<1>2. IsFiniteSet(S)
  BY UnitsFinite
<1>3. \A p \in S : p[1] # q
  BY DEF UnitsBeside, Units
<1>4. ASSUME NEW p \in UnitsBeside(rs, i) PROVE p \in S \cup T
  <2>1. /\ p \in (DOMAIN rs) \X Nat /\ p[1] \in DOMAIN rs /\ p[2] \in Nat
        /\ rs[p[1]].line = i /\ p[1] # i
        /\ p[2] \in 1..rs[p[1]].qty
    BY <1>4 DEF UnitsBeside, Units
  <2>2. CASE p[1] \in DOMAIN rows
    <3>1. p \in (DOMAIN rows) \X Nat
      BY <2>1, <2>2
    <3> QED BY <2>1, <2>2, <3>1 DEF UnitsBeside, Units
  <2>3. CASE p[1] \notin DOMAIN rows
    <3>1. p[1] = q
      BY <2>1, <2>3
    <3> QED BY <2>1, <3>1
  <2> QED BY <2>2, <2>3
<1>5. ASSUME NEW p \in S PROVE p \in UnitsBeside(rs, i)
  <2>1. /\ p \in (DOMAIN rows) \X Nat /\ p[1] \in DOMAIN rows /\ p[2] \in Nat
        /\ rows[p[1]].line = i /\ p[1] # i
        /\ p[2] \in 1..rows[p[1]].qty
    BY <1>5 DEF UnitsBeside, Units
  <2>2. p \in (DOMAIN rs) \X Nat
    BY <2>1
  <2> QED BY <2>1, <2>2 DEF UnitsBeside, Units
<1>6. ASSUME NEW p \in T PROVE p \in UnitsBeside(rs, i)
  <2>1. p[1] = q /\ p[2] \in 1..rs[p[1]].qty /\ p \in (DOMAIN rs) \X Nat
    BY <1>1, <1>6
  <2> HIDE DEF T, n
  <2> QED BY <2>1 DEF UnitsBeside, Units
<1> HIDE DEF S, n
<1>7. UnitsBeside(rs, i) = S \cup T
  BY <1>4, <1>5, <1>6
<1>8. Cardinality(S \cup T) = Cardinality(S) + n
  BY <1>1, <1>2, <1>3, MoreUnits
<1> QED BY <1>7, <1>8 DEF Beside, S, n

-----------------------------------------------------------------------------
(* The portions of a line that the POS leaves alone.                         *)

\* A completion that has read a row of such a line has read the line's own row, and no
\* portion has come or gone beside it that it does not know of.
CountedCall(c) ==
  c.op = "complete" =>
    \A j \in DOMAIN c.read : rows[c.ids[j]].line \notin touched =>
      LET i == rows[c.ids[j]].line
      IN  /\ c.ids[j] = i
          /\ c.read[j].qty + Beside(rows, i) >= Ordered[i].qty
          /\ serial => c.read[j].qty = rows[i].qty

\* The rows split off a line are served and none is refunded.
CountedLine(i) ==
  /\ \A r \in DOMAIN rows : rows[r].line = i => /\ rows[r].refund = FALSE
                                                /\ r # i => rows[r].dish = "made"
  /\ rows[i].qty + Beside(rows, i) >= Ordered[i].qty
  /\ serial => rows[i].qty + Beside(rows, i) = Ordered[i].qty

OwnRows == \A i \in Lines : i \in DOMAIN rows /\ rows[i].line = i

CountInv ==
  /\ OwnRows
  /\ \A i \in Lines \ touched : CountedLine(i)
  /\ \A t \in Tablets : call[t] # NoCall => CountedCall(call[t])

\* A line is ordered in a number of portions.
LEMMA OrderedQty ==
  ASSUME NEW i \in Lines
  PROVE  Ordered[i].qty \in Nat
<1> DEFINE R == [table : {Ordered[j].table : j \in DOMAIN Ordered},
                 delivery : BOOLEAN, qty : Nat \ {0}]
<1>1. Ordered \in Seq(R)
  BY SteamerAssumption
<1>2. Ordered[i] \in R
  <2> HIDE DEF R
  <2> QED BY <1>1, ElementOfSeq, LenProperties DEF Lines
<1> QED BY <1>2

\* At the start each line has its own row and nothing beside it.
LEMMA CountInit == Init => CountInv
<1> SUFFICES ASSUME Init PROVE CountInv
  OBVIOUS
<1>1. /\ DOMAIN rows = Lines
      /\ \A r \in DOMAIN rows : rows[r].line = r /\ rows[r].refund = FALSE
                                /\ rows[r].qty = Ordered[r].qty
  BY DEF Init, Stored
<1>2. ASSUME NEW i \in Lines PROVE CountedLine(i)
  <2>1. UnitsBeside(rows, i) = {}
    BY <1>1 DEF UnitsBeside, Units
  <2>2. Beside(rows, i) = 0
    BY <2>1, FS_EmptySet DEF Beside
  <2>3. Ordered[i].qty \in Nat
    BY OrderedQty
  <2> QED BY <1>1, <2>2, <2>3 DEF CountedLine
<1>3. \A t \in Tablets : call[t] = NoCall
  BY DEF Init
<1> QED BY <1>1, <1>2, <1>3 DEF CountInv, OwnRows

\* A call that reads a row of a line left alone reads the own row of that line.
LEMMA CountQuiet ==
  ASSUME TypeInv, CountInv, NEW t \in Tablets, Quiet(t)
  PROVE  CountInv'
<1>0. /\ TypeInv' /\ UNCHANGED <<rows, serial, touched>>
      /\ OwnRows /\ \A i \in Lines \ touched : CountedLine(i)
      /\ \A u \in Tablets : call[u] # NoCall => CountedCall(call[u])
  <2>1. Tablet(t)
    BY DEF Quiet, Tablet
  <2> QED BY <2>1, TabletType, QuietSteps DEF CountInv
<1>1. /\ \A u \in Tablets \ {t} : call'[u] = call[u]
      /\ call'[t] # NoCall => Became(call[t], call'[t])
  BY QuietCalls
<1>2. OwnRows' /\ \A i \in Lines \ touched' : CountedLine(i)'
  BY <1>0 DEF OwnRows, CountedLine, Beside, UnitsBeside, Units
<1>3. ASSUME NEW u \in Tablets \ {t}, call'[u] # NoCall PROVE CountedCall(call[u])'
  <2>1. CountedCall(call[u]) /\ call'[u] = call[u]
    BY <1>0, <1>1, <1>3
  <2>2. rows' = rows /\ touched' = touched /\ serial' = serial
    BY <1>0
  <2> QED BY <2>1, <2>2 DEF CountedCall
<1>4. ASSUME call'[t] # NoCall PROVE CountedCall(call[t])'
  <2> DEFINE c == call[t]
             d == call'[t]
  <2>1. Became(c, d)
    BY <1>1, <1>4
  <2>2. d \in Call /\ DOMAIN d.read = 1..Len(d.read) /\ Len(d.read) \in Nat
    BY <1>0, <1>4, CallShape DEF TypeInv, CallsIn
  <2>3. c # NoCall => /\ CountedCall(c) /\ CallIn(c, DOMAIN rows)
                      /\ DOMAIN c.read = 1..Len(c.read) /\ Len(c.read) \in Nat
    BY <1>0, CallShape DEF TypeInv, CallsIn
  <2>4. CountedCall(d)
    <3> HIDE DEF c, d
    <3> SUFFICES ASSUME d.op = "complete", NEW j \in DOMAIN d.read,
                        rows[d.ids[j]].line \notin touched
                 PROVE  LET i == rows[d.ids[j]].line
                        IN  /\ d.ids[j] = i
                            /\ d.read[j].qty + Beside(rows, i) >= Ordered[i].qty
                            /\ serial => d.read[j].qty = rows[i].qty
      BY DEF CountedCall
    <3>1. d.read # <<>>
      BY <2>2
    <3>2. c # NoCall /\ c.op = "complete" /\ d.ids = c.ids /\ c.op \notin Floor
      BY <2>1, <3>1 DEF Became, Floor
    <3>3. CASE d.read = c.read
      BY <2>3, <3>2, <3>3 DEF CountedCall
    <3>4. CASE d.read # c.read
      <4> DEFINE n == Len(d.read)
                 r == c.ids[n]
                 i == rows[r].line
      <4>1. /\ n = Len(c.read) + 1 /\ n \in DOMAIN c.ids /\ Fits(c, n, rows[r])
            /\ \A k \in DOMAIN c.read : d.read[k] = c.read[k]
            /\ d.read[n].qty = rows[r].qty
        BY <2>1, <3>1, <3>2, <3>4 DEF Became
      <4>2. rows[r].dish = "waiting"
        BY <3>2, <4>1 DEF Fits, Completable
      <4>3. r \in DOMAIN rows /\ i \in Lines
        BY <2>3, <3>2, <4>1, RowShape, RowFields DEF CallIn, TypeInv
      <4>4. CASE j = n
        <5>1. CountedLine(i)
          BY <1>0, <3>2, <4>3, <4>4
        <5>2. r = i
          BY <4>2, <4>3, <5>1 DEF CountedLine
        <5> HIDE DEF n, i, r
        <5>3. d.read[j].qty = rows[i].qty /\ d.ids[j] = i
          BY <3>2, <4>1, <4>4, <5>2 DEF r
        <5>4. rows[d.ids[j]].line = i
          BY <5>2, <5>3 DEF i
        <5> QED BY <5>1, <5>3, <5>4 DEF CountedLine
      <4>5. CASE j # n
        <5>1. j \in DOMAIN c.read
          <6> HIDE DEF r, i
          <6> QED BY <2>2, <2>3, <3>2, <4>1, <4>5
        <5> QED BY <2>3, <3>2, <4>1, <5>1 DEF CountedCall
      <4> QED BY <4>4, <4>5
    <3> QED BY <3>3, <3>4
  <2> QED BY <1>0, <2>4 DEF CountedCall, Beside, UnitsBeside, Units
<1> QED BY <1>2, <1>3, <1>4 DEF CountInv

\* Portions that stay, or that grow beside a row, are still enough for those who read before.
LEMMA CountsLater ==
  ASSUME TypeInv, TypeInv', CountInv, DOMAIN rows \subseteq DOMAIN rows', touched \subseteq touched',
         UNCHANGED serial,
         \A r \in DOMAIN rows : rows'[r].line = rows[r].line,
         \A i \in Lines \ touched' : Beside(rows', i) >= Beside(rows, i),
         NEW c, CallIn(c, DOMAIN rows), CountedCall(c),
         serial => \A i \in Lines \ touched' : rows'[i].qty = rows[i].qty,
         c.op = "complete",
         NEW j \in DOMAIN c.read, rows'[c.ids[j]].line \notin touched'
  PROVE  LET i == rows'[c.ids[j]].line
         IN  /\ c.ids[j] = i
             /\ c.read[j].qty + Beside(rows', i) >= Ordered[i].qty
             /\ serial => c.read[j].qty = rows'[i].qty
<1> DEFINE i == rows[c.ids[j]].line
<1>1. /\ c.ids[j] \in DOMAIN rows /\ c.read[j].qty \in Nat
  <2>1. c \in Call /\ Len(c.read) <= Len(c.ids)
    BY DEF CallIn
  <2>2. j \in DOMAIN c.ids /\ c.read[j].qty \in Nat
    BY <2>1, CallShape
  <2> QED BY <2>2 DEF CallIn
<1>2. i \in Lines /\ rows'[c.ids[j]].line = i
  BY <1>1, RowShape, RowFields DEF TypeInv
<1>3. /\ c.ids[j] = i /\ c.read[j].qty + Beside(rows, i) >= Ordered[i].qty
      /\ serial => c.read[j].qty = rows[i].qty
  BY <1>2 DEF CountedCall
<1>4. Beside(rows, i) \in Nat /\ Beside(rows', i) \in Nat
  BY UnitsFinite DEF TypeInv
<1>5. Ordered[i].qty \in Nat
  BY <1>2, OrderedQty
<1>6. Beside(rows', i) >= Beside(rows, i) /\ (serial => rows'[i].qty = rows[i].qty)
  BY <1>2
<1> HIDE DEF i
<1>7. c.read[j].qty + Beside(rows', i) >= Ordered[i].qty
  BY <1>1, <1>3, <1>4, <1>5, <1>6
<1> QED BY <1>2, <1>3, <1>6, <1>7

\* Where the rows of the lines the POS leaves alone keep their portions, all stays as it was.
LEMMA CountSame ==
  ASSUME TypeInv, TypeInv', CountInv, UNCHANGED serial, touched \subseteq touched',
         DOMAIN rows' = DOMAIN rows,
         \A r \in DOMAIN rows : rows'[r].line = rows[r].line,
         \A r \in DOMAIN rows : rows[r].line \notin touched' => SamePortions(rows[r], rows'[r]),
         \A u \in Tablets : call'[u] # NoCall => call'[u] = call[u]
  PROVE  CountInv'
<1>1. OwnRows'
  BY DEF CountInv, OwnRows
<1>2. ASSUME NEW i \in Lines \ touched' PROVE Beside(rows', i) = Beside(rows, i)
  BY SameBeside DEF TypeInv, SamePortions
<1>3. ASSUME NEW i \in Lines \ touched' PROVE CountedLine(i)'
  <2>1. CountedLine(i) /\ i \in DOMAIN rows /\ rows[i].line = i
    BY DEF CountInv, OwnRows
  <2>2. rows'[i].qty = rows[i].qty
    BY <2>1 DEF SamePortions
  <2>3. \A r \in DOMAIN rows' : rows'[r].line = i => /\ rows'[r].refund = FALSE
                                                     /\ r # i => rows'[r].dish = "made"
    BY <2>1 DEF SamePortions, CountedLine
  <2> QED BY <1>2, <2>1, <2>2, <2>3 DEF CountedLine
<1>4. \A i \in Lines \ touched' : rows'[i].qty = rows[i].qty
  BY DEF CountInv, OwnRows, SamePortions
<1>5. \A i \in Lines \ touched' : Beside(rows', i) >= Beside(rows, i)
  BY <1>2, UnitsFinite DEF TypeInv
<1>6. ASSUME NEW u \in Tablets, call'[u] # NoCall PROVE CountedCall(call[u])'
  <2> DEFINE c == call[u]
  <2>1. c # NoCall /\ CountedCall(c) /\ CallIn(c, DOMAIN rows) /\ call'[u] = c
    BY <1>6 DEF CountInv, TypeInv, CallsIn
  <2> HIDE DEF c
  <2>2. ASSUME c.op = "complete", NEW j \in DOMAIN c.read, rows'[c.ids[j]].line \notin touched'
        PROVE  LET i == rows'[c.ids[j]].line
               IN  /\ c.ids[j] = i
                   /\ c.read[j].qty + Beside(rows', i) >= Ordered[i].qty
                   /\ serial => c.read[j].qty = rows'[i].qty
    BY <1>4, <1>5, <2>1, <2>2, CountsLater
  <2> QED BY <2>1, <2>2 DEF CountedCall
<1> QED BY <1>1, <1>3, <1>6 DEF CountInv

\* The scraper changes no portion of a line it has not touched.
LEMMA CountScraper ==
  ASSUME TypeInv, CountInv, Scraper
  PROVE  CountInv'
<1>1. /\ TypeInv' /\ DOMAIN rows' = DOMAIN rows
      /\ UNCHANGED <<call, serial>> /\ touched \subseteq touched'
      /\ \A r \in DOMAIN rows : ScrapedRow(r, rows[r], rows'[r])
  BY ScraperRows
<1>2. \A r \in DOMAIN rows : rows'[r].line = rows[r].line
  BY <1>1 DEF ScrapedRow
<1>3. ASSUME NEW r \in DOMAIN rows, rows[r].line \notin touched'
      PROVE  SamePortions(rows[r], rows'[r])
  <2>1. rows[r].line \in Lines \ touched
    BY <1>1, <1>3, RowShape, RowFields DEF TypeInv
  <2>2. rows[r].refund = FALSE
    BY <2>1 DEF CountInv, CountedLine
  <2>3. rows'[r] = rows[r]
    BY <1>1, <1>2, <1>3, <2>2 DEF ScrapedRow
  <2> QED BY <2>3 DEF SamePortions
<1> QED BY <1>1, <1>2, <1>3, CountSame

\* A completion takes from the row what it puts beside it.
LEMMA CountComplete ==
  ASSUME TypeInv, SoundInv, CountInv, NEW t \in Tablets, Complete(t)
  PROVE  CountInv'
<1> DEFINE c == call[t]
           part == {i \in DOMAIN c.ids : c.read[i].qty # c.portions[i]}
           pick(k) == CHOOSE j \in part : Nth(part, j) = k
           m == Cardinality(part)
<1>1. /\ CallIn(c, DOMAIN rows) /\ c.op = "complete" /\ Len(c.read) = Len(c.ids)
      /\ Distinct(c) /\ m \in Nat
      /\ DOMAIN rows' = 1..(Len(rows) + m)
      /\ \A k \in 1..m : pick(k) \in part /\ Nth(part, pick(k)) = k
      /\ \A r \in DOMAIN rows : rows'[r].line = rows[r].line
                                /\ rows'[r].refund = rows[r].refund
      /\ \A r \in DOMAIN rows \ IdSet(c) : SamePortions(rows[r], rows'[r])
      /\ \A i \in DOMAIN c.ids :
           rows'[c.ids[i]].qty = IF i \in part THEN c.read[i].qty - c.portions[i]
                                               ELSE rows[c.ids[i]].qty
      /\ \A k \in 1..m :
           /\ rows'[Len(rows) + k].line = rows[c.ids[pick(k)]].line
           /\ rows'[Len(rows) + k].refund = FALSE /\ rows'[Len(rows) + k].dish = "made"
           /\ rows'[Len(rows) + k].qty = c.portions[pick(k)]
  BY PortionsDone
<1>2. /\ UNCHANGED <<serial, touched>> /\ TypeInv'
      /\ \A u \in Tablets : call'[u] = IF u = t THEN NoCall ELSE call[u]
  BY CompleteRows, WritingSteps DEF Writes, TypeInv, CallsIn
<1>3. /\ c # NoCall /\ CountedCall(c) /\ OwnRows
      /\ \A i \in Lines \ touched : CountedLine(i)
  BY DEF Complete, AllRead, Idle, CountInv
<1>4. /\ Len(rows) \in Nat /\ DOMAIN rows = 1..Len(rows)
      /\ \A r \in DOMAIN rows : rows[r].line \in Lines /\ rows[r].qty \in Nat
  BY RowShape, RowFields DEF TypeInv
<1>5. /\ c \in Call /\ DOMAIN c.ids = 1..Len(c.ids) /\ Len(c.ids) \in Nat
      /\ DOMAIN c.read = DOMAIN c.ids
      /\ \A j \in DOMAIN c.ids : /\ c.ids[j] \in DOMAIN rows /\ c.read[j].qty \in Nat
                                 /\ c.portions[j] \in Nat /\ c.portions[j] <= c.read[j].qty
                                 /\ c.ids[j] \in IdSet(c)
                                 /\ Position(c.ids, c.ids[j]) = j
      /\ \A r \in IdSet(c) : Position(c.ids, r) \in DOMAIN c.ids
                             /\ c.ids[Position(c.ids, r)] = r
  <2> HIDE DEF c
  <2>1. c \in Call
    BY <1>1 DEF CallIn
  <2>2. /\ Len(c.ids) \in Nat /\ DOMAIN c.ids = 1..Len(c.ids)
        /\ DOMAIN c.read = DOMAIN c.ids
        /\ \A j \in DOMAIN c.read : c.read[j].qty \in Nat
        /\ \A j \in 1..Len(c.portions) : c.portions[j] \in Nat
    BY <1>1, <2>1, CallShape
  <2>3. /\ \A j \in DOMAIN c.ids : c.ids[j] \in IdSet(c) /\ Position(c.ids, c.ids[j]) = j
        /\ \A r \in IdSet(c) : Position(c.ids, r) \in DOMAIN c.ids
                               /\ c.ids[Position(c.ids, r)] = r
    BY <1>1, Positions
  <2> QED BY <1>1, <2>1, <2>2, <2>3 DEF CallIn
<1>6. part \subseteq DOMAIN c.ids
  OBVIOUS
<1>7. /\ \A j \in part : Nth(part, j) \in 1..m
      /\ \A j, k \in part : Nth(part, j) = Nth(part, k) => j = k
  <2>1. part \in SUBSET (1..Len(c.ids))
    BY <1>5
  <2> DEFINE f == [i \in part |-> Nth(part, i)]
  <2> HIDE DEF part, c
  <2>2. /\ \A j \in part : Nth(part, j) \in 1..Cardinality(part)
        /\ f \in Bijection(part, 1..Cardinality(part))
    BY <1>5, <2>1, NthOrders
  <2>3. \A j \in part : f[j] = Nth(part, j)
    OBVIOUS
  <2> HIDE DEF f
  <2>4. \A j, k \in part : f[j] = f[k] => j = k
    BY <2>2 DEF Bijection, Injection, IsInjective
  <2> QED BY <2>2, <2>3, <2>4
<1> HIDE DEF c, part, pick, m
<1>8. DOMAIN rows \subseteq DOMAIN rows'
  BY <1>1, <1>4
<1>9. ASSUME NEW r \in DOMAIN rows' \ DOMAIN rows
      PROVE  \E k \in 1..m : r = Len(rows) + k
  <2>1. r - Len(rows) \in 1..m /\ r = Len(rows) + (r - Len(rows))
    BY <1>1, <1>4
  <2> QED BY <2>1
<1>10. \A k \in 1..m : Len(rows) + k \in DOMAIN rows' \ DOMAIN rows
  BY <1>1, <1>4
\* The rows a completion names that belong to a line nobody touched are that line's own.
<1>11. ASSUME NEW r \in IdSet(c), rows[r].line \notin touched PROVE r = rows[r].line
  BY <1>1, <1>3, <1>5, <1>11 DEF CountedCall
<1>12. ASSUME NEW i \in Lines \ touched, NEW r \in DOMAIN rows, rows[r].line = i, r # i
       PROVE  SamePortions(rows[r], rows'[r])
  BY <1>1, <1>11, <1>12
<1>13. ASSUME NEW i \in Lines \ touched, NEW k \in 1..m, rows'[Len(rows) + k].line = i
       PROVE  /\ c.ids[pick(k)] = i /\ i \in IdSet(c) /\ Position(c.ids, i) = pick(k)
              /\ pick(k) \in part
  <2>1. pick(k) \in DOMAIN c.ids /\ pick(k) \in part
    BY <1>1, <1>6
  <2>2. rows[c.ids[pick(k)]].line = i
    BY <1>1, <1>13
  <2>3. c.ids[pick(k)] = i
    BY <1>5, <1>11, <2>1, <2>2
  <2> QED BY <1>5, <2>1, <2>3
<1>14. ASSUME NEW i \in Lines \ touched
       PROVE  \/ /\ Beside(rows', i) = Beside(rows, i)
                 /\ rows'[i].qty = rows[i].qty
              \/ \E j \in DOMAIN c.ids :
                   /\ c.ids[j] = i
                   /\ Beside(rows', i) = Beside(rows, i) + c.portions[j]
                   /\ rows'[i].qty = c.read[j].qty - c.portions[j]
  <2>1. i \in DOMAIN rows /\ rows[i].line = i
    BY <1>3 DEF OwnRows
  <2>2. /\ rows \in Seq(Row) /\ rows' \in Seq(Row)
        /\ \A r \in DOMAIN rows : rows'[r].line = rows[r].line
        /\ \A r \in DOMAIN rows : rows[r].line = i /\ r # i => rows'[r].qty = rows[r].qty
    BY <1>1, <1>2, <1>12 DEF TypeInv, SamePortions
  <2>3. CASE i \notin IdSet(c) \/ Position(c.ids, i) \notin part
    <3>1. \A r \in DOMAIN rows' \ DOMAIN rows : rows'[r].line # i
      BY <1>9, <1>13, <2>3
    <3>2. Beside(rows', i) = Beside(rows, i)
      BY <1>8, <2>2, <3>1, SameBeside
    <3>3. rows'[i].qty = rows[i].qty
      <4>1. CASE i \notin IdSet(c)
        BY <1>1, <2>1, <4>1 DEF SamePortions
      <4>2. CASE i \in IdSet(c) /\ Position(c.ids, i) \notin part
        BY <1>1, <1>5, <4>2
      <4> QED BY <2>3, <4>1, <4>2
    <3> QED BY <3>2, <3>3
  <2>4. CASE i \in IdSet(c) /\ Position(c.ids, i) \in part
    <3> DEFINE j == Position(c.ids, i)
               k == Nth(part, j)
               q == Len(rows) + k
    <3>1. j \in part /\ j \in DOMAIN c.ids /\ c.ids[j] = i
      BY <1>5, <2>4
    <3>2. k \in 1..m
      BY <1>7, <3>1
    <3>3. pick(k) = j
      BY <1>1, <1>7, <3>1, <3>2
    <3>4. q \in DOMAIN rows' \ DOMAIN rows /\ q # i
      BY <1>10, <2>1, <3>2
    <3>5. rows'[q].line = i /\ rows'[q].qty = c.portions[j]
      BY <1>1, <2>1, <3>1, <3>2, <3>3
    <3>6. ASSUME NEW r \in DOMAIN rows' \ DOMAIN rows, rows'[r].line = i PROVE r = q
      <4>1. PICK l \in 1..m : r = Len(rows) + l
        BY <1>9, <3>6
      <4>2. pick(l) = j
        BY <1>13, <3>6, <4>1
      <4>3. l = k
        BY <1>1, <4>1, <4>2
      <4> QED BY <4>1, <4>3
    <3> HIDE DEF q
    <3>7. Beside(rows', i) = Beside(rows, i) + rows'[q].qty
      BY <1>8, <2>2, <3>4, <3>5, <3>6, MoreBeside
    <3>8. rows'[i].qty = c.read[j].qty - c.portions[j]
      BY <1>1, <3>1
    <3> QED BY <3>1, <3>5, <3>7, <3>8
  <2> QED BY <2>3, <2>4
<1>15. \A i : Beside(rows, i) \in Nat /\ Beside(rows', i) \in Nat
  BY <1>2, UnitsFinite DEF TypeInv
<1>16. ASSUME NEW i \in Lines \ touched PROVE CountedLine(i)'
  <2>1. CountedLine(i) /\ i \in DOMAIN rows /\ rows[i].line = i
    BY <1>3 DEF OwnRows
  <2>2. ASSUME NEW r \in DOMAIN rows', rows'[r].line = i
        PROVE  rows'[r].refund = FALSE /\ (r # i => rows'[r].dish = "made")
    <3>1. CASE r \in DOMAIN rows
      <4>1. rows[r].line = i /\ rows'[r].refund = FALSE
        BY <1>1, <2>1, <2>2, <3>1 DEF CountedLine
      <4>2. r # i => rows'[r].dish = "made"
        BY <1>12, <2>1, <3>1, <4>1 DEF CountedLine, SamePortions
      <4> QED BY <4>1, <4>2
    <3>2. CASE r \notin DOMAIN rows
      <4>1. PICK k \in 1..m : r = Len(rows) + k
        BY <1>9, <3>2
      <4> QED BY <1>1, <4>1
    <3> QED BY <3>1, <3>2
  <2>3. Ordered[i].qty \in Nat /\ rows[i].qty \in Nat
    BY <1>4, <2>1, OrderedQty
  <2>4. /\ rows'[i].qty + Beside(rows', i) >= Ordered[i].qty
        /\ serial => rows'[i].qty + Beside(rows', i) = Ordered[i].qty
    <3>1. CASE Beside(rows', i) = Beside(rows, i) /\ rows'[i].qty = rows[i].qty
      BY <2>1, <3>1 DEF CountedLine
    <3>2. ASSUME NEW j \in DOMAIN c.ids, c.ids[j] = i,
                 Beside(rows', i) = Beside(rows, i) + c.portions[j],
                 rows'[i].qty = c.read[j].qty - c.portions[j]
          PROVE  /\ rows'[i].qty + Beside(rows', i) >= Ordered[i].qty
                 /\ serial => rows'[i].qty + Beside(rows', i) = Ordered[i].qty
      <4>1. /\ c.read[j].qty + Beside(rows, i) >= Ordered[i].qty
            /\ serial => c.read[j].qty = rows[i].qty
        BY <1>1, <1>3, <1>5, <2>1, <3>2 DEF CountedCall
      <4>2. serial => rows[i].qty + Beside(rows, i) = Ordered[i].qty
        BY <2>1 DEF CountedLine
      <4>3. /\ c.read[j].qty \in Nat /\ c.portions[j] \in Nat /\ Beside(rows, i) \in Nat
        BY <1>5, <1>15
      <4>4. rows'[i].qty + Beside(rows', i) = c.read[j].qty + Beside(rows, i)
        BY <3>2, <4>3
      <4> QED BY <4>1, <4>2, <4>4
    <3> QED BY <1>14, <3>1, <3>2
  <2> QED BY <1>2, <2>2, <2>4 DEF CountedLine
<1>17. OwnRows'
  BY <1>1, <1>3, <1>8 DEF OwnRows
<1>18. \A i \in Lines \ touched : Beside(rows', i) >= Beside(rows, i)
  <2> SUFFICES ASSUME NEW i \in Lines \ touched PROVE Beside(rows', i) >= Beside(rows, i)
    OBVIOUS
  <2>1. Beside(rows, i) \in Nat /\ \A j \in DOMAIN c.ids : c.portions[j] \in Nat
    BY <1>5, <1>15
  <2>2. \/ Beside(rows', i) = Beside(rows, i)
        \/ \E j \in DOMAIN c.ids : Beside(rows', i) = Beside(rows, i) + c.portions[j]
    BY <1>14
  <2> QED BY <2>1, <2>2
<1>19. ASSUME NEW u \in Tablets, call'[u] # NoCall PROVE CountedCall(call[u])'
  <2>1. u # t /\ call'[u] = call[u] /\ call[u] # NoCall
    BY <1>2, <1>19
  <2>2. ~serial
    BY <1>3, <2>1 DEF SoundInv, Alone, c
  <2> DEFINE d == call[u]
  <2>3. CountedCall(d) /\ CallIn(d, DOMAIN rows) /\ call'[u] = d
    BY <2>1 DEF CountInv, TypeInv, CallsIn
  <2> HIDE DEF d
  <2>4. ASSUME d.op = "complete", NEW j \in DOMAIN d.read, rows'[d.ids[j]].line \notin touched'
        PROVE  LET i == rows'[d.ids[j]].line
               IN  /\ d.ids[j] = i
                   /\ d.read[j].qty + Beside(rows', i) >= Ordered[i].qty
                   /\ serial => d.read[j].qty = rows'[i].qty
    BY <1>1, <1>2, <1>8, <1>18, <2>2, <2>3, <2>4, CountsLater
  <2> QED BY <1>2, <2>3, <2>4 DEF CountedCall
<1> QED BY <1>2, <1>16, <1>17, <1>19 DEF CountInv

\* The invariant is inductive.
LEMMA CountStep ==
  ASSUME TypeInv, SoundInv, CountInv, [Next]_vars
  PROVE  CountInv'
<1>1. CASE UNCHANGED vars
  <2>1. rows' = rows /\ call' = call /\ serial' = serial /\ touched' = touched
    BY <1>1 DEF vars
  <2>2. \A u \in Tablets : CountedCall(call[u]) => CountedCall(call[u])'
    BY <2>1 DEF CountedCall
  <2> QED BY <2>1, <2>2 DEF CountInv, OwnRows, CountedLine
<1>2. ASSUME NEW t \in Tablets, Writes(t), ~Complete(t) PROVE CountInv'
  <2>1. /\ UNCHANGED <<serial, touched>>
        /\ \A u \in Tablets : call'[u] = IF u = t THEN NoCall ELSE call[u]
    BY <1>2, WritingSteps DEF TypeInv, CallsIn
  <2>2. /\ DOMAIN rows' = DOMAIN rows
        /\ \A r \in DOMAIN rows : SamePortions(rows[r], rows'[r])
    BY <1>2, PortionsStay
  <2>3. TypeInv'
    <3>1. Tablet(t)
      BY <1>2 DEF Writes, Tablet
    <3> QED BY <3>1, TabletType
  <2>4. \A r \in DOMAIN rows : rows'[r].line = rows[r].line
    BY <2>2 DEF SamePortions
  <2> QED BY <2>1, <2>2, <2>3, <2>4, CountSame
<1> QED BY <1>1, <1>2, CountQuiet, CountComplete, CountScraper, TwoKinds DEF Next

\* Of a line that the POS never cancels no portion is lost, however many tablets complete parts
\* of it at once, and none is added when they do it one after the other (orders_repo.py:
\* apply_cooking_completion).
THEOREM PortionsCorrect == Spec => []PortionsAddUp
<1>1. TypeInv /\ [Next]_vars => TypeInv'
  BY TypeStep
<1>2. TypeInv /\ SoundInv /\ [Next]_vars => SoundInv'
  BY SoundStep
<1>3. TypeInv /\ SoundInv /\ CountInv /\ [Next]_vars => CountInv'
  BY CountStep
<1>4. TypeInv /\ CountInv => PortionsAddUp
  <2> SUFFICES ASSUME TypeInv, CountInv, NEW i \in Lines \ touched
               PROVE  /\ PortionsOf(i) >= Ordered[i].qty
                      /\ serial => PortionsOf(i) = Ordered[i].qty
    BY DEF PortionsAddUp
  <2>1. CountedLine(i) /\ i \in DOMAIN rows /\ rows[i].line = i
    BY DEF CountInv, OwnRows
  <2>2. PortionsOf(i) = Beside(rows, i) + rows[i].qty
    BY <2>1, PortionsCounted DEF TypeInv
  <2>3. Beside(rows, i) \in Nat /\ rows[i].qty \in Nat
    BY <2>1, UnitsFinite, RowShape, RowFields DEF TypeInv
  <2> QED BY <2>1, <2>2, <2>3 DEF CountedLine
<1> QED BY TypeInit, SoundInit, CountInit, <1>1, <1>2, <1>3, <1>4, PTL DEF Spec
=============================================================================
