-------------------------- MODULE TableChangesProofs --------------------------
(***************************************************************************)
(* Proofs about TableChanges for every menu, price list and bound: type    *)
(* correctness, that the order table never has more rows of a dish than    *)
(* portions of it were ordered, and that rows are cancelled only when the  *)
(* bill really lost portions of the dish.                                  *)
(***************************************************************************)
EXTENDS TableChanges, FiniteSetTheorems, TLAPS

-----------------------------------------------------------------------------
(* The inductive invariant. *)

\* The rows of a dish that the round is going to store.
Fresh(d)   == {i \in toSave : i.dish = d}
NewRows(d) == Cardinality(Fresh(d))

\* What the next comparison of a dish starts from: the old snapshot, or the new one
\* as soon as the round has entered the dish there.
ToDo(d) == pc = "compare" /\ d \in todo
Done(d) == pc = "save" \/ (pc = "compare" /\ d \notin todo)
Base(d) == IF Done(d) THEN next[d] ELSE IF known = Unseen THEN 0 ELSE snap[d]

RoundShape ==
  /\ bill = 0 => want = None
  /\ pc = "compare" /\ cur.bill = 0 => cur.dishes = None
  /\ pc \in {"list", "detail"} => toSave = {}
  /\ \A d \in Dishes : /\ want[d] <= peak[d]
                       /\ IsFiniteSet(Fresh(d))
                       /\ ToDo(d) => Fresh(d) = {}

\* Rows beyond the snapshot belong to portions that have left the bill.
RowsFit ==
  ~torn => \A d \in Dishes :
    /\ open[d] + NewRows(d) <= peak[d]
    /\ open[d] + NewRows(d) - Base(d) <= peak[d] - want[d]
    /\ ToDo(d) => open[d] - Base(d) <= peak[d] - cur.dishes[d]

\* A dish that has lost nothing has at least what snapshot and answer say.
LossesSeen ==
  ~torn => \A d \in Dishes \ lost :
    /\ want[d] >= snap[d]
    /\ pc = "compare" => want[d] >= cur.dishes[d]
    /\ Done(d) => want[d] >= next[d]

\* Every miss of such a dish, counted or about to be, was an incomplete answer.
MissesPaid ==
  ~torn => \A d \in Dishes \ lost :
    /\ ~ToDo(d) => misses[d].count <= glitches
    /\ ToDo(d) /\ cur.dishes[d] < snap[d] => misses[d].count + 1 <= glitches

IInv == TypeOK /\ RoundShape /\ RowsFit /\ LossesSeen /\ MissesPaid

Misses == [Dishes -> [count : 0..Threshold, base : Amounts]]

-----------------------------------------------------------------------------
(* Numbers. *)

LEMMA AmountType ==
  /\ Amounts \subseteq Nat /\ Unseen \notin Amounts
  /\ None \in Portions /\ AmountOf[None] = 0 /\ 0 \in Amounts
  /\ \A w \in Portions : AmountOf[w] \in Amounts
<1>1. None \in Portions
    BY TableAssumption DEF None, Portions, Quantity
<1> QED BY <1>1, TableAssumption DEF Amounts, Unseen

LEMMA Numbers ==
  ASSUME TypeOK, NEW d \in Dishes
  PROVE  /\ want[d] \in Nat /\ snap[d] \in Nat /\ next[d] \in Nat /\ cur.dishes[d] \in Nat
         /\ want[d] <= MaxQuantity /\ snap[d] <= MaxQuantity /\ cur.dishes[d] <= MaxQuantity
         /\ open[d] \in Nat /\ gone[d] \in Nat /\ peak[d] \in Nat
         /\ misses[d].count \in Nat /\ misses[d].count <= Threshold /\ misses[d].base \in Amounts
         /\ glitches \in Nat /\ glitches <= MaxGlitches
         /\ MaxQuantity \in Nat /\ Threshold \in Nat
<1>1. MaxQuantity \in Nat /\ MaxGlitches \in Nat /\ Threshold \in Nat
    BY TableAssumption DEF Threshold
<1>2. want[d] \in 0..MaxQuantity /\ snap[d] \in 0..MaxQuantity /\ next[d] \in 0..MaxQuantity
      /\ cur.dishes[d] \in 0..MaxQuantity
    BY DEF TypeOK, Portions, Quantity
<1>3. misses[d].count \in 0..Threshold /\ misses[d].base \in Amounts
    BY DEF TypeOK
<1> QED BY <1>1, <1>2, <1>3 DEF TypeOK

LEMMA IdsCount ==
  ASSUME NEW b, NEW d, NEW m \in Nat, NEW n \in Nat
  PROVE  /\ IsFiniteSet(Ids(b, d, m + 1, m + n)) /\ Cardinality(Ids(b, d, m + 1, m + n)) <= n
         /\ Cardinality(Ids(b, d, m + 1, m + n)) \in Nat
<1> DEFINE S == (m + 1)..(m + n)
           f == [k \in S |-> [bill |-> b, dish |-> d, seq |-> k]]
<1>1. IsFiniteSet(S) /\ Cardinality(S) = n
    BY FS_Interval
<1>2. f \in Surjection(S, Ids(b, d, m + 1, m + n))
    BY DEF Surjection, Ids
<1> QED BY <1>1, <1>2, FS_Surjection, FS_CardinalityType

LEMMA NoneFresh ==
  ASSUME NEW d, Fresh(d) = {}
  PROVE  IsFiniteSet(Fresh(d)) /\ NewRows(d) = 0
BY FS_EmptySet DEF NewRows

-----------------------------------------------------------------------------

LEMMA InitIInv == Init => IInv
<1> SUFFICES ASSUME Init PROVE IInv
    OBVIOUS
<1>1. TypeOK
  <2>1. misses \in Misses /\ whole \in [Dishes -> Amounts] /\ cur.bill = 0 /\ cur.dishes = None
      BY AmountType DEF Init, NoMiss, Misses, Threshold, NoAnswer, None
  <2>2. open \in [Dishes -> Nat] /\ gone \in [Dishes -> Nat] /\ peak \in [Dishes -> Nat]
      BY DEF Init, None
  <2>3. amount \in Amounts /\ cur \in [bill : 0..MaxBills, dishes : Portions]
      BY AmountType, TableAssumption DEF Init, NoAnswer
  <2>4. want \in Portions /\ snap \in Portions /\ next \in Portions
      BY AmountType DEF Init
  <2>5. file \in [known : Amounts \cup {Unseen}, snap : Portions] /\ known \in Amounts \cup {Unseen}
      BY AmountType DEF Init
  <2>6. /\ bill \in 0..MaxBills /\ bills \in 0..MaxBills /\ changes \in 0..MaxChanges
        /\ glitches \in 0..MaxGlitches /\ crashes \in 0..MaxCrashes
      BY TableAssumption DEF Init
  <2>7. /\ pc \in {"list", "detail", "compare", "save", "store"} /\ todo \subseteq Dishes
        /\ toSave \subseteq FlowId /\ stored \subseteq FlowId
        /\ lost \subseteq Dishes /\ torn \in BOOLEAN
      BY DEF Init
  <2> QED BY <2>1, <2>2, <2>3, <2>4, <2>5, <2>6, <2>7 DEF TypeOK, Misses
<1>2. \A d \in Dishes : Fresh(d) = {} /\ ~ToDo(d) /\ ~Done(d)
    BY DEF Init, Fresh, ToDo, Done
<1>3. RoundShape
    BY <1>2, NoneFresh DEF Init, RoundShape, None
<1>4. RowsFit /\ LossesSeen
    BY <1>2, NoneFresh DEF Init, RowsFit, LossesSeen, Base, None
<1>5. MissesPaid
    BY <1>2 DEF Init, MissesPaid, NoMiss
<1> QED BY <1>1, <1>3, <1>4, <1>5 DEF IInv

-----------------------------------------------------------------------------
(* The POS changes only what a bill says. *)

LEMMA BillChanged ==
  ASSUME IInv, Changed, TypeOK',
         bill' = 0 => want' = None,
         \A d \in Dishes : /\ want'[d] <= peak'[d] /\ peak[d] <= peak'[d]
                           /\ peak[d] - want[d] <= peak'[d] - want'[d]
                           /\ d \notin lost' => d \notin lost /\ want[d] <= want'[d]
  PROVE  IInv'
<1> USE DEF memory, round, table
<1>1. UNCHANGED <<known, snap, misses, file, pc, amount, cur, todo, next, toSave, stored, open,
                  gone, glitches, torn>>
    BY DEF Changed
<1>2. \A d \in Dishes : /\ Fresh(d)' = Fresh(d) /\ NewRows(d)' = NewRows(d)
                        /\ ToDo(d)' = ToDo(d) /\ Done(d)' = Done(d) /\ Base(d)' = Base(d)
    BY <1>1 DEF Fresh, NewRows, ToDo, Done, Base
<1>3. RoundShape'
    BY <1>1, <1>2 DEF IInv, RoundShape
<1>4. RowsFit'
  <2> SUFFICES ASSUME ~torn, NEW d \in Dishes
               PROVE  /\ open[d] + NewRows(d) <= peak'[d]
                      /\ open[d] + NewRows(d) - Base(d) <= peak'[d] - want'[d]
                      /\ ToDo(d) => open[d] - Base(d) <= peak'[d] - cur.dishes[d]
      BY <1>1, <1>2 DEF RowsFit
  <2>1. /\ open[d] + NewRows(d) <= peak[d]
        /\ open[d] + NewRows(d) - Base(d) <= peak[d] - want[d]
        /\ ToDo(d) => open[d] - Base(d) <= peak[d] - cur.dishes[d]
      BY DEF IInv, RowsFit
  <2>2. NewRows(d) \in Nat /\ Base(d) \in Nat
      BY Numbers, FS_CardinalityType DEF IInv, RoundShape, NewRows, Base
  <2>3. /\ open[d] \in Nat /\ cur.dishes[d] \in Nat /\ peak[d] \in Nat /\ want[d] \in Nat
        /\ peak'[d] \in Nat /\ want'[d] \in Nat
    <3>1. want' \in Portions /\ MaxQuantity \in Nat
        BY TableAssumption DEF TypeOK
    <3>2. want'[d] \in Nat
        BY <3>1 DEF Portions, Quantity
    <3> QED BY <3>2, Numbers DEF IInv, TypeOK
  <2> QED BY <2>1, <2>2, <2>3
<1>5. LossesSeen'
  <2> SUFFICES ASSUME ~torn, NEW d \in Dishes \ lost'
               PROVE  /\ want'[d] >= snap[d]
                      /\ pc = "compare" => want'[d] >= cur.dishes[d]
                      /\ Done(d) => want'[d] >= next[d]
      BY <1>1, <1>2 DEF LossesSeen
  <2>1. d \notin lost /\ want[d] <= want'[d]
      OBVIOUS
  <2>2. want'[d] \in Int
    <3>1. want' \in Portions
        BY DEF TypeOK
    <3> QED BY <3>1, TableAssumption DEF Portions, Quantity
  <2> QED BY <2>1, <2>2, Numbers DEF IInv, LossesSeen
<1>6. MissesPaid'
    BY <1>1, <1>2 DEF IInv, MissesPaid
<1> QED BY <1>3, <1>4, <1>5, <1>6 DEF IInv

-----------------------------------------------------------------------------
(* Types. *)

LEMMA UpdatedPortions ==
  ASSUME NEW w \in Portions, NEW d \in Dishes, NEW n \in Quantity
  PROVE  [w EXCEPT ![d] = n] \in Portions
BY DEF Portions

LEMMA UpdatedCount ==
  ASSUME NEW w \in [Dishes -> Nat], NEW d \in Dishes, NEW n \in Nat
  PROVE  [w EXCEPT ![d] = n] \in [Dishes -> Nat]
OBVIOUS

LEMMA UpdatedMisses ==
  ASSUME TypeOK, NEW d \in Dishes, NEW m \in [count : 0..Threshold, base : Amounts]
  PROVE  [misses EXCEPT ![d] = m] \in Misses
BY DEF TypeOK, Misses

LEMMA NoMissType == NoMiss \in [count : 0..Threshold, base : Amounts]
BY AmountType DEF NoMiss, Threshold

LEMMA ForgottenMisses == [d \in Dishes |-> NoMiss] \in Misses
BY NoMissType DEF Misses

\* The counter of a dish that is missed once more.
LEMMA MissedType ==
  ASSUME TypeOK, NEW d \in Dishes, known # Unseen
  PROVE  /\ Missed(d) \in [count : 0..Threshold, base : Amounts]
         /\ Missed(d).count <= misses[d].count + 1
<1>1. Least(misses[d].count + 1, Threshold) \in 0..Threshold
      /\ Least(misses[d].count + 1, Threshold) <= misses[d].count + 1
    BY Numbers DEF Least
<1>2. (IF misses[d] = NoMiss THEN known ELSE misses[d].base) \in Amounts
    BY Numbers DEF TypeOK
<1> QED BY <1>1, <1>2 DEF Missed

\* The rows of an answer have legal numbers.
LEMMA IdsType ==
  ASSUME NEW d \in Dishes, NEW b \in 0..MaxBills, NEW m \in Nat, NEW n \in Nat,
         b # 0 \/ n = 0, m + n <= 2 * MaxQuantity
  PROVE  Ids(b, d, m + 1, m + n) \subseteq FlowId
<1> SUFFICES ASSUME NEW k \in (m + 1)..(m + n)
             PROVE  [bill |-> b, dish |-> d, seq |-> k] \in FlowId
    BY DEF Ids
<1>1. n # 0 /\ b \in 1..MaxBills
    BY TableAssumption
<1>2. k \in 1..(2 * MaxQuantity)
    BY TableAssumption
<1> QED BY <1>1, <1>2 DEF FlowId

LEMMA RoundOverType ==
  ASSUME RoundOver
  PROVE  /\ pc' = "list" /\ amount' \in Amounts /\ cur' \in [bill : 0..MaxBills, dishes : Portions]
         /\ next' \in Portions /\ todo' = {} /\ toSave' = {}
BY AmountType, TableAssumption DEF RoundOver, NoAnswer

LEMMA CrashBound == MaxCrashes \in Nat /\ MaxChanges \in Nat /\ MaxGlitches \in Nat /\ MaxBills \in Nat
BY TableAssumption

LEMMA GlitchType ==
  ASSUME TypeOK, Glitch \/ UNCHANGED glitches
  PROVE  glitches' \in 0..MaxGlitches /\ glitches <= glitches' /\ glitches \in Nat /\ glitches' \in Nat
BY TableAssumption DEF TypeOK, Glitch

-----------------------------------------------------------------------------
(* The POS. *)

LEMMA ChangedType ==
  ASSUME TypeOK, Changed, want' \in Portions, peak' \in [Dishes -> Nat],
         bill' \in 0..MaxBills, bills' \in 0..MaxBills, lost' \subseteq Dishes
  PROVE  TypeOK'
<1>1. changes' \in 0..MaxChanges
    BY TableAssumption DEF TypeOK, Changed
<1>2. UNCHANGED <<known, snap, misses, file, pc, amount, cur, todo, next, toSave, stored, open,
                  gone, glitches, crashes, whole, torn>>
    BY DEF Changed, memory, round, table
<1> QED BY <1>1, <1>2 DEF TypeOK

LEMMA SeatStep == ASSUME IInv, NEW d \in Dishes, Seat(d) PROVE IInv'
<1>1. want = None /\ want[d] = 0 /\ want \in Portions /\ peak \in [Dishes -> Nat] /\ bill' # 0
  <2>1. bills' \in Nat /\ bills' # 0
      BY TableAssumption DEF IInv, TypeOK, Seat
  <2> QED BY <2>1 DEF Seat, IInv, RoundShape, None, TypeOK
<1>2. TypeOK'
  <2>1. want' \in Portions
    <3>1. 1 \in Quantity
        BY TableAssumption DEF Quantity
    <3> QED BY <1>1, <3>1, UpdatedPortions DEF Seat
  <2>2. peak' \in [Dishes -> Nat]
      BY <1>1 DEF Seat
  <2>3. bills' \in 0..MaxBills
      BY TableAssumption DEF IInv, TypeOK, Seat
  <2> QED BY <2>1, <2>2, <2>3, ChangedType DEF IInv, TypeOK, Seat
<1>3. ASSUME NEW e \in Dishes
      PROVE  /\ want'[e] <= peak'[e] /\ peak[e] <= peak'[e]
             /\ peak[e] - want[e] <= peak'[e] - want'[e]
             /\ e \notin lost' => e \notin lost /\ want[e] <= want'[e]
  <2>1. want[e] \in Nat /\ peak[e] \in Nat /\ want[e] <= peak[e]
      BY Numbers DEF IInv, RoundShape
  <2>2. CASE e = d
    <3>1. want'[e] = want[e] + 1 /\ peak'[e] = peak[e] + 1
        BY <1>1, <2>2 DEF Seat, Portions
    <3> QED BY <2>1, <3>1 DEF Seat
  <2>3. CASE e # d
    <3>1. want'[e] = want[e] /\ peak'[e] = peak[e]
        BY <1>1, <2>3 DEF Seat, Portions
    <3> QED BY <2>1, <3>1 DEF Seat
  <2> QED BY <2>2, <2>3
<1> QED BY <1>1, <1>2, <1>3, BillChanged DEF Seat

LEMMA OrderStep ==
  ASSUME IInv, NEW d \in Dishes, NEW n \in 1..MaxQuantity, Order(d, n) PROVE IInv'
<1>1. want \in Portions /\ peak \in [Dishes -> Nat] /\ bill' # 0 /\ n \in Nat
    BY TableAssumption DEF Order, IInv, TypeOK
<1>2. TypeOK'
  <2>1. want[d] + n \in Quantity
      BY Numbers DEF Order, Quantity, IInv
  <2>2. want' \in Portions
      BY <1>1, <2>1, UpdatedPortions DEF Order
  <2>3. peak' \in [Dishes -> Nat]
      BY <1>1 DEF Order
  <2> QED BY <2>2, <2>3, ChangedType DEF IInv, TypeOK, Order
<1>3. ASSUME NEW e \in Dishes
      PROVE  /\ want'[e] <= peak'[e] /\ peak[e] <= peak'[e]
             /\ peak[e] - want[e] <= peak'[e] - want'[e]
             /\ e \notin lost' => e \notin lost /\ want[e] <= want'[e]
  <2>1. want[e] \in Nat /\ peak[e] \in Nat /\ want[e] <= peak[e]
      BY Numbers DEF IInv, RoundShape
  <2>2. CASE e = d
    <3>1. want'[e] = want[e] + n /\ peak'[e] = peak[e] + n
        BY <1>1, <2>2 DEF Order, Portions
    <3> QED BY <1>1, <2>1, <3>1 DEF Order
  <2>3. CASE e # d
    <3>1. want'[e] = want[e] /\ peak'[e] = peak[e]
        BY <1>1, <2>3 DEF Order, Portions
    <3> QED BY <2>1, <3>1 DEF Order
  <2> QED BY <2>2, <2>3
<1> QED BY <1>1, <1>2, <1>3, BillChanged DEF Order

LEMMA RefundStep == ASSUME IInv, NEW d \in Dishes, Refund(d) PROVE IInv'
<1>1. want \in Portions /\ peak \in [Dishes -> Nat] /\ peak' = peak /\ want[d] > 0 /\ bill' = bill
    BY DEF Refund, IInv, TypeOK
<1>2. TypeOK'
  <2>1. want[d] - 1 \in Quantity
      BY <1>1, Numbers DEF Quantity, IInv
  <2>2. want' \in Portions
      BY <1>1, <2>1, UpdatedPortions DEF Refund
  <2> QED BY <1>1, <2>2, ChangedType DEF IInv, TypeOK, Refund
<1>3. bill' = 0 => want' = None
  <2>1. bill = 0 => want[d] = 0
      BY DEF IInv, RoundShape, None
  <2> QED BY <1>1, <2>1
<1>4. ASSUME NEW e \in Dishes
      PROVE  /\ want'[e] <= peak'[e] /\ peak[e] <= peak'[e]
             /\ peak[e] - want[e] <= peak'[e] - want'[e]
             /\ e \notin lost' => e \notin lost /\ want[e] <= want'[e]
  <2>1. want[e] \in Nat /\ peak[e] \in Nat /\ want[e] <= peak[e]
      BY Numbers DEF IInv, RoundShape
  <2>2. CASE e = d
    <3>1. want'[e] = want[e] - 1 /\ peak'[e] = peak[e]
        BY <1>1, <2>2 DEF Refund, Portions
    <3> QED BY <2>1, <2>2, <3>1 DEF Refund
  <2>3. CASE e # d
    <3>1. want'[e] = want[e] /\ peak'[e] = peak[e]
        BY <1>1, <2>3 DEF Refund, Portions
    <3> QED BY <2>1, <3>1 DEF Refund
  <2> QED BY <2>2, <2>3
<1> QED BY <1>2, <1>3, <1>4, BillChanged DEF Refund

LEMMA SettleStep == ASSUME IInv, Settle PROVE IInv'
<1>1. want' = None /\ peak' = peak /\ None \in Portions /\ peak \in [Dishes -> Nat]
    BY AmountType DEF Settle, IInv, TypeOK
<1>2. TypeOK'
  <2>1. bill' \in 0..MaxBills /\ lost' \subseteq Dishes
      BY CrashBound DEF Settle, IInv, TypeOK
  <2> QED BY <1>1, <2>1, ChangedType DEF IInv, TypeOK, Settle
<1>3. ASSUME NEW e \in Dishes
      PROVE  /\ want'[e] <= peak'[e] /\ peak[e] <= peak'[e]
             /\ peak[e] - want[e] <= peak'[e] - want'[e]
             /\ e \notin lost' => e \notin lost /\ want[e] <= want'[e]
  <2>1. want[e] \in Nat /\ peak[e] \in Nat /\ want[e] <= peak[e]
      BY Numbers DEF IInv, RoundShape
  <2>2. want'[e] = 0 /\ peak'[e] = peak[e]
      BY <1>1 DEF None
  <2>3. e \notin lost' => e \notin lost /\ ~(want[e] > 0)
      BY DEF Settle
  <2> QED BY <2>1, <2>2, <2>3
<1> QED BY <1>1, <1>2, <1>3, BillChanged DEF Settle

-----------------------------------------------------------------------------
(* The answers. *)

LEMMA AnswerType ==
  ASSUME TypeOK, NEW w \in Portions, Answer(w), glitches' \in 0..MaxGlitches,
         UNCHANGED <<pos, memory, file, amount, toSave, table, crashes, whole, torn>>
  PROVE  TypeOK'
<1>1. cur' \in [bill : 0..MaxBills, dishes : Portions]
    BY DEF Answer, TypeOK
<1>2. next' \in Portions /\ todo' \subseteq Dishes /\ lost' \subseteq Dishes /\ pc' = "compare"
    BY AmountType DEF Answer, TypeOK
<1>3. UNCHANGED <<bill, bills, want, changes, peak, known, snap, misses, file, amount, toSave,
                  stored, open, gone, crashes, whole, torn>>
    BY DEF pos, memory, table
<1> QED BY <1>1, <1>2, <1>3 DEF TypeOK

LEMMA Answered ==
  ASSUME IInv, TypeOK', NEW w \in Portions, Answer(w), pc \in {"list", "detail"},
         \A d \in Dishes : w[d] <= want[d] /\ (w[d] < want[d] => glitches' = glitches + 1),
         bill = 0 => w = None, glitches' >= glitches,
         UNCHANGED <<pos, memory, toSave, table, torn>>
  PROVE  IInv'
<1> USE DEF pos, memory, table
<1>1. /\ pc' = "compare" /\ todo' = Dishes /\ cur'.bill = bill /\ cur'.dishes = w
      /\ lost' = lost \ {d \in Dishes : w[d] >= snap[d]}
    BY DEF Answer
<1>2. toSave = {} /\ UNCHANGED <<bill, want, peak, known, snap, misses, toSave, open, torn>>
    BY DEF IInv, RoundShape
<1>3. ASSUME NEW d \in Dishes
      PROVE  /\ Fresh(d)' = {} /\ NewRows(d)' = 0 /\ NewRows(d) = 0 /\ IsFiniteSet(Fresh(d)')
             /\ ToDo(d)' /\ ~ToDo(d) /\ ~Done(d) /\ ~Done(d)' /\ Base(d)' = Base(d)
             /\ Base(d) \in Nat
  <2>1. Fresh(d)' = {} /\ Fresh(d) = {}
      BY <1>2 DEF Fresh
  <2>2. NewRows(d)' = 0 /\ NewRows(d) = 0 /\ IsFiniteSet(Fresh(d)')
      BY <2>1, FS_EmptySet DEF NewRows
  <2>3. ToDo(d)' /\ ~ToDo(d) /\ ~Done(d) /\ ~Done(d)'
      BY <1>1 DEF ToDo, Done
  <2> QED BY <1>2, <2>1, <2>2, <2>3, Numbers DEF Base, IInv
<1>4. \A d \in Dishes : w[d] \in Nat
    BY TableAssumption DEF Portions, Quantity
<1>5. RoundShape'
    BY <1>1, <1>2, <1>3 DEF IInv, RoundShape
<1>6. RowsFit'
  <2> SUFFICES ASSUME ~torn, NEW d \in Dishes
               PROVE  /\ open[d] <= peak[d]
                      /\ open[d] - Base(d) <= peak[d] - want[d]
                      /\ open[d] - Base(d) <= peak[d] - w[d]
      BY <1>1, <1>2, <1>3, Numbers DEF RowsFit, IInv
  <2>1. open[d] + 0 <= peak[d] /\ open[d] + 0 - Base(d) <= peak[d] - want[d]
      BY <1>3 DEF IInv, RowsFit
  <2> QED BY <2>1, <1>3, <1>4, Numbers DEF IInv
<1>7. LossesSeen'
  <2> SUFFICES ASSUME ~torn, NEW d \in Dishes \ lost'
               PROVE  want[d] >= snap[d] /\ want[d] >= w[d]
      BY <1>1, <1>2, <1>3 DEF LossesSeen
  <2>1. CASE w[d] >= snap[d]
      BY <2>1, <1>4, Numbers DEF IInv
  <2>2. CASE d \notin lost
      BY <2>2, <1>4, Numbers DEF IInv, LossesSeen
  <2> QED BY <1>1, <2>1, <2>2
<1>8. MissesPaid'
  <2> SUFFICES ASSUME ~torn, NEW d \in Dishes \ lost', w[d] < snap[d]
               PROVE  misses[d].count + 1 <= glitches'
      BY <1>1, <1>2, <1>3 DEF MissesPaid
  <2>1. d \notin lost
      BY <1>1, <1>4, Numbers DEF IInv
  <2>2. misses[d].count <= glitches /\ want[d] >= snap[d]
      BY <1>3, <2>1 DEF IInv, MissesPaid, LossesSeen
  <2> QED BY <2>2, <1>4, Numbers DEF IInv
<1> QED BY <1>5, <1>6, <1>7, <1>8 DEF IInv

\* Nothing but the place of the round, its amount and the known one.
LEMMA Moved ==
  ASSUME IInv, TypeOK', toSave = {}, toSave' = {}, pc \notin {"compare", "save"},
         pc' \in {"list", "detail"}, glitches' >= glitches,
         \A d \in Dishes : misses'[d].count <= misses[d].count,
         ~torn' => ~torn /\ snap' = snap /\ known' \in {known, Unseen},
         known' # known => known' = Unseen /\ (torn' \/ \A d \in Dishes : want[d] = 0),
         UNCHANGED <<pos, table, lost>>
  PROVE  IInv'
<1> USE DEF pos, table
<1>1. UNCHANGED <<bill, want, peak, toSave, open, lost>>
    OBVIOUS
<1>2. ASSUME NEW d \in Dishes
      PROVE  /\ Fresh(d)' = {} /\ NewRows(d)' = 0 /\ NewRows(d) = 0 /\ IsFiniteSet(Fresh(d)')
             /\ ~ToDo(d)' /\ ~ToDo(d) /\ ~Done(d) /\ ~Done(d)'
  <2>1. Fresh(d)' = {} /\ Fresh(d) = {}
      BY DEF Fresh
  <2>2. NewRows(d)' = 0 /\ NewRows(d) = 0 /\ IsFiniteSet(Fresh(d)')
      BY <2>1, FS_EmptySet DEF NewRows
  <2> QED BY <2>1, <2>2 DEF ToDo, Done
<1>3. RoundShape'
    BY <1>1, <1>2 DEF IInv, RoundShape
<1>4. RowsFit'
  <2> SUFFICES ASSUME ~torn', NEW d \in Dishes
               PROVE  /\ open[d] + 0 <= peak[d]
                      /\ open[d] + 0 - Base(d)' <= peak[d] - want[d]
      BY <1>1, <1>2 DEF RowsFit
  <2>1. /\ open[d] + 0 <= peak[d] /\ open[d] + 0 - Base(d) <= peak[d] - want[d]
        /\ open[d] \in Nat /\ peak[d] \in Nat /\ want[d] \in Nat
      BY <1>2, Numbers DEF IInv, RowsFit
  <2>2. CASE known' = known
    <3>1. Base(d)' = Base(d) /\ Base(d) \in Nat
        BY <1>2, <2>2, Numbers DEF Base, IInv
    <3> QED BY <2>1, <3>1
  <2>3. CASE known' # known
    <3>1. Base(d)' = 0 /\ want[d] = 0
        BY <1>2, <2>3 DEF Base
    <3> QED BY <2>1, <3>1
  <2> QED BY <2>2, <2>3
<1>5. LossesSeen'
    BY <1>1, <1>2 DEF IInv, LossesSeen
<1>6. MissesPaid'
  <2> SUFFICES ASSUME ~torn', NEW d \in Dishes \ lost
               PROVE  misses'[d].count <= glitches'
      BY <1>1, <1>2 DEF MissesPaid
  <2>1. misses[d].count <= glitches
      BY <1>2 DEF IInv, MissesPaid
  <2>2. misses'[d].count \in Nat /\ glitches' \in Nat
    <3>1. misses'[d].count \in 0..Threshold /\ glitches' \in 0..MaxGlitches
        BY DEF TypeOK
    <3> QED BY <3>1, TableAssumption DEF Threshold
  <2> QED BY <2>1, <2>2, Numbers DEF IInv
<1> QED BY <1>3, <1>4, <1>5, <1>6 DEF IInv

LEMMA ListedStep == ASSUME IInv, Listed PROVE IInv'
<1> USE DEF pos, memory, table
<1>1. /\ pc = "list" /\ toSave = {} /\ amount' = AmountOf[want] /\ amount' \in Amounts
      /\ want \in Portions /\ snap \in Portions /\ None \in Portions
    BY AmountType DEF Listed, IInv, RoundShape, TypeOK
<1>2. CASE next' = snap /\ pc' = "save" /\ known = amount' /\ UNCHANGED <<cur, todo, lost>>
  <2>1. TypeOK'
      BY <1>1, <1>2 DEF Listed, IInv, TypeOK
  <2>2. UNCHANGED <<bill, want, peak, known, snap, misses, toSave, open, lost, glitches, torn>>
      BY <1>2 DEF Listed
  <2>3. ASSUME NEW d \in Dishes
        PROVE  /\ Fresh(d)' = Fresh(d) /\ NewRows(d)' = NewRows(d) /\ ~ToDo(d) /\ ~ToDo(d)'
               /\ Base(d)' = Base(d) /\ Done(d)' /\ next'[d] = snap[d]
    <3>1. Fresh(d)' = Fresh(d) /\ NewRows(d)' = NewRows(d)
        BY <2>2 DEF Fresh, NewRows
    <3>2. ~ToDo(d) /\ ~ToDo(d)' /\ ~Done(d) /\ Done(d)'
        BY <1>1, <1>2 DEF ToDo, Done
    <3>3. known # Unseen
        BY <1>1, <1>2, AmountType
    <3> QED BY <1>2, <2>2, <3>1, <3>2, <3>3 DEF Base
  <2>4. RoundShape'
      BY <1>2, <2>2, <2>3 DEF IInv, RoundShape
  <2>5. RowsFit' /\ LossesSeen' /\ MissesPaid'
      BY <1>2, <2>2, <2>3 DEF IInv, RowsFit, LossesSeen, MissesPaid
  <2> QED BY <2>1, <2>4, <2>5 DEF IInv
<1>3. CASE amount' = 0 /\ Answer(None)
  <2>1. want = None
      BY <1>1, <1>3, TableAssumption
  <2>2. TypeOK'
      BY <1>1, <1>3 DEF Listed, Answer, IInv, TypeOK
  <2>3. \A d \in Dishes : None[d] <= want[d] /\ ~(None[d] < want[d])
      BY <2>1 DEF None
  <2>4. UNCHANGED <<pos, memory, toSave, table, torn, glitches>> /\ glitches' >= glitches
      BY GlitchType DEF Listed, IInv
  <2> QED BY <1>1, <1>3, <2>2, <2>3, <2>4, Answered
<1>4. CASE pc' = "detail" /\ UNCHANGED <<cur, todo, next, lost>>
  <2>1. TypeOK'
      BY <1>1, <1>4 DEF Listed, IInv, TypeOK
  <2>2. UNCHANGED <<pos, memory, toSave, table, torn, glitches, lost>> /\ glitches' >= glitches
      BY <1>4, GlitchType DEF Listed, IInv
  <2> QED BY <1>1, <1>4, <2>1, <2>2, Moved, Numbers DEF IInv
<1> QED BY <1>2, <1>3, <1>4 DEF Listed, Suspect

LEMMA NotListedStep == ASSUME IInv, NotListed PROVE IInv'
<1>1. pc = "list" /\ pc' = "list" /\ toSave = {} /\ toSave' = {} /\ want = None
    BY DEF NotListed, IInv, RoundShape, round
<1>2. misses' = [d \in Dishes |-> NoMiss] /\ known' = Unseen /\ snap' = snap
    BY DEF NotListed
<1>3. glitches' \in 0..MaxGlitches /\ glitches' >= glitches
    BY GlitchType DEF NotListed, IInv
<1>4. TypeOK'
  <2>1. file' \in [known : Amounts \cup {Unseen}, snap : Portions]
      BY DEF NotListed, IInv, TypeOK
  <2> QED BY <1>1, <1>2, <1>3, <2>1, ForgottenMisses
          DEF NotListed, IInv, TypeOK, Misses, pos, round, table
<1>5. \A d \in Dishes : misses'[d].count <= misses[d].count /\ want[d] = 0
    BY <1>1, <1>2, Numbers DEF NoMiss, None, IInv
<1> QED BY <1>1, <1>2, <1>3, <1>4, <1>5, Moved DEF NotListed

LEMMA DetailStep == ASSUME IInv, Detail PROVE IInv'
<1>1. want \in Portions
    BY DEF IInv, TypeOK
<1>2. TypeOK'
    BY <1>1, AnswerType, GlitchType DEF Detail, IInv
<1>3. \A d \in Dishes : want[d] <= want[d] /\ ~(want[d] < want[d])
    BY Numbers DEF IInv
<1>4. glitches' >= glitches /\ (bill = 0 => want = None)
    BY GlitchType DEF Detail, IInv, RoundShape
<1> QED BY <1>1, <1>2, <1>3, <1>4, Answered DEF Detail

LEMMA ShortDetailStep == ASSUME IInv, NEW d \in Dishes, ShortDetail(d) PROVE IInv'
<1> DEFINE w == [want EXCEPT ![d] = @ - 1]
<1>1. want \in Portions /\ want[d] > 0 /\ want[d] - 1 \in Quantity
    BY Numbers DEF ShortDetail, IInv, TypeOK, Quantity
<1>2. w \in Portions
    BY <1>1, UpdatedPortions
<1>3. glitches' \in 0..MaxGlitches /\ glitches' >= glitches /\ glitches' = glitches + 1
    BY GlitchType DEF ShortDetail, Glitch, IInv
<1>4. TypeOK'
    BY <1>2, <1>3, AnswerType DEF ShortDetail, IInv
<1>5. ASSUME NEW e \in Dishes PROVE w[e] <= want[e]
  <2>1. CASE e = d
      BY <1>1, <2>1, Numbers DEF IInv, Portions
  <2>2. CASE e # d
      BY <1>1, <2>2, Numbers DEF IInv, Portions
  <2> QED BY <2>1, <2>2
<1>6. bill # 0
    BY <1>1 DEF IInv, RoundShape, None
<1> QED
  <2> HIDE DEF w
  <2>1. Answer(w)
      BY DEF ShortDetail, w
  <2> QED BY <1>2, <1>3, <1>4, <1>5, <1>6, <2>1, Answered DEF ShortDetail

LEMMA NoDetailStep == ASSUME IInv, NoDetail PROVE IInv'
<1>1. pc = "detail" /\ toSave = {} /\ pc' = "list" /\ toSave' = {}
    BY DEF NoDetail, IInv, RoundShape, RoundOver
<1>2. glitches' \in 0..MaxGlitches /\ glitches' >= glitches
    BY GlitchType DEF NoDetail, IInv
<1>3. TypeOK'
    BY <1>2, RoundOverType DEF NoDetail, IInv, TypeOK, pos, memory, table
<1> QED BY <1>1, <1>2, <1>3, Moved, Numbers DEF NoDetail, memory, IInv

-----------------------------------------------------------------------------
(* The comparison of one dish. *)

\* What an answer says of the dish that is compared.
LEMMA Comparing ==
  ASSUME IInv, NEW d \in Dishes, Compared(d)
  PROVE  /\ Fresh(d) = {} /\ NewRows(d) = 0 /\ ToDo(d) /\ ~Done(d)
         /\ cur.dishes[d] > 0 => cur.bill # 0
         /\ cur.bill \in 0..MaxBills
<1>1. ToDo(d) /\ ~Done(d) /\ pc = "compare"
    BY DEF Compared, ToDo, Done
<1>2. Fresh(d) = {} /\ NewRows(d) = 0
    BY <1>1, NoneFresh DEF IInv, RoundShape
<1>3. cur.dishes[d] > 0 => cur.bill # 0
    BY <1>1 DEF IInv, RoundShape, None
<1> QED BY <1>1, <1>2, <1>3 DEF IInv, TypeOK

LEMMA ComparedType ==
  ASSUME IInv, NEW d \in Dishes, Compared(d), glitches' \in 0..MaxGlitches,
         misses' \in Misses, next' \in Portions, toSave' \subseteq FlowId, stored' = stored,
         open' \in [Dishes -> Nat], gone' \in [Dishes -> Nat],
         whole' \in [Dishes -> Amounts], torn' \in BOOLEAN
  PROVE  TypeOK'
<1>1. UNCHANGED <<bill, bills, want, changes, peak, known, snap, file, amount, cur, crashes, lost>>
    BY DEF Compared, pos
<1>2. todo' \subseteq Dishes /\ pc' \in {"save", "compare"}
    BY DEF Compared, IInv, TypeOK
<1> QED BY <1>1, <1>2 DEF IInv, TypeOK, Misses

LEMMA WholeType ==
  ASSUME TypeOK, NEW d \in Dishes, Whole(d)
  PROVE  /\ misses' \in Misses /\ next' \in Portions /\ whole' \in [Dishes -> Amounts]
         /\ misses'[d].count = 0 /\ next'[d] = cur.dishes[d]
         /\ \A e \in Dishes \ {d} : misses'[e] = misses[e] /\ next'[e] = next[e]
<1>1. misses' \in Misses /\ misses \in Misses
    BY NoMissType, UpdatedMisses DEF Whole, TypeOK, Misses
<1>2. cur.dishes[d] \in Quantity /\ next \in Portions
    BY DEF TypeOK, Portions
<1>3. next' \in Portions
    BY <1>2, UpdatedPortions DEF Whole
<1>4. whole' \in [Dishes -> Amounts]
    BY DEF Whole, TypeOK
<1>5. misses'[d] = NoMiss /\ \A e \in Dishes \ {d} : misses'[e] = misses[e]
    BY <1>1 DEF Whole, Misses
<1>6. next'[d] = cur.dishes[d] /\ \A e \in Dishes \ {d} : next'[e] = next[e]
    BY <1>2 DEF Whole, Portions
<1> QED BY <1>1, <1>3, <1>4, <1>5, <1>6 DEF NoMiss

\* Rows of a dish that join those to be stored leave the other dishes alone.
LEMMA MoreRows ==
  ASSUME IInv, NEW d \in Dishes, Compared(d), NEW m \in Nat, NEW n \in Nat,
         toSave' = toSave \cup Ids(cur.bill, d, m + 1, m + n),
         n = 0 \/ cur.dishes[d] > 0, m + n <= 2 * MaxQuantity
  PROVE  /\ toSave' \subseteq FlowId
         /\ IsFiniteSet(Fresh(d)') /\ NewRows(d)' \in Nat /\ NewRows(d)' <= n
         /\ \A e \in Dishes \ {d} : Fresh(e)' = Fresh(e)
<1>1. Fresh(d)' = Ids(cur.bill, d, m + 1, m + n)
    BY Comparing DEF Fresh, Ids
<1>2. Ids(cur.bill, d, m + 1, m + n) \subseteq FlowId
    BY Comparing, IdsType
<1>3. \A e \in Dishes \ {d} : Fresh(e)' = Fresh(e)
    BY DEF Fresh, Ids
<1>4. /\ IsFiniteSet(Fresh(d)') /\ Cardinality(Fresh(d)') <= n /\ Cardinality(Fresh(d)') \in Nat
    BY <1>1, IdsCount
<1>5. toSave' \subseteq FlowId
    BY <1>2 DEF IInv, TypeOK
<1>6. NewRows(d)' = Cardinality(Fresh(d)')
    BY DEF NewRows
<1> QED BY <1>3, <1>4, <1>5, <1>6

LEMMA SameRows ==
  ASSUME IInv, NEW d \in Dishes, Compared(d), toSave' = toSave
  PROVE  /\ IsFiniteSet(Fresh(d)') /\ NewRows(d)' = 0
         /\ \A e \in Dishes \ {d} : Fresh(e)' = Fresh(e)
<1>1. \A e \in Dishes : Fresh(e)' = Fresh(e)
    BY DEF Fresh
<1> QED BY <1>1, Comparing, FS_EmptySet DEF NewRows

\* What the comparison of one dish owes the invariant.
LEMMA ComparedStep ==
  ASSUME IInv, TypeOK', NEW d \in Dishes, Compared(d), glitches' >= glitches, torn => torn',
         \A e \in Dishes \ {d} : /\ open'[e] = open[e] /\ next'[e] = next[e]
                                 /\ misses'[e] = misses[e] /\ Fresh(e)' = Fresh(e),
         IsFiniteSet(Fresh(d)'),
         ~torn' => /\ open'[d] + NewRows(d)' <= peak[d]
                   /\ open'[d] + NewRows(d)' - next'[d] <= peak[d] - want[d],
         ~torn' /\ d \notin lost => next'[d] <= want[d] /\ misses'[d].count <= glitches'
  PROVE  IInv'
<1>1. /\ UNCHANGED <<bill, want, peak, known, snap, cur, lost>>
      /\ pc = "compare" /\ d \in todo /\ todo' = todo \ {d}
      /\ pc' \in {"save", "compare"} /\ (pc' = "save" => todo' = {})
    BY DEF Compared, pos
<1>2. ASSUME NEW e \in Dishes \ {d}
      PROVE  /\ ToDo(e)' = ToDo(e) /\ Done(e)' = Done(e) /\ Base(e)' = Base(e)
             /\ Fresh(e)' = Fresh(e) /\ NewRows(e)' = NewRows(e)
             /\ open'[e] = open[e] /\ next'[e] = next[e] /\ misses'[e] = misses[e]
  <2>1. ToDo(e)' = ToDo(e) /\ Done(e)' = Done(e)
      BY <1>1 DEF ToDo, Done
  <2>2. Base(e)' = Base(e)
      BY <1>1, <2>1 DEF Base
  <2>3. NewRows(e)' = NewRows(e)
      BY DEF NewRows
  <2> QED BY <2>1, <2>2, <2>3
<1>3. ~ToDo(d)' /\ Done(d)' /\ Base(d)' = next'[d]
    BY <1>1 DEF ToDo, Done, Base
<1>4. RoundShape'
  <2>1. ASSUME NEW e \in Dishes
        PROVE  /\ want[e] <= peak[e] /\ IsFiniteSet(Fresh(e)')
               /\ (ToDo(e)' => Fresh(e)' = {})
    <3>1. CASE e = d
        BY <1>3, <3>1 DEF IInv, RoundShape
    <3>2. CASE e # d
        BY <1>2, <3>2 DEF IInv, RoundShape
    <3> QED BY <3>1, <3>2
  <2> QED BY <1>1, <2>1 DEF IInv, RoundShape
<1>5. RowsFit'
  <2> SUFFICES ASSUME ~torn', NEW e \in Dishes
               PROVE  /\ open'[e] + NewRows(e)' <= peak[e]
                      /\ open'[e] + NewRows(e)' - Base(e)' <= peak[e] - want[e]
                      /\ ToDo(e)' => open'[e] - Base(e)' <= peak[e] - cur.dishes[e]
      BY <1>1 DEF RowsFit
  <2>1. CASE e = d
      BY <1>3, <2>1
  <2>2. CASE e # d
      BY <1>2, <2>2 DEF IInv, RowsFit
  <2> QED BY <2>1, <2>2
<1>6. LossesSeen'
  <2> SUFFICES ASSUME ~torn', NEW e \in Dishes \ lost
               PROVE  /\ want[e] >= snap[e] /\ want[e] >= cur.dishes[e]
                      /\ (Done(e)' => want[e] >= next'[e])
      BY <1>1 DEF LossesSeen
  <2>1. want[e] >= snap[e] /\ want[e] >= cur.dishes[e] /\ (Done(e) => want[e] >= next[e])
      BY <1>1 DEF IInv, LossesSeen
  <2>2. CASE e = d
    <3>1. next'[d] <= want[d]
        BY <2>2
    <3>2. next'[d] \in Nat /\ want[d] \in Nat
        BY Numbers, TableAssumption DEF IInv, TypeOK, Portions, Quantity
    <3> QED BY <2>1, <2>2, <3>1, <3>2
  <2>3. CASE e # d
      BY <1>2, <2>1, <2>3
  <2> QED BY <2>2, <2>3
<1>7. MissesPaid'
  <2> SUFFICES ASSUME ~torn', NEW e \in Dishes \ lost
               PROVE  /\ (~ToDo(e)' => misses'[e].count <= glitches')
                      /\ (ToDo(e)' /\ cur.dishes[e] < snap[e] => misses'[e].count + 1 <= glitches')
      BY <1>1 DEF MissesPaid
  <2>1. CASE e = d
      BY <1>3, <2>1
  <2>2. CASE e # d
    <3>1. /\ (~ToDo(e) => misses[e].count <= glitches)
          /\ (ToDo(e) /\ cur.dishes[e] < snap[e] => misses[e].count + 1 <= glitches)
        BY DEF IInv, MissesPaid
    <3>2. glitches' \in Nat
        BY CrashBound DEF TypeOK
    <3> QED BY <1>2, <2>2, <3>1, <3>2, Numbers DEF IInv
  <2> QED BY <2>1, <2>2
<1> QED BY <1>4, <1>5, <1>6, <1>7 DEF IInv

\* What the invariant says of the dish before its comparison.
LEMMA BeforeComparison ==
  ASSUME IInv, NEW d \in Dishes, Compared(d)
  PROVE  /\ ~torn => /\ open[d] <= peak[d]
                     /\ open[d] - Base(d) <= peak[d] - want[d]
                     /\ open[d] - Base(d) <= peak[d] - cur.dishes[d]
         /\ ~torn /\ d \notin lost =>
              /\ want[d] >= snap[d] /\ want[d] >= cur.dishes[d]
              /\ cur.dishes[d] < snap[d] => misses[d].count + 1 <= glitches
         /\ Base(d) = IF known = Unseen THEN 0 ELSE snap[d]
         /\ want[d] <= peak[d]
<1>1. NewRows(d) = 0 /\ ToDo(d) /\ ~Done(d) /\ pc = "compare"
    BY Comparing DEF Compared
<1>2. ~torn => open[d] + 0 <= peak[d] /\ open[d] + 0 - Base(d) <= peak[d] - want[d]
                /\ open[d] - Base(d) <= peak[d] - cur.dishes[d]
    BY <1>1 DEF IInv, RowsFit
<1>3. open[d] + 0 = open[d]
    BY Numbers DEF IInv
<1>4. ~torn /\ d \notin lost =>
        /\ want[d] >= snap[d] /\ want[d] >= cur.dishes[d]
        /\ cur.dishes[d] < snap[d] => misses[d].count + 1 <= glitches
  <2>1. ~torn /\ d \notin lost => want[d] >= snap[d] /\ want[d] >= cur.dishes[d]
      BY <1>1 DEF IInv, LossesSeen
  <2>2. ~torn /\ d \notin lost /\ cur.dishes[d] < snap[d] => misses[d].count + 1 <= glitches
      BY <1>1 DEF IInv, MissesPaid
  <2> QED BY <2>1, <2>2
<1>5. Base(d) = IF known = Unseen THEN 0 ELSE snap[d]
    BY <1>1 DEF Base
<1>6. want[d] <= peak[d]
    BY DEF IInv, RoundShape
<1>7. ~torn => /\ open[d] <= peak[d]
               /\ open[d] - Base(d) <= peak[d] - want[d]
               /\ open[d] - Base(d) <= peak[d] - cur.dishes[d]
  <2>1. ~torn => open[d] <= peak[d] /\ open[d] - Base(d) <= peak[d] - cur.dishes[d]
      BY <1>2, <1>3, Numbers DEF IInv
  <2>2. ~torn => open[d] - Base(d) <= peak[d] - want[d]
    <3>1. Base(d) \in Nat
        BY <1>5, Numbers DEF IInv
    <3> QED BY <1>2, <3>1, Numbers DEF IInv
  <2> QED BY <2>1, <2>2
<1> QED BY <1>4, <1>5, <1>6, <1>7, Zenon

LEMMA NewDishStep == ASSUME IInv, NEW d \in Dishes, NewDish(d) PROVE IInv'
<1> USE DEF table
<1>1. Compared(d) /\ Whole(d) /\ known = Unseen /\ UNCHANGED <<stored, open, gone, glitches, torn>>
    BY DEF NewDish
<1>2. toSave' = toSave \cup Ids(cur.bill, d, 0 + 1, 0 + cur.dishes[d])
  <2>1. 0 + 1 = 1 /\ 0 + cur.dishes[d] = cur.dishes[d]
      BY Numbers DEF IInv
  <2> QED BY <2>1 DEF NewDish
<1>3. /\ toSave' \subseteq FlowId
      /\ IsFiniteSet(Fresh(d)') /\ NewRows(d)' \in Nat /\ NewRows(d)' <= cur.dishes[d]
      /\ \A e \in Dishes \ {d} : Fresh(e)' = Fresh(e)
  <2>1. cur.dishes[d] \in Nat /\ 0 + cur.dishes[d] <= 2 * MaxQuantity /\ 0 \in Nat
        /\ (cur.dishes[d] = 0 \/ cur.dishes[d] > 0)
      BY Numbers DEF IInv
  <2> QED BY <1>1, <1>2, <2>1, MoreRows
<1>4. TypeOK'
    BY <1>1, <1>3, WholeType, ComparedType DEF IInv, TypeOK
<1>5. ~torn => /\ open[d] + NewRows(d)' <= peak[d]
               /\ open[d] + NewRows(d)' - cur.dishes[d] <= peak[d] - want[d]
    BY <1>1, <1>3, BeforeComparison, Numbers DEF IInv
<1>6. glitches' >= glitches /\ 0 <= glitches'
    BY <1>1, Numbers DEF IInv
<1>7. ~torn /\ d \notin lost => cur.dishes[d] <= want[d]
    BY <1>1, BeforeComparison, Numbers DEF IInv
<1> QED BY <1>1, <1>3, <1>4, <1>5, <1>6, <1>7, WholeType, ComparedStep DEF IInv

LEMMA MoreOfStep == ASSUME IInv, NEW d \in Dishes, MoreOf(d) PROVE IInv'
<1> DEFINE added == cur.dishes[d] - snap[d]
<1>1. Compared(d) /\ Whole(d) /\ known # Unseen /\ added > 0 /\ UNCHANGED <<stored, torn>>
    BY DEF MoreOf
<1>2. added \in Nat /\ gone[d] \in Nat /\ open[d] \in Nat
    BY <1>1, Numbers DEF IInv
<1>3. PICK restored \in 0..Least(gone[d], added) :
        /\ \/ UNCHANGED glitches
           \/ Glitch
        /\ gone' = [gone EXCEPT ![d] = @ - restored]
        /\ open' = [open EXCEPT ![d] = @ + restored]
        /\ toSave' = toSave \cup NewIds(d, added - restored)
    BY DEF MoreOf
<1>4. restored \in Nat /\ restored <= gone[d] /\ restored <= added /\ added - restored \in Nat
    BY <1>2 DEF Least
<1>5. /\ open' \in [Dishes -> Nat] /\ gone' \in [Dishes -> Nat]
      /\ open'[d] = open[d] + restored
      /\ \A e \in Dishes \ {d} : open'[e] = open[e]
  <2>1. open[d] + restored \in Nat /\ gone[d] - restored \in Nat
      BY <1>2, <1>4
  <2>2. open \in [Dishes -> Nat] /\ gone \in [Dishes -> Nat]
      BY DEF IInv, TypeOK
  <2> QED BY <1>3, <2>1, <2>2
<1>6. /\ toSave' \subseteq FlowId
      /\ IsFiniteSet(Fresh(d)') /\ NewRows(d)' \in Nat /\ NewRows(d)' <= added - restored
      /\ \A e \in Dishes \ {d} : Fresh(e)' = Fresh(e)
  <2>1. cur.dishes[d] > 0 /\ cur.dishes[d] + (added - restored) <= 2 * MaxQuantity
        /\ cur.dishes[d] \in Nat
      BY <1>1, <1>4, Numbers DEF IInv
  <2>2. toSave' = toSave \cup Ids(cur.bill, d, cur.dishes[d] + 1, cur.dishes[d] + (added - restored))
      BY <1>3 DEF NewIds
  <2> HIDE DEF added
  <2> QED BY <1>1, <1>4, <2>1, <2>2, MoreRows
<1>7. glitches' \in 0..MaxGlitches /\ glitches <= glitches' /\ glitches' \in Nat
    BY <1>3, GlitchType DEF IInv
<1>8. TypeOK'
    BY <1>1, <1>5, <1>6, <1>7, WholeType, ComparedType DEF IInv, TypeOK
<1>9. ~torn => /\ open'[d] + NewRows(d)' <= peak[d]
               /\ open'[d] + NewRows(d)' - cur.dishes[d] <= peak[d] - want[d]
  <2>1. Base(d) = snap[d]
      BY <1>1, BeforeComparison
  <2> QED BY <1>1, <1>4, <1>5, <1>6, <2>1, BeforeComparison, Numbers DEF IInv
<1>10. ~torn /\ d \notin lost => cur.dishes[d] <= want[d]
    BY <1>1, BeforeComparison, Numbers DEF IInv
<1> QED BY <1>1, <1>5, <1>6, <1>7, <1>8, <1>9, <1>10, WholeType, ComparedStep, Numbers DEF IInv

LEMMA SameOfStep == ASSUME IInv, NEW d \in Dishes, SameOf(d) PROVE IInv'
<1> USE DEF table
<1>1. /\ Compared(d) /\ Whole(d) /\ known # Unseen /\ cur.dishes[d] = snap[d]
      /\ UNCHANGED <<toSave, stored, open, gone, glitches, torn>>
    BY DEF SameOf
<1>2. TypeOK'
    BY <1>1, WholeType, ComparedType DEF IInv, TypeOK
<1>3. NewRows(d)' = 0 /\ IsFiniteSet(Fresh(d)') /\ \A e \in Dishes \ {d} : Fresh(e)' = Fresh(e)
    BY <1>1, SameRows
<1>4. ~torn => /\ open[d] + NewRows(d)' <= peak[d]
               /\ open[d] + NewRows(d)' - cur.dishes[d] <= peak[d] - want[d]
    BY <1>1, <1>3, BeforeComparison, Numbers DEF IInv
<1>5. ~torn /\ d \notin lost => cur.dishes[d] <= want[d]
    BY <1>1, BeforeComparison, Numbers DEF IInv
<1>6. glitches' >= glitches /\ 0 <= glitches'
    BY <1>1, Numbers DEF IInv
<1> QED BY <1>1, <1>2, <1>3, <1>4, <1>5, <1>6, WholeType, ComparedStep DEF IInv

LEMMA DeferCancelStep == ASSUME IInv, NEW d \in Dishes, DeferCancel(d) PROVE IInv'
<1> USE DEF table
<1>1. /\ Compared(d) /\ known # Unseen /\ cur.dishes[d] < snap[d]
      /\ misses' = [misses EXCEPT ![d] = Missed(d)] /\ next' = [next EXCEPT ![d] = snap[d]]
      /\ UNCHANGED <<toSave, stored, open, gone, glitches, whole, torn>>
    BY DEF DeferCancel
<1>2. /\ misses' \in Misses /\ misses'[d] = Missed(d)
      /\ \A e \in Dishes \ {d} : misses'[e] = misses[e]
      /\ Missed(d).count <= misses[d].count + 1 /\ Missed(d).count \in Nat
  <2>1. Missed(d) \in [count : 0..Threshold, base : Amounts] /\ Missed(d).count <= misses[d].count + 1
      BY <1>1, MissedType DEF IInv
  <2>2. misses \in Misses
      BY DEF IInv, TypeOK, Misses
  <2> QED BY <1>1, <2>1, <2>2 DEF Misses, Threshold
<1>3. next' \in Portions /\ next'[d] = snap[d] /\ \A e \in Dishes \ {d} : next'[e] = next[e]
  <2>1. snap[d] \in Quantity /\ next \in Portions
      BY DEF IInv, TypeOK, Portions
  <2> QED BY <1>1, <2>1 DEF Portions
<1>4. TypeOK'
    BY <1>1, <1>2, <1>3, ComparedType DEF IInv, TypeOK
<1>5. NewRows(d)' = 0 /\ IsFiniteSet(Fresh(d)') /\ \A e \in Dishes \ {d} : Fresh(e)' = Fresh(e)
    BY <1>1, SameRows
<1>6. ~torn => /\ open[d] + NewRows(d)' <= peak[d]
               /\ open[d] + NewRows(d)' - snap[d] <= peak[d] - want[d]
    BY <1>1, <1>5, BeforeComparison, Numbers DEF IInv
<1>7. ~torn /\ d \notin lost => snap[d] <= want[d] /\ Missed(d).count <= glitches'
    BY <1>1, <1>2, BeforeComparison, Numbers DEF IInv
<1>8. glitches' >= glitches
    BY <1>1, Numbers DEF IInv
<1> QED BY <1>1, <1>2, <1>3, <1>4, <1>5, <1>6, <1>7, <1>8, ComparedStep

LEMMA CancelPortionsStep == ASSUME IInv, NEW d \in Dishes, CancelPortions(d) PROVE IInv'
<1> DEFINE portions == Least(snap[d] - cur.dishes[d], open[d])
<1>1. /\ Compared(d) /\ known # Unseen /\ cur.dishes[d] < snap[d]
      /\ misses' = [misses EXCEPT ![d] = NoMiss] /\ next' = [next EXCEPT ![d] = cur.dishes[d]]
      /\ UNCHANGED <<toSave, stored, whole>>
      /\ \/ /\ open' = [open EXCEPT ![d] = @ - portions]
            /\ gone' = [gone EXCEPT ![d] = @ + portions]
            /\ UNCHANGED <<glitches, torn>>
         \/ Glitch /\ torn' = TRUE /\ UNCHANGED <<open, gone>>
    BY DEF CancelPortions
<1>2. /\ misses' \in Misses /\ misses'[d].count = 0
      /\ \A e \in Dishes \ {d} : misses'[e] = misses[e]
  <2>1. misses \in Misses
      BY DEF IInv, TypeOK, Misses
  <2> QED BY <1>1, <2>1, NoMissType DEF Misses, NoMiss
<1>3. next' \in Portions /\ next'[d] = cur.dishes[d] /\ \A e \in Dishes \ {d} : next'[e] = next[e]
  <2>1. cur.dishes[d] \in Quantity /\ next \in Portions
      BY DEF IInv, TypeOK, Portions
  <2> QED BY <1>1, <2>1 DEF Portions
<1>4. NewRows(d)' = 0 /\ IsFiniteSet(Fresh(d)') /\ \A e \in Dishes \ {d} : Fresh(e)' = Fresh(e)
    BY <1>1, SameRows
<1>5. portions \in Nat /\ portions <= open[d] /\ portions <= snap[d] - cur.dishes[d]
      /\ (portions = open[d] \/ portions = snap[d] - cur.dishes[d])
    BY <1>1, Numbers DEF Least, IInv
<1>6. glitches' \in 0..MaxGlitches /\ glitches' >= glitches /\ 0 <= glitches'
    BY <1>1, GlitchType DEF IInv
<1>7. /\ open' \in [Dishes -> Nat] /\ gone' \in [Dishes -> Nat]
      /\ \A e \in Dishes \ {d} : open'[e] = open[e]
      /\ open'[d] = open[d] - portions \/ (open'[d] = open[d] /\ torn')
      /\ torn' \in BOOLEAN /\ (torn => torn')
  <2>1. open \in [Dishes -> Nat] /\ gone \in [Dishes -> Nat] /\ torn \in BOOLEAN
      BY DEF IInv, TypeOK
  <2>2. open[d] - portions \in Nat /\ gone[d] + portions \in Nat
      BY <1>5, Numbers DEF IInv
  <2> HIDE DEF portions
  <2> QED BY <1>1, <2>1, <2>2
<1>8. TypeOK'
    BY <1>1, <1>2, <1>3, <1>6, <1>7, ComparedType DEF IInv, TypeOK
<1>9. ~torn' => /\ open'[d] + NewRows(d)' <= peak[d]
                /\ open'[d] + NewRows(d)' - cur.dishes[d] <= peak[d] - want[d]
  <2> HIDE DEF portions
  <2>1. Base(d) = snap[d]
      BY <1>1, BeforeComparison
  <2> QED BY <1>1, <1>4, <1>5, <1>7, <2>1, BeforeComparison, Numbers DEF IInv
<1>10. ~torn' /\ d \notin lost => cur.dishes[d] <= want[d]
    BY <1>1, <1>7, BeforeComparison, Numbers DEF IInv
<1> QED BY <1>1, <1>2, <1>3, <1>4, <1>6, <1>7, <1>8, <1>9, <1>10, ComparedStep

-----------------------------------------------------------------------------
(* The end of the round, and of the process. *)

LEMMA SaveStateStep == ASSUME IInv, SaveState PROVE IInv'
<1> USE DEF pos, table
<1>1. /\ pc = "save" /\ known' = amount /\ snap' = next
      /\ UNCHANGED <<bill, bills, want, changes, peak, misses, stored, open, gone, crashes, lost,
                    whole, torn>>
    BY DEF SaveState
<1>2. glitches' \in 0..MaxGlitches /\ glitches' >= glitches /\ glitches' \in Nat
    BY GlitchType DEF SaveState, IInv
<1>3. /\ toSave' = toSave /\ pc' \in {"list", "store"} /\ (pc' = "list" => toSave' = {})
      /\ amount' \in Amounts /\ cur' \in [bill : 0..MaxBills, dishes : Portions]
      /\ next' \in Portions /\ todo' \subseteq Dishes
  <2>1. CASE toSave = {}
      BY <2>1, RoundOverType DEF SaveState
  <2>2. CASE toSave # {}
      BY <2>2 DEF SaveState, round, IInv, TypeOK
  <2> QED BY <2>1, <2>2
<1>4. TypeOK'
  <2>1. known' \in Amounts /\ snap' \in Portions
      BY <1>1 DEF IInv, TypeOK
  <2>2. file' \in [known : Amounts \cup {Unseen}, snap : Portions]
      BY <2>1 DEF SaveState, IInv, TypeOK
  <2> QED BY <1>1, <1>2, <1>3, <2>1, <2>2 DEF IInv, TypeOK
<1>5. ASSUME NEW d \in Dishes
      PROVE  /\ Fresh(d)' = Fresh(d) /\ NewRows(d)' = NewRows(d) /\ ~ToDo(d) /\ ~ToDo(d)'
             /\ Done(d) /\ ~Done(d)' /\ Base(d)' = Base(d)
  <2>1. Fresh(d)' = Fresh(d) /\ NewRows(d)' = NewRows(d)
      BY <1>3 DEF Fresh, NewRows
  <2>2. ~ToDo(d) /\ ~ToDo(d)' /\ Done(d) /\ ~Done(d)'
      BY <1>1, <1>3 DEF ToDo, Done
  <2>3. known' # Unseen
      BY <1>1, AmountType DEF IInv, TypeOK
  <2> QED BY <1>1, <2>1, <2>2, <2>3 DEF Base
<1>6. RoundShape'
    BY <1>1, <1>3, <1>5 DEF IInv, RoundShape
<1>7. RowsFit'
    BY <1>1, <1>5 DEF IInv, RowsFit
<1>8. LossesSeen'
    BY <1>1, <1>3, <1>5 DEF IInv, LossesSeen
<1>9. MissesPaid'
  <2> SUFFICES ASSUME ~torn, NEW d \in Dishes \ lost PROVE misses[d].count <= glitches'
      BY <1>1, <1>5 DEF MissesPaid
  <2>1. misses[d].count <= glitches
      BY <1>5 DEF IInv, MissesPaid
  <2> QED BY <1>2, <2>1, Numbers DEF IInv
<1> QED BY <1>4, <1>6, <1>7, <1>8, <1>9 DEF IInv

LEMMA StoreOrdersStep == ASSUME IInv, StoreOrders PROVE IInv'
<1> USE DEF pos, memory
<1> DEFINE Added(d) == {i \in toSave \ stored : i.dish = d}
<1>1. /\ pc = "store" /\ pc' = "list" /\ toSave' = {}
      /\ UNCHANGED <<bill, bills, want, changes, peak, known, snap, misses, file, gone, crashes,
                    lost, whole, torn>>
    BY DEF StoreOrders, RoundOver
<1>2. glitches' \in 0..MaxGlitches /\ glitches' >= glitches /\ glitches' \in Nat
    BY GlitchType DEF StoreOrders, IInv
<1>3. ASSUME NEW d \in Dishes
      PROVE  /\ Cardinality(Added(d)) \in Nat /\ Cardinality(Added(d)) <= NewRows(d)
             /\ NewRows(d) \in Nat
  <2>1. IsFiniteSet(Fresh(d)) /\ Added(d) \subseteq Fresh(d)
      BY DEF IInv, RoundShape, Fresh
  <2> QED BY <2>1, FS_Subset, FS_CardinalityType DEF NewRows
<1>4. /\ open' \in [Dishes -> Nat]
      /\ \A d \in Dishes : open'[d] <= open[d] + NewRows(d)
  <2>1. CASE open' = [d \in Dishes |-> open[d] + Cardinality(Added(d))]
    <3>1. ASSUME NEW d \in Dishes
          PROVE  open[d] + Cardinality(Added(d)) \in Nat
                 /\ open[d] + Cardinality(Added(d)) <= open[d] + NewRows(d)
      <4> HIDE DEF Added
      <4> QED BY <1>3, Numbers DEF IInv
    <3> HIDE DEF Added
    <3> QED BY <2>1, <3>1
  <2>2. CASE open' = open
    <3>1. ASSUME NEW d \in Dishes PROVE open[d] <= open[d] + NewRows(d)
      <4>1. NewRows(d) \in Nat
          BY <1>3
      <4> QED BY <4>1, Numbers DEF IInv
    <3> QED BY <2>2, <3>1 DEF IInv, TypeOK
  <2> QED BY <2>1, <2>2 DEF StoreOrders
<1>5. TypeOK'
  <2>1. stored' \subseteq FlowId
      BY DEF StoreOrders, IInv, TypeOK
  <2>2. RoundOver
      BY DEF StoreOrders
  <2> QED BY <1>1, <1>2, <1>4, <2>1, <2>2, RoundOverType DEF IInv, TypeOK
<1>6. ASSUME NEW d \in Dishes
      PROVE  /\ Fresh(d)' = {} /\ NewRows(d)' = 0 /\ IsFiniteSet(Fresh(d)')
             /\ ~ToDo(d) /\ ~ToDo(d)' /\ ~Done(d) /\ ~Done(d)' /\ Base(d)' = Base(d)
  <2>1. Fresh(d)' = {}
      BY <1>1 DEF Fresh
  <2>2. NewRows(d)' = 0 /\ IsFiniteSet(Fresh(d)')
      BY <2>1, FS_EmptySet DEF NewRows
  <2>3. ~ToDo(d) /\ ~ToDo(d)' /\ ~Done(d) /\ ~Done(d)'
      BY <1>1 DEF ToDo, Done
  <2> QED BY <1>1, <2>1, <2>2, <2>3 DEF Base
<1>7. RoundShape'
    BY <1>1, <1>6 DEF IInv, RoundShape
<1>8. RowsFit'
  <2> SUFFICES ASSUME ~torn, NEW d \in Dishes
               PROVE  /\ open'[d] + 0 <= peak[d]
                      /\ open'[d] + 0 - Base(d) <= peak[d] - want[d]
      BY <1>1, <1>6 DEF RowsFit
  <2>1. /\ open[d] + NewRows(d) <= peak[d]
        /\ open[d] + NewRows(d) - Base(d) <= peak[d] - want[d]
      BY DEF IInv, RowsFit
  <2>2. Base(d) \in Nat /\ open'[d] \in Nat
      BY <1>4, <1>6, Numbers DEF Base, IInv
  <2>3. NewRows(d) \in Nat /\ open'[d] <= open[d] + NewRows(d)
      BY <1>3, <1>4
  <2> QED BY <2>1, <2>2, <2>3, Numbers DEF IInv
<1>9. LossesSeen'
    BY <1>1, <1>6 DEF IInv, LossesSeen
<1>10. MissesPaid'
  <2> SUFFICES ASSUME ~torn, NEW d \in Dishes \ lost PROVE misses[d].count <= glitches'
      BY <1>1, <1>6 DEF MissesPaid
  <2>1. misses[d].count <= glitches
      BY <1>6 DEF IInv, MissesPaid
  <2> QED BY <1>2, <2>1, Numbers DEF IInv
<1> QED BY <1>5, <1>7, <1>8, <1>9, <1>10 DEF IInv

LEMMA CrashStep == ASSUME IInv, Crash PROVE IInv'
<1> USE DEF pos, table
<1>1. /\ pc' = "list" /\ toSave' = {} /\ RoundOver
      /\ UNCHANGED <<bill, bills, want, changes, peak, file, stored, open, gone, glitches, lost, whole>>
      /\ misses' = [d \in Dishes |-> NoMiss]
    BY DEF Crash, RoundOver
<1>2. PICK f \in {file, [known |-> Unseen, snap |-> None]} :
        /\ known' = f.known /\ snap' = f.snap
        /\ torn' = (torn \/ f # [known |-> known, snap |-> snap] \/ pc \in {"compare", "save"})
    BY DEF Crash
<1>3. f.known \in Amounts \cup {Unseen} /\ f.snap \in Portions
    BY AmountType DEF IInv, TypeOK
<1>4. crashes' \in 0..MaxCrashes
    BY CrashBound DEF Crash, IInv, TypeOK
<1>5. TypeOK'
  <2>1. torn' \in BOOLEAN
      BY <1>2
  <2> QED BY <1>1, <1>2, <1>3, <1>4, <2>1, RoundOverType, ForgottenMisses DEF IInv, TypeOK, Misses
<1>6. ~torn' => /\ ~torn /\ pc \notin {"compare", "save"}
                /\ snap' = snap /\ known' = known
  <2> SUFFICES ASSUME ~torn'
               PROVE  ~torn /\ pc \notin {"compare", "save"} /\ snap' = snap /\ known' = known
      BY Zenon
  <2>1. ~torn /\ f = [known |-> known, snap |-> snap] /\ pc \notin {"compare", "save"}
      BY <1>2, Zenon
  <2> QED BY <1>2, <2>1
<1>7. ASSUME NEW d \in Dishes
      PROVE  /\ Fresh(d)' = {} /\ NewRows(d)' = 0 /\ IsFiniteSet(Fresh(d)')
             /\ ~ToDo(d)' /\ ~Done(d)' /\ misses'[d].count = 0
             /\ ~torn' => Base(d)' = Base(d)
  <2>1. Fresh(d)' = {}
      BY <1>1 DEF Fresh
  <2>2. NewRows(d)' = 0 /\ IsFiniteSet(Fresh(d)')
      BY <2>1, FS_EmptySet DEF NewRows
  <2>3. ~ToDo(d)' /\ ~Done(d)' /\ misses'[d].count = 0
      BY <1>1 DEF ToDo, Done, NoMiss
  <2>4. ~torn' => Base(d)' = Base(d)
      BY <1>6, <2>3 DEF Base, Done
  <2> QED BY <2>1, <2>2, <2>3, <2>4
<1>8. RoundShape'
    BY <1>1, <1>7 DEF IInv, RoundShape
<1>9. RowsFit'
  <2> SUFFICES ASSUME ~torn', NEW d \in Dishes
               PROVE  /\ open[d] + 0 <= peak[d]
                      /\ open[d] + 0 - Base(d) <= peak[d] - want[d]
      BY <1>1, <1>7 DEF RowsFit
  <2>1. /\ open[d] + NewRows(d) <= peak[d]
        /\ open[d] + NewRows(d) - Base(d) <= peak[d] - want[d]
      BY <1>6 DEF IInv, RowsFit
  <2>2. NewRows(d) \in Nat
      BY FS_CardinalityType DEF IInv, RoundShape, NewRows
  <2>3. Base(d) \in Nat
      BY Numbers DEF Base, IInv
  <2> QED BY <2>1, <2>2, <2>3, Numbers DEF IInv
<1>10. LossesSeen'
    BY <1>1, <1>6, <1>7 DEF IInv, LossesSeen
<1>11. MissesPaid'
    BY <1>1, <1>7, Numbers DEF IInv, MissesPaid
<1> QED BY <1>5, <1>8, <1>9, <1>10, <1>11 DEF IInv

-----------------------------------------------------------------------------

LEMMA StutterStep == ASSUME IInv, UNCHANGED vars PROVE IInv'
<1>1. UNCHANGED <<bill, bills, want, changes, peak, known, snap, misses, file, pc, amount, cur, todo,
                  next, toSave, stored, open, gone, glitches, crashes, lost, whole, torn>>
    BY DEF vars, pos, memory, round, table
<1>2. TypeOK'
    BY <1>1 DEF IInv, TypeOK
<1>3. \A d \in Dishes : /\ Fresh(d)' = Fresh(d) /\ NewRows(d)' = NewRows(d) /\ ToDo(d)' = ToDo(d)
                        /\ Done(d)' = Done(d) /\ Base(d)' = Base(d)
    BY <1>1 DEF Fresh, NewRows, ToDo, Done, Base
<1>4. RoundShape' /\ RowsFit' /\ LossesSeen' /\ MissesPaid'
    BY <1>1, <1>3 DEF IInv, RoundShape, RowsFit, LossesSeen, MissesPaid
<1> QED BY <1>2, <1>4 DEF IInv

LEMMA NextIInv == IInv /\ [Next]_vars => IInv'
<1> SUFFICES ASSUME IInv, [Next]_vars PROVE IInv'
    OBVIOUS
<1>1. CASE Settle
    BY <1>1, SettleStep
<1>2. CASE Crash
    BY <1>2, CrashStep
<1>3. ASSUME NEW d \in Dishes, Seat(d) \/ Refund(d) \/ \E n \in 1..MaxQuantity : Order(d, n)
      PROVE  IInv'
    BY <1>3, SeatStep, RefundStep, OrderStep
<1>4. CASE Listed \/ NotListed \/ Detail \/ NoDetail
    BY <1>4, ListedStep, NotListedStep, DetailStep, NoDetailStep
<1>5. CASE SaveState \/ StoreOrders
    BY <1>5, SaveStateStep, StoreOrdersStep
<1>6. ASSUME NEW d \in Dishes, ShortDetail(d) \/ NewDish(d) \/ MoreOf(d) \/ SameOf(d)
      PROVE  IInv'
    BY <1>6, ShortDetailStep, NewDishStep, MoreOfStep, SameOfStep
<1>7. ASSUME NEW d \in Dishes, DeferCancel(d) \/ CancelPortions(d)
      PROVE  IInv'
    BY <1>7, DeferCancelStep, CancelPortionsStep
<1>8. CASE UNCHANGED vars
    BY <1>8, StutterStep
<1> QED BY <1>1, <1>2, <1>3, <1>4, <1>5, <1>6, <1>7, <1>8 DEF Next, Round

LEMMA Invariance == Spec => []IInv
<1> QED BY InitIInv, NextIInv, PTL DEF Spec

-----------------------------------------------------------------------------
(* The theorems. *)

\* The variables of the table rounds keep their types: the numbers of the rows stay in
\* their range, no count of rows falls below zero, no dish loses more than it has.
THEOREM TypeCorrect == Spec => []TypeOK
<1>1. IInv => TypeOK
    BY DEF IInv
<1> QED BY <1>1, Invariance, PTL

\* The order table never has more rows of a dish than portions of it were ordered, as
\* long as no crash has torn a round or its snapshot: whatever the answers miss,
\* whatever writes fail and however often the table changes hands.
THEOREM NoPhantomRows == Spec => []NoPhantom
<1>1. ASSUME IInv PROVE NoPhantom
  <2> SUFFICES ASSUME ~torn, NEW d \in Dishes PROVE open[d] <= peak[d]
      BY DEF NoPhantom
  <2>1. open[d] + NewRows(d) <= peak[d]
      BY <1>1 DEF IInv, RowsFit
  <2>2. NewRows(d) \in Nat
      BY <1>1, FS_CardinalityType DEF IInv, RoundShape, NewRows
  <2> QED BY <1>1, <2>1, <2>2, Numbers DEF IInv
<1> QED BY <1>1, Invariance, PTL

\* A row is cancelled only where the dish has been missing three times.
LEMMA CancelNeedsMisses ==
  ASSUME IInv, [Next]_vars, NEW d \in Dishes, gone'[d] > gone[d]
  PROVE  CancelPortions(d)
<1>1. gone \in [Dishes -> Nat] /\ gone[d] \in Nat /\ ~(gone[d] > gone[d])
    BY Numbers DEF IInv, TypeOK
<1>2. gone' # gone
    BY <1>1
<1>3. \/ \E e \in Dishes : MoreOf(e) \/ CancelPortions(e)
    BY <1>2 DEF Next, Round, Settle, Crash, Seat, Refund, Order, Changed, Listed, NotListed, Detail,
       NoDetail, SaveState, StoreOrders, ShortDetail, NewDish, SameOf, DeferCancel, table, vars
<1>4. ASSUME NEW e \in Dishes, MoreOf(e) PROVE FALSE
  <2>1. PICK r \in 0..Least(gone[e], cur.dishes[e] - snap[e]) : gone' = [gone EXCEPT ![e] = @ - r]
      BY <1>4 DEF MoreOf
  <2>2. r \in Nat /\ gone[e] \in Nat
    <3>1. Least(gone[e], cur.dishes[e] - snap[e]) \in Int
        BY Numbers DEF Least, IInv
    <3> QED BY <3>1, Numbers DEF IInv
  <2>3. gone'[d] = IF d = e THEN gone[d] - r ELSE gone[d]
      BY <1>1, <2>1
  <2> QED BY <1>1, <2>2, <2>3
<1>5. ASSUME NEW e \in Dishes, CancelPortions(e), e # d PROVE FALSE
  <2>1. gone'[d] = gone[d]
      BY <1>1, <1>5 DEF CancelPortions
  <2> QED BY <1>1, <2>1
<1> QED BY <1>3, <1>4, <1>5

\* Rows of a dish are cancelled only when the bill has really lost portions of it, as
\* long as answers are incomplete fewer times than the threshold of misses.
THEOREM CancelledIsLost == ASSUME MaxGlitches < Threshold PROVE Spec => CancelIsReal
<1>1. ASSUME IInv, [Next]_vars
      PROVE  [\A d \in Dishes : gone'[d] > gone[d] => d \in lost \/ torn]_vars
  <2> SUFFICES ASSUME NEW d \in Dishes, gone'[d] > gone[d], d \notin lost, ~torn PROVE FALSE
      OBVIOUS
  <2>1. CancelPortions(d) /\ Compared(d) /\ Confirmed(d) /\ cur.dishes[d] < snap[d] /\ known # Unseen
      BY <1>1, CancelNeedsMisses DEF CancelPortions
  <2>2. misses[d].count + 1 <= glitches
      BY <1>1, <2>1, BeforeComparison
  <2>3. Missed(d).count >= Threshold /\ Missed(d).count <= misses[d].count + 1
      BY <1>1, <2>1, MissedType DEF Confirmed, IInv
  <2>4. Missed(d).count \in Nat
    <3>1. Missed(d).count \in 0..Threshold
        BY <1>1, <2>1, MissedType DEF IInv
    <3> QED BY <3>1 DEF Threshold
  <2>5. MaxGlitches \in Nat
      BY CrashBound
  <2> QED BY <1>1, <2>2, <2>3, <2>4, <2>5, Numbers DEF IInv
<1> QED BY <1>1, Invariance, PTL DEF Spec, CancelIsReal

=============================================================================
