---------------------------- MODULE SteamerHoles ----------------------------
(***************************************************************************)
(* The order rows of the kitchen and the holes of the steamers: what the   *)
(* tablets of the kitchen and of the floor do with the portions of one     *)
(* dish (services/kds_orders.py, services/floor_console.py), and what the  *)
(* scraper does with them meanwhile (db_core/orders_repo.py).              *)
(*                                                                         *)
(* A call reads and checks its rows one by one, reads the hole it wants,   *)
(* and then writes in one transaction that checks nothing again: the write *)
(* lock is taken at the first UPDATE.  Another tablet, or the scraper, may *)
(* commit between any two of these steps.                                  *)
(*                                                                         *)
(* The rows are those of one dish with one note.  A call names rows by     *)
(* primary key: the other ways to name one end in a key that is then       *)
(* checked alike.  Nothing refuses a load, a move, an unload or a pluck    *)
(* that names a row twice; a completion is refused, and a floor call drops *)
(* the second.  A completion says of each row how many portions are ready; *)
(* that this is no negative number is assumed of the tablets, the code     *)
(* does not look.  The last reads of a call before its first UPDATE are    *)
(* one step, and so is all that follows the lock.                          *)
(***************************************************************************)
EXTENDS Naturals, FiniteSets, Sequences, FiniteSetsExt, SequencesExt

CONSTANTS
  Tablets,     \* devices that send calls, one at a time each
  Holes,       \* ports of the steamers
  NoHole,      \* the placement of a row that is not on a steamer
  NoCall,      \* a tablet that waits for nothing
  Capacity,    \* port_capacity
  Ordered,     \* rows as they were stored: table, source and portions of each
  MaxRows,     \* bound: rows, those split off a partial completion included
  MaxNamed,    \* bound: rows a call names, when calls come one at a time and when not
  MaxCalls,    \* bound: calls that write, when they come one at a time and when not
  MaxChanges   \* bound: changes at the POS, likewise

Placing == {"load", "move"}
Taking == {"unload", "pluck"}
Floor == {"hold", "fire", "rush"}
Ops == Placing \cup Taking \cup Floor \cup {"complete"}

Spots == Holes \cup {NoHole}

\* What a call has read before its transaction.
Plan == [next : Nat, first : Spots] \cup [first : Spots]
          \cup [direct : SUBSET Nat, pairs : Seq(Nat \X Nat)]

\* A call, the rows it names, how many portions of each it completes, what it read of each.
Call == [op : Ops, ids : Seq(Nat), hole : Spots, portions : Seq(Nat),
         read : Seq([hole : Spots, qty : Nat]), plan : Seq(Plan)]

ASSUME SteamerAssumption ==
  /\ NoHole \notin Holes
  /\ NoCall \notin Call
  /\ Capacity \in Nat \ {0}
  /\ Ordered \in Seq([table : {Ordered[i].table : i \in DOMAIN Ordered},
                      delivery : BOOLEAN, qty : Nat \ {0}])
  /\ MaxNamed \in [BOOLEAN -> Nat]

VARIABLES
  rows,      \* orders, by primary key
  call,      \* what each tablet's call has read so far
  picked,    \* the rows cancel_dine_in_portions has selected
  commits,   \* number of calls that have written
  changes,   \* number of changes at the POS
  serial,    \* the kitchen sends one call at a time
  touched,   \* history: rows the POS has ever cancelled
  raced,     \* history: rows cancelled while a completion of them was under way
  twice      \* history: a load that named a row twice has written

vars == <<rows, call, picked, commits, changes, serial, touched, raced, twice>>
history == <<touched, raced, twice>>
counts == <<commits, changes>>

Lines == DOMAIN Ordered
Tables == {Ordered[i].table : i \in {j \in Lines : ~Ordered[j].delivery}}
Portions == UNION {1..Ordered[i].qty : i \in Lines}

Row == [line : Lines, table : {Ordered[i].table : i \in Lines}, delivery : BOOLEAN,
        dish : {"waiting", "made", "cancelled"}, refund : BOOLEAN, qty : Nat,
        hole : Spots, stack : Nat, held : BOOLEAN, rushed : BOOLEAN]

\* Rows keep their shape and no portions are ever below zero; a call only names rows
\* that exist, and has read no more than it named.
TypeOK ==
  /\ rows \in Seq(Row)
  /\ call \in [Tablets -> {NoCall} \cup Call]
  /\ \A t \in Tablets : call[t] # NoCall =>
       /\ \A i \in DOMAIN call[t].ids : call[t].ids[i] \in DOMAIN rows
       /\ Len(call[t].read) <= Len(call[t].ids)
  /\ picked \subseteq DOMAIN rows
  /\ commits \in Nat /\ changes \in Nat /\ serial \in BOOLEAN
  /\ touched \subseteq Lines /\ raced \subseteq DOMAIN rows /\ twice \in BOOLEAN

Stored(i) ==
  [line |-> i, table |-> Ordered[i].table, delivery |-> Ordered[i].delivery,
   dish |-> "waiting", refund |-> FALSE, qty |-> Ordered[i].qty,
   hole |-> NoHole, stack |-> 0, held |-> FALSE, rushed |-> FALSE]

Init ==
  /\ rows = [i \in Lines |-> Stored(i)]
  /\ call = [t \in Tablets |-> NoCall]
  /\ picked = {}
  /\ commits = 0 /\ changes = 0 /\ serial \in BOOLEAN
  /\ touched = {} /\ raced = {} /\ twice = FALSE

-----------------------------------------------------------------------------
(* Rows and holes. *)

OnHole(h) == {r \in DOMAIN rows : rows[r].hole = h}
Top(h) == Max({0} \cup {rows[r].stack : r \in OnHole(h)})
Cancelled(x) == x.dish = "cancelled" \/ x.refund
Awaiting(x) == x.dish = "waiting" /\ ~Cancelled(x) /\ ~x.held /\ x.hole = NoHole

Place(x, h, s) == [x EXCEPT !.hole = h, !.stack = s]
OffHole(x) == Place(x, NoHole, 0)
Hold(x) == [OffHole(x) EXCEPT !.held = TRUE, !.rushed = FALSE]
Made(x) == [OffHole(x) EXCEPT !.dish = "made", !.rushed = FALSE]
Refunded(x) == [x EXCEPT !.dish = "cancelled", !.refund = TRUE, !.qty = 0]
\* Fault: the row is still a refund.
RestoredAsRefund(x, n) == [x EXCEPT !.dish = "waiting", !.qty = n]
Restored(x, n) == [x EXCEPT !.dish = "waiting", !.refund = FALSE, !.qty = n]

\* compact_steamer_hole, for each hole of hs: 1..n by the present order, then by id.
Level(rs, r) ==
  Cardinality({q \in DOMAIN rs :
                 /\ rs[q].hole = rs[r].hole
                 /\ \/ rs[q].stack < rs[r].stack
                    \/ (rs[q].stack = rs[r].stack /\ q <= r)})
Compact(rs, hs) ==
  [r \in DOMAIN rs |->
     IF rs[r].hole \in hs \ {NoHole} THEN [rs[r] EXCEPT !.stack = Level(rs, r)]
                                     ELSE rs[r]]

-----------------------------------------------------------------------------
(* The checks of a call, row by row.  Kitchen calls are refused as a whole,  *)
(* floor calls leave out the rows that do not fit.                           *)

\* Fault: more portions may be completed than there are.
CompletableAtAll(x, n) == ~x.refund /\ x.dish = "waiting" /\ ~x.held
Completable(x, n) == ~x.refund /\ x.dish = "waiting" /\ ~x.held /\ n <= x.qty

\* The row at place i was named before in this call.
Again(c, i) == \E j \in 1..(i - 1) : c.ids[j] = c.ids[i]

\* The row x at place i of the call.
Fits(c, i, x) ==
  CASE c.op = "complete" -> ~Again(c, i) /\ Completable(x, c.portions[i])
    [] c.op = "load"   -> x.dish = "waiting" /\ ~x.held /\ x.hole = NoHole
    [] c.op = "move"   -> x.dish = "waiting" /\ ~x.refund /\ x.hole # NoHole
    [] c.op = "unload" -> x.dish = "waiting" /\ x.hole # NoHole
    [] c.op = "pluck"  -> Cancelled(x) /\ x.hole # NoHole
    [] c.op = "hold"   -> ~x.delivery /\ ~Cancelled(x) /\ x.dish = "waiting" /\ ~x.held
    [] c.op = "fire"   -> ~x.delivery /\ ~Cancelled(x) /\ x.dish = "waiting" /\ x.held
    [] c.op = "rush"   -> ~x.delivery /\ Awaiting(x)

Idle(t) == call[t] = NoCall
AllRead(t) == ~Idle(t) /\ Len(call[t].read) = Len(call[t].ids)
Planned(t) == call[t].plan # <<>>

Open(t) ==
  /\ Idle(t) /\ commits < MaxCalls[serial]
  /\ serial => \A u \in Tablets : Idle(u)
  /\ \E op \in Ops, k \in 1..MaxNamed[serial] :
     \E ids \in [1..k -> DOMAIN rows],
        h \in IF op \in Placing THEN Holes ELSE {NoHole},
        ns \in IF op = "complete" THEN [1..k -> {0} \cup Portions] ELSE {<<>>} :
       /\ op \in Floor => IsInjective(ids)
       /\ call' = [call EXCEPT ![t] = [op |-> op, ids |-> ids, hole |-> h, portions |-> ns,
                                      read |-> <<>>, plan |-> <<>>]]
  /\ UNCHANGED <<rows, picked, counts, serial, history>>

Answer(t) == call' = [call EXCEPT ![t] = NoCall]
Unwritten == UNCHANGED <<rows, picked, counts, serial, history>>

Check(t) ==
  /\ ~Idle(t) /\ ~AllRead(t)
  /\ LET c == call[t]
         i == Len(c.read) + 1
         x == rows[c.ids[i]]
     IN  \/ /\ Fits(c, i, x)
            /\ call' = [call EXCEPT ![t].read =
                          Append(@, [hole |-> x.hole, qty |-> x.qty])]
         \/ /\ ~Fits(c, i, x)
            /\ IF c.op \in Floor /\ Len(c.ids) > 1
                 THEN call' = [call EXCEPT ![t].ids = RemoveAt(@, i)]
                 ELSE Answer(t)
  /\ Unwritten

-----------------------------------------------------------------------------
(* What a call reads between its checks and its first UPDATE. *)

IdSet(c) == ToSet(c.ids)
Position(s, r) == Max({i \in DOMAIN s : s[i] = r})
Nth(S, i) == Cardinality({j \in S : j <= i})

\* _reject_if_hole_over_capacity and MAX(stack_order); a move within one hole is done.
Measure(t) ==
  /\ AllRead(t) /\ ~Planned(t) /\ call[t].op \in Placing
  /\ LET c == call[t]
         fits == Cardinality(OnHole(c.hole) \ IdSet(c)) + Len(c.ids) <= Capacity
         moot == c.op = "move" /\ \A i \in DOMAIN c.read : c.read[i].hole = c.hole
     IN  IF fits /\ ~moot
           THEN call' = [call EXCEPT ![t].plan =
                           <<[next |-> Top(c.hole) + 1, first |-> rows[c.ids[1]].hole]>>]
           ELSE Answer(t)
  /\ Unwritten

\* The first row of an unload or a pluck is read again before the lock.
Reread(t) ==
  /\ AllRead(t) /\ ~Planned(t) /\ call[t].op \in Taking
  /\ call' = [call EXCEPT ![t].plan = <<[first |-> rows[call[t].ids[1]].hole]>>]
  /\ Unwritten

\* _pick_substitute: a portion of the same table before one of another, the newest first.
Best(x, pool) ==
  LET same == {r \in pool : rows[r].table = x.table}
  IN  Max(IF same # {} THEN same ELSE pool)

\* The k-th row of a hold, if it is steaming, and the portion that takes over its cage.
NextPair(c, pairs, k) ==
  LET pool == {r \in DOMAIN rows : ~rows[r].delivery /\ Awaiting(rows[r])}
      free == (pool \ IdSet(c)) \ {p[2] : p \in ToSet(pairs)}
  IN  IF c.read[k].hole = NoHole \/ free = {}
        THEN pairs
        ELSE Append(pairs, <<c.ids[k], Best(rows[c.ids[k]], free)>>)

Substitutes(c) ==
  LET pairs[k \in 0..Len(c.ids)] == IF k = 0 THEN <<>> ELSE NextPair(c, pairs[k - 1], k)
  IN  pairs[Len(c.ids)]

Substitute(t) ==
  /\ AllRead(t) /\ ~Planned(t) /\ call[t].op = "hold"
  /\ LET c == call[t]
         direct == {c.ids[i] : i \in {j \in DOMAIN c.ids : c.read[j].hole = NoHole}}
         pairs == Substitutes(c)
     IN  IF direct = {} /\ pairs = <<>>
           THEN Answer(t)
           ELSE call' = [call EXCEPT ![t].plan = <<[direct |-> direct, pairs |-> pairs]>>]
  /\ Unwritten

-----------------------------------------------------------------------------
(* The transactions. *)

Commit(t, rs) ==
  /\ rows' = rs
  /\ Answer(t)
  /\ commits' = commits + 1
  /\ twice' = (twice \/ (call[t].op = "load" /\ ~IsInjective(call[t].ids)))
  /\ UNCHANGED <<picked, changes, serial, touched, raced>>

\* Of a row that is named twice the second place counts.
Load(t) ==
  /\ call[t] # NoCall /\ call[t].op = "load" /\ Planned(t)
  /\ LET c == call[t]
         next == c.plan[1].next
     IN  Commit(t, [r \in DOMAIN rows |->
                      IF r \in IdSet(c)
                        THEN Place(rows[r], c.hole, next + Position(c.ids, r) - 1)
                        ELSE rows[r]])

\* The hole each row of a call is found on: the first is read before the lock.
Source(c, i) == IF i = 1 THEN c.plan[1].first ELSE rows[c.ids[i]].hole

\* The places of a call at which a row goes to h: it is not found there, and the call has
\* not put it there at an earlier place.
Acting(c, h) ==
  {i \in DOMAIN c.ids :
     /\ Source(c, i) # h
     /\ \A j \in 1..(i - 1) : c.ids[j] = c.ids[i] => Source(c, j) = h}

\* Cages that are on the hole already stay where they are.
Move(t) ==
  /\ call[t] # NoCall /\ call[t].op = "move" /\ Planned(t)
  /\ LET c == call[t]
         moved == Acting(c, c.hole)
         nth(r) == Nth(moved, CHOOSE i \in moved : c.ids[i] = r)
         placed == [r \in DOMAIN rows |->
                      IF r \in {c.ids[i] : i \in moved}
                        THEN Place(rows[r], c.hole, c.plan[1].next + nth(r) - 1)
                        ELSE rows[r]]
     IN  Commit(t, Compact(placed, {Source(c, i) : i \in moved}))

\* Fault: the cages above stay where they were.
TakeOffLeavingGaps(t) ==
  /\ call[t] # NoCall /\ call[t].op \in Taking /\ Planned(t)
  /\ LET c == call[t]
         taken == {c.ids[i] : i \in Acting(c, NoHole)}
     IN  Commit(t, [r \in DOMAIN rows |-> IF r \in taken THEN OffHole(rows[r]) ELSE rows[r]])

TakeOff(t) ==
  /\ call[t] # NoCall /\ call[t].op \in Taking /\ Planned(t)
  /\ LET c == call[t]
         taken == {c.ids[i] : i \in Acting(c, NoHole)}
         off == [r \in DOMAIN rows |-> IF r \in taken THEN OffHole(rows[r]) ELSE rows[r]]
     IN  Commit(t, Compact(off, {Source(c, i) : i \in Acting(c, NoHole)}))

\* Fault: the row split off has the portions of the whole.
SplitWhole(x, n) == [Made(x) EXCEPT !.delivery = FALSE, !.refund = FALSE, !.held = FALSE]

\* The row a partial completion splits off; it does not say where the order came from.
Split(x, n) == [Made(x) EXCEPT !.delivery = FALSE, !.refund = FALSE, !.qty = n,
                               !.held = FALSE]

Complete(t) ==
  /\ AllRead(t) /\ call[t].op = "complete"
  /\ LET c == call[t]
         part == {i \in DOMAIN c.ids : c.read[i].qty # c.portions[i]}
         done == [r \in DOMAIN rows |->
                    IF r \notin IdSet(c) THEN rows[r]
                    ELSE LET i == Position(c.ids, r)
                         IN  IF i \in part
                               THEN [rows[r] EXCEPT !.qty = c.read[i].qty - c.portions[i]]
                               ELSE Made(rows[r])]
         split == [k \in 1..Cardinality(part) |->
                     LET i == CHOOSE j \in part : Nth(part, j) = k
                     IN  Split(rows[c.ids[i]], c.portions[i])]
     IN  Commit(t, Compact(done \o split, {c.read[i].hole : i \in DOMAIN c.read}))

HoldPortions(t) ==
  /\ call[t] # NoCall /\ call[t].op = "hold" /\ Planned(t)
  /\ LET plan == call[t].plan[1]
         freed == {p[1] : p \in ToSet(plan.pairs)}
         cage(r) == rows[(CHOOSE p \in ToSet(plan.pairs) : p[2] = r)[1]]
     IN  Commit(t, [r \in DOMAIN rows |->
                      CASE r \in freed -> Hold(rows[r])
                        [] r \in plan.direct ->
                             [rows[r] EXCEPT !.held = TRUE, !.rushed = FALSE]
                        [] \E p \in ToSet(plan.pairs) : p[2] = r ->
                             Place(rows[r], cage(r).hole, cage(r).stack)
                        [] OTHER -> rows[r]])

FirePortions(t) ==
  /\ AllRead(t) /\ call[t].op = "fire"
  /\ Commit(t, [r \in DOMAIN rows |->
                  IF r \in IdSet(call[t]) THEN [rows[r] EXCEPT !.held = FALSE] ELSE rows[r]])

RushPortions(t) ==
  /\ AllRead(t) /\ call[t].op = "rush"
  /\ Commit(t, [r \in DOMAIN rows |->
                  IF r \in IdSet(call[t]) THEN [rows[r] EXCEPT !.rushed = TRUE] ELSE rows[r]])

-----------------------------------------------------------------------------
(* The scraper. *)

Change == changes < MaxChanges[serial] /\ changes' = changes + 1

UnderWay(r) == \E t \in Tablets : ~Idle(t) /\ call[t].op = "complete" /\ r \in IdSet(call[t])

Refund(rs) ==
  /\ rows' = [r \in DOMAIN rows |-> IF r \in rs THEN Refunded(rows[r]) ELSE rows[r]]
  /\ touched' = touched \cup {rows[r].line : r \in rs}
  /\ raced' = (raced \ rs) \cup {r \in rs : UnderWay(r)}
  /\ UNCHANGED <<call, commits, serial, twice>>

\* cancel_dine_in_portions: not loaded before steaming before made, the older first.
Rank(r) == CASE rows[r].dish = "made" -> 2
             [] rows[r].hole # NoHole -> 1
             [] OTHER -> 0
Before(r, q) == Rank(r) < Rank(q) \/ (Rank(r) = Rank(q) /\ r < q)

PickPortions(table) ==
  /\ picked = {}
  /\ LET rs == {r \in DOMAIN rows : /\ rows[r].table = table /\ ~rows[r].delivery
                                    /\ ~Cancelled(rows[r])}
     IN  \E n \in 1..Cardinality(rs) :
           picked' = {r \in rs : Cardinality({q \in rs : Before(q, r)}) < n}
  /\ Change
  /\ UNCHANGED <<rows, call, commits, serial, history>>

CancelPortions ==
  picked # {} /\ Refund(picked) /\ picked' = {} /\ UNCHANGED changes

\* restore_dine_in_cancelled; which of several cancelled rows is left open.
RestorePortion(table) ==
  /\ \E r \in DOMAIN rows :
       /\ rows[r].table = table /\ ~rows[r].delivery
       /\ rows[r].refund /\ rows[r].dish = "cancelled"
       /\ rows' = [rows EXCEPT ![r] = Restored(@, 1)]
  /\ Change
  /\ UNCHANGED <<call, picked, commits, serial, history>>

\* mark_delivery_cancelled and revert_delivery_cancelled of the bill with line i.
Bill(i) == {r \in DOMAIN rows : rows[r].line = i /\ rows[r].delivery}

CancelBill(i) ==
  /\ \E r \in Bill(i) : ~rows[r].refund
  /\ Refund({r \in Bill(i) : ~rows[r].refund})
  /\ Change
  /\ UNCHANGED picked

RevertBill(i) ==
  /\ \E r \in Bill(i) : rows[r].refund
  /\ rows' = [r \in DOMAIN rows |->
                IF r \in Bill(i) /\ rows[r].refund THEN Restored(rows[r], Ordered[i].qty)
                                                   ELSE rows[r]]
  /\ Change
  /\ UNCHANGED <<call, picked, commits, serial, history>>

-----------------------------------------------------------------------------
Tablet(t) ==
  \/ Open(t) \/ Check(t)
  \/ Measure(t) \/ Reread(t) \/ Substitute(t)
  \/ Load(t) \/ Move(t) \/ TakeOff(t) \/ Complete(t)
  \/ HoldPortions(t) \/ FirePortions(t) \/ RushPortions(t)

Scraper ==
  \/ \E table \in Tables : PickPortions(table) \/ RestorePortion(table)
  \/ CancelPortions
  \/ \E i \in Lines : CancelBill(i) \/ RevertBill(i)

Next == (\E t \in Tablets : Tablet(t)) \/ Scraper

Spec == Init /\ [][Next]_vars

-----------------------------------------------------------------------------
(* Properties *)

\* No hole holds more cages than port_capacity, those of cancelled rows that still wait to
\* be plucked included.
HolesFit == \A h \in Holes : Cardinality(OnHole(h)) <= Capacity

\* The cages of a hole are numbered from 1 without gaps or doubles.
StacksAreTight == \A h \in Holes :
                    {rows[r].stack : r \in OnHole(h)} = 1..Cardinality(OnHole(h))

\* A portion that is held back is not steaming and not rushed, and one that was served has
\* left its hole.
HeldIsOffTheSteamer == \A r \in DOMAIN rows :
                         rows[r].held => rows[r].hole = NoHole /\ ~rows[r].rushed
MadeIsOffTheSteamer == \A r \in DOMAIN rows : rows[r].dish = "made" => rows[r].hole = NoHole

\* When the kitchen sends one call at a time, the steamers stay in order through any
\* sequence of calls, those that move or take off a row they name twice included, whatever
\* the scraper cancels, restores and brings back between the checks of a call and its
\* transaction (orders_repo.py: apply_steamer_*, apply_cooking_completion,
\* apply_floor_mutations).  With two calls at once each of the four can fail, and the
\* second after a load that named a row twice, which nothing refuses.
KitchenIsSound == serial /\ ~twice => /\ HolesFit /\ StacksAreTight
                                      /\ HeldIsOffTheSteamer /\ MadeIsOffTheSteamer

PortionUnits(i) == UNION {{r} \X (1..rows[r].qty) : r \in {q \in DOMAIN rows : rows[q].line = i}}
PortionsOf(i) == Cardinality(PortionUnits(i))

\* Of a line that the POS never cancels no portion gets lost, even when two tablets complete
\* parts of it at once; and none is added when they do it one after the other
\* (orders_repo.py: apply_cooking_completion, which splits rows).
PortionsAddUp ==
  \A i \in Lines \ touched :
    /\ PortionsOf(i) >= Ordered[i].qty
    /\ serial => PortionsOf(i) = Ordered[i].qty

\* A row on which money is given back counts no portion and no call brings it back: not a
\* load, move or hold that checked it before it was cancelled.  Only a completion under way
\* does (orders_repo.py: mark_delivery_cancelled, cancel_dine_in_portions).
CancelledCountsNothing ==
  \A r \in DOMAIN rows \ raced :
    rows[r].refund => rows[r].dish = "cancelled" /\ rows[r].qty = 0
=============================================================================
