--------------------------- MODULE TableChanges ---------------------------
(***************************************************************************)
(* The scraper's rounds over one table: it reads what the table owes, then *)
(* the dishes on its bill, compares them with the snapshot of the round    *)
(* before, restores or cancels rows of the order table at once, saves the  *)
(* snapshot to a file and stores the new rows last.  The POS changes at    *)
(* any moment, answers may be incomplete, writes may fail silently and the *)
(* process may die between any two steps.                                  *)
(***************************************************************************)
EXTENDS Integers, FiniteSets

CONSTANTS
    Dishes,
    AmountOf,     \* what the POS says a table with these portions owes
    MaxBills,     \* bound: parties that sit down one after the other
    MaxQuantity,  \* bound: portions of one dish on a bill
    MaxChanges,   \* bound: changes of the bill at the POS
    MaxGlitches,  \* bound: incomplete answers and writes that fail
    MaxCrashes    \* bound: how often the process dies

Quantity == 0..MaxQuantity
Portions == [Dishes -> Quantity]
None     == [d \in Dishes |-> 0]

\* No portion is free.
ASSUME TableAssumption ==
    /\ AmountOf \in [Portions -> Nat]
    /\ \A w \in Portions : AmountOf[w] = 0 <=> w = None
    /\ MaxBills \in Nat /\ MaxQuantity \in Nat \ {0} /\ MaxChanges \in Nat
    /\ MaxGlitches \in Nat /\ MaxCrashes \in Nat

Threshold == 3   \* DINE_IN_CANCEL_MISS_THRESHOLD

VARIABLES
    bill,     \* POS: the current bill, 0 when nobody sits there
    bills,    \* POS: how many bills there have been
    want,     \* POS: dish -> portions on the current bill
    changes,  \* POS: how many changes there have been
    known,    \* memory: previous_tables_state, the amount, or Unseen
    snap,     \* memory: previous_table_orders, dish -> portions
    misses,   \* memory: dish -> [count, base] while portions are missing
    file,     \* the state file: [known, snap]
    pc,       \* where the round stands
    amount,   \* the round's amount of the table
    cur,      \* the round's answer: [bill, dishes]
    todo,     \* dishes the round has still to compare
    next,     \* the snapshot the round is putting together
    toSave,   \* rows the round will store
    stored,   \* order table: flow ids of this table's rows
    open,     \* order table: dish -> rows that are not cancelled
    gone,     \* order table: dish -> cancelled rows
    glitches, \* how many answers were incomplete and writes failed
    crashes,  \* how often the process has died
    peak,     \* history: dish -> portions ever ordered, the most of each bill
    lost,     \* history: dishes that lost portions since they were read in full
    whole,    \* history: dish -> amount when it was last compared in full
    torn      \* history: a crash or a failed cancellation tore snapshot and rows apart

pos    == <<bill, bills, want, changes, peak>>
memory == <<known, snap, misses>>
round  == <<amount, cur, todo, next, toSave>>
table  == <<stored, open, gone>>
vars   == <<pos, memory, file, pc, round, table, glitches, crashes, lost, whole, torn>>

Unseen   == -1
NoAnswer == [bill |-> 0, dishes |-> None]
NoMiss   == [count |-> 0, base |-> 0]

Amounts == {AmountOf[w] : w \in Portions}

\* business_flow_id: the bill, the dish and a running number.
FlowId == [bill : 1..MaxBills, dish : Dishes, seq : 1..(2 * MaxQuantity)]
Ids(b, d, first, last) == {[bill |-> b, dish |-> d, seq |-> n] : n \in first..last}

TypeOK ==
    /\ bill \in 0..MaxBills /\ bills \in 0..MaxBills
    /\ want \in Portions /\ changes \in 0..MaxChanges
    /\ known \in Amounts \cup {Unseen} /\ snap \in Portions
    /\ misses \in [Dishes -> [count : 0..Threshold, base : Amounts]]
    /\ file \in [known : Amounts \cup {Unseen}, snap : Portions]
    /\ pc \in {"list", "detail", "compare", "save", "store"}
    /\ amount \in Amounts /\ cur \in [bill : 0..MaxBills, dishes : Portions]
    /\ todo \subseteq Dishes /\ next \in Portions
    /\ toSave \subseteq FlowId /\ stored \subseteq FlowId
    /\ open \in [Dishes -> Nat] /\ gone \in [Dishes -> Nat]
    /\ glitches \in 0..MaxGlitches /\ crashes \in 0..MaxCrashes
    /\ peak \in [Dishes -> Nat] /\ lost \subseteq Dishes
    /\ whole \in [Dishes -> Amounts] /\ torn \in BOOLEAN

Init ==
    /\ bill = 0 /\ bills = 0 /\ want = None /\ changes = 0 /\ peak = None
    /\ known = Unseen /\ snap = None /\ misses = [d \in Dishes |-> NoMiss]
    /\ file = [known |-> Unseen, snap |-> None]
    /\ pc = "list" /\ amount = 0 /\ cur = NoAnswer
    /\ todo = {} /\ next = None /\ toSave = {}
    /\ stored = {} /\ open = None /\ gone = None
    /\ glitches = 0 /\ crashes = 0
    /\ lost = {} /\ whole = None /\ torn = FALSE

\* The round is over and its local state gone.
RoundOver ==
    /\ pc' = "list"
    /\ amount' = 0 /\ cur' = NoAnswer /\ next' = None /\ todo' = {} /\ toSave' = {}

Least(a, b) == IF a < b THEN a ELSE b

\* One more answer that is incomplete or write that fails.
Glitch == glitches < MaxGlitches /\ glitches' = glitches + 1

---------------------------------------------------------------------------
\* The POS.

Changed ==
    /\ changes < MaxChanges
    /\ changes' = changes + 1
    /\ UNCHANGED <<memory, file, pc, round, table, glitches, crashes, whole, torn>>

\* A party sits down and orders its first dish.
Seat(d) ==
    /\ bill = 0 /\ bills < MaxBills
    /\ bills' = bills + 1
    /\ bill' = bills'
    /\ want' = [want EXCEPT ![d] = 1]
    /\ peak' = [peak EXCEPT ![d] = @ + 1]
    /\ Changed
    /\ UNCHANGED lost

Order(d, n) ==
    /\ bill # 0 /\ want[d] + n <= MaxQuantity
    /\ want' = [want EXCEPT ![d] = @ + n]
    /\ peak' = [peak EXCEPT ![d] = @ + n]
    /\ Changed
    /\ UNCHANGED <<bill, bills, lost>>

Refund(d) ==
    /\ want[d] > 0
    /\ want' = [want EXCEPT ![d] = @ - 1]
    /\ lost' = lost \cup {d}
    /\ Changed
    /\ UNCHANGED <<bill, bills, peak>>

Settle ==
    /\ bill # 0
    /\ bill' = 0
    /\ want' = None
    /\ lost' = lost \cup {d \in Dishes : want[d] > 0}
    /\ Changed
    /\ UNCHANGED <<bills, peak>>

---------------------------------------------------------------------------
\* One round.  A list that cannot be read, or is empty, ends it at once.

\* Fault: a pending dish does not bring its table back by itself.
SuspectByAmount(a) == known # a

\* The table is looked at: its amount is new, differs, or a dish is pending.
Suspect(a) == known # a \/ \E d \in Dishes : misses[d] # NoMiss

\* The answer, portions per dish, that the round goes on to compare.
Answer(w) ==
    /\ cur' = [bill |-> bill, dishes |-> w]
    /\ todo' = Dishes /\ next' = None
    /\ lost' = lost \ {d \in Dishes : w[d] >= snap[d]}
    /\ pc' = "compare"

\* The table on the list, with its amount.  A table that owes nothing has no
\* dishes to fetch.
Listed ==
    /\ pc = "list"
    /\ amount' = AmountOf[want]
    /\ \/ /\ ~Suspect(amount')
          /\ next' = snap
          /\ pc' = "save"
          /\ UNCHANGED <<cur, todo, lost>>
       \/ Suspect(amount') /\ amount' = 0 /\ Answer(None)
       \/ /\ Suspect(amount') /\ amount' # 0
          /\ pc' = "detail"
          /\ UNCHANGED <<cur, todo, next, lost>>
    /\ UNCHANGED <<pos, memory, file, toSave, table, glitches, crashes, whole, torn>>

\* The free table is not on the list: its counters and its amount are forgotten,
\* the snapshot of its dishes is not.
NotListed ==
    /\ pc = "list" /\ bill = 0
    /\ misses' = [d \in Dishes |-> NoMiss]
    /\ known' = Unseen
    /\ \/ file' = [known |-> Unseen, snap |-> snap] /\ UNCHANGED glitches
       \/ Glitch /\ UNCHANGED file
    /\ UNCHANGED <<pos, snap, pc, round, table, crashes, lost, whole, torn>>

\* The dishes as the POS has them now, which may be later than the amount.
Detail ==
    /\ pc = "detail"
    /\ Answer(want)
    /\ UNCHANGED <<pos, memory, file, amount, toSave, table, glitches, crashes, whole, torn>>

\* An answer that misses a portion.
ShortDetail(d) ==
    /\ pc = "detail" /\ want[d] > 0
    /\ Glitch
    /\ Answer([want EXCEPT ![d] = @ - 1])
    /\ UNCHANGED <<pos, memory, file, amount, toSave, table, crashes, whole, torn>>

\* No answer: the table keeps its old amount, to be looked at again.
NoDetail ==
    /\ pc = "detail"
    /\ Glitch
    /\ file' = [known |-> known, snap |-> snap]
    /\ RoundOver
    /\ UNCHANGED <<pos, memory, table, crashes, lost, whole, torn>>

---------------------------------------------------------------------------
\* The comparison, dish by dish.

Compared(d) ==
    /\ pc = "compare" /\ d \in todo
    /\ todo' = todo \ {d}
    /\ pc' = IF todo' = {} THEN "save" ELSE "compare"
    /\ UNCHANGED <<pos, known, snap, file, amount, cur, crashes, lost>>

\* The dish is there in full.
Whole(d) ==
    /\ misses' = [misses EXCEPT ![d] = NoMiss]
    /\ next' = [next EXCEPT ![d] = cur.dishes[d]]
    /\ whole' = [whole EXCEPT ![d] = amount]

\* A table seen for the first time: every portion is a new row.
NewDish(d) ==
    /\ known = Unseen
    /\ Compared(d)
    /\ Whole(d)
    /\ toSave' = toSave \cup Ids(cur.bill, d, 1, cur.dishes[d])
    /\ UNCHANGED <<table, glitches, torn>>

\* allocate_incremental_flow_ids: numbers after those of the answer.
NewIds(d, n) == Ids(cur.bill, d, cur.dishes[d] + 1, cur.dishes[d] + n)

\* Fault: as many rows are restored as portions were added.
RestoreBlindly(d) ==
    LET added == cur.dishes[d] - snap[d] IN
    /\ known # Unseen /\ added > 0
    /\ Compared(d)
    /\ Whole(d)
    /\ gone' = [gone EXCEPT ![d] = @ - added]
    /\ open' = [open EXCEPT ![d] = @ + added]
    /\ UNCHANGED <<toSave, stored, glitches, torn>>

\* More than before: cancelled rows are restored first, the rest gets new rows.
MoreOf(d) ==
    LET added == cur.dishes[d] - snap[d] IN
    /\ known # Unseen /\ added > 0
    /\ Compared(d)
    /\ Whole(d)
    /\ \E restored \in 0..Least(gone[d], added) :
        /\ \/ restored = Least(gone[d], added) /\ UNCHANGED glitches
           \/ restored < Least(gone[d], added) /\ Glitch
        /\ gone' = [gone EXCEPT ![d] = @ - restored]
        /\ open' = [open EXCEPT ![d] = @ + restored]
        /\ toSave' = toSave \cup NewIds(d, added - restored)
    /\ UNCHANGED <<stored, torn>>

SameOf(d) ==
    /\ known # Unseen /\ cur.dishes[d] = snap[d]
    /\ Compared(d)
    /\ Whole(d)
    /\ UNCHANGED <<toSave, table, glitches, torn>>

\* The counter of dish d after one more round that misses portions of it.
Missed(d) ==
    [count |-> Least(misses[d].count + 1, Threshold),
     base  |-> IF misses[d] = NoMiss THEN known ELSE misses[d].base]

\* Fault: one miss short of the threshold is enough.
ConfirmedEarly(d) == Missed(d).count >= Threshold - 1 /\ amount < Missed(d).base

Confirmed(d) == Missed(d).count >= Threshold /\ amount < Missed(d).base

\* Fault: the missing portions are dropped from the snapshot.
DropMissing(d) ==
    /\ known # Unseen /\ cur.dishes[d] < snap[d] /\ ~Confirmed(d)
    /\ Compared(d)
    /\ misses' = [misses EXCEPT ![d] = Missed(d)]
    /\ next' = [next EXCEPT ![d] = cur.dishes[d]]
    /\ UNCHANGED <<toSave, table, glitches, whole, torn>>

\* Fewer than before, not confirmed: carried along in the snapshot.
DeferCancel(d) ==
    /\ known # Unseen /\ cur.dishes[d] < snap[d] /\ ~Confirmed(d)
    /\ Compared(d)
    /\ misses' = [misses EXCEPT ![d] = Missed(d)]
    /\ next' = [next EXCEPT ![d] = snap[d]]
    /\ UNCHANGED <<toSave, table, glitches, whole, torn>>

\* Fewer than before, confirmed: the rows are cancelled, or that fails unseen.
CancelPortions(d) ==
    LET portions == Least(snap[d] - cur.dishes[d], open[d]) IN
    /\ known # Unseen /\ cur.dishes[d] < snap[d] /\ Confirmed(d)
    /\ Compared(d)
    /\ misses' = [misses EXCEPT ![d] = NoMiss]
    /\ next' = [next EXCEPT ![d] = cur.dishes[d]]
    /\ \/ /\ open' = [open EXCEPT ![d] = @ - portions]
          /\ gone' = [gone EXCEPT ![d] = @ + portions]
          /\ UNCHANGED <<glitches, torn>>
       \/ Glitch /\ torn' = TRUE /\ UNCHANGED <<open, gone>>
    /\ UNCHANGED <<toSave, stored, whole>>

---------------------------------------------------------------------------
\* The end of the round, and of the process.

\* The snapshot moves on in memory, then in the file, unless that fails.
SaveState ==
    /\ pc = "save"
    /\ known' = amount /\ snap' = next
    /\ \/ file' = [known |-> known', snap |-> snap'] /\ UNCHANGED glitches
       \/ Glitch /\ UNCHANGED file
    /\ IF toSave = {} THEN RoundOver
                      ELSE pc' = "store" /\ UNCHANGED round
    /\ UNCHANGED <<pos, misses, table, crashes, lost, whole, torn>>

\* Rows whose number the table already has are skipped; all are lost on a failure.
StoreOrders ==
    /\ pc = "store"
    /\ \/ /\ stored' = stored \cup toSave
          /\ open' = [d \in Dishes |->
                        open[d] + Cardinality({i \in toSave \ stored : i.dish = d})]
          /\ UNCHANGED glitches
       \/ Glitch /\ UNCHANGED <<stored, open>>
    /\ RoundOver
    /\ UNCHANGED <<pos, memory, file, gone, crashes, lost, whole, torn>>

\* The process dies.  The next one has the file, unless it cannot be read or is
\* of another business day; the counters are gone, and so is the round.
Crash ==
    /\ crashes < MaxCrashes
    /\ crashes' = crashes + 1
    /\ \E f \in {file, [known |-> Unseen, snap |-> None]} :
        /\ known' = f.known /\ snap' = f.snap
        /\ torn' = (torn \/ f # [known |-> known, snap |-> snap]
                         \/ pc \in {"compare", "save"})
    /\ misses' = [d \in Dishes |-> NoMiss]
    /\ RoundOver
    /\ UNCHANGED <<pos, file, table, glitches, lost, whole>>

---------------------------------------------------------------------------

Round ==
    \/ Listed \/ NotListed \/ Detail \/ NoDetail \/ SaveState \/ StoreOrders
    \/ \E d \in Dishes :
        \/ ShortDetail(d) \/ NewDish(d) \/ MoreOf(d) \/ SameOf(d)
        \/ DeferCancel(d) \/ CancelPortions(d)

Next ==
    \/ Settle \/ Crash \/ Round
    \/ \E d \in Dishes : Seat(d) \/ Refund(d) \/ \E n \in 1..MaxQuantity : Order(d, n)

Spec == Init /\ [][Next]_vars

\* The loop goes on for as long as its process lives.
FairSpec == Spec /\ WF_vars(Round)
---------------------------------------------------------------------------
\* What the rounds promise.

\* As long as no crash has hit a round at work or lost its snapshot, the order
\* table never has more rows of a dish than portions of it were ever ordered.
NoPhantom == ~torn => \A d \in Dishes : open[d] <= peak[d]

\* Rows of a dish are cancelled only when the bill really lost portions of it since
\* a read that had them all: two incomplete answers are not enough, whatever else
\* became cheaper meanwhile, and a restart in between changes nothing.
CancelIsReal ==
    [][\A d \in Dishes : gone'[d] > gone[d] => d \in lost \/ torn]_vars

\* A portion that leaves the bill of a seated table, and makes it cheaper than when
\* the dish was last there in full, does not stay in the snapshot for good, unless
\* a restart forgets its counter.
CancelsInTheEnd ==
    \A d \in Dishes :
        ~<>[](crashes = 0 /\ bill # 0 /\ snap[d] > want[d] /\ AmountOf[want] < whole[d])

\* allocate_incremental_flow_ids: the rows a round adds are not in the table yet.
IdsAreFresh == pc \in {"compare", "save"} => toSave \cap stored = {}
===========================================================================
