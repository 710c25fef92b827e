---------------------------- MODULE DeliveryBills ----------------------------
(***************************************************************************)
(* The delivery bills of one business day.  The POS lists the bills that   *)
(* are settled; a bill that is taken back leaves the list, and may return. *)
(* The scraper collects new bills, counts the rounds a bill is missing and *)
(* cancels its rows after the third; a reconciliation adds what the order  *)
(* table lacks and then compares it with the list; and so does, once, the  *)
(* scraper on the next morning.  The three share the order table and await *)
(* between everything they read and everything they write.                 *)
(* Answers, reads and writes may fail at any time, and so may the process, *)
(* on the next morning too.  Reconciliations are those of the day itself   *)
(* that add what is missing; a bill has one dish.                          *)
(***************************************************************************)
EXTENDS Integers, FiniteSets

CONSTANTS
    Bills,
    Threshold,      \* delivery_cancel_miss_threshold
    MaxChanges,     \* bound: bills that appear on the list or leave it
    MaxGlitches,    \* bound: answers that fail or lack a bill, writes that fail
    MaxCrashes,     \* bound: how often the process dies
    MaxReconciles   \* bound: reconciliations of the day

ASSUME BillAssumption ==
    /\ Threshold \in Nat \ {0}
    /\ MaxChanges \in Nat /\ MaxGlitches \in Nat
    /\ MaxCrashes \in Nat /\ MaxReconciles \in Nat

VARIABLES
    listed,      \* POS: the settled delivery bills of the day
    changes,     \* POS: how often the list has changed
    track,       \* memory: delivery_bill_state and collected_delivery_bills
    swept,       \* memory: last_prev_day_cancel_sweep_biz_date is this day
    file,        \* delivery_bills.json: [track, swept]
    unit,        \* order table: bill -> its rows, as the scraper collects them
    fix,         \* order table: bill -> its rows, as a reconciliation adds them
    day,         \* the business day is today's, or yesterday's
    scraper,     \* the round: where it stands, its list, its work, its new rows
    recon,       \* the reconciliation: where it stands, bills it found missing
    sweep,       \* actor -> the comparison of the order table with the list
    glitches, crashes, reconciles,
    astray,      \* history: bills about which the morning's sweep was misled, or in vain
    away,        \* history: bills off the list since a round that saw them was recorded
    seen         \* history: bills the round has seen and that have not left since

pos     == <<listed, changes>>
memory  == <<track, swept>>
table   == <<unit, fix>>
actors  == <<scraper, recon, sweep>>
bounds  == <<glitches, crashes, reconciles>>
history == <<away, seen>>
vars    == <<pos, memory, file, table, day, actors, bounds, astray, history>>

\* The rows of a bill: none, counted, or 退菜.
RowStatus == {"none", "open", "gone"}
Open(b)   == "open" \in {unit[b], fix[b]}
Gone(b)   == "gone" \in {unit[b], fix[b]}

NotTracked == [miss |-> 0, cancelled |-> FALSE, collected |-> FALSE]
NewBill    == [miss |-> 0, cancelled |-> FALSE, collected |-> TRUE]
Tracking   == [miss : 0..Threshold, cancelled : BOOLEAN, collected : BOOLEAN]
Tracked    == {b \in Bills : track[b].collected}
NothingTracked == [b \in Bills |-> NotTracked]

Actors   == {"scraper", "recon"}
NoRound  == [pc |-> "idle", present |-> {}, todo |-> {}, toSave |-> {}, dirty |-> FALSE]
NoRecon  == [pc |-> "idle", missing |-> {}]
NoSweep  == [pc |-> "off", present |-> {}, vanished |-> {}, back |-> {}]

TypeOK ==
    /\ listed \subseteq Bills /\ changes \in 0..MaxChanges
    /\ track \in [Bills -> Tracking] /\ swept \in BOOLEAN
    /\ file \in [track : [Bills -> Tracking], swept : BOOLEAN]
    /\ unit \in [Bills -> RowStatus] /\ fix \in [Bills -> RowStatus]
    /\ day \in {"today", "yesterday"}
    /\ scraper \in [pc : {"idle", "collect", "compare", "store", "sweep"},
                    present : SUBSET Bills, todo : SUBSET Bills, toSave : SUBSET Bills,
                    dirty : BOOLEAN]
    /\ recon \in [pc : {"idle", "read", "fix", "again", "sweep"}, missing : SUBSET Bills]
    /\ sweep \in [Actors -> [pc : {"off", "list", "open", "gone", "work"},
                             present : SUBSET Bills, vanished : SUBSET Bills,
                             back : SUBSET Bills]]
    /\ glitches \in 0..MaxGlitches /\ crashes \in 0..MaxCrashes
    /\ reconciles \in 0..MaxReconciles
    /\ astray \subseteq Bills /\ away \subseteq Bills /\ seen \subseteq Bills

Init ==
    /\ listed = {} /\ changes = 0
    /\ track = NothingTracked /\ swept = FALSE
    /\ file = [track |-> NothingTracked, swept |-> FALSE]
    /\ unit = [b \in Bills |-> "none"] /\ fix = [b \in Bills |-> "none"]
    /\ day = "today"
    /\ scraper = NoRound /\ recon = NoRecon /\ sweep = [a \in Actors |-> NoSweep]
    /\ glitches = 0 /\ crashes = 0 /\ reconciles = 0
    /\ astray = {} /\ away = {} /\ seen = {}

\* One more thing that goes wrong.
Glitch ==
    /\ glitches < MaxGlitches
    /\ glitches' = glitches + 1
    /\ UNCHANGED <<crashes, reconciles>>

Fine == UNCHANGED bounds
---------------------------------------------------------------------------
\* The POS, while the day is on.

ListChanges ==
    /\ day = "today" /\ changes < MaxChanges
    /\ changes' = changes + 1
    /\ UNCHANGED <<memory, file, table, day, actors, bounds, astray>>

Appear(b) ==
    /\ b \notin listed
    /\ listed' = listed \cup {b}
    /\ ListChanges
    /\ UNCHANGED history

Vanish(b) ==
    /\ b \in listed
    /\ listed' = listed \ {b}
    /\ away' = away \cup {b}
    /\ seen' = seen \ {b}
    /\ ListChanges

\* An answer of the POS: the list, or less of it; a request that fails is an empty
\* list to its caller.
Partial(list) == list = {} \/ \E b \in listed : list = listed \ {b}

Answers(list) ==
    \/ list = listed /\ Fine
    \/ list # listed /\ Partial(list) /\ Glitch

\* A write to the order table happens, or is logged as failed.
Done(rows)    == unit' = rows.unit /\ fix' = rows.fix /\ Fine
Failed        == UNCHANGED table /\ Glitch
Written(rows) == Done(rows) \/ Failed

\* A write of the state file, the same.
Saved(t, s) ==
    \/ file' = [track |-> t, swept |-> s] /\ Fine
    \/ UNCHANGED file /\ Glitch

Turned(rows, b, from, to) == [rows EXCEPT ![b] = IF @ = from THEN to ELSE @]

\* Fault: what a reconciliation added stays.
CancelUnits(b) == [unit |-> Turned(unit, b, "open", "gone"), fix |-> fix]

\* mark_delivery_cancelled: every row of the bill.
Cancelled(b) == [unit |-> Turned(unit, b, "open", "gone"),
                 fix  |-> Turned(fix, b, "open", "gone")]

\* revert_delivery_cancelled: the rows the POS has a number for.
Restored(b) == [unit |-> Turned(unit, b, "gone", "open"), fix |-> fix]
---------------------------------------------------------------------------
\* A round of the scraper: collect, compare, store.

Round(pc) ==
    /\ scraper.pc = pc
    /\ UNCHANGED <<pos, swept, day, recon, sweep, astray>>

\* The list of the POS.  An empty one, or none, ends the round at once.
Poll(list) ==
    /\ day = "today" /\ list # {}
    /\ Round("idle")
    /\ Answers(list)
    /\ scraper' = [NoRound EXCEPT !.pc = "collect", !.present = list,
                                  !.todo = list \ Tracked]
    /\ seen' = list
    /\ UNCHANGED <<track, file, table, away>>

\* A new bill with its dishes: tracked and saved at once, stored later.
Collect(b) ==
    /\ b \in scraper.todo
    /\ Round("collect")
    /\ track' = [track EXCEPT ![b] = NewBill]
    /\ Saved(track', swept)
    /\ scraper' = [scraper EXCEPT !.todo = @ \ {b}, !.toSave = @ \cup {b}]
    /\ UNCHANGED <<table, history>>

\* Its dishes cannot be read: the next round tries again.
NoDetail(b) ==
    /\ b \in scraper.todo
    /\ Round("collect")
    /\ Glitch
    /\ scraper' = [scraper EXCEPT !.todo = @ \ {b}]
    /\ UNCHANGED <<track, file, table, history>>

Missing(b) == b \in Tracked \ scraper.present /\ ~track[b].cancelled

\* Fault: one round short of the threshold is enough.
GivenUpEarly(b) == Missing(b) /\ track[b].miss + 1 >= Threshold - 1

\* Fault: one round more than the threshold is waited for.
GivenUpLate(b) == Missing(b) /\ track[b].miss + 1 > Threshold

GivenUp(b) == Missing(b) /\ track[b].miss + 1 >= Threshold
Back(b)    == b \in scraper.present /\ track[b].cancelled

\* One more miss, or none any more for a bill that is there.
Count(b) ==
    IF Missing(b) THEN [track[b] EXCEPT !.miss = @ + 1]
    ELSE IF b \in scraper.present /\ ~Back(b) THEN [track[b] EXCEPT !.miss = 0]
    ELSE track[b]

\* The bills are counted; those that are given up, or back, are work.
Compare ==
    /\ scraper.todo = {}
    /\ Round("collect")
    /\ track' = [b \in Bills |-> Count(b)]
    /\ scraper' = [scraper EXCEPT !.pc = "compare", !.dirty = track' # track,
                                  !.todo = {b \in Bills : GivenUp(b) \/ Back(b)}]
    /\ Fine /\ UNCHANGED <<file, table, history>>

\* The rows of a bill that is given up are cancelled, or that fails unseen.
GiveUp(b) ==
    /\ b \in scraper.todo \ scraper.present
    /\ Round("compare")
    /\ Written(Cancelled(b))
    /\ track' = [track EXCEPT ![b].cancelled = TRUE]
    /\ scraper' = [scraper EXCEPT !.todo = @ \ {b}]
    /\ UNCHANGED <<file, history>>

\* The rows of a bill that is back are restored, unless its dishes cannot be read.
Return(b) ==
    /\ b \in scraper.todo \cap scraper.present
    /\ Round("compare")
    /\ \/ /\ Written(Restored(b))
          /\ track' = [track EXCEPT ![b] = [@ EXCEPT !.miss = 0, !.cancelled = FALSE]]
          /\ scraper' = [scraper EXCEPT !.todo = @ \ {b}, !.dirty = TRUE]
       \/ /\ Glitch /\ UNCHANGED <<track, table>>
          /\ scraper' = [scraper EXCEPT !.todo = @ \ {b}]
    /\ UNCHANGED <<file, history>>

\* The state file is written if anything has changed; then the round is over, but
\* for the rows of its new bills.
EndCompare ==
    /\ scraper.todo = {}
    /\ Round("compare")
    /\ IF scraper.dirty THEN Saved(track, swept) ELSE Fine /\ UNCHANGED file
    /\ scraper' = IF scraper.toSave = {} THEN NoRound
                  ELSE [NoRound EXCEPT !.pc = "store", !.toSave = scraper.toSave]
    /\ seen' = {}
    /\ away' = away \ {b \in seen : file'.track[b].miss = 0}
    /\ UNCHANGED <<track, table>>

\* save_orders: rows whose number is there already are left as they are.
Stored(rows, new) == [b \in Bills |-> IF b \in new /\ rows[b] = "none" THEN "open" ELSE rows[b]]

Store ==
    /\ Round("store")
    /\ Written([unit |-> Stored(unit, scraper.toSave), fix |-> fix])
    /\ scraper' = NoRound
    /\ UNCHANGED <<track, file, history>>
---------------------------------------------------------------------------
\* sweep_cancelled_delivery_for_biz_date: the order table against the list, for a
\* reconciliation or for the scraper's first rounds on the next morning.

Sweep(a, pc) ==
    /\ sweep[a].pc = pc
    /\ UNCHANGED <<pos, day, history>>

Onward(a, s) ==
    /\ sweep' = [sweep EXCEPT ![a] = s]
    /\ UNCHANGED <<memory, file, scraper, recon>>

\* The actor has nothing more to do.
Leave(a) ==
    /\ sweep' = [sweep EXCEPT ![a] = NoSweep]
    /\ scraper' = IF a = "scraper" THEN NoRound ELSE scraper
    /\ recon' = IF a = "recon" THEN NoRecon ELSE recon

\* What the scraper's sweep of the morning does not learn or does not achieve.
Astray(a, bills) == astray' = IF a = "scraper" THEN astray \cup bills ELSE astray

\* An empty list is no evidence: the sweep is skipped, and tried again.
SweepList(a, list) ==
    /\ Sweep(a, "list")
    /\ Answers(list)
    /\ Astray(a, listed \ list)
    /\ IF list = {} THEN Leave(a) /\ UNCHANGED <<memory, file>>
       ELSE Onward(a, [NoSweep EXCEPT !.pc = "open", !.present = list])
    /\ UNCHANGED table

\* The bills with rows of the asked kind, none when the query fails.
Read(all, found) == (found = all /\ Fine) \/ (found = {} /\ Glitch)

SweepOpen(a) ==
    /\ Sweep(a, "open")
    /\ \E found \in SUBSET Bills :
        /\ Read({b \in Bills : Open(b)}, found)
        /\ Astray(a, {b \in Bills : Open(b)} \ (found \cup sweep[a].present))
        /\ Onward(a, [sweep[a] EXCEPT !.pc = "gone", !.vanished = found \ sweep[a].present])
    /\ UNCHANGED table

SweepGone(a) ==
    /\ Sweep(a, "gone")
    /\ \E found \in SUBSET Bills :
        /\ Read({b \in Bills : Gone(b)}, found)
        /\ Astray(a, ({b \in Bills : Gone(b)} \ found) \cap sweep[a].present)
        /\ Onward(a, [sweep[a] EXCEPT !.pc = "work", !.back = found \cap sweep[a].present])
    /\ UNCHANGED table

CancelVanished(a, b) ==
    /\ b \in sweep[a].vanished
    /\ Sweep(a, "work")
    /\ \/ Done(Cancelled(b)) /\ Astray(a, {})
       \/ Failed /\ Astray(a, {b})
    /\ Onward(a, [sweep[a] EXCEPT !.vanished = @ \ {b}])

\* Its dishes are asked for in the range of the current day.  In the morning that is
\* not the day of the bill: the POS may have none to tell, with nothing gone wrong.
NoDishes(a) == a = "scraper" /\ UNCHANGED table /\ Fine

RestoreReturned(a, b) ==
    /\ sweep[a].vanished = {} /\ b \in sweep[a].back
    /\ Sweep(a, "work")
    /\ \/ Done(Restored(b)) /\ Astray(a, {})
       \/ (Failed \/ NoDishes(a)) /\ Astray(a, {b})
    /\ Onward(a, [sweep[a] EXCEPT !.back = @ \ {b}])

\* After the morning's sweep the bills of the day are tracked no more, whatever of it
\* has failed.
EndSweep(a) ==
    /\ sweep[a].vanished = {} /\ sweep[a].back = {}
    /\ Sweep(a, "work")
    /\ Leave(a)
    /\ IF a = "scraper"
       THEN /\ track' = NothingTracked /\ swept' = TRUE
            /\ Saved(track', swept')
       ELSE Fine /\ UNCHANGED <<memory, file>>
    /\ UNCHANGED <<table, astray>>

\* maybe_sweep_previous_biz_date, until it has been done.
BeginMorning ==
    /\ day = "yesterday" /\ ~swept /\ scraper.pc = "idle"
    /\ scraper' = [NoRound EXCEPT !.pc = "sweep"]
    /\ sweep' = [sweep EXCEPT !["scraper"] = [NoSweep EXCEPT !.pc = "list"]]
    /\ astray' = {}
    /\ UNCHANGED <<pos, memory, file, table, day, recon, bounds, history>>
---------------------------------------------------------------------------
\* execute_reconcile with fix, one at a time.

Reconciling(pc) ==
    /\ recon.pc = pc
    /\ UNCHANGED <<pos, memory, file, day, scraper, astray, history>>

\* The bills of the list and their dishes.
BeginReconcile(list) ==
    /\ day = "today" /\ reconciles < MaxReconciles
    /\ Reconciling("idle")
    /\ reconciles' = reconciles + 1
    /\ \/ list = listed /\ UNCHANGED glitches
       \/ list # listed /\ Partial(list) /\ glitches < MaxGlitches /\ glitches' = glitches + 1
    /\ recon' = [pc |-> "read", missing |-> list]
    /\ UNCHANGED <<table, sweep, crashes>>

\* The comparison with the list begins.
GoToSweep ==
    /\ recon' = [NoRecon EXCEPT !.pc = "sweep"]
    /\ sweep' = [sweep EXCEPT !["recon"] = [NoSweep EXCEPT !.pc = "list"]]

\* The bills of which the table counts nothing; a query that fails ends it all.
ReadRows ==
    LET missing == {b \in recon.missing : ~Open(b)} IN
    /\ Reconciling("read")
    /\ \/ missing = {} /\ GoToSweep /\ Fine
       \/ /\ missing # {} /\ Fine
          /\ recon' = [pc |-> "fix", missing |-> missing] /\ UNCHANGED sweep
       \/ Glitch /\ recon' = NoRecon /\ UNCHANGED sweep
    /\ UNCHANGED table

\* Rows with numbers of their own, unless an earlier reconciliation has used them.
AddRows ==
    /\ Reconciling("fix")
    /\ Written([unit |-> unit, fix |-> Stored(fix, recon.missing)])
    /\ recon' = [NoRecon EXCEPT !.pc = "again"]
    /\ UNCHANGED sweep

\* Everything is read once more for the report.
ReadAgain ==
    /\ Reconciling("again")
    /\ \/ GoToSweep /\ Fine
       \/ Glitch /\ recon' = NoRecon /\ UNCHANGED sweep
    /\ UNCHANGED table
---------------------------------------------------------------------------
\* The process dies; the next one has the file, unless it cannot be read.
Crash ==
    /\ crashes < MaxCrashes
    /\ crashes' = crashes + 1
    /\ \E f \in {file, [track |-> NothingTracked, swept |-> FALSE]} :
        track' = f.track /\ swept' = f.swept
    /\ scraper' = NoRound /\ recon' = NoRecon /\ sweep' = [a \in Actors |-> NoSweep]
    /\ seen' = {}
    /\ UNCHANGED <<pos, file, table, day, glitches, reconciles, astray, away>>

\* Six o'clock: the shop is closed, nobody is at work.
DayPasses ==
    /\ day = "today" /\ scraper.pc = "idle" /\ recon.pc = "idle"
    /\ day' = "yesterday"
    /\ UNCHANGED <<pos, memory, file, table, actors, bounds, astray, history>>
---------------------------------------------------------------------------

SweepStep(a) ==
    \/ SweepOpen(a) \/ SweepGone(a) \/ EndSweep(a)
    \/ \E list \in SUBSET Bills : SweepList(a, list)
    \/ \E b \in Bills : CancelVanished(a, b) \/ RestoreReturned(a, b)

ScraperStep ==
    \/ Compare \/ EndCompare \/ Store \/ BeginMorning \/ SweepStep("scraper")
    \/ \E list \in SUBSET Bills : Poll(list)
    \/ \E b \in Bills : Collect(b) \/ NoDetail(b) \/ GiveUp(b) \/ Return(b)

ReconcileStep ==
    ReadRows \/ AddRows \/ ReadAgain \/ SweepStep("recon")

Next ==
    \/ \E b \in Bills : Appear(b) \/ Vanish(b)
    \/ \E list \in SUBSET Bills : BeginReconcile(list)
    \/ ScraperStep \/ ReconcileStep
    \/ Crash \/ DayPasses

Spec == Init /\ [][Next]_vars

\* The loop of the scraper and a reconciliation go on for as long as the process
\* lives, and the day comes to its end.
FairSpec ==
    /\ Spec
    /\ WF_vars(ScraperStep) /\ WF_vars(ReconcileStep) /\ SF_vars(DayPasses)
---------------------------------------------------------------------------
\* What the rows of a bill promise.

\* Fewer incomplete lists than the threshold never make the scraper give up a bill:
\* it has been off the list since a round that saw it was written to the state file,
\* through restarts that bring older counters back.
GivenUpIsReal ==
    [][\A b \in Bills :
          scraper'.pc = "compare" /\ track'[b].cancelled /\ ~track[b].cancelled
              => b \in away]_vars

\* Whatever failed during the day, whenever the process died, that morning too, and
\* however the scraper, reconciliations and restarts fell: in the end no bill that was
\* taken back is counted and no bill that was not is left cancelled, if the POS lists
\* any bill at all, but for the bills that the morning's last sweep was misled about,
\* failed to write or could not restore.  What fails for one bill is its own loss only.
MorningSettles ==
    <>[](listed # {} =>
            \A b \in Bills \ astray :
                IF b \in listed THEN unit[b] # "gone" ELSE ~Open(b))

\* A bill is counted once: "DB 已取消、POS 仍在 → 拉明细 revert 恢复数量".
CountedOnce == \A b \in Bills : ~(unit[b] = "open" /\ fix[b] = "open")
=============================================================================
