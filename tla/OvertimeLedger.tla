--------------------------- MODULE OvertimeLedger ---------------------------
(***************************************************************************)
(* Overtime, make-up hours, the leave that is given for them, and the      *)
(* closing of a month.  An employee's make-up hours of a month can be      *)
(* written off with whole days of leave; both sides are sums over rows     *)
(* that others decide, void and seal meanwhile.  Who decides holds the     *)
(* write lock from the first read to the commit, but not all of what is    *)
(* read is written under that lock: the columns of the attendance ledger   *)
(* that are filled in by hand are not, nor is the day someone resigns.     *)
(***************************************************************************)
EXTENDS Integers, FiniteSets

CONSTANTS
    Employees,
    Entries,      \* bound: ids of overtime_entries
    Deductions,   \* bound: ids of overtime_leave_deductions
    Hours,        \* half hours of an entry; negative: make-up
    DayCounts,    \* days of a deduction
    Salaries,     \* base salaries a profile may show
    Credits,      \* half days of leave that a month's schedule may yield
    NoShift,      \* what it yields to someone without a shift in it
    Hand,         \* balances in half days that a manager may fill in
    LastMonth,    \* bound: months are 1..LastMonth
    None

HALF_HOURS_MAX           == 24
HALF_HOURS_PER_LEAVE_DAY == 17
MAX_DEDUCTION_DAYS       == 31

VARIABLES
    now,          \* the month of today
    entry,        \* overtime_entries
    withdrawing,  \* entries whose employee has read them as pending, to cancel them
    deduction,    \* overtime_leave_deductions
    snapshot,     \* overtime_salary_snapshots: the salary a month is paid by
    credit,       \* the leave a month yields by its schedule, less its days
    ledger,       \* attendance_ledger
    manual,       \* a call by hand after its checks
    task          \* what the holder of the write lock has read and will write

ledgerVars == <<now, entry, withdrawing, deduction, snapshot, credit, ledger, manual, task>>

Months == 1..LastMonth
EntryStatus  == {"pending", "approved", "rejected", "cancelled", "voided"}
EntryRow     == [who : Employees, month : Months, hours : Hours, status : EntryStatus]
DeductionRow == [who : Employees, month : Months, days : DayCounts, status : EntryStatus]
LedgerRow    == [opening : Int \cup {None}, closing : Int \cup {None}, sealed : BOOLEAN]
ManualCall   == [who : Employees, month : Months, field : {"opening", "closing"},
                 value : Hand \cup {None}]
\* moved: history, the balance has changed since it was read.
Decision     == [op : {"submit", "approve"}, id : Deductions \cup {None}, who : Employees,
                 month : Months, days : DayCounts, moved : BOOLEAN]
Sealing      == [op : {"seal"}, month : Months, closing : [Employees -> Int \cup {None}]]
NoLedgerRow  == [opening |-> None, closing |-> None, sealed |-> FALSE]

ASSUME LedgerAssumption ==
    /\ IsFiniteSet(Entries) /\ IsFiniteSet(Deductions)
    /\ Hours \subseteq (-HALF_HOURS_MAX .. HALF_HOURS_MAX) \ {0}
    /\ DayCounts \subseteq 1..MAX_DEDUCTION_DAYS
    /\ Credits \subseteq Int /\ NoShift \in Credits
    /\ Hand \subseteq Int
    /\ LastMonth \in Nat \ {0}
    /\ None \notin Salaries /\ None \notin Int
    /\ None \notin EntryRow /\ None \notin DeductionRow /\ None \notin ManualCall
    /\ None \notin Decision /\ None \notin Sealing /\ None \notin Deductions

LedgerInit ==
    /\ now = 1
    /\ entry = [e \in Entries |-> None]
    /\ withdrawing = {}
    /\ deduction = [d \in Deductions |-> None]
    /\ snapshot = [s \in Employees |-> [m \in Months |-> None]]
    /\ credit = [s \in Employees |-> [m \in Months |-> NoShift]]
    /\ ledger = [s \in Employees |-> [m \in Months |-> NoLedgerRow]]
    /\ manual = None
    /\ task = None
---------------------------------------------------------------------------
Belongs(r, s, m) == r # None /\ r.who = s /\ r.month = m

Counts(r, s, m) == Belongs(r, s, m) /\ r.status = "approved"

\* The half hours of approved make-up of s in m, each <<its entry, its number>>.
MakeupUnits(s, m) ==
    {u \in {e \in Entries : Counts(entry[e], s, m)} \X (1..HALF_HOURS_MAX) :
        u[2] <= -entry[u[1]].hours}

ApprovedMakeup(s, m) == Cardinality(MakeupUnits(s, m))

\* The days approved to be written off, each <<its deduction, its number>>.
DayUnits(s, m) ==
    {u \in {d \in Deductions : Counts(deduction[d], s, m)} \X (1..MAX_DEDUCTION_DAYS) :
        u[2] <= deduction[u[1]].days}

DeductionDays(s, m) == Cardinality(DayUnits(s, m))

OrZero(v) == IF v = None THEN 0 ELSE v

\* The leave that s brings into m: sealed last month, or filled in by hand.
PreviousBalance(s, m) ==
    IF m > 1 /\ ledger[s][m - 1].sealed THEN OrZero(ledger[s][m - 1].closing)
    ELSE OrZero(ledger[s][m].opening)

\* The leave s has at the end of m, in half days; what was filled in by hand counts.
Balance(s, m) ==
    IF ledger[s][m].closing # None THEN ledger[s][m].closing
    ELSE credit[s][m] + PreviousBalance(s, m) - 2 * DeductionDays(s, m)

\* May n days of s in m be written off.
Capacity(s, m, n) ==
    /\ ~ledger[s][m].sealed
    /\ HALF_HOURS_PER_LEAVE_DAY * (DeductionDays(s, m) + n) <= ApprovedMakeup(s, m)
    /\ 2 * n <= Balance(s, m)
---------------------------------------------------------------------------
\* Fault: the day may be ahead.
SubmitAnyDay(e, s, m, h) ==
    /\ task = None
    /\ entry[e] = None
    /\ entry' = [entry EXCEPT ![e] = [who |-> s, month |-> m, hours |-> h,
                                      status |-> "pending"]]
    /\ UNCHANGED <<now, withdrawing, deduction, snapshot, credit, ledger, manual, task>>

\* An employee for today or yesterday, a manager for any day that is not ahead.
SubmitEntry(e, s, m, h) ==
    /\ task = None
    /\ entry[e] = None
    /\ m <= now
    /\ entry' = [entry EXCEPT ![e] = [who |-> s, month |-> m, hours |-> h,
                                      status |-> "pending"]]
    /\ UNCHANGED <<now, withdrawing, deduction, snapshot, credit, ledger, manual, task>>

EntryIs(e, status) == entry[e] # None /\ entry[e].status = status

\* The row is updated only while its status is still the expected one.
ClaimEntry(e, from, to) ==
    /\ EntryIs(e, from)
    /\ entry' = [entry EXCEPT ![e].status = to]

\* cancel reads the entry before it has the lock.
CancelRead(e) ==
    /\ EntryIs(e, "pending")
    /\ e \notin withdrawing
    /\ withdrawing' = withdrawing \cup {e}
    /\ UNCHANGED <<now, entry, deduction, snapshot, credit, ledger, manual, task>>

CancelDecide(e) ==
    /\ task = None
    /\ e \in withdrawing
    /\ withdrawing' = withdrawing \ {e}
    /\ \/ ClaimEntry(e, "pending", "cancelled")
       \/ ~EntryIs(e, "pending") /\ UNCHANGED entry
    /\ UNCHANGED <<now, deduction, snapshot, credit, ledger, manual, task>>

\* The first approval of a month fixes the salary it is paid by.
WithSnapshot(s, m, salary) ==
    snapshot' = IF snapshot[s][m] = None THEN [snapshot EXCEPT ![s][m] = salary]
                ELSE snapshot

\* Snapshot and status are one transaction; a claim that fails takes the snapshot along.
Approve(e) ==
    /\ task = None
    /\ ClaimEntry(e, "pending", "approved")
    /\ \E salary \in Salaries : WithSnapshot(entry[e].who, entry[e].month, salary)
    /\ UNCHANGED <<now, withdrawing, deduction, credit, ledger, manual, task>>

Reject(e) ==
    /\ task = None
    /\ ClaimEntry(e, "pending", "rejected")
    /\ UNCHANGED <<now, withdrawing, deduction, snapshot, credit, ledger, manual, task>>

\* Make-up hours that have been written off stay.
VoidEntry(e) ==
    /\ task = None
    /\ ClaimEntry(e, "approved", "voided")
    /\ LET s == entry[e].who
           m == entry[e].month
       IN  entry[e].hours < 0 =>
               ApprovedMakeup(s, m) + entry[e].hours
                   >= HALF_HOURS_PER_LEAVE_DAY * DeductionDays(s, m)
    /\ UNCHANGED <<now, withdrawing, deduction, snapshot, credit, ledger, manual, task>>
---------------------------------------------------------------------------
\* The reads of a decision, under the lock; it goes on only if they allow it.
Weigh(op, d, s, m, n) ==
    /\ task = None
    /\ Capacity(s, m, n)
    /\ task' = [op |-> op, id |-> d, who |-> s, month |-> m, days |-> n, moved |-> FALSE]
    /\ UNCHANGED <<now, entry, withdrawing, deduction, snapshot, credit, ledger, manual>>

SubmitCheck(s, m, n) == Weigh("submit", None, s, m, n)

\* Fault: the capacity of the submission is taken for that of the approval.
ApproveOnOldCapacity(d) ==
    /\ task = None
    /\ deduction[d] # None /\ deduction[d].status = "pending"
    /\ task' = [op |-> "approve", id |-> d, who |-> deduction[d].who,
                month |-> deduction[d].month, days |-> deduction[d].days, moved |-> FALSE]
    /\ UNCHANGED <<now, entry, withdrawing, deduction, snapshot, credit, ledger, manual>>

\* What was free at the submission may be used up by now.
ApproveCheck(d) ==
    /\ deduction[d] # None /\ deduction[d].status = "pending"
    /\ Weigh("approve", d, deduction[d].who, deduction[d].month, deduction[d].days)

Holds(op) == task # None /\ task.op = op

\* The writes: from the first of them to the commit nobody else gets the connection.
SubmitDeduction(d) ==
    /\ Holds("submit")
    /\ deduction[d] = None
    /\ deduction' = [deduction EXCEPT ![d] = [who |-> task.who, month |-> task.month,
                                              days |-> task.days, status |-> "pending"]]
    /\ task' = None
    /\ UNCHANGED <<now, entry, withdrawing, snapshot, credit, ledger, manual>>

ClaimDeduction(d, from, to) ==
    /\ deduction[d] # None
    /\ deduction[d].status = from
    /\ deduction' = [deduction EXCEPT ![d].status = to]
    /\ task' = None
    /\ UNCHANGED <<now, entry, withdrawing, snapshot, credit, ledger, manual>>

ApproveDeduction(d) ==
    /\ Holds("approve") /\ task.id = d
    /\ ClaimDeduction(d, "pending", "approved")

\* A query fails: the transaction is rolled back.
GiveUp ==
    /\ task # None
    /\ task' = None
    /\ UNCHANGED <<now, entry, withdrawing, deduction, snapshot, credit, ledger, manual>>

RejectDeduction(d) == task = None /\ ClaimDeduction(d, "pending", "rejected")
CancelDeduction(d) == task = None /\ ClaimDeduction(d, "pending", "cancelled")

\* Fault: the month may be sealed.
VoidAnyDeduction(d) == task = None /\ ClaimDeduction(d, "approved", "voided")

VoidDeduction(d) ==
    /\ task = None
    /\ ClaimDeduction(d, "approved", "voided")
    /\ ~ledger[deduction[d].who][deduction[d].month].sealed
---------------------------------------------------------------------------
\* Who has a shift or an entry in m.
OnRecord(s, m) == credit[s][m] # NoShift \/ \E e \in Entries : Belongs(entry[e], s, m)

\* A month that is over is closed once, for everybody on record: the reads ...
SealRead(m) ==
    /\ task = None
    /\ m < now
    /\ \A s \in Employees : ~ledger[s][m].sealed
    /\ task' = [op |-> "seal", month |-> m,
                closing |-> [s \in Employees |-> IF OnRecord(s, m) THEN Balance(s, m) ELSE None]]
    /\ UNCHANGED <<now, entry, withdrawing, deduction, snapshot, credit, ledger, manual>>

\* ... and the write of what was read.
Seal ==
    /\ Holds("seal")
    /\ ledger' = [s \in Employees |->
                 IF task.closing[s] = None THEN ledger[s]
                 ELSE [ledger[s] EXCEPT ![task.month].closing = task.closing[s],
                                        ![task.month].sealed = TRUE]]
    /\ task' = None
    /\ UNCHANGED <<now, entry, withdrawing, deduction, snapshot, credit, manual>>

\* A decision is about s in m.
About(s, m) == task # None /\ task.op # "seal" /\ task.who = s /\ task.month = m

\* Who writes without the lock may move the balance that a decision has read.
Moving ==
    task' = IF \E s \in Employees, m \in Months :
                   About(s, m) /\ Balance(s, m)' # Balance(s, m)
            THEN [task EXCEPT !.moved = TRUE]
            ELSE task

\* A column of this month is filled in or cleared by hand: the checks ...
ManualCheck(s, field, value) ==
    /\ manual = None
    /\ field = "closing" => ~ledger[s][now].sealed
    /\ manual' = [who |-> s, month |-> now, field |-> field, value |-> value]
    /\ UNCHANGED <<now, entry, withdrawing, deduction, snapshot, credit, ledger, task>>

\* ... and the write, which names that one column and takes no write lock.
ManualWrite ==
    /\ manual # None
    /\ ledger' = [ledger EXCEPT ![manual.who][manual.month] =
                  IF manual.field = "closing" THEN [@ EXCEPT !.closing = manual.value]
                  ELSE [@ EXCEPT !.opening = manual.value]]
    /\ manual' = None
    /\ UNCHANGED <<now, entry, withdrawing, deduction, snapshot, credit>>
    /\ Moving

\* Shifts, half days, holidays, birthdays and years of service: at any time, of any month.
Reschedule(s, m, c) ==
    /\ credit' = [credit EXCEPT ![s][m] = c]
    /\ UNCHANGED <<now, entry, withdrawing, deduction, snapshot, ledger, manual>>
    /\ Moving

NextMonth ==
    /\ now < LastMonth
    /\ now' = now + 1
    /\ UNCHANGED <<entry, withdrawing, deduction, snapshot, credit, ledger, manual, task>>

LedgerNext ==
    \/ \E e \in Entries :
         \/ \E s \in Employees, m \in Months, h \in Hours : SubmitEntry(e, s, m, h)
         \/ CancelRead(e) \/ CancelDecide(e) \/ Approve(e) \/ Reject(e) \/ VoidEntry(e)
    \/ \E d \in Deductions :
         \/ SubmitDeduction(d) \/ ApproveCheck(d) \/ ApproveDeduction(d)
         \/ RejectDeduction(d) \/ CancelDeduction(d) \/ VoidDeduction(d)
    \/ \E s \in Employees, m \in Months, n \in DayCounts : SubmitCheck(s, m, n)
    \/ \E m \in Months : SealRead(m)
    \/ Seal
    \/ GiveUp
    \/ \E s \in Employees, f \in {"opening", "closing"}, v \in Hand \cup {None} :
         ManualCheck(s, f, v)
    \/ ManualWrite
    \/ \E s \in Employees, m \in Months, c \in Credits : Reschedule(s, m, c)
    \/ NextMonth

LedgerSpec == LedgerInit /\ [][LedgerNext]_ledgerVars
---------------------------------------------------------------------------
(* Properties *)

\* Entries are never ahead of today, and what is sealed is a month that is over.
LedgerTypeOK ==
    /\ now \in Months
    /\ entry \in [Entries -> EntryRow \cup {None}]
    /\ \A e \in Entries : entry[e] # None => entry[e].month <= now
    /\ withdrawing \subseteq Entries
    /\ deduction \in [Deductions -> DeductionRow \cup {None}]
    /\ snapshot \in [Employees -> [Months -> Salaries \cup {None}]]
    /\ credit \in [Employees -> [Months -> Credits]]
    /\ ledger \in [Employees -> [Months -> LedgerRow]]
    /\ \A s \in Employees, m \in Months : ledger[s][m].sealed => m < now
    /\ manual \in ManualCall \cup {None}
    /\ task \in Decision \cup Sealing \cup {None}
    /\ Holds("seal") => task.month < now

\* Hours that were written off with leave are approved make-up hours to the last half hour,
\* whatever is withdrawn, rejected, voided or approved between the request of a deduction
\* and its approval, and after it (ledger.py: _capacity_for_decision, makeup_in_use).
MakeupCovers ==
    \A s \in Employees, m \in Months :
        HALF_HOURS_PER_LEAVE_DAY * DeductionDays(s, m) <= ApprovedMakeup(s, m)

\* A month has a salary to be paid by exactly if one of its entries was ever approved: no
\* approval without a salary, and no salary left behind by an approval that failed
\* (ledger.py: approve).
SnapshotFits ==
    \A s \in Employees, m \in Months :
        snapshot[s][m] # None <=>
            \E e \in Entries : /\ Belongs(entry[e], s, m)
                              /\ entry[e].status \in {"approved", "voided"}

\* What is paid and what is written off is what was decided, whoever decides meanwhile.
PaidAsDecided == MakeupCovers /\ SnapshotFits

\* A sealed month stands: the days written off in it do not change any more, and its balance
\* only if a call by hand that was checked before the month was over is written now.
SealedStands ==
    \A s \in Employees, m \in Months :
        ledger[s][m].sealed =>
            /\ ledger'[s][m].sealed
            /\ \/ ledger'[s][m].closing = ledger[s][m].closing
               \/ /\ manual # None /\ manual.who = s /\ manual.month = m
                  /\ manual.field = "closing" /\ manual' = None
            /\ DeductionDays(s, m)' = DeductionDays(s, m)

\* Unless the balance is filled in by hand, approved days are taken from it, and it had them,
\* unless it moved between the reads of the approval and its write.
TakenFromBalance ==
    \A s \in Employees, m \in Months :
        LET taken == DeductionDays(s, m)' - DeductionDays(s, m)
        IN  ledger[s][m].closing = None /\ taken > 0 =>
                /\ About(s, m)
                /\ Balance(s, m)' = Balance(s, m) - 2 * taken
                /\ task.moved \/ Balance(s, m)' >= 0

\* The leave of a month is settled once and spent once; what calls without the write lock do
\* to it in the middle of a decision or after the end of their month is left out (store.py:
\* seal, month_sealed, set_manual_columns; ledger.py: void_deduction, approve_deduction).
LeaveStands == [][SealedStands /\ TakenFromBalance]_ledgerVars

\* ledger.py says of _month_sealed that what is sealed is final.  It is not: a call by hand
\* that was checked before the month was sealed may still be written.
SealedIsFinal ==
    [][\A s \in Employees, m \in Months :
         ledger[s][m].sealed => ledger'[s][m].closing = ledger[s][m].closing]_ledgerVars

\* ledger.py says of deduction_capacity that deductions never take the leave below zero.
\* They do when the balance moves between the reads of an approval and its write.
NeverOverdrawn ==
    [][\A s \in Employees, m \in Months :
         ledger[s][m].closing = None /\ DeductionDays(s, m)' > DeductionDays(s, m) =>
             Balance(s, m)' >= 0]_ledgerVars
=============================================================================
