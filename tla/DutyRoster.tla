---------------------------- MODULE DutyRoster ----------------------------
(***************************************************************************)
(* The staff roster of one business day: rotation rules, the single-day    *)
(* overrides, the row of the day that both lead to, and the requests for   *)
(* leave and swaps.  A call checks first, without the write lock, and      *)
(* writes later in one locked transaction; whatever other calls did in     *)
(* between, the transaction knows only what it asks again.                 *)
(***************************************************************************)
EXTENDS Integers

CONSTANTS
    Staff,
    Shifts,
    Rest,      \* "shift_id IS NULL": a day off
    NoRule,    \* no row in scheduling_rules
    Calls,     \* bound: calls under way at the same time
    Requests,  \* bound: ids of scheduling_requests
    MaxCalls   \* bound: how many calls there will be

ASSUME RosterAssumption ==
    /\ Rest \notin Shifts /\ NoRule \notin Shifts /\ Rest # NoRule
    /\ MaxCalls \in Nat

VARIABLES
    day,     \* the day is ahead, today or past
    active,  \* staff_shifts that are in use
    rule,    \* scheduling_rules, what the cycle says of the day
    over,    \* scheduling_overrides: kind and shift
    row,     \* staff_assignments: shift and source
    gone,    \* resigned_at, as Departures tells it, or "no"
    kept,    \* history: whose rule a resignation deleted and left the row of the day
    req,     \* scheduling_requests
    call,    \* what each call under way has checked and will write
    calls    \* how many calls there have been

tables == <<active, rule, over, row, gone, kept, req>>
vars   == <<day, tables, call, calls>>

\* A last day before this one is "ahead" until it is over, then e has "left"; a last
\* day not before this one is "after" until it is over, then e has "served" the day.
Departures == {"ahead", "left", "after", "served"}

\* What a departure may have become on a day that is d.
Aged(g, d) ==
    CASE g = "ahead" -> IF d = "ahead" THEN {"ahead", "left"} ELSE {"left"}
      [] g = "after" -> IF d = "past" THEN {"after", "served"} ELSE {"after"}
      [] OTHER -> {g}

DayShift == Shifts \cup {Rest}
NoOver   == [kind |-> "none", shift |-> Rest]
Void     == [kind |-> "void", shift |-> Rest]
NoRow    == [source |-> "none", shift |-> Rest]
Manual(s) == [kind |-> "manual", shift |-> s]
Leave     == [kind |-> "leave", shift |-> Rest]
Swap(s)   == [kind |-> "swap", shift |-> s]
RuleRow(s) == [source |-> "rule", shift |-> s]
OverRow(s) == [source |-> "override", shift |-> s]

NoRequest == [kind |-> "none"]
LeaveRequest == [kind : {"leave"}, by : Staff,
                 status : {"pending_manager", "approved", "rejected", "cancelled"}]
SwapRequest  == [kind : {"swap"}, by : Staff, peer : Staff,
                 status : {"pending_peer", "pending_manager",
                           "approved", "rejected", "cancelled"}]
Pending(r) == req[r] # NoRequest /\ req[r].status \in {"pending_peer", "pending_manager"}

\* Those whose day a request is about.
People(q) == IF q.kind = "swap" THEN {q.by, q.peer} ELSE {q.by}

Idle == [op |-> "idle"]

\* What a call under way carries from its check to its transaction.
Work == {Idle}
    \cup [op : {"rule"}, who : Staff, shift : DayShift, past : BOOLEAN]
    \cup [op : {"edit"}, who : Staff, shift : DayShift]
    \cup [op : {"void", "restore", "leave"}, who : Staff]
    \cup [op : {"swap"}, who : Staff, peer : Staff]
    \cup [op : {"approve"}, id : Requests]
    \cup [op : {"decide"}, id : Requests,
          from : SUBSET {"pending_peer", "pending_manager"},
          to : {"pending_manager", "rejected", "cancelled"}]
    \cup [op : {"resign"}, who : Staff, as : Departures]

TypeOK ==
    /\ day \in {"ahead", "today", "past"}
    /\ active \subseteq Shifts
    /\ rule \in [Staff -> DayShift \cup {NoRule}]
    /\ over \in [Staff -> [kind : {"none", "void"}, shift : {Rest}]
                          \cup [kind : {"leave"}, shift : {Rest}]
                          \cup [kind : {"manual", "swap"}, shift : DayShift]]
    /\ row \in [Staff -> {NoRow} \cup [source : {"rule", "override"}, shift : DayShift]]
    /\ gone \in [Staff -> Departures \cup {"no"}]
    /\ kept \subseteq Staff
    /\ req \in [Requests -> {NoRequest} \cup LeaveRequest \cup SwapRequest]
    /\ call \in [Calls -> Work]
    /\ calls \in 0..MaxCalls

\* The day has just come into the 90 days that are laid out.
Init ==
    /\ day = "ahead"
    /\ active = Shifts
    /\ rule \in [Staff -> DayShift \cup {NoRule}]
    /\ over = [e \in Staff |-> NoOver]
    /\ row = [e \in Staff |-> NoRow]
    /\ gone = [e \in Staff |-> "no"]
    /\ kept = {}
    /\ req = [r \in Requests |-> NoRequest]
    /\ call = [c \in Calls |-> Idle]
    /\ calls = 0

Spend == calls < MaxCalls /\ calls' = calls + 1

\* Call c has made its checks; w is what it will write.
Begin(c, w) ==
    /\ call[c] = Idle
    /\ call' = [call EXCEPT ![c] = w]
    /\ Spend
    /\ UNCHANGED day

\* The transaction of call c, which is of kind op.
Transact(c, op) ==
    /\ call[c].op = op
    /\ call' = [call EXCEPT ![c] = Idle]
    /\ UNCHANGED <<day, calls>>

\* A call whose checks are inside its transaction.
AtOnce == Spend /\ UNCHANGED <<day, call>>

\* The lock-free guards of a call on the day of e.
InRoster(e) == gone[e] \notin {"left", "served"}
Employed(e) == gone[e] \notin {"ahead", "left"}
OnLeave(e)  == over[e].kind = "leave"
Usable(s)   == s \in active \cup {Rest}
---------------------------------------------------------------------------
\* Rules and their rows.

\* Fault: a blank that was asked for is filled, an override forgotten.
GrownByRule(e, s, old) == IF old # NoRow THEN old ELSE RuleRow(s)

\* _expand_rows: what the day of e becomes under a rule that says s, if it was old.
Grown(e, s, old) ==
    IF old # NoRow \/ over[e] = Void THEN old
    ELSE IF over[e] = NoOver THEN RuleRow(s) ELSE OverRow(over[e].shift)

\* The row that is left when a rule and its future rows are deleted.
WithoutRule(e, past) == IF ~past /\ row[e].source = "rule" THEN NoRow ELSE row[e]

\* Nothing happens: the transaction found its call out of date.
Refused == UNCHANGED tables

SetRule(c, e, s) ==
    /\ gone[e] = "no" /\ Usable(s)
    /\ Begin(c, [op |-> "rule", who |-> e, shift |-> s, past |-> day = "past"])
    /\ UNCHANGED tables

\* Fault: the shifts were looked at before.
ApplyRuleUnseen(c) ==
    LET w == call[c]
        old == WithoutRule(w.who, w.past) IN
    /\ Transact(c, "rule")
    /\ rule' = [rule EXCEPT ![w.who] = w.shift]
    /\ row' = [row EXCEPT ![w.who] = IF w.past THEN old ELSE Grown(w.who, w.shift, old)]
    /\ kept' = kept \ {w.who}
    /\ UNCHANGED <<active, over, gone, req>>

ApplyRule(c) ==
    LET w == call[c]
        old == WithoutRule(w.who, w.past) IN
    /\ Transact(c, "rule")
    /\ \/ ~Usable(w.shift) /\ Refused
       \/ /\ Usable(w.shift)
          /\ rule' = [rule EXCEPT ![w.who] = w.shift]
          /\ row' = [row EXCEPT ![w.who] =
                       IF w.past THEN old ELSE Grown(w.who, w.shift, old)]
          /\ kept' = kept \ {w.who}
          /\ UNCHANGED <<active, over, gone, req>>

ClearRule(e) ==
    /\ rule[e] # NoRule
    /\ AtOnce
    /\ rule' = [rule EXCEPT ![e] = NoRule]
    /\ row' = [row EXCEPT ![e] = WithoutRule(e, day = "past")]
    /\ UNCHANGED <<active, over, gone, kept, req>>

\* The rows of the table after the rule of e has been laid out once more.
Expanded(e) ==
    IF rule[e] = NoRule \/ ~Usable(rule[e]) \/ day = "past" THEN row
    ELSE [row EXCEPT ![e] = Grown(e, rule[e], row[e])]

\* Any page that shows the day lays out what is missing.
Expand(e) ==
    /\ row' = Expanded(e) /\ row' # row
    /\ UNCHANGED <<day, active, rule, over, gone, kept, req, call, calls>>

\* A shift goes out of use, unless a rule has it or it is the last one.
DeactivateShift(s) ==
    /\ s \in active /\ active # {s}
    /\ \A e \in Staff : rule[e] # s
    /\ AtOnce
    /\ active' = active \ {s}
    /\ UNCHANGED <<rule, over, row, gone, kept, req>>

ActivateShift(s) ==
    /\ s \in Shifts \ active
    /\ AtOnce
    /\ active' = active \cup {s}
    /\ UNCHANGED <<rule, over, row, gone, kept, req>>
---------------------------------------------------------------------------
\* Single days.

\* The month calendar: set_override.
EditOnCalendar(c, e, s) ==
    /\ Employed(e) /\ Usable(s) /\ ~OnLeave(e)
    /\ Begin(c, [op |-> "edit", who |-> e, shift |-> s])
    /\ UNCHANGED tables

\* The week grid: set_overrides_batch, one cell of it.
EditInBatch(c, e, s) ==
    /\ InRoster(e) /\ Usable(s) /\ ~OnLeave(e)
    /\ Begin(c, [op |-> "edit", who |-> e, shift |-> s])
    /\ UNCHANGED tables

\* The attendance sheet: set_day_override, of a day that has come.
EditOnSheet(c, e, s) ==
    /\ day # "ahead"
    /\ Employed(e) /\ Usable(s)
    /\ ~\E r \in Requests : Pending(r) /\ e \in People(req[r])
    /\ Begin(c, [op |-> "edit", who |-> e, shift |-> s])
    /\ UNCHANGED tables

\* A batch that blanks the day, or takes it back to the rule.
VoidOrRestore(c, e, op) ==
    /\ op \in {"void", "restore"}
    /\ InRoster(e) /\ ~OnLeave(e)
    /\ Begin(c, [op |-> op, who |-> e])
    /\ UNCHANGED tables

ApplyOverride(c) ==
    LET w == call[c] IN
    /\ Transact(c, "edit")
    /\ over' = [over EXCEPT ![w.who] = Manual(w.shift)]
    /\ row' = [row EXCEPT ![w.who] = OverRow(w.shift)]
    /\ UNCHANGED <<active, rule, gone, kept, req>>

VoidBatchRow(c) ==
    LET w == call[c] IN
    /\ Transact(c, "void")
    /\ over' = [over EXCEPT ![w.who] = Void]
    /\ row' = [row EXCEPT ![w.who] = NoRow]
    /\ UNCHANGED <<active, rule, gone, kept, req>>

\* _restore_day: the row of e once its override is deleted.
Restored(e) ==
    IF row[e] = NoRow /\ over[e] # Void THEN NoRow
    ELSE IF rule[e] = NoRule
         THEN IF row[e].source = "override" THEN NoRow ELSE row[e]
         ELSE RuleRow(rule[e])

RestoreDay(e) ==
    /\ over' = [over EXCEPT ![e] = NoOver]
    /\ row' = [row EXCEPT ![e] = Restored(e)]
    /\ UNCHANGED <<active, rule, gone, kept, req>>

ClearBatchRow(c) == Transact(c, "restore") /\ RestoreDay(call[c].who)

ClearOverride(e) == ~OnLeave(e) /\ AtOnce /\ RestoreDay(e)
---------------------------------------------------------------------------
\* Leave and swaps.

FreeSlot == \E r \in Requests : req[r] = NoRequest

AskLeave(c, e) ==
    /\ InRoster(e) /\ day # "past" /\ FreeSlot
    /\ ~\E r \in Requests : /\ req[r].kind = "leave"
                            /\ req[r].by = e
                            /\ req[r].status \in {"pending_manager", "approved"}
    /\ Begin(c, [op |-> "leave", who |-> e])
    /\ UNCHANGED tables

PendingSwap(r, e, p) ==
    req[r].kind = "swap" /\ req[r].by = e /\ req[r].peer = p /\ Pending(r)

\* Someone who works that day asks p, who is in no swap of that day yet.
AskSwap(c, e, p) ==
    /\ InRoster(e) /\ InRoster(p) /\ e # p /\ day # "past" /\ FreeSlot
    /\ row' = Expanded(e) /\ row'[e].shift # Rest
    /\ \A r \in Requests :
        /\ ~PendingSwap(r, e, p)
        /\ ~(Pending(r) /\ req[r].kind = "swap" /\ p \in People(req[r]))
    /\ Begin(c, [op |-> "swap", who |-> e, peer |-> p])
    /\ UNCHANGED <<active, rule, over, gone, kept, req>>

InsertLeave(c) ==
    /\ Transact(c, "leave")
    /\ \E r \in Requests :
        /\ req[r] = NoRequest
        /\ req' = [req EXCEPT ![r] =
                     [kind |-> "leave", by |-> call[c].who, status |-> "pending_manager"]]
    /\ UNCHANGED <<active, rule, over, row, gone, kept>>

\* idx_scheduling_requests_swap_once refuses the same question a second time.
InsertSwap(c) ==
    LET w == call[c] IN
    /\ Transact(c, "swap")
    /\ \/ (\E r \in Requests : PendingSwap(r, w.who, w.peer)) /\ Refused
       \/ /\ ~\E r \in Requests : PendingSwap(r, w.who, w.peer)
          /\ \E r \in Requests :
              /\ req[r] = NoRequest
              /\ req' = [req EXCEPT ![r] = [kind |-> "swap", by |-> w.who,
                                            peer |-> w.peer, status |-> "pending_peer"]]
          /\ UNCHANGED <<active, rule, over, row, gone, kept>>

BeginDecision(c, r, from, to) ==
    /\ req[r] # NoRequest /\ req[r].status \in from
    /\ Begin(c, [op |-> "decide", id |-> r, from |-> from, to |-> to])
    /\ UNCHANGED tables

AnswerSwap(c, r, to) ==
    /\ req[r].kind = "swap" /\ InRoster(req[r].peer)
    /\ BeginDecision(c, r, {"pending_peer"}, to)

CancelRequest(c, r) ==
    /\ req[r] # NoRequest /\ InRoster(req[r].by)
    /\ BeginDecision(c, r, {"pending_peer", "pending_manager"}, "cancelled")

RejectRequest(c, r) == BeginDecision(c, r, {"pending_manager"}, "rejected")

ApproveRequest(c, r) ==
    /\ req[r] # NoRequest /\ req[r].status = "pending_manager"
    /\ Begin(c, [op |-> "approve", id |-> r])
    /\ UNCHANGED tables

\* Fault: the status was looked at before.
ClaimBlindly(r, from, to) == req' = [req EXCEPT ![r].status = to]

\* _claim_request: the first to find the request in a status of from has it.
Claim(r, from, to) ==
    req[r].status \in from /\ req' = [req EXCEPT ![r].status = to]

Decide(c) ==
    LET w == call[c] IN
    /\ Transact(c, "decide")
    /\ \/ req[w.id].status \notin w.from /\ Refused
       \/ Claim(w.id, w.from, w.to) /\ UNCHANGED <<active, rule, over, row, gone, kept>>

\* A leave becomes the override of its day, unless that day is past.
ApproveLeave(c) ==
    LET q == req[call[c].id] IN
    /\ Transact(c, "approve") /\ q.kind = "leave"
    /\ \/ q.status # "pending_manager" /\ Refused
       \/ /\ Claim(call[c].id, {"pending_manager"}, "approved")
          /\ IF day = "past" THEN UNCHANGED <<over, row>>
             ELSE /\ over' = [over EXCEPT ![q.by] = Leave]
                  /\ row' = [row EXCEPT ![q.by] = OverRow(Rest)]
          /\ UNCHANGED <<active, rule, gone, kept>>

\* Fault: what the rule says of e.
HasByRule(e) == rule[e]

\* _day_shift: what e has that day; nothing yet is exchanged like a day off.
Has(e) == row[e].shift

\* A swap exchanges what both have at that moment, if neither is on leave.
ApproveSwap(c) ==
    LET q == req[call[c].id]
        late == day = "past" IN
    /\ Transact(c, "approve") /\ q.kind = "swap"
    /\ \/ q.status # "pending_manager" /\ Refused
       \/ ~late /\ (OnLeave(q.by) \/ OnLeave(q.peer)) /\ Refused
       \/ /\ Claim(call[c].id, {"pending_manager"}, "approved")
          /\ late \/ ~(OnLeave(q.by) \/ OnLeave(q.peer))
          /\ IF late THEN UNCHANGED <<over, row>>
             ELSE /\ over' = [over EXCEPT ![q.by] = Swap(Has(q.peer)),
                                          ![q.peer] = Swap(Has(q.by))]
                  /\ row' = [row EXCEPT ![q.by] = OverRow(Has(q.peer)),
                                        ![q.peer] = OverRow(Has(q.by))]
          /\ UNCHANGED <<active, rule, gone, kept>>
---------------------------------------------------------------------------
\* People leave, and time passes.

\* clear_after_resignation: the rule goes whatever the last day is, and the rows after
\* the last day.
Resign(c, e, as) ==
    /\ as = "ahead" => day = "ahead"
    /\ as = "served" => day = "past"
    /\ Begin(c, [op |-> "resign", who |-> e, as |-> as])
    /\ rule' = [rule EXCEPT ![e] = NoRule]
    /\ IF as \in {"ahead", "left"}
       THEN row' = [row EXCEPT ![e] = NoRow] /\ kept' = kept
       ELSE kept' = kept \cup {e} /\ row' = row
    /\ UNCHANGED <<active, over, gone, req>>

\* accounts.resign: the date is written by a transaction of its own.
WriteDate(c) ==
    /\ Transact(c, "resign")
    /\ \E g \in Aged(call[c].as, day) : gone' = [gone EXCEPT ![call[c].who] = g]
    /\ UNCHANGED <<active, rule, over, row, kept, req>>

CancelResignation(e) ==
    /\ gone[e] # "no"
    /\ AtOnce
    /\ gone' = [gone EXCEPT ![e] = "no"]
    /\ UNCHANGED <<active, rule, over, row, kept, req>>

DayPasses ==
    /\ day # "past"
    /\ day' = IF day = "ahead" THEN "today" ELSE "past"
    /\ gone' \in [Staff -> Departures \cup {"no"}]
    /\ \A e \in Staff : gone'[e] \in Aged(gone[e], day')
    /\ UNCHANGED <<active, rule, over, row, kept, req, call, calls>>
---------------------------------------------------------------------------

RuleStep ==
    \/ \E s \in Shifts : DeactivateShift(s) \/ ActivateShift(s)
    \/ \E e \in Staff : ClearRule(e) \/ Expand(e)
    \/ \E c \in Calls : ApplyRule(c)
    \/ \E c \in Calls, e \in Staff, s \in DayShift : SetRule(c, e, s)

EditStep ==
    \/ \E e \in Staff : ClearOverride(e)
    \/ \E c \in Calls : ApplyOverride(c) \/ VoidBatchRow(c) \/ ClearBatchRow(c)
    \/ \E c \in Calls, e \in Staff :
        \/ \E s \in DayShift :
            EditOnCalendar(c, e, s) \/ EditInBatch(c, e, s) \/ EditOnSheet(c, e, s)
        \/ \E op \in {"void", "restore"} : VoidOrRestore(c, e, op)

RequestStep ==
    \/ \E c \in Calls :
        InsertLeave(c) \/ InsertSwap(c) \/ Decide(c) \/ ApproveLeave(c) \/ ApproveSwap(c)
    \/ \E c \in Calls, e \in Staff : AskLeave(c, e) \/ \E p \in Staff : AskSwap(c, e, p)
    \/ \E c \in Calls, r \in Requests :
        \/ CancelRequest(c, r) \/ RejectRequest(c, r) \/ ApproveRequest(c, r)
        \/ \E to \in {"pending_manager", "rejected"} : AnswerSwap(c, r, to)

StaffStep ==
    \/ \E e \in Staff : CancelResignation(e)
    \/ \E c \in Calls : WriteDate(c)
    \/ \E c \in Calls, e \in Staff, as \in Departures : Resign(c, e, as)

Next == RuleStep \/ EditStep \/ RequestStep \/ StaffStep \/ DayPasses

Spec == Init /\ [][Next]_vars
---------------------------------------------------------------------------
\* What the roster promises.

\* Two tables never tell different stories of a day: a row that an override wrote
\* is what the override says, a row of the rule has no override and, while the day
\* is not past, is what the rule of this moment says, and a blanked day has no row.
\* Only who resigned, to leave on that day or later, keeps the row without the rule:
\* clear_after_resignation deletes the whole rule, of the rows those after the last day.
RowsExplained ==
    \A e \in Staff :
        /\ row[e].source = "override" =>
            over[e].kind \in {"leave", "manual", "swap"} /\ over[e].shift = row[e].shift
        /\ row[e].source = "rule" =>
            /\ over[e] = NoOver
            /\ day # "past" => IF rule[e] = NoRule THEN e \in kept
                               ELSE rule[e] = row[e].shift

\* No rule has a shift that is out of use, whoever sets rules while shifts go.
RulesUseActiveShifts == \A e \in Staff : rule[e] = NoRule \/ Usable(rule[e])

\* However often it is asked, a colleague has one open question about a day from
\* the same person.
NoDoubleAsk ==
    \A r1, r2 \in Requests, e, p \in Staff :
        PendingSwap(r1, e, p) /\ PendingSwap(r2, e, p) => r1 = r2

\* What a call checked before it waited for the lock still holds of what it wrote:
\* set_rule of its shifts, submit_swap of the question it found nobody had asked.
ChecksHold == RulesUseActiveShifts /\ NoDoubleAsk

\* The status of a request only goes forward, a swap through its peer; a day becomes
\* a leave or a swap only in the step that approves the request for it, once, and
\* that step writes the day of everyone concerned unless the day is past.
Forward ==
    {<<"pending_peer", "pending_manager">>, <<"pending_peer", "rejected">>,
     <<"pending_peer", "cancelled">>, <<"pending_manager", "approved">>,
     <<"pending_manager", "rejected">>, <<"pending_manager", "cancelled">>}

Approves(r) == req'[r] # req[r] /\ req[r] # NoRequest /\ req'[r].status = "approved"

ApprovalIsOneStep ==
    [][/\ \A r \in Requests :
           /\ req[r] # NoRequest /\ req'[r] # req[r] =>
               /\ req'[r] = [req[r] EXCEPT !.status = req'[r].status]
               /\ <<req[r].status, req'[r].status>> \in Forward
           /\ Approves(r) /\ day # "past" =>
               \A e \in People(req[r]) : over'[e].kind = req[r].kind
       /\ \A e \in Staff :
           over'[e] # over[e] /\ over'[e].kind \in {"leave", "swap"} =>
               \E r \in Requests : Approves(r) /\ e \in People(req[r])]_vars

\* "If the day has an approved leave, nothing is written": a leave stays.
ApprovedLeaveStands ==
    [][\A e \in Staff : OnLeave(e) => OnLeave(e)']_vars
===========================================================================
