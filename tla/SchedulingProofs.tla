--------------------------- MODULE SchedulingProofs ---------------------------
(***************************************************************************)
(* Proofs about the schedule of a shop, in two parts.  The first is about  *)
(* DutyRoster, for every set of employees, shifts, calls under way and     *)
(* requests: the tables of a day never contradict each other, no rule      *)
(* names a shift out of use, no question is asked twice, and requests are  *)
(* decided and carried out in one step.  The second is about               *)
(* OvertimeLedger: its sums are cardinalities of sets of units, so that    *)
(* what a row adds to a sum, or takes from it, follows from the            *)
(* cardinality of a union.                                                 *)
(***************************************************************************)
EXTENDS DutyRoster, OvertimeLedger, FiniteSetTheorems, TLAPS

-----------------------------------------------------------------------------
(* The inductive invariant.  What a call carries was true when it looked,   *)
(* and some of it cannot become false before it writes: a day stays past,   *)
(* a request stays on record, and only the peer of a swap hands it on.      *)

Meant(w) ==
  /\ w.op = "rule" => (w.past => day = "past")
  /\ w.op \in {"approve", "decide"} => req[w.id] # NoRequest
  /\ w.op = "decide" => (w.to = "pending_manager" => w.from = {"pending_peer"})

CallsMeant == \A c \in Calls : Meant(call[c])

IInv == TypeOK /\ RowsExplained /\ RulesUseActiveShifts /\ NoDoubleAsk /\ CallsMeant

Request == {NoRequest} \cup LeaveRequest \cup SwapRequest
Status  == {"pending_peer", "pending_manager", "approved", "rejected", "cancelled"}

-----------------------------------------------------------------------------

LEMMA InitIInv == Init => IInv
<1> SUFFICES ASSUME Init PROVE IInv
    OBVIOUS
<1> USE RosterAssumption
<1>1. TypeOK
    BY DEF Init, TypeOK, NoOver, NoRow, NoRequest, Work, Idle
<1>2. RowsExplained /\ NoDoubleAsk /\ CallsMeant
    BY DEF Init, RowsExplained, NoDoubleAsk, CallsMeant, Meant, NoOver, NoRow, NoRequest,
           PendingSwap, Pending, Idle
<1>3. RulesUseActiveShifts
    BY DEF Init, RulesUseActiveShifts, Usable, DayShift
<1> QED BY <1>1, <1>2, <1>3 DEF IInv

\* A call that only looks changes nothing but what it carries.
LEMMA Looked ==
  ASSUME IInv, NEW c \in Calls, NEW w \in Work, Meant(w), Begin(c, w),
         UNCHANGED <<active, rule, over, gone, kept, req>>,
         row' \in [Staff -> {NoRow} \cup [source : {"rule", "override"}, shift : DayShift]],
         RowsExplained'
  PROVE  IInv'
<1>1. calls' \in 0..MaxCalls
    BY RosterAssumption DEF IInv, TypeOK, Begin, Spend
<1>2. call' \in [Calls -> Work] /\ \A b \in Calls : call'[b] = IF b = c THEN w ELSE call[b]
    BY DEF IInv, TypeOK, Begin
<1>3. TypeOK'
    BY <1>1, <1>2 DEF IInv, TypeOK, Begin, NoRow
<1>4. CallsMeant'
    BY <1>2 DEF IInv, CallsMeant, Meant, Begin
<1>5. RulesUseActiveShifts' /\ NoDoubleAsk'
    BY DEF IInv, RulesUseActiveShifts, Usable, NoDoubleAsk, PendingSwap, Pending
<1> QED BY <1>3, <1>4, <1>5 DEF IInv

\* A transaction frees its call.
LEMMA Freed ==
  ASSUME IInv, NEW c \in Calls, NEW op, Transact(c, op)
  PROVE  /\ call[c] \in Work /\ call[c].op = op /\ Meant(call[c])
         /\ call' \in [Calls -> Work] /\ call'[c] = Idle
         /\ \A b \in Calls \ {c} : call'[b] = call[b]
         /\ day' = day /\ calls' = calls /\ calls' \in 0..MaxCalls
BY DEF IInv, TypeOK, CallsMeant, Transact, Work

\* Calls stay meant while the day does not go back and requests stay on record.
LEMMA StillMeant ==
  ASSUME IInv, NEW c \in Calls, call'[c] = Idle \/ call'[c] = call[c],
         day = "past" => day' = "past",
         \A r \in Requests : req[r] # NoRequest => req'[r] # NoRequest
  PROVE  Meant(call[c])'
<1>1. CASE call'[c] = Idle
    BY <1>1 DEF Meant, Idle
<1>2. CASE call'[c] = call[c]
  <2>1. Meant(call[c]) /\ call[c] \in Work
    BY DEF IInv, CallsMeant, TypeOK
  <2>2. call[c].op \in {"approve", "decide"} => call[c].id \in Requests
    BY <2>1 DEF Work, Idle
  <2> QED BY <1>2, <2>1, <2>2 DEF Meant
<1> QED BY <1>1, <1>2

\* Laying out a day once more keeps it explained.
LEMMA ExpandedFits ==
  ASSUME IInv, NEW e \in Staff, row' = Expanded(e), UNCHANGED <<day, rule, over, kept>>
  PROVE  /\ row' \in [Staff -> {NoRow} \cup [source : {"rule", "override"}, shift : DayShift]]
         /\ RowsExplained'
<1>1. CASE rule[e] = NoRule \/ ~Usable(rule[e]) \/ day = "past"
    BY <1>1 DEF Expanded, IInv, TypeOK, RowsExplained
<1>2. CASE ~(rule[e] = NoRule \/ ~Usable(rule[e]) \/ day = "past")
  <2>1. rule[e] \in DayShift
    BY <1>2 DEF IInv, TypeOK
  <2>2. row' = [row EXCEPT ![e] = Grown(e, rule[e], row[e])]
    BY <1>2 DEF Expanded
  <2>3. Grown(e, rule[e], row[e]) \in {NoRow} \cup [source : {"rule", "override"}, shift : DayShift]
    BY <2>1 DEF IInv, TypeOK, Grown, RuleRow, OverRow, Void, NoOver, DayShift
  <2>4. row' \in [Staff -> {NoRow} \cup [source : {"rule", "override"}, shift : DayShift]]
    BY <2>2, <2>3 DEF IInv, TypeOK
  <2>5. \A x \in Staff \ {e} : row'[x] = row[x]
    BY <2>2 DEF IInv, TypeOK
  <2>6. row'[e] = Grown(e, rule[e], row[e])
    BY <2>2 DEF IInv, TypeOK
  <2>7. /\ row'[e].source = "override" =>
             over[e].kind \in {"leave", "manual", "swap"} /\ over[e].shift = row'[e].shift
        /\ row'[e].source = "rule" =>
             \/ over[e] = NoOver /\ rule[e] = row'[e].shift
             \/ row'[e] = row[e]
    BY <2>1, <2>6 DEF IInv, TypeOK, RowsExplained, Grown, RuleRow, OverRow, Void, NoOver, NoRow
  <2>8. RowsExplained'
    BY <1>2, <2>5, <2>7 DEF IInv, RowsExplained
  <2> QED BY <2>4, <2>8
<1> QED BY <1>1, <1>2

\* A row that has just been written, with the override that explains it.
LEMMA DayWritten ==
  ASSUME IInv, NEW e \in Staff,
         NEW o \in [kind : {"none", "void"}, shift : {Rest}]
                   \cup [kind : {"leave"}, shift : {Rest}]
                   \cup [kind : {"manual", "swap"}, shift : DayShift],
         NEW w \in {NoRow} \cup [source : {"rule", "override"}, shift : DayShift],
         over' = [over EXCEPT ![e] = o], row' = [row EXCEPT ![e] = w],
         w.source = "override" =>
            o.kind \in {"leave", "manual", "swap"} /\ o.shift = w.shift,
         w.source = "rule" => o = NoOver /\ (day # "past" => IF rule[e] = NoRule THEN e \in kept ELSE rule[e] = w.shift),
         UNCHANGED <<day, active, rule, gone, kept, req>>,
         call' \in [Calls -> Work], calls' \in 0..MaxCalls
  PROVE  TypeOK' /\ RowsExplained' /\ RulesUseActiveShifts' /\ NoDoubleAsk'
<1>1. /\ over'[e] = o /\ row'[e] = w
      /\ \A x \in Staff \ {e} : over'[x] = over[x] /\ row'[x] = row[x]
    BY DEF IInv, TypeOK
<1>2. TypeOK'
    BY DEF IInv, TypeOK
<1>3. RowsExplained'
    BY <1>1 DEF IInv, RowsExplained
<1>4. RulesUseActiveShifts' /\ NoDoubleAsk'
    BY DEF IInv, RulesUseActiveShifts, Usable, NoDoubleAsk, PendingSwap, Pending
<1> QED BY <1>2, <1>3, <1>4

\* Restoring a day leaves it as the rule explains it.
LEMMA RestoreFits ==
  ASSUME IInv, NEW e \in Staff, RestoreDay(e), day' = day,
         call' \in [Calls -> Work], calls' \in 0..MaxCalls
  PROVE  TypeOK' /\ RowsExplained' /\ RulesUseActiveShifts' /\ NoDoubleAsk'
<1>1. /\ row[e] \in {NoRow} \cup [source : {"rule", "override"}, shift : DayShift]
      /\ rule[e] \in DayShift \cup {NoRule}
    BY DEF IInv, TypeOK
<1>2. Restored(e) \in {NoRow} \cup [source : {"rule", "override"}, shift : DayShift]
    BY <1>1 DEF Restored, RuleRow
<1>3. Restored(e).source # "override"
    BY <1>1 DEF Restored, RuleRow, NoRow
<1>4. Restored(e).source = "rule" =>
        (day # "past" => IF rule[e] = NoRule THEN e \in kept ELSE rule[e] = Restored(e).shift)
    BY <1>1 DEF Restored, RuleRow, NoRow, IInv, RowsExplained
<1>5. NoOver \in [kind : {"none", "void"}, shift : {Rest}]
    BY DEF NoOver
<1> HIDE DEF NoOver
<1> QED BY <1>2, <1>3, <1>4, <1>5, DayWritten DEF RestoreDay

\* A request that is claimed moves on, and no new question is asked.
LEMMA Claimed ==
  ASSUME IInv, NEW r \in Requests, NEW from, NEW to \in Status \ {"pending_peer"},
         req[r] # NoRequest, from \subseteq {"pending_peer", "pending_manager"},
         Claim(r, from, to)
  PROVE  /\ req' \in [Requests -> Request]
         /\ req'[r] = [req[r] EXCEPT !.status = to] /\ req'[r].status = to
         /\ People(req'[r]) = People(req[r])
         /\ \A q \in Requests \ {r} : req'[q] = req[q]
         /\ \A q \in Requests : req[q] # NoRequest => req'[q] # NoRequest
         /\ NoDoubleAsk'
<1>1. req[r] \in LeaveRequest \cup SwapRequest /\ req[r].status \in from
    BY DEF IInv, TypeOK, Claim
<1>2. [req[r] EXCEPT !.status = to] \in LeaveRequest \cup SwapRequest
    BY <1>1 DEF LeaveRequest, SwapRequest, Status
<1>3. req' = [req EXCEPT ![r] = [req[r] EXCEPT !.status = to]]
    BY DEF Claim
<1>4. req'[r] = [req[r] EXCEPT !.status = to] /\ \A q \in Requests \ {r} : req'[q] = req[q]
    BY <1>3 DEF IInv, TypeOK
<1>5. req' \in [Requests -> Request]
    BY <1>2, <1>3 DEF IInv, TypeOK, Request
<1>6. /\ req'[r].status = to /\ req'[r].kind = req[r].kind /\ req'[r].by = req[r].by
      /\ req[r].kind = "swap" => req'[r].peer = req[r].peer
    BY <1>1, <1>4 DEF LeaveRequest, SwapRequest
<1>7. \A q \in Requests, e, p \in Staff : PendingSwap(q, e, p)' => PendingSwap(q, e, p)
    BY <1>1, <1>4, <1>6 DEF PendingSwap, Pending, NoRequest
<1>8. req'[r] # NoRequest
    BY <1>2, <1>4 DEF LeaveRequest, SwapRequest, NoRequest
<1> QED BY <1>4, <1>5, <1>6, <1>7, <1>8 DEF People, IInv, NoDoubleAsk

-----------------------------------------------------------------------------
(* One lemma for each part of Next.                                         *)

LEMMA RuleSteps == IInv /\ RuleStep => IInv'
<1> SUFFICES ASSUME IInv, RuleStep PROVE IInv'
    OBVIOUS
<1> USE RosterAssumption
<1>1. ASSUME NEW s \in Shifts, DeactivateShift(s) \/ ActivateShift(s) PROVE IInv'
  <2>1. calls' \in 0..MaxCalls /\ UNCHANGED <<day, call, rule, over, row, gone, kept, req>>
    BY <1>1 DEF DeactivateShift, ActivateShift, AtOnce, Spend, IInv, TypeOK
  <2>2. TypeOK'
    BY <1>1, <2>1 DEF IInv, TypeOK, DeactivateShift, ActivateShift
  <2>3. RulesUseActiveShifts'
    BY <1>1, <2>1 DEF IInv, RulesUseActiveShifts, Usable, DeactivateShift, ActivateShift
  <2>4. RowsExplained' /\ NoDoubleAsk' /\ CallsMeant'
    BY <2>1 DEF IInv, RowsExplained, NoDoubleAsk, PendingSwap, Pending, CallsMeant, Meant
  <2> QED BY <2>2, <2>3, <2>4 DEF IInv
<1>2. ASSUME NEW e \in Staff, ClearRule(e) PROVE IInv'
  <2>1. /\ calls' \in 0..MaxCalls /\ UNCHANGED <<day, call, active, over, gone, kept, req>>
        /\ rule' = [rule EXCEPT ![e] = NoRule]
        /\ row' = [row EXCEPT ![e] = WithoutRule(e, day = "past")]
    BY <1>2 DEF ClearRule, AtOnce, Spend, IInv, TypeOK
  <2>2. TypeOK'
    BY <2>1 DEF IInv, TypeOK, WithoutRule
  <2>3. RowsExplained'
    BY <2>1 DEF IInv, TypeOK, RowsExplained, WithoutRule, NoRow
  <2>4. RulesUseActiveShifts' /\ NoDoubleAsk' /\ CallsMeant'
    BY <2>1 DEF IInv, TypeOK, RulesUseActiveShifts, Usable, NoDoubleAsk, PendingSwap, Pending,
                CallsMeant, Meant
  <2> QED BY <2>2, <2>3, <2>4 DEF IInv
<1>3. ASSUME NEW e \in Staff, Expand(e) PROVE IInv'
  <2>1. row' = Expanded(e) /\ UNCHANGED <<day, active, rule, over, gone, kept, req, call, calls>>
    BY <1>3 DEF Expand
  <2>2. /\ row' \in [Staff -> {NoRow} \cup [source : {"rule", "override"}, shift : DayShift]]
        /\ RowsExplained'
    BY <2>1, ExpandedFits
  <2>3. TypeOK'
    BY <2>1, <2>2 DEF IInv, TypeOK, NoRow
  <2>4. RulesUseActiveShifts' /\ NoDoubleAsk' /\ CallsMeant'
    BY <2>1 DEF IInv, RulesUseActiveShifts, Usable, NoDoubleAsk, PendingSwap, Pending,
                CallsMeant, Meant
  <2> QED BY <2>2, <2>3, <2>4 DEF IInv
<1>4. ASSUME NEW c \in Calls, ApplyRule(c) PROVE IInv'
  <2> DEFINE w == call[c]
             old == WithoutRule(w.who, w.past)
             new == IF w.past THEN old ELSE Grown(w.who, w.shift, old)
  <2>1. /\ w \in Work /\ w.op = "rule" /\ (w.past => day = "past")
        /\ call' \in [Calls -> Work] /\ call'[c] = Idle
        /\ \A b \in Calls \ {c} : call'[b] = call[b]
        /\ day' = day /\ calls' = calls /\ calls' \in 0..MaxCalls
    BY <1>4, Freed DEF ApplyRule, Meant
  <2>2. w.who \in Staff /\ w.shift \in DayShift /\ w.past \in BOOLEAN
    BY <2>1 DEF Work, Idle
  <2>3. CallsMeant'
    BY <1>4, <2>1, StillMeant DEF ApplyRule, Refused, tables, CallsMeant
  <2>4. CASE Refused
    <3>1. TypeOK'
      BY <2>1, <2>4 DEF IInv, TypeOK, Refused, tables
    <3>2. RowsExplained' /\ RulesUseActiveShifts' /\ NoDoubleAsk'
      BY <2>1, <2>4 DEF IInv, RowsExplained, RulesUseActiveShifts, Usable, NoDoubleAsk,
                        PendingSwap, Pending, Refused, tables
    <3> QED BY <2>3, <3>1, <3>2 DEF IInv
  <2>5. CASE /\ Usable(w.shift) /\ rule' = [rule EXCEPT ![w.who] = w.shift]
             /\ row' = [row EXCEPT ![w.who] = new]
             /\ kept' = kept \ {w.who} /\ UNCHANGED <<active, over, gone, req>>
    <3>1. old \in {NoRow} \cup [source : {"rule", "override"}, shift : DayShift]
      BY <2>2 DEF IInv, TypeOK, WithoutRule
    <3>2. new \in {NoRow} \cup [source : {"rule", "override"}, shift : DayShift]
      BY <2>2, <3>1 DEF IInv, TypeOK, Grown, RuleRow, OverRow, Void, NoOver, DayShift
    <3>3. TypeOK'
      BY <2>1, <2>2, <2>5, <3>2 DEF IInv, TypeOK
    <3>4. /\ row'[w.who] = new /\ rule'[w.who] = w.shift
          /\ \A x \in Staff \ {w.who} : row'[x] = row[x] /\ rule'[x] = rule[x]
      BY <2>2, <2>5 DEF IInv, TypeOK
    <3>5. new.source = "override" =>
            over[w.who].kind \in {"leave", "manual", "swap"} /\ over[w.who].shift = new.shift
      BY <2>2, <3>1 DEF IInv, TypeOK, RowsExplained, WithoutRule, Grown, RuleRow, OverRow,
                        Void, NoOver, NoRow
    <3>6. new.source = "rule" =>
            over[w.who] = NoOver /\ (day # "past" => w.shift = new.shift)
      BY <2>1, <2>2, <3>1 DEF IInv, TypeOK, RowsExplained, WithoutRule, Grown, RuleRow, OverRow,
                              NoRow
    <3>7. RowsExplained'
      <4>1. SUFFICES ASSUME NEW x \in Staff
                     PROVE  /\ row'[x].source = "override" =>
                                 over'[x].kind \in {"leave", "manual", "swap"}
                                 /\ over'[x].shift = row'[x].shift
                            /\ row'[x].source = "rule" =>
                                 /\ over'[x] = NoOver
                                 /\ day' # "past" => IF rule'[x] = NoRule THEN x \in kept'
                                                     ELSE rule'[x] = row'[x].shift
        BY DEF RowsExplained
      <4>2. CASE x = w.who
        <5>1. w.shift # NoRule
          BY <2>2 DEF DayShift
        <5> QED BY <2>1, <2>5, <3>4, <3>5, <3>6, <4>2, <5>1
      <4>3. CASE x # w.who
        <5>1. row'[x] = row[x] /\ rule'[x] = rule[x] /\ (x \in kept => x \in kept')
          BY <2>5, <3>4, <4>3
        <5> QED BY <2>1, <2>5, <5>1 DEF IInv, RowsExplained
      <4> QED BY <4>2, <4>3
    <3>8. RulesUseActiveShifts' /\ NoDoubleAsk'
      BY <2>2, <2>5, <3>4 DEF IInv, RulesUseActiveShifts, Usable, NoDoubleAsk, PendingSwap, Pending
    <3> QED BY <2>3, <3>3, <3>7, <3>8 DEF IInv
  <2> QED BY <1>4, <2>4, <2>5 DEF ApplyRule
<1>5. ASSUME NEW c \in Calls, NEW e \in Staff, NEW s \in DayShift, SetRule(c, e, s) PROVE IInv'
  <2> DEFINE w == [op |-> "rule", who |-> e, shift |-> s, past |-> day = "past"]
  <2>1. w \in Work /\ Meant(w) /\ Begin(c, w)
    BY <1>5 DEF SetRule, Work, Meant
  <2>2. UNCHANGED <<active, rule, over, row, gone, kept, req, day>>
    BY <1>5 DEF SetRule, Begin, tables
  <2>3. row' \in [Staff -> {NoRow} \cup [source : {"rule", "override"}, shift : DayShift]]
        /\ RowsExplained'
    BY <2>2 DEF IInv, TypeOK, RowsExplained
  <2> HIDE DEF w
  <2> QED BY <2>1, <2>2, <2>3, Looked
<1> QED BY <1>1, <1>2, <1>3, <1>4, <1>5 DEF RuleStep

\* Four ways to ask for another day, three ways to write it, and one to take it back.
LEMMA EditSteps == IInv /\ EditStep => IInv'
<1> SUFFICES ASSUME IInv, EditStep PROVE IInv'
    OBVIOUS
<1> USE RosterAssumption
<1>1. ASSUME NEW e \in Staff, ClearOverride(e) PROVE IInv'
  <2>1. RestoreDay(e) /\ UNCHANGED <<day, call>> /\ calls' \in 0..MaxCalls
    BY <1>1 DEF ClearOverride, AtOnce, Spend, IInv, TypeOK
  <2>2. call' \in [Calls -> Work]
    BY <2>1 DEF IInv, TypeOK
  <2>3. CallsMeant'
    BY <2>1, StillMeant DEF CallsMeant, RestoreDay
  <2> QED BY <2>1, <2>2, <2>3, RestoreFits DEF IInv
<1>2. ASSUME NEW c \in Calls, ApplyOverride(c) \/ VoidBatchRow(c) PROVE IInv'
  <2> DEFINE w == call[c]
             o == IF w.op = "edit" THEN Manual(w.shift) ELSE Void
             r == IF w.op = "edit" THEN OverRow(w.shift) ELSE NoRow
  <2>1. /\ w \in Work /\ w.op \in {"edit", "void"}
        /\ call' \in [Calls -> Work] /\ call'[c] = Idle
        /\ \A b \in Calls \ {c} : call'[b] = call[b]
        /\ day' = day /\ calls' = calls /\ calls' \in 0..MaxCalls
    BY <1>2, Freed DEF ApplyOverride, VoidBatchRow
  <2>2. w.who \in Staff /\ (w.op = "edit" => w.shift \in DayShift)
    BY <2>1 DEF Work, Idle
  <2>3. /\ over' = [over EXCEPT ![w.who] = o] /\ row' = [row EXCEPT ![w.who] = r]
        /\ UNCHANGED <<active, rule, gone, kept, req>>
    BY <1>2, <2>1 DEF ApplyOverride, VoidBatchRow, Transact
  <2>4. o \in [kind : {"none", "void"}, shift : {Rest}]
              \cup [kind : {"manual", "swap"}, shift : DayShift]
    BY <2>1, <2>2 DEF Manual, Void
  <2>5. r \in {NoRow} \cup [source : {"rule", "override"}, shift : DayShift]
    BY <2>1, <2>2 DEF OverRow
  <2>6. /\ r.source = "override" => o.kind = "manual" /\ o.shift = r.shift
        /\ r.source # "rule"
    BY <2>1, <2>2 DEF Manual, Void, OverRow, NoRow
  <2>7. CallsMeant'
    BY <2>1, <2>3, StillMeant DEF CallsMeant
  <2> HIDE DEF o, r
  <2>8. TypeOK' /\ RowsExplained' /\ RulesUseActiveShifts' /\ NoDoubleAsk'
    BY <2>1, <2>2, <2>3, <2>4, <2>5, <2>6, DayWritten
  <2> QED BY <2>7, <2>8 DEF IInv
<1>3. ASSUME NEW c \in Calls, ClearBatchRow(c) PROVE IInv'
  <2>1. /\ call[c] \in Work /\ call[c].op = "restore"
        /\ call' \in [Calls -> Work] /\ call'[c] = Idle
        /\ \A b \in Calls \ {c} : call'[b] = call[b]
        /\ day' = day /\ calls' = calls /\ calls' \in 0..MaxCalls
    BY <1>3, Freed DEF ClearBatchRow
  <2>2. call[c].who \in Staff
    BY <2>1 DEF Work, Idle
  <2>3. RestoreDay(call[c].who)
    BY <1>3 DEF ClearBatchRow
  <2>4. CallsMeant'
    BY <2>1, <2>3, StillMeant DEF CallsMeant, RestoreDay
  <2> QED BY <2>1, <2>2, <2>3, <2>4, RestoreFits DEF IInv
<1>4. ASSUME NEW c \in Calls, NEW e \in Staff, NEW s \in DayShift,
             EditOnCalendar(c, e, s) \/ EditInBatch(c, e, s) \/ EditOnSheet(c, e, s)
      PROVE  IInv'
  <2> DEFINE w == [op |-> "edit", who |-> e, shift |-> s]
  <2>1. w \in Work /\ Meant(w) /\ Begin(c, w)
    BY <1>4 DEF EditOnCalendar, EditInBatch, EditOnSheet, Work, Meant
  <2>2. UNCHANGED <<active, rule, over, row, gone, kept, req, day>>
    BY <1>4 DEF EditOnCalendar, EditInBatch, EditOnSheet, Begin, tables
  <2>3. row' \in [Staff -> {NoRow} \cup [source : {"rule", "override"}, shift : DayShift]]
        /\ RowsExplained'
    BY <2>2 DEF IInv, TypeOK, RowsExplained
  <2> HIDE DEF w
  <2> QED BY <2>1, <2>2, <2>3, Looked
<1>5. ASSUME NEW c \in Calls, NEW e \in Staff, NEW op \in {"void", "restore"},
             VoidOrRestore(c, e, op)
      PROVE  IInv'
  <2> DEFINE w == [op |-> op, who |-> e]
  <2>1. w \in Work /\ Meant(w) /\ Begin(c, w)
    BY <1>5 DEF VoidOrRestore, Work, Meant
  <2>2. UNCHANGED <<active, rule, over, row, gone, kept, req, day>>
    BY <1>5 DEF VoidOrRestore, Begin, tables
  <2>3. row' \in [Staff -> {NoRow} \cup [source : {"rule", "override"}, shift : DayShift]]
        /\ RowsExplained'
    BY <2>2 DEF IInv, TypeOK, RowsExplained
  <2> HIDE DEF w
  <2> QED BY <2>1, <2>2, <2>3, Looked
<1> QED BY <1>1, <1>2, <1>3, <1>4, <1>5 DEF EditStep

LEMMA RequestSteps == IInv /\ RequestStep => IInv'
<1> SUFFICES ASSUME IInv, RequestStep PROVE IInv'
    OBVIOUS
<1> USE RosterAssumption
<1>1. ASSUME NEW c \in Calls, InsertLeave(c) \/ InsertSwap(c) PROVE IInv'
  <2> DEFINE w == call[c]
             new == IF w.op = "leave"
                    THEN [kind |-> "leave", by |-> w.who, status |-> "pending_manager"]
                    ELSE [kind |-> "swap", by |-> w.who, peer |-> w.peer,
                          status |-> "pending_peer"]
  <2>1. /\ w \in Work /\ w.op \in {"leave", "swap"}
        /\ call' \in [Calls -> Work] /\ call'[c] = Idle
        /\ \A b \in Calls \ {c} : call'[b] = call[b]
        /\ day' = day /\ calls' = calls /\ calls' \in 0..MaxCalls
    BY <1>1, Freed DEF InsertLeave, InsertSwap
  <2>2. w.who \in Staff /\ (w.op = "swap" => w.peer \in Staff)
    BY <2>1 DEF Work, Idle
  <2>3. new \in LeaveRequest \cup SwapRequest
    BY <2>1, <2>2 DEF LeaveRequest, SwapRequest
  <2>4. UNCHANGED <<active, rule, over, row, gone, kept>>
    BY <1>1 DEF InsertLeave, InsertSwap, Refused, tables
  <2>5. RowsExplained' /\ RulesUseActiveShifts'
    BY <2>1, <2>4 DEF IInv, RowsExplained, RulesUseActiveShifts, Usable
  <2>6. CASE req' = req
    <3>1. TypeOK' /\ NoDoubleAsk'
      BY <2>1, <2>4, <2>6 DEF IInv, TypeOK, NoDoubleAsk, PendingSwap, Pending
    <3>2. CallsMeant'
      BY <2>1, <2>6, StillMeant DEF CallsMeant
    <3> QED BY <2>5, <3>1, <3>2 DEF IInv
  <2>7. ASSUME NEW r \in Requests, req[r] = NoRequest, req' = [req EXCEPT ![r] = new],
               w.op = "swap" => ~\E q \in Requests : PendingSwap(q, w.who, w.peer)
        PROVE  IInv'
    <3>1. req'[r] = new /\ \A q \in Requests \ {r} : req'[q] = req[q]
      BY <2>7 DEF IInv, TypeOK
    <3>2. TypeOK'
      BY <2>1, <2>3, <2>4, <2>7 DEF IInv, TypeOK
    <3>3. \A q \in Requests, e, p \in Staff :
            PendingSwap(q, e, p)' =>
              \/ q # r /\ PendingSwap(q, e, p)
              \/ q = r /\ w.op = "swap" /\ e = w.who /\ p = w.peer
      BY <2>1, <3>1 DEF PendingSwap, Pending
    <3>4. NoDoubleAsk'
      BY <2>7, <3>3 DEF IInv, NoDoubleAsk
    <3>5. new # NoRequest
      BY DEF NoRequest
    <3>6. CallsMeant'
      BY <2>1, <3>1, <3>5, StillMeant DEF CallsMeant
    <3> QED BY <2>5, <3>2, <3>4, <3>6 DEF IInv
  <2>8. CASE InsertLeave(c)
    <3>1. w.op = "leave"
      BY <2>8 DEF InsertLeave, Transact
    <3>2. PICK r \in Requests : req[r] = NoRequest /\ req' = [req EXCEPT ![r] = new]
      BY <2>8, <3>1 DEF InsertLeave
    <3> QED BY <2>7, <3>1, <3>2
  <2>9. CASE InsertSwap(c)
    <3>1. w.op = "swap"
      BY <2>9 DEF InsertSwap, Transact
    <3> QED BY <2>6, <2>7, <2>9, <3>1 DEF InsertSwap, Refused, tables
  <2> QED BY <1>1, <2>8, <2>9
<1>2. ASSUME NEW c \in Calls, Decide(c) PROVE IInv'
  <2> DEFINE w == call[c]
  <2>1. /\ w \in Work /\ w.op = "decide" /\ Meant(w)
        /\ call' \in [Calls -> Work] /\ call'[c] = Idle
        /\ \A b \in Calls \ {c} : call'[b] = call[b]
        /\ day' = day /\ calls' = calls /\ calls' \in 0..MaxCalls
    BY <1>2, Freed DEF Decide
  <2>2. /\ w.id \in Requests /\ w.from \subseteq {"pending_peer", "pending_manager"}
        /\ w.to \in Status \ {"pending_peer"} /\ req[w.id] # NoRequest
    BY <2>1 DEF Work, Idle, Status, Meant
  <2>3. UNCHANGED <<active, rule, over, row, gone, kept>>
    BY <1>2 DEF Decide, Refused, tables, Claim
  <2>4. RowsExplained' /\ RulesUseActiveShifts'
    BY <2>1, <2>3 DEF IInv, RowsExplained, RulesUseActiveShifts, Usable
  <2>5. CASE req' = req
    <3>1. TypeOK' /\ NoDoubleAsk'
      BY <2>1, <2>3, <2>5 DEF IInv, TypeOK, NoDoubleAsk, PendingSwap, Pending
    <3>2. CallsMeant'
      BY <2>1, <2>5, StillMeant DEF CallsMeant
    <3> QED BY <2>4, <3>1, <3>2 DEF IInv
  <2>6. CASE Claim(w.id, w.from, w.to)
    <3>1. /\ req' \in [Requests -> Request] /\ NoDoubleAsk'
          /\ \A q \in Requests : req[q] # NoRequest => req'[q] # NoRequest
      BY <2>2, <2>6, Claimed
    <3>2. TypeOK'
      BY <2>1, <2>3, <3>1 DEF IInv, TypeOK, Request
    <3>3. CallsMeant'
      BY <2>1, <3>1, StillMeant DEF CallsMeant
    <3> QED BY <2>4, <3>1, <3>2, <3>3 DEF IInv
  <2> QED BY <1>2, <2>5, <2>6 DEF Decide, Refused, tables
<1>3. ASSUME NEW c \in Calls, ApproveLeave(c) \/ ApproveSwap(c) PROVE IInv'
  <2> DEFINE id == call[c].id
             q == req[id]
  <2>1. /\ call[c] \in Work /\ call[c].op = "approve" /\ Meant(call[c])
        /\ call' \in [Calls -> Work] /\ call'[c] = Idle
        /\ \A b \in Calls \ {c} : call'[b] = call[b]
        /\ day' = day /\ calls' = calls /\ calls' \in 0..MaxCalls
    BY <1>3, Freed DEF ApproveLeave, ApproveSwap
  <2>2. id \in Requests /\ q # NoRequest
    BY <2>1 DEF Work, Idle, Meant
  <2>3. q \in LeaveRequest \cup SwapRequest
    BY <2>2 DEF IInv, TypeOK
  <2>4. UNCHANGED <<active, rule, gone, kept>>
    BY <1>3 DEF ApproveLeave, ApproveSwap, Refused, tables
  <2>5. RulesUseActiveShifts'
    BY <2>4 DEF IInv, RulesUseActiveShifts, Usable
  <2>6. CASE Refused
    <3>1. TypeOK' /\ NoDoubleAsk' /\ RowsExplained'
      BY <2>1, <2>6 DEF IInv, TypeOK, NoDoubleAsk, PendingSwap, Pending, Refused, tables,
                        RowsExplained
    <3>2. CallsMeant'
      BY <2>1, <2>6, StillMeant DEF CallsMeant, Refused, tables
    <3> QED BY <2>5, <3>1, <3>2 DEF IInv
  <2>7. ASSUME Claim(id, {"pending_manager"}, "approved"),
               over' \in [Staff -> [kind : {"none", "void"}, shift : {Rest}]
                                   \cup [kind : {"leave"}, shift : {Rest}]
                                   \cup [kind : {"manual", "swap"}, shift : DayShift]],
               row' \in [Staff -> {NoRow} \cup [source : {"rule", "override"}, shift : DayShift]],
               \A e \in Staff :
                 \/ over'[e] = over[e] /\ row'[e] = row[e]
                 \/ /\ over'[e].kind \in {"leave", "swap"}
                    /\ row'[e].source = "override" /\ row'[e].shift = over'[e].shift
        PROVE  IInv'
    <3>0. /\ "approved" \in Status \ {"pending_peer"}
          /\ {"pending_manager"} \subseteq {"pending_peer", "pending_manager"}
          /\ req[id] # NoRequest
      BY <2>2 DEF Status
    <3>1. /\ req' \in [Requests -> Request] /\ NoDoubleAsk'
          /\ \A r \in Requests : req[r] # NoRequest => req'[r] # NoRequest
    <4> HIDE DEF id, q
    <4> QED BY <2>2, <2>7, <3>0, Claimed
    <3>2. TypeOK'
      BY <2>1, <2>4, <2>7, <3>1 DEF IInv, TypeOK, Request
    <3>3. CallsMeant'
      BY <2>1, <3>1, StillMeant DEF CallsMeant
    <3>4. RowsExplained'
      BY <2>1, <2>4, <2>7 DEF IInv, RowsExplained
    <3> QED BY <2>5, <3>1, <3>2, <3>3, <3>4 DEF IInv
  <2>8. CASE UNCHANGED <<over, row>> /\ Claim(id, {"pending_manager"}, "approved")
    BY <2>7, <2>8 DEF IInv, TypeOK
  <2>9. CASE /\ ApproveLeave(c) /\ Claim(id, {"pending_manager"}, "approved")
             /\ over' = [over EXCEPT ![q.by] = Leave]
             /\ row' = [row EXCEPT ![q.by] = OverRow(Rest)]
    <3>1. q.by \in Staff
      BY <2>3 DEF LeaveRequest, SwapRequest
    <3>2. Leave \in [kind : {"leave"}, shift : {Rest}] /\ Leave.kind = "leave"
          /\ Leave.shift = Rest
      BY DEF Leave
    <3>3. OverRow(Rest) \in [source : {"rule", "override"}, shift : DayShift]
          /\ OverRow(Rest).source = "override" /\ OverRow(Rest).shift = Rest
      BY DEF OverRow, DayShift
    <3> HIDE DEF q, id
    <3>4. /\ over' \in [Staff -> [kind : {"none", "void"}, shift : {Rest}]
                                 \cup [kind : {"leave"}, shift : {Rest}]
                                 \cup [kind : {"manual", "swap"}, shift : DayShift]]
          /\ row' \in [Staff -> {NoRow} \cup [source : {"rule", "override"}, shift : DayShift]]
      BY <2>9, <3>1, <3>2, <3>3 DEF IInv, TypeOK
    <3>5. \A e \in Staff : IF e = q.by THEN over'[e] = Leave /\ row'[e] = OverRow(Rest)
                           ELSE over'[e] = over[e] /\ row'[e] = row[e]
      BY <2>9, <3>1 DEF IInv, TypeOK
    <3> QED BY <2>7, <2>9, <3>2, <3>3, <3>4, <3>5
  <2>10. CASE /\ ApproveSwap(c) /\ Claim(id, {"pending_manager"}, "approved")
              /\ q.kind = "swap"
              /\ over' = [over EXCEPT ![q.by] = Swap(Has(q.peer)), ![q.peer] = Swap(Has(q.by))]
              /\ row' = [row EXCEPT ![q.by] = OverRow(Has(q.peer)),
                                    ![q.peer] = OverRow(Has(q.by))]
    <3>1. q.by \in Staff /\ q.peer \in Staff
      BY <2>3, <2>10 DEF LeaveRequest, SwapRequest
    <3>2. Has(q.by) \in DayShift /\ Has(q.peer) \in DayShift
      BY <3>1 DEF IInv, TypeOK, Has, NoRow, DayShift
    <3> DEFINE a == Has(q.peer)
               b == Has(q.by)
    <3>3. /\ Swap(a) \in [kind : {"manual", "swap"}, shift : DayShift]
          /\ Swap(b) \in [kind : {"manual", "swap"}, shift : DayShift]
          /\ OverRow(a) \in [source : {"rule", "override"}, shift : DayShift]
          /\ OverRow(b) \in [source : {"rule", "override"}, shift : DayShift]
      BY <3>2 DEF Swap, OverRow
    <3>4. \A s \in DayShift : /\ Swap(s).kind = "swap" /\ Swap(s).shift = s
                              /\ OverRow(s).source = "override" /\ OverRow(s).shift = s
      BY DEF Swap, OverRow
    <3>5. \A e \in Staff :
            IF e = q.peer THEN over'[e] = Swap(b) /\ row'[e] = OverRow(b)
            ELSE IF e = q.by THEN over'[e] = Swap(a) /\ row'[e] = OverRow(a)
            ELSE over'[e] = over[e] /\ row'[e] = row[e]
      BY <2>10, <3>1 DEF IInv, TypeOK
    <3>6. /\ over' \in [Staff -> [kind : {"none", "void"}, shift : {Rest}]
                                 \cup [kind : {"leave"}, shift : {Rest}]
                                 \cup [kind : {"manual", "swap"}, shift : DayShift]]
          /\ row' \in [Staff -> {NoRow} \cup [source : {"rule", "override"}, shift : DayShift]]
      BY <2>10, <3>1, <3>3 DEF IInv, TypeOK
    <3> HIDE DEF q, id, a, b
    <3> QED BY <2>7, <2>10, <3>2, <3>4, <3>5, <3>6 DEF a, b
  <2> QED BY <1>3, <2>6, <2>8, <2>9, <2>10 DEF ApproveLeave, ApproveSwap
<1>4. ASSUME NEW c \in Calls, NEW e \in Staff, AskLeave(c, e) PROVE IInv'
  <2> DEFINE w == [op |-> "leave", who |-> e]
  <2>1. w \in Work /\ Meant(w) /\ Begin(c, w)
    BY <1>4 DEF AskLeave, Work, Meant
  <2>2. UNCHANGED <<active, rule, over, row, gone, kept, req, day>>
    BY <1>4 DEF AskLeave, Begin, tables
  <2>3. row' \in [Staff -> {NoRow} \cup [source : {"rule", "override"}, shift : DayShift]]
        /\ RowsExplained'
    BY <2>2 DEF IInv, TypeOK, RowsExplained
  <2> HIDE DEF w
  <2> QED BY <2>1, <2>2, <2>3, Looked
<1>5. ASSUME NEW c \in Calls, NEW e \in Staff, NEW p \in Staff, AskSwap(c, e, p) PROVE IInv'
  <2> DEFINE w == [op |-> "swap", who |-> e, peer |-> p]
  <2>1. w \in Work /\ Meant(w) /\ Begin(c, w)
    BY <1>5 DEF AskSwap, Work, Meant
  <2>2. row' = Expanded(e) /\ UNCHANGED <<active, rule, over, gone, kept, req, day>>
    BY <1>5 DEF AskSwap, Begin
  <2>3. row' \in [Staff -> {NoRow} \cup [source : {"rule", "override"}, shift : DayShift]]
        /\ RowsExplained'
    BY <2>2, ExpandedFits
  <2> HIDE DEF w
  <2> QED BY <2>1, <2>2, <2>3, Looked
<1>6. ASSUME NEW c \in Calls, NEW r \in Requests, NEW from \in SUBSET {"pending_peer", "pending_manager"},
             NEW to \in {"pending_manager", "rejected", "cancelled"},
             to = "pending_manager" => from = {"pending_peer"}, BeginDecision(c, r, from, to)
      PROVE  IInv'
  <2> DEFINE w == [op |-> "decide", id |-> r, from |-> from, to |-> to]
  <2>1. w \in Work /\ Meant(w) /\ Begin(c, w)
    BY <1>6 DEF BeginDecision, Work, Meant
  <2>2. UNCHANGED <<active, rule, over, row, gone, kept, req, day>>
    BY <1>6 DEF BeginDecision, Begin, tables
  <2>3. row' \in [Staff -> {NoRow} \cup [source : {"rule", "override"}, shift : DayShift]]
        /\ RowsExplained'
    BY <2>2 DEF IInv, TypeOK, RowsExplained
  <2> HIDE DEF w
  <2> QED BY <2>1, <2>2, <2>3, Looked
<1>7. ASSUME NEW c \in Calls, NEW r \in Requests, ApproveRequest(c, r) PROVE IInv'
  <2> DEFINE w == [op |-> "approve", id |-> r]
  <2>1. w \in Work /\ Meant(w) /\ Begin(c, w)
    BY <1>7 DEF ApproveRequest, Work, Meant
  <2>2. UNCHANGED <<active, rule, over, row, gone, kept, req, day>>
    BY <1>7 DEF ApproveRequest, Begin, tables
  <2>3. row' \in [Staff -> {NoRow} \cup [source : {"rule", "override"}, shift : DayShift]]
        /\ RowsExplained'
    BY <2>2 DEF IInv, TypeOK, RowsExplained
  <2> HIDE DEF w
  <2> QED BY <2>1, <2>2, <2>3, Looked
<1>8. ASSUME NEW c \in Calls, NEW r \in Requests,
             \/ CancelRequest(c, r) \/ RejectRequest(c, r)
             \/ \E to \in {"pending_manager", "rejected"} : AnswerSwap(c, r, to)
      PROVE  IInv'
  <2>1. CASE CancelRequest(c, r)
    BY <1>6, <2>1 DEF CancelRequest
  <2>2. CASE RejectRequest(c, r)
    BY <1>6, <2>2 DEF RejectRequest
  <2>3. ASSUME NEW to \in {"pending_manager", "rejected"}, AnswerSwap(c, r, to) PROVE IInv'
    BY <1>6, <2>3 DEF AnswerSwap
  <2> QED BY <1>8, <2>1, <2>2, <2>3
<1> QED BY <1>1, <1>2, <1>3, <1>4, <1>5, <1>7, <1>8 DEF RequestStep

LEMMA StaffSteps == IInv /\ (StaffStep \/ DayPasses) => IInv'
<1> SUFFICES ASSUME IInv, StaffStep \/ DayPasses PROVE IInv'
    OBVIOUS
<1> USE RosterAssumption
<1>1. ASSUME NEW e \in Staff, CancelResignation(e) PROVE IInv'
  <2>1. calls' \in 0..MaxCalls /\ UNCHANGED <<day, call, active, rule, over, row, kept, req>>
    BY <1>1 DEF CancelResignation, AtOnce, Spend, IInv, TypeOK
  <2>2. TypeOK'
    BY <1>1, <2>1 DEF IInv, TypeOK, CancelResignation
  <2>3. RowsExplained' /\ RulesUseActiveShifts' /\ NoDoubleAsk' /\ CallsMeant'
    BY <2>1 DEF IInv, RowsExplained, RulesUseActiveShifts, Usable, NoDoubleAsk, PendingSwap,
                Pending, CallsMeant, Meant
  <2> QED BY <2>2, <2>3 DEF IInv
<1>2. ASSUME NEW c \in Calls, WriteDate(c) PROVE IInv'
  <2>1. /\ call[c] \in Work /\ call[c].op = "resign"
        /\ call' \in [Calls -> Work] /\ call'[c] = Idle
        /\ \A b \in Calls \ {c} : call'[b] = call[b]
        /\ day' = day /\ calls' = calls /\ calls' \in 0..MaxCalls
    BY <1>2, Freed DEF WriteDate
  <2>2. call[c].who \in Staff /\ call[c].as \in Departures
    BY <2>1 DEF Work, Idle
  <2>3. UNCHANGED <<active, rule, over, row, kept, req>>
    BY <1>2 DEF WriteDate
  <2> DEFINE e == call[c].who
  <2>7. PICK g \in Aged(call[c].as, day) : gone' = [gone EXCEPT ![e] = g]
    BY <1>2 DEF WriteDate
  <2>8. g \in Departures
    BY <2>2, <2>7 DEF Aged, Departures
  <2>4. TypeOK'
    <3> HIDE DEF e
    <3> QED BY <2>1, <2>3, <2>7, <2>8 DEF IInv, TypeOK
  <2>5. CallsMeant'
    BY <2>1, <2>3, StillMeant DEF CallsMeant
  <2>6. RowsExplained' /\ RulesUseActiveShifts' /\ NoDoubleAsk'
    BY <2>1, <2>3 DEF IInv, RowsExplained, RulesUseActiveShifts, Usable, NoDoubleAsk,
                      PendingSwap, Pending
  <2> QED BY <2>4, <2>5, <2>6 DEF IInv
<1>3. ASSUME NEW c \in Calls, NEW e \in Staff, NEW as \in Departures, Resign(c, e, as)
      PROVE  IInv'
  <2> DEFINE w == [op |-> "resign", who |-> e, as |-> as]
  <2>1. w \in Work /\ Meant(w)
    BY DEF Work, Meant
  <2>2. /\ call' = [call EXCEPT ![c] = w] /\ calls' \in 0..MaxCalls
        /\ rule' = [rule EXCEPT ![e] = NoRule]
        /\ \/ row' = [row EXCEPT ![e] = NoRow] /\ kept' = kept
           \/ kept' = kept \cup {e} /\ row' = row
        /\ UNCHANGED <<day, active, over, gone, req>>
    <3>1. calls' \in 0..MaxCalls
      BY <1>3 DEF Resign, Begin, Spend, IInv, TypeOK
    <3>2. call' = [call EXCEPT ![c] = w] /\ day' = day
      BY <1>3 DEF Resign, Begin
    <3>3. \/ row' = [row EXCEPT ![e] = NoRow] /\ kept' = kept
          \/ kept' = kept \cup {e} /\ row' = row
      BY <1>3, Zenon DEF Resign
    <3> QED BY <1>3, <3>1, <3>2, <3>3 DEF Resign
  <2> HIDE DEF w
  <2>3. TypeOK'
    BY <2>1, <2>2 DEF IInv, TypeOK
  <2>4. RowsExplained' /\ RulesUseActiveShifts' /\ NoDoubleAsk'
    BY <2>2 DEF IInv, TypeOK, RowsExplained, NoRow, RulesUseActiveShifts, Usable, NoDoubleAsk,
                PendingSwap, Pending
  <2>5. CallsMeant'
    BY <2>1, <2>2 DEF IInv, TypeOK, CallsMeant, Meant
  <2> QED BY <2>3, <2>4, <2>5 DEF IInv
<1>4. ASSUME DayPasses PROVE IInv'
  <2>1. /\ day # "past" /\ day' \in {"today", "past"}
        /\ UNCHANGED <<active, rule, over, row, kept, req, call, calls>>
    BY <1>4 DEF DayPasses, IInv, TypeOK
  <2>2. gone' \in [Staff -> Departures \cup {"no"}]
    BY <1>4 DEF DayPasses, IInv, TypeOK
  <2>3. TypeOK'
    BY <2>1, <2>2 DEF IInv, TypeOK
  <2>4. RowsExplained' /\ RulesUseActiveShifts' /\ NoDoubleAsk' /\ CallsMeant'
    BY <2>1 DEF IInv, RowsExplained, RulesUseActiveShifts, Usable, NoDoubleAsk, PendingSwap,
                Pending, CallsMeant, Meant
  <2> QED BY <2>3, <2>4 DEF IInv
<1> QED BY <1>1, <1>2, <1>3, <1>4 DEF StaffStep

LEMMA StepIInv == IInv /\ [Next]_vars => IInv'
<1> SUFFICES ASSUME IInv, UNCHANGED vars PROVE IInv'
    BY RuleSteps, EditSteps, RequestSteps, StaffSteps DEF Next
<1>1. UNCHANGED <<day, active, rule, over, row, gone, kept, req, call, calls>>
    BY DEF vars, tables
<1> QED BY <1>1 DEF IInv, TypeOK, RowsExplained, RulesUseActiveShifts, Usable, NoDoubleAsk,
                    PendingSwap, Pending, CallsMeant, Meant

-----------------------------------------------------------------------------

\* Everything keeps its type, for every set of employees, shifts, calls and requests.
THEOREM RosterTypeCorrect == Spec => []TypeOK
<1>1. IInv => TypeOK
    BY DEF IInv
<1> QED BY InitIInv, StepIInv, <1>1, PTL DEF Spec

\* Whoever edits, restores, approves, resigns or lays out rules at the same time, the row
\* of a day is what its override says, or else what its rule says.
THEOREM RowsAreExplained == Spec => []RowsExplained
<1>1. IInv => RowsExplained
    BY DEF IInv
<1> QED BY InitIInv, StepIInv, <1>1, PTL DEF Spec

\* However the writing of rules races with shifts that go out of use, and however often
\* a swap is asked at once, no rule names such a shift and no question is open twice.
THEOREM ChecksStillHold == Spec => []ChecksHold
<1>1. IInv => ChecksHold
    BY DEF IInv, ChecksHold
<1> QED BY InitIInv, StepIInv, <1>1, PTL DEF Spec

-----------------------------------------------------------------------------
(* What a step may do to requests and to the days that hang on them.        *)

OneStep ==
  /\ \A r \in Requests :
       /\ req[r] # NoRequest /\ req'[r] # req[r] =>
           /\ req'[r] = [req[r] EXCEPT !.status = req'[r].status]
           /\ <<req[r].status, req'[r].status>> \in Forward
       /\ Approves(r) /\ day # "past" =>
           \A e \in People(req[r]) : over'[e].kind = req[r].kind
  /\ \A e \in Staff :
       over'[e] # over[e] /\ over'[e].kind \in {"leave", "swap"} =>
           \E r \in Requests : Approves(r) /\ e \in People(req[r])

\* Steps that decide nothing.
LEMMA NothingDecided ==
  ASSUME \A r \in Requests : req[r] # NoRequest => req'[r] = req[r],
         \A e \in Staff : over'[e] = over[e] \/ over'[e].kind \notin {"leave", "swap"}
  PROVE  OneStep
BY DEF OneStep, Approves

LEMMA StepOneStep == IInv /\ [Next]_vars => OneStep
<1> SUFFICES ASSUME IInv, [Next]_vars PROVE OneStep
    OBVIOUS
<1>1. CASE UNCHANGED vars
  BY <1>1, NothingDecided DEF vars, tables
<1>2. CASE RuleStep
  <2>1. UNCHANGED <<req, over>>
    BY <1>2 DEF RuleStep, SetRule, ApplyRule, Refused, tables, ClearRule, Expand,
                DeactivateShift, ActivateShift
  <2> QED BY <2>1, NothingDecided
<1>3. CASE EditStep
  <2>1. req' = req
    BY <1>3 DEF EditStep, ClearOverride, RestoreDay, ApplyOverride, VoidBatchRow, ClearBatchRow,
                EditOnCalendar, EditInBatch, EditOnSheet, VoidOrRestore, tables
  <2>2. \/ over' = over
        \/ \E e \in Staff, o \in {NoOver, Void} \cup {Manual(s) : s \in DayShift} :
             over' = [over EXCEPT ![e] = o]
    <3>1. ASSUME NEW e \in Staff, ClearOverride(e) PROVE over' = [over EXCEPT ![e] = NoOver]
      BY <3>1 DEF ClearOverride, RestoreDay
    <3>2. ASSUME NEW c \in Calls, ApplyOverride(c) \/ VoidBatchRow(c) \/ ClearBatchRow(c)
          PROVE \E e \in Staff, o \in {NoOver, Void} \cup {Manual(s) : s \in DayShift} :
                  over' = [over EXCEPT ![e] = o]
      <4>1. call[c] \in Work /\ call[c].op \in {"edit", "void", "restore"}
        BY <3>2, Freed DEF ApplyOverride, VoidBatchRow, ClearBatchRow
      <4>2. call[c].who \in Staff /\ (call[c].op = "edit" => call[c].shift \in DayShift)
        BY <4>1 DEF Work, Idle
      <4>3. over' = [over EXCEPT ![call[c].who] =
                       IF call[c].op = "edit" THEN Manual(call[c].shift)
                       ELSE IF call[c].op = "void" THEN Void ELSE NoOver]
        BY <3>2 DEF ApplyOverride, VoidBatchRow, ClearBatchRow, RestoreDay, Transact
      <4> QED BY <4>1, <4>2, <4>3
    <3> QED BY <1>3, <3>1, <3>2 DEF EditStep, EditOnCalendar, EditInBatch, EditOnSheet,
                                    VoidOrRestore, tables
  <2>3. \A o \in {NoOver, Void} \cup {Manual(s) : s \in DayShift} : o.kind \notin {"leave", "swap"}
    BY DEF NoOver, Void, Manual
  <2>4. over \in [Staff -> [kind : {"none", "void"}, shift : {Rest}]
                           \cup [kind : {"leave"}, shift : {Rest}]
                           \cup [kind : {"manual", "swap"}, shift : DayShift]]
    BY DEF IInv, TypeOK
  <2> QED BY <2>1, <2>2, <2>3, <2>4, NothingDecided
<1>4. CASE StaffStep \/ DayPasses
  <2>1. UNCHANGED <<req, over>>
    BY <1>4 DEF StaffStep, CancelResignation, WriteDate, Resign, DayPasses
  <2> QED BY <2>1, NothingDecided
<1>5. CASE RequestStep
  <2>1. ASSUME NEW c \in Calls, InsertLeave(c) \/ InsertSwap(c) PROVE OneStep
    <3>1. over' = over
      BY <2>1 DEF InsertLeave, InsertSwap, Refused, tables
    <3>2. req' = req \/ \E r \in Requests : \E new : req[r] = NoRequest /\ req' = [req EXCEPT ![r] = new]
      BY <2>1 DEF InsertLeave, InsertSwap, Refused, tables
    <3>3. \A r \in Requests : req[r] # NoRequest => req'[r] = req[r]
      BY <3>2 DEF IInv, TypeOK
    <3> QED BY <3>1, <3>3, NothingDecided
  <2>2. ASSUME NEW r \in Requests, NEW from, NEW to \in Status \ {"pending_peer"},
               req[r] # NoRequest, from \subseteq {"pending_peer", "pending_manager"},
               to = "pending_manager" => from = {"pending_peer"},
               to = "approved" => from = {"pending_manager"}, Claim(r, from, to)
        PROVE  /\ req'[r] = [req[r] EXCEPT !.status = req'[r].status]
               /\ <<req[r].status, req'[r].status>> \in Forward
               /\ req'[r] # req[r] /\ req'[r].status = to
               /\ \A q \in Requests \ {r} : req'[q] = req[q]
    <3>1. /\ req'[r] = [req[r] EXCEPT !.status = to] /\ req'[r].status = to
          /\ \A q \in Requests \ {r} : req'[q] = req[q]
      BY <2>2, Claimed
    <3>2. req[r].status \in from
      BY <2>2 DEF Claim
    <3>3. <<req[r].status, to>> \in Forward /\ req[r].status # to
      BY <2>2, <3>2 DEF Forward, Status
    <3> QED BY <3>1, <3>3
  <2>3. ASSUME NEW c \in Calls, Decide(c) PROVE OneStep
    <3> DEFINE w == call[c]
    <3>1. w \in Work /\ w.op = "decide" /\ Meant(w)
      BY <2>3, Freed DEF Decide
    <3>2. /\ w.id \in Requests /\ w.from \subseteq {"pending_peer", "pending_manager"}
          /\ w.to \in Status \ {"pending_peer", "approved"} /\ req[w.id] # NoRequest
          /\ w.to = "pending_manager" => w.from = {"pending_peer"}
      BY <3>1 DEF Work, Idle, Status, Meant
    <3>3. CASE Refused
      BY <3>3, NothingDecided DEF Refused, tables
    <3>4. CASE Claim(w.id, w.from, w.to) /\ over' = over
      <4> HIDE DEF w
      <4>1. /\ req'[w.id] = [req[w.id] EXCEPT !.status = req'[w.id].status]
            /\ <<req[w.id].status, req'[w.id].status>> \in Forward
            /\ req'[w.id].status = w.to
            /\ \A q \in Requests \ {w.id} : req'[q] = req[q]
        BY <2>2, <3>2, <3>4
      <4>2. \A q \in Requests : ~Approves(q)
        BY <3>2, <4>1 DEF Approves
      <4> QED BY <3>4, <4>1, <4>2 DEF OneStep
    <3> QED BY <2>3, <3>3, <3>4 DEF Decide
  <2>4. ASSUME NEW c \in Calls, ApproveLeave(c) \/ ApproveSwap(c) PROVE OneStep
    <3> DEFINE id == call[c].id
               q == req[id]
    <3>1. call[c] \in Work /\ call[c].op = "approve" /\ Meant(call[c])
      BY <2>4, Freed DEF ApproveLeave, ApproveSwap
    <3>2. id \in Requests /\ q # NoRequest
      BY <3>1 DEF Work, Idle, Meant
    <3>3. q \in LeaveRequest \cup SwapRequest
      BY <3>2 DEF IInv, TypeOK
    <3>4. CASE Refused
      BY <3>4, NothingDecided DEF Refused, tables
    <3>5. ASSUME Claim(id, {"pending_manager"}, "approved"),
                 day # "past" => \A e \in People(q) : over'[e].kind = q.kind,
                 \A e \in Staff : over'[e] = over[e] \/ e \in People(q)
          PROVE  OneStep
      <4>1. "approved" \in Status \ {"pending_peer"}
        BY DEF Status
      <4>2. /\ req'[id] = [req[id] EXCEPT !.status = req'[id].status]
            /\ <<req[id].status, req'[id].status>> \in Forward
            /\ req'[id] # req[id] /\ req'[id].status = "approved"
            /\ \A r \in Requests \ {id} : req'[r] = req[r]
        BY <2>2, <3>2, <3>5, <4>1
      <4> HIDE DEF id
      <4>3. Approves(id) /\ \A r \in Requests \ {id} : ~Approves(r)
        BY <3>2, <4>2 DEF Approves
      <4> QED BY <3>2, <3>5, <4>2, <4>3 DEF OneStep
    <3>6. CASE day = "past" /\ over' = over /\ Claim(id, {"pending_manager"}, "approved")
      BY <3>5, <3>6
    <3>7. CASE /\ q.kind = "leave" /\ Claim(id, {"pending_manager"}, "approved")
               /\ over' = [over EXCEPT ![q.by] = Leave]
      <4>1. People(q) = {q.by} /\ q.by \in Staff
        BY <3>3, <3>7 DEF People, LeaveRequest, SwapRequest
      <4>2. over'[q.by] = Leave /\ \A e \in Staff \ {q.by} : over'[e] = over[e]
        BY <3>7, <4>1 DEF IInv, TypeOK
      <4> QED BY <3>5, <3>7, <4>1, <4>2 DEF Leave
    <3>8. CASE /\ q.kind = "swap" /\ Claim(id, {"pending_manager"}, "approved")
               /\ over' = [over EXCEPT ![q.by] = Swap(Has(q.peer)), ![q.peer] = Swap(Has(q.by))]
      <4>1. People(q) = {q.by, q.peer} /\ q.by \in Staff /\ q.peer \in Staff
        BY <3>3, <3>8 DEF People, LeaveRequest, SwapRequest
      <4>2. \A e \in Staff : IF e = q.peer THEN over'[e] = Swap(Has(q.by))
                             ELSE IF e = q.by THEN over'[e] = Swap(Has(q.peer))
                             ELSE over'[e] = over[e]
        BY <3>8, <4>1 DEF IInv, TypeOK
      <4>3. \A s : Swap(s).kind = "swap"
        BY DEF Swap
      <4> HIDE DEF q
      <4> QED BY <3>5, <3>8, <4>1, <4>2, <4>3
    <3> QED BY <2>4, <3>4, <3>6, <3>7, <3>8 DEF ApproveLeave, ApproveSwap
  <2>5. CASE UNCHANGED <<req, over>>
    BY <2>5, NothingDecided
  <2> QED BY <1>5, <2>1, <2>3, <2>4, <2>5
          DEF RequestStep, AskLeave, AskSwap, CancelRequest, RejectRequest, AnswerSwap,
              BeginDecision, ApproveRequest, tables
<1> QED BY <1>1, <1>2, <1>3, <1>4, <1>5 DEF Next

\* A request only moves forward, and is approved, once, in the step that writes the day
\* of everyone concerned; nothing else writes a leave or a swap.
THEOREM ApprovedInOneStep == Spec => ApprovalIsOneStep
<1> QED BY InitIInv, StepIInv, StepOneStep, PTL DEF Spec, ApprovalIsOneStep, OneStep

-----------------------------------------------------------------------------
(* Overtime.                                                               *)

\* What the parameters are made of.
LEMMA Numbers ==
    /\ Hours \subseteq Int /\ DayCounts \subseteq Nat
    /\ Credits \subseteq Int /\ Hand \subseteq Int
<1>1. Hours \subseteq Int
  BY LedgerAssumption DEF HALF_HOURS_MAX
<1>2. DayCounts \subseteq Nat
  BY LedgerAssumption DEF MAX_DEDUCTION_DAYS
<1>3. Credits \subseteq Int /\ Hand \subseteq Int
  BY LedgerAssumption
<1> QED
  BY <1>1, <1>2, <1>3
---------------------------------------------------------------------------
(* Sums *)

\* A sum that gains at most the n units of one row grows by at most n.
LEMMA OneRow ==
    ASSUME NEW S, NEW T, NEW x, NEW n \in Nat, IsFiniteSet(S),
           T \subseteq S \cup ({x} \X (1..n))
    PROVE  /\ IsFiniteSet(T)
           /\ Cardinality(S) \in Nat /\ Cardinality(T) \in Nat
           /\ Cardinality(T) <= Cardinality(S) + n
<1> DEFINE B == {x} \X (1..n)
<1>1. IsFiniteSet({x}) /\ Cardinality({x}) = 1
  BY FS_Singleton
<1>2. IsFiniteSet(1..n) /\ Cardinality(1..n) = n
  BY FS_Interval
<1>3. IsFiniteSet(B) /\ Cardinality(B) = n
  <2>1. IsFiniteSet(B) /\ Cardinality(B) = Cardinality({x}) * Cardinality(1..n)
    BY <1>1, <1>2, FS_Product, Zenon
  <2> QED
    BY <1>1, <1>2, <2>1
<1>4. IsFiniteSet(S \cap B) /\ Cardinality(S \cap B) \in Nat
  BY <1>3, FS_Subset, FS_CardinalityType
<1>5. /\ IsFiniteSet(S \cup B)
      /\ Cardinality(S \cup B) = Cardinality(S) + Cardinality(B) - Cardinality(S \cap B)
  BY <1>3, FS_Union
<1>6. IsFiniteSet(T) /\ Cardinality(T) <= Cardinality(S \cup B)
  BY <1>5, FS_Subset
<1>7. Cardinality(S) \in Nat /\ Cardinality(T) \in Nat
  BY <1>6, FS_CardinalityType
<1> QED
  BY <1>3, <1>4, <1>5, <1>6, <1>7

\* A sum over fewer units is no greater.
LEMMA FewerUnits ==
    ASSUME NEW S, NEW T, IsFiniteSet(S), T \subseteq S
    PROVE  /\ IsFiniteSet(T)
           /\ Cardinality(S) \in Nat /\ Cardinality(T) \in Nat
           /\ Cardinality(T) <= Cardinality(S)
  BY FS_Subset, FS_CardinalityType

\* The units of a month are finitely many: so are rows, and no row is large.
LEMMA UnitsAreFinite ==
    ASSUME NEW s, NEW m
    PROVE  /\ IsFiniteSet(MakeupUnits(s, m)) /\ ApprovedMakeup(s, m) \in Nat
           /\ IsFiniteSet(DayUnits(s, m)) /\ DeductionDays(s, m) \in Nat
           /\ IsFiniteSet(MakeupUnits(s, m)') /\ ApprovedMakeup(s, m)' \in Nat
           /\ IsFiniteSet(DayUnits(s, m)') /\ DeductionDays(s, m)' \in Nat
<1>1. IsFiniteSet(Entries \X (1..HALF_HOURS_MAX))
  <2>1. HALF_HOURS_MAX \in Int
    BY DEF HALF_HOURS_MAX
  <2>2. IsFiniteSet(1..HALF_HOURS_MAX)
    BY <2>1, FS_Interval
  <2> QED
    BY <2>2, LedgerAssumption, FS_Product, Zenon
<1>2. IsFiniteSet(Deductions \X (1..MAX_DEDUCTION_DAYS))
  <2>1. MAX_DEDUCTION_DAYS \in Int
    BY DEF MAX_DEDUCTION_DAYS
  <2>2. IsFiniteSet(1..MAX_DEDUCTION_DAYS)
    BY <2>1, FS_Interval
  <2> QED
    BY <2>2, LedgerAssumption, FS_Product, Zenon
<1>3. /\ MakeupUnits(s, m) \subseteq Entries \X (1..HALF_HOURS_MAX)
      /\ MakeupUnits(s, m)' \subseteq Entries \X (1..HALF_HOURS_MAX)
  BY DEF MakeupUnits
<1>4. /\ DayUnits(s, m) \subseteq Deductions \X (1..MAX_DEDUCTION_DAYS)
      /\ DayUnits(s, m)' \subseteq Deductions \X (1..MAX_DEDUCTION_DAYS)
  BY DEF DayUnits
<1>5. /\ IsFiniteSet(MakeupUnits(s, m)) /\ Cardinality(MakeupUnits(s, m)) \in Nat
      /\ IsFiniteSet(MakeupUnits(s, m)') /\ Cardinality(MakeupUnits(s, m)') \in Nat
  BY <1>1, <1>3, FewerUnits
<1>6. /\ IsFiniteSet(DayUnits(s, m)) /\ Cardinality(DayUnits(s, m)) \in Nat
      /\ IsFiniteSet(DayUnits(s, m)') /\ Cardinality(DayUnits(s, m)') \in Nat
  BY <1>2, <1>4, FewerUnits
<1> QED
  BY <1>5, <1>6 DEF ApprovedMakeup, DeductionDays
---------------------------------------------------------------------------
(* What an update of one row changes *)

LEMMA ClaimedEntry ==
    ASSUME LedgerTypeOK, NEW e \in Entries, NEW from \in EntryStatus, NEW to \in EntryStatus,
           ClaimEntry(e, from, to)
    PROVE  /\ entry[e] # None /\ entry[e] \in EntryRow /\ entry[e].status = from
           /\ entry' \in [Entries -> EntryRow \cup {None}]
           /\ \A x \in Entries \ {e} : entry'[x] = entry[x]
           /\ entry'[e] \in EntryRow /\ entry'[e] # None
           /\ entry'[e].who = entry[e].who /\ entry'[e].month = entry[e].month
           /\ entry'[e].hours = entry[e].hours /\ entry'[e].status = to
<1>1. entry[e] # None /\ entry[e] \in EntryRow /\ entry[e].status = from
  BY DEF LedgerTypeOK, ClaimEntry, EntryIs
<1>2. entry' = [entry EXCEPT ![e] = [entry[e] EXCEPT !.status = to]]
  BY DEF ClaimEntry
<1>3. [entry[e] EXCEPT !.status = to] \in EntryRow
  BY <1>1 DEF EntryRow
<1>4. entry'[e] = [entry[e] EXCEPT !.status = to] /\ \A x \in Entries \ {e} : entry'[x] = entry[x]
  BY <1>2 DEF LedgerTypeOK
<1>5. entry' \in [Entries -> EntryRow \cup {None}]
  BY <1>2, <1>3 DEF LedgerTypeOK
<1>6. /\ entry'[e].who = entry[e].who /\ entry'[e].month = entry[e].month
      /\ entry'[e].hours = entry[e].hours /\ entry'[e].status = to
  BY <1>1, <1>4 DEF EntryRow
<1> QED
  BY <1>1, <1>3, <1>4, <1>5, <1>6, LedgerAssumption

LEMMA ClaimedDeduction ==
    ASSUME LedgerTypeOK, NEW d \in Deductions, NEW from \in EntryStatus, NEW to \in EntryStatus,
           ClaimDeduction(d, from, to)
    PROVE  /\ deduction[d] # None /\ deduction[d] \in DeductionRow
           /\ deduction[d].status = from
           /\ deduction' \in [Deductions -> DeductionRow \cup {None}]
           /\ \A x \in Deductions \ {d} : deduction'[x] = deduction[x]
           /\ deduction'[d] \in DeductionRow /\ deduction'[d] # None
           /\ deduction'[d].who = deduction[d].who
           /\ deduction'[d].month = deduction[d].month
           /\ deduction'[d].days = deduction[d].days /\ deduction'[d].status = to
           /\ UNCHANGED <<now, entry, withdrawing, snapshot, credit, ledger, manual>>
<1>1. /\ deduction[d] # None /\ deduction[d] \in DeductionRow
      /\ deduction[d].status = from
  BY DEF LedgerTypeOK, ClaimDeduction
<1>2. deduction' = [deduction EXCEPT ![d] = [deduction[d] EXCEPT !.status = to]]
  BY DEF ClaimDeduction
<1>3. [deduction[d] EXCEPT !.status = to] \in DeductionRow
  BY <1>1 DEF DeductionRow
<1>4. /\ deduction'[d] = [deduction[d] EXCEPT !.status = to]
      /\ \A x \in Deductions \ {d} : deduction'[x] = deduction[x]
  BY <1>2 DEF LedgerTypeOK
<1>5. deduction' \in [Deductions -> DeductionRow \cup {None}]
  BY <1>2, <1>3 DEF LedgerTypeOK
<1>6. /\ deduction'[d].who = deduction[d].who
      /\ deduction'[d].month = deduction[d].month
      /\ deduction'[d].days = deduction[d].days /\ deduction'[d].status = to
  BY <1>1, <1>4 DEF DeductionRow
<1>7. UNCHANGED <<now, entry, withdrawing, snapshot, credit, ledger, manual>>
  BY DEF ClaimDeduction
<1> QED
  BY <1>1, <1>3, <1>4, <1>5, <1>6, <1>7, LedgerAssumption

\* While no approved entry loses its approval, no make-up is lost.
LEMMA MakeupStays ==
    ASSUME NEW s, NEW m,
           \A e \in Entries : Counts(entry[e], s, m) =>
               Counts(entry'[e], s, m) /\ entry'[e].hours = entry[e].hours
    PROVE  ApprovedMakeup(s, m) <= ApprovedMakeup(s, m)'
<1>1. MakeupUnits(s, m) \subseteq MakeupUnits(s, m)'
  BY DEF MakeupUnits
<1>2. IsFiniteSet(MakeupUnits(s, m)')
  BY UnitsAreFinite
<1> QED
  BY <1>1, <1>2, FewerUnits DEF ApprovedMakeup

\* While no deduction gains approval, nothing is written off.
LEMMA DaysDoNotGrow ==
    ASSUME NEW s, NEW m,
           \A d \in Deductions : Counts(deduction'[d], s, m) =>
               Counts(deduction[d], s, m) /\ deduction'[d].days = deduction[d].days
    PROVE  DeductionDays(s, m)' <= DeductionDays(s, m)
<1>1. DayUnits(s, m)' \subseteq DayUnits(s, m)
  BY DEF DayUnits
<1>2. IsFiniteSet(DayUnits(s, m))
  BY UnitsAreFinite
<1> QED
  BY <1>1, <1>2, FewerUnits DEF DeductionDays

\* An approved deduction writes off no more than its days, and only in its month.
LEMMA DaysOfOne ==
    ASSUME LedgerTypeOK, NEW d \in Deductions, ClaimDeduction(d, "pending", "approved"),
           NEW s, NEW m
    PROVE  DeductionDays(s, m)' <=
               DeductionDays(s, m) + (IF Belongs(deduction[d], s, m) THEN deduction[d].days ELSE 0)
<1>1. /\ deduction[d] # None /\ deduction[d] \in DeductionRow
      /\ \A x \in Deductions \ {d} : deduction'[x] = deduction[x]
      /\ deduction'[d] # None
      /\ deduction'[d].who = deduction[d].who
      /\ deduction'[d].month = deduction[d].month
      /\ deduction'[d].days = deduction[d].days
  BY ClaimedDeduction DEF EntryStatus
<1>2. deduction[d].days \in Nat
  BY <1>1, Numbers DEF DeductionRow
<1>3. CASE Belongs(deduction[d], s, m)
  <2>1. DayUnits(s, m)' \subseteq DayUnits(s, m) \cup ({d} \X (1..deduction[d].days))
    BY <1>1, <1>2 DEF DayUnits, Counts, MAX_DEDUCTION_DAYS
  <2>2. IsFiniteSet(DayUnits(s, m))
    BY UnitsAreFinite
  <2> QED
    BY <1>2, <1>3, <2>1, <2>2, OneRow DEF DeductionDays
<1>4. CASE ~Belongs(deduction[d], s, m)
  <2>1. DeductionDays(s, m)' <= DeductionDays(s, m)
    BY <1>1, <1>4, DaysDoNotGrow DEF Counts, Belongs
  <2> QED
    BY <1>4, <2>1, UnitsAreFinite
<1> QED
  BY <1>3, <1>4

\* A voided entry takes no more than its own hours, and only from its month.
LEMMA MakeupOfOne ==
    ASSUME LedgerTypeOK, NEW e \in Entries, ClaimEntry(e, "approved", "voided"), NEW s, NEW m
    PROVE  ApprovedMakeup(s, m) <=
               ApprovedMakeup(s, m)'
                   + (IF Belongs(entry[e], s, m) /\ entry[e].hours < 0
                      THEN -entry[e].hours ELSE 0)
<1>1. /\ entry[e] # None /\ entry[e] \in EntryRow
      /\ \A x \in Entries \ {e} : entry'[x] = entry[x]
  BY ClaimedEntry DEF EntryStatus
<1>2. entry[e].hours \in Int
  BY <1>1, Numbers DEF EntryRow
<1>3. CASE Belongs(entry[e], s, m) /\ entry[e].hours < 0
  <2>1. MakeupUnits(s, m) \subseteq MakeupUnits(s, m)' \cup ({e} \X (1..(-entry[e].hours)))
    BY <1>1, <1>2 DEF MakeupUnits, HALF_HOURS_MAX
  <2>2. IsFiniteSet(MakeupUnits(s, m)')
    BY UnitsAreFinite
  <2>3. -entry[e].hours \in Nat
    BY <1>2, <1>3
  <2> QED
    BY <1>3, <2>1, <2>2, <2>3, OneRow DEF ApprovedMakeup
<1>4. CASE ~(Belongs(entry[e], s, m) /\ entry[e].hours < 0)
  <2>1. MakeupUnits(s, m) \subseteq MakeupUnits(s, m)'
    BY <1>1, <1>2, <1>4 DEF MakeupUnits, Counts, HALF_HOURS_MAX
  <2>2. IsFiniteSet(MakeupUnits(s, m)')
    BY UnitsAreFinite
  <2>3. ApprovedMakeup(s, m) <= ApprovedMakeup(s, m)'
    BY <2>1, <2>2, FewerUnits DEF ApprovedMakeup
  <2> QED
    BY <1>4, <2>3, UnitsAreFinite
<1> QED
  BY <1>3, <1>4
---------------------------------------------------------------------------
(* Types *)

LEMMA PreviousType ==
    ASSUME LedgerTypeOK, NEW s \in Employees, NEW m \in Months
    PROVE  PreviousBalance(s, m) \in Int
<1>1. OrZero(ledger[s][m].opening) \in Int
  BY DEF LedgerTypeOK, LedgerRow, OrZero
<1>2. CASE m > 1 /\ ledger[s][m - 1].sealed
  <2>1. m - 1 \in Months
    BY <1>2, LedgerAssumption DEF Months
  <2>2. ledger[s][m - 1] \in LedgerRow
    BY <2>1 DEF LedgerTypeOK
  <2> QED
    BY <1>2, <2>2 DEF LedgerRow, PreviousBalance, OrZero
<1> QED
  BY <1>1, <1>2 DEF PreviousBalance

LEMMA BalanceType ==
    ASSUME LedgerTypeOK, NEW s \in Employees, NEW m \in Months
    PROVE  Balance(s, m) \in Int
<1>1. ledger[s][m] \in LedgerRow /\ credit[s][m] \in Int
  BY Numbers DEF LedgerTypeOK
<1>2. PreviousBalance(s, m) \in Int /\ DeductionDays(s, m) \in Nat
  BY PreviousType, UnitsAreFinite
<1> QED
  BY <1>1, <1>2 DEF Balance, LedgerRow

\* Who moves a balance leaves a decision and a sealing what they are.
LEMMA MovedType ==
    ASSUME LedgerTypeOK, Moving, UNCHANGED now
    PROVE  /\ task' \in Decision \cup Sealing \cup {None}
           /\ (Holds("seal") => task.month < now)'
<1>1. CASE task' = task
  BY <1>1 DEF LedgerTypeOK, Holds
<1>2. CASE task' # task
  <2>1. /\ task # None /\ task.op # "seal"
        /\ task' = [task EXCEPT !.moved = TRUE]
    BY <1>2 DEF Moving, About
  <2>2. task \in Decision
    BY <2>1 DEF LedgerTypeOK, Sealing
  <2>3. task' \in Decision /\ task'.op # "seal"
    BY <2>1, <2>2 DEF Decision
  <2> QED
    BY <2>3 DEF Holds
<1> QED
  BY <1>1, <1>2

LEMMA TypeInit == LedgerInit => LedgerTypeOK
<1> SUFFICES ASSUME LedgerInit PROVE LedgerTypeOK
  OBVIOUS
<1>1. now \in Months
  BY LedgerAssumption DEF LedgerInit, Months
<1>2. ledger \in [Employees -> [Months -> LedgerRow]] /\ \A s \in Employees, m \in Months : ~ledger[s][m].sealed
  BY DEF LedgerInit, NoLedgerRow, LedgerRow
<1>3. credit \in [Employees -> [Months -> Credits]]
  BY LedgerAssumption DEF LedgerInit
<1> QED
  BY <1>1, <1>2, <1>3 DEF LedgerInit, LedgerTypeOK, Holds

LEMMA TypeNext == LedgerTypeOK /\ [LedgerNext]_ledgerVars => LedgerTypeOK'
<1> SUFFICES ASSUME LedgerTypeOK, [LedgerNext]_ledgerVars PROVE LedgerTypeOK'
  OBVIOUS
<1>1. ASSUME NEW e \in Entries, NEW s \in Employees, NEW m \in Months, NEW h \in Hours,
             SubmitEntry(e, s, m, h)
      PROVE  LedgerTypeOK'
  <2>1. [who |-> s, month |-> m, hours |-> h, status |-> "pending"] \in EntryRow
    BY DEF EntryRow, EntryStatus
  <2>2. entry' \in [Entries -> EntryRow \cup {None}]
    BY <1>1, <2>1 DEF SubmitEntry, LedgerTypeOK
  <2>3. \A x \in Entries : entry'[x] # None => entry'[x].month <= now
    BY <1>1 DEF SubmitEntry, LedgerTypeOK
  <2> QED
    BY <1>1, <2>2, <2>3 DEF SubmitEntry, LedgerTypeOK, Holds
<1>2. ASSUME NEW e \in Entries, NEW from \in EntryStatus, NEW to \in EntryStatus, ClaimEntry(e, from, to),
             withdrawing' \subseteq withdrawing,
             snapshot' \in [Employees -> [Months -> Salaries \cup {None}]],
             UNCHANGED <<now, deduction, credit, ledger, manual, task>>
      PROVE  LedgerTypeOK'
  <2>1. /\ entry' \in [Entries -> EntryRow \cup {None}]
        /\ entry[e] # None /\ entry'[e].month = entry[e].month
        /\ \A x \in Entries \ {e} : entry'[x] = entry[x]
    BY <1>2, ClaimedEntry
  <2>2. \A x \in Entries : entry'[x] # None => entry'[x].month <= now
    BY <2>1 DEF LedgerTypeOK
  <2> QED
    BY <1>2, <2>1, <2>2 DEF LedgerTypeOK, Holds
<1>3. ASSUME NEW d \in Deductions, NEW from \in EntryStatus, NEW to \in EntryStatus,
             ClaimDeduction(d, from, to)
      PROVE  LedgerTypeOK'
  <2>1. deduction' \in [Deductions -> DeductionRow \cup {None}]
    BY <1>3, ClaimedDeduction
  <2>2. /\ task' = None
        /\ UNCHANGED <<now, entry, withdrawing, snapshot, credit, ledger, manual>>
    BY <1>3 DEF ClaimDeduction
  <2> QED
    BY <2>1, <2>2 DEF LedgerTypeOK, Holds
<1>4. ASSUME NEW e \in Entries, CancelRead(e) PROVE LedgerTypeOK'
  BY <1>4 DEF CancelRead, LedgerTypeOK, Holds
<1>5. ASSUME NEW e \in Entries, CancelDecide(e) PROVE LedgerTypeOK'
  <2>1. CASE ClaimEntry(e, "pending", "cancelled")
    BY <1>5, <1>2, <2>1 DEF CancelDecide, EntryStatus, LedgerTypeOK
  <2>2. CASE UNCHANGED entry
    BY <1>5, <2>2 DEF CancelDecide, LedgerTypeOK, Holds
  <2> QED
    BY <1>5, <2>1, <2>2 DEF CancelDecide
<1>6. ASSUME NEW e \in Entries, Approve(e) PROVE LedgerTypeOK'
  <2>1. /\ entry[e].who \in Employees /\ entry[e].month \in Months
        /\ ClaimEntry(e, "pending", "approved")
    BY <1>6, ClaimedEntry DEF Approve, EntryStatus, EntryRow
  <2>2. snapshot' \in [Employees -> [Months -> Salaries \cup {None}]]
    BY <1>6, <2>1 DEF Approve, WithSnapshot, LedgerTypeOK
  <2> QED
    BY <1>2, <1>6, <2>1, <2>2 DEF Approve, EntryStatus
<1>7. ASSUME NEW e \in Entries, Reject(e) \/ VoidEntry(e) PROVE LedgerTypeOK'
  BY <1>2, <1>7 DEF Reject, VoidEntry, EntryStatus, LedgerTypeOK
<1>8. ASSUME NEW d \in Deductions, SubmitDeduction(d) PROVE LedgerTypeOK'
  <2>1. task \in Decision
    BY <1>8 DEF SubmitDeduction, LedgerTypeOK, Holds, Sealing
  <2>2. [who |-> task.who, month |-> task.month, days |-> task.days, status |-> "pending"]
            \in DeductionRow
    BY <2>1 DEF Decision, DeductionRow, EntryStatus
  <2> QED
    BY <1>8, <2>2 DEF SubmitDeduction, LedgerTypeOK, Holds
<1>9. ASSUME NEW d \in Deductions,
             ApproveDeduction(d) \/ RejectDeduction(d) \/ CancelDeduction(d) \/ VoidDeduction(d)
      PROVE  LedgerTypeOK'
  BY <1>3, <1>9 DEF ApproveDeduction, RejectDeduction, CancelDeduction, VoidDeduction, EntryStatus
<1>10. ASSUME Seal PROVE LedgerTypeOK'
  <2>1. /\ task \in Sealing /\ task.month \in Months /\ task.month < now
        /\ task.closing \in [Employees -> Int \cup {None}]
    BY <1>10 DEF Seal, LedgerTypeOK, Holds, Decision, Sealing
  <2> DEFINE m == task.month
             closing == task.closing
  <2> HIDE DEF m, closing
  <2>2. ASSUME NEW s \in Employees
        PROVE  /\ ledger'[s] \in [Months -> LedgerRow]
               /\ \A k \in Months : ledger'[s][k].sealed => ledger[s][k].sealed \/ k = m
    <3>1. ledger[s] \in [Months -> LedgerRow] /\ m \in Months
      BY <2>1 DEF LedgerTypeOK, m
    <3>2. closing[s] \in Int \cup {None}
      BY <2>1 DEF closing
    <3>3. CASE closing[s] # None
      <4>1. ledger'[s] = [ledger[s] EXCEPT ![m].closing = closing[s], ![m].sealed = TRUE]
        BY <1>10, <3>3 DEF Seal, m, closing
      <4>2. ledger'[s] = [ledger[s] EXCEPT ![m] =
                          [ledger[s][m] EXCEPT !.closing = closing[s], !.sealed = TRUE]]
        BY <3>1, <4>1
      <4>3. [ledger[s][m] EXCEPT !.closing = closing[s], !.sealed = TRUE] \in LedgerRow
        BY <3>1, <3>2 DEF LedgerRow
      <4> QED
        BY <3>1, <4>2, <4>3
    <3>4. CASE closing[s] = None
      BY <1>10, <3>1, <3>4 DEF Seal, closing
    <3> QED
      BY <3>3, <3>4
  <2>3. ledger' \in [Employees -> [Months -> LedgerRow]]
    BY <1>10, <2>2 DEF Seal
  <2>4. \A s \in Employees, k \in Months : ledger'[s][k].sealed => k < now
    BY <2>1, <2>2 DEF LedgerTypeOK, m
  <2> QED
    BY <1>10, <2>3, <2>4 DEF Seal, LedgerTypeOK, Holds
<1>11. ASSUME NEW s \in Employees, NEW f \in {"opening", "closing"}, NEW v \in Hand \cup {None},
              ManualCheck(s, f, v)
       PROVE  LedgerTypeOK'
  <2>1. [who |-> s, month |-> now, field |-> f, value |-> v] \in ManualCall
    BY DEF ManualCall, LedgerTypeOK
  <2> QED
    BY <1>11, <2>1 DEF ManualCheck, LedgerTypeOK, Holds
<1>12. ASSUME ManualWrite PROVE LedgerTypeOK'
  <2>1. manual \in ManualCall
    BY <1>12 DEF ManualWrite, LedgerTypeOK
  <2>2. manual.who \in Employees /\ manual.month \in Months /\ manual.value \in Int \cup {None}
    BY <2>1, LedgerAssumption DEF ManualCall
  <2>3. ledger[manual.who][manual.month] \in LedgerRow
    BY <2>2 DEF LedgerTypeOK
  <2>4. \E r \in LedgerRow :
           /\ r.sealed = ledger[manual.who][manual.month].sealed
           /\ ledger' = [ledger EXCEPT ![manual.who][manual.month] = r]
    BY <1>12, <2>2, <2>3 DEF ManualWrite, LedgerRow
  <2>5. /\ ledger' \in [Employees -> [Months -> LedgerRow]]
        /\ \A s \in Employees, k \in Months : ledger'[s][k].sealed = ledger[s][k].sealed
    BY <2>2, <2>4 DEF LedgerTypeOK
  <2>6. task' \in Decision \cup Sealing \cup {None} /\ (Holds("seal") => task.month < now)'
    BY <1>12, MovedType DEF ManualWrite
  <2> QED
    BY <1>12, <2>5, <2>6 DEF ManualWrite, LedgerTypeOK
<1>13. ASSUME NEW s \in Employees, NEW m \in Months, NEW c \in Credits, Reschedule(s, m, c)
       PROVE  LedgerTypeOK'
  <2>1. task' \in Decision \cup Sealing \cup {None} /\ (Holds("seal") => task.month < now)'
    BY <1>13, MovedType DEF Reschedule
  <2> QED
    BY <1>13, <2>1 DEF Reschedule, LedgerTypeOK
<1>14. ASSUME NextMonth PROVE LedgerTypeOK'
  <2>1. now' \in Months /\ now < now'
    BY <1>14, LedgerAssumption DEF NextMonth, LedgerTypeOK, Months
  <2>2. \A e \in Entries : entry[e] # None => entry[e].month <= now'
    BY <2>1, LedgerAssumption DEF LedgerTypeOK, Months, EntryRow
  <2>3. \A s \in Employees, m \in Months : ledger[s][m].sealed => m < now'
    BY <2>1, LedgerAssumption DEF LedgerTypeOK, Months
  <2>4. (Holds("seal") => task.month < now)'
    <3>1. Holds("seal") => task.month \in Int /\ task.month < now
      BY DEF LedgerTypeOK, Holds, Decision, Sealing, Months
    <3>2. task' = task /\ now' \in Int /\ now \in Int
      BY <1>14, <2>1 DEF NextMonth, LedgerTypeOK, Months
    <3> QED
      BY <2>1, <3>1, <3>2 DEF Holds
  <2> QED
    BY <1>14, <2>1, <2>2, <2>3, <2>4 DEF NextMonth, LedgerTypeOK
<1>15. ASSUME NEW op \in {"submit", "approve"}, NEW d \in Deductions \cup {None},
              NEW s \in Employees, NEW m \in Months, NEW n \in DayCounts, Weigh(op, d, s, m, n)
       PROVE  LedgerTypeOK'
  <2>1. task' \in Decision /\ task'.op # "seal"
    BY <1>15 DEF Weigh, Decision
  <2> QED
    BY <1>15, <2>1 DEF Weigh, LedgerTypeOK, Holds
<1>16. ASSUME NEW d \in Deductions, ApproveCheck(d) PROVE LedgerTypeOK'
  <2>1. deduction[d] \in DeductionRow
    BY <1>16 DEF ApproveCheck, LedgerTypeOK
  <2> QED
    BY <1>15, <1>16, <2>1 DEF ApproveCheck, DeductionRow
<1>17. ASSUME NEW m \in Months, SealRead(m) PROVE LedgerTypeOK'
  <2>1. \A s \in Employees : Balance(s, m) \in Int
    BY BalanceType
  <2>2. task' \in Sealing /\ task'.month = m /\ m < now
    BY <1>17, <2>1 DEF SealRead, Sealing
  <2> QED
    BY <1>17, <2>2 DEF SealRead, LedgerTypeOK, Holds
<1>18. ASSUME GiveUp PROVE LedgerTypeOK'
  BY <1>18 DEF GiveUp, LedgerTypeOK, Holds
<1>19. CASE UNCHANGED ledgerVars
  BY <1>19 DEF ledgerVars, LedgerTypeOK, Holds
<1> QED
  BY <1>1, <1>4, <1>5, <1>6, <1>7, <1>8, <1>9, <1>10, <1>11, <1>12, <1>13, <1>14, <1>15, <1>16,
     <1>17, <1>18, <1>19 DEF LedgerNext, SubmitCheck

\* The types hold of every reachable state.
THEOREM LedgerTypeCorrect == LedgerSpec => []LedgerTypeOK
<1>1. LedgerInit => LedgerTypeOK
  BY TypeInit
<1>2. LedgerTypeOK /\ [LedgerNext]_ledgerVars => LedgerTypeOK'
  BY TypeNext
<1> QED
  BY <1>1, <1>2, PTL DEF LedgerSpec
---------------------------------------------------------------------------
(* What a decision has read *)

\* While a decision has the lock, what it read still holds: its month is open, its hours
\* are covered, and its balance is there unless it moved.  An approval is about its
\* deduction, and a month that is being sealed is still open for everybody.
Weighed ==
    /\ \A s \in Employees, m \in Months : About(s, m) =>
           /\ ~ledger[s][m].sealed
           /\ HALF_HOURS_PER_LEAVE_DAY * (DeductionDays(s, m) + task.days)
                  <= ApprovedMakeup(s, m)
           /\ task.moved \/ 2 * task.days <= Balance(s, m)
    /\ Holds("approve") =>
           /\ deduction[task.id] # None
           /\ deduction[task.id].who = task.who
           /\ deduction[task.id].month = task.month
           /\ deduction[task.id].days = task.days
    /\ Holds("seal") => \A s \in Employees : ~ledger[s][task.month].sealed

\* The sums depend on the rows alone, ...
LEMMA SumsStay ==
    ASSUME UNCHANGED <<entry, deduction>>, NEW s, NEW m
    PROVE  /\ ApprovedMakeup(s, m)' = ApprovedMakeup(s, m)
           /\ DeductionDays(s, m)' = DeductionDays(s, m)
  BY DEF ApprovedMakeup, MakeupUnits, DeductionDays, DayUnits, Counts, Belongs

\* ... and the balance on the deductions, the schedule and the ledger.
LEMMA BalanceStays ==
    ASSUME UNCHANGED <<deduction, credit, ledger>>, NEW s, NEW m
    PROVE  Balance(s, m)' = Balance(s, m)
  BY DEF Balance, PreviousBalance, OrZero, DeductionDays, DayUnits, Counts, Belongs

LEMMA WeighedInit == LedgerInit => Weighed
  BY DEF LedgerInit, Weighed, About, Holds

LEMMA WeighedNext == LedgerTypeOK /\ Weighed /\ [LedgerNext]_ledgerVars => Weighed'
<1> SUFFICES ASSUME LedgerTypeOK, Weighed, [LedgerNext]_ledgerVars PROVE Weighed'
  OBVIOUS
<1>1. ASSUME task' = None PROVE Weighed'
  BY <1>1 DEF Weighed, About, Holds
<1>2. ASSUME NEW op \in {"submit", "approve"}, NEW d \in Deductions \cup {None},
             NEW s \in Employees, NEW m \in Months, NEW n \in DayCounts, Weigh(op, d, s, m, n),
             op = "approve" => /\ deduction[d] # None /\ deduction[d].who = s
                               /\ deduction[d].month = m /\ deduction[d].days = n
      PROVE  Weighed'
  <2>1. /\ UNCHANGED <<entry, deduction, credit, ledger>>
        /\ task'.op = op /\ task'.id = d /\ task'.who = s /\ task'.month = m /\ task'.days = n
        /\ Capacity(s, m, n)
    BY <1>2 DEF Weigh
  <2>2. ASSUME NEW x \in Employees, NEW k \in Months, About(x, k)'
        PROVE  /\ ~ledger'[x][k].sealed
               /\ HALF_HOURS_PER_LEAVE_DAY * (DeductionDays(x, k)' + task'.days)
                      <= ApprovedMakeup(x, k)'
               /\ 2 * task'.days <= Balance(x, k)'
    <3>1. x = s /\ k = m
      BY <2>1, <2>2 DEF About
    <3>2. Capacity(x, k, task'.days) /\ ledger' = ledger
      BY <2>1, <3>1
    <3> QED
      BY <2>1, <3>2, SumsStay, BalanceStays DEF Capacity
  <2>3. (Holds("approve") => /\ deduction[task.id] # None
                             /\ deduction[task.id].who = task.who
                             /\ deduction[task.id].month = task.month
                             /\ deduction[task.id].days = task.days)'
    BY <1>2, <2>1 DEF Holds
  <2>4. ~Holds("seal")'
    BY <2>1 DEF Holds
  <2> QED
    BY <2>2, <2>3, <2>4 DEF Weighed
<1>3. ASSUME NEW m \in Months, SealRead(m) PROVE Weighed'
  <2>1. /\ task'.op = "seal" /\ task'.month = m /\ ledger' = ledger
        /\ \A s \in Employees : ~ledger[s][m].sealed
    BY <1>3 DEF SealRead
  <2> QED
    BY <2>1 DEF Weighed, About, Holds
<1>4. ASSUME UNCHANGED <<entry, deduction, credit, ledger, task>> PROVE Weighed'
  <2>1. ASSUME NEW x \in Employees, NEW k \in Months, About(x, k)'
        PROVE  /\ ~ledger'[x][k].sealed
               /\ HALF_HOURS_PER_LEAVE_DAY * (DeductionDays(x, k)' + task'.days)
                      <= ApprovedMakeup(x, k)'
               /\ task'.moved \/ 2 * task'.days <= Balance(x, k)'
    <3>1. About(x, k)
      BY <1>4, <2>1 DEF About
    <3>2. /\ ~ledger[x][k].sealed
          /\ HALF_HOURS_PER_LEAVE_DAY * (DeductionDays(x, k) + task.days)
                 <= ApprovedMakeup(x, k)
          /\ task.moved \/ 2 * task.days <= Balance(x, k)
      BY <3>1 DEF Weighed
    <3> QED
      BY <1>4, <3>2, SumsStay, BalanceStays
  <2> QED
    BY <1>4, <2>1 DEF Weighed, Holds
<1>5. ASSUME Moving, UNCHANGED <<entry, deduction>>,
             \A s \in Employees, m \in Months : ledger'[s][m].sealed = ledger[s][m].sealed
      PROVE  Weighed'
  <2>1. CASE task = None
    <3>1. task' = None
      BY <1>5, <2>1 DEF Moving, About
    <3> QED
      BY <1>1, <3>1
  <2>2. CASE task # None
    <3>1. /\ task' # None /\ task'.op = task.op /\ task'.month = task.month
          /\ task.op # "seal" => /\ task'.id = task.id /\ task'.who = task.who
                                 /\ task'.days = task.days
          /\ \/ task.op # "seal" /\ task'.moved
             \/ /\ task' = task
                /\ \A x \in Employees, k \in Months :
                     About(x, k) => Balance(x, k)' = Balance(x, k)
      <4>1. CASE \E x \in Employees, k \in Months :
                   About(x, k) /\ Balance(x, k)' # Balance(x, k)
        <5>1. /\ task.op # "seal" /\ task' = [task EXCEPT !.moved = TRUE]
          BY <1>5, <4>1 DEF Moving, About
        <5>2. task \in Decision
          BY <2>2, <5>1 DEF LedgerTypeOK, Sealing
        <5>3. task' \in Decision
          BY <5>1, <5>2 DEF Decision
        <5> QED
          BY <5>1, <5>2, <5>3, LedgerAssumption DEF Decision
      <4>2. CASE ~\E x \in Employees, k \in Months :
                    About(x, k) /\ Balance(x, k)' # Balance(x, k)
        <5>1. task' = task
          BY <1>5, <4>2 DEF Moving
        <5> QED
          BY <2>2, <4>2, <5>1
      <4> QED
        BY <4>1, <4>2
    <3>2. ASSUME NEW x \in Employees, NEW k \in Months, About(x, k)'
          PROVE  /\ ~ledger'[x][k].sealed
                 /\ HALF_HOURS_PER_LEAVE_DAY * (DeductionDays(x, k)' + task'.days)
                        <= ApprovedMakeup(x, k)'
                 /\ task'.moved \/ 2 * task'.days <= Balance(x, k)'
      <4>1. About(x, k) /\ task'.days = task.days
        BY <2>2, <3>1, <3>2 DEF About
      <4>2. /\ ~ledger[x][k].sealed
            /\ HALF_HOURS_PER_LEAVE_DAY * (DeductionDays(x, k) + task.days)
                   <= ApprovedMakeup(x, k)
            /\ task.moved \/ 2 * task.days <= Balance(x, k)
        BY <4>1 DEF Weighed
      <4>3. task'.moved \/ 2 * task'.days <= Balance(x, k)'
        BY <3>1, <4>1, <4>2
      <4> QED
        BY <1>5, <4>1, <4>2, <4>3, SumsStay
    <3>3. (Holds("approve") => /\ deduction[task.id] # None
                               /\ deduction[task.id].who = task.who
                               /\ deduction[task.id].month = task.month
                               /\ deduction[task.id].days = task.days)'
      BY <1>5, <2>2, <3>1 DEF Weighed, Holds
    <3>4. (Holds("seal") => \A s \in Employees : ~ledger[s][task.month].sealed)'
      <4> SUFFICES ASSUME Holds("seal")' PROVE \A s \in Employees : ~ledger'[s][task'.month].sealed
        OBVIOUS
      <4>1. Holds("seal") /\ task'.month = task.month
        BY <2>2, <3>1 DEF Holds
      <4>2. task.month \in Months
        BY <4>1 DEF LedgerTypeOK, Holds, Decision, Sealing
      <4> QED
        BY <1>5, <4>1, <4>2 DEF Weighed
    <3> QED
      BY <3>2, <3>3, <3>4 DEF Weighed
  <2> QED
    BY <2>1, <2>2
<1>6. ASSUME NEW d \in Deductions, ApproveCheck(d) PROVE Weighed'
  <2>1. deduction[d] # None /\ deduction[d] \in DeductionRow
    BY <1>6 DEF ApproveCheck, LedgerTypeOK
  <2> QED
    BY <1>2, <1>6, <2>1 DEF ApproveCheck, DeductionRow
<1>7. ASSUME NEW s \in Employees, NEW m \in Months, NEW n \in DayCounts, SubmitCheck(s, m, n)
      PROVE  Weighed'
  BY <1>2, <1>7 DEF SubmitCheck
<1>8. ASSUME ManualWrite PROVE Weighed'
  <2>1. manual \in ManualCall
    BY <1>8 DEF ManualWrite, LedgerTypeOK
  <2>2. manual.who \in Employees /\ manual.month \in Months
    BY <2>1 DEF ManualCall
  <2>3. ledger[manual.who][manual.month] \in LedgerRow
    BY <2>2 DEF LedgerTypeOK
  <2>4. \E r : /\ r.sealed = ledger[manual.who][manual.month].sealed
               /\ ledger' = [ledger EXCEPT ![manual.who][manual.month] = r]
    BY <1>8, <2>2, <2>3 DEF ManualWrite, LedgerRow
  <2>5. \A s \in Employees, m \in Months : ledger'[s][m].sealed = ledger[s][m].sealed
    BY <2>2, <2>4 DEF LedgerTypeOK
  <2> QED
    BY <1>5, <1>8, <2>5 DEF ManualWrite
<1>9. ASSUME NEW s \in Employees, NEW m \in Months, NEW c \in Credits, Reschedule(s, m, c)
      PROVE  Weighed'
  BY <1>5, <1>9 DEF Reschedule
<1>10. ASSUME NEW e \in Entries,
              \/ \E s \in Employees, m \in Months, h \in Hours : SubmitEntry(e, s, m, h)
              \/ CancelDecide(e) \/ Approve(e) \/ Reject(e) \/ VoidEntry(e)
       PROVE  Weighed'
  BY <1>1, <1>10 DEF SubmitEntry, CancelDecide, Approve, Reject, VoidEntry
<1>11. ASSUME NEW d \in Deductions,
              \/ SubmitDeduction(d) \/ ApproveDeduction(d) \/ RejectDeduction(d)
              \/ CancelDeduction(d) \/ VoidDeduction(d)
       PROVE  Weighed'
  BY <1>1, <1>11 DEF SubmitDeduction, ApproveDeduction, RejectDeduction, CancelDeduction,
                     VoidDeduction, ClaimDeduction
<1>12. ASSUME Seal \/ GiveUp PROVE Weighed'
  BY <1>1, <1>12 DEF Seal, GiveUp
<1>13. ASSUME \/ \E e \in Entries : CancelRead(e)
              \/ \E s \in Employees, f \in {"opening", "closing"}, v \in Hand \cup {None} :
                   ManualCheck(s, f, v)
              \/ NextMonth
              \/ UNCHANGED ledgerVars
       PROVE  Weighed'
  BY <1>4, <1>13 DEF CancelRead, ManualCheck, NextMonth, ledgerVars
<1> QED
  BY <1>3, <1>6, <1>7, <1>8, <1>9, <1>10, <1>11, <1>12, <1>13 DEF LedgerNext

\* An approval writes what it read.
LEMMA ApprovesWhatItRead ==
    ASSUME Weighed, NEW d \in Deductions, ApproveDeduction(d),
           NEW s \in Employees, NEW m \in Months, Belongs(deduction[d], s, m)
    PROVE  /\ About(s, m) /\ ~ledger[s][m].sealed
           /\ HALF_HOURS_PER_LEAVE_DAY * (DeductionDays(s, m) + deduction[d].days)
                  <= ApprovedMakeup(s, m)
           /\ task.moved \/ 2 * deduction[d].days <= Balance(s, m)
<1>1. /\ task # None /\ task.op = "approve"
      /\ task.who = s /\ task.month = m /\ task.days = deduction[d].days
  BY DEF ApproveDeduction, Weighed, Holds, Belongs
<1>2. About(s, m)
  BY <1>1 DEF About
<1> QED
  BY <1>1, <1>2 DEF Weighed
---------------------------------------------------------------------------
(* Hours that are written off are covered *)

\* Only an entry that is voided takes make-up hours from a month, and only a deduction that
\* is approved writes off days.
LEMMA SumsMove ==
    ASSUME LedgerTypeOK, [LedgerNext]_ledgerVars, NEW s \in Employees, NEW m \in Months
    PROVE  \/ /\ ApprovedMakeup(s, m) <= ApprovedMakeup(s, m)'
              /\ DeductionDays(s, m)' <= DeductionDays(s, m)
           \/ \E e \in Entries :
                /\ VoidEntry(e) /\ Belongs(entry[e], s, m) /\ entry[e].hours < 0
                /\ ApprovedMakeup(s, m) + entry[e].hours <= ApprovedMakeup(s, m)'
                /\ DeductionDays(s, m)' <= DeductionDays(s, m)
           \/ \E d \in Deductions :
                /\ ApproveDeduction(d) /\ Belongs(deduction[d], s, m)
                /\ ApprovedMakeup(s, m) <= ApprovedMakeup(s, m)'
                /\ DeductionDays(s, m)' <= DeductionDays(s, m) + deduction[d].days
<1> DEFINE MakeupSafe == ApprovedMakeup(s, m) <= ApprovedMakeup(s, m)'
           DaysSafe   == DeductionDays(s, m)' <= DeductionDays(s, m)
<1> HIDE DEF MakeupSafe, DaysSafe
<1>1. UNCHANGED entry => MakeupSafe
  BY MakeupStays DEF MakeupSafe, Counts, Belongs
<1>2. UNCHANGED deduction => DaysSafe
  BY DaysDoNotGrow DEF DaysSafe, Counts, Belongs
<1>3. ASSUME NEW e \in Entries, NEW to \in EntryStatus, ClaimEntry(e, "pending", to)
      PROVE  MakeupSafe
  <2>1. /\ entry[e].status = "pending"
        /\ \A x \in Entries \ {e} : entry'[x] = entry[x]
    BY <1>3, ClaimedEntry DEF EntryStatus
  <2> QED
    BY <2>1, MakeupStays DEF MakeupSafe, Counts
<1>4. ASSUME NEW d \in Deductions, NEW from \in EntryStatus, NEW to \in EntryStatus \ {"approved"},
             ClaimDeduction(d, from, to)
      PROVE  DaysSafe /\ MakeupSafe
  <2>1. /\ deduction'[d].status = to /\ UNCHANGED entry
        /\ \A x \in Deductions \ {d} : deduction'[x] = deduction[x]
    BY <1>4, ClaimedDeduction
  <2> QED
    BY <1>1, <2>1, DaysDoNotGrow DEF DaysSafe, Counts
<1>5. ASSUME NEW e \in Entries, NEW s2 \in Employees, NEW m2 \in Months, NEW h \in Hours,
             SubmitEntry(e, s2, m2, h)
      PROVE  MakeupSafe /\ DaysSafe
  <2>1. entry[e] = None /\ UNCHANGED deduction /\ \A x \in Entries \ {e} : entry'[x] = entry[x]
    BY <1>5 DEF SubmitEntry, LedgerTypeOK
  <2>2. MakeupSafe
    BY <2>1, MakeupStays DEF MakeupSafe, Counts, Belongs
  <2> QED
    BY <1>2, <2>1, <2>2
<1>6. ASSUME NEW e \in Entries,
             CancelRead(e) \/ CancelDecide(e) \/ Approve(e) \/ Reject(e)
      PROVE  MakeupSafe /\ DaysSafe
  <2>1. UNCHANGED deduction
    BY <1>6 DEF CancelRead, CancelDecide, Approve, Reject
  <2>2. UNCHANGED entry \/ \E to \in EntryStatus : ClaimEntry(e, "pending", to)
    BY <1>6 DEF CancelRead, CancelDecide, Approve, Reject, EntryStatus
  <2> QED
    BY <1>1, <1>2, <1>3, <2>1, <2>2
<1>7. ASSUME NEW e \in Entries, VoidEntry(e)
      PROVE  /\ DaysSafe
             /\ \/ MakeupSafe
                \/ /\ Belongs(entry[e], s, m) /\ entry[e].hours < 0
                   /\ ApprovedMakeup(s, m) + entry[e].hours <= ApprovedMakeup(s, m)'
  <2>1. ClaimEntry(e, "approved", "voided") /\ UNCHANGED deduction
    BY <1>7 DEF VoidEntry
  <2>2. entry[e].hours \in Int
    BY <2>1, ClaimedEntry, Numbers DEF EntryRow, EntryStatus
  <2> QED
    BY <1>2, <2>1, <2>2, MakeupOfOne, UnitsAreFinite DEF MakeupSafe
<1>8. ASSUME NEW d \in Deductions, SubmitDeduction(d)
      PROVE  MakeupSafe /\ DaysSafe
  <2>1. /\ UNCHANGED entry /\ \A x \in Deductions \ {d} : deduction'[x] = deduction[x]
        /\ deduction'[d].status = "pending"
    BY <1>8 DEF SubmitDeduction, LedgerTypeOK
  <2>2. DaysSafe
    BY <2>1, DaysDoNotGrow DEF DaysSafe, Counts
  <2> QED
    BY <1>1, <2>1, <2>2
<1>9. ASSUME NEW d \in Deductions, RejectDeduction(d) \/ CancelDeduction(d) \/ VoidDeduction(d)
      PROVE  MakeupSafe /\ DaysSafe
  BY <1>4, <1>9 DEF RejectDeduction, CancelDeduction, VoidDeduction, EntryStatus
<1>10. ASSUME NEW d \in Deductions, ApproveDeduction(d)
       PROVE  /\ MakeupSafe
              /\ \/ DaysSafe
                 \/ /\ Belongs(deduction[d], s, m)
                    /\ DeductionDays(s, m)' <= DeductionDays(s, m) + deduction[d].days
  <2>1. ClaimDeduction(d, "pending", "approved") /\ UNCHANGED entry
    BY <1>10 DEF ApproveDeduction, ClaimDeduction
  <2> QED
    BY <1>1, <2>1, DaysOfOne, UnitsAreFinite DEF DaysSafe
<1>11. ASSUME \/ \E d \in Deductions : ApproveCheck(d)
              \/ \E s2 \in Employees, k \in Months, n \in DayCounts : SubmitCheck(s2, k, n)
              \/ \E k \in Months : SealRead(k)
              \/ Seal \/ GiveUp
              \/ \E s2 \in Employees, f \in {"opening", "closing"}, v \in Hand \cup {None} :
                   ManualCheck(s2, f, v)
              \/ ManualWrite
              \/ \E s2 \in Employees, k \in Months, c \in Credits : Reschedule(s2, k, c)
              \/ NextMonth
              \/ UNCHANGED ledgerVars
       PROVE  MakeupSafe /\ DaysSafe
  <2>1. UNCHANGED <<entry, deduction>>
    BY <1>11 DEF ApproveCheck, SubmitCheck, Weigh, SealRead, Seal, GiveUp, ManualCheck,
                 ManualWrite, Reschedule, NextMonth, ledgerVars
  <2> QED
    BY <1>1, <1>2, <2>1
<1> QED
  BY <1>5, <1>6, <1>7, <1>8, <1>9, <1>10, <1>11 DEF LedgerNext, MakeupSafe, DaysSafe

LEMMA CoverNext ==
    LedgerTypeOK /\ Weighed /\ MakeupCovers /\ [LedgerNext]_ledgerVars => MakeupCovers'
<1> SUFFICES ASSUME LedgerTypeOK, Weighed, MakeupCovers, [LedgerNext]_ledgerVars, NEW s \in Employees, NEW m \in Months
             PROVE  HALF_HOURS_PER_LEAVE_DAY * DeductionDays(s, m)' <= ApprovedMakeup(s, m)'
  BY DEF MakeupCovers
<1>1. HALF_HOURS_PER_LEAVE_DAY * DeductionDays(s, m) <= ApprovedMakeup(s, m)
  BY DEF MakeupCovers
<1>2. /\ ApprovedMakeup(s, m) \in Nat /\ ApprovedMakeup(s, m)' \in Nat
      /\ DeductionDays(s, m) \in Nat /\ DeductionDays(s, m)' \in Nat
  BY UnitsAreFinite
<1>3. CASE /\ ApprovedMakeup(s, m) <= ApprovedMakeup(s, m)'
           /\ DeductionDays(s, m)' <= DeductionDays(s, m)
  BY <1>1, <1>2, <1>3 DEF HALF_HOURS_PER_LEAVE_DAY
<1>4. CASE \E e \in Entries :
             /\ VoidEntry(e) /\ Belongs(entry[e], s, m) /\ entry[e].hours < 0
             /\ ApprovedMakeup(s, m) + entry[e].hours <= ApprovedMakeup(s, m)'
             /\ DeductionDays(s, m)' <= DeductionDays(s, m)
  <2>1. PICK e \in Entries :
             /\ VoidEntry(e) /\ Belongs(entry[e], s, m) /\ entry[e].hours < 0
             /\ ApprovedMakeup(s, m) + entry[e].hours <= ApprovedMakeup(s, m)'
             /\ DeductionDays(s, m)' <= DeductionDays(s, m)
    BY <1>4
  <2>2. entry[e].hours \in Int
    BY <2>1, ClaimedEntry, Numbers DEF VoidEntry, EntryRow, EntryStatus
  <2>3. ApprovedMakeup(s, m) + entry[e].hours >= HALF_HOURS_PER_LEAVE_DAY * DeductionDays(s, m)
    BY <2>1 DEF VoidEntry, Belongs
  <2> QED
    BY <1>2, <2>1, <2>2, <2>3 DEF HALF_HOURS_PER_LEAVE_DAY
<1>5. CASE \E d \in Deductions :
             /\ ApproveDeduction(d) /\ Belongs(deduction[d], s, m)
             /\ ApprovedMakeup(s, m) <= ApprovedMakeup(s, m)'
             /\ DeductionDays(s, m)' <= DeductionDays(s, m) + deduction[d].days
  <2>1. PICK d \in Deductions :
             /\ ApproveDeduction(d) /\ Belongs(deduction[d], s, m)
             /\ ApprovedMakeup(s, m) <= ApprovedMakeup(s, m)'
             /\ DeductionDays(s, m)' <= DeductionDays(s, m) + deduction[d].days
    BY <1>5
  <2>2. deduction[d].days \in Nat
    BY <2>1, ClaimedDeduction, Numbers DEF ApproveDeduction, DeductionRow, EntryStatus
  <2>3. HALF_HOURS_PER_LEAVE_DAY * (DeductionDays(s, m) + deduction[d].days)
            <= ApprovedMakeup(s, m)
    BY <2>1, ApprovesWhatItRead
  <2> QED
    BY <1>2, <2>1, <2>2, <2>3 DEF HALF_HOURS_PER_LEAVE_DAY
<1> QED
  BY <1>3, <1>4, <1>5, SumsMove

LEMMA CoverInit == LedgerInit => MakeupCovers
<1> SUFFICES ASSUME LedgerInit, NEW s \in Employees, NEW m \in Months
             PROVE  HALF_HOURS_PER_LEAVE_DAY * DeductionDays(s, m) <= ApprovedMakeup(s, m)
  BY DEF MakeupCovers
<1>1. DayUnits(s, m) = {}
  BY DEF LedgerInit, DayUnits, Counts, Belongs
<1>2. DeductionDays(s, m) = 0
  BY <1>1, FS_EmptySet DEF DeductionDays
<1>3. ApprovedMakeup(s, m) \in Nat
  BY UnitsAreFinite
<1> QED
  BY <1>2, <1>3 DEF HALF_HOURS_PER_LEAVE_DAY

\* Whatever is submitted, withdrawn, decided and voided, in any order: what was written off
\* with leave is approved make-up.
THEOREM WrittenOffIsCovered == LedgerSpec => []MakeupCovers
<1>1. LedgerInit => LedgerTypeOK /\ Weighed /\ MakeupCovers
  BY TypeInit, WeighedInit, CoverInit
<1>2. LedgerTypeOK /\ Weighed /\ MakeupCovers /\ [LedgerNext]_ledgerVars
        => LedgerTypeOK' /\ Weighed' /\ MakeupCovers'
  BY TypeNext, WeighedNext, CoverNext
<1> QED
  BY <1>1, <1>2, PTL DEF LedgerSpec
---------------------------------------------------------------------------
(* A salary for every month that is paid *)

LEMMA SnapshotNext == LedgerTypeOK /\ SnapshotFits /\ [LedgerNext]_ledgerVars => SnapshotFits'
<1> DEFINE Paid(r, s, m) == Belongs(r, s, m) /\ r.status \in {"approved", "voided"}
<1> SUFFICES ASSUME LedgerTypeOK, SnapshotFits, [LedgerNext]_ledgerVars, NEW s \in Employees, NEW m \in Months
             PROVE  snapshot'[s][m] # None <=> \E e \in Entries : Paid(entry'[e], s, m)
  BY DEF SnapshotFits, Belongs
<1>1. snapshot[s][m] # None <=> \E e \in Entries : Paid(entry[e], s, m)
  BY DEF SnapshotFits
<1>2. ASSUME snapshot'[s][m] = snapshot[s][m],
             \A e \in Entries : Paid(entry'[e], s, m) <=> Paid(entry[e], s, m)
      PROVE  snapshot'[s][m] # None <=> \E e \in Entries : Paid(entry'[e], s, m)
  BY <1>1, <1>2
<1> HIDE DEF Paid
<1>3. CASE UNCHANGED <<entry, snapshot>>
  BY <1>1, <1>3
<1>4. ASSUME NEW e \in Entries, NEW from \in EntryStatus, NEW to \in EntryStatus, ClaimEntry(e, from, to),
             from \in {"approved", "voided"} <=> to \in {"approved", "voided"},
             UNCHANGED snapshot
      PROVE  snapshot'[s][m] # None <=> \E x \in Entries : Paid(entry'[x], s, m)
  <2>1. /\ entry[e] # None /\ entry[e].status = from
        /\ \A x \in Entries \ {e} : entry'[x] = entry[x]
        /\ entry'[e] # None
        /\ entry'[e].who = entry[e].who /\ entry'[e].month = entry[e].month
        /\ entry'[e].status = to
    BY <1>4, ClaimedEntry
  <2>2. \A x \in Entries : Paid(entry'[x], s, m) <=> Paid(entry[x], s, m)
    BY <1>4, <2>1 DEF Paid, Belongs
  <2> QED
    BY <1>2, <1>4, <2>2
<1>5. ASSUME NEW e \in Entries, NEW s2 \in Employees, NEW m2 \in Months, NEW h \in Hours,
             SubmitEntry(e, s2, m2, h)
      PROVE  snapshot'[s][m] # None <=> \E x \in Entries : Paid(entry'[x], s, m)
  <2>1. /\ entry[e] = None /\ entry'[e].status = "pending"
        /\ \A x \in Entries \ {e} : entry'[x] = entry[x]
    BY <1>5 DEF SubmitEntry, LedgerTypeOK
  <2>2. \A x \in Entries : Paid(entry'[x], s, m) <=> Paid(entry[x], s, m)
    BY <2>1 DEF Paid, Belongs
  <2> QED
    BY <1>2, <1>5, <2>2 DEF SubmitEntry
<1>6. ASSUME NEW e \in Entries, CancelDecide(e)
      PROVE  snapshot'[s][m] # None <=> \E x \in Entries : Paid(entry'[x], s, m)
  <2>1. CASE ClaimEntry(e, "pending", "cancelled")
    BY <1>4, <1>6, <2>1 DEF CancelDecide, EntryStatus
  <2>2. CASE UNCHANGED entry
    BY <1>3, <1>6, <2>2 DEF CancelDecide
  <2> QED
    BY <1>6, <2>1, <2>2 DEF CancelDecide
<1>7. ASSUME NEW e \in Entries, Approve(e)
      PROVE  snapshot'[s][m] # None <=> \E x \in Entries : Paid(entry'[x], s, m)
  <2>1. /\ entry[e] # None /\ entry[e] \in EntryRow /\ entry[e].status = "pending"
        /\ \A x \in Entries \ {e} : entry'[x] = entry[x]
        /\ entry'[e] # None
        /\ entry'[e].who = entry[e].who /\ entry'[e].month = entry[e].month
        /\ entry'[e].status = "approved"
    BY <1>7, ClaimedEntry DEF Approve, EntryStatus
  <2>2. PICK salary \in Salaries : WithSnapshot(entry[e].who, entry[e].month, salary)
    BY <1>7 DEF Approve
  <2>3. salary # None /\ entry[e].who \in Employees /\ entry[e].month \in Months
    BY <2>1, LedgerAssumption DEF EntryRow
  <2>4. CASE entry[e].who = s /\ entry[e].month = m
    <3>1. snapshot'[s][m] # None
      BY <2>2, <2>3, <2>4 DEF WithSnapshot, LedgerTypeOK
    <3>2. Paid(entry'[e], s, m)
      BY <2>1, <2>4 DEF Paid, Belongs
    <3> QED
      BY <3>1, <3>2
  <2>5. CASE ~(entry[e].who = s /\ entry[e].month = m)
    <3>1. snapshot'[s][m] = snapshot[s][m]
      BY <2>2, <2>3, <2>5 DEF WithSnapshot, LedgerTypeOK
    <3>2. \A x \in Entries : Paid(entry'[x], s, m) <=> Paid(entry[x], s, m)
      BY <2>1, <2>5 DEF Paid, Belongs
    <3> QED
      BY <1>2, <3>1, <3>2
  <2> QED
    BY <2>4, <2>5
<1>8. ASSUME NEW e \in Entries, Reject(e) \/ VoidEntry(e)
      PROVE  snapshot'[s][m] # None <=> \E x \in Entries : Paid(entry'[x], s, m)
  BY <1>4, <1>8 DEF Reject, VoidEntry, EntryStatus
<1>9. ASSUME \/ \E e \in Entries : CancelRead(e)
             \/ \E d \in Deductions :
                  \/ SubmitDeduction(d) \/ ApproveCheck(d) \/ ApproveDeduction(d)
                  \/ RejectDeduction(d) \/ CancelDeduction(d) \/ VoidDeduction(d)
             \/ \E s2 \in Employees, k \in Months, n \in DayCounts : SubmitCheck(s2, k, n)
             \/ \E k \in Months : SealRead(k)
             \/ Seal \/ GiveUp
             \/ \E s2 \in Employees, f \in {"opening", "closing"}, v \in Hand \cup {None} :
                  ManualCheck(s2, f, v)
             \/ ManualWrite
             \/ \E s2 \in Employees, k \in Months, c \in Credits : Reschedule(s2, k, c)
             \/ NextMonth
             \/ UNCHANGED ledgerVars
      PROVE  UNCHANGED <<entry, snapshot>>
  BY <1>9 DEF CancelRead, SubmitDeduction, ApproveCheck, SubmitCheck, Weigh, ApproveDeduction,
              RejectDeduction, CancelDeduction, VoidDeduction, ClaimDeduction, SealRead, Seal,
              GiveUp, ManualCheck, ManualWrite, Reschedule, NextMonth, ledgerVars
<1> QED
  BY <1>3, <1>5, <1>6, <1>7, <1>8, <1>9 DEF LedgerNext

\* No approval without a salary to pay it by, and no salary left by an approval that failed.
THEOREM PaidMonthsHaveASalary == LedgerSpec => []SnapshotFits
<1>1. LedgerInit => LedgerTypeOK /\ SnapshotFits
  BY TypeInit DEF LedgerInit, SnapshotFits, Belongs
<1>2. LedgerTypeOK /\ SnapshotFits /\ [LedgerNext]_ledgerVars => LedgerTypeOK' /\ SnapshotFits'
  BY TypeNext, SnapshotNext
<1> QED
  BY <1>1, <1>2, PTL DEF LedgerSpec
---------------------------------------------------------------------------
(* The leave of a month *)

\* Days are written off, or given back, only in a month that is not sealed.
LEMMA SealedDays ==
    ASSUME LedgerTypeOK, Weighed, [LedgerNext]_ledgerVars,
           NEW s \in Employees, NEW m \in Months, ledger[s][m].sealed
    PROVE  DeductionDays(s, m)' = DeductionDays(s, m)
<1>1. ASSUME \A d \in Deductions :
                /\ Counts(deduction'[d], s, m) <=> Counts(deduction[d], s, m)
                /\ Counts(deduction[d], s, m) => deduction'[d].days = deduction[d].days
      PROVE  DeductionDays(s, m)' = DeductionDays(s, m)
  <2>1. DayUnits(s, m)' = DayUnits(s, m)
    BY <1>1 DEF DayUnits
  <2> QED
    BY <2>1 DEF DeductionDays
<1>2. CASE UNCHANGED deduction
  BY <1>1, <1>2
<1>3. ASSUME NEW d \in Deductions, SubmitDeduction(d)
      PROVE  DeductionDays(s, m)' = DeductionDays(s, m)
  <2>1. /\ deduction[d] = None /\ deduction'[d].status = "pending"
        /\ \A x \in Deductions \ {d} : deduction'[x] = deduction[x]
    BY <1>3 DEF SubmitDeduction, LedgerTypeOK
  <2> QED
    BY <1>1, <2>1 DEF Counts, Belongs
<1>4. ASSUME NEW d \in Deductions, NEW from \in EntryStatus, NEW to \in EntryStatus,
             ClaimDeduction(d, from, to),
             ~Belongs(deduction[d], s, m) \/ "approved" \notin {from, to}
      PROVE  DeductionDays(s, m)' = DeductionDays(s, m)
  <2>1. /\ deduction[d] # None /\ deduction'[d] # None /\ deduction[d].status = from
        /\ \A x \in Deductions \ {d} : deduction'[x] = deduction[x]
        /\ deduction'[d].who = deduction[d].who /\ deduction'[d].month = deduction[d].month
        /\ deduction'[d].status = to
    BY <1>4, ClaimedDeduction
  <2> QED
    BY <1>1, <1>4, <2>1 DEF Counts, Belongs
<1>5. ASSUME NEW d \in Deductions,
             ApproveDeduction(d) \/ RejectDeduction(d) \/ CancelDeduction(d) \/ VoidDeduction(d)
      PROVE  DeductionDays(s, m)' = DeductionDays(s, m)
  <2>1. CASE ApproveDeduction(d)
    <3>1. ~Belongs(deduction[d], s, m)
      BY <2>1, ApprovesWhatItRead
    <3> QED
      BY <1>4, <2>1, <3>1 DEF ApproveDeduction, EntryStatus
  <2>2. CASE VoidDeduction(d)
    BY <1>4, <2>2 DEF VoidDeduction, Belongs, EntryStatus
  <2>3. CASE RejectDeduction(d) \/ CancelDeduction(d)
    BY <1>4, <2>3 DEF RejectDeduction, CancelDeduction, EntryStatus
  <2> QED
    BY <1>5, <2>1, <2>2, <2>3
<1> QED
  BY <1>2, <1>3, <1>5
     DEF LedgerNext, SubmitEntry, CancelRead, CancelDecide, Approve, Reject, VoidEntry,
         ApproveCheck, SubmitCheck, Weigh, SealRead, Seal, GiveUp, ManualCheck, ManualWrite,
         Reschedule, NextMonth, ledgerVars

\* A month is sealed once, and its balance is written again only by a call by hand.
LEMMA SealedRow ==
    ASSUME LedgerTypeOK, Weighed, [LedgerNext]_ledgerVars,
           NEW s \in Employees, NEW m \in Months, ledger[s][m].sealed
    PROVE  /\ ledger'[s][m].sealed
           /\ \/ ledger'[s][m].closing = ledger[s][m].closing
              \/ /\ manual # None /\ manual.who = s /\ manual.month = m
                 /\ manual.field = "closing" /\ manual' = None
<1>1. ledger[s] \in [Months -> LedgerRow] /\ ledger[s][m] \in LedgerRow
  BY DEF LedgerTypeOK
<1>2. CASE Seal
  <2>1. task.month # m
    BY <1>2 DEF Seal, Weighed
  <2>2. ledger'[s] = ledger[s] \/ ledger'[s] = [ledger[s] EXCEPT
                                     ![task.month].closing = task.closing[s],
                                     ![task.month].sealed = TRUE]
    BY <1>2 DEF Seal
  <2>3. ledger'[s][m] = ledger[s][m]
    BY <1>1, <2>1, <2>2
  <2> QED
    BY <2>3
<1>3. CASE ManualWrite
  <2>1. manual # None /\ manual' = None /\ manual \in ManualCall
    BY <1>3 DEF ManualWrite, LedgerTypeOK
  <2>2. manual.who \in Employees /\ manual.month \in Months /\ manual.field \in {"opening", "closing"}
    BY <2>1 DEF ManualCall
  <2>3. \E r : ledger' = [ledger EXCEPT ![manual.who][manual.month] = r]
    BY <1>3 DEF ManualWrite
  <2>4. CASE ~(manual.who = s /\ manual.month = m)
    <3>1. ledger'[s][m] = ledger[s][m]
      BY <2>2, <2>3, <2>4 DEF LedgerTypeOK
    <3> QED
      BY <3>1
  <2>5. CASE manual.who = s /\ manual.month = m
    <3>1. ledger'[s][m] = IF manual.field = "closing"
                          THEN [ledger[s][m] EXCEPT !.closing = manual.value]
                          ELSE [ledger[s][m] EXCEPT !.opening = manual.value]
      BY <1>3, <2>2, <2>5 DEF ManualWrite, LedgerTypeOK
    <3> QED
      BY <1>1, <2>1, <2>2, <2>5, <3>1 DEF LedgerRow
  <2> QED
    BY <2>4, <2>5
<1>4. CASE UNCHANGED ledger
  BY <1>4
<1> QED
  BY <1>2, <1>3, <1>4
     DEF LedgerNext, SubmitEntry, CancelRead, CancelDecide, Approve, Reject, VoidEntry,
         SubmitDeduction, ApproveDeduction, RejectDeduction, CancelDeduction, VoidDeduction,
         ClaimDeduction, ApproveCheck, SubmitCheck, Weigh, SealRead, GiveUp, ManualCheck,
         Reschedule, NextMonth, ledgerVars

\* What is written off is taken by an approval from a balance that had it when it was read.
LEMMA DaysAreTaken ==
    ASSUME LedgerTypeOK, Weighed, [LedgerNext]_ledgerVars, NEW s \in Employees, NEW m \in Months,
           ledger[s][m].closing = None, DeductionDays(s, m)' > DeductionDays(s, m)
    PROVE  /\ About(s, m)
           /\ Balance(s, m)' =
                Balance(s, m) - 2 * (DeductionDays(s, m)' - DeductionDays(s, m))
           /\ task.moved \/ Balance(s, m)' >= 0
<1>1. /\ DeductionDays(s, m) \in Nat /\ DeductionDays(s, m)' \in Nat
      /\ Balance(s, m) \in Int
  BY UnitsAreFinite, BalanceType
<1>2. PICK d \in Deductions :
          /\ ApproveDeduction(d) /\ Belongs(deduction[d], s, m)
          /\ DeductionDays(s, m)' <= DeductionDays(s, m) + deduction[d].days
  BY <1>1, SumsMove
<1>3. deduction[d].days \in Nat /\ UNCHANGED <<ledger, credit>>
  <2>1. ClaimDeduction(d, "pending", "approved")
    BY <1>2 DEF ApproveDeduction
  <2> QED
    BY <2>1, ClaimedDeduction, Numbers DEF DeductionRow, EntryStatus
<1>4. About(s, m) /\ (task.moved \/ 2 * deduction[d].days <= Balance(s, m))
  BY <1>2, ApprovesWhatItRead
<1>5. PreviousBalance(s, m)' = PreviousBalance(s, m)
  BY <1>3 DEF PreviousBalance, OrZero
<1>6. /\ Balance(s, m) = credit[s][m] + PreviousBalance(s, m) - 2 * DeductionDays(s, m)
      /\ Balance(s, m)' = credit[s][m] + PreviousBalance(s, m) - 2 * DeductionDays(s, m)'
  BY <1>3, <1>5 DEF Balance
<1>7. credit[s][m] \in Int /\ PreviousBalance(s, m) \in Int
  BY PreviousType, Numbers DEF LedgerTypeOK
<1>8. DeductionDays(s, m)' - DeductionDays(s, m) <= deduction[d].days
  BY <1>1, <1>2, <1>3
<1>9. Balance(s, m)' = Balance(s, m) - 2 * (DeductionDays(s, m)' - DeductionDays(s, m))
  BY <1>1, <1>6, <1>7
<1> QED
  BY <1>1, <1>3, <1>4, <1>8, <1>9

\* Whoever decides in whatever order: written-off hours are covered, and a month has a salary
\* exactly if it was paid by one.
THEOREM DecisionsStand == LedgerSpec => []PaidAsDecided
<1>1. MakeupCovers /\ SnapshotFits => PaidAsDecided
  BY DEF PaidAsDecided
<1> QED
  BY <1>1, WrittenOffIsCovered, PaidMonthsHaveASalary, PTL

\* A sealed month stands, and leave is spent once, whatever is decided and filled in by hand
\* meanwhile; what calls without the write lock do to a balance in the middle of a decision
\* or after the end of their month is left out.
THEOREM LeaveIsSettledOnce == LedgerSpec => LeaveStands
<1>1. LedgerInit => LedgerTypeOK /\ Weighed
  BY TypeInit, WeighedInit
<1>2. LedgerTypeOK /\ Weighed /\ [LedgerNext]_ledgerVars => LedgerTypeOK' /\ Weighed'
  BY TypeNext, WeighedNext
<1>3. LedgerTypeOK /\ Weighed /\ [LedgerNext]_ledgerVars
        => [SealedStands /\ TakenFromBalance]_ledgerVars
  <2> SUFFICES ASSUME LedgerTypeOK, Weighed, [LedgerNext]_ledgerVars
               PROVE  SealedStands /\ TakenFromBalance
    OBVIOUS
  <2>1. SealedStands
    BY SealedDays, SealedRow DEF SealedStands
  <2>2. TakenFromBalance
    <3> SUFFICES ASSUME NEW s \in Employees, NEW m \in Months, ledger[s][m].closing = None,
                        DeductionDays(s, m)' - DeductionDays(s, m) > 0
                 PROVE  /\ About(s, m)
                        /\ Balance(s, m)' =
                             Balance(s, m) - 2 * (DeductionDays(s, m)' - DeductionDays(s, m))
                        /\ task.moved \/ Balance(s, m)' >= 0
      BY DEF TakenFromBalance
    <3>1. DeductionDays(s, m)' > DeductionDays(s, m)
      BY UnitsAreFinite
    <3> QED
      BY <3>1, DaysAreTaken
  <2> QED
    BY <2>1, <2>2
<1> QED
  BY <1>1, <1>2, <1>3, PTL DEF LedgerSpec, LeaveStands
=============================================================================
