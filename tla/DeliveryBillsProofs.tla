------------------------- MODULE DeliveryBillsProofs -------------------------
(***************************************************************************)
(* Proofs about DeliveryBills for every set of bills, threshold and bound: *)
(* type correctness, and that a round of the scraper never gives up a bill *)
(* that the POS lists while fewer answers than the threshold go wrong.     *)
(***************************************************************************)
EXTENDS DeliveryBills, TLAPS

-----------------------------------------------------------------------------
(* The inductive invariant.  Every miss that is counted for a bill which is *)
(* not known to have left the list is paid for by an answer that lacked it. *)

InRound == scraper.pc \in {"collect", "compare"}

\* What a round has seen is still listed; between rounds it has seen nothing.
RoundShape ==
  /\ ~InRound => scraper.present = {}
  /\ seen \subseteq listed \cap scraper.present
  /\ sweep["scraper"].pc # "off" => scraper.pc = "sweep"
  /\ scraper.pc = "collect" => scraper.todo \subseteq scraper.present

\* A bill that memory, file or round know of is listed, or was seen to leave.
Known(b) == track[b].collected \/ file.track[b].collected \/ b \in scraper.present

KnownListed == \A b \in Bills \ away : Known(b) => b \in listed

\* Nothing but the work of a comparison has reached the threshold.
Waiting(b) == scraper.pc = "compare" /\ b \in scraper.todo

BelowThreshold ==
  \A b \in Bills :
    /\ ~track[b].cancelled /\ ~Waiting(b) => track[b].miss < Threshold
    /\ ~file.track[b].cancelled => file.track[b].miss < Threshold

\* The misses counted, and the one that the round is about to count.
Due(b) == scraper.pc = "collect" /\ Missing(b)

MissesPaid ==
  \A b \in Bills \ away :
    /\ ~track[b].cancelled => track[b].miss <= glitches
    /\ Due(b) => track[b].miss + 1 <= glitches
    /\ ~file.track[b].cancelled => file.track[b].miss <= glitches

\* A comparison gives up what has reached the threshold, nothing it has seen, and
\* takes back what it had given up.
WorkIsDue ==
  scraper.pc = "compare" =>
    /\ \A b \in scraper.todo \ scraper.present : track[b].miss >= Threshold
    /\ \A b \in scraper.todo \cap scraper.present : track[b].cancelled
    /\ \A b \in seen : ~track[b].cancelled => track[b].miss = 0

IInv == TypeOK /\ RoundShape /\ KnownListed /\ BelowThreshold /\ MissesPaid /\ WorkIsDue

Rounds == [pc : {"idle", "collect", "compare", "store", "sweep"},
           present : SUBSET Bills, todo : SUBSET Bills, toSave : SUBSET Bills,
           dirty : BOOLEAN]
Sweeps == [pc : {"off", "list", "open", "gone", "work"},
           present : SUBSET Bills, vanished : SUBSET Bills, back : SUBSET Bills]
Tracks == [Bills -> Tracking]
Files  == [track : Tracks, swept : BOOLEAN]
Rows   == [Bills -> RowStatus]

-----------------------------------------------------------------------------

LEMMA InitIInv == Init => IInv
<1> SUFFICES ASSUME Init PROVE IInv
    OBVIOUS
<1> USE BillAssumption
<1>1. NothingTracked \in Tracks /\ \A b \in Bills : NothingTracked[b] = NotTracked
    BY DEF NothingTracked, NotTracked, Tracking, Tracks
<1>2. TypeOK
  <2>1. track \in Tracks /\ swept \in BOOLEAN /\ file \in Files
      BY <1>1 DEF Init, Files
  <2>2. scraper \in Rounds /\ sweep \in [Actors -> Sweeps]
      BY DEF Init, NoRound, NoSweep, Rounds, Sweeps
  <2> QED BY <2>1, <2>2 DEF Init, TypeOK, NoRecon, RowStatus, Tracks, Files, Rounds, Sweeps
<1>3. RoundShape /\ WorkIsDue
    BY DEF Init, RoundShape, WorkIsDue, InRound, NoRound, NoSweep, Actors
<1>4. KnownListed /\ BelowThreshold /\ MissesPaid
    BY <1>1 DEF Init, KnownListed, Known, BelowThreshold, Waiting, MissesPaid, Due, Missing,
                Tracked, NoRound, NotTracked
<1> QED BY <1>2, <1>3, <1>4 DEF IInv

-----------------------------------------------------------------------------
(* What the helpers return. *)

\* The bounds stay bounds, and failures are only added.
LEMMA BoundsKept ==
  ASSUME TypeOK, Fine \/ Glitch
  PROVE  /\ glitches' \in 0..MaxGlitches /\ glitches' >= glitches
         /\ crashes' = crashes /\ reconciles' = reconciles
BY BillAssumption DEF TypeOK, Fine, Glitch, bounds

LEMMA TurnedType ==
  ASSUME NEW rows \in Rows, NEW b \in Bills, NEW from \in RowStatus, NEW to \in RowStatus
  PROVE  Turned(rows, b, from, to) \in Rows
BY DEF Turned, Rows

LEMMA RowsType ==
  ASSUME TypeOK, NEW b \in Bills
  PROVE  /\ Cancelled(b).unit \in Rows /\ Cancelled(b).fix \in Rows
         /\ Restored(b).unit \in Rows /\ Restored(b).fix \in Rows
<1>1. unit \in Rows /\ fix \in Rows /\ "open" \in RowStatus /\ "gone" \in RowStatus
    BY DEF TypeOK, Rows, RowStatus
<1> QED BY <1>1, TurnedType DEF Cancelled, Restored

LEMMA StoredType ==
  ASSUME NEW rows \in Rows, NEW new
  PROVE  Stored(rows, new) \in Rows
BY DEF Stored, Rows, RowStatus

LEMMA WrittenType ==
  ASSUME TypeOK, NEW r, r.unit \in Rows, r.fix \in Rows, Written(r)
  PROVE  /\ unit' \in Rows /\ fix' \in Rows
         /\ glitches' \in 0..MaxGlitches /\ glitches' >= glitches
         /\ crashes' = crashes /\ reconciles' = reconciles
<1>1. (unit' = r.unit \/ unit' = unit) /\ (fix' = r.fix \/ fix' = fix) /\ (Fine \/ Glitch)
    BY DEF Written, Done, Failed, table
<1>2. unit \in Rows /\ fix \in Rows
    BY DEF TypeOK, Rows
<1> QED BY <1>1, <1>2, BoundsKept

LEMMA SavedType ==
  ASSUME TypeOK, NEW t \in Tracks, NEW s \in BOOLEAN, Saved(t, s)
  PROVE  /\ file' \in Files /\ file'.track \in {t, file.track}
         /\ glitches' \in 0..MaxGlitches /\ glitches' >= glitches
         /\ crashes' = crashes /\ reconciles' = reconciles
<1>1. (file' = [track |-> t, swept |-> s] \/ file' = file) /\ (Fine \/ Glitch)
    BY DEF Saved
<1>2. file \in Files
    BY DEF TypeOK, Files, Tracks
<1> QED BY <1>1, <1>2, BoundsKept DEF Files

-----------------------------------------------------------------------------
(* Steps beside the rounds: the round, its memory and its file stay. *)

LEMMA Beside ==
  ASSUME IInv, TypeOK', UNCHANGED <<listed, track, file, scraper, history>>,
         glitches' >= glitches,
         sweep'["scraper"].pc # "off" => scraper.pc = "sweep"
  PROVE  IInv'
<1>1. RoundShape'
    BY DEF IInv, RoundShape, InRound, history
<1>2. KnownListed' /\ BelowThreshold' /\ WorkIsDue'
    BY DEF IInv, KnownListed, Known, BelowThreshold, Waiting, WorkIsDue, history
<1>3. MissesPaid'
  <2> SUFFICES ASSUME NEW b \in Bills \ away
               PROVE  /\ ~track[b].cancelled => track[b].miss <= glitches'
                      /\ Due(b) => track[b].miss + 1 <= glitches'
                      /\ ~file.track[b].cancelled => file.track[b].miss <= glitches'
      BY DEF MissesPaid, Due, Missing, Tracked, history
  <2>1. track[b].miss \in Int /\ file.track[b].miss \in Int /\ glitches \in Int /\ glitches' \in Int
      BY DEF IInv, TypeOK, Tracking
  <2> QED BY <2>1 DEF IInv, MissesPaid
<1> QED BY <1>1, <1>2, <1>3 DEF IInv

LEMMA AppearStep ==
  ASSUME IInv, NEW b \in Bills, Appear(b)
  PROVE  IInv'
<1> USE DEF pos, memory, table, actors, bounds, history
<1>1. changes' \in 0..MaxChanges
    BY BillAssumption DEF IInv, TypeOK, Appear, ListChanges
<1>2. TypeOK'
    BY <1>1 DEF IInv, TypeOK, Appear, ListChanges
<1>3. RoundShape' /\ KnownListed' /\ BelowThreshold' /\ WorkIsDue'
    BY DEF IInv, Appear, ListChanges, RoundShape, InRound, KnownListed, Known, BelowThreshold,
           Waiting, WorkIsDue
<1>4. MissesPaid'
    BY DEF IInv, Appear, ListChanges, MissesPaid, Due, Missing, Tracked
<1> QED BY <1>2, <1>3, <1>4 DEF IInv

LEMMA VanishStep ==
  ASSUME IInv, NEW b \in Bills, Vanish(b)
  PROVE  IInv'
<1> USE DEF pos, memory, table, actors, bounds, history
<1>1. changes' \in 0..MaxChanges
    BY BillAssumption DEF IInv, TypeOK, Vanish, ListChanges
<1>2. TypeOK'
    BY <1>1 DEF IInv, TypeOK, Vanish, ListChanges
<1>3. RoundShape' /\ KnownListed' /\ BelowThreshold' /\ WorkIsDue'
    BY DEF IInv, Vanish, ListChanges, RoundShape, InRound, KnownListed, Known, BelowThreshold,
           Waiting, WorkIsDue
<1>4. MissesPaid'
    BY DEF IInv, Vanish, ListChanges, MissesPaid, Due, Missing, Tracked
<1> QED BY <1>2, <1>3, <1>4 DEF IInv

LEMMA DayStep ==
  ASSUME IInv, DayPasses
  PROVE  IInv'
<1> USE DEF pos, memory, table, actors, bounds, history
<1>1. TypeOK' /\ glitches' >= glitches
    BY DEF IInv, TypeOK, DayPasses
<1>2. sweep' = sweep /\ UNCHANGED <<listed, track, file, scraper, history>>
    BY DEF DayPasses
<1>3. sweep'["scraper"].pc # "off" => scraper.pc = "sweep"
    BY <1>2 DEF IInv, RoundShape
<1> QED BY <1>1, <1>2, <1>3, Beside

LEMMA CrashStep ==
  ASSUME IInv, Crash
  PROVE  IInv'
<1> USE DEF pos, memory, table, actors, bounds, history
<1>1. PICK f \in {file, [track |-> NothingTracked, swept |-> FALSE]} :
        track' = f.track /\ swept' = f.swept
    BY DEF Crash
<1>2. f \in Files /\ (f = file \/ \A b \in Bills : f.track[b] = NotTracked)
  <2>1. [track |-> NothingTracked, swept |-> FALSE] \in Files
      BY BillAssumption DEF NothingTracked, NotTracked, Tracking, Tracks, Files
  <2>2. file \in Files
      BY DEF IInv, TypeOK, Files, Tracks
  <2>3. CASE f = [track |-> NothingTracked, swept |-> FALSE]
      BY <2>1, <2>3 DEF NothingTracked
  <2> QED BY <1>1, <2>2, <2>3
<1>3. scraper' = NoRound /\ recon' = NoRecon /\ sweep' = [a \in Actors |-> NoSweep] /\ seen' = {}
      /\ UNCHANGED <<listed, changes, file, table, day, glitches, reconciles, astray, away>>
    BY DEF Crash
<1>4. TypeOK'
  <2>1. scraper' \in Rounds /\ sweep' \in [Actors -> Sweeps] /\ crashes' \in 0..MaxCrashes
      BY <1>3, BillAssumption DEF IInv, TypeOK, Crash, NoRound, NoSweep, Rounds, Sweeps
  <2> QED BY <1>1, <1>2, <1>3, <2>1 DEF IInv, TypeOK, NoRecon, Files, Tracks, Rounds, Sweeps
<1>5. RoundShape' /\ WorkIsDue'
    BY <1>3 DEF RoundShape, WorkIsDue, InRound, NoRound, NoSweep, Actors
<1>6. KnownListed'
    BY <1>1, <1>2, <1>3 DEF IInv, KnownListed, Known, NoRound, NotTracked
<1>7. BelowThreshold'
    BY <1>1, <1>2, <1>3, BillAssumption DEF IInv, BelowThreshold, Waiting, NoRound, NotTracked
<1>8. MissesPaid'
    BY <1>1, <1>2, <1>3 DEF IInv, TypeOK, MissesPaid, Due, Missing, Tracked, NoRound, NotTracked
<1> QED BY <1>4, <1>5, <1>6, <1>7, <1>8 DEF IInv

-----------------------------------------------------------------------------
(* The round. *)

LEMMA PollStep ==
  ASSUME IInv, NEW list \in SUBSET Bills, Poll(list)
  PROVE  IInv'
<1> USE DEF pos, memory, table, actors, bounds, history
<1>1. /\ scraper.pc = "idle"
      /\ scraper' = [NoRound EXCEPT !.pc = "collect", !.present = list, !.todo = list \ Tracked]
      /\ seen' = list
      /\ UNCHANGED <<pos, memory, file, table, day, recon, sweep, astray, away>>
    BY DEF Poll, Round
<1>2. /\ list \subseteq listed
      /\ glitches' \in 0..MaxGlitches /\ glitches' >= glitches
      /\ crashes' = crashes /\ reconciles' = reconciles
      /\ list # listed => glitches' = glitches + 1
  <2>1. Fine \/ Glitch
      BY DEF Poll, Answers
  <2> QED BY <2>1, BoundsKept DEF IInv, Poll, Answers, Partial, Glitch
<1>3. /\ scraper'.pc = "collect" /\ scraper'.present = list
      /\ scraper'.todo = list \ Tracked /\ scraper' \in Rounds
    BY <1>1 DEF NoRound, Rounds
<1>4. TypeOK'
    BY <1>1, <1>2, <1>3 DEF IInv, TypeOK, Rounds
<1>5. RoundShape' /\ WorkIsDue'
    BY <1>1, <1>2, <1>3 DEF IInv, RoundShape, WorkIsDue, InRound
<1>6. KnownListed'
    BY <1>1, <1>2, <1>3 DEF IInv, KnownListed, Known
<1>7. BelowThreshold'
    BY <1>1, <1>3 DEF IInv, BelowThreshold, Waiting
<1>8. MissesPaid'
  <2> SUFFICES ASSUME NEW b \in Bills \ away
               PROVE  /\ ~track[b].cancelled => track[b].miss <= glitches'
                      /\ b \in Tracked \ list /\ ~track[b].cancelled
                            => track[b].miss + 1 <= glitches'
                      /\ ~file.track[b].cancelled => file.track[b].miss <= glitches'
      BY <1>1, <1>3 DEF MissesPaid, Due, Missing, Tracked
  <2>1. /\ track[b].miss \in Int /\ file.track[b].miss \in Int
        /\ glitches \in Int /\ glitches' \in Int
      BY <1>2 DEF IInv, TypeOK, Tracking
  <2>2. b \in Tracked \ list => list # listed
      BY DEF IInv, KnownListed, Known, Tracked
  <2> QED BY <1>2, <2>1, <2>2 DEF IInv, MissesPaid
<1> QED BY <1>4, <1>5, <1>6, <1>7, <1>8 DEF IInv

LEMMA CollectStep ==
  ASSUME IInv, NEW b \in Bills, Collect(b)
  PROVE  IInv'
<1> USE DEF pos, memory, table, actors, bounds, history
<1>1. /\ scraper.pc = "collect" /\ b \in scraper.todo
      /\ track' = [track EXCEPT ![b] = NewBill]
      /\ Saved(track', swept)
      /\ scraper' = [scraper EXCEPT !.todo = @ \ {b}, !.toSave = @ \cup {b}]
      /\ UNCHANGED <<pos, swept, table, day, recon, sweep, astray, history>>
    BY DEF Collect, Round
<1>2. /\ track' \in Tracks /\ track'[b].miss = 0 /\ ~track'[b].cancelled
      /\ \A x \in Bills \ {b} : track'[x] = track[x]
  <2>1. NewBill \in Tracking /\ NewBill.miss = 0 /\ ~NewBill.cancelled
      BY BillAssumption DEF Tracking, NewBill
  <2> QED BY <1>1, <2>1 DEF IInv, TypeOK, Tracks
<1>3. /\ scraper' \in Rounds /\ scraper'.pc = "collect" /\ scraper'.present = scraper.present
      /\ scraper'.todo = scraper.todo \ {b}
    BY <1>1 DEF IInv, TypeOK, Rounds
<1>4. /\ file' \in Files /\ file'.track \in {track', file.track}
      /\ glitches' \in 0..MaxGlitches /\ glitches' >= glitches
      /\ crashes' = crashes /\ reconciles' = reconciles
  <2>1. swept \in BOOLEAN
      BY DEF IInv, TypeOK
  <2> QED BY <1>1, <1>2, <2>1, SavedType DEF IInv
<1>5. TypeOK'
    BY <1>1, <1>2, <1>3, <1>4 DEF IInv, TypeOK, Rounds, Files, Tracks
<1>6. b \in scraper.present
    BY <1>1 DEF IInv, RoundShape
<1>7. RoundShape' /\ WorkIsDue'
    BY <1>1, <1>3 DEF IInv, RoundShape, WorkIsDue, InRound
<1>8. KnownListed'
    BY <1>1, <1>2, <1>3, <1>4, <1>6 DEF IInv, KnownListed, Known
<1>9. BelowThreshold'
  <2> SUFFICES ASSUME NEW x \in Bills
               PROVE  /\ ~track'[x].cancelled => track'[x].miss < Threshold
                      /\ ~file'.track[x].cancelled => file'.track[x].miss < Threshold
      BY DEF BelowThreshold
  <2>1. ~track[x].cancelled => track[x].miss < Threshold
      BY <1>1 DEF IInv, BelowThreshold, Waiting
  <2>2. ~track'[x].cancelled => track'[x].miss < Threshold
      BY <1>2, <2>1, BillAssumption
  <2> QED BY <1>4, <2>2 DEF IInv, BelowThreshold
<1>10. MissesPaid'
  <2> SUFFICES ASSUME NEW x \in Bills \ away
               PROVE  /\ ~track'[x].cancelled => track'[x].miss <= glitches'
                      /\ Due(x)' => track'[x].miss + 1 <= glitches'
                      /\ ~file'.track[x].cancelled => file'.track[x].miss <= glitches'
      BY <1>1 DEF MissesPaid
  <2>1. /\ track[x].miss \in Int /\ file.track[x].miss \in Int
        /\ glitches \in Int /\ glitches' \in Int /\ glitches' >= 0
      BY <1>4 DEF IInv, TypeOK, Tracking
  <2>2. x # b /\ Due(x)' => Due(x)
      BY <1>1, <1>2, <1>3 DEF Due, Missing, Tracked
  <2>3. ~Due(b)'
      BY <1>3, <1>6 DEF Due, Missing
  <2>4. /\ ~track'[x].cancelled => track'[x].miss <= glitches'
        /\ Due(x)' => track'[x].miss + 1 <= glitches'
      BY <1>2, <1>4, <2>1, <2>2, <2>3 DEF IInv, MissesPaid
  <2> QED BY <1>4, <2>1, <2>4 DEF IInv, MissesPaid
<1> QED BY <1>5, <1>7, <1>8, <1>9, <1>10 DEF IInv

LEMMA NoDetailStep ==
  ASSUME IInv, NEW b \in Bills, NoDetail(b)
  PROVE  IInv'
<1> USE DEF pos, memory, table, actors, bounds, history
<1>1. /\ scraper.pc = "collect"
      /\ scraper' = [scraper EXCEPT !.todo = @ \ {b}]
      /\ UNCHANGED <<pos, memory, file, table, day, recon, sweep, astray, history>>
    BY DEF NoDetail, Round
<1>2. /\ scraper' \in Rounds /\ scraper'.pc = "collect" /\ scraper'.present = scraper.present
      /\ scraper'.todo = scraper.todo \ {b}
    BY <1>1 DEF IInv, TypeOK, Rounds
<1>3. /\ glitches' \in 0..MaxGlitches /\ glitches' >= glitches
      /\ crashes' = crashes /\ reconciles' = reconciles
    BY BoundsKept DEF IInv, NoDetail
<1>4. TypeOK'
    BY <1>1, <1>2, <1>3 DEF IInv, TypeOK, Rounds
<1>5. RoundShape' /\ WorkIsDue' /\ KnownListed'
    BY <1>1, <1>2 DEF IInv, RoundShape, WorkIsDue, InRound, KnownListed, Known
<1>6. BelowThreshold'
    BY <1>1, <1>2 DEF IInv, BelowThreshold, Waiting
<1>7. MissesPaid'
  <2> SUFFICES ASSUME NEW x \in Bills \ away
               PROVE  /\ ~track[x].cancelled => track[x].miss <= glitches'
                      /\ Due(x) => track[x].miss + 1 <= glitches'
                      /\ ~file.track[x].cancelled => file.track[x].miss <= glitches'
      BY <1>1, <1>2 DEF MissesPaid, Due, Missing, Tracked
  <2>1. /\ track[x].miss \in Int /\ file.track[x].miss \in Int
        /\ glitches \in Int /\ glitches' \in Int
      BY <1>3 DEF IInv, TypeOK, Tracking
  <2> QED BY <1>3, <2>1 DEF IInv, MissesPaid
<1> QED BY <1>4, <1>5, <1>6, <1>7 DEF IInv

\* What counting does to one bill.
LEMMA Counted ==
  ASSUME IInv, scraper.pc = "collect", NEW b \in Bills
  PROVE  /\ Count(b) \in Tracking
         /\ Count(b).collected = track[b].collected
         /\ Count(b).cancelled = track[b].cancelled
         /\ Missing(b) => Count(b).miss = track[b].miss + 1
         /\ ~Missing(b) /\ b \in scraper.present /\ ~track[b].cancelled => Count(b).miss = 0
         /\ ~Missing(b) /\ b \notin scraper.present => Count(b) = track[b]
         /\ Back(b) => Count(b) = track[b]
<1>1. track[b] \in Tracking /\ track[b].miss \in 0..Threshold
    BY DEF IInv, TypeOK, Tracking
<1>2. CASE Missing(b)
  <2>1. ~track[b].cancelled /\ b \notin scraper.present
      BY <1>2 DEF Missing
  <2>2. track[b].miss < Threshold
      BY <2>1 DEF IInv, BelowThreshold, Waiting
  <2>3. track[b].miss + 1 \in 0..Threshold
      BY <1>1, <2>2, BillAssumption
  <2>4. Count(b) = [track[b] EXCEPT !.miss = @ + 1]
      BY <1>2 DEF Count
  <2> QED BY <1>1, <1>2, <2>1, <2>3, <2>4 DEF Tracking, Back
<1>3. CASE ~Missing(b) /\ b \in scraper.present /\ ~Back(b)
  <2>1. Count(b) = [track[b] EXCEPT !.miss = 0]
      BY <1>3 DEF Count
  <2> QED BY <1>1, <1>3, <2>1, BillAssumption DEF Tracking
<1>4. CASE ~Missing(b) /\ ~(b \in scraper.present /\ ~Back(b))
  <2>1. Count(b) = track[b]
      BY <1>4 DEF Count
  <2> QED BY <1>1, <1>4, <2>1 DEF Back
<1> QED BY <1>2, <1>3, <1>4

LEMMA CompareStep ==
  ASSUME IInv, Compare
  PROVE  IInv'
<1> USE DEF pos, memory, table, actors, bounds, history
<1>1. /\ scraper.pc = "collect"
      /\ track' = [b \in Bills |-> Count(b)]
      /\ scraper' = [scraper EXCEPT !.pc = "compare", !.dirty = track' # track,
                                    !.todo = {b \in Bills : GivenUp(b) \/ Back(b)}]
      /\ UNCHANGED <<pos, swept, file, table, day, recon, sweep, bounds, astray, history>>
    BY DEF Compare, Round, Fine
<1>2. track' \in Tracks /\ \A b \in Bills : track'[b] = Count(b)
    BY <1>1, Counted DEF Tracks
<1>3. /\ scraper' \in Rounds /\ scraper'.pc = "compare" /\ scraper'.present = scraper.present
      /\ scraper'.todo = {b \in Bills : GivenUp(b) \/ Back(b)}
  <2>1. (track' # track) \in BOOLEAN /\ {b \in Bills : GivenUp(b) \/ Back(b)} \in SUBSET Bills
      OBVIOUS
  <2> QED BY <1>1, <2>1 DEF IInv, TypeOK, Rounds
<1>4. TypeOK'
    BY <1>1, <1>2, <1>3 DEF IInv, TypeOK, Rounds, Tracks
<1>5. RoundShape'
    BY <1>1, <1>3 DEF IInv, RoundShape, InRound
<1>6. KnownListed'
    BY <1>1, <1>2, <1>3, Counted DEF IInv, KnownListed, Known
<1>7. BelowThreshold'
  <2> SUFFICES ASSUME NEW b \in Bills
               PROVE  ~track'[b].cancelled /\ b \notin scraper'.todo => track'[b].miss < Threshold
      BY <1>1, <1>3 DEF IInv, BelowThreshold, Waiting
  <2>1. ~track[b].cancelled => track[b].miss < Threshold
      BY <1>1 DEF IInv, BelowThreshold, Waiting
  <2>2. track[b].miss \in Int
      BY DEF IInv, TypeOK, Tracking
  <2>3. CASE Missing(b)
      BY <1>1, <1>2, <1>3, <2>2, <2>3, Counted, BillAssumption DEF GivenUp
  <2>4. CASE ~Missing(b)
      BY <1>1, <1>2, <2>1, <2>4, Counted, BillAssumption
  <2> QED BY <2>3, <2>4
<1>8. MissesPaid'
  <2> SUFFICES ASSUME NEW b \in Bills \ away
               PROVE  ~track'[b].cancelled => track'[b].miss <= glitches
      BY <1>1, <1>3 DEF IInv, MissesPaid, Due
  <2>1. track[b].miss \in Int /\ glitches \in Int /\ glitches >= 0
      BY DEF IInv, TypeOK, Tracking
  <2>2. CASE Missing(b)
      BY <1>1, <1>2, <2>1, <2>2, Counted DEF IInv, MissesPaid, Due
  <2>3. CASE ~Missing(b)
      BY <1>1, <1>2, <2>1, <2>3, Counted DEF IInv, MissesPaid
  <2> QED BY <2>2, <2>3
<1>9. WorkIsDue'
  <2>1. ASSUME NEW b \in scraper'.todo, b \notin scraper'.present
        PROVE  track'[b].miss >= Threshold
      BY <1>1, <1>2, <1>3, <2>1, Counted DEF GivenUp, Back
  <2>2. ASSUME NEW b \in seen, ~track'[b].cancelled
        PROVE  track'[b].miss = 0
    <3>1. b \in Bills /\ b \in scraper.present
        BY DEF IInv, TypeOK, RoundShape
    <3> QED BY <1>1, <1>2, <2>2, <3>1, Counted DEF Missing
  <2>3. ASSUME NEW b \in scraper'.todo, b \in scraper'.present
        PROVE  track'[b].cancelled
      BY <1>1, <1>2, <1>3, <2>3, Counted DEF GivenUp, Missing, Back
  <2> QED BY <1>1, <1>3, <2>1, <2>2, <2>3 DEF WorkIsDue
<1> QED BY <1>4, <1>5, <1>6, <1>7, <1>8, <1>9 DEF IInv
LEMMA GiveUpStep ==
  ASSUME IInv, NEW b \in Bills, GiveUp(b)
  PROVE  IInv'
<1> USE DEF pos, memory, table, actors, bounds, history
<1>1. /\ scraper.pc = "compare" /\ b \in scraper.todo \ scraper.present
      /\ Written(Cancelled(b))
      /\ track' = [track EXCEPT ![b].cancelled = TRUE]
      /\ scraper' = [scraper EXCEPT !.todo = @ \ {b}]
      /\ UNCHANGED <<pos, swept, file, day, recon, sweep, astray, history>>
    BY DEF GiveUp, Round
<1>2. /\ unit' \in Rows /\ fix' \in Rows
      /\ glitches' \in 0..MaxGlitches /\ glitches' >= glitches
      /\ crashes' = crashes /\ reconciles' = reconciles
    BY <1>1, RowsType, WrittenType DEF IInv
<1>3. /\ track' \in Tracks /\ track'[b].cancelled /\ track'[b].collected = track[b].collected
      /\ track'[b].miss = track[b].miss
      /\ \A x \in Bills \ {b} : track'[x] = track[x]
  <2> DEFINE t == [track[b] EXCEPT !.cancelled = TRUE]
  <2>1. track' = [track EXCEPT ![b] = t] /\ track \in Tracks
      BY <1>1 DEF IInv, TypeOK, Tracks
  <2>2. t \in Tracking /\ t.cancelled /\ t.collected = track[b].collected /\ t.miss = track[b].miss
      BY <2>1 DEF Tracks, Tracking
  <2> HIDE DEF t
  <2> QED BY <2>1, <2>2 DEF Tracks
<1>4. /\ scraper' \in Rounds /\ scraper'.pc = "compare" /\ scraper'.present = scraper.present
      /\ scraper'.todo = scraper.todo \ {b}
    BY <1>1 DEF IInv, TypeOK, Rounds
<1>5. TypeOK'
    BY <1>1, <1>2, <1>3, <1>4 DEF IInv, TypeOK, Rounds, Tracks, Rows
<1>6. RoundShape'
    BY <1>1, <1>4 DEF IInv, RoundShape, InRound
<1>7. KnownListed'
    BY <1>1, <1>3, <1>4 DEF IInv, KnownListed, Known
<1>8. BelowThreshold'
    BY <1>1, <1>3, <1>4 DEF IInv, BelowThreshold, Waiting
<1>9. MissesPaid'
  <2> SUFFICES ASSUME NEW x \in Bills \ away
               PROVE  /\ ~track'[x].cancelled => track'[x].miss <= glitches'
                      /\ ~file.track[x].cancelled => file.track[x].miss <= glitches'
      BY <1>1, <1>4 DEF MissesPaid, Due
  <2>1. /\ track[x].miss \in Int /\ file.track[x].miss \in Int
        /\ glitches \in Int /\ glitches' \in Int
      BY <1>2 DEF IInv, TypeOK, Tracking
  <2> QED BY <1>2, <1>3, <2>1 DEF IInv, MissesPaid
<1>10. WorkIsDue'
  <2>1. scraper'.todo \subseteq Bills /\ seen \subseteq Bills
      BY <1>4 DEF IInv, TypeOK, Rounds
  <2> QED BY <1>1, <1>3, <1>4, <2>1 DEF IInv, WorkIsDue
<1> QED BY <1>5, <1>6, <1>7, <1>8, <1>9, <1>10 DEF IInv

LEMMA ReturnStep ==
  ASSUME IInv, NEW b \in Bills, Return(b)
  PROVE  IInv'
<1> USE DEF pos, memory, table, actors, bounds, history
<1>1. /\ scraper.pc = "compare" /\ b \in scraper.todo \cap scraper.present
      /\ UNCHANGED <<pos, swept, file, day, recon, sweep, astray, history>>
    BY DEF Return, Round
<1>2. /\ unit' \in Rows /\ fix' \in Rows
      /\ glitches' \in 0..MaxGlitches /\ glitches' >= glitches
      /\ crashes' = crashes /\ reconciles' = reconciles
  <2>1. Written(Restored(b)) \/ (Glitch /\ unit' = unit /\ fix' = fix)
      BY DEF Return
  <2>2. CASE Written(Restored(b))
      BY <2>2, RowsType, WrittenType DEF IInv
  <2>3. CASE Glitch /\ unit' = unit /\ fix' = fix
      BY <2>3, BoundsKept DEF IInv, TypeOK, Rows
  <2> QED BY <2>1, <2>2, <2>3
<1>3. /\ track' \in Tracks
      /\ \/ ~track'[b].cancelled /\ track'[b].miss = 0 /\ track'[b].collected = track[b].collected
         \/ track'[b] = track[b]
      /\ \A x \in Bills \ {b} : track'[x] = track[x]
  <2>1. CASE track' = track
      BY <2>1 DEF IInv, TypeOK, Tracks
  <2>2. CASE track' = [track EXCEPT ![b] = [@ EXCEPT !.miss = 0, !.cancelled = FALSE]]
    <3> DEFINE t == [track[b] EXCEPT !.miss = 0, !.cancelled = FALSE]
    <3>1. track' = [track EXCEPT ![b] = t] /\ track \in Tracks
        BY <2>2 DEF IInv, TypeOK, Tracks
    <3>2. track[b] \in Tracking /\ 0 \in 0..Threshold
        BY <3>1, BillAssumption DEF Tracks
    <3>3. t \in Tracking /\ t.miss = 0 /\ ~t.cancelled /\ t.collected = track[b].collected
        BY <3>2 DEF Tracking
    <3> HIDE DEF t
    <3> QED BY <3>1, <3>3 DEF Tracks
  <2> QED BY <2>1, <2>2 DEF Return
<1>4. /\ scraper' \in Rounds /\ scraper'.pc = "compare" /\ scraper'.present = scraper.present
      /\ scraper'.todo = scraper.todo \ {b}
  <2>1. CASE scraper' = [scraper EXCEPT !.todo = @ \ {b}, !.dirty = TRUE]
      BY <1>1, <2>1 DEF IInv, TypeOK, Rounds
  <2>2. CASE scraper' = [scraper EXCEPT !.todo = @ \ {b}]
      BY <1>1, <2>2 DEF IInv, TypeOK, Rounds
  <2> QED BY <2>1, <2>2 DEF Return
<1>5. TypeOK'
    BY <1>1, <1>2, <1>3, <1>4 DEF IInv, TypeOK, Rounds, Tracks, Rows
<1>6. RoundShape'
    BY <1>1, <1>4 DEF IInv, RoundShape, InRound
<1>7. KnownListed'
    BY <1>1, <1>3, <1>4 DEF IInv, KnownListed, Known
<1>8. track[b].cancelled
    BY <1>1 DEF IInv, WorkIsDue
<1>9. BelowThreshold'
    BY <1>1, <1>3, <1>4, <1>8, BillAssumption DEF IInv, BelowThreshold, Waiting
<1>10. MissesPaid'
  <2> SUFFICES ASSUME NEW x \in Bills \ away
               PROVE  /\ ~track'[x].cancelled => track'[x].miss <= glitches'
                      /\ ~file.track[x].cancelled => file.track[x].miss <= glitches'
      BY <1>1, <1>4 DEF MissesPaid, Due
  <2>1. /\ track[x].miss \in Int /\ file.track[x].miss \in Int
        /\ glitches \in Int /\ glitches' \in Int /\ glitches' >= 0
      BY <1>2 DEF IInv, TypeOK, Tracking
  <2> QED BY <1>2, <1>3, <1>8, <2>1 DEF IInv, MissesPaid
<1>11. WorkIsDue'
  <2>1. scraper'.todo \subseteq Bills /\ seen \subseteq Bills
      BY <1>4 DEF IInv, TypeOK, Rounds
  <2> QED BY <1>1, <1>3, <1>4, <1>8, <2>1 DEF IInv, WorkIsDue
<1> QED BY <1>5, <1>6, <1>7, <1>9, <1>10, <1>11 DEF IInv

\* Between rounds nothing of a round is left.
LEMMA RoundEnds ==
  ASSUME IInv, TypeOK', UNCHANGED listed, glitches' >= glitches,
         \A b \in Bills : track'[b] \in {track[b], NotTracked},
         \A b \in Bills : file'.track[b] \in {track'[b], file.track[b]},
         scraper'.pc \notin {"collect", "compare"}, scraper'.present = {}, seen' = {},
         sweep'["scraper"].pc # "off" => scraper'.pc = "sweep",
         \A b \in Bills : ~track[b].cancelled => track[b].miss < Threshold,
         \A b \in Bills \ away' : b \in away =>
            /\ b \in listed
            /\ ~track'[b].cancelled => track'[b].miss = 0
            /\ ~file'.track[b].cancelled => file'.track[b].miss = 0
  PROVE  IInv'
<1>1. RoundShape' /\ WorkIsDue'
    BY DEF RoundShape, InRound, WorkIsDue
<1>2. KnownListed'
    BY DEF IInv, KnownListed, Known, NotTracked
<1>3. BelowThreshold'
  <2> SUFFICES ASSUME NEW b \in Bills
               PROVE  /\ ~track'[b].cancelled => track'[b].miss < Threshold
                      /\ ~file'.track[b].cancelled => file'.track[b].miss < Threshold
      BY DEF BelowThreshold
  <2>1. NotTracked.miss < Threshold
      BY BillAssumption DEF NotTracked
  <2> QED BY <2>1 DEF IInv, BelowThreshold
<1>4. MissesPaid'
  <2> SUFFICES ASSUME NEW b \in Bills \ away'
               PROVE  /\ ~track'[b].cancelled => track'[b].miss <= glitches'
                      /\ ~file'.track[b].cancelled => file'.track[b].miss <= glitches'
      BY DEF MissesPaid, Due
  <2>1. /\ track[b].miss \in Int /\ file.track[b].miss \in Int
        /\ glitches \in Int /\ glitches' \in Int /\ glitches' >= 0
      BY DEF IInv, TypeOK, Tracking
  <2>2. CASE b \in away
      BY <2>1, <2>2
  <2>3. CASE b \notin away
    <3>1. ~track'[b].cancelled => track'[b].miss <= glitches'
        BY <2>1, <2>3 DEF IInv, MissesPaid, NotTracked
    <3> QED BY <2>1, <2>3, <3>1 DEF IInv, MissesPaid
  <2> QED BY <2>2, <2>3
<1> QED BY <1>1, <1>2, <1>3, <1>4 DEF IInv

LEMMA EndCompareStep ==
  ASSUME IInv, EndCompare
  PROVE  IInv'
<1> USE DEF pos, memory, table, actors, bounds, history
<1>1. /\ scraper.pc = "compare" /\ scraper.todo = {}
      /\ seen' = {} /\ away' = away \ {b \in seen : file'.track[b].miss = 0}
      /\ UNCHANGED <<pos, memory, table, day, recon, sweep, astray>>
    BY DEF EndCompare, Round
<1>2. /\ scraper' \in Rounds /\ scraper'.pc \in {"idle", "store"} /\ scraper'.present = {}
    BY DEF IInv, TypeOK, EndCompare, NoRound, Rounds
<1>3. /\ file' \in Files /\ file'.track \in {track, file.track}
      /\ glitches' \in 0..MaxGlitches /\ glitches' >= glitches
      /\ crashes' = crashes /\ reconciles' = reconciles
  <2>1. track \in Tracks /\ swept \in BOOLEAN /\ file \in Files
      BY DEF IInv, TypeOK, Tracks, Files
  <2>2. Saved(track, swept) \/ (Fine /\ file' = file)
      BY DEF EndCompare
  <2> QED BY <2>1, <2>2, SavedType, BoundsKept DEF IInv
<1>4. TypeOK'
    BY <1>1, <1>2, <1>3 DEF IInv, TypeOK, Rounds, Files, Tracks
<1>5. \A b \in Bills : ~track[b].cancelled => track[b].miss < Threshold
    BY <1>1 DEF IInv, BelowThreshold, Waiting
<1>6. ASSUME NEW b \in Bills \ away', b \in away
      PROVE  /\ b \in listed
             /\ ~track[b].cancelled => track[b].miss = 0
             /\ ~file'.track[b].cancelled => file'.track[b].miss = 0
    BY <1>1, <1>6 DEF IInv, RoundShape, WorkIsDue
<1>7. sweep'["scraper"].pc # "off" => scraper'.pc = "sweep"
    BY <1>1 DEF IInv, RoundShape
<1> QED BY <1>1, <1>2, <1>3, <1>4, <1>5, <1>6, <1>7, RoundEnds

LEMMA StoreStep ==
  ASSUME IInv, Store
  PROVE  IInv'
<1> USE DEF pos, memory, table, actors, bounds, history
<1>1. /\ scraper.pc = "store" /\ scraper' = NoRound
      /\ UNCHANGED <<pos, memory, file, day, recon, sweep, astray, history>>
    BY DEF Store, Round
<1>2. /\ unit' \in Rows /\ fix' \in Rows
      /\ glitches' \in 0..MaxGlitches /\ glitches' >= glitches
      /\ crashes' = crashes /\ reconciles' = reconciles
  <2>1. unit \in Rows /\ fix \in Rows
      BY DEF IInv, TypeOK, Rows
  <2> QED BY <2>1, StoredType, WrittenType DEF IInv, Store
<1>3. scraper' \in Rounds /\ scraper'.pc = "idle" /\ scraper'.present = {}
    BY <1>1 DEF NoRound, Rounds
<1>4. TypeOK'
    BY <1>1, <1>2, <1>3 DEF IInv, TypeOK, Rounds, Rows
<1>5. \A b \in Bills : ~track[b].cancelled => track[b].miss < Threshold
    BY <1>1 DEF IInv, BelowThreshold, Waiting
<1>6. seen' = {} /\ (sweep'["scraper"].pc # "off" => scraper'.pc = "sweep")
    BY <1>1 DEF IInv, RoundShape, InRound
<1> QED BY <1>1, <1>2, <1>3, <1>4, <1>5, <1>6, RoundEnds
-----------------------------------------------------------------------------
(* The comparison of the order table with the list. *)

LEMMA SweepTypes ==
  ASSUME TypeOK, NEW a \in Actors
  PROVE  sweep[a] \in Sweeps /\ NoSweep \in Sweeps /\ NoRound \in Rounds
BY DEF TypeOK, Sweeps, NoSweep, NoRound, Rounds

LEMMA AstrayType ==
  ASSUME TypeOK, NEW a, NEW bills \in SUBSET Bills, Astray(a, bills)
  PROVE  astray' \subseteq Bills
BY DEF Astray, TypeOK

\* One step of a comparison that goes on.
LEMMA OnwardStep ==
  ASSUME IInv, NEW a \in Actors, NEW pc, pc # "off", NEW s \in Sweeps, Sweep(a, pc), Onward(a, s),
         unit' \in Rows, fix' \in Rows,
         glitches' \in 0..MaxGlitches, glitches' >= glitches,
         crashes' = crashes, reconciles' = reconciles,
         astray' \subseteq Bills
  PROVE  IInv'
<1> USE DEF pos, memory, table, actors, bounds, history
<1>1. /\ UNCHANGED <<pos, memory, file, day, scraper, recon, history>>
      /\ sweep' = [sweep EXCEPT ![a] = s] /\ sweep[a].pc # "off"
    BY DEF Sweep, Onward
<1>2. sweep \in [Actors -> Sweeps] /\ "scraper" \in Actors
    BY DEF IInv, TypeOK, Sweeps, Actors
<1>3. sweep' \in [Actors -> Sweeps]
    BY <1>1, <1>2
<1>4. TypeOK'
    BY <1>1, <1>3 DEF IInv, TypeOK, Sweeps, Rows
<1>5. sweep'["scraper"].pc # "off" => scraper.pc = "sweep"
    BY <1>1, <1>2 DEF IInv, RoundShape
<1> QED BY <1>1, <1>4, <1>5, Beside

\* Its last step, for either actor.
LEMMA LeaveStep ==
  ASSUME IInv, NEW a \in Actors, NEW pc, pc # "off", Sweep(a, pc), Leave(a),
         UNCHANGED table,
         a = "recon" => UNCHANGED <<memory, file>>,
         track' \in Tracks, swept' \in BOOLEAN, file' \in Files,
         \A b \in Bills : track'[b] \in {track[b], NotTracked},
         \A b \in Bills : file'.track[b] \in {track'[b], file.track[b]},
         glitches' \in 0..MaxGlitches, glitches' >= glitches,
         crashes' = crashes, reconciles' = reconciles,
         astray' \subseteq Bills
  PROVE  IInv'
<1> USE DEF pos, memory, table, actors, bounds, history
<1>1. /\ UNCHANGED <<pos, day, history>> /\ sweep[a].pc # "off"
      /\ sweep' = [sweep EXCEPT ![a] = NoSweep]
      /\ scraper' = IF a = "scraper" THEN NoRound ELSE scraper
      /\ recon' = IF a = "recon" THEN NoRecon ELSE recon
    BY DEF Sweep, Leave
<1>2. sweep \in [Actors -> Sweeps] /\ sweep' \in [Actors -> Sweeps] /\ scraper' \in Rounds
    BY <1>1, SweepTypes DEF IInv, TypeOK, Sweeps, Rounds
<1>3. TypeOK'
    BY <1>1, <1>2 DEF IInv, TypeOK, Sweeps, Rounds, Tracks, Files, NoRecon
<1>4. CASE a = "recon"
  <2>1. sweep'["scraper"].pc # "off" => scraper.pc = "sweep"
      BY <1>1, <1>2, <1>4 DEF IInv, RoundShape, Actors
  <2>2. UNCHANGED <<listed, track, file, scraper, history>>
      BY <1>1, <1>4
  <2> QED BY <1>3, <2>1, <2>2, Beside
<1>5. CASE a = "scraper"
  <2>1. scraper.pc = "sweep"
      BY <1>1, <1>5 DEF IInv, RoundShape
  <2>2. seen' = {}
      BY <1>1, <2>1 DEF IInv, RoundShape, InRound
  <2>3. \A b \in Bills : ~track[b].cancelled => track[b].miss < Threshold
      BY <2>1 DEF IInv, BelowThreshold, Waiting
  <2>4. scraper'.pc = "idle" /\ scraper'.present = {} /\ sweep'["scraper"].pc = "off"
      BY <1>1, <1>2, <1>5 DEF NoRound, NoSweep, Actors
  <2> QED BY <1>1, <1>3, <2>2, <2>3, <2>4, RoundEnds
<1> QED BY <1>4, <1>5 DEF Actors

LEMMA SweepStepKeeps ==
  ASSUME IInv, NEW a \in Actors, SweepStep(a)
  PROVE  IInv'
<1> USE DEF table
<1>0. /\ unit \in Rows /\ fix \in Rows /\ track \in Tracks /\ swept \in BOOLEAN /\ file \in Files
      /\ sweep[a] \in Sweeps
    BY SweepTypes DEF IInv, TypeOK, Rows, Tracks, Files
<1>1. CASE \E list \in SUBSET Bills : SweepList(a, list)
  <2>1. PICK list \in SUBSET Bills : SweepList(a, list)
      BY <1>1
  <2>2. Sweep(a, "list") /\ (Fine \/ Glitch) /\ UNCHANGED table
      BY <2>1 DEF SweepList, Answers
  <2>5. astray' \subseteq Bills
      BY <2>1, AstrayType DEF SweepList, IInv, TypeOK
  <2>3. CASE list = {}
    <3>1. Leave(a) /\ UNCHANGED <<memory, file>>
        BY <2>1, <2>3 DEF SweepList
    <3> QED BY <1>0, <2>2, <2>5, <3>1, BoundsKept, LeaveStep DEF IInv, memory
  <2>4. CASE list # {}
    <3> DEFINE s == [NoSweep EXCEPT !.pc = "open", !.present = list]
    <3>1. Onward(a, s)
        BY <2>1, <2>4 DEF SweepList
    <3>2. s \in Sweeps
        BY DEF NoSweep, Sweeps
    <3> HIDE DEF s
    <3> QED BY <1>0, <2>2, <2>5, <3>1, <3>2, BoundsKept, OnwardStep DEF IInv
  <2> QED BY <2>3, <2>4
<1>2. CASE SweepOpen(a)
  <2>1. PICK found \in SUBSET Bills :
          /\ Read({b \in Bills : Open(b)}, found)
          /\ Onward(a, [sweep[a] EXCEPT !.pc = "gone", !.vanished = found \ sweep[a].present])
          /\ astray' \subseteq Bills
      BY <1>2, AstrayType DEF SweepOpen, IInv
  <2>2. [sweep[a] EXCEPT !.pc = "gone", !.vanished = found \ sweep[a].present] \in Sweeps
      BY <1>0 DEF Sweeps
  <2>3. Sweep(a, "open") /\ (Fine \/ Glitch) /\ UNCHANGED table
      BY <1>2, <2>1 DEF SweepOpen, Read
  <2> QED BY <1>0, <2>1, <2>2, <2>3, BoundsKept, OnwardStep DEF IInv
<1>3. CASE SweepGone(a)
  <2>1. PICK found \in SUBSET Bills :
          /\ Read({b \in Bills : Gone(b)}, found)
          /\ Onward(a, [sweep[a] EXCEPT !.pc = "work", !.back = found \cap sweep[a].present])
          /\ astray' \subseteq Bills
      BY <1>3, AstrayType DEF SweepGone, IInv
  <2>2. [sweep[a] EXCEPT !.pc = "work", !.back = found \cap sweep[a].present] \in Sweeps
      BY <1>0 DEF Sweeps
  <2>3. Sweep(a, "gone") /\ (Fine \/ Glitch) /\ UNCHANGED table
      BY <1>3, <2>1 DEF SweepGone, Read
  <2> QED BY <1>0, <2>1, <2>2, <2>3, BoundsKept, OnwardStep DEF IInv
<1>4. ASSUME NEW b \in Bills, CancelVanished(a, b)
      PROVE  IInv'
  <2>1. [sweep[a] EXCEPT !.vanished = @ \ {b}] \in Sweeps
      BY <1>0 DEF Sweeps
  <2>2. Sweep(a, "work") /\ Onward(a, [sweep[a] EXCEPT !.vanished = @ \ {b}]) /\ Written(Cancelled(b))
      BY <1>4 DEF CancelVanished, Written
  <2>3. astray' \subseteq Bills
      BY <1>4, AstrayType DEF CancelVanished, IInv
  <2> QED BY <2>1, <2>2, <2>3, RowsType, WrittenType, OnwardStep DEF IInv
<1>5. ASSUME NEW b \in Bills, RestoreReturned(a, b)
      PROVE  IInv'
  <2>1. [sweep[a] EXCEPT !.back = @ \ {b}] \in Sweeps
      BY <1>0 DEF Sweeps
  <2>2. Sweep(a, "work") /\ Onward(a, [sweep[a] EXCEPT !.back = @ \ {b}])
      BY <1>5 DEF RestoreReturned
  <2>3. astray' \subseteq Bills
      BY <1>5, AstrayType DEF RestoreReturned, IInv
  <2>4. CASE Written(Restored(b))
      BY <2>1, <2>2, <2>3, <2>4, RowsType, WrittenType, OnwardStep DEF IInv
  <2>5. CASE NoDishes(a)
    <3>1. Fine /\ unit' = unit /\ fix' = fix
        BY <2>5 DEF NoDishes
    <3> QED BY <1>0, <2>1, <2>2, <2>3, <3>1, BoundsKept, OnwardStep DEF IInv
  <2> QED BY <1>5, <2>4, <2>5 DEF RestoreReturned, Written
<1>6. CASE EndSweep(a)
  <2>1. Sweep(a, "work") /\ Leave(a) /\ UNCHANGED table /\ astray' \subseteq Bills
      BY <1>6 DEF EndSweep, IInv, TypeOK
  <2>2. CASE a = "scraper"
    <3>1. track' = NothingTracked /\ swept' = TRUE /\ Saved(track', swept')
        BY <1>6, <2>2 DEF EndSweep
    <3>2. track' \in Tracks /\ \A b \in Bills : track'[b] = NotTracked
        BY <3>1, BillAssumption DEF NothingTracked, NotTracked, Tracks, Tracking
    <3>3. /\ file' \in Files /\ file'.track \in {track', file.track}
          /\ glitches' \in 0..MaxGlitches /\ glitches' >= glitches
          /\ crashes' = crashes /\ reconciles' = reconciles
        BY <3>1, <3>2, SavedType DEF IInv
    <3> QED BY <2>1, <2>2, <3>1, <3>2, <3>3, LeaveStep
  <2>3. CASE a # "scraper"
    <3>1. Fine /\ UNCHANGED <<memory, file>>
        BY <1>6, <2>3 DEF EndSweep
    <3> QED BY <1>0, <2>1, <3>1, BoundsKept, LeaveStep DEF IInv, memory
  <2> QED BY <2>2, <2>3
<1> QED BY <1>1, <1>2, <1>3, <1>4, <1>5, <1>6 DEF SweepStep

LEMMA MorningStep ==
  ASSUME IInv, BeginMorning
  PROVE  IInv'
<1> USE DEF pos, memory, table, actors, bounds, history
<1>1. /\ scraper.pc = "idle" /\ scraper' = [NoRound EXCEPT !.pc = "sweep"]
      /\ sweep' = [sweep EXCEPT !["scraper"] = [NoSweep EXCEPT !.pc = "list"]]
      /\ astray' = {}
      /\ UNCHANGED <<pos, memory, file, table, day, recon, bounds, history>>
    BY DEF BeginMorning
<1>2. scraper' \in Rounds /\ scraper'.pc = "sweep" /\ scraper'.present = {}
    BY <1>1 DEF NoRound, Rounds
<1>3. sweep' \in [Actors -> Sweeps]
  <2>1. [NoSweep EXCEPT !.pc = "list"] \in Sweeps
      BY DEF NoSweep, Sweeps
  <2> QED BY <1>1, <2>1 DEF IInv, TypeOK, Sweeps
<1>4. TypeOK'
    BY <1>1, <1>2, <1>3 DEF IInv, TypeOK, Rounds, Sweeps
<1>5. seen' = {} /\ \A b \in Bills : ~track[b].cancelled => track[b].miss < Threshold
    BY <1>1 DEF IInv, RoundShape, InRound, BelowThreshold, Waiting
<1>6. glitches' >= glitches
    BY <1>1 DEF IInv, TypeOK
<1> QED BY <1>1, <1>2, <1>4, <1>5, <1>6, RoundEnds
-----------------------------------------------------------------------------
(* Reconciliations. *)

\* A step of a reconciliation changes nothing that the rounds rest on.
LEMMA ReconcilingStep ==
  ASSUME IInv, NEW pc, Reconciling(pc),
         unit' \in Rows, fix' \in Rows,
         recon' \in [pc : {"idle", "read", "fix", "again", "sweep"}, missing : SUBSET Bills],
         sweep' = sweep \/ sweep' = [sweep EXCEPT !["recon"] = [NoSweep EXCEPT !.pc = "list"]],
         glitches' \in 0..MaxGlitches, glitches' >= glitches,
         crashes' = crashes, reconciles' \in 0..MaxReconciles
  PROVE  IInv'
<1> USE DEF pos, memory, table, actors, bounds, history
<1>1. UNCHANGED <<pos, memory, file, day, scraper, astray, history>>
    BY DEF Reconciling
<1>2. sweep \in [Actors -> Sweeps] /\ [NoSweep EXCEPT !.pc = "list"] \in Sweeps
    BY DEF IInv, TypeOK, Sweeps, NoSweep
<1>3. sweep' \in [Actors -> Sweeps] /\ sweep'["scraper"] = sweep["scraper"]
    BY <1>2 DEF Actors
<1>4. TypeOK'
    BY <1>1, <1>3 DEF IInv, TypeOK, Sweeps, Rows
<1>5. sweep'["scraper"].pc # "off" => scraper.pc = "sweep"
    BY <1>3 DEF IInv, RoundShape
<1> QED BY <1>1, <1>4, <1>5, Beside

LEMMA BeginReconcileStep ==
  ASSUME IInv, NEW list \in SUBSET Bills, BeginReconcile(list)
  PROVE  IInv'
<1>1. /\ Reconciling("idle") /\ unit' \in Rows /\ fix' \in Rows /\ sweep' = sweep
      /\ recon' \in [pc : {"idle", "read", "fix", "again", "sweep"}, missing : SUBSET Bills]
    BY DEF BeginReconcile, IInv, TypeOK, Rows, table
<1>2. /\ glitches' \in 0..MaxGlitches /\ glitches' >= glitches
      /\ crashes' = crashes /\ reconciles' \in 0..MaxReconciles
    BY BillAssumption DEF BeginReconcile, IInv, TypeOK
<1> QED BY <1>1, <1>2, ReconcilingStep

LEMMA ReconcileStepKeeps ==
  ASSUME IInv, ReadRows \/ AddRows \/ ReadAgain
  PROVE  IInv'
<1> DEFINE Recons == [pc : {"idle", "read", "fix", "again", "sweep"}, missing : SUBSET Bills]
<1>1. /\ unit \in Rows /\ fix \in Rows /\ recon \in Recons
      /\ reconciles \in 0..MaxReconciles
    BY DEF IInv, TypeOK, Rows
<1>2. NoRecon \in Recons /\ [NoRecon EXCEPT !.pc = "again"] \in Recons
      /\ [NoRecon EXCEPT !.pc = "sweep"] \in Recons
    BY DEF NoRecon
<1>3. CASE ReadRows
  <2>1. Reconciling("read") /\ UNCHANGED table /\ (Fine \/ Glitch)
      BY <1>3 DEF ReadRows
  <2>2. recon' \in Recons
      BY <1>1, <1>2, <1>3 DEF ReadRows, GoToSweep
  <2>3. sweep' = sweep \/ sweep' = [sweep EXCEPT !["recon"] = [NoSweep EXCEPT !.pc = "list"]]
      BY <1>3 DEF ReadRows, GoToSweep
  <2> QED BY <1>1, <2>1, <2>2, <2>3, BoundsKept, ReconcilingStep DEF IInv, table
<1>4. CASE AddRows
  <2>1. /\ Reconciling("fix") /\ Written([unit |-> unit, fix |-> Stored(fix, recon.missing)])
        /\ recon' \in Recons /\ sweep' = sweep
      BY <1>2, <1>4 DEF AddRows
  <2>2. /\ unit' \in Rows /\ fix' \in Rows
        /\ glitches' \in 0..MaxGlitches /\ glitches' >= glitches
        /\ crashes' = crashes /\ reconciles' = reconciles
      BY <1>1, <2>1, StoredType, WrittenType DEF IInv
  <2> QED BY <1>1, <2>1, <2>2, ReconcilingStep
<1>5. CASE ReadAgain
  <2>1. Reconciling("again") /\ UNCHANGED table /\ (Fine \/ Glitch)
      BY <1>5 DEF ReadAgain
  <2>2. recon' \in Recons
      BY <1>2, <1>5 DEF ReadAgain, GoToSweep
  <2>3. sweep' = sweep \/ sweep' = [sweep EXCEPT !["recon"] = [NoSweep EXCEPT !.pc = "list"]]
      BY <1>5 DEF ReadAgain, GoToSweep
  <2> QED BY <1>1, <2>1, <2>2, <2>3, BoundsKept, ReconcilingStep DEF IInv, table
<1> QED BY <1>3, <1>4, <1>5

LEMMA NextIInv == IInv /\ [Next]_vars => IInv'
<1> SUFFICES ASSUME IInv, [Next]_vars PROVE IInv'
    OBVIOUS
<1>1. CASE UNCHANGED vars
  <2>1. TypeOK' /\ glitches' >= glitches
      BY <1>1 DEF vars, pos, memory, table, actors, bounds, history, IInv, TypeOK
  <2>2. UNCHANGED <<listed, track, file, scraper, sweep, history>>
      BY <1>1 DEF vars, pos, memory, actors
  <2> QED BY <2>1, <2>2, Beside DEF IInv, RoundShape
<1>2. CASE \E b \in Bills : Appear(b) \/ Vanish(b)
    BY <1>2, AppearStep, VanishStep
<1>3. CASE \E list \in SUBSET Bills : BeginReconcile(list)
    BY <1>3, BeginReconcileStep
<1>4. CASE ScraperStep
  <2>1. "scraper" \in Actors
      BY DEF Actors
  <2> QED BY <1>4, <2>1, CompareStep, EndCompareStep, StoreStep, MorningStep, SweepStepKeeps,
             PollStep, CollectStep, NoDetailStep, GiveUpStep, ReturnStep DEF ScraperStep
<1>5. CASE ReconcileStep
  <2>1. "recon" \in Actors
      BY DEF Actors
  <2> QED BY <1>5, <2>1, SweepStepKeeps, ReconcileStepKeeps DEF ReconcileStep
<1>6. CASE Crash \/ DayPasses
    BY <1>6, CrashStep, DayStep
<1> QED BY <1>1, <1>2, <1>3, <1>4, <1>5, <1>6 DEF Next

-----------------------------------------------------------------------------

\* Type correctness of the delivery bills for every set of bills and every bound.
THEOREM TypeCorrect == Spec => []TypeOK
<1>1. IInv => TypeOK
    BY DEF IInv
<1> QED BY <1>1, InitIInv, NextIInv, PTL DEF Spec

\* A round of the scraper turns a bill into a cancelled one only by giving it up.
LEMMA OnlyGivenUp ==
  ASSUME IInv, [Next]_vars, NEW b \in Bills,
         scraper'.pc = "compare", track'[b].cancelled, ~track[b].cancelled
  PROVE  GiveUp(b)
<1> USE DEF pos, memory, table, actors, bounds, history
<1>1. track' # track
    OBVIOUS
<1>2. ~UNCHANGED vars
    BY <1>1 DEF vars
<1>3. ASSUME NEW a \in Actors, SweepStep(a)
      PROVE  FALSE
  <2>1. EndSweep(a) /\ track' = NothingTracked
      BY <1>1, <1>3 DEF SweepStep, SweepOpen, SweepGone, SweepList, CancelVanished,
                        RestoreReturned, Onward, EndSweep
  <2>2. track'[b] = NotTracked
      BY <2>1 DEF NothingTracked
  <2> QED BY <2>2 DEF NotTracked
<1>4. ~Crash /\ ~DayPasses
  <2>1. NoRound.pc = "idle"
      BY DEF NoRound
  <2>2. Crash => scraper' = NoRound
      BY DEF Crash
  <2> QED BY <1>1, <2>1, <2>2 DEF DayPasses
<1>5. ~ReconcileStep /\ \A list \in SUBSET Bills : ~BeginReconcile(list)
    BY <1>1, <1>3 DEF ReconcileStep, BeginReconcile, ReadRows, AddRows, ReadAgain, Reconciling, Actors
<1>6. \A x \in Bills : ~Appear(x) /\ ~Vanish(x)
    BY <1>1 DEF Appear, Vanish, ListChanges
<1>7. ScraperStep
    BY <1>2, <1>4, <1>5, <1>6 DEF Next
<1>8. ~Compare
  <2>1. ASSUME Compare
        PROVE  FALSE
    <3>1. scraper.pc = "collect" /\ track'[b] = Count(b)
        BY <2>1 DEF Compare, Round
    <3> QED BY <3>1, Counted
  <2> QED BY <2>1
<1>9. ~EndCompare /\ ~Store /\ ~BeginMorning /\ ~SweepStep("scraper")
    BY <1>1, <1>3 DEF EndCompare, Store, BeginMorning, Actors
<1>10. \A list \in SUBSET Bills : ~Poll(list)
    BY <1>1 DEF Poll
<1>11. ASSUME NEW x \in Bills, Collect(x) \/ NoDetail(x)
       PROVE  FALSE
    BY <1>1, <1>11 DEF Collect, NoDetail, NewBill, IInv, TypeOK
<1>12. ASSUME NEW x \in Bills, Return(x)
       PROVE  FALSE
  <2>1. track' = [track EXCEPT ![x] = [@ EXCEPT !.miss = 0, !.cancelled = FALSE]]
      BY <1>1, <1>12 DEF Return
  <2>2. x # b => track'[b] = track[b]
      BY <2>1 DEF IInv, TypeOK
  <2>3. x = b => ~track'[b].cancelled
      BY <2>1 DEF IInv, TypeOK, Tracking
  <2> QED BY <2>2, <2>3
<1>13. PICK x \in Bills : GiveUp(x)
    BY <1>7, <1>8, <1>9, <1>10, <1>11, <1>12 DEF ScraperStep
<1>14. x # b => track'[b] = track[b]
    BY <1>13 DEF GiveUp, IInv, TypeOK
<1> QED BY <1>13, <1>14

\* While fewer answers of the POS go wrong than the threshold counts, a round gives up
\* only bills that have been off the list, whatever is restarted and reconciled.
THEOREM ListedIsKept == ASSUME MaxGlitches < Threshold PROVE Spec => GivenUpIsReal
<1>1. ASSUME IInv, [Next]_vars
      PROVE  [\A b \in Bills : scraper'.pc = "compare" /\ track'[b].cancelled
                 /\ ~track[b].cancelled => b \in away]_vars
  <2> SUFFICES ASSUME NEW b \in Bills, scraper'.pc = "compare", track'[b].cancelled,
                      ~track[b].cancelled, b \notin away
               PROVE  FALSE
      OBVIOUS
  <2>1. GiveUp(b)
      BY <1>1, OnlyGivenUp
  <2>2. track[b].miss >= Threshold
      BY <1>1, <2>1 DEF IInv, WorkIsDue, GiveUp, Round
  <2>3. track[b].miss <= glitches
      BY <1>1 DEF IInv, MissesPaid
  <2>4. track[b].miss \in Int /\ glitches \in 0..MaxGlitches
      BY <1>1 DEF IInv, TypeOK, Tracking
  <2> QED BY <2>2, <2>3, <2>4, BillAssumption
<1> QED BY <1>1, InitIInv, NextIInv, PTL DEF Spec, GivenUpIsReal
=============================================================================
