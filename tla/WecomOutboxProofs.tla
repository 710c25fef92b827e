------------------------- MODULE WecomOutboxProofs -------------------------
(***************************************************************************)
(* Proofs about WecomOutbox for every set of keys, channels and callers,   *)
(* any number of mishaps and channels that change at any moment: what the  *)
(* record says, how often a message arrives and how often it is tried.     *)
(***************************************************************************)
EXTENDS WecomOutbox, TLAPS

-----------------------------------------------------------------------------
(* The inductive invariant.  A caller may set a row to "skipped" while the  *)
(* loop handles it, so nothing is said of the status of a row in hand;      *)
(* what bounds the sends is where the loop is and what it read.             *)

\* The loop holds one row at most, and that one is not in the rest of its batch.
InHandInv ==
  /\ loop.hand = {} <=> loop.pc \in AtRest
  /\ \A r, s \in loop.hand : r = s
  /\ \A r \in loop.hand, s \in loop.batch : r.key # s.key
  /\ \A r, s \in loop.batch : r.key = s.key => r = s
  /\ \A r \in loop.hand \cup loop.batch : row[r.key].status # "none"

\* The message of k has just arrived and is not on record yet.
Arrived(k) == loop.pc = "sent" /\ \E r \in loop.hand : r.key = k

\* A row that may still be posted has no more copies than mishaps.
CopiesInv ==
  /\ \A k \in Keys :
       /\ copies[k] <= 1 + Mishaps
       /\ row[k].status \in Open \cup {"none"} => copies[k] <= Mishaps \/ Arrived(k)
  /\ \A r \in loop.batch : copies[r.key] <= Mishaps
  /\ \A r \in loop.hand : loop.pc # "sent" => copies[r.key] <= Mishaps

SentInv ==
  /\ SentArrived
  /\ \A k \in Keys : Arrived(k) => copies[k] > 0

\* The attempts on record, and the failed writes, account for every post; a row
\* that was marked as being sent accounts for one more.
PostsInv ==
  \A k \in Keys :
    /\ row[k].attempts <= MaxAttempts(k)
    /\ row[k].status \in Open \cup {"none"} => row[k].attempts < MaxAttempts(k)
    /\ row[k].status = "none" => posts[k] = 0 /\ row[k].attempts = 0
    /\ row[k].status = "pending" => posts[k] <= row[k].attempts + faults
    /\ row[k].status = "sending" => posts[k] <= row[k].attempts + faults + 1
    /\ posts[k] <= MaxAttempts(k) + faults

\* The loop works with the attempts on record, and has posted at most once for each.
AttemptsInv ==
  /\ \A r \in loop.batch \cup loop.hand :
       r.attempts = row[r.key].attempts /\ r.attempts < MaxAttempts(r.key)
  /\ \A r \in loop.batch :
       posts[r.key] <= r.attempts + faults + (IF loop.pc = "reclaim" THEN 1 ELSE 0)
  /\ \A r \in loop.hand :
       /\ posts[r.key] <= r.attempts + faults
                          + (IF loop.pc \in {"sent", "settle"} THEN 1 ELSE 0)
       /\ loop.pc = "post" /\ row[r.key].status = "pending" =>
            posts[r.key] + 1 <= r.attempts + faults

IInv == TypeOK /\ InHandInv /\ CopiesInv /\ SentInv /\ PostsInv /\ AttemptsInv

-----------------------------------------------------------------------------

LEMMA MaxAttemptsType == \A k : MaxAttempts(k) \in Nat \ {0}
BY DEF MaxAttempts

\* What a write of one row may do.
LEMMA WriteRow ==
  ASSUME row \in [Keys -> Row], NEW k \in Keys, NEW new \in Row, Write(k, new)
  PROVE  /\ row' \in [Keys -> Row] /\ \A j \in Keys \ {k} : row'[j] = row[j]
         /\ \/ row'[k] = new /\ faults' = faults
            \/ row'[k] = row[k] /\ faults' = faults + 1
<1>1. CASE row' = [row EXCEPT ![k] = new] /\ faults' = faults
  BY <1>1
<1>2. CASE row' = row /\ faults' = faults + 1
  BY <1>2
<1> QED BY <1>1, <1>2 DEF Write

\* A query returns one snapshot of each row it finds.
LEMMA FoundRows ==
  ASSUME row \in [Keys -> Row], NEW K \in SUBSET Keys
  PROVE  /\ Found(K) \subseteq Snapshot
         /\ \A r \in Found(K) : r.key \in K /\ r.attempts = row[r.key].attempts
         /\ \A r, s \in Found(K) : r.key = s.key => r = s
BY DEF Found, Snapshot, Row

LEMMA InitIInv == Init => IInv
<1> SUFFICES ASSUME Init PROVE IInv
    OBVIOUS
<1> USE OutboxAssumption
<1> USE DEF Init, Round, Resting, Open, Finished, AtRest, AtRow, Mishaps
<1>1. \A k \in Keys : row[k] \in Row /\ row[k].status = "none" /\ row[k].attempts = 0
    BY DEF Row, Fresh
<1>2. row \in [Keys -> Row]
    BY <1>1
<1>3. TypeOK
    BY <1>2 DEF TypeOK, LoopType, CallerType
<1>4. InHandInv /\ CopiesInv /\ SentInv
    BY <1>1 DEF InHandInv, CopiesInv, SentInv, SentArrived, Arrived
<1>5. PostsInv /\ AttemptsInv
    BY <1>1 DEF PostsInv, AttemptsInv, MaxAttempts
<1> QED BY <1>3, <1>4, <1>5 DEF IInv

\* Every step of the callers, the loop, the clocks, the operator and the crash
\* preserves the invariant.
LEMMA StepIInv == IInv /\ [Next]_vars => IInv'
<1> SUFFICES ASSUME IInv, [Next]_vars PROVE IInv'
    OBVIOUS
<1> USE OutboxAssumption
<1> USE DEF Open, Finished, AtRest, AtRow, Mishaps, trouble, history
<1>t. TypeOK /\ InHandInv /\ CopiesInv /\ SentInv /\ PostsInv /\ AttemptsInv
      /\ row \in [Keys -> Row]
    BY DEF IInv, TypeOK
<1>u. /\ \A r \in loop.hand \cup loop.batch : r \in Snapshot /\ r.key \in Keys /\ r.attempts \in Nat
      /\ \A k \in Keys : /\ row[k] \in Row /\ row[k].attempts \in Nat
                        /\ posts[k] \in Nat /\ copies[k] \in Nat /\ MaxAttempts(k) \in Nat \ {0}
      /\ crashes \in Nat /\ faults \in Nat /\ lost \in Nat
  <2>1. \A r \in loop.hand \cup loop.batch : r \in Snapshot
    BY <1>t DEF TypeOK, LoopType
  <2>2. \A k \in Keys : row[k] \in Row
    BY <1>t
  <2> QED BY <1>t, <2>1, <2>2, MaxAttemptsType DEF TypeOK, Snapshot, Row
<1>1. ASSUME NEW c \in Callers, NEW k \in Keys, Resolve(c, k) PROVE IInv'
  <2>1. UNCHANGED <<row, loop, crashes, faults, lost, posts, copies>>
    BY <1>1 DEF Resolve, CallAt
  <2>2. TypeOK'
    BY <1>t, <1>1, <2>1 DEF TypeOK, CallerType, Resolve, CallAt
  <2> QED BY <1>t, <2>1, <2>2 DEF IInv, InHandInv, CopiesInv, Arrived, SentInv, SentArrived, PostsInv, AttemptsInv
<1>2. ASSUME NEW c \in Callers, Insert(c) PROVE IInv'
  <2>1. PICK k \in caller[c].key :
          \/ row[k].status = "none" /\ Write(k, Fresh)
          \/ row[k].status # "none" /\ UNCHANGED <<row, faults>>
    BY <1>2 DEF Insert
  <2>2. UNCHANGED <<channel, loop, used, crashes, lost, posts, copies>>
    BY <1>2 DEF Insert
  <2>3. k \in Keys /\ Fresh \in Row
    BY <1>t, <2>1 DEF TypeOK, CallerType, Fresh, Row
  <2>4. caller' \in [Callers -> CallerType]
    BY <1>t, <1>2 DEF TypeOK, Insert, Resting, CallerType
  <2>5. CASE row[k].status # "none" /\ UNCHANGED <<row, faults>>
    BY <1>t, <2>2, <2>4, <2>5 DEF TypeOK, IInv, InHandInv, CopiesInv, Arrived, SentInv, SentArrived, PostsInv, AttemptsInv, CallerType
  <2>6. CASE row[k].status = "none" /\ Write(k, Fresh)
    <3>1. /\ row' \in [Keys -> Row] /\ \A j \in Keys \ {k} : row'[j] = row[j]
          /\ \/ row'[k] = Fresh /\ faults' = faults
             \/ row'[k] = row[k] /\ faults' = faults + 1
      BY <1>t, <2>3, <2>6, WriteRow
    <3>2. Fresh.status = "pending" /\ Fresh.attempts = 0
      BY DEF Fresh
    <3> HIDE DEF Fresh
    <3>3. TypeOK'
      BY <1>t, <1>u, <2>2, <2>3, <2>4, <2>6, <3>1, <3>2 DEF TypeOK, CallerType
    <3>4. InHandInv'
      BY <1>t, <1>u, <2>2, <2>3, <2>4, <2>6, <3>1, <3>2 DEF InHandInv
    <3>5. CopiesInv'
      BY <1>t, <1>u, <2>2, <2>3, <2>4, <2>6, <3>1, <3>2 DEF CopiesInv, Arrived
    <3>6. SentInv'
      BY <1>t, <1>u, <2>2, <2>3, <2>4, <2>6, <3>1, <3>2 DEF SentInv, SentArrived, Arrived
    <3>7. PostsInv'
      BY <1>t, <1>u, <2>2, <2>3, <2>4, <2>6, <3>1, <3>2 DEF PostsInv, AttemptsInv
    <3>8. AttemptsInv'
      BY <1>t, <1>u, <2>2, <2>3, <2>4, <2>6, <3>1, <3>2 DEF PostsInv, AttemptsInv, InHandInv
    <3> QED BY <3>3, <3>4, <3>5, <3>6, <3>7, <3>8 DEF IInv
  <2> QED BY <2>1, <2>5, <2>6
<1>3. ASSUME NEW c \in Callers, Look(c) PROVE IInv'
  <2>1. UNCHANGED <<row, loop, crashes, faults, lost, posts, copies>>
    BY <1>3 DEF Look, CallAt, Resting
  <2>2. TypeOK'
    BY <1>t, <1>3, <2>1 DEF TypeOK, CallerType, Look, CallAt, Resting
  <2> QED BY <1>t, <2>1, <2>2 DEF IInv, InHandInv, CopiesInv, Arrived, SentInv, SentArrived, PostsInv, AttemptsInv
<1>4. ASSUME NEW c \in Callers, Skip(c) PROVE IInv'
  <2>1. PICK k \in caller[c].key : Write(k, [row[k] EXCEPT !.status = "skipped"])
    BY <1>4 DEF Skip
  <2> DEFINE new == [row[k] EXCEPT !.status = "skipped"]
  <2>0. k \in Keys
    BY <1>t DEF TypeOK, CallerType
  <2>2. k \in Keys /\ new \in Row /\ new.status = "skipped" /\ new.attempts = row[k].attempts
    BY <1>u, <2>0 DEF Row
  <2>3. /\ UNCHANGED <<channel, loop, used, crashes, lost, posts, copies>>
        /\ caller' \in [Callers -> CallerType]
    BY <1>t, <1>4 DEF TypeOK, Skip, Resting, CallerType
  <2>4. /\ row' \in [Keys -> Row] /\ \A j \in Keys \ {k} : row'[j] = row[j]
        /\ \/ row'[k] = new /\ faults' = faults
           \/ row'[k] = row[k] /\ faults' = faults + 1
    BY <1>t, <2>1, <2>2, WriteRow
  <2> HIDE DEF new
  <2>5. TypeOK'
    BY <1>t, <1>u, <2>2, <2>3, <2>4 DEF TypeOK, CallerType
  <2>6. InHandInv'
    BY <1>t, <1>u, <2>2, <2>3, <2>4 DEF InHandInv
  <2>7. CopiesInv'
    BY <1>t, <1>u, <2>2, <2>3, <2>4 DEF CopiesInv, Arrived
  <2>8. SentInv'
    BY <1>t, <1>u, <2>2, <2>3, <2>4 DEF SentInv, SentArrived, Arrived
  <2>9. PostsInv'
    BY <1>t, <1>u, <2>2, <2>3, <2>4 DEF PostsInv, AttemptsInv
  <2>10. AttemptsInv'
    BY <1>t, <1>u, <2>2, <2>3, <2>4 DEF PostsInv, AttemptsInv
  <2> QED BY <2>5, <2>6, <2>7, <2>8, <2>9, <2>10 DEF IInv
<1>5. ASSUME StaleSending PROVE IInv'
  <2> DEFINE K == {k \in Keys : row[k].status = "sending" /\ row[k].stale}
  <2>1. /\ UNCHANGED <<row, channel, caller, used, crashes, faults, lost, posts, copies>>
        /\ loop' = [pc |-> "reclaim", batch |-> Found(K), hand |-> {}] /\ loop.hand = {}
    BY <1>t, <1>5 DEF StaleSending, LoopAt, Round, InHandInv
  <2>2. /\ Found(K) \subseteq Snapshot
        /\ \A r \in Found(K) : r.key \in K /\ r.attempts = row[r.key].attempts
        /\ \A r, s \in Found(K) : r.key = s.key => r = s
    BY <1>t, FoundRows
  <2>3. loop'.pc = "reclaim" /\ loop'.hand = {} /\ loop'.batch = Found(K)
    BY <2>1
  <2>4. TypeOK'
    BY <1>t, <1>u, <2>1, <2>2, <2>3 DEF TypeOK, LoopType
  <2>5. InHandInv'
    BY <1>t, <1>u, <2>1, <2>2, <2>3 DEF InHandInv
  <2>6. CopiesInv'
    BY <1>t, <1>u, <2>1, <2>2, <2>3 DEF CopiesInv, Arrived
  <2>7. SentInv'
    BY <1>t, <1>u, <2>1, <2>2, <2>3 DEF SentInv, SentArrived, Arrived
  <2>8. PostsInv'
    BY <1>t, <1>u, <2>1, <2>2, <2>3 DEF PostsInv, AttemptsInv
  <2>9. AttemptsInv'
    BY <1>t, <1>u, <2>1, <2>2, <2>3 DEF PostsInv, AttemptsInv
  <2> QED BY <2>4, <2>5, <2>6, <2>7, <2>8, <2>9 DEF IInv
<1>6. ASSUME Pending PROVE IInv'
  <2> DEFINE K == {k \in Keys : row[k].status = "pending" /\ row[k].due}
  <2>1. /\ UNCHANGED <<row, channel, caller, used, crashes, faults, lost, posts, copies>>
        /\ loop' = [pc |-> "rows", batch |-> Found(K), hand |-> {}] /\ loop.hand = {}
    BY <1>t, <1>6 DEF Pending, LoopAt, Round, InHandInv
  <2>2. /\ Found(K) \subseteq Snapshot
        /\ \A r \in Found(K) : r.key \in K /\ r.attempts = row[r.key].attempts
        /\ \A r, s \in Found(K) : r.key = s.key => r = s
    BY <1>t, FoundRows
  <2>3. loop'.pc = "rows" /\ loop'.hand = {} /\ loop'.batch = Found(K)
    BY <2>1
  <2>4. TypeOK'
    BY <1>t, <1>u, <2>1, <2>2, <2>3 DEF TypeOK, LoopType
  <2>5. InHandInv'
    BY <1>t, <1>u, <2>1, <2>2, <2>3 DEF InHandInv
  <2>6. CopiesInv'
    BY <1>t, <1>u, <2>1, <2>2, <2>3 DEF CopiesInv, Arrived
  <2>7. SentInv'
    BY <1>t, <1>u, <2>1, <2>2, <2>3 DEF SentInv, SentArrived, Arrived
  <2>8. PostsInv'
    BY <1>t, <1>u, <2>1, <2>2, <2>3 DEF PostsInv, AttemptsInv
  <2>9. AttemptsInv'
    BY <1>t, <1>u, <2>1, <2>2, <2>3 DEF PostsInv, AttemptsInv
  <2> QED BY <2>4, <2>5, <2>6, <2>7, <2>8, <2>9 DEF IInv
<1>7. ASSUME NEW r \in loop.batch, Reclaim(r) PROVE IInv'
  <2> DEFINE k == r.key
             new == Reclaimed(k, r.attempts + 1)
  <2>1. /\ k \in Keys /\ r \in Snapshot /\ r.attempts = row[k].attempts
        /\ r.attempts < MaxAttempts(k) /\ copies[k] <= Mishaps /\ posts[k] <= r.attempts + faults + 1
    BY <1>t, <1>u, <1>7 DEF AttemptsInv, CopiesInv, Reclaim, LoopAt
  <2>2. /\ new \in Row /\ new.attempts = r.attempts + 1
        /\ \/ new.status = "failed" /\ r.attempts + 1 <= MaxAttempts(k)
           \/ new.status = "pending" /\ r.attempts + 1 < MaxAttempts(k)
    <3>1. row[k] \in Row /\ r.attempts + 1 \in Nat /\ r.attempts + 1 <= MaxAttempts(k)
      BY <1>u, <2>1
    <3>2. CASE r.attempts + 1 >= MaxAttempts(k)
      BY <1>u, <3>1, <3>2 DEF Row, Reclaimed
    <3>3. CASE ~(r.attempts + 1 >= MaxAttempts(k))
      <4>1. r.attempts + 1 < MaxAttempts(k)
        BY <1>u, <2>1, <3>3
      <4>2. new = [row[k] EXCEPT !.status = "pending", !.attempts = r.attempts + 1,
                                 !.due = TRUE, !.stale = FALSE]
        BY <3>3 DEF Reclaimed
      <4> QED BY <3>1, <4>1, <4>2 DEF Row
    <3> QED BY <3>2, <3>3
  <2>3. /\ row' \in [Keys -> Row] /\ \A j \in Keys \ {k} : row'[j] = row[j]
        /\ \/ row'[k] = new /\ faults' = faults
           \/ row'[k] = row[k] /\ faults' = faults + 1
    BY <1>t, <1>7, <2>1, <2>2, WriteRow DEF Reclaim
  <2>4. /\ loop.hand = {} /\ loop'.hand = {} /\ loop.pc = "reclaim" /\ loop'.pc = "reclaim"
        /\ loop'.batch = loop.batch \ {r} /\ loop' \in LoopType
        /\ \A s \in loop'.batch : s.key # k
        /\ UNCHANGED <<channel, caller, used, crashes, lost, posts, copies>>
    BY <1>t, <1>7 DEF Reclaim, LoopAt, InHandInv, TypeOK, LoopType
  <2> HIDE DEF new
  <2>5. TypeOK'
    BY <1>t, <1>u, <2>1, <2>2, <2>3, <2>4 DEF TypeOK, LoopType
  <2>6. InHandInv'
    BY <1>t, <1>u, <2>1, <2>2, <2>3, <2>4 DEF InHandInv
  <2>7. CopiesInv'
    BY <1>t, <1>u, <2>1, <2>2, <2>3, <2>4 DEF CopiesInv, Arrived
  <2>8. SentInv'
    BY <1>t, <1>u, <2>1, <2>2, <2>3, <2>4 DEF SentInv, SentArrived, Arrived
  <2>9. PostsInv'
    BY <1>t, <1>u, <2>1, <2>2, <2>3, <2>4 DEF PostsInv, AttemptsInv
  <2>10. AttemptsInv'
    BY <1>t, <1>u, <2>1, <2>2, <2>3, <2>4 DEF PostsInv, AttemptsInv
  <2> QED BY <2>5, <2>6, <2>7, <2>8, <2>9, <2>10 DEF IInv
<1>8. ASSUME NEW r \in loop.batch, Take(r) PROVE IInv'
  <2>1. /\ loop.pc = "rows" /\ loop.hand = {} /\ loop'.batch = loop.batch \ {r} /\ loop' \in LoopType
        /\ \/ loop'.hand = {} /\ loop'.pc = "rows"
           \/ loop'.hand = {r} /\ loop'.pc \in {"fail", "skip", "settle", "mark"}
        /\ UNCHANGED <<row, channel, caller, crashes, faults, lost, posts, copies>>
    BY <1>t, <1>8 DEF Take, InHand, LoopAt, TypeOK, LoopType
  <2>2. /\ r \in Snapshot /\ used' \in [Channels -> 0..Limit]
        /\ \A s \in loop'.batch : s.key # r.key
    BY <1>t, <1>u, <1>8, <2>1 DEF Take, InHand, TypeOK, InHandInv, Snapshot
  <2>3. TypeOK'
    BY <1>t, <1>u, <2>1, <2>2 DEF TypeOK, LoopType
  <2>4. InHandInv'
    BY <1>t, <1>u, <2>1, <2>2 DEF InHandInv
  <2>5. CopiesInv'
    BY <1>t, <1>u, <2>1, <2>2 DEF CopiesInv, Arrived
  <2>6. SentInv'
    BY <1>t, <1>u, <2>1, <2>2 DEF SentInv, SentArrived, Arrived
  <2>7. PostsInv'
    BY <1>t, <1>u, <2>1, <2>2 DEF PostsInv, AttemptsInv
  <2>8. AttemptsInv'
    BY <1>t, <1>u, <2>1, <2>2 DEF PostsInv, AttemptsInv
  <2> QED BY <2>3, <2>4, <2>5, <2>6, <2>7, <2>8 DEF IInv
<1>9. ASSUME MarkFailed PROVE IInv'
  <2>1. PICK r \in loop.hand : Write(r.key, [row[r.key] EXCEPT !.status = "failed", !.attempts = r.attempts + 1])
    BY <1>9 DEF MarkFailed, HandWrite
  <2> DEFINE k == r.key
             new == [row[r.key] EXCEPT !.status = "failed", !.attempts = r.attempts + 1]
  <2>2. /\ loop.pc = "fail" /\ loop'.pc = "rows" /\ loop.hand = {r} /\ r \in Snapshot /\ k \in Keys
        /\ loop'.hand = {} /\ loop'.batch = loop.batch /\ loop' \in LoopType
        /\ \A s \in loop.batch : s.key # k
        /\ UNCHANGED <<channel, caller, used, crashes, lost, posts, copies>>
    <3>1. loop.pc = "fail" /\ loop.hand = {r} /\ r \in Snapshot /\ k \in Keys
      BY <1>t, <1>u, <1>9, <2>1 DEF MarkFailed, HandWrite, LoopAt, InHandInv
    <3>2. \A s \in loop.batch : s.key # k
      BY <1>t, <2>1 DEF InHandInv
    <3>3. /\ loop' = [loop EXCEPT !.pc = "rows", !.hand = {}]
          /\ UNCHANGED <<channel, caller, used, crashes, lost, posts, copies>>
      BY <1>9 DEF MarkFailed, HandWrite
    <3> QED BY <1>t, <3>1, <3>2, <3>3 DEF TypeOK, LoopType
  <2>3. /\ r.attempts = row[k].attempts /\ r.attempts < MaxAttempts(k)
        /\ copies[k] <= Mishaps /\ posts[k] <= r.attempts + faults
    BY <1>t, <1>u, <2>2 DEF AttemptsInv, CopiesInv, SentInv, Arrived
  <2>4. new \in Row /\ new.status = "failed" /\ new.attempts = r.attempts + 1
    <3>1. row[k] \in Row /\ r.attempts + 1 \in Nat /\ r.attempts + 1 <= MaxAttempts(k)
      BY <1>u, <2>2, <2>3
    <3> QED BY <1>u, <2>2, <3>1 DEF Row
  <2>5. /\ row' \in [Keys -> Row] /\ \A j \in Keys \ {k} : row'[j] = row[j]
        /\ \/ row'[k] = new /\ faults' = faults
           \/ row'[k] = row[k] /\ faults' = faults + 1
    BY <1>t, <2>1, <2>2, <2>4, WriteRow
  <2> HIDE DEF new
  <2>6. TypeOK'
    BY <1>t, <1>u, <2>2, <2>3, <2>4, <2>5 DEF TypeOK, LoopType
  <2>7. InHandInv'
    BY <1>t, <1>u, <2>2, <2>3, <2>4, <2>5 DEF InHandInv
  <2>8. CopiesInv'
    BY <1>t, <1>u, <2>2, <2>3, <2>4, <2>5 DEF CopiesInv, Arrived
  <2>9. SentInv'
    BY <1>t, <1>u, <2>2, <2>3, <2>4, <2>5 DEF SentInv, SentArrived, Arrived
  <2>10. PostsInv'
    BY <1>t, <1>u, <2>2, <2>3, <2>4, <2>5 DEF PostsInv, AttemptsInv
  <2>11. AttemptsInv'
    BY <1>t, <1>u, <2>2, <2>3, <2>4, <2>5 DEF PostsInv, AttemptsInv
  <2> QED BY <2>6, <2>7, <2>8, <2>9, <2>10, <2>11 DEF IInv
<1>10. ASSUME MarkSkipped PROVE IInv'
  <2>1. PICK r \in loop.hand : Write(r.key, [row[r.key] EXCEPT !.status = "skipped"])
    BY <1>10 DEF MarkSkipped, HandWrite
  <2> DEFINE k == r.key
             new == [row[r.key] EXCEPT !.status = "skipped"]
  <2>2. /\ loop.pc = "skip" /\ loop'.pc = "rows" /\ loop.hand = {r} /\ r \in Snapshot /\ k \in Keys
        /\ loop'.hand = {} /\ loop'.batch = loop.batch /\ loop' \in LoopType
        /\ \A s \in loop.batch : s.key # k
        /\ UNCHANGED <<channel, caller, used, crashes, lost, posts, copies>>
    <3>1. loop.pc = "skip" /\ loop.hand = {r} /\ r \in Snapshot /\ k \in Keys
      BY <1>t, <1>u, <1>10, <2>1 DEF MarkSkipped, HandWrite, LoopAt, InHandInv
    <3>2. \A s \in loop.batch : s.key # k
      BY <1>t, <2>1 DEF InHandInv
    <3>3. /\ loop' = [loop EXCEPT !.pc = "rows", !.hand = {}]
          /\ UNCHANGED <<channel, caller, used, crashes, lost, posts, copies>>
      BY <1>10 DEF MarkSkipped, HandWrite
    <3> QED BY <1>t, <3>1, <3>2, <3>3 DEF TypeOK, LoopType
  <2>3. /\ r.attempts = row[k].attempts /\ r.attempts < MaxAttempts(k)
        /\ copies[k] <= Mishaps /\ posts[k] <= r.attempts + faults
    BY <1>t, <1>u, <2>2 DEF AttemptsInv, CopiesInv, SentInv, Arrived
  <2>4. new \in Row /\ new.status = "skipped" /\ new.attempts = row[k].attempts
    <3>1. row[k] \in Row /\ r.attempts + 1 \in Nat /\ r.attempts + 1 <= MaxAttempts(k)
      BY <1>u, <2>2, <2>3
    <3> QED BY <1>u, <2>2, <3>1 DEF Row
  <2>5. /\ row' \in [Keys -> Row] /\ \A j \in Keys \ {k} : row'[j] = row[j]
        /\ \/ row'[k] = new /\ faults' = faults
           \/ row'[k] = row[k] /\ faults' = faults + 1
    BY <1>t, <2>1, <2>2, <2>4, WriteRow
  <2> HIDE DEF new
  <2>6. TypeOK'
    BY <1>t, <1>u, <2>2, <2>3, <2>4, <2>5 DEF TypeOK, LoopType
  <2>7. InHandInv'
    BY <1>t, <1>u, <2>2, <2>3, <2>4, <2>5 DEF InHandInv
  <2>8. CopiesInv'
    BY <1>t, <1>u, <2>2, <2>3, <2>4, <2>5 DEF CopiesInv, Arrived
  <2>9. SentInv'
    BY <1>t, <1>u, <2>2, <2>3, <2>4, <2>5 DEF SentInv, SentArrived, Arrived
  <2>10. PostsInv'
    BY <1>t, <1>u, <2>2, <2>3, <2>4, <2>5 DEF PostsInv, AttemptsInv
  <2>11. AttemptsInv'
    BY <1>t, <1>u, <2>2, <2>3, <2>4, <2>5 DEF PostsInv, AttemptsInv
  <2> QED BY <2>6, <2>7, <2>8, <2>9, <2>10, <2>11 DEF IInv
<1>11. ASSUME MarkSending PROVE IInv'
  <2>1. PICK r \in loop.hand : Write(r.key, [row[r.key] EXCEPT !.status = "sending", !.stale = FALSE])
    BY <1>11 DEF MarkSending, HandWrite
  <2> DEFINE k == r.key
             new == [row[r.key] EXCEPT !.status = "sending", !.stale = FALSE]
  <2>2. /\ loop.pc = "mark" /\ loop'.pc = "post" /\ loop.hand = {r} /\ r \in Snapshot /\ k \in Keys
        /\ loop'.hand = {r} /\ loop'.batch = loop.batch /\ loop' \in LoopType
        /\ \A s \in loop.batch : s.key # k
        /\ UNCHANGED <<channel, caller, used, crashes, lost, posts, copies>>
    <3>1. loop.pc = "mark" /\ loop.hand = {r} /\ r \in Snapshot /\ k \in Keys
      BY <1>t, <1>u, <1>11, <2>1 DEF MarkSending, HandWrite, LoopAt, InHandInv
    <3>2. \A s \in loop.batch : s.key # k
      BY <1>t, <2>1 DEF InHandInv
    <3>3. /\ loop' = [loop EXCEPT !.pc = "post", !.hand = @]
          /\ UNCHANGED <<channel, caller, used, crashes, lost, posts, copies>>
      BY <1>11 DEF MarkSending, HandWrite
    <3> QED BY <1>t, <3>1, <3>2, <3>3 DEF TypeOK, LoopType
  <2>3. /\ r.attempts = row[k].attempts /\ r.attempts < MaxAttempts(k)
        /\ copies[k] <= Mishaps /\ posts[k] <= r.attempts + faults
    BY <1>t, <1>u, <2>2 DEF AttemptsInv, CopiesInv, SentInv, Arrived
  <2>4. new \in Row /\ new.status = "sending" /\ new.attempts = row[k].attempts
    <3>1. row[k] \in Row /\ r.attempts + 1 \in Nat /\ r.attempts + 1 <= MaxAttempts(k)
      BY <1>u, <2>2, <2>3
    <3> QED BY <1>u, <2>2, <3>1 DEF Row
  <2>5. /\ row' \in [Keys -> Row] /\ \A j \in Keys \ {k} : row'[j] = row[j]
        /\ \/ row'[k] = new /\ faults' = faults
           \/ row'[k] = row[k] /\ faults' = faults + 1
    BY <1>t, <2>1, <2>2, <2>4, WriteRow
  <2> HIDE DEF new
  <2>6. TypeOK'
    BY <1>t, <1>u, <2>2, <2>3, <2>4, <2>5 DEF TypeOK, LoopType
  <2>7. InHandInv'
    BY <1>t, <1>u, <2>2, <2>3, <2>4, <2>5 DEF InHandInv
  <2>8. CopiesInv'
    BY <1>t, <1>u, <2>2, <2>3, <2>4, <2>5 DEF CopiesInv, Arrived
  <2>9. SentInv'
    BY <1>t, <1>u, <2>2, <2>3, <2>4, <2>5 DEF SentInv, SentArrived, Arrived
  <2>10. PostsInv'
    BY <1>t, <1>u, <2>2, <2>3, <2>4, <2>5 DEF PostsInv, AttemptsInv
  <2>11. AttemptsInv'
    BY <1>t, <1>u, <2>2, <2>3, <2>4, <2>5 DEF PostsInv, AttemptsInv
  <2> QED BY <2>6, <2>7, <2>8, <2>9, <2>10, <2>11 DEF IInv
<1>12. ASSUME Post PROVE IInv'
  <2>1. PICK r \in loop.hand :
          /\ posts' = [posts EXCEPT ![r.key] = @ + 1]
          /\ \/ /\ loop' = [loop EXCEPT !.pc = "sent"] /\ lost' = lost
                /\ copies' = [copies EXCEPT ![r.key] = @ + 1]
             \/ /\ loop' = [loop EXCEPT !.pc = "settle"] /\ lost' = lost
                /\ UNCHANGED copies
             \/ /\ loop' = [loop EXCEPT !.pc = "settle"] /\ lost' = lost + 1
                /\ copies' = [copies EXCEPT ![r.key] = @ + 1]
    BY <1>12 DEF Post
  <2> DEFINE k == r.key
  <2>2. /\ loop.pc = "post" /\ loop.hand = {r} /\ loop'.hand = {r} /\ loop'.batch = loop.batch
        /\ loop' \in LoopType /\ r \in Snapshot /\ k \in Keys
        /\ \A s \in loop.batch : s.key # k
        /\ UNCHANGED <<row, channel, caller, used, crashes, faults>>
    BY <1>t, <1>u, <1>12, <2>1 DEF Post, LoopAt, InHandInv, TypeOK, LoopType
  <2>3. /\ posts' \in [Keys -> Nat] /\ posts'[k] = posts[k] + 1
        /\ \A j \in Keys \ {k} : posts'[j] = posts[j] /\ copies'[j] = copies[j]
        /\ copies' \in [Keys -> Nat] /\ lost' \in Nat
        /\ \/ loop'.pc = "sent" /\ lost' = lost /\ copies'[k] = copies[k] + 1
           \/ loop'.pc = "settle" /\ lost' = lost /\ copies'[k] = copies[k]
           \/ loop'.pc = "settle" /\ lost' = lost + 1 /\ copies'[k] = copies[k] + 1
    BY <1>t, <2>1, <2>2 DEF TypeOK, LoopType
  <2>4. /\ r.attempts = row[k].attempts /\ r.attempts < MaxAttempts(k)
        /\ copies[k] <= Mishaps /\ posts[k] <= r.attempts + faults
        /\ row[k].status = "pending" => posts[k] + 1 <= r.attempts + faults
        /\ row[k].status # "none"
    BY <1>t, <1>u, <2>2 DEF AttemptsInv, CopiesInv, InHandInv
  <2>5. TypeOK'
    BY <1>t, <1>u, <2>2, <2>3, <2>4 DEF TypeOK, LoopType
  <2>6. InHandInv'
    BY <1>t, <1>u, <2>2, <2>3, <2>4 DEF InHandInv
  <2>7. CopiesInv'
    BY <1>t, <1>u, <2>2, <2>3, <2>4 DEF CopiesInv, Arrived
  <2>8. SentInv'
    BY <1>t, <1>u, <2>2, <2>3, <2>4 DEF SentInv, SentArrived, Arrived
  <2>9. PostsInv'
    BY <1>t, <1>u, <2>2, <2>3, <2>4 DEF PostsInv, AttemptsInv
  <2>10. AttemptsInv'
    BY <1>t, <1>u, <2>2, <2>3, <2>4 DEF PostsInv, AttemptsInv
  <2> QED BY <2>5, <2>6, <2>7, <2>8, <2>9, <2>10 DEF IInv
<1>13. ASSUME MarkSent PROVE IInv'
  <2>1. PICK r \in loop.hand : Write(r.key, [row[r.key] EXCEPT !.status = "sent", !.attempts = r.attempts + 1])
    BY <1>13 DEF MarkSent, Sent, HandWrite
  <2> DEFINE k == r.key
             new == [row[r.key] EXCEPT !.status = "sent", !.attempts = r.attempts + 1]
  <2>2. /\ loop.pc = "sent" /\ loop'.pc = "rows" /\ loop.hand = {r} /\ r \in Snapshot /\ k \in Keys
        /\ loop'.hand = {} /\ loop'.batch = loop.batch /\ loop' \in LoopType
        /\ \A s \in loop.batch : s.key # k
        /\ UNCHANGED <<channel, caller, used, crashes, lost, posts, copies>>
    <3>1. loop.pc = "sent" /\ loop.hand = {r} /\ r \in Snapshot /\ k \in Keys
      BY <1>t, <1>u, <1>13, <2>1 DEF MarkSent, Sent, HandWrite, LoopAt, InHandInv
    <3>2. \A s \in loop.batch : s.key # k
      BY <1>t, <2>1 DEF InHandInv
    <3>3. /\ loop' = [loop EXCEPT !.pc = "rows", !.hand = {}]
          /\ UNCHANGED <<channel, caller, used, crashes, lost, posts, copies>>
      BY <1>13 DEF MarkSent, Sent, HandWrite
    <3> QED BY <1>t, <3>1, <3>2, <3>3 DEF TypeOK, LoopType
  <2>3. /\ r.attempts = row[k].attempts /\ r.attempts < MaxAttempts(k)
        /\ copies[k] > 0 /\ copies[k] <= 1 + Mishaps /\ posts[k] <= r.attempts + faults + 1
    BY <1>t, <1>u, <2>2 DEF AttemptsInv, CopiesInv, SentInv, Arrived
  <2>4. new \in Row /\ new.status = "sent" /\ new.attempts = r.attempts + 1
    <3>1. row[k] \in Row /\ r.attempts + 1 \in Nat /\ r.attempts + 1 <= MaxAttempts(k)
      BY <1>u, <2>2, <2>3
    <3> QED BY <1>u, <2>2, <3>1 DEF Row
  <2>5. /\ row' \in [Keys -> Row] /\ \A j \in Keys \ {k} : row'[j] = row[j]
        /\ \/ row'[k] = new /\ faults' = faults
           \/ row'[k] = row[k] /\ faults' = faults + 1
    BY <1>t, <2>1, <2>2, <2>4, WriteRow
  <2> HIDE DEF new
  <2>6. TypeOK'
    BY <1>t, <1>u, <2>2, <2>3, <2>4, <2>5 DEF TypeOK, LoopType
  <2>7. InHandInv'
    BY <1>t, <1>u, <2>2, <2>3, <2>4, <2>5 DEF InHandInv
  <2>8. CopiesInv'
    BY <1>t, <1>u, <2>2, <2>3, <2>4, <2>5 DEF CopiesInv, Arrived
  <2>9. SentInv'
    BY <1>t, <1>u, <2>2, <2>3, <2>4, <2>5 DEF SentInv, SentArrived, Arrived
  <2>10. PostsInv'
    BY <1>t, <1>u, <2>2, <2>3, <2>4, <2>5 DEF PostsInv, AttemptsInv
  <2>11. AttemptsInv'
    BY <1>t, <1>u, <2>2, <2>3, <2>4, <2>5 DEF PostsInv, AttemptsInv
  <2> QED BY <2>6, <2>7, <2>8, <2>9, <2>10, <2>11 DEF IInv
<1>14. ASSUME Settle PROVE IInv'
  <2>1. PICK r \in loop.hand : Write(r.key, Settled(r.key, r.attempts + 1))
    BY <1>14 DEF Settle, HandWrite
  <2> DEFINE k == r.key
             new == Settled(r.key, r.attempts + 1)
  <2>2. /\ loop.pc = "settle" /\ loop'.pc = "rows" /\ loop.hand = {r} /\ r \in Snapshot /\ k \in Keys
        /\ loop'.hand = {} /\ loop'.batch = loop.batch /\ loop' \in LoopType
        /\ \A s \in loop.batch : s.key # k
        /\ UNCHANGED <<channel, caller, used, crashes, lost, posts, copies>>
    <3>1. loop.pc = "settle" /\ loop.hand = {r} /\ r \in Snapshot /\ k \in Keys
      BY <1>t, <1>u, <1>14, <2>1 DEF Settle, HandWrite, LoopAt, InHandInv
    <3>2. \A s \in loop.batch : s.key # k
      BY <1>t, <2>1 DEF InHandInv
    <3>3. /\ loop' = [loop EXCEPT !.pc = "rows", !.hand = {}]
          /\ UNCHANGED <<channel, caller, used, crashes, lost, posts, copies>>
      BY <1>14 DEF Settle, HandWrite
    <3> QED BY <1>t, <3>1, <3>2, <3>3 DEF TypeOK, LoopType
  <2>3. /\ r.attempts = row[k].attempts /\ r.attempts < MaxAttempts(k)
        /\ copies[k] <= Mishaps /\ posts[k] <= r.attempts + faults + 1
    BY <1>t, <1>u, <2>2 DEF AttemptsInv, CopiesInv, SentInv, Arrived
  <2>4. /\ new \in Row /\ new.attempts = r.attempts + 1
        /\ \/ new.status = "failed" /\ r.attempts + 1 <= MaxAttempts(k)
           \/ new.status = "pending" /\ r.attempts + 1 < MaxAttempts(k)
    <3>1. row[k] \in Row /\ r.attempts + 1 \in Nat /\ r.attempts + 1 <= MaxAttempts(k)
      BY <1>u, <2>2, <2>3
    <3>2. CASE r.attempts + 1 >= MaxAttempts(k)
      BY <1>u, <2>2, <3>1, <3>2 DEF Row, Settled
    <3>3. CASE ~(r.attempts + 1 >= MaxAttempts(k))
      <4>1. r.attempts + 1 < MaxAttempts(k)
        BY <1>u, <2>2, <2>3, <3>3
      <4>2. new = [row[k] EXCEPT !.status = "pending", !.attempts = r.attempts + 1, !.due = FALSE]
        BY <3>3 DEF Settled
      <4> QED BY <3>1, <4>1, <4>2 DEF Row
    <3> QED BY <3>2, <3>3
  <2>5. /\ row' \in [Keys -> Row] /\ \A j \in Keys \ {k} : row'[j] = row[j]
        /\ \/ row'[k] = new /\ faults' = faults
           \/ row'[k] = row[k] /\ faults' = faults + 1
    BY <1>t, <2>1, <2>2, <2>4, WriteRow
  <2> HIDE DEF new
  <2>6. TypeOK'
    BY <1>t, <1>u, <2>2, <2>3, <2>4, <2>5 DEF TypeOK, LoopType
  <2>7. InHandInv'
    BY <1>t, <1>u, <2>2, <2>3, <2>4, <2>5 DEF InHandInv
  <2>8. CopiesInv'
    BY <1>t, <1>u, <2>2, <2>3, <2>4, <2>5 DEF CopiesInv, Arrived
  <2>9. SentInv'
    BY <1>t, <1>u, <2>2, <2>3, <2>4, <2>5 DEF SentInv, SentArrived, Arrived
  <2>10. PostsInv'
    BY <1>t, <1>u, <2>2, <2>3, <2>4, <2>5 DEF PostsInv, AttemptsInv
  <2>11. AttemptsInv'
    BY <1>t, <1>u, <2>2, <2>3, <2>4, <2>5 DEF PostsInv, AttemptsInv
  <2> QED BY <2>6, <2>7, <2>8, <2>9, <2>10, <2>11 DEF IInv
<1>15. ASSUME Purge PROVE IInv'
  <2>1. PICK old \in SUBSET {k \in Keys : row[k].status \in Finished} :
          row' = [k \in Keys |-> IF k \in old THEN [row[k] EXCEPT !.status = "purged"] ELSE row[k]]
    BY <1>15 DEF Purge
  <2>2. \A k \in Keys : row[k] \in Row
    BY <1>t DEF TypeOK
  <2>3. \A k \in Keys : /\ row'[k] \in Row /\ row'[k].attempts = row[k].attempts
                        /\ \/ row'[k] = row[k]
                           \/ row[k].status \in Finished /\ row'[k].status = "purged"
    BY <2>1, <2>2 DEF Row
  <2>4. row' \in [Keys -> Row]
    BY <2>1, <2>3
  <2>5. /\ loop'.hand = {} /\ loop'.batch = {} /\ loop'.pc = "requeue" /\ loop' \in LoopType
        /\ UNCHANGED <<channel, caller, used, crashes, faults, lost, posts, copies>>
        /\ loop.hand = {}
    BY <1>15 DEF Purge, Round, LoopType
  <2>6. TypeOK'
    BY <1>t, <1>u, <2>3, <2>4, <2>5 DEF TypeOK, LoopType
  <2>7. InHandInv'
    BY <1>t, <1>u, <2>3, <2>4, <2>5 DEF InHandInv
  <2>8. CopiesInv'
    BY <1>t, <1>u, <2>3, <2>4, <2>5 DEF CopiesInv, Arrived
  <2>9. SentInv'
    BY <1>t, <1>u, <2>3, <2>4, <2>5 DEF SentInv, SentArrived, Arrived
  <2>10. PostsInv'
    BY <1>t, <1>u, <2>3, <2>4, <2>5 DEF PostsInv, AttemptsInv
  <2>11. AttemptsInv'
    BY <1>t, <1>u, <2>3, <2>4, <2>5 DEF PostsInv, AttemptsInv
  <2> QED BY <2>6, <2>7, <2>8, <2>9, <2>10, <2>11 DEF IInv
<1>16. ASSUME NEW k \in Keys, Due(k) PROVE IInv'
  <2> DEFINE new == [row[k] EXCEPT !.due = TRUE]
  <2>1. row[k] \in Row
    BY <1>t DEF TypeOK
  <2>2. new \in Row /\ new.status = row[k].status /\ new.attempts = row[k].attempts
    BY <2>1 DEF Row
  <2>3. /\ row' = [row EXCEPT ![k] = new]
        /\ UNCHANGED <<channel, caller, loop, used, crashes, faults, lost, posts, copies>>
    BY <1>16 DEF Due
  <2>4. /\ row' \in [Keys -> Row]
        /\ \A j \in Keys : row'[j].status = row[j].status /\ row'[j].attempts = row[j].attempts
    BY <1>t, <2>2, <2>3 DEF TypeOK
  <2> HIDE DEF new
  <2>5. TypeOK'
    BY <1>t, <1>u, <2>3, <2>4 DEF TypeOK
  <2>6. InHandInv'
    BY <1>t, <1>u, <2>3, <2>4 DEF InHandInv
  <2>7. CopiesInv'
    BY <1>t, <1>u, <2>3, <2>4 DEF CopiesInv, Arrived
  <2>8. SentInv'
    BY <1>t, <1>u, <2>3, <2>4 DEF SentInv, SentArrived, Arrived
  <2>9. PostsInv'
    BY <1>t, <1>u, <2>3, <2>4 DEF PostsInv, AttemptsInv
  <2>10. AttemptsInv'
    BY <1>t, <1>u, <2>3, <2>4 DEF PostsInv, AttemptsInv
  <2> QED BY <2>5, <2>6, <2>7, <2>8, <2>9, <2>10 DEF IInv
<1>17. ASSUME NEW k \in Keys, Stale(k) PROVE IInv'
  <2> DEFINE new == [row[k] EXCEPT !.stale = TRUE]
  <2>1. row[k] \in Row
    BY <1>t DEF TypeOK
  <2>2. new \in Row /\ new.status = row[k].status /\ new.attempts = row[k].attempts
    BY <2>1 DEF Row
  <2>3. /\ row' = [row EXCEPT ![k] = new]
        /\ UNCHANGED <<channel, caller, loop, used, crashes, faults, lost, posts, copies>>
    BY <1>17 DEF Stale
  <2>4. /\ row' \in [Keys -> Row]
        /\ \A j \in Keys : row'[j].status = row[j].status /\ row'[j].attempts = row[j].attempts
    BY <1>t, <2>2, <2>3 DEF TypeOK
  <2> HIDE DEF new
  <2>5. TypeOK'
    BY <1>t, <1>u, <2>3, <2>4 DEF TypeOK
  <2>6. InHandInv'
    BY <1>t, <1>u, <2>3, <2>4 DEF InHandInv
  <2>7. CopiesInv'
    BY <1>t, <1>u, <2>3, <2>4 DEF CopiesInv, Arrived
  <2>8. SentInv'
    BY <1>t, <1>u, <2>3, <2>4 DEF SentInv, SentArrived, Arrived
  <2>9. PostsInv'
    BY <1>t, <1>u, <2>3, <2>4 DEF PostsInv, AttemptsInv
  <2>10. AttemptsInv'
    BY <1>t, <1>u, <2>3, <2>4 DEF PostsInv, AttemptsInv
  <2> QED BY <2>5, <2>6, <2>7, <2>8, <2>9, <2>10 DEF IInv
<1>18. ASSUME NEW c \in Channels, WindowMoves(c) PROVE IInv'
  <2>1. UNCHANGED <<row, loop, crashes, faults, lost, posts, copies>>
    BY <1>18 DEF WindowMoves
  <2>2. TypeOK'
    BY <1>t, <1>18, <2>1 DEF TypeOK, CallerType, WindowMoves
  <2> QED BY <1>t, <2>1, <2>2 DEF IInv, InHandInv, CopiesInv, Arrived, SentInv, SentArrived, PostsInv, AttemptsInv
<1>19. ASSUME NEW c \in Channels, ChangeChannel(c) PROVE IInv'
  <2>1. UNCHANGED <<row, loop, crashes, faults, lost, posts, copies>>
    BY <1>19 DEF ChangeChannel
  <2>2. TypeOK'
    BY <1>t, <1>19, <2>1 DEF TypeOK, CallerType, ChangeChannel
  <2> QED BY <1>t, <2>1, <2>2 DEF IInv, InHandInv, CopiesInv, Arrived, SentInv, SentArrived, PostsInv, AttemptsInv
<1>20. ASSUME Crash PROVE IInv'
  <2>1. /\ crashes' = crashes + 1 /\ UNCHANGED <<row, channel, faults, lost, posts, copies>>
        /\ loop' \in LoopType /\ loop'.pc = "requeue" /\ loop'.hand = {} /\ loop'.batch = {}
    BY <1>20 DEF Crash, Round, LoopType
  <2>2. caller' \in [Callers -> CallerType] /\ used' \in [Channels -> 0..Limit]
    BY <1>20 DEF Crash, Resting, CallerType
  <2>3. TypeOK'
    BY <1>t, <1>u, <2>1, <2>2 DEF TypeOK, LoopType, CallerType
  <2>4. InHandInv'
    BY <1>t, <1>u, <2>1, <2>2 DEF InHandInv
  <2>5. CopiesInv'
    BY <1>t, <1>u, <2>1, <2>2 DEF CopiesInv, Arrived
  <2>6. SentInv'
    BY <1>t, <1>u, <2>1, <2>2 DEF SentInv, SentArrived, Arrived
  <2>7. PostsInv'
    BY <1>t, <1>u, <2>1, <2>2 DEF PostsInv, AttemptsInv
  <2>8. AttemptsInv'
    BY <1>t, <1>u, <2>1, <2>2 DEF PostsInv, AttemptsInv
  <2> QED BY <2>3, <2>4, <2>5, <2>6, <2>7, <2>8 DEF IInv
<1>21. CASE UNCHANGED vars
  BY <1>t, <1>21 DEF vars, TypeOK, IInv, InHandInv, CopiesInv, Arrived, SentInv, SentArrived, PostsInv, AttemptsInv
<1> QED BY <1>1, <1>2, <1>3, <1>4, <1>5, <1>6, <1>7, <1>8, <1>9, <1>10, <1>11, <1>12, <1>13, <1>14, <1>15, <1>16, <1>17, <1>18, <1>19, <1>20, <1>21 DEF Next, Enqueue, Loop

-----------------------------------------------------------------------------
\* In every behaviour the invariant holds in every state.
LEMMA AlwaysIInv == Spec => []IInv
BY InitIInv, StepIInv, PTL DEF Spec

\* Type correctness for every set of keys, channels and callers.
THEOREM TypeCorrect == Spec => []TypeOK
<1>1. IInv => TypeOK
  BY DEF IInv
<1> QED BY <1>1, AlwaysIInv, PTL

\* Every copy of a message after the first is paid for by a crash, a failed write or a
\* lost answer, whoever enqueues and however the channels change.
THEOREM DuplicatesArePaidFor == Spec => []DuplicatesNeedMishap
<1>1. IInv => DuplicatesNeedMishap
  BY DEF IInv, CopiesInv, DuplicatesNeedMishap
<1> QED BY <1>1, AlwaysIInv, PTL

\* The retry limit bounds the posts of every delivery, but for failed writes.
THEOREM RetriesAreBounded == Spec => []PostsBounded
<1>1. IInv => PostsBounded
  BY DEF IInv, PostsInv, PostsBounded
<1> QED BY <1>1, AlwaysIInv, PTL

\* A delivery on record as "sent" has arrived.
THEOREM SentMeansArrived == Spec => []SentArrived
<1>1. IInv => SentArrived
  BY DEF IInv, SentInv
<1> QED BY <1>1, AlwaysIInv, PTL

\* The three together: however many callers enqueue, however channels change and whatever
\* goes wrong, the table tells the truth about posts and copies.
THEOREM RecordIsHonest == Spec => []HonestRecord
<1>1. DuplicatesNeedMishap /\ PostsBounded /\ SentArrived => HonestRecord
  BY DEF HonestRecord
<1> QED BY <1>1, DuplicatesArePaidFor, RetriesAreBounded, SentMeansArrived, PTL

-----------------------------------------------------------------------------
(* The refinement of DeliveryLedger, while channels change only when no      *)
(* delivery is being handled.  Now something is said of the rows in hand.    *)

\* A caller goes on to the skip only with a channel that is off, and its row is then
\* beyond the loop's reach, which sends to channels that are on.
CallerInv ==
  \A c \in Callers :
    /\ caller[c].pc = "idle" => caller[c].key = {}
    /\ caller[c].pc \in {"look", "skip"} => caller[c].off
    /\ \A k \in caller[c].key :
         /\ caller[c].off => channel[ChannelOf[k]] = "off"
         /\ caller[c].pc = "skip" => row[k].status \in {"pending", "failed", "skipped"}

\* A row is still open when the loop comes to it, unless a caller has skipped it.
ReachInv ==
  /\ \A r \in loop.batch :
       \/ row[r.key].status = (IF loop.pc = "reclaim" THEN "sending" ELSE "pending")
       \/ /\ row[r.key].status = "skipped" /\ channel[ChannelOf[r.key]] = "off"
          /\ loop.pc # "reclaim"
  /\ \A r \in loop.hand :
       /\ loop.pc \in {"fail", "skip"} => row[r.key].status \in {"pending", "skipped"}
       /\ loop.pc = "skip" => channel[ChannelOf[r.key]] = "off"
       /\ loop.pc \in {"mark", "post", "sent", "settle"} =>
            row[r.key].status \in Open /\ channel[ChannelOf[r.key]] = "on"
       /\ loop.pc = "mark" => row[r.key].status = "pending"

CalmInv == IInv /\ CallerInv /\ ReachInv

\* What a write of the row in hand does to the loop and to the table.
LEMMA HandWritten ==
  ASSUME IInv, NEW at \in AtRow, NEW go \in {"rows", "post"}, NEW new, HandWrite(at, new, go),
         \A r \in loop.hand : new[r] \in Row
  PROVE  \E r \in loop.hand :
           /\ loop.pc = at /\ loop.hand = {r} /\ r.key \in Keys
           /\ loop' = [pc |-> go, batch |-> loop.batch, hand |-> IF go = "rows" THEN {} ELSE {r}]
           /\ \A s \in loop.batch : s.key # r.key
           /\ UNCHANGED <<channel, caller, used, crashes, lost, posts, copies>>
           /\ row' \in [Keys -> Row] /\ \A j \in Keys \ {r.key} : row'[j] = row[j]
           /\ \/ row'[r.key] = new[r] /\ faults' = faults
              \/ row'[r.key] = row[r.key] /\ faults' = faults + 1
<1>1. TypeOK /\ InHandInv /\ row \in [Keys -> Row]
  BY DEF IInv, TypeOK
<1>2. PICK r \in loop.hand : Write(r.key, new[r])
  BY DEF HandWrite
<1>3. loop.pc = at /\ loop.hand = {r} /\ r.key \in Keys /\ \A s \in loop.batch : s.key # r.key
  BY <1>1, <1>2 DEF HandWrite, LoopAt, InHandInv, TypeOK, LoopType, Snapshot
<1>4. /\ loop' = [loop EXCEPT !.pc = go, !.hand = IF go = "rows" THEN {} ELSE @]
      /\ UNCHANGED <<channel, caller, used, crashes, lost, posts, copies>>
  BY DEF HandWrite, history
<1>5. loop' = [pc |-> go, batch |-> loop.batch, hand |-> IF go = "rows" THEN {} ELSE {r}]
  BY <1>1, <1>3, <1>4 DEF TypeOK, LoopType
<1>6. /\ row' \in [Keys -> Row] /\ \A j \in Keys \ {r.key} : row'[j] = row[j]
      /\ \/ row'[r.key] = new[r] /\ faults' = faults
         \/ row'[r.key] = row[r.key] /\ faults' = faults + 1
  BY <1>1, <1>2, <1>3, WriteRow
<1> QED BY <1>3, <1>4, <1>5, <1>6

\* The row in hand gets one of `statuses', or the write fails.
HandEffect(at, go, statuses) ==
  \E r \in loop.hand :
    /\ loop.pc = at /\ loop.hand = {r} /\ r.key \in Keys
    /\ loop' = [pc |-> go, batch |-> loop.batch, hand |-> IF go = "rows" THEN {} ELSE {r}]
    /\ \A s \in loop.batch : s.key # r.key
    /\ UNCHANGED <<channel, caller, used, crashes, lost, posts, copies>>
    /\ row' \in [Keys -> Row] /\ \A j \in Keys \ {r.key} : row'[j] = row[j]
    /\ \/ row'[r.key].status \in statuses /\ faults' = faults
       \/ row'[r.key] = row[r.key] /\ faults' = faults + 1

LEMMA HandEffects ==
  ASSUME IInv
  PROVE  /\ MarkFailed => HandEffect("fail", "rows", {"failed"})
         /\ MarkSkipped => HandEffect("skip", "rows", {"skipped"})
         /\ MarkSending => HandEffect("mark", "post", {"sending"})
         /\ MarkSent => HandEffect("sent", "rows", {"sent"})
         /\ Settle => HandEffect("settle", "rows", {"failed", "pending"})
<1>1. \A r \in loop.hand : /\ r.key \in Keys /\ row[r.key] \in Row
                           /\ r.attempts + 1 \in Nat
  BY DEF IInv, TypeOK, LoopType, Snapshot
<1> DEFINE failed == [r \in loop.hand |-> [row[r.key] EXCEPT !.status = "failed", !.attempts = r.attempts + 1]]
           skipped == [r \in loop.hand |-> [row[r.key] EXCEPT !.status = "skipped"]]
           sending == [r \in loop.hand |-> [row[r.key] EXCEPT !.status = "sending", !.stale = FALSE]]
           settled == [r \in loop.hand |-> Settled(r.key, r.attempts + 1)]
<1>2. \A r \in loop.hand :
        /\ failed[r] \in Row /\ failed[r].status = "failed"
        /\ skipped[r] \in Row /\ skipped[r].status = "skipped"
        /\ sending[r] \in Row /\ sending[r].status = "sending"
        /\ Sent[r] \in Row /\ Sent[r].status = "sent"
  BY <1>1 DEF Sent, Row, Open, Finished
<1>3. \A r \in loop.hand : settled[r] \in Row /\ settled[r].status \in {"failed", "pending"}
  <2> SUFFICES ASSUME NEW r \in loop.hand
               PROVE  settled[r] \in Row /\ settled[r].status \in {"failed", "pending"}
    OBVIOUS
  <2>1. CASE r.attempts + 1 >= MaxAttempts(r.key)
    BY <1>1, <2>1 DEF Settled, Row, Open, Finished
  <2>2. CASE ~(r.attempts + 1 >= MaxAttempts(r.key))
    BY <1>1, <2>2 DEF Settled, Row, Open, Finished
  <2> QED BY <2>1, <2>2
<1>4. /\ MarkFailed => HandWrite("fail", failed, "rows")
      /\ MarkSkipped => HandWrite("skip", skipped, "rows")
      /\ MarkSending => HandWrite("mark", sending, "post")
      /\ MarkSent => HandWrite("sent", Sent, "rows")
      /\ Settle => HandWrite("settle", settled, "rows")
  BY DEF MarkFailed, MarkSkipped, MarkSending, MarkSent, Settle
<1> HIDE DEF failed, skipped, sending, settled
<1>5. ASSUME MarkFailed PROVE HandEffect("fail", "rows", {"failed"})
  BY <1>2, <1>4, <1>5, HandWritten DEF HandEffect, AtRow
<1>6. ASSUME MarkSkipped PROVE HandEffect("skip", "rows", {"skipped"})
  BY <1>2, <1>4, <1>6, HandWritten DEF HandEffect, AtRow
<1>7. ASSUME MarkSending PROVE HandEffect("mark", "post", {"sending"})
  BY <1>2, <1>4, <1>7, HandWritten DEF HandEffect, AtRow
<1>8. ASSUME MarkSent PROVE HandEffect("sent", "rows", {"sent"})
  BY <1>2, <1>4, <1>8, HandWritten DEF HandEffect, AtRow
<1>9. ASSUME Settle PROVE HandEffect("settle", "rows", {"failed", "pending"})
  BY <1>3, <1>4, <1>9, HandWritten DEF HandEffect, AtRow
<1> QED BY <1>5, <1>6, <1>7, <1>8, <1>9

LEMMA InitCalm == Init => CallerInv /\ ReachInv
BY DEF Init, Resting, Round, CallerInv, ReachInv

\* No step breaks it, when channels change only between deliveries.
LEMMA CalmStep ==
  ASSUME ~Races, CalmInv, [Next]_vars
  PROVE  CallerInv' /\ ReachInv'
<1> USE DEF Open, Finished, AtRest, AtRow, trouble, history
<1>t. TypeOK /\ InHandInv /\ CallerInv /\ ReachInv /\ IInv
  BY DEF CalmInv, IInv
<1>u. /\ \A c \in Callers : caller[c] \in CallerType
      /\ \A k \in Keys : row[k] \in Row
      /\ \A r \in loop.hand \cup loop.batch : r.key \in Keys /\ row[r.key].status # "none"
      /\ \A c \in Callers : \A k \in caller[c].key : k \in Keys
      /\ row \in [Keys -> Row] /\ loop \in LoopType
  BY <1>t DEF TypeOK, CallerType, LoopType, Snapshot, InHandInv
<1>1. ASSUME NEW c \in Callers, NEW k \in Keys, Resolve(c, k) PROVE CallerInv' /\ ReachInv'
  <2>1. /\ UNCHANGED <<row, channel, loop>>
        /\ caller' = [caller EXCEPT ![c] =
                  [pc |-> "insert", key |-> {k}, off |-> channel[ChannelOf[k]] = "off"]]
    BY <1>1 DEF Resolve
  <2>2. CallerInv'
    BY <1>t, <1>u, <2>1 DEF CallerInv, TypeOK
  <2> QED BY <1>t, <2>1, <2>2 DEF ReachInv
<1>2. ASSUME NEW c \in Callers, Insert(c) PROVE CallerInv' /\ ReachInv'
  <2>1. PICK k \in caller[c].key :
          \/ row[k].status = "none" /\ Write(k, Fresh)
          \/ row[k].status # "none" /\ UNCHANGED <<row, faults>>
    BY <1>2 DEF Insert
  <2>2. /\ k \in Keys
        /\ UNCHANGED <<channel, loop>> /\ caller[c].pc = "insert"
        /\ \/ caller' = [caller EXCEPT ![c] = Resting]
           \/ caller[c].off /\ caller' = [caller EXCEPT ![c] = [caller[c] EXCEPT !.pc = "look"]]
    BY <1>2, <1>u DEF Insert, CallAt
  <2>3. \A j \in Keys : row'[j].status = row[j].status \/ row[j].status = "none"
    BY <1>u, <2>1, <2>2 DEF Write
  <2>4. CallerInv'
    BY <1>t, <1>u, <2>2, <2>3 DEF CallerInv, TypeOK, CallerType, Resting
  <2>5. ReachInv'
    BY <1>t, <1>u, <2>2, <2>3 DEF ReachInv
  <2> QED BY <2>4, <2>5
<1>3. ASSUME NEW c \in Callers, Look(c) PROVE CallerInv' /\ ReachInv'
  <2>1. UNCHANGED <<row, channel, loop>>
    BY <1>3 DEF Look
  <2>2. /\ caller[c].pc = "look"
        /\ \/ caller' = [caller EXCEPT ![c] = Resting]
           \/ /\ \A k \in caller[c].key : row[k].status = "pending"
              /\ caller' = [caller EXCEPT ![c] = [caller[c] EXCEPT !.pc = "skip"]]
    BY <1>3 DEF Look, CallAt
  <2>3. CallerInv'
    BY <1>t, <1>u, <2>1, <2>2 DEF CallerInv, TypeOK, CallerType, Resting
  <2> QED BY <1>t, <2>1, <2>3 DEF ReachInv
<1>4. ASSUME NEW c \in Callers, Skip(c) PROVE CallerInv' /\ ReachInv'
  <2>1. PICK k \in caller[c].key : Write(k, [row[k] EXCEPT !.status = "skipped"])
    BY <1>4 DEF Skip
  <2>2. /\ UNCHANGED <<channel, loop>> /\ caller[c].pc = "skip"
        /\ caller' = [caller EXCEPT ![c] = Resting]
    BY <1>4 DEF Skip, CallAt
  <2>2a. \A j \in Keys : row'[j].status = row[j].status \/ (j = k /\ row'[j].status = "skipped")
    <3> DEFINE new == [row[k] EXCEPT !.status = "skipped"]
    <3>1. k \in Keys /\ new \in Row /\ new.status = "skipped" /\ Write(k, new)
      BY <1>u, <2>1 DEF Row
    <3> HIDE DEF new
    <3> QED BY <1>u, <3>1, WriteRow
  <2>3. /\ k \in Keys /\ channel[ChannelOf[k]] = "off"
        /\ row[k].status \in {"pending", "failed", "skipped"}
        /\ \A j \in Keys : row'[j].status = row[j].status \/ (j = k /\ row'[j].status = "skipped")
    BY <1>t, <1>u, <2>1, <2>2, <2>2a DEF CallerInv
  <2>4. CallerInv'
    BY <1>t, <1>u, <2>2, <2>3 DEF CallerInv, TypeOK, CallerType, Resting
  <2>5. ReachInv'
    BY <1>t, <1>u, <2>2, <2>3 DEF ReachInv
  <2> QED BY <2>4, <2>5
<1>5. ASSUME NEW K \in SUBSET Keys, NEW pc \in {"reclaim", "rows"},
             loop' = [Round EXCEPT !.pc = pc, !.batch = Found(K)],
             UNCHANGED <<row, channel, caller>>,
             \A k \in K : row[k].status = (IF pc = "reclaim" THEN "sending" ELSE "pending")
      PROVE  CallerInv' /\ ReachInv'
  <2>1. loop'.pc = pc /\ loop'.batch = Found(K) /\ loop'.hand = {}
    BY <1>5 DEF Round
  <2>2. \A r \in Found(K) : r.key \in K
    BY DEF Found
  <2> QED BY <1>t, <1>5, <2>1, <2>2 DEF CallerInv, ReachInv
<1>6. ASSUME NEW r \in loop.batch, Reclaim(r) PROVE CallerInv' /\ ReachInv'
  <2>1. /\ UNCHANGED <<channel, caller>> /\ loop.pc = "reclaim" /\ loop'.pc = "reclaim"
        /\ loop'.hand = loop.hand /\ loop'.batch = loop.batch \ {r}
    BY <1>u, <1>6 DEF Reclaim, LoopAt, LoopType
  <2>2. /\ row[r.key].status = "sending"
        /\ \A j \in Keys \ {r.key} : row'[j].status = row[j].status
    BY <1>t, <1>u, <1>6, <2>1 DEF ReachInv, Reclaim, Write
  <2>3. \A s \in loop'.batch : s.key # r.key
    BY <1>t, <2>1 DEF InHandInv
  <2> QED BY <1>t, <1>u, <2>1, <2>2, <2>3 DEF CallerInv, ReachInv, InHandInv
<1>7. ASSUME NEW r \in loop.batch, Take(r) PROVE CallerInv' /\ ReachInv'
  <2>1. /\ UNCHANGED <<row, channel, caller>> /\ loop.pc = "rows"
        /\ \/ loop' = [loop EXCEPT !.batch = @ \ {r}] /\ loop.hand = {}
           \/ InHand(r, "fail")
           \/ channel[ChannelOf[r.key]] = "off" /\ InHand(r, "skip")
           \/ channel[ChannelOf[r.key]] = "on" /\ (InHand(r, "settle") \/ InHand(r, "mark"))
    BY <1>7 DEF Take, LoopAt
  <2>2. /\ loop'.batch = loop.batch \ {r} /\ loop'.pc # "reclaim"
        /\ loop'.hand \in {{}, {r}}
        /\ loop'.hand # {} => loop'.pc \in {"fail", "skip", "settle", "mark"}
        /\ loop'.pc = "skip" => channel[ChannelOf[r.key]] = "off"
        /\ loop'.pc \in {"settle", "mark"} => channel[ChannelOf[r.key]] = "on"
    BY <1>u, <2>1 DEF InHand, LoopType
  <2> QED BY <1>t, <1>u, <2>1, <2>2 DEF CallerInv, ReachInv
<1>8. ASSUME NEW at \in AtRow, NEW go \in {"rows", "post"}, NEW S, HandEffect(at, go, S),
             at \in {"fail", "skip"} => S \subseteq {"failed", "skipped"} /\ go = "rows",
             go = "post" => at = "mark" /\ S = {"sending"}
      PROVE  CallerInv' /\ ReachInv'
  <2>1. PICK r \in loop.hand :
          /\ loop.pc = at /\ loop.hand = {r} /\ r.key \in Keys
          /\ loop' = [pc |-> go, batch |-> loop.batch, hand |-> IF go = "rows" THEN {} ELSE {r}]
          /\ \A s \in loop.batch : s.key # r.key
          /\ UNCHANGED <<channel, caller>>
          /\ \A j \in Keys \ {r.key} : row'[j] = row[j]
          /\ row'[r.key].status \in S \/ row'[r.key] = row[r.key]
    BY <1>8 DEF HandEffect
  <2>2. CallerInv'
    BY <1>t, <1>u, <1>8, <2>1 DEF CallerInv, ReachInv
  <2>3. ReachInv'
    BY <1>t, <1>u, <1>8, <2>1 DEF ReachInv
  <2> QED BY <2>2, <2>3
<1>9. ASSUME Post PROVE CallerInv' /\ ReachInv'
  <2>1. /\ UNCHANGED <<row, channel, caller>> /\ loop.pc = "post"
        /\ loop'.pc \in {"sent", "settle"} /\ loop'.hand = loop.hand /\ loop'.batch = loop.batch
    BY <1>u, <1>9 DEF Post, LoopAt, LoopType
  <2> QED BY <1>t, <2>1 DEF CallerInv, ReachInv
<1>10. ASSUME Purge PROVE CallerInv' /\ ReachInv'
  <2>1. PICK old \in SUBSET {k \in Keys : /\ row[k].status \in Finished
                                          /\ \A c \in Callers : k \notin caller[c].key} :
          row' = [k \in Keys |-> IF k \in old THEN [row[k] EXCEPT !.status = "purged"]
                                               ELSE row[k]]
    BY <1>10 DEF Purge
  <2>2. /\ UNCHANGED <<channel, caller>> /\ loop'.hand = {} /\ loop'.batch = {}
        /\ \A c \in Callers : \A k \in caller[c].key : row'[k] = row[k]
    BY <1>10, <1>u, <2>1 DEF Purge, Round
  <2> QED BY <1>t, <1>u, <2>2 DEF CallerInv, ReachInv
<1>11. ASSUME NEW k \in Keys, Due(k) \/ Stale(k) PROVE CallerInv' /\ ReachInv'
  <2>1. /\ UNCHANGED <<channel, caller, loop>>
        /\ \A j \in Keys : row'[j].status = row[j].status
    BY <1>u, <1>11 DEF Due, Stale, Row
  <2> QED BY <1>t, <1>u, <2>1 DEF CallerInv, ReachInv
<1>12. ASSUME NEW c \in Channels, ChangeChannel(c) PROVE CallerInv' /\ ReachInv'
  <2>1. /\ UNCHANGED <<row, caller, loop>> /\ loop.batch = {} /\ loop.hand = {}
        /\ \A d \in Callers : caller[d].pc = "idle"
    BY <1>12 DEF ChangeChannel, Quiet, CallAt
  <2> QED BY <1>t, <2>1 DEF CallerInv, ReachInv
<1>13. ASSUME NEW c \in Channels, WindowMoves(c) PROVE CallerInv' /\ ReachInv'
  BY <1>t, <1>13 DEF WindowMoves, CallerInv, ReachInv
<1>14. ASSUME Crash PROVE CallerInv' /\ ReachInv'
  BY <1>14 DEF Crash, Resting, Round, CallerInv, ReachInv
<1>15. CASE UNCHANGED vars
  BY <1>t, <1>15 DEF vars, CallerInv, ReachInv
<1>16. ASSUME Loop PROVE CallerInv' /\ ReachInv'
  <2>1. ASSUME StaleSending PROVE CallerInv' /\ ReachInv'
    <3> DEFINE K == {k \in Keys : row[k].status = "sending" /\ row[k].stale}
    <3>1. /\ loop' = [Round EXCEPT !.pc = "reclaim", !.batch = Found(K)]
          /\ UNCHANGED <<row, channel, caller>>
      BY <2>1 DEF StaleSending
    <3>2. K \in SUBSET Keys /\ \A k \in K : row[k].status = "sending"
      OBVIOUS
    <3> HIDE DEF K
    <3> QED BY <1>5, <3>1, <3>2
  <2>2. ASSUME Pending PROVE CallerInv' /\ ReachInv'
    <3> DEFINE K == {k \in Keys : row[k].status = "pending" /\ row[k].due}
    <3>1. /\ loop' = [Round EXCEPT !.pc = "rows", !.batch = Found(K)]
          /\ UNCHANGED <<row, channel, caller>>
      BY <2>2 DEF Pending
    <3>2. K \in SUBSET Keys /\ \A k \in K : row[k].status = "pending"
      OBVIOUS
    <3> HIDE DEF K
    <3> QED BY <1>5, <3>1, <3>2
  <2>3. ASSUME MarkFailed \/ MarkSkipped \/ MarkSending \/ MarkSent \/ Settle
        PROVE  CallerInv' /\ ReachInv'
    BY <1>8, <1>t, <2>3, HandEffects
  <2> QED BY <1>6, <1>7, <1>9, <1>10, <1>16, <2>1, <2>2, <2>3 DEF Loop
<1> QED BY <1>1, <1>2, <1>3, <1>4, <1>11, <1>12, <1>13, <1>14, <1>15, <1>16
        DEF Next, Enqueue

-----------------------------------------------------------------------------
(* Every step is a step of the ledger.                                       *)

LEMMA OutcomeOf ==
  /\ \A x \in Open : Outcome(x) = "owed"
  /\ Outcome("sent") = "delivered"
  /\ \A x \in {"failed", "skipped"} : Outcome(x) = "dropped"
  /\ Outcome("none") = "none" /\ Outcome("purged") = "purged"
BY DEF Outcome, Open

\* One row changes, or none: the ledger's view of it.
LEMMA OutcomesOfOneRow ==
  ASSUME NEW k \in Keys, \A j \in Keys \ {k} : row'[j] = row[j]
  PROVE  /\ Outcomes[k] = Outcome(row[k].status)
         /\ Outcomes' = [Outcomes EXCEPT ![k] = Outcome(row'[k].status)]
         /\ row'[k].status = row[k].status => Outcomes' = Outcomes
BY DEF Outcomes

LEMMA LedgerInit == Init => Ledger!Init
BY OutcomeOf DEF Init, Ledger!Init, Outcomes, Mishaps, Fresh

LedgerStep == Ledger!Next \/ UNCHANGED <<Outcomes, copies, Mishaps>>

\* A row in hand that gets the status x in an ordinary write: the ledger takes the step
\* Settle, or sees nothing; a write that fails is a mishap.
LEMMA WriteIsLedgerStep ==
  ASSUME IInv, NEW k \in Keys,
         UNCHANGED <<crashes, lost, copies>>,
         \A j \in Keys \ {k} : row'[j] = row[j],
         \/ Outcome(row'[k].status) = Outcome(row[k].status) /\ faults' = faults
         \/ /\ row[k].status \in Open /\ faults' = faults
            /\ Outcome(row'[k].status) \in {"delivered", "dropped"}
            /\ Outcome(row'[k].status) = "delivered" => copies[k] > 0
         \/ row[k].status = "none" /\ row'[k].status = "pending" /\ faults' = faults
         \/ row'[k] = row[k] /\ faults' = faults + 1
  PROVE  LedgerStep
<1>1. /\ Outcomes[k] = Outcome(row[k].status)
      /\ Outcomes' = [Outcomes EXCEPT ![k] = Outcome(row'[k].status)]
      /\ Outcomes \in [Keys -> {Outcomes[j] : j \in Keys}]
  BY OutcomesOfOneRow DEF Outcomes
<1>2. CASE Outcome(row'[k].status) = Outcome(row[k].status) /\ faults' = faults
  <2>1. Outcomes' = Outcomes /\ Mishaps' = Mishaps
    BY <1>1, <1>2 DEF Mishaps
  <2> QED BY <2>1 DEF LedgerStep
<1>3. CASE /\ row[k].status \in Open /\ faults' = faults
           /\ Outcome(row'[k].status) \in {"delivered", "dropped"}
           /\ Outcome(row'[k].status) = "delivered" => copies[k] > 0
  <2>1. Outcomes[k] = "owed" /\ Mishaps' = Mishaps
    BY <1>1, <1>3, OutcomeOf DEF Mishaps
  <2>2. Ledger!Settle(k)
    BY <1>1, <1>3, <2>1 DEF Ledger!Settle
  <2> QED BY <2>2 DEF LedgerStep, Ledger!Next
<1>4. CASE row[k].status = "none" /\ row'[k].status = "pending" /\ faults' = faults
  <2>1. Outcomes[k] = "none" /\ Outcome(row'[k].status) = "owed" /\ Mishaps' = Mishaps
    BY <1>1, <1>4, OutcomeOf DEF Mishaps, Open
  <2>2. Ledger!Owe(k)
    BY <1>1, <2>1 DEF Ledger!Owe
  <2> QED BY <2>2 DEF LedgerStep, Ledger!Next
<1>5. CASE row'[k] = row[k] /\ faults' = faults + 1
  <2>1. Outcomes' = Outcomes
    BY <1>5, OutcomesOfOneRow
  <2>2. Mishaps' = Mishaps + 1
    BY <1>5 DEF Mishaps, IInv, TypeOK
  <2>3. Ledger!Mishap
    BY <2>1, <2>2 DEF Ledger!Mishap
  <2> QED BY <2>3 DEF LedgerStep, Ledger!Next
<1> QED BY <1>2, <1>3, <1>4, <1>5

LEMMA StepIsLedgerStep ==
  ASSUME CalmInv, [Next]_vars
  PROVE  LedgerStep
<1> USE DEF trouble, history
<1>t. TypeOK /\ InHandInv /\ CallerInv /\ ReachInv /\ IInv
  BY DEF CalmInv, IInv
<1>u. /\ \A k \in Keys : row[k] \in Row
      /\ \A r \in loop.hand \cup loop.batch : r.key \in Keys
      /\ \A c \in Callers : \A k \in caller[c].key : k \in Keys
      /\ row \in [Keys -> Row] /\ loop \in LoopType
  BY <1>t DEF TypeOK, CallerType, LoopType, Snapshot
<1>1. ASSUME UNCHANGED <<row, copies, crashes, faults, lost>> PROVE LedgerStep
  BY <1>1 DEF LedgerStep, Outcomes, Mishaps
<1>2. ASSUME NEW c \in Callers, Insert(c) PROVE LedgerStep
  <2>1. PICK k \in caller[c].key :
          \/ row[k].status = "none" /\ Write(k, Fresh)
          \/ row[k].status # "none" /\ UNCHANGED <<row, faults>>
    BY <1>2 DEF Insert
  <2>2. UNCHANGED <<crashes, lost, copies>> /\ k \in Keys
    BY <1>2, <1>u DEF Insert
  <2>3. CASE row[k].status # "none" /\ UNCHANGED <<row, faults>>
    BY <1>1, <2>2, <2>3
  <2>4. CASE row[k].status = "none" /\ Write(k, Fresh)
    <3>1. Fresh \in Row /\ Fresh.status = "pending"
      BY DEF Fresh, Row, Open
    <3>2. /\ \A j \in Keys \ {k} : row'[j] = row[j]
          /\ \/ row'[k] = Fresh /\ faults' = faults
             \/ row'[k] = row[k] /\ faults' = faults + 1
      BY <1>u, <2>2, <2>4, <3>1, WriteRow
    <3> QED BY <1>t, <2>2, <2>4, <3>1, <3>2, WriteIsLedgerStep
  <2> QED BY <2>1, <2>3, <2>4
<1>3. ASSUME NEW c \in Callers, Skip(c) PROVE LedgerStep
  <2>1. PICK k \in caller[c].key : Write(k, [row[k] EXCEPT !.status = "skipped"])
    BY <1>3 DEF Skip
  <2>2. /\ UNCHANGED <<crashes, lost, copies>> /\ k \in Keys
        /\ row[k].status \in {"pending", "failed", "skipped"}
    BY <1>3, <1>t, <1>u DEF Skip, CallAt, CallerInv
  <2> DEFINE new == [row[k] EXCEPT !.status = "skipped"]
  <2>3. new \in Row /\ new.status = "skipped"
    BY <1>u, <2>2 DEF Row, Finished
  <2>4. /\ \A j \in Keys \ {k} : row'[j] = row[j]
        /\ \/ row'[k] = new /\ faults' = faults
           \/ row'[k] = row[k] /\ faults' = faults + 1
    BY <1>u, <2>1, <2>2, <2>3, WriteRow
  <2> HIDE DEF new
  <2>5. Outcome(new.status) = "dropped"
        /\ (row[k].status \in Open \/ Outcome(row[k].status) = "dropped")
    BY <2>2, <2>3, OutcomeOf DEF Open
  <2> QED BY <1>t, <2>2, <2>4, <2>5, WriteIsLedgerStep
<1>4. ASSUME NEW r \in loop.batch, Reclaim(r) PROVE LedgerStep
  <2> DEFINE k == r.key
             new == Reclaimed(k, r.attempts + 1)
  <2>1. /\ UNCHANGED <<crashes, lost, copies>> /\ k \in Keys /\ row[k] \in Row
        /\ row[k].status = "sending" /\ Write(k, new) /\ r.attempts + 1 \in Nat
    BY <1>4, <1>t, <1>u DEF Reclaim, LoopAt, ReachInv, TypeOK, LoopType, Snapshot
  <2>2. new \in Row /\ new.status \in {"failed", "pending"}
    <3>1. CASE r.attempts + 1 >= MaxAttempts(k)
      BY <2>1, <3>1 DEF Reclaimed, Row, Open, Finished
    <3>2. CASE ~(r.attempts + 1 >= MaxAttempts(k))
      BY <2>1, <3>2 DEF Reclaimed, Row, Open, Finished
    <3> QED BY <3>1, <3>2
  <2>3. /\ \A j \in Keys \ {k} : row'[j] = row[j]
        /\ \/ row'[k] = new /\ faults' = faults
           \/ row'[k] = row[k] /\ faults' = faults + 1
    BY <1>u, <2>1, <2>2, WriteRow
  <2> HIDE DEF new
  <2>4. Outcome(new.status) \in {"owed", "dropped"} /\ Outcome(row[k].status) = "owed"
        /\ row[k].status \in Open
    BY <2>1, <2>2, OutcomeOf DEF Open
  <2> QED BY <1>t, <2>1, <2>3, <2>4, WriteIsLedgerStep
<1>5. ASSUME NEW at \in AtRow, NEW go, NEW S, HandEffect(at, go, S),
             <<at, S>> \in {<<"fail", {"failed"}>>, <<"skip", {"skipped"}>>, <<"mark", {"sending"}>>,
                           <<"sent", {"sent"}>>, <<"settle", {"failed", "pending"}>>}
      PROVE  LedgerStep
  <2>1. PICK r \in loop.hand :
          /\ loop.pc = at /\ r.key \in Keys
          /\ UNCHANGED <<crashes, lost, copies>>
          /\ \A j \in Keys \ {r.key} : row'[j] = row[j]
          /\ \/ row'[r.key].status \in S /\ faults' = faults
             \/ row'[r.key] = row[r.key] /\ faults' = faults + 1
    BY <1>5 DEF HandEffect
  <2>2. CASE row'[r.key] = row[r.key] /\ faults' = faults + 1
    BY <1>t, <2>1, <2>2, WriteIsLedgerStep
  <2>3. CASE row'[r.key].status \in S /\ faults' = faults
    <3>1. at \in {"fail", "skip"} => /\ row[r.key].status \in {"pending", "skipped"}
                                    /\ S \subseteq {"failed", "skipped"}
      BY <1>5, <1>t, <2>1 DEF ReachInv
    <3>2. at \in {"mark", "sent", "settle"} => row[r.key].status \in Open
      BY <1>5, <1>t, <2>1 DEF ReachInv
    <3>3. at = "sent" => copies[r.key] > 0 /\ S = {"sent"}
      BY <1>5, <1>t, <2>1 DEF IInv, SentInv, Arrived
    <3>4. at \in {"mark", "settle"} => S \subseteq {"sending", "failed", "pending"}
      BY <1>5
    <3>5. at \in {"fail", "skip", "mark", "sent", "settle"}
      BY <1>5
    <3>6. \/ Outcome(row'[r.key].status) = Outcome(row[r.key].status)
          \/ /\ row[r.key].status \in Open
             /\ Outcome(row'[r.key].status) \in {"delivered", "dropped"}
             /\ Outcome(row'[r.key].status) = "delivered" => copies[r.key] > 0
      <4>1. CASE at \in {"fail", "skip"}
        BY <2>3, <3>1, <4>1, OutcomeOf DEF Open
      <4>2. CASE at = "sent"
        BY <2>3, <3>2, <3>3, <4>2, OutcomeOf
      <4>3. CASE at \in {"mark", "settle"}
        BY <2>3, <3>2, <3>4, <4>3, OutcomeOf DEF Open
      <4> QED BY <3>5, <4>1, <4>2, <4>3
    <3> QED BY <1>t, <2>1, <2>3, <3>6, WriteIsLedgerStep
  <2> QED BY <2>1, <2>2, <2>3
<1>6. ASSUME Post PROVE LedgerStep
  <2>1. PICK r \in loop.hand :
          \/ lost' = lost /\ copies' = [copies EXCEPT ![r.key] = @ + 1]
          \/ lost' = lost /\ UNCHANGED copies
          \/ lost' = lost + 1 /\ copies' = [copies EXCEPT ![r.key] = @ + 1]
    BY <1>6 DEF Post
  <2>2. UNCHANGED <<row, crashes, faults>> /\ loop.pc = "post" /\ r.key \in Keys
    BY <1>6, <1>u DEF Post, LoopAt
  <2>3. row[r.key].status \in Open /\ copies[r.key] <= Mishaps
    BY <1>t, <2>2 DEF ReachInv, IInv, CopiesInv
  <2>4. Outcomes' = Outcomes /\ Outcomes[r.key] = "owed"
    BY <2>2, <2>3, OutcomeOf DEF Outcomes
  <2>5. CASE lost' = lost /\ UNCHANGED copies
    BY <1>1, <2>2, <2>5
  <2>6. CASE lost' \in {lost, lost + 1} /\ copies' = [copies EXCEPT ![r.key] = @ + 1]
    <3>1. Mishaps' \in {Mishaps, Mishaps + 1}
      <4>1. crashes \in Nat /\ faults \in Nat /\ lost \in Nat
        BY <1>t DEF TypeOK
      <4>2. crashes' = crashes /\ faults' = faults
        BY <2>2
      <4>3. CASE lost' = lost
        BY <4>1, <4>2, <4>3 DEF Mishaps
      <4>4. CASE lost' = lost + 1
        BY <4>1, <4>2, <4>4 DEF Mishaps
      <4> QED BY <2>6, <4>3, <4>4
    <3>2. Ledger!Send(r.key)
      BY <2>3, <2>4, <2>6, <3>1 DEF Ledger!Send
    <3> QED BY <2>2, <3>2 DEF LedgerStep, Ledger!Next
  <2> QED BY <2>1, <2>5, <2>6
<1>7. ASSUME Purge PROVE LedgerStep
  <2>1. PICK old \in SUBSET {k \in Keys : row[k].status \in Finished} :
          row' = [k \in Keys |-> IF k \in old THEN [row[k] EXCEPT !.status = "purged"]
                                               ELSE row[k]]
    BY <1>7 DEF Purge
  <2>2. UNCHANGED <<copies, Mishaps>>
    BY <1>7 DEF Purge, Mishaps
  <2>3. \A k \in Keys : Outcome(row'[k].status) = IF k \in old THEN "purged"
                                                             ELSE Outcome(row[k].status)
    BY <1>u, <2>1, OutcomeOf DEF Row
  <2>4. Outcomes' = [k \in Keys |-> IF k \in old THEN "purged" ELSE Outcomes[k]]
    BY <2>3 DEF Outcomes
  <2>5. old \in SUBSET {k \in Keys : Outcomes[k] \in {"delivered", "dropped"}}
    BY <2>1, OutcomeOf DEF Outcomes, Finished
  <2>6. Ledger!Purge
    BY <2>2, <2>4, <2>5 DEF Ledger!Purge
  <2> QED BY <2>6 DEF LedgerStep, Ledger!Next
<1>8. ASSUME NEW k \in Keys, Due(k) \/ Stale(k) PROVE LedgerStep
  <2>1. /\ UNCHANGED <<crashes, faults, lost, copies>>
        /\ \A j \in Keys : row'[j].status = row[j].status
    BY <1>u, <1>8 DEF Due, Stale, Row
  <2> QED BY <2>1 DEF LedgerStep, Outcomes, Mishaps
<1>9. ASSUME Crash PROVE LedgerStep
  <2>1. Outcomes' = Outcomes /\ copies' = copies /\ Mishaps' = Mishaps + 1
    BY <1>t, <1>9 DEF Crash, Outcomes, Mishaps, TypeOK
  <2>2. Ledger!Mishap
    BY <2>1 DEF Ledger!Mishap
  <2> QED BY <2>2 DEF LedgerStep, Ledger!Next
<1>10. ASSUME Loop PROVE LedgerStep
  <2>1. ASSUME StaleSending \/ Pending \/ \E r \in loop.batch : Take(r) PROVE LedgerStep
    BY <1>1, <2>1 DEF StaleSending, Pending, Take
  <2>2. ASSUME MarkFailed \/ MarkSkipped \/ MarkSending \/ MarkSent \/ Settle PROVE LedgerStep
    BY <1>5, <1>t, <2>2, HandEffects DEF AtRow
  <2> QED BY <1>4, <1>6, <1>7, <1>10, <2>1, <2>2 DEF Loop
<1>11. ASSUME NEW c \in Callers, Enqueue(c) \/ \E k \in Keys : Resolve(c, k) PROVE LedgerStep
  BY <1>1, <1>2, <1>3, <1>11 DEF Enqueue, Resolve, Look
<1>12. ASSUME NEW c \in Channels, WindowMoves(c) \/ ChangeChannel(c) PROVE LedgerStep
  BY <1>1, <1>12 DEF WindowMoves, ChangeChannel
<1>13. CASE UNCHANGED vars
  BY <1>1, <1>13 DEF vars
<1> QED BY <1>8, <1>9, <1>10, <1>11, <1>12, <1>13 DEF Next

\* The outbox keeps DeliveryLedger's promise for any number of callers, deliveries and
\* mishaps, as long as no channel changes under a delivery: a settled delivery stays
\* settled, only an owed one is sent and only to what the mishaps pay for.
THEOREM LedgerIsKept == ASSUME ~Races PROVE Spec => KeepsLedger
<1>1. Init => CalmInv
  BY InitIInv, InitCalm DEF CalmInv
<1>2. CalmInv /\ [Next]_vars => CalmInv'
  BY CalmStep, StepIInv DEF CalmInv
<1>3. CalmInv /\ [Next]_vars => [Ledger!Next]_(Ledger!vars)
  BY StepIsLedgerStep DEF LedgerStep, Ledger!vars
<1> QED BY <1>1, <1>2, <1>3, LedgerInit, PTL DEF Spec, KeepsLedger, Ledger!Spec
=============================================================================
