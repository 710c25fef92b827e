------------------------- MODULE PgConnectionProofs -------------------------
(***************************************************************************)
(* Proofs about PgConnection for any number of tasks, statements and       *)
(* breaks, any tasks that are cancelled or end without a rollback, and     *)
(* whatever circumstances arise.  The invariant has three parts: what is   *)
(* always so, what is so for every unit that was not mixed up with another *)
(* one (from which the units are atomic), and what is so until one of the  *)
(* four circumstances of Troubles has arisen (from which the connection is *)
(* shared safely).                                                         *)
(***************************************************************************)
EXTENDS PgConnection, TLAPS

\* A task that is about to execute a statement has one left.
DoneInv == \A t \in Tasks :
             pc[t] \in Queued \cup {"inside", "opening", "writing", "clearing"} => done[t] < Size

TInv == TypeOK /\ DoneInv

-----------------------------------------------------------------------------
\* A task has a request in flight exactly while it waits for the answer.
WireInv == \A t \in Tasks : pc[t] \in Waiting <=> link.wire = t

\* A transaction that was begun on this session is open there; one whose connection was
\* taken away is marked; nothing is pending outside a transaction; and nobody's transaction is that of a unit that was committed.
KnownInv ==
  /\ conn.raw = "none" /\ conn.tx # NoTask => conn.lost
  /\ conn.begun => conn.tx # NoTask
  /\ conn.begun /\ link.top = conn.tx => link.open
  /\ ~link.open => link.pending = {}
  /\ \A t \in Tasks : conn.tx = t => pc[t] \notin {"ok", "unsure", "committing"}

\* A unit that was not mixed up has its transaction on the connection from its first row
\* to its end, and nobody else has a request in flight meanwhile.
TxInv ==
  \A t \in Tasks \ mixed :
    /\ pc[t] \in {"opening", "writing", "between"} => conn.tx = t
    /\ done[t] > 0 /\ pc[t] \in Queued \cup {"idle", "inside"} => conn.tx = t
    /\ pc[t] = "clearing" => done[t] = 0
    /\ conn.tx = t => link.wire \in {t, NoTask}

\* It is the outermost transaction of the session and holds all the rows written so far, and
\* nobody else's.
OwnInv ==
  \A t \in Tasks \ mixed :
    conn.tx = t /\ ~conn.lost /\ AtWork(t) =>
      /\ link.top = t
      /\ pc[t] = "opening" \/ (conn.begun /\ link.open)
      /\ \A i \in 1..done[t] : <<t, i>> \in link.pending
      /\ \A u \in Tasks, i \in 1..Size : <<u, i>> \in link.pending => u = t

WritingInv ==
  \A t \in Tasks \ mixed :
    /\ pc[t] \in {"opening", "writing"} => link.top = t
    /\ pc[t] = "writing" => link.open

\* Its rows wait for no other commit.
PendInv ==
  \A t \in Tasks \ mixed : \A i \in 1..Size :
    <<t, i>> \in link.pending =>
      \/ link.top = t
      \/ pc[t] = "committing"
      \/ conn.raw # "up" /\ link.wire = NoTask

CommitInv ==
  \A t \in Tasks \ mixed :
    pc[t] = "committing" =>
      /\ link.top = NoTask /\ link.open
      /\ \A u \in Tasks, i \in 1..Size : <<u, i>> \in link.pending <=> u = t

\* What is stored of it is what its caller was told.
StoredInv ==
  \A t \in Tasks \ mixed :
    /\ pc[t] = "ok" => \A i \in 1..Size : <<t, i>> \in db
    /\ pc[t] = "unsure" => \/ \A i \in 1..Size : <<t, i>> \in db
                           \/ \A i \in 1..Size : <<t, i>> \notin db
    /\ pc[t] \notin {"ok", "unsure"} => \A i \in 1..Size : <<t, i>> \notin db

UInv == /\ WireInv /\ KnownInv /\ TxInv /\ OwnInv /\ WritingInv
        /\ PendInv /\ CommitInv /\ StoredInv

-----------------------------------------------------------------------------
\* What is so until a circumstance arises.

\* A task inside guard(), and one that ends a transaction.
InGuard == {"inside", "opening", "writing", "discarding", "clearing"}
Ending == {"committing", "rolling", "discarding"}

\* Who is in a statement, has a transaction or is ending one has the lock.
LockInv ==
  \A t \in Tasks :
    /\ pc[t] # "thief"
    /\ pc[t] \in InGuard \cup Waiting => conn.owner = t
    /\ pc[t] \in {"between", "writing", "opening"} => conn.tx = t
    /\ pc[t] \in {"clearing"} \cup Ending => conn.tx = NoTask
    /\ conn.owner = t => pc[t] \notin {"idle"} \cup Queued
    /\ conn.owner = t /\ pc[t] \in {"raised"} \cup Ended => conn.tx = t
    /\ conn.owner = t /\ pc[t] \in Ended => t \in Clumsy
    /\ conn.tx = t => conn.owner = t

\* The transaction holds the lock, also while its last request is in flight.
HeldInv ==
  conn.held <=> (conn.tx # NoTask \/ \E t \in Tasks : pc[t] \in Ending)

\* The lock is counted once for the transaction and once for the statement.
DepthInv ==
  /\ conn.owner = NoTask => conn.depth = 0
  /\ \A t \in Tasks : conn.owner = t =>
       conn.depth = (IF conn.held THEN 1 ELSE 0) + (IF pc[t] \in InGuard THEN 1 ELSE 0)

\* What the session knows is the transaction of the connection, and no other.
SessionInv ==
  /\ conn.lost => conn.tx # NoTask
  /\ \A t \in Tasks : pc[t] = "opening" => ~conn.lost
  /\ conn.raw = "up" =>
       /\ conn.lost => link.wire = NoTask
       /\ (conn.tx # NoTask /\ ~conn.lost) =>
            /\ link.top = conn.tx
            /\ (pc[conn.tx] = "opening" \/ (conn.begun /\ link.open))
       /\ (conn.tx = NoTask \/ conn.lost) =>
            /\ link.top = NoTask
            /\ link.wire = NoTask => ~link.open
       /\ \A t \in Tasks, i \in 1..Size : <<t, i>> \in link.pending =>
            \/ conn.tx = t /\ ~conn.lost
            \/ pc[t] = "committing"

Unharmed == mixed = {} /\ LockInv /\ HeldInv /\ DepthInv /\ SessionInv

CInv == troubles = {} => Unharmed

IInv == TInv /\ UInv /\ CInv

-----------------------------------------------------------------------------
(* The fields of a connection after the guard is left and a transaction ends. *)

PcSet == Ended \cup Queued \cup Waiting \cup Running \cup {"idle", "between"}

\* _TaskGuard.release counts one level down and touches nothing else.
LEMMA ExitFields ==
  ASSUME NEW c \in Conn
  PROVE  /\ Exit(c) \in Conn
         /\ Exit(c).tx = c.tx /\ Exit(c).begun = c.begun /\ Exit(c).lost = c.lost
         /\ Exit(c).raw = c.raw /\ Exit(c).held = c.held
         /\ c.depth = 1 => Exit(c).owner = NoTask /\ Exit(c).depth = 0
         /\ c.depth = 2 => Exit(c).owner = c.owner /\ Exit(c).depth = 1
<1>1. CASE c.depth = 0
  BY <1>1 DEF Exit, Conn
<1>2. CASE c.depth = 1
  <2> DEFINE f == [c EXCEPT !.depth = 0]
  <2>1. /\ f \in Conn /\ f.tx = c.tx /\ f.begun = c.begun /\ f.lost = c.lost /\ f.raw = c.raw
        /\ f.held = c.held /\ f.depth = 0
    BY DEF Conn
  <2>2. Exit(c) = [f EXCEPT !.owner = NoTask]
    BY <1>2 DEF Exit
  <2> HIDE DEF f
  <2>3. /\ Exit(c) \in Conn /\ Exit(c).owner = NoTask /\ Exit(c).depth = 0
        /\ Exit(c).tx = c.tx /\ Exit(c).begun = c.begun /\ Exit(c).lost = c.lost
        /\ Exit(c).raw = c.raw /\ Exit(c).held = c.held
    BY <2>1, <2>2 DEF Conn, Somebody
  <2> QED BY <1>2, <2>3
<1>3. CASE c.depth \notin {0, 1}
  <2>1. c.depth - 1 \in Nat
    BY <1>3 DEF Conn
  <2>2. Exit(c) = [c EXCEPT !.depth = @ - 1]
    BY <1>3 DEF Exit
  <2>3. c.depth = 2 => c.depth - 1 = 1
    OBVIOUS
  <2> QED BY <1>3, <2>1, <2>2, <2>3 DEF Conn
<1> QED BY <1>1, <1>2, <1>3

\* _release_tx_guard gives back what the transaction holds, if it holds it.
LEMMA ReturnFields ==
  ASSUME NEW c \in Conn
  PROVE  /\ ReturnTx(c) \in Conn
         /\ ReturnTx(c).tx = c.tx /\ ReturnTx(c).begun = c.begun
         /\ ReturnTx(c).lost = c.lost /\ ReturnTx(c).raw = c.raw
         /\ ReturnTx(c).held = FALSE
         /\ c.held /\ c.depth = 1 => ReturnTx(c).owner = NoTask /\ ReturnTx(c).depth = 0
         /\ c.held /\ c.depth = 2 => ReturnTx(c).owner = c.owner /\ ReturnTx(c).depth = 1
         /\ ~c.held => ReturnTx(c).owner = c.owner /\ ReturnTx(c).depth = c.depth
<1> DEFINE f == [c EXCEPT !.held = FALSE]
<1>1. /\ f \in Conn /\ f.tx = c.tx /\ f.begun = c.begun /\ f.lost = c.lost /\ f.raw = c.raw
      /\ f.held = FALSE /\ f.owner = c.owner /\ f.depth = c.depth
  BY DEF Conn
<1>2. CASE c.held
  <2>1. ReturnTx(c) = Exit(f)
    BY <1>2 DEF ReturnTx
  <2> HIDE DEF f
  <2> QED BY <1>1, <1>2, <2>1, ExitFields
<1>3. CASE ~c.held
  BY <1>3 DEF ReturnTx, Conn
<1> QED BY <1>2, <1>3

\* Forgetting the transaction changes what is known of it only.
LEMMA NoTxFields ==
  ASSUME NEW c \in Conn
  PROVE  /\ NoTx(c) \in Conn /\ Unset(c) \in Conn
         /\ NoTx(c).tx = NoTask /\ Unset(c).tx = NoTask
         /\ NoTx(c).begun = FALSE /\ Unset(c).begun = FALSE
         /\ NoTx(c).lost = FALSE /\ Unset(c).lost = c.lost
         /\ NoTx(c).raw = c.raw /\ Unset(c).raw = c.raw
         /\ NoTx(c).held = c.held /\ Unset(c).held = c.held
         /\ NoTx(c).owner = c.owner /\ Unset(c).owner = c.owner
         /\ NoTx(c).depth = c.depth /\ Unset(c).depth = c.depth
BY DEF NoTx, Unset, Conn, Somebody

\* What the tasks' types say of the parts.
LEMMA Parts ==
  ASSUME TypeOK
  PROVE  /\ pc \in [Tasks -> PcSet] /\ done \in [Tasks -> 0..Size]
         /\ db \subseteq Rows /\ breaks \in 0..MaxBreaks
         /\ mixed \subseteq Tasks /\ troubles \subseteq Troubles
         /\ conn \in Conn /\ link \in Link
         /\ conn.owner \in Somebody /\ conn.tx \in Somebody /\ conn.depth \in Nat
         /\ conn.held \in BOOLEAN /\ conn.begun \in BOOLEAN /\ conn.lost \in BOOLEAN
         /\ conn.raw \in {"up", "closed", "none"}
         /\ link.wire \in Somebody /\ link.top \in Somebody
         /\ link.open \in BOOLEAN /\ link.pending \subseteq Rows
BY DEF TypeOK, Conn, Link, PcSet

-----------------------------------------------------------------------------
\* The invariant holds initially.
LEMMA InitIInv == Init => IInv
BY PgAssumption DEF Init, IInv, TInv, UInv, CInv, Unharmed, TypeOK, DoneInv, WireInv, KnownInv, TxInv, OwnInv, WritingInv, PendInv, CommitInv, StoredInv,
   LockInv, HeldInv, DepthInv, SessionInv, Conn, Link, Rows, Somebody, Ended, Queued, Waiting, Running, InGuard, Ending, AtWork

\* _discard_stale_transaction preserves it, by whatever way the task came to the lock.
LEMMA TakeOverStep ==
  ASSUME IInv, NEW t \in Tasks, pc[t] \in Queued \cup {"idle", "between"}, done[t] < Size,
         TakeOver(t), UNCHANGED troubles, Rest, troubles = {} => Gone(conn.owner),
         \A u \in Tasks : pc[u] \in Running => u = t
  PROVE  IInv'
<1> USE PgAssumption DEF Ended, Queued, Waiting, Running, PcSet, Somebody, Troubles, InGuard, Ending
<1>t. /\ TInv /\ TypeOK /\ DoneInv /\ CInv
      /\ WireInv /\ KnownInv /\ TxInv /\ OwnInv /\ WritingInv
      /\ PendInv /\ CommitInv /\ StoredInv
  BY DEF IInv, TInv, UInv
<1>u. /\ pc \in [Tasks -> PcSet] /\ done \in [Tasks -> 0..Size]
      /\ db \subseteq Rows /\ breaks \in 0..MaxBreaks
      /\ mixed \subseteq Tasks /\ troubles \subseteq Troubles
      /\ conn \in Conn /\ link \in Link
      /\ conn.owner \in Somebody /\ conn.tx \in Somebody /\ conn.depth \in Nat
      /\ conn.held \in BOOLEAN /\ conn.begun \in BOOLEAN /\ conn.lost \in BOOLEAN
      /\ conn.raw \in {"up", "closed", "none"}
      /\ link.wire \in Somebody /\ link.top \in Somebody
      /\ link.open \in BOOLEAN /\ link.pending \subseteq Rows
  BY <1>t, Parts
<1>1. CASE conn.tx # NoTask /\ CanAsk(NoTask)
  <2>a. /\ conn' = [[NoTx(conn) EXCEPT !.held = FALSE] EXCEPT !.owner = t, !.depth = 1]
        /\ link' = [link EXCEPT !.wire = t, !.top = IF link.top = conn.tx THEN NoTask ELSE link.top, !.pending = IF link.top = conn.tx THEN {} ELSE link.pending \ RowsOf(conn.tx)]
    BY <1>u, <1>1 DEF TakeOver, SendRollback, Forget, Ends, At, Goto, Rest, Calm
  <2>d. /\ pc' = [pc EXCEPT ![t] = "clearing"]
        /\ done' = done
        /\ db' = db
        /\ mixed' = mixed \cup {u \in {conn.tx} \ {NoTask} : AtWork(u)}
        /\ troubles' = troubles
        /\ breaks' = breaks
    BY <1>u, <1>1 DEF TakeOver, SendRollback, Forget, Ends, At, Goto, Rest, Calm
  <2>m. /\ NoTx(conn) \in Conn
        /\ NoTx(conn).tx = NoTask
        /\ NoTx(conn).begun = FALSE
        /\ NoTx(conn).lost = FALSE
        /\ NoTx(conn).raw = conn.raw
        /\ NoTx(conn).owner = conn.owner
        /\ NoTx(conn).depth = conn.depth
        /\ NoTx(conn).held = conn.held
    BY <1>u, NoTxFields
  <2>e. /\ conn' \in Conn
        /\ conn'.tx = NoTask
        /\ conn'.begun = FALSE
        /\ conn'.lost = FALSE
        /\ conn'.raw = conn.raw
        /\ conn'.owner = t
        /\ conn'.depth = 1
        /\ conn'.held = FALSE
    BY <1>u, <2>a, <2>m DEF Conn
  <2>l. /\ link' \in Link
        /\ link'.wire = t
        /\ link'.open = link.open
        /\ link'.top = (IF link.top = conn.tx THEN NoTask ELSE link.top)
        /\ link'.pending = (IF link.top = conn.tx THEN {} ELSE link.pending \ RowsOf(conn.tx))
    BY <1>t, <1>u, <1>1, <2>a DEF Link
  <2>t. TInv'
    BY <1>t, <1>u, <1>1, <2>d, <2>e, <2>l DEF TInv, TypeOK, DoneInv, AtWork, At, Rows
  <2>1. WireInv' /\ KnownInv' /\ WritingInv'
    BY <1>t, <1>u, <1>1, <2>d, <2>e, <2>l DEF WireInv, KnownInv, TxInv, OwnInv, WritingInv, PendInv, CommitInv, StoredInv, AtWork, CanAsk, At, RowsOf
  <2>2. TxInv' /\ OwnInv'
    BY <1>t, <1>u, <1>1, <2>d, <2>e, <2>l DEF WireInv, KnownInv, TxInv, OwnInv, WritingInv, PendInv, CommitInv, StoredInv, AtWork, CanAsk, At, RowsOf
  <2>3. PendInv' /\ CommitInv' /\ StoredInv'
    BY <1>t, <1>u, <1>1, <2>d, <2>e, <2>l DEF WireInv, KnownInv, TxInv, OwnInv, WritingInv, PendInv, CommitInv, StoredInv, AtWork, CanAsk, At, RowsOf, Rows
  <2>4. ASSUME troubles' = {} PROVE Unharmed'
    <3>c. /\ troubles = {} /\ mixed = {}
          /\ LockInv
          /\ HeldInv
          /\ DepthInv
          /\ SessionInv
      BY <1>t, <2>d, <2>4 DEF CInv, Unharmed
    <3>f. /\ conn.owner \in Tasks
          /\ pc[conn.owner] \in Ended
          /\ conn.tx = conn.owner
          /\ conn.raw = "up"
          /\ link.top = conn.tx
      BY <1>t, <1>u, <1>1, <2>4, <2>d, <3>c DEF LockInv, HeldInv, DepthInv, SessionInv, WireInv, KnownInv, AtWork, Gone, CanAsk, At, TakeOver
    <3>g. /\ conn'.owner = t
          /\ conn'.depth = 1
          /\ conn'.held = FALSE
      BY <1>u, <2>e, <3>c, <3>f
    <3>1. mixed' = {} /\ LockInv'
      BY <1>t, <1>u, <1>1, <2>d, <2>e, <2>l, <3>c, <3>f, <3>g DEF LockInv, HeldInv, DepthInv, SessionInv, WireInv, KnownInv, AtWork, CanAsk, At, RowsOf, Rows
    <3>2. HeldInv' /\ DepthInv'
      BY <1>t, <1>u, <1>1, <2>d, <2>e, <2>l, <3>c, <3>f, <3>g DEF LockInv, HeldInv, DepthInv, SessionInv, WireInv, KnownInv, AtWork, CanAsk, At, RowsOf, Rows
    <3>3. SessionInv'
      BY <1>t, <1>u, <1>1, <2>d, <2>e, <2>l, <3>c, <3>f, <3>g DEF LockInv, HeldInv, DepthInv, SessionInv, WireInv, KnownInv, AtWork, CanAsk, At, RowsOf, Rows
    <3> QED BY <3>1, <3>2, <3>3 DEF Unharmed
  <2> QED BY <2>t, <2>1, <2>2, <2>3, <2>4 DEF IInv, UInv, CInv
<1>2. CASE conn.tx # NoTask /\ ~CanAsk(NoTask)
  <2>a. /\ conn' = [[NoTx(conn) EXCEPT !.held = FALSE] EXCEPT !.owner = t, !.depth = 1]
        /\ link' = [link EXCEPT !.top = IF link.top = conn.tx /\ conn.raw = "up" /\ conn.begun THEN NoTask ELSE link.top]
    BY <1>u, <1>2 DEF TakeOver, SendRollback, Forget, Ends, At, Goto, Rest, Calm
  <2>d. /\ pc' = [pc EXCEPT ![t] = "inside"]
        /\ done' = done
        /\ db' = db
        /\ mixed' = mixed \cup {u \in {conn.tx} \ {NoTask} : AtWork(u)}
        /\ troubles' = troubles
        /\ breaks' = breaks
    BY <1>u, <1>2 DEF TakeOver, SendRollback, Forget, Ends, At, Goto, Rest, Calm
  <2>m. /\ NoTx(conn) \in Conn
        /\ NoTx(conn).tx = NoTask
        /\ NoTx(conn).begun = FALSE
        /\ NoTx(conn).lost = FALSE
        /\ NoTx(conn).raw = conn.raw
        /\ NoTx(conn).owner = conn.owner
        /\ NoTx(conn).depth = conn.depth
        /\ NoTx(conn).held = conn.held
    BY <1>u, NoTxFields
  <2>e. /\ conn' \in Conn
        /\ conn'.tx = NoTask
        /\ conn'.begun = FALSE
        /\ conn'.lost = FALSE
        /\ conn'.raw = conn.raw
        /\ conn'.owner = t
        /\ conn'.depth = 1
        /\ conn'.held = FALSE
    BY <1>u, <2>a, <2>m DEF Conn
  <2>l. /\ link' \in Link
        /\ link'.wire = link.wire
        /\ link'.open = link.open
        /\ link'.top = (IF link.top = conn.tx /\ conn.raw = "up" /\ conn.begun THEN NoTask ELSE link.top)
        /\ link'.pending = link.pending
    BY <1>t, <1>u, <1>2, <2>a DEF Link
  <2>t. TInv'
    BY <1>t, <1>u, <1>2, <2>d, <2>e, <2>l DEF TInv, TypeOK, DoneInv, AtWork, At, Rows
  <2>1. WireInv' /\ KnownInv' /\ WritingInv'
    BY <1>t, <1>u, <1>2, <2>d, <2>e, <2>l DEF WireInv, KnownInv, TxInv, OwnInv, WritingInv, PendInv, CommitInv, StoredInv, AtWork, CanAsk, At, RowsOf
  <2>2. TxInv' /\ OwnInv'
    BY <1>t, <1>u, <1>2, <2>d, <2>e, <2>l DEF WireInv, KnownInv, TxInv, OwnInv, WritingInv, PendInv, CommitInv, StoredInv, AtWork, CanAsk, At, RowsOf
  <2>3. PendInv' /\ CommitInv' /\ StoredInv'
    BY <1>t, <1>u, <1>2, <2>d, <2>e, <2>l DEF WireInv, KnownInv, TxInv, OwnInv, WritingInv, PendInv, CommitInv, StoredInv, AtWork, CanAsk, At, RowsOf, Rows
  <2>4. ASSUME troubles' = {} PROVE Unharmed'
    <3>c. /\ troubles = {} /\ mixed = {}
          /\ LockInv
          /\ HeldInv
          /\ DepthInv
          /\ SessionInv
      BY <1>t, <2>d, <2>4 DEF CInv, Unharmed
    <3>f. /\ conn.owner \in Tasks
          /\ pc[conn.owner] \in Ended
          /\ conn.tx = conn.owner
          /\ conn.raw # "up" \/ conn.lost
          /\ link.top = conn.tx => conn.raw # "up"
      BY <1>t, <1>u, <1>2, <2>4, <2>d, <3>c DEF LockInv, HeldInv, DepthInv, SessionInv, WireInv, KnownInv, AtWork, Gone, CanAsk, At, TakeOver
    <3>g. /\ conn'.owner = t
          /\ conn'.depth = 1
          /\ conn'.held = FALSE
      BY <1>u, <2>e, <3>c, <3>f
    <3>1. mixed' = {} /\ LockInv'
      BY <1>t, <1>u, <1>2, <2>d, <2>e, <2>l, <3>c, <3>f, <3>g DEF LockInv, HeldInv, DepthInv, SessionInv, WireInv, KnownInv, AtWork, CanAsk, At, RowsOf, Rows
    <3>2. HeldInv' /\ DepthInv'
      BY <1>t, <1>u, <1>2, <2>d, <2>e, <2>l, <3>c, <3>f, <3>g DEF LockInv, HeldInv, DepthInv, SessionInv, WireInv, KnownInv, AtWork, CanAsk, At, RowsOf, Rows
    <3>3. SessionInv'
      BY <1>t, <1>u, <1>2, <2>d, <2>e, <2>l, <3>c, <3>f, <3>g DEF LockInv, HeldInv, DepthInv, SessionInv, WireInv, KnownInv, AtWork, CanAsk, At, RowsOf, Rows
    <3> QED BY <3>1, <3>2, <3>3 DEF Unharmed
  <2> QED BY <2>t, <2>1, <2>2, <2>3, <2>4 DEF IInv, UInv, CInv
<1>3. CASE conn.tx = NoTask
  <2>a. /\ conn' = [conn EXCEPT !.owner = t, !.depth = 1]
        /\ link' = link
    BY <1>u, <1>3 DEF TakeOver, SendRollback, Forget, Ends, At, Goto, Rest, Calm
  <2>d. /\ pc' = [pc EXCEPT ![t] = "inside"]
        /\ done' = done
        /\ db' = db
        /\ mixed' = mixed \cup {u \in {conn.tx} \ {NoTask} : AtWork(u)}
        /\ troubles' = troubles
        /\ breaks' = breaks
    BY <1>u, <1>3 DEF TakeOver, SendRollback, Forget, Ends, At, Goto, Rest, Calm
  <2>e. /\ conn' \in Conn
        /\ conn'.tx = conn.tx
        /\ conn'.begun = conn.begun
        /\ conn'.lost = conn.lost
        /\ conn'.raw = conn.raw
        /\ conn'.owner = t
        /\ conn'.depth = 1
        /\ conn'.held = conn.held
    BY <1>u, <2>a DEF Conn
  <2>l. /\ link' \in Link
        /\ link'.wire = link.wire
        /\ link'.open = link.open
        /\ link'.top = link.top
        /\ link'.pending = link.pending
    BY <1>u, <2>a
  <2>t. TInv'
    BY <1>t, <1>u, <1>3, <2>d, <2>e, <2>l DEF TInv, TypeOK, DoneInv, AtWork, At, Rows
  <2>1. WireInv' /\ KnownInv' /\ WritingInv'
    BY <1>t, <1>u, <1>3, <2>d, <2>e, <2>l DEF WireInv, KnownInv, TxInv, OwnInv, WritingInv, PendInv, CommitInv, StoredInv, AtWork, CanAsk, At, RowsOf
  <2>2. TxInv' /\ OwnInv'
    BY <1>t, <1>u, <1>3, <2>d, <2>e, <2>l DEF WireInv, KnownInv, TxInv, OwnInv, WritingInv, PendInv, CommitInv, StoredInv, AtWork, CanAsk, At, RowsOf
  <2>3. PendInv' /\ CommitInv' /\ StoredInv'
    BY <1>t, <1>u, <1>3, <2>d, <2>e, <2>l DEF WireInv, KnownInv, TxInv, OwnInv, WritingInv, PendInv, CommitInv, StoredInv, AtWork, CanAsk, At, RowsOf, Rows
  <2>4. ASSUME troubles' = {} PROVE Unharmed'
    <3>c. /\ troubles = {} /\ mixed = {}
          /\ LockInv
          /\ HeldInv
          /\ DepthInv
          /\ SessionInv
      BY <1>t, <2>d, <2>4 DEF CInv, Unharmed
    <3> QED
      BY <1>t, <1>u, <1>3, <3>c DEF LockInv, HeldInv, DepthInv, SessionInv, WireInv, KnownInv, TxInv, OwnInv, WritingInv, PendInv, CommitInv, StoredInv, AtWork, Gone, CanAsk, At
  <2> QED BY <2>t, <2>1, <2>2, <2>3, <2>4 DEF IInv, UInv, CInv
<1> QED BY <1>1, <1>2, <1>3

\* Every step of the tasks, and every break of the connection, preserves it.
LEMMA StepIInv == ASSUME IInv, [Next]_vars PROVE IInv'
<1> USE PgAssumption DEF Ended, Queued, Waiting, Running, PcSet, Somebody, Troubles, InGuard, Ending
<1>t. /\ TInv /\ TypeOK /\ DoneInv /\ CInv
      /\ WireInv /\ KnownInv /\ TxInv /\ OwnInv /\ WritingInv
      /\ PendInv /\ CommitInv /\ StoredInv
  BY DEF IInv, TInv, UInv
<1>u. /\ pc \in [Tasks -> PcSet] /\ done \in [Tasks -> 0..Size]
      /\ db \subseteq Rows /\ breaks \in 0..MaxBreaks
      /\ mixed \subseteq Tasks /\ troubles \subseteq Troubles
      /\ conn \in Conn /\ link \in Link
      /\ conn.owner \in Somebody /\ conn.tx \in Somebody /\ conn.depth \in Nat
      /\ conn.held \in BOOLEAN /\ conn.begun \in BOOLEAN /\ conn.lost \in BOOLEAN
      /\ conn.raw \in {"up", "closed", "none"}
      /\ link.wire \in Somebody /\ link.top \in Somebody
      /\ link.open \in BOOLEAN /\ link.pending \subseteq Rows
  BY <1>t, Parts
<1>1. ASSUME NEW t \in Tasks, Execute(t) PROVE IInv'
  <2>g. /\ pc[t] \in {"idle", "between"}
        /\ \A u \in Tasks : pc[u] \in Running => u = t
    BY <1>1 DEF Execute, At
  <2>1. CASE conn.owner = t /\ Take(t) /\ UNCHANGED troubles
    <3>a. /\ conn' = [conn EXCEPT !.owner = t, !.depth = conn.depth + 1]
          /\ link' = link
      BY <1>u, <1>1, <2>g, <2>1 DEF Execute, Take, TakeOver, Enqueue, Gone, Queue, SendRollback, Forget, Ends, At, Goto, Rest, Calm
    <3>d. /\ pc' = [pc EXCEPT ![t] = "inside"]
          /\ done' = done
          /\ db' = db
          /\ mixed' = mixed
          /\ troubles' = troubles
          /\ breaks' = breaks
      BY <1>u, <1>1, <2>g, <2>1 DEF Execute, Take, TakeOver, Enqueue, Gone, Queue, SendRollback, Forget, Ends, At, Goto, Rest, Calm
    <3>m. conn.depth + 1 \in Nat
      BY <1>u
    <3>e. /\ conn' \in Conn
          /\ conn'.tx = conn.tx
          /\ conn'.begun = conn.begun
          /\ conn'.lost = conn.lost
          /\ conn'.raw = conn.raw
          /\ conn'.owner = t
          /\ conn'.depth = (conn.depth + 1)
          /\ conn'.held = conn.held
      BY <1>u, <3>a, <3>m DEF Conn
    <3>l. /\ link' \in Link
          /\ link'.wire = link.wire
          /\ link'.open = link.open
          /\ link'.top = link.top
          /\ link'.pending = link.pending
      BY <1>u, <3>a
    <3>t. TInv'
      BY <1>t, <1>u, <1>1, <2>g, <2>1, <3>d, <3>e, <3>l DEF TInv, TypeOK, DoneInv, AtWork, At, Rows, Execute
    <3>1. WireInv' /\ KnownInv' /\ WritingInv'
      BY <1>t, <1>u, <1>1, <2>g, <2>1, <3>d, <3>e, <3>l DEF WireInv, KnownInv, TxInv, OwnInv, WritingInv, PendInv, CommitInv, StoredInv, AtWork, CanAsk, At, RowsOf, Execute
    <3>2. TxInv' /\ OwnInv'
      BY <1>t, <1>u, <1>1, <2>g, <2>1, <3>d, <3>e, <3>l DEF WireInv, KnownInv, TxInv, OwnInv, WritingInv, PendInv, CommitInv, StoredInv, AtWork, CanAsk, At, RowsOf, Execute
    <3>3. PendInv' /\ CommitInv' /\ StoredInv'
      BY <1>t, <1>u, <1>1, <2>g, <2>1, <3>d, <3>e, <3>l DEF WireInv, KnownInv, TxInv, OwnInv, WritingInv, PendInv, CommitInv, StoredInv, AtWork, CanAsk, At, RowsOf, Rows, Execute
    <3>4. ASSUME troubles' = {} PROVE Unharmed'
      <4>c. /\ troubles = {} /\ mixed = {}
            /\ LockInv
            /\ HeldInv
            /\ DepthInv
            /\ SessionInv
        BY <1>t, <3>d, <3>4 DEF CInv, Unharmed
      <4>f. /\ conn.owner = t
            /\ conn.tx = t
            /\ conn.held
            /\ conn.depth = 1
        BY <1>t, <1>u, <1>1, <2>g, <2>1, <3>4, <3>d, <4>c DEF LockInv, HeldInv, DepthInv, SessionInv, WireInv, KnownInv, AtWork, Gone, CanAsk, At, Execute
      <4>g. /\ conn'.owner = conn.owner
            /\ conn'.depth = 2
            /\ conn'.held = conn.held
        BY <1>u, <3>e, <4>c, <4>f
      <4>1. mixed' = {} /\ LockInv'
        BY <1>t, <1>u, <1>1, <2>g, <2>1, <3>d, <3>e, <3>l, <4>c, <4>f, <4>g DEF LockInv, HeldInv, DepthInv, SessionInv, WireInv, KnownInv, AtWork, CanAsk, At, RowsOf, Rows
      <4>2. HeldInv' /\ DepthInv'
        BY <1>t, <1>u, <1>1, <2>g, <2>1, <3>d, <3>e, <3>l, <4>c, <4>f, <4>g DEF LockInv, HeldInv, DepthInv, SessionInv, WireInv, KnownInv, AtWork, CanAsk, At, RowsOf, Rows
      <4>3. SessionInv'
        BY <1>t, <1>u, <1>1, <2>g, <2>1, <3>d, <3>e, <3>l, <4>c, <4>f, <4>g DEF LockInv, HeldInv, DepthInv, SessionInv, WireInv, KnownInv, AtWork, CanAsk, At, RowsOf, Rows
      <4> QED BY <4>1, <4>2, <4>3 DEF Unharmed
    <3> QED BY <3>t, <3>1, <3>2, <3>3, <3>4 DEF IInv, UInv, CInv
  <2>2. CASE conn.owner = NoTask /\ Take(t) /\ UNCHANGED troubles
    <3>a. /\ conn' = [conn EXCEPT !.owner = t, !.depth = conn.depth + 1]
          /\ link' = link
      BY <1>u, <1>1, <2>g, <2>2 DEF Execute, Take, TakeOver, Enqueue, Gone, Queue, SendRollback, Forget, Ends, At, Goto, Rest, Calm
    <3>d. /\ pc' = [pc EXCEPT ![t] = "inside"]
          /\ done' = done
          /\ db' = db
          /\ mixed' = mixed
          /\ troubles' = troubles
          /\ breaks' = breaks
      BY <1>u, <1>1, <2>g, <2>2 DEF Execute, Take, TakeOver, Enqueue, Gone, Queue, SendRollback, Forget, Ends, At, Goto, Rest, Calm
    <3>m. conn.depth + 1 \in Nat
      BY <1>u
    <3>e. /\ conn' \in Conn
          /\ conn'.tx = conn.tx
          /\ conn'.begun = conn.begun
          /\ conn'.lost = conn.lost
          /\ conn'.raw = conn.raw
          /\ conn'.owner = t
          /\ conn'.depth = (conn.depth + 1)
          /\ conn'.held = conn.held
      BY <1>u, <3>a, <3>m DEF Conn
    <3>l. /\ link' \in Link
          /\ link'.wire = link.wire
          /\ link'.open = link.open
          /\ link'.top = link.top
          /\ link'.pending = link.pending
      BY <1>u, <3>a
    <3>t. TInv'
      BY <1>t, <1>u, <1>1, <2>g, <2>2, <3>d, <3>e, <3>l DEF TInv, TypeOK, DoneInv, AtWork, At, Rows, Execute
    <3>1. WireInv' /\ KnownInv' /\ WritingInv'
      BY <1>t, <1>u, <1>1, <2>g, <2>2, <3>d, <3>e, <3>l DEF WireInv, KnownInv, TxInv, OwnInv, WritingInv, PendInv, CommitInv, StoredInv, AtWork, CanAsk, At, RowsOf, Execute
    <3>2. TxInv' /\ OwnInv'
      BY <1>t, <1>u, <1>1, <2>g, <2>2, <3>d, <3>e, <3>l DEF WireInv, KnownInv, TxInv, OwnInv, WritingInv, PendInv, CommitInv, StoredInv, AtWork, CanAsk, At, RowsOf, Execute
    <3>3. PendInv' /\ CommitInv' /\ StoredInv'
      BY <1>t, <1>u, <1>1, <2>g, <2>2, <3>d, <3>e, <3>l DEF WireInv, KnownInv, TxInv, OwnInv, WritingInv, PendInv, CommitInv, StoredInv, AtWork, CanAsk, At, RowsOf, Rows, Execute
    <3>4. ASSUME troubles' = {} PROVE Unharmed'
      <4>c. /\ troubles = {} /\ mixed = {}
            /\ LockInv
            /\ HeldInv
            /\ DepthInv
            /\ SessionInv
        BY <1>t, <3>d, <3>4 DEF CInv, Unharmed
      <4>f. /\ conn.tx = NoTask
            /\ ~conn.held
            /\ conn.depth = 0
        BY <1>t, <1>u, <1>1, <2>g, <2>2, <3>4, <3>d, <4>c DEF LockInv, HeldInv, DepthInv, SessionInv, WireInv, KnownInv, AtWork, Gone, CanAsk, At, Execute
      <4>g. /\ conn'.owner = t
            /\ conn'.depth = 1
            /\ conn'.held = conn.held
        BY <1>u, <3>e, <4>c, <4>f
      <4>1. mixed' = {} /\ LockInv'
        BY <1>t, <1>u, <1>1, <2>g, <2>2, <3>d, <3>e, <3>l, <4>c, <4>f, <4>g DEF LockInv, HeldInv, DepthInv, SessionInv, WireInv, KnownInv, AtWork, CanAsk, At, RowsOf, Rows
      <4>2. HeldInv' /\ DepthInv'
        BY <1>t, <1>u, <1>1, <2>g, <2>2, <3>d, <3>e, <3>l, <4>c, <4>f, <4>g DEF LockInv, HeldInv, DepthInv, SessionInv, WireInv, KnownInv, AtWork, CanAsk, At, RowsOf, Rows
      <4>3. SessionInv'
        BY <1>t, <1>u, <1>1, <2>g, <2>2, <3>d, <3>e, <3>l, <4>c, <4>f, <4>g DEF LockInv, HeldInv, DepthInv, SessionInv, WireInv, KnownInv, AtWork, CanAsk, At, RowsOf, Rows
      <4> QED BY <4>1, <4>2, <4>3 DEF Unharmed
    <3> QED BY <3>t, <3>1, <3>2, <3>3, <3>4 DEF IInv, UInv, CInv
  <2>3. CASE Gone(conn.owner) /\ TakeOver(t) /\ UNCHANGED troubles
    <3>1. TakeOver(t) /\ UNCHANGED troubles /\ Rest /\ done[t] < Size
      BY <1>t, <1>u, <1>1, <2>g, <2>3 DEF Execute, DoneInv
    <3>2. troubles = {} => Gone(conn.owner)
      BY <1>t, <1>u, <1>1, <2>g, <2>3 DEF Execute, CInv, Unharmed, LockInv
    <3> QED BY <1>u, <1>1, <2>g, <3>1, <3>2, TakeOverStep
  <2>4. CASE conn' = [conn EXCEPT !.owner = NoTask, !.depth = 0] /\ troubles' = troubles \cup {"crowded"} /\ Enqueue(t, "thief")
    <3>a. /\ conn' = [conn EXCEPT !.owner = NoTask, !.depth = 0]
          /\ link' = link
      BY <1>u, <1>1, <2>g, <2>4 DEF Execute, Take, TakeOver, Enqueue, Gone, Queue, SendRollback, Forget, Ends, At, Goto, Rest, Calm
    <3>d. /\ pc' = [pc EXCEPT ![t] = "thief"]
          /\ done' = done
          /\ db' = db
          /\ mixed' = mixed
          /\ troubles' = troubles \cup {"crowded"}
          /\ breaks' = breaks
      BY <1>u, <1>1, <2>g, <2>4 DEF Execute, Take, TakeOver, Enqueue, Gone, Queue, SendRollback, Forget, Ends, At, Goto, Rest, Calm
    <3>e. /\ conn' \in Conn
          /\ conn'.tx = conn.tx
          /\ conn'.begun = conn.begun
          /\ conn'.lost = conn.lost
          /\ conn'.raw = conn.raw
          /\ conn'.owner = NoTask
          /\ conn'.depth = 0
          /\ conn'.held = conn.held
      BY <1>u, <3>a DEF Conn
    <3>l. /\ link' \in Link
          /\ link'.wire = link.wire
          /\ link'.open = link.open
          /\ link'.top = link.top
          /\ link'.pending = link.pending
      BY <1>u, <3>a
    <3>t. TInv'
      BY <1>t, <1>u, <1>1, <2>g, <2>4, <3>d, <3>e, <3>l DEF TInv, TypeOK, DoneInv, AtWork, At, Rows, Execute
    <3>1. WireInv' /\ KnownInv' /\ WritingInv'
      BY <1>t, <1>u, <1>1, <2>g, <2>4, <3>d, <3>e, <3>l DEF WireInv, KnownInv, TxInv, OwnInv, WritingInv, PendInv, CommitInv, StoredInv, AtWork, CanAsk, At, RowsOf, Execute
    <3>2. TxInv' /\ OwnInv'
      BY <1>t, <1>u, <1>1, <2>g, <2>4, <3>d, <3>e, <3>l DEF WireInv, KnownInv, TxInv, OwnInv, WritingInv, PendInv, CommitInv, StoredInv, AtWork, CanAsk, At, RowsOf, Execute
    <3>3. PendInv' /\ CommitInv' /\ StoredInv'
      BY <1>t, <1>u, <1>1, <2>g, <2>4, <3>d, <3>e, <3>l DEF WireInv, KnownInv, TxInv, OwnInv, WritingInv, PendInv, CommitInv, StoredInv, AtWork, CanAsk, At, RowsOf, Rows, Execute
    <3>4. CInv'
      BY <3>d DEF CInv
    <3> QED BY <3>t, <3>1, <3>2, <3>3, <3>4 DEF IInv, UInv, CInv
  <2>5. CASE AtWork(conn.owner) /\ conn.owner # t /\ Enqueue(t, "queued") /\ UNCHANGED <<conn, troubles>>
    <3>a. /\ conn' = conn
          /\ link' = link
      BY <1>u, <1>1, <2>g, <2>5 DEF Execute, Take, TakeOver, Enqueue, Gone, Queue, SendRollback, Forget, Ends, At, Goto, Rest, Calm
    <3>d. /\ pc' = [pc EXCEPT ![t] = "queued"]
          /\ done' = done
          /\ db' = db
          /\ mixed' = mixed
          /\ troubles' = troubles
          /\ breaks' = breaks
      BY <1>u, <1>1, <2>g, <2>5 DEF Execute, Take, TakeOver, Enqueue, Gone, Queue, SendRollback, Forget, Ends, At, Goto, Rest, Calm
    <3>e. /\ conn' \in Conn
          /\ conn'.tx = conn.tx
          /\ conn'.begun = conn.begun
          /\ conn'.lost = conn.lost
          /\ conn'.raw = conn.raw
          /\ conn'.owner = conn.owner
          /\ conn'.depth = conn.depth
          /\ conn'.held = conn.held
      BY <1>u, <3>a
    <3>l. /\ link' \in Link
          /\ link'.wire = link.wire
          /\ link'.open = link.open
          /\ link'.top = link.top
          /\ link'.pending = link.pending
      BY <1>u, <3>a
    <3>t. TInv'
      BY <1>t, <1>u, <1>1, <2>g, <2>5, <3>d, <3>e, <3>l DEF TInv, TypeOK, DoneInv, AtWork, At, Rows, Execute
    <3>1. WireInv' /\ KnownInv' /\ WritingInv'
      BY <1>t, <1>u, <1>1, <2>g, <2>5, <3>d, <3>e, <3>l DEF WireInv, KnownInv, TxInv, OwnInv, WritingInv, PendInv, CommitInv, StoredInv, AtWork, CanAsk, At, RowsOf, Execute
    <3>2. TxInv' /\ OwnInv'
      BY <1>t, <1>u, <1>1, <2>g, <2>5, <3>d, <3>e, <3>l DEF WireInv, KnownInv, TxInv, OwnInv, WritingInv, PendInv, CommitInv, StoredInv, AtWork, CanAsk, At, RowsOf, Execute
    <3>3. PendInv' /\ CommitInv' /\ StoredInv'
      BY <1>t, <1>u, <1>1, <2>g, <2>5, <3>d, <3>e, <3>l DEF WireInv, KnownInv, TxInv, OwnInv, WritingInv, PendInv, CommitInv, StoredInv, AtWork, CanAsk, At, RowsOf, Rows, Execute
    <3>4. ASSUME troubles' = {} PROVE Unharmed'
      <4>c. /\ troubles = {} /\ mixed = {}
            /\ LockInv
            /\ HeldInv
            /\ DepthInv
            /\ SessionInv
        BY <1>t, <3>d, <3>4 DEF CInv, Unharmed
      <4>f. conn.owner # t
        BY <1>t, <1>u, <1>1, <2>g, <2>5, <3>4, <3>d, <4>c DEF LockInv, HeldInv, DepthInv, SessionInv, WireInv, KnownInv, AtWork, Gone, CanAsk, At, Execute
      <4>1. mixed' = {} /\ LockInv'
        BY <1>t, <1>u, <1>1, <2>g, <2>5, <3>d, <3>e, <3>l, <4>c, <4>f DEF LockInv, HeldInv, DepthInv, SessionInv, WireInv, KnownInv, AtWork, CanAsk, At, RowsOf, Rows
      <4>2. HeldInv' /\ DepthInv'
        BY <1>t, <1>u, <1>1, <2>g, <2>5, <3>d, <3>e, <3>l, <4>c, <4>f DEF LockInv, HeldInv, DepthInv, SessionInv, WireInv, KnownInv, AtWork, CanAsk, At, RowsOf, Rows
      <4>3. SessionInv'
        BY <1>t, <1>u, <1>1, <2>g, <2>5, <3>d, <3>e, <3>l, <4>c, <4>f DEF LockInv, HeldInv, DepthInv, SessionInv, WireInv, KnownInv, AtWork, CanAsk, At, RowsOf, Rows
      <4> QED BY <4>1, <4>2, <4>3 DEF Unharmed
    <3> QED BY <3>t, <3>1, <3>2, <3>3, <3>4 DEF IInv, UInv, CInv
  <2>6. CASE conn.owner = NoTask /\ Enqueue(t, "patient") /\ UNCHANGED <<conn, troubles>>
    <3>a. /\ conn' = conn
          /\ link' = link
      BY <1>u, <1>1, <2>g, <2>6 DEF Execute, Take, TakeOver, Enqueue, Gone, Queue, SendRollback, Forget, Ends, At, Goto, Rest, Calm
    <3>d. /\ pc' = [pc EXCEPT ![t] = "patient"]
          /\ done' = done
          /\ db' = db
          /\ mixed' = mixed
          /\ troubles' = troubles
          /\ breaks' = breaks
      BY <1>u, <1>1, <2>g, <2>6 DEF Execute, Take, TakeOver, Enqueue, Gone, Queue, SendRollback, Forget, Ends, At, Goto, Rest, Calm
    <3>e. /\ conn' \in Conn
          /\ conn'.tx = conn.tx
          /\ conn'.begun = conn.begun
          /\ conn'.lost = conn.lost
          /\ conn'.raw = conn.raw
          /\ conn'.owner = conn.owner
          /\ conn'.depth = conn.depth
          /\ conn'.held = conn.held
      BY <1>u, <3>a
    <3>l. /\ link' \in Link
          /\ link'.wire = link.wire
          /\ link'.open = link.open
          /\ link'.top = link.top
          /\ link'.pending = link.pending
      BY <1>u, <3>a
    <3>t. TInv'
      BY <1>t, <1>u, <1>1, <2>g, <2>6, <3>d, <3>e, <3>l DEF TInv, TypeOK, DoneInv, AtWork, At, Rows, Execute
    <3>1. WireInv' /\ KnownInv' /\ WritingInv'
      BY <1>t, <1>u, <1>1, <2>g, <2>6, <3>d, <3>e, <3>l DEF WireInv, KnownInv, TxInv, OwnInv, WritingInv, PendInv, CommitInv, StoredInv, AtWork, CanAsk, At, RowsOf, Execute
    <3>2. TxInv' /\ OwnInv'
      BY <1>t, <1>u, <1>1, <2>g, <2>6, <3>d, <3>e, <3>l DEF WireInv, KnownInv, TxInv, OwnInv, WritingInv, PendInv, CommitInv, StoredInv, AtWork, CanAsk, At, RowsOf, Execute
    <3>3. PendInv' /\ CommitInv' /\ StoredInv'
      BY <1>t, <1>u, <1>1, <2>g, <2>6, <3>d, <3>e, <3>l DEF WireInv, KnownInv, TxInv, OwnInv, WritingInv, PendInv, CommitInv, StoredInv, AtWork, CanAsk, At, RowsOf, Rows, Execute
    <3>4. ASSUME troubles' = {} PROVE Unharmed'
      <4>c. /\ troubles = {} /\ mixed = {}
            /\ LockInv
            /\ HeldInv
            /\ DepthInv
            /\ SessionInv
        BY <1>t, <3>d, <3>4 DEF CInv, Unharmed
      <4>f. conn.owner # t
        BY <1>t, <1>u, <1>1, <2>g, <2>6, <3>4, <3>d, <4>c DEF LockInv, HeldInv, DepthInv, SessionInv, WireInv, KnownInv, AtWork, Gone, CanAsk, At, Execute
      <4>1. mixed' = {} /\ LockInv'
        BY <1>t, <1>u, <1>1, <2>g, <2>6, <3>d, <3>e, <3>l, <4>c, <4>f DEF LockInv, HeldInv, DepthInv, SessionInv, WireInv, KnownInv, AtWork, CanAsk, At, RowsOf, Rows
      <4>2. HeldInv' /\ DepthInv'
        BY <1>t, <1>u, <1>1, <2>g, <2>6, <3>d, <3>e, <3>l, <4>c, <4>f DEF LockInv, HeldInv, DepthInv, SessionInv, WireInv, KnownInv, AtWork, CanAsk, At, RowsOf, Rows
      <4>3. SessionInv'
        BY <1>t, <1>u, <1>1, <2>g, <2>6, <3>d, <3>e, <3>l, <4>c, <4>f DEF LockInv, HeldInv, DepthInv, SessionInv, WireInv, KnownInv, AtWork, CanAsk, At, RowsOf, Rows
      <4> QED BY <4>1, <4>2, <4>3 DEF Unharmed
    <3> QED BY <3>t, <3>1, <3>2, <3>3, <3>4 DEF IInv, UInv, CInv
  <2> QED BY <1>u, <1>1, <2>g, <2>1, <2>2, <2>3, <2>4, <2>5, <2>6 DEF Execute, Take, TakeOver, Enqueue, Gone, Queue, SendRollback, Forget, Ends, CanAsk, At
<1>2. ASSUME NEW t \in Tasks, Granted(t) PROVE IInv'
  <2>g. /\ pc[t] \in Queued
        /\ \A u \in Tasks : pc[u] \in Running => u = t
    BY <1>2 DEF Granted, At
  <2>1. CASE pc[t] # "thief"
    <3>a. /\ conn' = [conn EXCEPT !.owner = t, !.depth = conn.depth + 1]
          /\ link' = link
      BY <1>u, <1>2, <2>g, <2>1 DEF Granted, Take, TakeOver, At, Goto, Rest, Calm
    <3>d. /\ pc' = [pc EXCEPT ![t] = "inside"]
          /\ done' = done
          /\ db' = db
          /\ mixed' = mixed
          /\ troubles' = troubles
          /\ breaks' = breaks
      BY <1>u, <1>2, <2>g, <2>1 DEF Granted, Take, TakeOver, At, Goto, Rest, Calm
    <3>m. conn.depth + 1 \in Nat
      BY <1>u
    <3>e. /\ conn' \in Conn
          /\ conn'.tx = conn.tx
          /\ conn'.begun = conn.begun
          /\ conn'.lost = conn.lost
          /\ conn'.raw = conn.raw
          /\ conn'.owner = t
          /\ conn'.depth = (conn.depth + 1)
          /\ conn'.held = conn.held
      BY <1>u, <3>a, <3>m DEF Conn
    <3>l. /\ link' \in Link
          /\ link'.wire = link.wire
          /\ link'.open = link.open
          /\ link'.top = link.top
          /\ link'.pending = link.pending
      BY <1>u, <3>a
    <3>t. TInv'
      BY <1>t, <1>u, <1>2, <2>g, <2>1, <3>d, <3>e, <3>l DEF TInv, TypeOK, DoneInv, AtWork, At, Rows
    <3>1. WireInv' /\ KnownInv' /\ WritingInv'
      BY <1>t, <1>u, <1>2, <2>g, <2>1, <3>d, <3>e, <3>l DEF WireInv, KnownInv, TxInv, OwnInv, WritingInv, PendInv, CommitInv, StoredInv, AtWork, CanAsk, At, RowsOf
    <3>2. TxInv' /\ OwnInv'
      BY <1>t, <1>u, <1>2, <2>g, <2>1, <3>d, <3>e, <3>l DEF WireInv, KnownInv, TxInv, OwnInv, WritingInv, PendInv, CommitInv, StoredInv, AtWork, CanAsk, At, RowsOf
    <3>3. PendInv' /\ CommitInv' /\ StoredInv'
      BY <1>t, <1>u, <1>2, <2>g, <2>1, <3>d, <3>e, <3>l DEF WireInv, KnownInv, TxInv, OwnInv, WritingInv, PendInv, CommitInv, StoredInv, AtWork, CanAsk, At, RowsOf, Rows
    <3>4. ASSUME troubles' = {} PROVE Unharmed'
      <4>c. /\ troubles = {} /\ mixed = {}
            /\ LockInv
            /\ HeldInv
            /\ DepthInv
            /\ SessionInv
        BY <1>t, <3>d, <3>4 DEF CInv, Unharmed
      <4>f. /\ conn.owner = NoTask
            /\ conn.tx = NoTask
            /\ ~conn.held
            /\ conn.depth = 0
        BY <1>t, <1>u, <1>2, <2>g, <2>1, <3>4, <3>d, <4>c DEF LockInv, HeldInv, DepthInv, SessionInv, WireInv, KnownInv, AtWork, Gone, CanAsk, At, Granted
      <4>g. /\ conn'.owner = t
            /\ conn'.depth = 1
            /\ conn'.held = conn.held
        BY <1>u, <3>e, <4>c, <4>f
      <4>1. mixed' = {} /\ LockInv'
        BY <1>t, <1>u, <1>2, <2>g, <2>1, <3>d, <3>e, <3>l, <4>c, <4>f, <4>g DEF LockInv, HeldInv, DepthInv, SessionInv, WireInv, KnownInv, AtWork, CanAsk, At, RowsOf, Rows
      <4>2. HeldInv' /\ DepthInv'
        BY <1>t, <1>u, <1>2, <2>g, <2>1, <3>d, <3>e, <3>l, <4>c, <4>f, <4>g DEF LockInv, HeldInv, DepthInv, SessionInv, WireInv, KnownInv, AtWork, CanAsk, At, RowsOf, Rows
      <4>3. SessionInv'
        BY <1>t, <1>u, <1>2, <2>g, <2>1, <3>d, <3>e, <3>l, <4>c, <4>f, <4>g DEF LockInv, HeldInv, DepthInv, SessionInv, WireInv, KnownInv, AtWork, CanAsk, At, RowsOf, Rows
      <4> QED BY <4>1, <4>2, <4>3 DEF Unharmed
    <3> QED BY <3>t, <3>1, <3>2, <3>3, <3>4 DEF IInv, UInv, CInv
  <2>2. CASE pc[t] = "thief"
    <3>1. TakeOver(t) /\ UNCHANGED troubles /\ Rest /\ done[t] < Size
      BY <1>t, <1>u, <1>2, <2>g, <2>2 DEF Granted, DoneInv
    <3>2. troubles = {} => Gone(conn.owner)
      BY <1>t, <1>u, <1>2, <2>g, <2>2 DEF Granted, CInv, Unharmed, LockInv
    <3> QED BY <1>u, <1>2, <2>g, <3>1, <3>2, TakeOverStep
  <2> QED BY <1>u, <1>2, <2>g, <2>1, <2>2 DEF Granted, Take, TakeOver, CanAsk, At
<1>3. ASSUME NEW t \in Tasks, Timeout(t) PROVE IInv'
  <2>g. /\ pc[t] \in {"queued"}
        /\ \A u \in Tasks : pc[u] \in Running => u = t
    BY <1>3 DEF Timeout, At
  <2>a. /\ conn' = conn
        /\ link' = link
    BY <1>u, <1>3, <2>g DEF Timeout, At, Goto, Rest, Calm
  <2>d. /\ pc' = [pc EXCEPT ![t] = "raised"]
        /\ done' = done
        /\ db' = db
        /\ mixed' = mixed
        /\ troubles' = troubles
        /\ breaks' = breaks
    BY <1>u, <1>3, <2>g DEF Timeout, At, Goto, Rest, Calm
  <2>e. /\ conn' \in Conn
        /\ conn'.tx = conn.tx
        /\ conn'.begun = conn.begun
        /\ conn'.lost = conn.lost
        /\ conn'.raw = conn.raw
        /\ conn'.owner = conn.owner
        /\ conn'.depth = conn.depth
        /\ conn'.held = conn.held
    BY <1>u, <2>a
  <2>l. /\ link' \in Link
        /\ link'.wire = link.wire
        /\ link'.open = link.open
        /\ link'.top = link.top
        /\ link'.pending = link.pending
    BY <1>u, <2>a
  <2>t. TInv'
    BY <1>t, <1>u, <1>3, <2>g, <2>d, <2>e, <2>l DEF TInv, TypeOK, DoneInv, AtWork, At, Rows
  <2>1. WireInv' /\ KnownInv' /\ WritingInv'
    BY <1>t, <1>u, <1>3, <2>g, <2>d, <2>e, <2>l DEF WireInv, KnownInv, TxInv, OwnInv, WritingInv, PendInv, CommitInv, StoredInv, AtWork, CanAsk, At, RowsOf
  <2>2. TxInv' /\ OwnInv'
    BY <1>t, <1>u, <1>3, <2>g, <2>d, <2>e, <2>l DEF WireInv, KnownInv, TxInv, OwnInv, WritingInv, PendInv, CommitInv, StoredInv, AtWork, CanAsk, At, RowsOf
  <2>3. PendInv' /\ CommitInv' /\ StoredInv'
    BY <1>t, <1>u, <1>3, <2>g, <2>d, <2>e, <2>l DEF WireInv, KnownInv, TxInv, OwnInv, WritingInv, PendInv, CommitInv, StoredInv, AtWork, CanAsk, At, RowsOf, Rows
  <2>4. ASSUME troubles' = {} PROVE Unharmed'
    <3>c. /\ troubles = {} /\ mixed = {}
          /\ LockInv
          /\ HeldInv
          /\ DepthInv
          /\ SessionInv
      BY <1>t, <2>d, <2>4 DEF CInv, Unharmed
    <3>f. conn.owner # t
      BY <1>t, <1>u, <1>3, <2>g, <2>4, <2>d, <3>c DEF LockInv, HeldInv, DepthInv, SessionInv, WireInv, KnownInv, AtWork, Gone, CanAsk, At, Timeout
    <3>1. mixed' = {} /\ LockInv'
      BY <1>t, <1>u, <1>3, <2>g, <2>d, <2>e, <2>l, <3>c, <3>f DEF LockInv, HeldInv, DepthInv, SessionInv, WireInv, KnownInv, AtWork, CanAsk, At, RowsOf, Rows
    <3>2. HeldInv' /\ DepthInv'
      BY <1>t, <1>u, <1>3, <2>g, <2>d, <2>e, <2>l, <3>c, <3>f DEF LockInv, HeldInv, DepthInv, SessionInv, WireInv, KnownInv, AtWork, CanAsk, At, RowsOf, Rows
    <3>3. SessionInv'
      BY <1>t, <1>u, <1>3, <2>g, <2>d, <2>e, <2>l, <3>c, <3>f DEF LockInv, HeldInv, DepthInv, SessionInv, WireInv, KnownInv, AtWork, CanAsk, At, RowsOf, Rows
    <3> QED BY <3>1, <3>2, <3>3 DEF Unharmed
  <2> QED BY <2>t, <2>1, <2>2, <2>3, <2>4 DEF IInv, UInv, CInv
<1>4. ASSUME NEW t \in Tasks, Statement(t) PROVE IInv'
  <2>g. /\ pc[t] \in {"inside"}
        /\ \A u \in Tasks : pc[u] \in Running => u = t
    BY <1>4 DEF Statement, At
  <2>1. CASE Refused(t, conn) /\ UNCHANGED <<link, mixed>>
    <3>a. /\ conn' = Exit(conn)
          /\ link' = link
      BY <1>u, <1>4, <2>g, <2>1 DEF Statement, Begin, Refused, At, Goto, Rest, Calm
    <3>d. /\ pc' = [pc EXCEPT ![t] = "raised"]
          /\ done' = done
          /\ db' = db
          /\ mixed' = mixed
          /\ troubles' = troubles
          /\ breaks' = breaks
      BY <1>u, <1>4, <2>g, <2>1 DEF Statement, Begin, Refused, At, Goto, Rest, Calm
    <3>e. /\ conn' \in Conn
          /\ conn'.tx = conn.tx
          /\ conn'.begun = conn.begun
          /\ conn'.lost = conn.lost
          /\ conn'.raw = conn.raw
      BY <1>u, <3>a, ExitFields
    <3>l. /\ link' \in Link
          /\ link'.wire = link.wire
          /\ link'.open = link.open
          /\ link'.top = link.top
          /\ link'.pending = link.pending
      BY <1>u, <3>a
    <3>t. TInv'
      BY <1>t, <1>u, <1>4, <2>g, <2>1, <3>d, <3>e, <3>l DEF TInv, TypeOK, DoneInv, AtWork, At, Rows
    <3>1. WireInv' /\ KnownInv' /\ WritingInv'
      BY <1>t, <1>u, <1>4, <2>g, <2>1, <3>d, <3>e, <3>l DEF WireInv, KnownInv, TxInv, OwnInv, WritingInv, PendInv, CommitInv, StoredInv, AtWork, CanAsk, At, RowsOf
    <3>2. TxInv' /\ OwnInv'
      BY <1>t, <1>u, <1>4, <2>g, <2>1, <3>d, <3>e, <3>l DEF WireInv, KnownInv, TxInv, OwnInv, WritingInv, PendInv, CommitInv, StoredInv, AtWork, CanAsk, At, RowsOf
    <3>3. PendInv' /\ CommitInv' /\ StoredInv'
      BY <1>t, <1>u, <1>4, <2>g, <2>1, <3>d, <3>e, <3>l DEF WireInv, KnownInv, TxInv, OwnInv, WritingInv, PendInv, CommitInv, StoredInv, AtWork, CanAsk, At, RowsOf, Rows
    <3>4. ASSUME troubles' = {} PROVE Unharmed'
      <4>c. /\ troubles = {} /\ mixed = {}
            /\ LockInv
            /\ HeldInv
            /\ DepthInv
            /\ SessionInv
        BY <1>t, <3>d, <3>4 DEF CInv, Unharmed
      <4>f. /\ conn.owner = t
            /\ conn.tx \in {t, NoTask}
            /\ conn.held <=> conn.tx = t
            /\ conn.depth = IF conn.tx = t THEN 2 ELSE 1
        BY <1>t, <1>u, <1>4, <2>g, <2>1, <3>4, <3>d, <4>c DEF LockInv, HeldInv, DepthInv, SessionInv, WireInv, KnownInv, AtWork, Gone, CanAsk, At, Statement
      <4>g. /\ conn'.owner = (IF conn.tx = t THEN t ELSE NoTask)
            /\ conn'.depth = (IF conn.tx = t THEN 1 ELSE 0)
            /\ conn'.held = conn.held
        BY <1>u, <3>a, <4>c, <4>f, ExitFields
      <4>1. mixed' = {} /\ LockInv'
        BY <1>t, <1>u, <1>4, <2>g, <2>1, <3>d, <3>e, <3>l, <4>c, <4>f, <4>g DEF LockInv, HeldInv, DepthInv, SessionInv, WireInv, KnownInv, AtWork, CanAsk, At, RowsOf, Rows
      <4>2. HeldInv' /\ DepthInv'
        BY <1>t, <1>u, <1>4, <2>g, <2>1, <3>d, <3>e, <3>l, <4>c, <4>f, <4>g DEF LockInv, HeldInv, DepthInv, SessionInv, WireInv, KnownInv, AtWork, CanAsk, At, RowsOf, Rows
      <4>3. SessionInv'
        BY <1>t, <1>u, <1>4, <2>g, <2>1, <3>d, <3>e, <3>l, <4>c, <4>f, <4>g DEF LockInv, HeldInv, DepthInv, SessionInv, WireInv, KnownInv, AtWork, CanAsk, At, RowsOf, Rows
      <4> QED BY <4>1, <4>2, <4>3 DEF Unharmed
    <3> QED BY <3>t, <3>1, <3>2, <3>3, <3>4 DEF IInv, UInv, CInv
  <2>2. CASE conn.raw = "up" /\ conn.tx = NoTask /\ Begin(t) /\ link.wire = NoTask /\ link.top = NoTask /\ ~link.open
    <3>a. /\ conn' = [conn EXCEPT !.tx = t, !.begun = FALSE, !.held = TRUE, !.depth = conn.depth + 1]
          /\ link' = [link EXCEPT !.wire = t, !.top = t]
      BY <1>u, <1>4, <2>g, <2>2 DEF Statement, Begin, Refused, At, Goto, Rest, Calm
    <3>d. /\ pc' = [pc EXCEPT ![t] = "opening"]
          /\ done' = done
          /\ db' = db
          /\ mixed' = mixed
          /\ troubles' = troubles
          /\ breaks' = breaks
      BY <1>u, <1>4, <2>g, <2>2 DEF Statement, Begin, Refused, At, Goto, Rest, Calm
    <3>m. conn.depth + 1 \in Nat
      BY <1>u
    <3>e. /\ conn' \in Conn
          /\ conn'.tx = t
          /\ conn'.begun = FALSE
          /\ conn'.lost = conn.lost
          /\ conn'.raw = conn.raw
          /\ conn'.owner = conn.owner
          /\ conn'.depth = (conn.depth + 1)
          /\ conn'.held = TRUE
      BY <1>u, <3>a, <3>m DEF Conn
    <3>l. /\ link' \in Link
          /\ link'.wire = t
          /\ link'.open = link.open
          /\ link'.top = t
          /\ link'.pending = link.pending
      BY <1>t, <1>u, <1>4, <2>g, <2>2, <3>a DEF Link
    <3>t. TInv'
      BY <1>t, <1>u, <1>4, <2>g, <2>2, <3>d, <3>e, <3>l DEF TInv, TypeOK, DoneInv, AtWork, At, Rows
    <3>1. WireInv' /\ KnownInv' /\ WritingInv'
      BY <1>t, <1>u, <1>4, <2>g, <2>2, <3>d, <3>e, <3>l DEF WireInv, KnownInv, TxInv, OwnInv, WritingInv, PendInv, CommitInv, StoredInv, AtWork, CanAsk, At, RowsOf
    <3>2. TxInv' /\ OwnInv'
      BY <1>t, <1>u, <1>4, <2>g, <2>2, <3>d, <3>e, <3>l DEF WireInv, KnownInv, TxInv, OwnInv, WritingInv, PendInv, CommitInv, StoredInv, AtWork, CanAsk, At, RowsOf
    <3>3. PendInv' /\ CommitInv' /\ StoredInv'
      BY <1>t, <1>u, <1>4, <2>g, <2>2, <3>d, <3>e, <3>l DEF WireInv, KnownInv, TxInv, OwnInv, WritingInv, PendInv, CommitInv, StoredInv, AtWork, CanAsk, At, RowsOf, Rows
    <3>4. ASSUME troubles' = {} PROVE Unharmed'
      <4>c. /\ troubles = {} /\ mixed = {}
            /\ LockInv
            /\ HeldInv
            /\ DepthInv
            /\ SessionInv
        BY <1>t, <3>d, <3>4 DEF CInv, Unharmed
      <4>f. /\ conn.owner = t
            /\ ~conn.held
            /\ conn.depth = 1
            /\ ~conn.lost
        BY <1>t, <1>u, <1>4, <2>g, <2>2, <3>4, <3>d, <4>c DEF LockInv, HeldInv, DepthInv, SessionInv, WireInv, KnownInv, AtWork, Gone, CanAsk, At, Statement
      <4>g. /\ conn'.owner = conn.owner
            /\ conn'.depth = 2
            /\ conn'.held = TRUE
        BY <1>u, <3>e, <4>c, <4>f
      <4>1. mixed' = {} /\ LockInv'
        BY <1>t, <1>u, <1>4, <2>g, <2>2, <3>d, <3>e, <3>l, <4>c, <4>f, <4>g DEF LockInv, HeldInv, DepthInv, SessionInv, WireInv, KnownInv, AtWork, CanAsk, At, RowsOf, Rows
      <4>2. HeldInv' /\ DepthInv'
        BY <1>t, <1>u, <1>4, <2>g, <2>2, <3>d, <3>e, <3>l, <4>c, <4>f, <4>g DEF LockInv, HeldInv, DepthInv, SessionInv, WireInv, KnownInv, AtWork, CanAsk, At, RowsOf, Rows
      <4>3. SessionInv'
        BY <1>t, <1>u, <1>4, <2>g, <2>2, <3>d, <3>e, <3>l, <4>c, <4>f, <4>g DEF LockInv, HeldInv, DepthInv, SessionInv, WireInv, KnownInv, AtWork, CanAsk, At, RowsOf, Rows
      <4> QED BY <4>1, <4>2, <4>3 DEF Unharmed
    <3> QED BY <3>t, <3>1, <3>2, <3>3, <3>4 DEF IInv, UInv, CInv
  <2>3. CASE conn.raw = "up" /\ conn.tx = NoTask /\ Begin(t) /\ link.wire = NoTask /\ link.top # NoTask /\ link.open
    <3>a. /\ conn' = [conn EXCEPT !.tx = t, !.begun = FALSE, !.held = TRUE, !.depth = conn.depth + 1]
          /\ link' = [link EXCEPT !.wire = t]
      BY <1>u, <1>4, <2>g, <2>3 DEF Statement, Begin, Refused, At, Goto, Rest, Calm
    <3>d. /\ pc' = [pc EXCEPT ![t] = "opening"]
          /\ done' = done
          /\ db' = db
          /\ mixed' = mixed \cup {t}
          /\ troubles' = troubles
          /\ breaks' = breaks
      BY <1>u, <1>4, <2>g, <2>3 DEF Statement, Begin, Refused, At, Goto, Rest, Calm
    <3>m. conn.depth + 1 \in Nat
      BY <1>u
    <3>e. /\ conn' \in Conn
          /\ conn'.tx = t
          /\ conn'.begun = FALSE
          /\ conn'.lost = conn.lost
          /\ conn'.raw = conn.raw
          /\ conn'.owner = conn.owner
          /\ conn'.depth = (conn.depth + 1)
          /\ conn'.held = TRUE
      BY <1>u, <3>a, <3>m DEF Conn
    <3>l. /\ link' \in Link
          /\ link'.wire = t
          /\ link'.open = link.open
          /\ link'.top = link.top
          /\ link'.pending = link.pending
      BY <1>t, <1>u, <1>4, <2>g, <2>3, <3>a DEF Link
    <3>t. TInv'
      BY <1>t, <1>u, <1>4, <2>g, <2>3, <3>d, <3>e, <3>l DEF TInv, TypeOK, DoneInv, AtWork, At, Rows
    <3>1. WireInv' /\ KnownInv' /\ WritingInv'
      BY <1>t, <1>u, <1>4, <2>g, <2>3, <3>d, <3>e, <3>l DEF WireInv, KnownInv, TxInv, OwnInv, WritingInv, PendInv, CommitInv, StoredInv, AtWork, CanAsk, At, RowsOf
    <3>2. TxInv' /\ OwnInv'
      BY <1>t, <1>u, <1>4, <2>g, <2>3, <3>d, <3>e, <3>l DEF WireInv, KnownInv, TxInv, OwnInv, WritingInv, PendInv, CommitInv, StoredInv, AtWork, CanAsk, At, RowsOf
    <3>3. PendInv' /\ CommitInv' /\ StoredInv'
      BY <1>t, <1>u, <1>4, <2>g, <2>3, <3>d, <3>e, <3>l DEF WireInv, KnownInv, TxInv, OwnInv, WritingInv, PendInv, CommitInv, StoredInv, AtWork, CanAsk, At, RowsOf, Rows
    <3>4. ASSUME troubles' = {} PROVE Unharmed'
      <4>c. /\ troubles = {} /\ mixed = {}
            /\ LockInv
            /\ HeldInv
            /\ DepthInv
            /\ SessionInv
        BY <1>t, <3>d, <3>4 DEF CInv, Unharmed
      <4> QED
        BY <1>t, <1>u, <1>4, <2>g, <2>3, <4>c DEF LockInv, HeldInv, DepthInv, SessionInv, WireInv, KnownInv, TxInv, OwnInv, WritingInv, PendInv, CommitInv, StoredInv, AtWork, Gone, CanAsk, At
    <3> QED BY <3>t, <3>1, <3>2, <3>3, <3>4 DEF IInv, UInv, CInv
  <2>4. CASE conn.raw = "up" /\ conn.tx = NoTask /\ Begin(t) /\ ~(link.wire = NoTask /\ (link.top = NoTask <=> ~link.open))
    <3>a. /\ conn' = Exit([conn EXCEPT !.held = FALSE])
          /\ link' = [link EXCEPT !.top = IF link.top = NoTask /\ ~link.open THEN t ELSE link.top]
      BY <1>u, <1>4, <2>g, <2>4 DEF Statement, Begin, Refused, At, Goto, Rest, Calm
    <3>d. /\ pc' = [pc EXCEPT ![t] = "raised"]
          /\ done' = done
          /\ db' = db
          /\ mixed' = mixed
          /\ troubles' = troubles
          /\ breaks' = breaks
      BY <1>u, <1>4, <2>g, <2>4 DEF Statement, Begin, Refused, At, Goto, Rest, Calm
    <3>k. /\ [conn EXCEPT !.held = FALSE] \in Conn
          /\ [conn EXCEPT !.held = FALSE].tx = conn.tx
          /\ [conn EXCEPT !.held = FALSE].begun = conn.begun
          /\ [conn EXCEPT !.held = FALSE].lost = conn.lost
          /\ [conn EXCEPT !.held = FALSE].raw = conn.raw
          /\ [conn EXCEPT !.held = FALSE].owner = conn.owner
          /\ [conn EXCEPT !.held = FALSE].depth = conn.depth
          /\ [conn EXCEPT !.held = FALSE].held = FALSE
      BY <1>u DEF Conn
    <3>e. /\ conn' \in Conn
          /\ conn'.tx = conn.tx
          /\ conn'.begun = conn.begun
          /\ conn'.lost = conn.lost
          /\ conn'.raw = conn.raw
      BY <1>u, <3>a, <3>k, ExitFields
    <3>l. /\ link' \in Link
          /\ link'.wire = link.wire
          /\ link'.open = link.open
          /\ link'.top = (IF link.top = NoTask /\ ~link.open THEN t ELSE link.top)
          /\ link'.pending = link.pending
      BY <1>t, <1>u, <1>4, <2>g, <2>4, <3>a DEF Link
    <3>t. TInv'
      BY <1>t, <1>u, <1>4, <2>g, <2>4, <3>d, <3>e, <3>l DEF TInv, TypeOK, DoneInv, AtWork, At, Rows
    <3>1. WireInv' /\ KnownInv' /\ WritingInv'
      BY <1>t, <1>u, <1>4, <2>g, <2>4, <3>d, <3>e, <3>l DEF WireInv, KnownInv, TxInv, OwnInv, WritingInv, PendInv, CommitInv, StoredInv, AtWork, CanAsk, At, RowsOf
    <3>2. TxInv' /\ OwnInv'
      BY <1>t, <1>u, <1>4, <2>g, <2>4, <3>d, <3>e, <3>l DEF WireInv, KnownInv, TxInv, OwnInv, WritingInv, PendInv, CommitInv, StoredInv, AtWork, CanAsk, At, RowsOf
    <3>3. PendInv' /\ CommitInv' /\ StoredInv'
      BY <1>t, <1>u, <1>4, <2>g, <2>4, <3>d, <3>e, <3>l DEF WireInv, KnownInv, TxInv, OwnInv, WritingInv, PendInv, CommitInv, StoredInv, AtWork, CanAsk, At, RowsOf, Rows
    <3>4. ASSUME troubles' = {} PROVE Unharmed'
      <4>c. /\ troubles = {} /\ mixed = {}
            /\ LockInv
            /\ HeldInv
            /\ DepthInv
            /\ SessionInv
        BY <1>t, <3>d, <3>4 DEF CInv, Unharmed
      <4> QED
        BY <1>t, <1>u, <1>4, <2>g, <2>4, <4>c DEF LockInv, HeldInv, DepthInv, SessionInv, WireInv, KnownInv, TxInv, OwnInv, WritingInv, PendInv, CommitInv, StoredInv, AtWork, Gone, CanAsk, At
    <3> QED BY <3>t, <3>1, <3>2, <3>3, <3>4 DEF IInv, UInv, CInv
  <2>5. CASE conn.raw = "up" /\ conn.tx # NoTask /\ ~conn.lost /\ link.wire = NoTask /\ UNCHANGED conn /\ Goto(t, "writing")
    <3>a. /\ conn' = conn
          /\ link' = [link EXCEPT !.wire = t]
      BY <1>u, <1>4, <2>g, <2>5 DEF Statement, Begin, Refused, At, Goto, Rest, Calm
    <3>d. /\ pc' = [pc EXCEPT ![t] = "writing"]
          /\ done' = done
          /\ db' = db
          /\ mixed' = (IF conn.tx = t THEN mixed ELSE mixed \cup {t, conn.tx})
          /\ troubles' = troubles
          /\ breaks' = breaks
      BY <1>u, <1>4, <2>g, <2>5 DEF Statement, Begin, Refused, At, Goto, Rest, Calm
    <3>e. /\ conn' \in Conn
          /\ conn'.tx = conn.tx
          /\ conn'.begun = conn.begun
          /\ conn'.lost = conn.lost
          /\ conn'.raw = conn.raw
          /\ conn'.owner = conn.owner
          /\ conn'.depth = conn.depth
          /\ conn'.held = conn.held
      BY <1>u, <3>a
    <3>l. /\ link' \in Link
          /\ link'.wire = t
          /\ link'.open = link.open
          /\ link'.top = link.top
          /\ link'.pending = link.pending
      BY <1>t, <1>u, <1>4, <2>g, <2>5, <3>a DEF Link
    <3>t. TInv'
      BY <1>t, <1>u, <1>4, <2>g, <2>5, <3>d, <3>e, <3>l DEF TInv, TypeOK, DoneInv, AtWork, At, Rows
    <3>1. WireInv' /\ KnownInv' /\ WritingInv'
      BY <1>t, <1>u, <1>4, <2>g, <2>5, <3>d, <3>e, <3>l DEF WireInv, KnownInv, TxInv, OwnInv, WritingInv, PendInv, CommitInv, StoredInv, AtWork, CanAsk, At, RowsOf
    <3>2. TxInv' /\ OwnInv'
      BY <1>t, <1>u, <1>4, <2>g, <2>5, <3>d, <3>e, <3>l DEF WireInv, KnownInv, TxInv, OwnInv, WritingInv, PendInv, CommitInv, StoredInv, AtWork, CanAsk, At, RowsOf
    <3>3. PendInv' /\ CommitInv' /\ StoredInv'
      BY <1>t, <1>u, <1>4, <2>g, <2>5, <3>d, <3>e, <3>l DEF WireInv, KnownInv, TxInv, OwnInv, WritingInv, PendInv, CommitInv, StoredInv, AtWork, CanAsk, At, RowsOf, Rows
    <3>4. ASSUME troubles' = {} PROVE Unharmed'
      <4>c. /\ troubles = {} /\ mixed = {}
            /\ LockInv
            /\ HeldInv
            /\ DepthInv
            /\ SessionInv
        BY <1>t, <3>d, <3>4 DEF CInv, Unharmed
      <4>f. /\ conn.owner = t
            /\ conn.tx = t
            /\ conn.held
        BY <1>t, <1>u, <1>4, <2>g, <2>5, <3>4, <3>d, <4>c DEF LockInv, HeldInv, DepthInv, SessionInv, WireInv, KnownInv, AtWork, Gone, CanAsk, At, Statement
      <4>1. mixed' = {} /\ LockInv'
        BY <1>t, <1>u, <1>4, <2>g, <2>5, <3>d, <3>e, <3>l, <4>c, <4>f DEF LockInv, HeldInv, DepthInv, SessionInv, WireInv, KnownInv, AtWork, CanAsk, At, RowsOf, Rows
      <4>2. HeldInv' /\ DepthInv'
        BY <1>t, <1>u, <1>4, <2>g, <2>5, <3>d, <3>e, <3>l, <4>c, <4>f DEF LockInv, HeldInv, DepthInv, SessionInv, WireInv, KnownInv, AtWork, CanAsk, At, RowsOf, Rows
      <4>3. SessionInv'
        BY <1>t, <1>u, <1>4, <2>g, <2>5, <3>d, <3>e, <3>l, <4>c, <4>f DEF LockInv, HeldInv, DepthInv, SessionInv, WireInv, KnownInv, AtWork, CanAsk, At, RowsOf, Rows
      <4> QED BY <4>1, <4>2, <4>3 DEF Unharmed
    <3> QED BY <3>t, <3>1, <3>2, <3>3, <3>4 DEF IInv, UInv, CInv
  <2> QED BY <1>u, <1>4, <2>g, <2>1, <2>2, <2>3, <2>4, <2>5 DEF Statement, Begin, Refused, CanAsk, At
<1>5. ASSUME NEW t \in Tasks, Opened(t) PROVE IInv'
  <2>g. /\ pc[t] \in {"opening"}
        /\ \A u \in Tasks : pc[u] \in Running => u = t
    BY <1>5 DEF Opened, At
  <2>1. CASE conn.raw = "up" /\ conn.tx = t
    <3>a. /\ conn' = [conn EXCEPT !.begun = TRUE]
          /\ link' = [link EXCEPT !.open = TRUE]
      BY <1>u, <1>5, <2>g, <2>1 DEF Opened, Refused, At, Goto, Rest, Calm
    <3>d. /\ pc' = [pc EXCEPT ![t] = "writing"]
          /\ done' = done
          /\ db' = db
          /\ mixed' = mixed
          /\ troubles' = troubles
          /\ breaks' = breaks
      BY <1>u, <1>5, <2>g, <2>1 DEF Opened, Refused, At, Goto, Rest, Calm
    <3>e. /\ conn' \in Conn
          /\ conn'.tx = conn.tx
          /\ conn'.begun = TRUE
          /\ conn'.lost = conn.lost
          /\ conn'.raw = conn.raw
          /\ conn'.owner = conn.owner
          /\ conn'.depth = conn.depth
          /\ conn'.held = conn.held
      BY <1>u, <3>a DEF Conn
    <3>l. /\ link' \in Link
          /\ link'.wire = link.wire
          /\ link'.open = TRUE
          /\ link'.top = link.top
          /\ link'.pending = link.pending
      BY <1>t, <1>u, <1>5, <2>g, <2>1, <3>a DEF Link
    <3>t. TInv'
      BY <1>t, <1>u, <1>5, <2>g, <2>1, <3>d, <3>e, <3>l DEF TInv, TypeOK, DoneInv, AtWork, At, Rows
    <3>1. WireInv' /\ KnownInv' /\ WritingInv'
      BY <1>t, <1>u, <1>5, <2>g, <2>1, <3>d, <3>e, <3>l DEF WireInv, KnownInv, TxInv, OwnInv, WritingInv, PendInv, CommitInv, StoredInv, AtWork, CanAsk, At, RowsOf
    <3>2. TxInv' /\ OwnInv'
      BY <1>t, <1>u, <1>5, <2>g, <2>1, <3>d, <3>e, <3>l DEF WireInv, KnownInv, TxInv, OwnInv, WritingInv, PendInv, CommitInv, StoredInv, AtWork, CanAsk, At, RowsOf
    <3>3. PendInv' /\ CommitInv' /\ StoredInv'
      BY <1>t, <1>u, <1>5, <2>g, <2>1, <3>d, <3>e, <3>l DEF WireInv, KnownInv, TxInv, OwnInv, WritingInv, PendInv, CommitInv, StoredInv, AtWork, CanAsk, At, RowsOf, Rows
    <3>4. ASSUME troubles' = {} PROVE Unharmed'
      <4>c. /\ troubles = {} /\ mixed = {}
            /\ LockInv
            /\ HeldInv
            /\ DepthInv
            /\ SessionInv
        BY <1>t, <3>d, <3>4 DEF CInv, Unharmed
      <4>f. /\ conn.owner = t
            /\ conn.tx = t
            /\ conn.held
            /\ ~conn.lost
        BY <1>t, <1>u, <1>5, <2>g, <2>1, <3>4, <3>d, <4>c DEF LockInv, HeldInv, DepthInv, SessionInv, WireInv, KnownInv, AtWork, Gone, CanAsk, At, Opened
      <4>g. /\ conn'.owner = conn.owner
            /\ conn'.depth = conn.depth
            /\ conn'.held = conn.held
        BY <1>u, <3>e, <4>c, <4>f
      <4>1. mixed' = {} /\ LockInv'
        BY <1>t, <1>u, <1>5, <2>g, <2>1, <3>d, <3>e, <3>l, <4>c, <4>f, <4>g DEF LockInv, HeldInv, DepthInv, SessionInv, WireInv, KnownInv, AtWork, CanAsk, At, RowsOf, Rows
      <4>2. HeldInv' /\ DepthInv'
        BY <1>t, <1>u, <1>5, <2>g, <2>1, <3>d, <3>e, <3>l, <4>c, <4>f, <4>g DEF LockInv, HeldInv, DepthInv, SessionInv, WireInv, KnownInv, AtWork, CanAsk, At, RowsOf, Rows
      <4>3. SessionInv'
        BY <1>t, <1>u, <1>5, <2>g, <2>1, <3>d, <3>e, <3>l, <4>c, <4>f, <4>g DEF LockInv, HeldInv, DepthInv, SessionInv, WireInv, KnownInv, AtWork, CanAsk, At, RowsOf, Rows
      <4> QED BY <4>1, <4>2, <4>3 DEF Unharmed
    <3> QED BY <3>t, <3>1, <3>2, <3>3, <3>4 DEF IInv, UInv, CInv
  <2>2. CASE conn.raw = "up" /\ conn.tx # t
    <3>a. /\ conn' = [conn EXCEPT !.begun = FALSE]
          /\ link' = [link EXCEPT !.open = TRUE]
      BY <1>u, <1>5, <2>g, <2>2 DEF Opened, Refused, At, Goto, Rest, Calm
    <3>d. /\ pc' = [pc EXCEPT ![t] = "writing"]
          /\ done' = done
          /\ db' = db
          /\ mixed' = mixed
          /\ troubles' = troubles
          /\ breaks' = breaks
      BY <1>u, <1>5, <2>g, <2>2 DEF Opened, Refused, At, Goto, Rest, Calm
    <3>e. /\ conn' \in Conn
          /\ conn'.tx = conn.tx
          /\ conn'.begun = FALSE
          /\ conn'.lost = conn.lost
          /\ conn'.raw = conn.raw
          /\ conn'.owner = conn.owner
          /\ conn'.depth = conn.depth
          /\ conn'.held = conn.held
      BY <1>u, <3>a DEF Conn
    <3>l. /\ link' \in Link
          /\ link'.wire = link.wire
          /\ link'.open = TRUE
          /\ link'.top = link.top
          /\ link'.pending = link.pending
      BY <1>t, <1>u, <1>5, <2>g, <2>2, <3>a DEF Link
    <3>t. TInv'
      BY <1>t, <1>u, <1>5, <2>g, <2>2, <3>d, <3>e, <3>l DEF TInv, TypeOK, DoneInv, AtWork, At, Rows
    <3>1. WireInv' /\ KnownInv' /\ WritingInv'
      BY <1>t, <1>u, <1>5, <2>g, <2>2, <3>d, <3>e, <3>l DEF WireInv, KnownInv, TxInv, OwnInv, WritingInv, PendInv, CommitInv, StoredInv, AtWork, CanAsk, At, RowsOf
    <3>2. TxInv' /\ OwnInv'
      BY <1>t, <1>u, <1>5, <2>g, <2>2, <3>d, <3>e, <3>l DEF WireInv, KnownInv, TxInv, OwnInv, WritingInv, PendInv, CommitInv, StoredInv, AtWork, CanAsk, At, RowsOf
    <3>3. PendInv' /\ CommitInv' /\ StoredInv'
      BY <1>t, <1>u, <1>5, <2>g, <2>2, <3>d, <3>e, <3>l DEF WireInv, KnownInv, TxInv, OwnInv, WritingInv, PendInv, CommitInv, StoredInv, AtWork, CanAsk, At, RowsOf, Rows
    <3>4. ASSUME troubles' = {} PROVE Unharmed'
      <4>c. /\ troubles = {} /\ mixed = {}
            /\ LockInv
            /\ HeldInv
            /\ DepthInv
            /\ SessionInv
        BY <1>t, <3>d, <3>4 DEF CInv, Unharmed
      <4> QED
        BY <1>t, <1>u, <1>5, <2>g, <2>2, <4>c DEF LockInv, HeldInv, DepthInv, SessionInv, WireInv, KnownInv, TxInv, OwnInv, WritingInv, PendInv, CommitInv, StoredInv, AtWork, Gone, CanAsk, At
    <3> QED BY <3>t, <3>1, <3>2, <3>3, <3>4 DEF IInv, UInv, CInv
  <2>3. CASE conn.raw # "up" /\ conn.tx = t
    <3>a. /\ conn' = Exit([conn EXCEPT !.begun = TRUE])
          /\ link' = [link EXCEPT !.open = TRUE, !.wire = NoTask]
      BY <1>u, <1>5, <2>g, <2>3 DEF Opened, Refused, At, Goto, Rest, Calm
    <3>d. /\ pc' = [pc EXCEPT ![t] = "raised"]
          /\ done' = done
          /\ db' = db
          /\ mixed' = mixed
          /\ troubles' = troubles
          /\ breaks' = breaks
      BY <1>u, <1>5, <2>g, <2>3 DEF Opened, Refused, At, Goto, Rest, Calm
    <3>k. /\ [conn EXCEPT !.begun = TRUE] \in Conn
          /\ [conn EXCEPT !.begun = TRUE].tx = conn.tx
          /\ [conn EXCEPT !.begun = TRUE].begun = TRUE
          /\ [conn EXCEPT !.begun = TRUE].lost = conn.lost
          /\ [conn EXCEPT !.begun = TRUE].raw = conn.raw
          /\ [conn EXCEPT !.begun = TRUE].owner = conn.owner
          /\ [conn EXCEPT !.begun = TRUE].depth = conn.depth
          /\ [conn EXCEPT !.begun = TRUE].held = conn.held
      BY <1>u DEF Conn
    <3>e. /\ conn' \in Conn
          /\ conn'.tx = conn.tx
          /\ conn'.begun = TRUE
          /\ conn'.lost = conn.lost
          /\ conn'.raw = conn.raw
      BY <1>u, <3>a, <3>k, ExitFields
    <3>l. /\ link' \in Link
          /\ link'.wire = NoTask
          /\ link'.open = TRUE
          /\ link'.top = link.top
          /\ link'.pending = link.pending
      BY <1>t, <1>u, <1>5, <2>g, <2>3, <3>a DEF Link
    <3>t. TInv'
      BY <1>t, <1>u, <1>5, <2>g, <2>3, <3>d, <3>e, <3>l DEF TInv, TypeOK, DoneInv, AtWork, At, Rows
    <3>1. WireInv' /\ KnownInv' /\ WritingInv'
      BY <1>t, <1>u, <1>5, <2>g, <2>3, <3>d, <3>e, <3>l DEF WireInv, KnownInv, TxInv, OwnInv, WritingInv, PendInv, CommitInv, StoredInv, AtWork, CanAsk, At, RowsOf
    <3>2. TxInv' /\ OwnInv'
      BY <1>t, <1>u, <1>5, <2>g, <2>3, <3>d, <3>e, <3>l DEF WireInv, KnownInv, TxInv, OwnInv, WritingInv, PendInv, CommitInv, StoredInv, AtWork, CanAsk, At, RowsOf
    <3>3. PendInv' /\ CommitInv' /\ StoredInv'
      BY <1>t, <1>u, <1>5, <2>g, <2>3, <3>d, <3>e, <3>l DEF WireInv, KnownInv, TxInv, OwnInv, WritingInv, PendInv, CommitInv, StoredInv, AtWork, CanAsk, At, RowsOf, Rows
    <3>4. ASSUME troubles' = {} PROVE Unharmed'
      <4>c. /\ troubles = {} /\ mixed = {}
            /\ LockInv
            /\ HeldInv
            /\ DepthInv
            /\ SessionInv
        BY <1>t, <3>d, <3>4 DEF CInv, Unharmed
      <4>f. /\ conn.owner = t
            /\ conn.tx = t
            /\ conn.held
            /\ conn.depth = 2
        BY <1>t, <1>u, <1>5, <2>g, <2>3, <3>4, <3>d, <4>c DEF LockInv, HeldInv, DepthInv, SessionInv, WireInv, KnownInv, AtWork, Gone, CanAsk, At, Opened
      <4>g. /\ conn'.owner = conn.owner
            /\ conn'.depth = 1
            /\ conn'.held = conn.held
        BY <1>u, <3>a, <3>k, <4>c, <4>f, ExitFields
      <4>1. mixed' = {} /\ LockInv'
        BY <1>t, <1>u, <1>5, <2>g, <2>3, <3>d, <3>e, <3>l, <4>c, <4>f, <4>g DEF LockInv, HeldInv, DepthInv, SessionInv, WireInv, KnownInv, AtWork, CanAsk, At, RowsOf, Rows
      <4>2. HeldInv' /\ DepthInv'
        BY <1>t, <1>u, <1>5, <2>g, <2>3, <3>d, <3>e, <3>l, <4>c, <4>f, <4>g DEF LockInv, HeldInv, DepthInv, SessionInv, WireInv, KnownInv, AtWork, CanAsk, At, RowsOf, Rows
      <4>3. SessionInv'
        BY <1>t, <1>u, <1>5, <2>g, <2>3, <3>d, <3>e, <3>l, <4>c, <4>f, <4>g DEF LockInv, HeldInv, DepthInv, SessionInv, WireInv, KnownInv, AtWork, CanAsk, At, RowsOf, Rows
      <4> QED BY <4>1, <4>2, <4>3 DEF Unharmed
    <3> QED BY <3>t, <3>1, <3>2, <3>3, <3>4 DEF IInv, UInv, CInv
  <2>4. CASE conn.raw # "up" /\ conn.tx # t
    <3>a. /\ conn' = Exit([conn EXCEPT !.begun = FALSE])
          /\ link' = [link EXCEPT !.open = TRUE, !.wire = NoTask]
      BY <1>u, <1>5, <2>g, <2>4 DEF Opened, Refused, At, Goto, Rest, Calm
    <3>d. /\ pc' = [pc EXCEPT ![t] = "raised"]
          /\ done' = done
          /\ db' = db
          /\ mixed' = mixed
          /\ troubles' = troubles
          /\ breaks' = breaks
      BY <1>u, <1>5, <2>g, <2>4 DEF Opened, Refused, At, Goto, Rest, Calm
    <3>k. /\ [conn EXCEPT !.begun = FALSE] \in Conn
          /\ [conn EXCEPT !.begun = FALSE].tx = conn.tx
          /\ [conn EXCEPT !.begun = FALSE].begun = FALSE
          /\ [conn EXCEPT !.begun = FALSE].lost = conn.lost
          /\ [conn EXCEPT !.begun = FALSE].raw = conn.raw
          /\ [conn EXCEPT !.begun = FALSE].owner = conn.owner
          /\ [conn EXCEPT !.begun = FALSE].depth = conn.depth
          /\ [conn EXCEPT !.begun = FALSE].held = conn.held
      BY <1>u DEF Conn
    <3>e. /\ conn' \in Conn
          /\ conn'.tx = conn.tx
          /\ conn'.begun = FALSE
          /\ conn'.lost = conn.lost
          /\ conn'.raw = conn.raw
      BY <1>u, <3>a, <3>k, ExitFields
    <3>l. /\ link' \in Link
          /\ link'.wire = NoTask
          /\ link'.open = TRUE
          /\ link'.top = link.top
          /\ link'.pending = link.pending
      BY <1>t, <1>u, <1>5, <2>g, <2>4, <3>a DEF Link
    <3>t. TInv'
      BY <1>t, <1>u, <1>5, <2>g, <2>4, <3>d, <3>e, <3>l DEF TInv, TypeOK, DoneInv, AtWork, At, Rows
    <3>1. WireInv' /\ KnownInv' /\ WritingInv'
      BY <1>t, <1>u, <1>5, <2>g, <2>4, <3>d, <3>e, <3>l DEF WireInv, KnownInv, TxInv, OwnInv, WritingInv, PendInv, CommitInv, StoredInv, AtWork, CanAsk, At, RowsOf
    <3>2. TxInv' /\ OwnInv'
      BY <1>t, <1>u, <1>5, <2>g, <2>4, <3>d, <3>e, <3>l DEF WireInv, KnownInv, TxInv, OwnInv, WritingInv, PendInv, CommitInv, StoredInv, AtWork, CanAsk, At, RowsOf
    <3>3. PendInv' /\ CommitInv' /\ StoredInv'
      BY <1>t, <1>u, <1>5, <2>g, <2>4, <3>d, <3>e, <3>l DEF WireInv, KnownInv, TxInv, OwnInv, WritingInv, PendInv, CommitInv, StoredInv, AtWork, CanAsk, At, RowsOf, Rows
    <3>4. ASSUME troubles' = {} PROVE Unharmed'
      <4>c. /\ troubles = {} /\ mixed = {}
            /\ LockInv
            /\ HeldInv
            /\ DepthInv
            /\ SessionInv
        BY <1>t, <3>d, <3>4 DEF CInv, Unharmed
      <4> QED
        BY <1>t, <1>u, <1>5, <2>g, <2>4, <4>c DEF LockInv, HeldInv, DepthInv, SessionInv, WireInv, KnownInv, TxInv, OwnInv, WritingInv, PendInv, CommitInv, StoredInv, AtWork, Gone, CanAsk, At
    <3> QED BY <3>t, <3>1, <3>2, <3>3, <3>4 DEF IInv, UInv, CInv
  <2> QED BY <1>u, <1>5, <2>g, <2>1, <2>2, <2>3, <2>4 DEF Opened, Refused, CanAsk, At
<1>6. ASSUME NEW t \in Tasks, Written(t) PROVE IInv'
  <2>g. /\ pc[t] \in {"writing"}
        /\ \A u \in Tasks : pc[u] \in Running => u = t
    BY <1>6 DEF Written, At
  <2>a. /\ conn' = Exit(conn)
        /\ link' = [link EXCEPT !.wire = NoTask, !.pending = IF link.open THEN link.pending \cup {<<t, done[t] + 1>>} ELSE link.pending]
    BY <1>u, <1>6, <2>g DEF Written, Lands, At, Goto, Rest, Calm
  <2>d. /\ pc' = [pc EXCEPT ![t] = "between"]
        /\ done' = [done EXCEPT ![t] = @ + 1]
        /\ db' = IF link.open THEN db ELSE db \cup {<<t, done[t] + 1>>}
        /\ mixed' = mixed
        /\ troubles' = troubles
        /\ breaks' = breaks
    BY <1>u, <1>6, <2>g DEF Written, Lands, At, Goto, Rest, Calm
  <2>e. /\ conn' \in Conn
        /\ conn'.tx = conn.tx
        /\ conn'.begun = conn.begun
        /\ conn'.lost = conn.lost
        /\ conn'.raw = conn.raw
    BY <1>u, <2>a, ExitFields
  <2>r. <<t, done[t] + 1>> \in Rows
    BY <1>t, <1>u, <1>6, <2>g DEF DoneInv, Rows, At, Written
  <2>l. /\ link' \in Link
        /\ link'.wire = NoTask
        /\ link'.open = link.open
        /\ link'.top = link.top
        /\ link'.pending = (IF link.open THEN link.pending \cup {<<t, done[t] + 1>>} ELSE link.pending)
    BY <1>t, <2>r, <1>u, <1>6, <2>g, <2>a DEF Link, DoneInv, Rows, At
  <2>t. TInv'
    BY <1>t, <1>u, <1>6, <2>g, <2>d, <2>e, <2>l DEF TInv, TypeOK, DoneInv, AtWork, At, Rows
  <2>1. WireInv' /\ KnownInv' /\ WritingInv'
    BY <1>t, <1>u, <1>6, <2>g, <2>d, <2>e, <2>l DEF WireInv, KnownInv, TxInv, OwnInv, WritingInv, PendInv, CommitInv, StoredInv, AtWork, CanAsk, At, RowsOf
  <2>2. TxInv' /\ OwnInv'
    BY <1>t, <1>u, <1>6, <2>g, <2>d, <2>e, <2>l DEF WireInv, KnownInv, TxInv, OwnInv, WritingInv, PendInv, CommitInv, StoredInv, AtWork, CanAsk, At, RowsOf
  <2>3. PendInv' /\ CommitInv' /\ StoredInv'
    BY <1>t, <1>u, <1>6, <2>g, <2>d, <2>e, <2>l DEF WireInv, KnownInv, TxInv, OwnInv, WritingInv, PendInv, CommitInv, StoredInv, AtWork, CanAsk, At, RowsOf, Rows
  <2>4. ASSUME troubles' = {} PROVE Unharmed'
    <3>c. /\ troubles = {} /\ mixed = {}
          /\ LockInv
          /\ HeldInv
          /\ DepthInv
          /\ SessionInv
      BY <1>t, <2>d, <2>4 DEF CInv, Unharmed
    <3>f. /\ conn.owner = t
          /\ conn.tx = t
          /\ conn.held
          /\ conn.depth = 2
          /\ conn.raw = "up" => ~conn.lost /\ link.open
      BY <1>t, <1>u, <1>6, <2>g, <2>4, <2>d, <3>c DEF LockInv, HeldInv, DepthInv, SessionInv, WireInv, KnownInv, AtWork, Gone, CanAsk, At, Written
    <3>g. /\ conn'.owner = conn.owner
          /\ conn'.depth = 1
          /\ conn'.held = conn.held
      BY <1>u, <2>a, <3>c, <3>f, ExitFields
    <3>1. mixed' = {} /\ LockInv'
      BY <1>t, <1>u, <1>6, <2>g, <2>d, <2>e, <2>l, <3>c, <3>f, <3>g DEF LockInv, HeldInv, DepthInv, SessionInv, WireInv, KnownInv, AtWork, CanAsk, At, RowsOf, Rows
    <3>2. HeldInv' /\ DepthInv'
      BY <1>t, <1>u, <1>6, <2>g, <2>d, <2>e, <2>l, <3>c, <3>f, <3>g DEF LockInv, HeldInv, DepthInv, SessionInv, WireInv, KnownInv, AtWork, CanAsk, At, RowsOf, Rows
    <3>3. SessionInv'
      BY <1>t, <1>u, <1>6, <2>g, <2>d, <2>e, <2>l, <3>c, <3>f, <3>g DEF LockInv, HeldInv, DepthInv, SessionInv, WireInv, KnownInv, AtWork, CanAsk, At, RowsOf, Rows
    <3> QED BY <3>1, <3>2, <3>3 DEF Unharmed
  <2> QED BY <2>t, <2>1, <2>2, <2>3, <2>4 DEF IInv, UInv, CInv
<1>7. ASSUME NEW t \in Tasks, WriteFails(t) PROVE IInv'
  <2>g. /\ pc[t] \in {"writing"}
        /\ conn.raw = "up"
        /\ \A u \in Tasks : pc[u] \in Running => u = t
    BY <1>7 DEF WriteFails, At
  <2>1. CASE conn.tx # NoTask /\ ~conn.lost /\ CanAsk(t)
    <3>a. /\ conn' = NoTx(conn)
          /\ link' = [link EXCEPT !.wire = t, !.top = IF link.top = conn.tx THEN NoTask ELSE link.top, !.pending = IF link.top = conn.tx THEN {} ELSE link.pending \ RowsOf(conn.tx)]
      BY <1>u, <1>7, <2>g, <2>1 DEF WriteFails, Refused, SendRollback, Ends, At, Goto, Rest, Calm
    <3>d. /\ pc' = [pc EXCEPT ![t] = "discarding"]
          /\ done' = done
          /\ db' = db
          /\ mixed' = mixed \cup {u \in {conn.tx} \ {t} : AtWork(u)}
          /\ troubles' = troubles
          /\ breaks' = breaks
      BY <1>u, <1>7, <2>g, <2>1 DEF WriteFails, Refused, SendRollback, Ends, At, Goto, Rest, Calm
    <3>e. /\ conn' \in Conn
          /\ conn'.tx = NoTask
          /\ conn'.begun = FALSE
          /\ conn'.lost = FALSE
          /\ conn'.raw = conn.raw
      BY <1>u, <3>a, NoTxFields
    <3>l. /\ link' \in Link
          /\ link'.wire = t
          /\ link'.open = link.open
          /\ link'.top = (IF link.top = conn.tx THEN NoTask ELSE link.top)
          /\ link'.pending = (IF link.top = conn.tx THEN {} ELSE link.pending \ RowsOf(conn.tx))
      BY <1>t, <1>u, <1>7, <2>g, <2>1, <3>a DEF Link
    <3>t. TInv'
      BY <1>t, <1>u, <1>7, <2>g, <2>1, <3>d, <3>e, <3>l DEF TInv, TypeOK, DoneInv, AtWork, At, Rows
    <3>1. WireInv' /\ KnownInv' /\ WritingInv'
      BY <1>t, <1>u, <1>7, <2>g, <2>1, <3>d, <3>e, <3>l DEF WireInv, KnownInv, TxInv, OwnInv, WritingInv, PendInv, CommitInv, StoredInv, AtWork, CanAsk, At, RowsOf
    <3>2. TxInv' /\ OwnInv'
      BY <1>t, <1>u, <1>7, <2>g, <2>1, <3>d, <3>e, <3>l DEF WireInv, KnownInv, TxInv, OwnInv, WritingInv, PendInv, CommitInv, StoredInv, AtWork, CanAsk, At, RowsOf
    <3>3. PendInv' /\ CommitInv' /\ StoredInv'
      BY <1>t, <1>u, <1>7, <2>g, <2>1, <3>d, <3>e, <3>l DEF WireInv, KnownInv, TxInv, OwnInv, WritingInv, PendInv, CommitInv, StoredInv, AtWork, CanAsk, At, RowsOf, Rows
    <3>4. ASSUME troubles' = {} PROVE Unharmed'
      <4>c. /\ troubles = {} /\ mixed = {}
            /\ LockInv
            /\ HeldInv
            /\ DepthInv
            /\ SessionInv
        BY <1>t, <3>d, <3>4 DEF CInv, Unharmed
      <4>f. /\ conn.owner = t
            /\ conn.tx = t
            /\ conn.held
            /\ conn.depth = 2
            /\ link.top = t
        BY <1>t, <1>u, <1>7, <2>g, <2>1, <3>4, <3>d, <4>c DEF LockInv, HeldInv, DepthInv, SessionInv, WireInv, KnownInv, AtWork, Gone, CanAsk, At, WriteFails
      <4>g. /\ conn'.owner = conn.owner
            /\ conn'.depth = conn.depth
            /\ conn'.held = conn.held
        BY <1>u, <3>a, <4>c, <4>f, NoTxFields
      <4>1. mixed' = {} /\ LockInv'
        BY <1>t, <1>u, <1>7, <2>g, <2>1, <3>d, <3>e, <3>l, <4>c, <4>f, <4>g DEF LockInv, HeldInv, DepthInv, SessionInv, WireInv, KnownInv, AtWork, CanAsk, At, RowsOf, Rows
      <4>2. HeldInv' /\ DepthInv'
        BY <1>t, <1>u, <1>7, <2>g, <2>1, <3>d, <3>e, <3>l, <4>c, <4>f, <4>g DEF LockInv, HeldInv, DepthInv, SessionInv, WireInv, KnownInv, AtWork, CanAsk, At, RowsOf, Rows
      <4>3. SessionInv'
        BY <1>t, <1>u, <1>7, <2>g, <2>1, <3>d, <3>e, <3>l, <4>c, <4>f, <4>g DEF LockInv, HeldInv, DepthInv, SessionInv, WireInv, KnownInv, AtWork, CanAsk, At, RowsOf, Rows
      <4> QED BY <4>1, <4>2, <4>3 DEF Unharmed
    <3> QED BY <3>t, <3>1, <3>2, <3>3, <3>4 DEF IInv, UInv, CInv
  <2>2. CASE conn.tx = NoTask
    <3>a. /\ conn' = Exit(conn)
          /\ link' = [link EXCEPT !.wire = NoTask]
      BY <1>u, <1>7, <2>g, <2>2 DEF WriteFails, Refused, SendRollback, Ends, At, Goto, Rest, Calm
    <3>d. /\ pc' = [pc EXCEPT ![t] = "raised"]
          /\ done' = done
          /\ db' = db
          /\ mixed' = mixed \cup {u \in {conn.tx} \ {t} : AtWork(u)}
          /\ troubles' = troubles
          /\ breaks' = breaks
      BY <1>u, <1>7, <2>g, <2>2 DEF WriteFails, Refused, SendRollback, Ends, At, Goto, Rest, Calm
    <3>e. /\ conn' \in Conn
          /\ conn'.tx = conn.tx
          /\ conn'.begun = conn.begun
          /\ conn'.lost = conn.lost
          /\ conn'.raw = conn.raw
      BY <1>u, <3>a, ExitFields
    <3>l. /\ link' \in Link
          /\ link'.wire = NoTask
          /\ link'.open = link.open
          /\ link'.top = link.top
          /\ link'.pending = link.pending
      BY <1>t, <1>u, <1>7, <2>g, <2>2, <3>a DEF Link
    <3>t. TInv'
      BY <1>t, <1>u, <1>7, <2>g, <2>2, <3>d, <3>e, <3>l DEF TInv, TypeOK, DoneInv, AtWork, At, Rows
    <3>1. WireInv' /\ KnownInv' /\ WritingInv'
      BY <1>t, <1>u, <1>7, <2>g, <2>2, <3>d, <3>e, <3>l DEF WireInv, KnownInv, TxInv, OwnInv, WritingInv, PendInv, CommitInv, StoredInv, AtWork, CanAsk, At, RowsOf
    <3>2. TxInv' /\ OwnInv'
      BY <1>t, <1>u, <1>7, <2>g, <2>2, <3>d, <3>e, <3>l DEF WireInv, KnownInv, TxInv, OwnInv, WritingInv, PendInv, CommitInv, StoredInv, AtWork, CanAsk, At, RowsOf
    <3>3. PendInv' /\ CommitInv' /\ StoredInv'
      BY <1>t, <1>u, <1>7, <2>g, <2>2, <3>d, <3>e, <3>l DEF WireInv, KnownInv, TxInv, OwnInv, WritingInv, PendInv, CommitInv, StoredInv, AtWork, CanAsk, At, RowsOf, Rows
    <3>4. ASSUME troubles' = {} PROVE Unharmed'
      <4>c. /\ troubles = {} /\ mixed = {}
            /\ LockInv
            /\ HeldInv
            /\ DepthInv
            /\ SessionInv
        BY <1>t, <3>d, <3>4 DEF CInv, Unharmed
      <4> QED
        BY <1>t, <1>u, <1>7, <2>g, <2>2, <4>c DEF LockInv, HeldInv, DepthInv, SessionInv, WireInv, KnownInv, TxInv, OwnInv, WritingInv, PendInv, CommitInv, StoredInv, AtWork, Gone, CanAsk, At
    <3> QED BY <3>t, <3>1, <3>2, <3>3, <3>4 DEF IInv, UInv, CInv
  <2>3. CASE conn.tx # NoTask /\ ~(~conn.lost /\ CanAsk(t))
    <3>a. /\ conn' = Exit(ReturnTx(NoTx(conn)))
          /\ link' = [link EXCEPT !.wire = NoTask]
      BY <1>u, <1>7, <2>g, <2>3 DEF WriteFails, Refused, SendRollback, Ends, At, Goto, Rest, Calm
    <3>d. /\ pc' = [pc EXCEPT ![t] = "raised"]
          /\ done' = done
          /\ db' = db
          /\ mixed' = mixed \cup {u \in {conn.tx} \ {t} : AtWork(u)}
          /\ troubles' = troubles
          /\ breaks' = breaks
      BY <1>u, <1>7, <2>g, <2>3 DEF WriteFails, Refused, SendRollback, Ends, At, Goto, Rest, Calm
    <3>m. /\ NoTx(conn) \in Conn
          /\ NoTx(conn).tx = NoTask
          /\ NoTx(conn).begun = FALSE
          /\ NoTx(conn).lost = FALSE
          /\ NoTx(conn).raw = conn.raw
          /\ NoTx(conn).owner = conn.owner
          /\ NoTx(conn).depth = conn.depth
          /\ NoTx(conn).held = conn.held
      BY <1>u, NoTxFields
    <3>n. /\ ReturnTx(NoTx(conn)) \in Conn
          /\ ReturnTx(NoTx(conn)).tx = NoTask
          /\ ReturnTx(NoTx(conn)).begun = FALSE
          /\ ReturnTx(NoTx(conn)).lost = FALSE
          /\ ReturnTx(NoTx(conn)).raw = conn.raw
          /\ ReturnTx(NoTx(conn)).held = FALSE
          /\ conn.held /\ conn.depth = 2 => ReturnTx(NoTx(conn)).owner = conn.owner /\ ReturnTx(NoTx(conn)).depth = 1
      BY <3>m, ReturnFields
    <3>e. /\ conn' \in Conn
          /\ conn'.tx = NoTask
          /\ conn'.begun = FALSE
          /\ conn'.lost = FALSE
          /\ conn'.raw = conn.raw
      BY <1>u, <3>a, <3>n, ExitFields
    <3>l. /\ link' \in Link
          /\ link'.wire = NoTask
          /\ link'.open = link.open
          /\ link'.top = link.top
          /\ link'.pending = link.pending
      BY <1>t, <1>u, <1>7, <2>g, <2>3, <3>a DEF Link
    <3>t. TInv'
      BY <1>t, <1>u, <1>7, <2>g, <2>3, <3>d, <3>e, <3>l DEF TInv, TypeOK, DoneInv, AtWork, At, Rows
    <3>1. WireInv' /\ KnownInv' /\ WritingInv'
      BY <1>t, <1>u, <1>7, <2>g, <2>3, <3>d, <3>e, <3>l DEF WireInv, KnownInv, TxInv, OwnInv, WritingInv, PendInv, CommitInv, StoredInv, AtWork, CanAsk, At, RowsOf
    <3>2. TxInv' /\ OwnInv'
      BY <1>t, <1>u, <1>7, <2>g, <2>3, <3>d, <3>e, <3>l DEF WireInv, KnownInv, TxInv, OwnInv, WritingInv, PendInv, CommitInv, StoredInv, AtWork, CanAsk, At, RowsOf
    <3>3. PendInv' /\ CommitInv' /\ StoredInv'
      BY <1>t, <1>u, <1>7, <2>g, <2>3, <3>d, <3>e, <3>l DEF WireInv, KnownInv, TxInv, OwnInv, WritingInv, PendInv, CommitInv, StoredInv, AtWork, CanAsk, At, RowsOf, Rows
    <3>4. ASSUME troubles' = {} PROVE Unharmed'
      <4>c. /\ troubles = {} /\ mixed = {}
            /\ LockInv
            /\ HeldInv
            /\ DepthInv
            /\ SessionInv
        BY <1>t, <3>d, <3>4 DEF CInv, Unharmed
      <4> QED
        BY <1>t, <1>u, <1>7, <2>g, <2>3, <4>c DEF LockInv, HeldInv, DepthInv, SessionInv, WireInv, KnownInv, TxInv, OwnInv, WritingInv, PendInv, CommitInv, StoredInv, AtWork, Gone, CanAsk, At
    <3> QED BY <3>t, <3>1, <3>2, <3>3, <3>4 DEF IInv, UInv, CInv
  <2> QED BY <1>u, <1>7, <2>g, <2>1, <2>2, <2>3 DEF WriteFails, Refused, SendRollback, Ends, CanAsk, At
<1>8. ASSUME NEW t \in Tasks, Committed(t) PROVE IInv'
  <2>g. /\ pc[t] \in {"committing"}
        /\ \A u \in Tasks : pc[u] \in Running => u = t
    BY <1>8 DEF Committed, At
  <2>a. /\ conn' = ReturnTx(conn)
        /\ link' = Answered
    BY <1>u, <1>8, <2>g DEF Committed, Answered, Stored, At, Goto, Rest, Calm
  <2>d. /\ pc' = [pc EXCEPT ![t] = "ok"]
        /\ done' = done
        /\ db' = IF link.top = NoTask THEN db \cup link.pending ELSE db
        /\ mixed' = mixed
        /\ troubles' = troubles
        /\ breaks' = breaks
    BY <1>u, <1>8, <2>g DEF Committed, Answered, Stored, At, Goto, Rest, Calm
  <2>e. /\ conn' \in Conn
        /\ conn'.tx = conn.tx
        /\ conn'.begun = conn.begun
        /\ conn'.lost = conn.lost
        /\ conn'.raw = conn.raw
    BY <1>u, <2>a, ReturnFields
  <2>l. /\ link' \in Link
        /\ link'.wire = NoTask
        /\ link'.open = (link.top # NoTask)
        /\ link'.top = link.top
        /\ link'.pending = (IF link.top = NoTask THEN {} ELSE link.pending)
    BY <1>t, <1>u, <1>8, <2>g, <2>a DEF Link, Answered
  <2>t. TInv'
    BY <1>t, <1>u, <1>8, <2>g, <2>d, <2>e, <2>l DEF TInv, TypeOK, DoneInv, AtWork, At, Rows
  <2>1. WireInv' /\ KnownInv' /\ WritingInv'
    BY <1>t, <1>u, <1>8, <2>g, <2>d, <2>e, <2>l DEF WireInv, KnownInv, TxInv, OwnInv, WritingInv, PendInv, CommitInv, StoredInv, AtWork, CanAsk, At, RowsOf
  <2>2. TxInv' /\ OwnInv'
    BY <1>t, <1>u, <1>8, <2>g, <2>d, <2>e, <2>l DEF WireInv, KnownInv, TxInv, OwnInv, WritingInv, PendInv, CommitInv, StoredInv, AtWork, CanAsk, At, RowsOf
  <2>3. PendInv' /\ CommitInv' /\ StoredInv'
    BY <1>t, <1>u, <1>8, <2>g, <2>d, <2>e, <2>l DEF WireInv, KnownInv, TxInv, OwnInv, WritingInv, PendInv, CommitInv, StoredInv, AtWork, CanAsk, At, RowsOf, Rows
  <2>4. ASSUME troubles' = {} PROVE Unharmed'
    <3>c. /\ troubles = {} /\ mixed = {}
          /\ LockInv
          /\ HeldInv
          /\ DepthInv
          /\ SessionInv
      BY <1>t, <2>d, <2>4 DEF CInv, Unharmed
    <3>f. /\ conn.owner = t
          /\ conn.tx = NoTask
          /\ conn.held
          /\ conn.depth = 1
          /\ conn.raw = "up" => link.top = NoTask
      BY <1>t, <1>u, <1>8, <2>g, <2>4, <2>d, <3>c DEF LockInv, HeldInv, DepthInv, SessionInv, WireInv, KnownInv, AtWork, Gone, CanAsk, At, Committed
    <3>g. /\ conn'.owner = NoTask
          /\ conn'.depth = 0
          /\ conn'.held = FALSE
      BY <1>u, <2>a, <3>c, <3>f, ReturnFields
    <3>1. mixed' = {} /\ LockInv'
      BY <1>t, <1>u, <1>8, <2>g, <2>d, <2>e, <2>l, <3>c, <3>f, <3>g DEF LockInv, HeldInv, DepthInv, SessionInv, WireInv, KnownInv, AtWork, CanAsk, At, RowsOf, Rows
    <3>2. HeldInv' /\ DepthInv'
      BY <1>t, <1>u, <1>8, <2>g, <2>d, <2>e, <2>l, <3>c, <3>f, <3>g DEF LockInv, HeldInv, DepthInv, SessionInv, WireInv, KnownInv, AtWork, CanAsk, At, RowsOf, Rows
    <3>3. SessionInv'
      BY <1>t, <1>u, <1>8, <2>g, <2>d, <2>e, <2>l, <3>c, <3>f, <3>g DEF LockInv, HeldInv, DepthInv, SessionInv, WireInv, KnownInv, AtWork, CanAsk, At, RowsOf, Rows
    <3> QED BY <3>1, <3>2, <3>3 DEF Unharmed
  <2> QED BY <2>t, <2>1, <2>2, <2>3, <2>4 DEF IInv, UInv, CInv
<1>9. ASSUME NEW t \in Tasks, RolledBack(t) PROVE IInv'
  <2>g. /\ pc[t] \in {"rolling", "discarding"}
        /\ \A u \in Tasks : pc[u] \in Running => u = t
    BY <1>9 DEF RolledBack, At
  <2>1. CASE pc[t] = "rolling"
    <3>a. /\ conn' = ReturnTx(conn)
          /\ link' = Answered
      BY <1>u, <1>9, <2>g, <2>1 DEF RolledBack, Answered, Refused, At, Goto, Rest, Calm
    <3>d. /\ pc' = [pc EXCEPT ![t] = "failed"]
          /\ done' = done
          /\ db' = db
          /\ mixed' = mixed
          /\ troubles' = troubles
          /\ breaks' = breaks
      BY <1>u, <1>9, <2>g, <2>1 DEF RolledBack, Answered, Refused, At, Goto, Rest, Calm
    <3>e. /\ conn' \in Conn
          /\ conn'.tx = conn.tx
          /\ conn'.begun = conn.begun
          /\ conn'.lost = conn.lost
          /\ conn'.raw = conn.raw
      BY <1>u, <3>a, ReturnFields
    <3>l. /\ link' \in Link
          /\ link'.wire = NoTask
          /\ link'.open = (link.top # NoTask)
          /\ link'.top = link.top
          /\ link'.pending = (IF link.top = NoTask THEN {} ELSE link.pending)
      BY <1>t, <1>u, <1>9, <2>g, <2>1, <3>a DEF Link, Answered
    <3>t. TInv'
      BY <1>t, <1>u, <1>9, <2>g, <2>1, <3>d, <3>e, <3>l DEF TInv, TypeOK, DoneInv, AtWork, At, Rows
    <3>1. WireInv' /\ KnownInv' /\ WritingInv'
      BY <1>t, <1>u, <1>9, <2>g, <2>1, <3>d, <3>e, <3>l DEF WireInv, KnownInv, TxInv, OwnInv, WritingInv, PendInv, CommitInv, StoredInv, AtWork, CanAsk, At, RowsOf
    <3>2. TxInv' /\ OwnInv'
      BY <1>t, <1>u, <1>9, <2>g, <2>1, <3>d, <3>e, <3>l DEF WireInv, KnownInv, TxInv, OwnInv, WritingInv, PendInv, CommitInv, StoredInv, AtWork, CanAsk, At, RowsOf
    <3>3. PendInv' /\ CommitInv' /\ StoredInv'
      BY <1>t, <1>u, <1>9, <2>g, <2>1, <3>d, <3>e, <3>l DEF WireInv, KnownInv, TxInv, OwnInv, WritingInv, PendInv, CommitInv, StoredInv, AtWork, CanAsk, At, RowsOf, Rows
    <3>4. ASSUME troubles' = {} PROVE Unharmed'
      <4>c. /\ troubles = {} /\ mixed = {}
            /\ LockInv
            /\ HeldInv
            /\ DepthInv
            /\ SessionInv
        BY <1>t, <3>d, <3>4 DEF CInv, Unharmed
      <4>f. /\ conn.owner = t
            /\ conn.tx = NoTask
            /\ conn.held
            /\ conn.depth = 1
            /\ conn.raw = "up" => link.top = NoTask
        BY <1>t, <1>u, <1>9, <2>g, <2>1, <3>4, <3>d, <4>c DEF LockInv, HeldInv, DepthInv, SessionInv, WireInv, KnownInv, AtWork, Gone, CanAsk, At, RolledBack
      <4>g. /\ conn'.owner = NoTask
            /\ conn'.depth = 0
            /\ conn'.held = FALSE
        BY <1>u, <3>a, <4>c, <4>f, ReturnFields
      <4>1. mixed' = {} /\ LockInv'
        BY <1>t, <1>u, <1>9, <2>g, <2>1, <3>d, <3>e, <3>l, <4>c, <4>f, <4>g DEF LockInv, HeldInv, DepthInv, SessionInv, WireInv, KnownInv, AtWork, CanAsk, At, RowsOf, Rows
      <4>2. HeldInv' /\ DepthInv'
        BY <1>t, <1>u, <1>9, <2>g, <2>1, <3>d, <3>e, <3>l, <4>c, <4>f, <4>g DEF LockInv, HeldInv, DepthInv, SessionInv, WireInv, KnownInv, AtWork, CanAsk, At, RowsOf, Rows
      <4>3. SessionInv'
        BY <1>t, <1>u, <1>9, <2>g, <2>1, <3>d, <3>e, <3>l, <4>c, <4>f, <4>g DEF LockInv, HeldInv, DepthInv, SessionInv, WireInv, KnownInv, AtWork, CanAsk, At, RowsOf, Rows
      <4> QED BY <4>1, <4>2, <4>3 DEF Unharmed
    <3> QED BY <3>t, <3>1, <3>2, <3>3, <3>4 DEF IInv, UInv, CInv
  <2>2. CASE pc[t] = "discarding"
    <3>a. /\ conn' = Exit(ReturnTx(conn))
          /\ link' = Answered
      BY <1>u, <1>9, <2>g, <2>2 DEF RolledBack, Answered, Refused, At, Goto, Rest, Calm
    <3>d. /\ pc' = [pc EXCEPT ![t] = "raised"]
          /\ done' = done
          /\ db' = db
          /\ mixed' = mixed
          /\ troubles' = troubles
          /\ breaks' = breaks
      BY <1>u, <1>9, <2>g, <2>2 DEF RolledBack, Answered, Refused, At, Goto, Rest, Calm
    <3>m. /\ ReturnTx(conn) \in Conn
          /\ ReturnTx(conn).tx = conn.tx
          /\ ReturnTx(conn).begun = conn.begun
          /\ ReturnTx(conn).lost = conn.lost
          /\ ReturnTx(conn).raw = conn.raw
          /\ ReturnTx(conn).held = FALSE
          /\ conn.held /\ conn.depth = 2 => ReturnTx(conn).owner = conn.owner /\ ReturnTx(conn).depth = 1
      BY <1>u, ReturnFields
    <3>e. /\ conn' \in Conn
          /\ conn'.tx = conn.tx
          /\ conn'.begun = conn.begun
          /\ conn'.lost = conn.lost
          /\ conn'.raw = conn.raw
      BY <1>u, <3>a, <3>m, ExitFields
    <3>l. /\ link' \in Link
          /\ link'.wire = NoTask
          /\ link'.open = (link.top # NoTask)
          /\ link'.top = link.top
          /\ link'.pending = (IF link.top = NoTask THEN {} ELSE link.pending)
      BY <1>t, <1>u, <1>9, <2>g, <2>2, <3>a DEF Link, Answered
    <3>t. TInv'
      BY <1>t, <1>u, <1>9, <2>g, <2>2, <3>d, <3>e, <3>l DEF TInv, TypeOK, DoneInv, AtWork, At, Rows
    <3>1. WireInv' /\ KnownInv' /\ WritingInv'
      BY <1>t, <1>u, <1>9, <2>g, <2>2, <3>d, <3>e, <3>l DEF WireInv, KnownInv, TxInv, OwnInv, WritingInv, PendInv, CommitInv, StoredInv, AtWork, CanAsk, At, RowsOf
    <3>2. TxInv' /\ OwnInv'
      BY <1>t, <1>u, <1>9, <2>g, <2>2, <3>d, <3>e, <3>l DEF WireInv, KnownInv, TxInv, OwnInv, WritingInv, PendInv, CommitInv, StoredInv, AtWork, CanAsk, At, RowsOf
    <3>3. PendInv' /\ CommitInv' /\ StoredInv'
      BY <1>t, <1>u, <1>9, <2>g, <2>2, <3>d, <3>e, <3>l DEF WireInv, KnownInv, TxInv, OwnInv, WritingInv, PendInv, CommitInv, StoredInv, AtWork, CanAsk, At, RowsOf, Rows
    <3>4. ASSUME troubles' = {} PROVE Unharmed'
      <4>c. /\ troubles = {} /\ mixed = {}
            /\ LockInv
            /\ HeldInv
            /\ DepthInv
            /\ SessionInv
        BY <1>t, <3>d, <3>4 DEF CInv, Unharmed
      <4>f. /\ conn.owner = t
            /\ conn.tx = NoTask
            /\ conn.held
            /\ conn.depth = 2
            /\ conn.raw = "up" => link.top = NoTask
        BY <1>t, <1>u, <1>9, <2>g, <2>2, <3>4, <3>d, <4>c DEF LockInv, HeldInv, DepthInv, SessionInv, WireInv, KnownInv, AtWork, Gone, CanAsk, At, RolledBack
      <4>g. /\ conn'.owner = NoTask
            /\ conn'.depth = 0
            /\ conn'.held = FALSE
        BY <1>u, <3>a, <3>m, <4>c, <4>f, ExitFields
      <4>1. mixed' = {} /\ LockInv'
        BY <1>t, <1>u, <1>9, <2>g, <2>2, <3>d, <3>e, <3>l, <4>c, <4>f, <4>g DEF LockInv, HeldInv, DepthInv, SessionInv, WireInv, KnownInv, AtWork, CanAsk, At, RowsOf, Rows
      <4>2. HeldInv' /\ DepthInv'
        BY <1>t, <1>u, <1>9, <2>g, <2>2, <3>d, <3>e, <3>l, <4>c, <4>f, <4>g DEF LockInv, HeldInv, DepthInv, SessionInv, WireInv, KnownInv, AtWork, CanAsk, At, RowsOf, Rows
      <4>3. SessionInv'
        BY <1>t, <1>u, <1>9, <2>g, <2>2, <3>d, <3>e, <3>l, <4>c, <4>f, <4>g DEF LockInv, HeldInv, DepthInv, SessionInv, WireInv, KnownInv, AtWork, CanAsk, At, RowsOf, Rows
      <4> QED BY <4>1, <4>2, <4>3 DEF Unharmed
    <3> QED BY <3>t, <3>1, <3>2, <3>3, <3>4 DEF IInv, UInv, CInv
  <2> QED BY <1>u, <1>9, <2>g, <2>1, <2>2 DEF RolledBack, Answered, Refused, CanAsk, At
<1>10. ASSUME NEW t \in Tasks, Cleared(t) PROVE IInv'
  <2>g. /\ pc[t] \in {"clearing"}
        /\ \A u \in Tasks : pc[u] \in Running => u = t
    BY <1>10 DEF Cleared, At
  <2>a. /\ conn' = conn
        /\ link' = Answered
    BY <1>u, <1>10, <2>g DEF Cleared, Answered, At, Goto, Rest, Calm
  <2>d. /\ pc' = [pc EXCEPT ![t] = "inside"]
        /\ done' = done
        /\ db' = db
        /\ mixed' = mixed
        /\ troubles' = troubles
        /\ breaks' = breaks
    BY <1>u, <1>10, <2>g DEF Cleared, Answered, At, Goto, Rest, Calm
  <2>e. /\ conn' \in Conn
        /\ conn'.tx = conn.tx
        /\ conn'.begun = conn.begun
        /\ conn'.lost = conn.lost
        /\ conn'.raw = conn.raw
        /\ conn'.owner = conn.owner
        /\ conn'.depth = conn.depth
        /\ conn'.held = conn.held
    BY <1>u, <2>a
  <2>l. /\ link' \in Link
        /\ link'.wire = NoTask
        /\ link'.open = (link.top # NoTask)
        /\ link'.top = link.top
        /\ link'.pending = (IF link.top = NoTask THEN {} ELSE link.pending)
    BY <1>t, <1>u, <1>10, <2>g, <2>a DEF Link, Answered
  <2>t. TInv'
    BY <1>t, <1>u, <1>10, <2>g, <2>d, <2>e, <2>l DEF TInv, TypeOK, DoneInv, AtWork, At, Rows
  <2>1. WireInv' /\ KnownInv' /\ WritingInv'
    BY <1>t, <1>u, <1>10, <2>g, <2>d, <2>e, <2>l DEF WireInv, KnownInv, TxInv, OwnInv, WritingInv, PendInv, CommitInv, StoredInv, AtWork, CanAsk, At, RowsOf
  <2>2. TxInv' /\ OwnInv'
    BY <1>t, <1>u, <1>10, <2>g, <2>d, <2>e, <2>l DEF WireInv, KnownInv, TxInv, OwnInv, WritingInv, PendInv, CommitInv, StoredInv, AtWork, CanAsk, At, RowsOf
  <2>3. PendInv' /\ CommitInv' /\ StoredInv'
    BY <1>t, <1>u, <1>10, <2>g, <2>d, <2>e, <2>l DEF WireInv, KnownInv, TxInv, OwnInv, WritingInv, PendInv, CommitInv, StoredInv, AtWork, CanAsk, At, RowsOf, Rows
  <2>4. ASSUME troubles' = {} PROVE Unharmed'
    <3>c. /\ troubles = {} /\ mixed = {}
          /\ LockInv
          /\ HeldInv
          /\ DepthInv
          /\ SessionInv
      BY <1>t, <2>d, <2>4 DEF CInv, Unharmed
    <3>f. /\ conn.owner = t
          /\ conn.tx = NoTask
          /\ ~conn.held
          /\ conn.raw = "up" => link.top = NoTask
      BY <1>t, <1>u, <1>10, <2>g, <2>4, <2>d, <3>c DEF LockInv, HeldInv, DepthInv, SessionInv, WireInv, KnownInv, AtWork, Gone, CanAsk, At, Cleared
    <3>1. mixed' = {} /\ LockInv'
      BY <1>t, <1>u, <1>10, <2>g, <2>d, <2>e, <2>l, <3>c, <3>f DEF LockInv, HeldInv, DepthInv, SessionInv, WireInv, KnownInv, AtWork, CanAsk, At, RowsOf, Rows
    <3>2. HeldInv' /\ DepthInv'
      BY <1>t, <1>u, <1>10, <2>g, <2>d, <2>e, <2>l, <3>c, <3>f DEF LockInv, HeldInv, DepthInv, SessionInv, WireInv, KnownInv, AtWork, CanAsk, At, RowsOf, Rows
    <3>3. SessionInv'
      BY <1>t, <1>u, <1>10, <2>g, <2>d, <2>e, <2>l, <3>c, <3>f DEF LockInv, HeldInv, DepthInv, SessionInv, WireInv, KnownInv, AtWork, CanAsk, At, RowsOf, Rows
    <3> QED BY <3>1, <3>2, <3>3 DEF Unharmed
  <2> QED BY <2>t, <2>1, <2>2, <2>3, <2>4 DEF IInv, UInv, CInv
<1>11. ASSUME NEW t \in Tasks, Cut(t) PROVE IInv'
  <2>g. /\ pc[t] \in Waiting
        /\ conn.raw # "up"
        /\ \A u \in Tasks : pc[u] \in Running => u = t
    BY <1>11 DEF Cut, At
  <2>1. CASE pc[t] = "opening"
    <3>a. /\ conn' = Exit(ReturnTx(Unset(conn)))
          /\ link' = [link EXCEPT !.wire = NoTask]
      BY <1>u, <1>11, <2>g, <2>1 DEF Cut, Refused, Ends, Stored, At, Goto, Rest, Calm
    <3>d. /\ pc' = [pc EXCEPT ![t] = "raised"]
          /\ done' = done
          /\ db' = db
          /\ mixed' = mixed \cup {u \in {conn.tx} \ {t} : AtWork(u)}
          /\ troubles' = troubles
          /\ breaks' = breaks
      BY <1>u, <1>11, <2>g, <2>1 DEF Cut, Refused, Ends, Stored, At, Goto, Rest, Calm
    <3>m. /\ Unset(conn) \in Conn
          /\ Unset(conn).tx = NoTask
          /\ Unset(conn).begun = FALSE
          /\ Unset(conn).lost = conn.lost
          /\ Unset(conn).raw = conn.raw
          /\ Unset(conn).owner = conn.owner
          /\ Unset(conn).depth = conn.depth
          /\ Unset(conn).held = conn.held
      BY <1>u, NoTxFields
    <3>n. /\ ReturnTx(Unset(conn)) \in Conn
          /\ ReturnTx(Unset(conn)).tx = NoTask
          /\ ReturnTx(Unset(conn)).begun = FALSE
          /\ ReturnTx(Unset(conn)).lost = conn.lost
          /\ ReturnTx(Unset(conn)).raw = conn.raw
          /\ ReturnTx(Unset(conn)).held = FALSE
          /\ conn.held /\ conn.depth = 2 => ReturnTx(Unset(conn)).owner = conn.owner /\ ReturnTx(Unset(conn)).depth = 1
      BY <3>m, ReturnFields
    <3>e. /\ conn' \in Conn
          /\ conn'.tx = NoTask
          /\ conn'.begun = FALSE
          /\ conn'.lost = conn.lost
          /\ conn'.raw = conn.raw
      BY <1>u, <3>a, <3>n, ExitFields
    <3>l. /\ link' \in Link
          /\ link'.wire = NoTask
          /\ link'.open = link.open
          /\ link'.top = link.top
          /\ link'.pending = link.pending
      BY <1>t, <1>u, <1>11, <2>g, <2>1, <3>a DEF Link
    <3>t. TInv'
      BY <1>t, <1>u, <1>11, <2>g, <2>1, <3>d, <3>e, <3>l DEF TInv, TypeOK, DoneInv, AtWork, At, Rows
    <3>1. WireInv' /\ KnownInv' /\ WritingInv'
      BY <1>t, <1>u, <1>11, <2>g, <2>1, <3>d, <3>e, <3>l DEF WireInv, KnownInv, TxInv, OwnInv, WritingInv, PendInv, CommitInv, StoredInv, AtWork, CanAsk, At, RowsOf
    <3>2. TxInv' /\ OwnInv'
      BY <1>t, <1>u, <1>11, <2>g, <2>1, <3>d, <3>e, <3>l DEF WireInv, KnownInv, TxInv, OwnInv, WritingInv, PendInv, CommitInv, StoredInv, AtWork, CanAsk, At, RowsOf
    <3>3. PendInv' /\ CommitInv' /\ StoredInv'
      BY <1>t, <1>u, <1>11, <2>g, <2>1, <3>d, <3>e, <3>l DEF WireInv, KnownInv, TxInv, OwnInv, WritingInv, PendInv, CommitInv, StoredInv, AtWork, CanAsk, At, RowsOf, Rows
    <3>4. ASSUME troubles' = {} PROVE Unharmed'
      <4>c. /\ troubles = {} /\ mixed = {}
            /\ LockInv
            /\ HeldInv
            /\ DepthInv
            /\ SessionInv
        BY <1>t, <3>d, <3>4 DEF CInv, Unharmed
      <4>f. /\ conn.owner = t
            /\ conn.tx = t
            /\ conn.held
            /\ conn.depth = 2
            /\ ~conn.lost
        BY <1>t, <1>u, <1>11, <2>g, <2>1, <3>4, <3>d, <4>c DEF LockInv, HeldInv, DepthInv, SessionInv, WireInv, KnownInv, AtWork, Gone, CanAsk, At, Cut
      <4>g. /\ conn'.owner = NoTask
            /\ conn'.depth = 0
            /\ conn'.held = FALSE
        BY <1>u, <3>a, <3>n, <4>c, <4>f, ExitFields
      <4>1. mixed' = {} /\ LockInv'
        BY <1>t, <1>u, <1>11, <2>g, <2>1, <3>d, <3>e, <3>l, <4>c, <4>f, <4>g DEF LockInv, HeldInv, DepthInv, SessionInv, WireInv, KnownInv, AtWork, CanAsk, At, RowsOf, Rows
      <4>2. HeldInv' /\ DepthInv'
        BY <1>t, <1>u, <1>11, <2>g, <2>1, <3>d, <3>e, <3>l, <4>c, <4>f, <4>g DEF LockInv, HeldInv, DepthInv, SessionInv, WireInv, KnownInv, AtWork, CanAsk, At, RowsOf, Rows
      <4>3. SessionInv'
        BY <1>t, <1>u, <1>11, <2>g, <2>1, <3>d, <3>e, <3>l, <4>c, <4>f, <4>g DEF LockInv, HeldInv, DepthInv, SessionInv, WireInv, KnownInv, AtWork, CanAsk, At, RowsOf, Rows
      <4> QED BY <4>1, <4>2, <4>3 DEF Unharmed
    <3> QED BY <3>t, <3>1, <3>2, <3>3, <3>4 DEF IInv, UInv, CInv
  <2>2. CASE pc[t] = "writing" /\ Refused(t, conn) /\ UNCHANGED <<db, mixed>>
    <3>a. /\ conn' = Exit(conn)
          /\ link' = [link EXCEPT !.wire = NoTask]
      BY <1>u, <1>11, <2>g, <2>2 DEF Cut, Refused, Ends, Stored, At, Goto, Rest, Calm
    <3>d. /\ pc' = [pc EXCEPT ![t] = "raised"]
          /\ done' = done
          /\ db' = db
          /\ mixed' = mixed
          /\ troubles' = troubles
          /\ breaks' = breaks
      BY <1>u, <1>11, <2>g, <2>2 DEF Cut, Refused, Ends, Stored, At, Goto, Rest, Calm
    <3>e. /\ conn' \in Conn
          /\ conn'.tx = conn.tx
          /\ conn'.begun = conn.begun
          /\ conn'.lost = conn.lost
          /\ conn'.raw = conn.raw
      BY <1>u, <3>a, ExitFields
    <3>l. /\ link' \in Link
          /\ link'.wire = NoTask
          /\ link'.open = link.open
          /\ link'.top = link.top
          /\ link'.pending = link.pending
      BY <1>t, <1>u, <1>11, <2>g, <2>2, <3>a DEF Link
    <3>t. TInv'
      BY <1>t, <1>u, <1>11, <2>g, <2>2, <3>d, <3>e, <3>l DEF TInv, TypeOK, DoneInv, AtWork, At, Rows
    <3>1. WireInv' /\ KnownInv' /\ WritingInv'
      BY <1>t, <1>u, <1>11, <2>g, <2>2, <3>d, <3>e, <3>l DEF WireInv, KnownInv, TxInv, OwnInv, WritingInv, PendInv, CommitInv, StoredInv, AtWork, CanAsk, At, RowsOf
    <3>2. TxInv' /\ OwnInv'
      BY <1>t, <1>u, <1>11, <2>g, <2>2, <3>d, <3>e, <3>l DEF WireInv, KnownInv, TxInv, OwnInv, WritingInv, PendInv, CommitInv, StoredInv, AtWork, CanAsk, At, RowsOf
    <3>3. PendInv' /\ CommitInv' /\ StoredInv'
      BY <1>t, <1>u, <1>11, <2>g, <2>2, <3>d, <3>e, <3>l DEF WireInv, KnownInv, TxInv, OwnInv, WritingInv, PendInv, CommitInv, StoredInv, AtWork, CanAsk, At, RowsOf, Rows
    <3>4. ASSUME troubles' = {} PROVE Unharmed'
      <4>c. /\ troubles = {} /\ mixed = {}
            /\ LockInv
            /\ HeldInv
            /\ DepthInv
            /\ SessionInv
        BY <1>t, <3>d, <3>4 DEF CInv, Unharmed
      <4>f. /\ conn.owner = t
            /\ conn.tx = t
            /\ conn.held
            /\ conn.depth = 2
        BY <1>t, <1>u, <1>11, <2>g, <2>2, <3>4, <3>d, <4>c DEF LockInv, HeldInv, DepthInv, SessionInv, WireInv, KnownInv, AtWork, Gone, CanAsk, At, Cut
      <4>g. /\ conn'.owner = conn.owner
            /\ conn'.depth = 1
            /\ conn'.held = conn.held
        BY <1>u, <3>a, <4>c, <4>f, ExitFields
      <4>1. mixed' = {} /\ LockInv'
        BY <1>t, <1>u, <1>11, <2>g, <2>2, <3>d, <3>e, <3>l, <4>c, <4>f, <4>g DEF LockInv, HeldInv, DepthInv, SessionInv, WireInv, KnownInv, AtWork, CanAsk, At, RowsOf, Rows
      <4>2. HeldInv' /\ DepthInv'
        BY <1>t, <1>u, <1>11, <2>g, <2>2, <3>d, <3>e, <3>l, <4>c, <4>f, <4>g DEF LockInv, HeldInv, DepthInv, SessionInv, WireInv, KnownInv, AtWork, CanAsk, At, RowsOf, Rows
      <4>3. SessionInv'
        BY <1>t, <1>u, <1>11, <2>g, <2>2, <3>d, <3>e, <3>l, <4>c, <4>f, <4>g DEF LockInv, HeldInv, DepthInv, SessionInv, WireInv, KnownInv, AtWork, CanAsk, At, RowsOf, Rows
      <4> QED BY <4>1, <4>2, <4>3 DEF Unharmed
    <3> QED BY <3>t, <3>1, <3>2, <3>3, <3>4 DEF IInv, UInv, CInv
  <2>3. CASE pc[t] = "writing" /\ Refused(t, ReturnTx(NoTx(conn))) /\ Ends(t) /\ UNCHANGED db
    <3>a. /\ conn' = Exit(ReturnTx(NoTx(conn)))
          /\ link' = [link EXCEPT !.wire = NoTask]
      BY <1>u, <1>11, <2>g, <2>3 DEF Cut, Refused, Ends, Stored, At, Goto, Rest, Calm
    <3>d. /\ pc' = [pc EXCEPT ![t] = "raised"]
          /\ done' = done
          /\ db' = db
          /\ mixed' = mixed \cup {u \in {conn.tx} \ {t} : AtWork(u)}
          /\ troubles' = troubles
          /\ breaks' = breaks
      BY <1>u, <1>11, <2>g, <2>3 DEF Cut, Refused, Ends, Stored, At, Goto, Rest, Calm
    <3>m. /\ NoTx(conn) \in Conn
          /\ NoTx(conn).tx = NoTask
          /\ NoTx(conn).begun = FALSE
          /\ NoTx(conn).lost = FALSE
          /\ NoTx(conn).raw = conn.raw
          /\ NoTx(conn).owner = conn.owner
          /\ NoTx(conn).depth = conn.depth
          /\ NoTx(conn).held = conn.held
      BY <1>u, NoTxFields
    <3>n. /\ ReturnTx(NoTx(conn)) \in Conn
          /\ ReturnTx(NoTx(conn)).tx = NoTask
          /\ ReturnTx(NoTx(conn)).begun = FALSE
          /\ ReturnTx(NoTx(conn)).lost = FALSE
          /\ ReturnTx(NoTx(conn)).raw = conn.raw
          /\ ReturnTx(NoTx(conn)).held = FALSE
          /\ conn.held /\ conn.depth = 2 => ReturnTx(NoTx(conn)).owner = conn.owner /\ ReturnTx(NoTx(conn)).depth = 1
      BY <3>m, ReturnFields
    <3>e. /\ conn' \in Conn
          /\ conn'.tx = NoTask
          /\ conn'.begun = FALSE
          /\ conn'.lost = FALSE
          /\ conn'.raw = conn.raw
      BY <1>u, <3>a, <3>n, ExitFields
    <3>l. /\ link' \in Link
          /\ link'.wire = NoTask
          /\ link'.open = link.open
          /\ link'.top = link.top
          /\ link'.pending = link.pending
      BY <1>t, <1>u, <1>11, <2>g, <2>3, <3>a DEF Link
    <3>t. TInv'
      BY <1>t, <1>u, <1>11, <2>g, <2>3, <3>d, <3>e, <3>l DEF TInv, TypeOK, DoneInv, AtWork, At, Rows
    <3>1. WireInv' /\ KnownInv' /\ WritingInv'
      BY <1>t, <1>u, <1>11, <2>g, <2>3, <3>d, <3>e, <3>l DEF WireInv, KnownInv, TxInv, OwnInv, WritingInv, PendInv, CommitInv, StoredInv, AtWork, CanAsk, At, RowsOf
    <3>2. TxInv' /\ OwnInv'
      BY <1>t, <1>u, <1>11, <2>g, <2>3, <3>d, <3>e, <3>l DEF WireInv, KnownInv, TxInv, OwnInv, WritingInv, PendInv, CommitInv, StoredInv, AtWork, CanAsk, At, RowsOf
    <3>3. PendInv' /\ CommitInv' /\ StoredInv'
      BY <1>t, <1>u, <1>11, <2>g, <2>3, <3>d, <3>e, <3>l DEF WireInv, KnownInv, TxInv, OwnInv, WritingInv, PendInv, CommitInv, StoredInv, AtWork, CanAsk, At, RowsOf, Rows
    <3>4. ASSUME troubles' = {} PROVE Unharmed'
      <4>c. /\ troubles = {} /\ mixed = {}
            /\ LockInv
            /\ HeldInv
            /\ DepthInv
            /\ SessionInv
        BY <1>t, <3>d, <3>4 DEF CInv, Unharmed
      <4>f. /\ conn.owner = t
            /\ conn.tx = t
            /\ conn.held
            /\ conn.depth = 2
        BY <1>t, <1>u, <1>11, <2>g, <2>3, <3>4, <3>d, <4>c DEF LockInv, HeldInv, DepthInv, SessionInv, WireInv, KnownInv, AtWork, Gone, CanAsk, At, Cut
      <4>g. /\ conn'.owner = NoTask
            /\ conn'.depth = 0
            /\ conn'.held = FALSE
        BY <1>u, <3>a, <3>n, <4>c, <4>f, ExitFields
      <4>1. mixed' = {} /\ LockInv'
        BY <1>t, <1>u, <1>11, <2>g, <2>3, <3>d, <3>e, <3>l, <4>c, <4>f, <4>g DEF LockInv, HeldInv, DepthInv, SessionInv, WireInv, KnownInv, AtWork, CanAsk, At, RowsOf, Rows
      <4>2. HeldInv' /\ DepthInv'
        BY <1>t, <1>u, <1>11, <2>g, <2>3, <3>d, <3>e, <3>l, <4>c, <4>f, <4>g DEF LockInv, HeldInv, DepthInv, SessionInv, WireInv, KnownInv, AtWork, CanAsk, At, RowsOf, Rows
      <4>3. SessionInv'
        BY <1>t, <1>u, <1>11, <2>g, <2>3, <3>d, <3>e, <3>l, <4>c, <4>f, <4>g DEF LockInv, HeldInv, DepthInv, SessionInv, WireInv, KnownInv, AtWork, CanAsk, At, RowsOf, Rows
      <4> QED BY <4>1, <4>2, <4>3 DEF Unharmed
    <3> QED BY <3>t, <3>1, <3>2, <3>3, <3>4 DEF IInv, UInv, CInv
  <2>4. CASE pc[t] = "clearing"
    <3>a. /\ conn' = conn
          /\ link' = [link EXCEPT !.wire = NoTask]
      BY <1>u, <1>11, <2>g, <2>4 DEF Cut, Refused, Ends, Stored, At, Goto, Rest, Calm
    <3>d. /\ pc' = [pc EXCEPT ![t] = "inside"]
          /\ done' = done
          /\ db' = db
          /\ mixed' = mixed
          /\ troubles' = troubles
          /\ breaks' = breaks
      BY <1>u, <1>11, <2>g, <2>4 DEF Cut, Refused, Ends, Stored, At, Goto, Rest, Calm
    <3>e. /\ conn' \in Conn
          /\ conn'.tx = conn.tx
          /\ conn'.begun = conn.begun
          /\ conn'.lost = conn.lost
          /\ conn'.raw = conn.raw
          /\ conn'.owner = conn.owner
          /\ conn'.depth = conn.depth
          /\ conn'.held = conn.held
      BY <1>u, <3>a
    <3>l. /\ link' \in Link
          /\ link'.wire = NoTask
          /\ link'.open = link.open
          /\ link'.top = link.top
          /\ link'.pending = link.pending
      BY <1>t, <1>u, <1>11, <2>g, <2>4, <3>a DEF Link
    <3>t. TInv'
      BY <1>t, <1>u, <1>11, <2>g, <2>4, <3>d, <3>e, <3>l DEF TInv, TypeOK, DoneInv, AtWork, At, Rows
    <3>1. WireInv' /\ KnownInv' /\ WritingInv'
      BY <1>t, <1>u, <1>11, <2>g, <2>4, <3>d, <3>e, <3>l DEF WireInv, KnownInv, TxInv, OwnInv, WritingInv, PendInv, CommitInv, StoredInv, AtWork, CanAsk, At, RowsOf
    <3>2. TxInv' /\ OwnInv'
      BY <1>t, <1>u, <1>11, <2>g, <2>4, <3>d, <3>e, <3>l DEF WireInv, KnownInv, TxInv, OwnInv, WritingInv, PendInv, CommitInv, StoredInv, AtWork, CanAsk, At, RowsOf
    <3>3. PendInv' /\ CommitInv' /\ StoredInv'
      BY <1>t, <1>u, <1>11, <2>g, <2>4, <3>d, <3>e, <3>l DEF WireInv, KnownInv, TxInv, OwnInv, WritingInv, PendInv, CommitInv, StoredInv, AtWork, CanAsk, At, RowsOf, Rows
    <3>4. ASSUME troubles' = {} PROVE Unharmed'
      <4>c. /\ troubles = {} /\ mixed = {}
            /\ LockInv
            /\ HeldInv
            /\ DepthInv
            /\ SessionInv
        BY <1>t, <3>d, <3>4 DEF CInv, Unharmed
      <4>f. /\ conn.owner = t
            /\ conn.tx = NoTask
            /\ ~conn.held
        BY <1>t, <1>u, <1>11, <2>g, <2>4, <3>4, <3>d, <4>c DEF LockInv, HeldInv, DepthInv, SessionInv, WireInv, KnownInv, AtWork, Gone, CanAsk, At, Cut
      <4>1. mixed' = {} /\ LockInv'
        BY <1>t, <1>u, <1>11, <2>g, <2>4, <3>d, <3>e, <3>l, <4>c, <4>f DEF LockInv, HeldInv, DepthInv, SessionInv, WireInv, KnownInv, AtWork, CanAsk, At, RowsOf, Rows
      <4>2. HeldInv' /\ DepthInv'
        BY <1>t, <1>u, <1>11, <2>g, <2>4, <3>d, <3>e, <3>l, <4>c, <4>f DEF LockInv, HeldInv, DepthInv, SessionInv, WireInv, KnownInv, AtWork, CanAsk, At, RowsOf, Rows
      <4>3. SessionInv'
        BY <1>t, <1>u, <1>11, <2>g, <2>4, <3>d, <3>e, <3>l, <4>c, <4>f DEF LockInv, HeldInv, DepthInv, SessionInv, WireInv, KnownInv, AtWork, CanAsk, At, RowsOf, Rows
      <4> QED BY <4>1, <4>2, <4>3 DEF Unharmed
    <3> QED BY <3>t, <3>1, <3>2, <3>3, <3>4 DEF IInv, UInv, CInv
  <2>5. CASE pc[t] = "rolling"
    <3>a. /\ conn' = ReturnTx(conn)
          /\ link' = [link EXCEPT !.wire = NoTask]
      BY <1>u, <1>11, <2>g, <2>5 DEF Cut, Refused, Ends, Stored, At, Goto, Rest, Calm
    <3>d. /\ pc' = [pc EXCEPT ![t] = "failed"]
          /\ done' = done
          /\ db' = db
          /\ mixed' = mixed
          /\ troubles' = troubles
          /\ breaks' = breaks
      BY <1>u, <1>11, <2>g, <2>5 DEF Cut, Refused, Ends, Stored, At, Goto, Rest, Calm
    <3>e. /\ conn' \in Conn
          /\ conn'.tx = conn.tx
          /\ conn'.begun = conn.begun
          /\ conn'.lost = conn.lost
          /\ conn'.raw = conn.raw
      BY <1>u, <3>a, ReturnFields
    <3>l. /\ link' \in Link
          /\ link'.wire = NoTask
          /\ link'.open = link.open
          /\ link'.top = link.top
          /\ link'.pending = link.pending
      BY <1>t, <1>u, <1>11, <2>g, <2>5, <3>a DEF Link
    <3>t. TInv'
      BY <1>t, <1>u, <1>11, <2>g, <2>5, <3>d, <3>e, <3>l DEF TInv, TypeOK, DoneInv, AtWork, At, Rows
    <3>1. WireInv' /\ KnownInv' /\ WritingInv'
      BY <1>t, <1>u, <1>11, <2>g, <2>5, <3>d, <3>e, <3>l DEF WireInv, KnownInv, TxInv, OwnInv, WritingInv, PendInv, CommitInv, StoredInv, AtWork, CanAsk, At, RowsOf
    <3>2. TxInv' /\ OwnInv'
      BY <1>t, <1>u, <1>11, <2>g, <2>5, <3>d, <3>e, <3>l DEF WireInv, KnownInv, TxInv, OwnInv, WritingInv, PendInv, CommitInv, StoredInv, AtWork, CanAsk, At, RowsOf
    <3>3. PendInv' /\ CommitInv' /\ StoredInv'
      BY <1>t, <1>u, <1>11, <2>g, <2>5, <3>d, <3>e, <3>l DEF WireInv, KnownInv, TxInv, OwnInv, WritingInv, PendInv, CommitInv, StoredInv, AtWork, CanAsk, At, RowsOf, Rows
    <3>4. ASSUME troubles' = {} PROVE Unharmed'
      <4>c. /\ troubles = {} /\ mixed = {}
            /\ LockInv
            /\ HeldInv
            /\ DepthInv
            /\ SessionInv
        BY <1>t, <3>d, <3>4 DEF CInv, Unharmed
      <4>f. /\ conn.owner = t
            /\ conn.tx = NoTask
            /\ conn.held
            /\ conn.depth = 1
        BY <1>t, <1>u, <1>11, <2>g, <2>5, <3>4, <3>d, <4>c DEF LockInv, HeldInv, DepthInv, SessionInv, WireInv, KnownInv, AtWork, Gone, CanAsk, At, Cut
      <4>g. /\ conn'.owner = NoTask
            /\ conn'.depth = 0
            /\ conn'.held = FALSE
        BY <1>u, <3>a, <4>c, <4>f, ReturnFields
      <4>1. mixed' = {} /\ LockInv'
        BY <1>t, <1>u, <1>11, <2>g, <2>5, <3>d, <3>e, <3>l, <4>c, <4>f, <4>g DEF LockInv, HeldInv, DepthInv, SessionInv, WireInv, KnownInv, AtWork, CanAsk, At, RowsOf, Rows
      <4>2. HeldInv' /\ DepthInv'
        BY <1>t, <1>u, <1>11, <2>g, <2>5, <3>d, <3>e, <3>l, <4>c, <4>f, <4>g DEF LockInv, HeldInv, DepthInv, SessionInv, WireInv, KnownInv, AtWork, CanAsk, At, RowsOf, Rows
      <4>3. SessionInv'
        BY <1>t, <1>u, <1>11, <2>g, <2>5, <3>d, <3>e, <3>l, <4>c, <4>f, <4>g DEF LockInv, HeldInv, DepthInv, SessionInv, WireInv, KnownInv, AtWork, CanAsk, At, RowsOf, Rows
      <4> QED BY <4>1, <4>2, <4>3 DEF Unharmed
    <3> QED BY <3>t, <3>1, <3>2, <3>3, <3>4 DEF IInv, UInv, CInv
  <2>6. CASE pc[t] = "discarding"
    <3>a. /\ conn' = Exit(ReturnTx(conn))
          /\ link' = [link EXCEPT !.wire = NoTask]
      BY <1>u, <1>11, <2>g, <2>6 DEF Cut, Refused, Ends, Stored, At, Goto, Rest, Calm
    <3>d. /\ pc' = [pc EXCEPT ![t] = "raised"]
          /\ done' = done
          /\ db' = db
          /\ mixed' = mixed
          /\ troubles' = troubles
          /\ breaks' = breaks
      BY <1>u, <1>11, <2>g, <2>6 DEF Cut, Refused, Ends, Stored, At, Goto, Rest, Calm
    <3>m. /\ ReturnTx(conn) \in Conn
          /\ ReturnTx(conn).tx = conn.tx
          /\ ReturnTx(conn).begun = conn.begun
          /\ ReturnTx(conn).lost = conn.lost
          /\ ReturnTx(conn).raw = conn.raw
          /\ ReturnTx(conn).held = FALSE
          /\ conn.held /\ conn.depth = 2 => ReturnTx(conn).owner = conn.owner /\ ReturnTx(conn).depth = 1
      BY <1>u, ReturnFields
    <3>e. /\ conn' \in Conn
          /\ conn'.tx = conn.tx
          /\ conn'.begun = conn.begun
          /\ conn'.lost = conn.lost
          /\ conn'.raw = conn.raw
      BY <1>u, <3>a, <3>m, ExitFields
    <3>l. /\ link' \in Link
          /\ link'.wire = NoTask
          /\ link'.open = link.open
          /\ link'.top = link.top
          /\ link'.pending = link.pending
      BY <1>t, <1>u, <1>11, <2>g, <2>6, <3>a DEF Link
    <3>t. TInv'
      BY <1>t, <1>u, <1>11, <2>g, <2>6, <3>d, <3>e, <3>l DEF TInv, TypeOK, DoneInv, AtWork, At, Rows
    <3>1. WireInv' /\ KnownInv' /\ WritingInv'
      BY <1>t, <1>u, <1>11, <2>g, <2>6, <3>d, <3>e, <3>l DEF WireInv, KnownInv, TxInv, OwnInv, WritingInv, PendInv, CommitInv, StoredInv, AtWork, CanAsk, At, RowsOf
    <3>2. TxInv' /\ OwnInv'
      BY <1>t, <1>u, <1>11, <2>g, <2>6, <3>d, <3>e, <3>l DEF WireInv, KnownInv, TxInv, OwnInv, WritingInv, PendInv, CommitInv, StoredInv, AtWork, CanAsk, At, RowsOf
    <3>3. PendInv' /\ CommitInv' /\ StoredInv'
      BY <1>t, <1>u, <1>11, <2>g, <2>6, <3>d, <3>e, <3>l DEF WireInv, KnownInv, TxInv, OwnInv, WritingInv, PendInv, CommitInv, StoredInv, AtWork, CanAsk, At, RowsOf, Rows
    <3>4. ASSUME troubles' = {} PROVE Unharmed'
      <4>c. /\ troubles = {} /\ mixed = {}
            /\ LockInv
            /\ HeldInv
            /\ DepthInv
            /\ SessionInv
        BY <1>t, <3>d, <3>4 DEF CInv, Unharmed
      <4>f. /\ conn.owner = t
            /\ conn.tx = NoTask
            /\ conn.held
            /\ conn.depth = 2
        BY <1>t, <1>u, <1>11, <2>g, <2>6, <3>4, <3>d, <4>c DEF LockInv, HeldInv, DepthInv, SessionInv, WireInv, KnownInv, AtWork, Gone, CanAsk, At, Cut
      <4>g. /\ conn'.owner = NoTask
            /\ conn'.depth = 0
            /\ conn'.held = FALSE
        BY <1>u, <3>a, <3>m, <4>c, <4>f, ExitFields
      <4>1. mixed' = {} /\ LockInv'
        BY <1>t, <1>u, <1>11, <2>g, <2>6, <3>d, <3>e, <3>l, <4>c, <4>f, <4>g DEF LockInv, HeldInv, DepthInv, SessionInv, WireInv, KnownInv, AtWork, CanAsk, At, RowsOf, Rows
      <4>2. HeldInv' /\ DepthInv'
        BY <1>t, <1>u, <1>11, <2>g, <2>6, <3>d, <3>e, <3>l, <4>c, <4>f, <4>g DEF LockInv, HeldInv, DepthInv, SessionInv, WireInv, KnownInv, AtWork, CanAsk, At, RowsOf, Rows
      <4>3. SessionInv'
        BY <1>t, <1>u, <1>11, <2>g, <2>6, <3>d, <3>e, <3>l, <4>c, <4>f, <4>g DEF LockInv, HeldInv, DepthInv, SessionInv, WireInv, KnownInv, AtWork, CanAsk, At, RowsOf, Rows
      <4> QED BY <4>1, <4>2, <4>3 DEF Unharmed
    <3> QED BY <3>t, <3>1, <3>2, <3>3, <3>4 DEF IInv, UInv, CInv
  <2>7. CASE pc[t] = "committing"
    <3>a. /\ conn' = ReturnTx(conn)
          /\ link' = [link EXCEPT !.wire = NoTask]
      BY <1>u, <1>11, <2>g, <2>7 DEF Cut, Refused, Ends, Stored, At, Goto, Rest, Calm
    <3>d. /\ pc' = [pc EXCEPT ![t] = "unsure"]
          /\ done' = done
          /\ db' \in {db, IF link.top = NoTask THEN db \cup link.pending ELSE db}
          /\ mixed' = mixed
          /\ troubles' = troubles
          /\ breaks' = breaks
      BY <1>u, <1>11, <2>g, <2>7 DEF Cut, Refused, Ends, Stored, At, Goto, Rest, Calm
    <3>e. /\ conn' \in Conn
          /\ conn'.tx = conn.tx
          /\ conn'.begun = conn.begun
          /\ conn'.lost = conn.lost
          /\ conn'.raw = conn.raw
      BY <1>u, <3>a, ReturnFields
    <3>l. /\ link' \in Link
          /\ link'.wire = NoTask
          /\ link'.open = link.open
          /\ link'.top = link.top
          /\ link'.pending = link.pending
      BY <1>t, <1>u, <1>11, <2>g, <2>7, <3>a DEF Link
    <3>t. TInv'
      BY <1>t, <1>u, <1>11, <2>g, <2>7, <3>d, <3>e, <3>l DEF TInv, TypeOK, DoneInv, AtWork, At, Rows
    <3>1. WireInv' /\ KnownInv' /\ WritingInv'
      BY <1>t, <1>u, <1>11, <2>g, <2>7, <3>d, <3>e, <3>l DEF WireInv, KnownInv, TxInv, OwnInv, WritingInv, PendInv, CommitInv, StoredInv, AtWork, CanAsk, At, RowsOf
    <3>2. TxInv' /\ OwnInv'
      BY <1>t, <1>u, <1>11, <2>g, <2>7, <3>d, <3>e, <3>l DEF WireInv, KnownInv, TxInv, OwnInv, WritingInv, PendInv, CommitInv, StoredInv, AtWork, CanAsk, At, RowsOf
    <3>3. PendInv' /\ CommitInv' /\ StoredInv'
      BY <1>t, <1>u, <1>11, <2>g, <2>7, <3>d, <3>e, <3>l DEF WireInv, KnownInv, TxInv, OwnInv, WritingInv, PendInv, CommitInv, StoredInv, AtWork, CanAsk, At, RowsOf, Rows
    <3>4. ASSUME troubles' = {} PROVE Unharmed'
      <4>c. /\ troubles = {} /\ mixed = {}
            /\ LockInv
            /\ HeldInv
            /\ DepthInv
            /\ SessionInv
        BY <1>t, <3>d, <3>4 DEF CInv, Unharmed
      <4>f. /\ conn.owner = t
            /\ conn.tx = NoTask
            /\ conn.held
            /\ conn.depth = 1
        BY <1>t, <1>u, <1>11, <2>g, <2>7, <3>4, <3>d, <4>c DEF LockInv, HeldInv, DepthInv, SessionInv, WireInv, KnownInv, AtWork, Gone, CanAsk, At, Cut
      <4>g. /\ conn'.owner = NoTask
            /\ conn'.depth = 0
            /\ conn'.held = FALSE
        BY <1>u, <3>a, <4>c, <4>f, ReturnFields
      <4>1. mixed' = {} /\ LockInv'
        BY <1>t, <1>u, <1>11, <2>g, <2>7, <3>d, <3>e, <3>l, <4>c, <4>f, <4>g DEF LockInv, HeldInv, DepthInv, SessionInv, WireInv, KnownInv, AtWork, CanAsk, At, RowsOf, Rows
      <4>2. HeldInv' /\ DepthInv'
        BY <1>t, <1>u, <1>11, <2>g, <2>7, <3>d, <3>e, <3>l, <4>c, <4>f, <4>g DEF LockInv, HeldInv, DepthInv, SessionInv, WireInv, KnownInv, AtWork, CanAsk, At, RowsOf, Rows
      <4>3. SessionInv'
        BY <1>t, <1>u, <1>11, <2>g, <2>7, <3>d, <3>e, <3>l, <4>c, <4>f, <4>g DEF LockInv, HeldInv, DepthInv, SessionInv, WireInv, KnownInv, AtWork, CanAsk, At, RowsOf, Rows
      <4> QED BY <4>1, <4>2, <4>3 DEF Unharmed
    <3> QED BY <3>t, <3>1, <3>2, <3>3, <3>4 DEF IInv, UInv, CInv
  <2> QED BY <1>u, <1>11, <2>g, <2>1, <2>2, <2>3, <2>4, <2>5, <2>6, <2>7 DEF Cut, Refused, Ends, Stored, CanAsk, At
<1>12. ASSUME NEW t \in Tasks, Commit(t) PROVE IInv'
  <2>g. /\ pc[t] \in {"between"}
        /\ \A u \in Tasks : pc[u] \in Running => u = t
    BY <1>12 DEF Commit, At
  <2>1. CASE conn.tx = NoTask
    <3>a. /\ conn' = conn
          /\ link' = link
      BY <1>u, <1>12, <2>g, <2>1 DEF Commit, Forget, At, Goto, Rest, Calm
    <3>d. /\ pc' = [pc EXCEPT ![t] = "ok"]
          /\ done' = done
          /\ db' = db
          /\ mixed' = mixed
          /\ troubles' = troubles
          /\ breaks' = breaks
      BY <1>u, <1>12, <2>g, <2>1 DEF Commit, Forget, At, Goto, Rest, Calm
    <3>e. /\ conn' \in Conn
          /\ conn'.tx = conn.tx
          /\ conn'.begun = conn.begun
          /\ conn'.lost = conn.lost
          /\ conn'.raw = conn.raw
          /\ conn'.owner = conn.owner
          /\ conn'.depth = conn.depth
          /\ conn'.held = conn.held
      BY <1>u, <3>a
    <3>l. /\ link' \in Link
          /\ link'.wire = link.wire
          /\ link'.open = link.open
          /\ link'.top = link.top
          /\ link'.pending = link.pending
      BY <1>u, <3>a
    <3>t. TInv'
      BY <1>t, <1>u, <1>12, <2>g, <2>1, <3>d, <3>e, <3>l DEF TInv, TypeOK, DoneInv, AtWork, At, Rows
    <3>1. WireInv' /\ KnownInv' /\ WritingInv'
      BY <1>t, <1>u, <1>12, <2>g, <2>1, <3>d, <3>e, <3>l DEF WireInv, KnownInv, TxInv, OwnInv, WritingInv, PendInv, CommitInv, StoredInv, AtWork, CanAsk, At, RowsOf, Commit
    <3>2. TxInv' /\ OwnInv'
      BY <1>t, <1>u, <1>12, <2>g, <2>1, <3>d, <3>e, <3>l DEF WireInv, KnownInv, TxInv, OwnInv, WritingInv, PendInv, CommitInv, StoredInv, AtWork, CanAsk, At, RowsOf, Commit
    <3>3. PendInv' /\ CommitInv' /\ StoredInv'
      BY <1>t, <1>u, <1>12, <2>g, <2>1, <3>d, <3>e, <3>l DEF WireInv, KnownInv, TxInv, OwnInv, WritingInv, PendInv, CommitInv, StoredInv, AtWork, CanAsk, At, RowsOf, Rows, Commit
    <3>4. ASSUME troubles' = {} PROVE Unharmed'
      <4>c. /\ troubles = {} /\ mixed = {}
            /\ LockInv
            /\ HeldInv
            /\ DepthInv
            /\ SessionInv
        BY <1>t, <3>d, <3>4 DEF CInv, Unharmed
      <4> QED
        BY <1>t, <1>u, <1>12, <2>g, <2>1, <4>c DEF LockInv, HeldInv, DepthInv, SessionInv, WireInv, KnownInv, TxInv, OwnInv, WritingInv, PendInv, CommitInv, StoredInv, AtWork, Gone, CanAsk, At
    <3> QED BY <3>t, <3>1, <3>2, <3>3, <3>4 DEF IInv, UInv, CInv
  <2>2. CASE conn.tx # NoTask /\ conn.lost
    <3>a. /\ conn' = ReturnTx(NoTx(conn))
          /\ link' = link
      BY <1>u, <1>12, <2>g, <2>2 DEF Commit, Forget, At, Goto, Rest, Calm
    <3>d. /\ pc' = [pc EXCEPT ![t] = "raised"]
          /\ done' = done
          /\ db' = db
          /\ mixed' = (IF conn.tx \in {t, NoTask} THEN mixed ELSE mixed \cup {t, conn.tx})
          /\ troubles' = troubles
          /\ breaks' = breaks
      BY <1>u, <1>12, <2>g, <2>2 DEF Commit, Forget, At, Goto, Rest, Calm
    <3>m. /\ NoTx(conn) \in Conn
          /\ NoTx(conn).tx = NoTask
          /\ NoTx(conn).begun = FALSE
          /\ NoTx(conn).lost = FALSE
          /\ NoTx(conn).raw = conn.raw
          /\ NoTx(conn).owner = conn.owner
          /\ NoTx(conn).depth = conn.depth
          /\ NoTx(conn).held = conn.held
      BY <1>u, NoTxFields
    <3>e. /\ conn' \in Conn
          /\ conn'.tx = NoTask
          /\ conn'.begun = FALSE
          /\ conn'.lost = FALSE
          /\ conn'.raw = conn.raw
      BY <1>u, <3>a, <3>m, ReturnFields
    <3>l. /\ link' \in Link
          /\ link'.wire = link.wire
          /\ link'.open = link.open
          /\ link'.top = link.top
          /\ link'.pending = link.pending
      BY <1>u, <3>a
    <3>t. TInv'
      BY <1>t, <1>u, <1>12, <2>g, <2>2, <3>d, <3>e, <3>l DEF TInv, TypeOK, DoneInv, AtWork, At, Rows
    <3>1. WireInv' /\ KnownInv' /\ WritingInv'
      BY <1>t, <1>u, <1>12, <2>g, <2>2, <3>d, <3>e, <3>l DEF WireInv, KnownInv, TxInv, OwnInv, WritingInv, PendInv, CommitInv, StoredInv, AtWork, CanAsk, At, RowsOf, Commit
    <3>2. TxInv' /\ OwnInv'
      BY <1>t, <1>u, <1>12, <2>g, <2>2, <3>d, <3>e, <3>l DEF WireInv, KnownInv, TxInv, OwnInv, WritingInv, PendInv, CommitInv, StoredInv, AtWork, CanAsk, At, RowsOf, Commit
    <3>3. PendInv' /\ CommitInv' /\ StoredInv'
      BY <1>t, <1>u, <1>12, <2>g, <2>2, <3>d, <3>e, <3>l DEF WireInv, KnownInv, TxInv, OwnInv, WritingInv, PendInv, CommitInv, StoredInv, AtWork, CanAsk, At, RowsOf, Rows, Commit
    <3>4. ASSUME troubles' = {} PROVE Unharmed'
      <4>c. /\ troubles = {} /\ mixed = {}
            /\ LockInv
            /\ HeldInv
            /\ DepthInv
            /\ SessionInv
        BY <1>t, <3>d, <3>4 DEF CInv, Unharmed
      <4>f. /\ conn.owner = t
            /\ conn.tx = t
            /\ conn.held
            /\ conn.depth = 1
        BY <1>t, <1>u, <1>12, <2>g, <2>2, <3>4, <3>d, <4>c DEF LockInv, HeldInv, DepthInv, SessionInv, WireInv, KnownInv, AtWork, Gone, CanAsk, At, Commit
      <4>g. /\ conn'.owner = NoTask
            /\ conn'.depth = 0
            /\ conn'.held = FALSE
        BY <1>u, <3>a, <3>m, <4>c, <4>f, ReturnFields
      <4>1. mixed' = {} /\ LockInv'
        BY <1>t, <1>u, <1>12, <2>g, <2>2, <3>d, <3>e, <3>l, <4>c, <4>f, <4>g DEF LockInv, HeldInv, DepthInv, SessionInv, WireInv, KnownInv, AtWork, CanAsk, At, RowsOf, Rows
      <4>2. HeldInv' /\ DepthInv'
        BY <1>t, <1>u, <1>12, <2>g, <2>2, <3>d, <3>e, <3>l, <4>c, <4>f, <4>g DEF LockInv, HeldInv, DepthInv, SessionInv, WireInv, KnownInv, AtWork, CanAsk, At, RowsOf, Rows
      <4>3. SessionInv'
        BY <1>t, <1>u, <1>12, <2>g, <2>2, <3>d, <3>e, <3>l, <4>c, <4>f, <4>g DEF LockInv, HeldInv, DepthInv, SessionInv, WireInv, KnownInv, AtWork, CanAsk, At, RowsOf, Rows
      <4> QED BY <4>1, <4>2, <4>3 DEF Unharmed
    <3> QED BY <3>t, <3>1, <3>2, <3>3, <3>4 DEF IInv, UInv, CInv
  <2>3. CASE conn.tx # NoTask /\ ~conn.lost /\ CanAsk(NoTask)
    <3>a. /\ conn' = NoTx(conn)
          /\ link' = [link EXCEPT !.wire = t, !.top = IF link.top = conn.tx THEN NoTask ELSE link.top]
      BY <1>u, <1>12, <2>g, <2>3 DEF Commit, Forget, At, Goto, Rest, Calm
    <3>d. /\ pc' = [pc EXCEPT ![t] = "committing"]
          /\ done' = done
          /\ db' = db
          /\ mixed' = (IF conn.tx \in {t, NoTask} THEN mixed ELSE mixed \cup {t, conn.tx})
          /\ troubles' = troubles
          /\ breaks' = breaks
      BY <1>u, <1>12, <2>g, <2>3 DEF Commit, Forget, At, Goto, Rest, Calm
    <3>e. /\ conn' \in Conn
          /\ conn'.tx = NoTask
          /\ conn'.begun = FALSE
          /\ conn'.lost = FALSE
          /\ conn'.raw = conn.raw
      BY <1>u, <3>a, NoTxFields
    <3>l. /\ link' \in Link
          /\ link'.wire = t
          /\ link'.open = link.open
          /\ link'.top = (IF link.top = conn.tx THEN NoTask ELSE link.top)
          /\ link'.pending = link.pending
      BY <1>t, <1>u, <1>12, <2>g, <2>3, <3>a DEF Link
    <3>t. TInv'
      BY <1>t, <1>u, <1>12, <2>g, <2>3, <3>d, <3>e, <3>l DEF TInv, TypeOK, DoneInv, AtWork, At, Rows
    <3>1. WireInv' /\ KnownInv' /\ WritingInv'
      BY <1>t, <1>u, <1>12, <2>g, <2>3, <3>d, <3>e, <3>l DEF WireInv, KnownInv, TxInv, OwnInv, WritingInv, PendInv, CommitInv, StoredInv, AtWork, CanAsk, At, RowsOf, Commit
    <3>2. TxInv' /\ OwnInv'
      BY <1>t, <1>u, <1>12, <2>g, <2>3, <3>d, <3>e, <3>l DEF WireInv, KnownInv, TxInv, OwnInv, WritingInv, PendInv, CommitInv, StoredInv, AtWork, CanAsk, At, RowsOf, Commit
    <3>3. PendInv' /\ CommitInv' /\ StoredInv'
      BY <1>t, <1>u, <1>12, <2>g, <2>3, <3>d, <3>e, <3>l DEF WireInv, KnownInv, TxInv, OwnInv, WritingInv, PendInv, CommitInv, StoredInv, AtWork, CanAsk, At, RowsOf, Rows, Commit
    <3>4. ASSUME troubles' = {} PROVE Unharmed'
      <4>c. /\ troubles = {} /\ mixed = {}
            /\ LockInv
            /\ HeldInv
            /\ DepthInv
            /\ SessionInv
        BY <1>t, <3>d, <3>4 DEF CInv, Unharmed
      <4>f. /\ conn.owner = t
            /\ conn.tx = t
            /\ conn.held
            /\ conn.depth = 1
            /\ link.top = t
        BY <1>t, <1>u, <1>12, <2>g, <2>3, <3>4, <3>d, <4>c DEF LockInv, HeldInv, DepthInv, SessionInv, WireInv, KnownInv, AtWork, Gone, CanAsk, At, Commit
      <4>g. /\ conn'.owner = conn.owner
            /\ conn'.depth = conn.depth
            /\ conn'.held = conn.held
        BY <1>u, <3>a, <4>c, <4>f, NoTxFields
      <4>1. mixed' = {} /\ LockInv'
        BY <1>t, <1>u, <1>12, <2>g, <2>3, <3>d, <3>e, <3>l, <4>c, <4>f, <4>g DEF LockInv, HeldInv, DepthInv, SessionInv, WireInv, KnownInv, AtWork, CanAsk, At, RowsOf, Rows
      <4>2. HeldInv' /\ DepthInv'
        BY <1>t, <1>u, <1>12, <2>g, <2>3, <3>d, <3>e, <3>l, <4>c, <4>f, <4>g DEF LockInv, HeldInv, DepthInv, SessionInv, WireInv, KnownInv, AtWork, CanAsk, At, RowsOf, Rows
      <4>3. SessionInv'
        BY <1>t, <1>u, <1>12, <2>g, <2>3, <3>d, <3>e, <3>l, <4>c, <4>f, <4>g DEF LockInv, HeldInv, DepthInv, SessionInv, WireInv, KnownInv, AtWork, CanAsk, At, RowsOf, Rows
      <4> QED BY <4>1, <4>2, <4>3 DEF Unharmed
    <3> QED BY <3>t, <3>1, <3>2, <3>3, <3>4 DEF IInv, UInv, CInv
  <2>4. CASE conn.tx # NoTask /\ ~conn.lost /\ ~CanAsk(NoTask)
    <3>a. /\ conn' = ReturnTx(NoTx(conn))
          /\ link' = [link EXCEPT !.top = IF link.top = conn.tx /\ conn.raw = "up" /\ conn.begun THEN NoTask ELSE link.top]
      BY <1>u, <1>12, <2>g, <2>4 DEF Commit, Forget, At, Goto, Rest, Calm
    <3>d. /\ pc' = [pc EXCEPT ![t] = "raised"]
          /\ done' = done
          /\ db' = db
          /\ mixed' = (IF conn.tx \in {t, NoTask} THEN mixed ELSE mixed \cup {t, conn.tx})
          /\ troubles' = troubles
          /\ breaks' = breaks
      BY <1>u, <1>12, <2>g, <2>4 DEF Commit, Forget, At, Goto, Rest, Calm
    <3>m. /\ NoTx(conn) \in Conn
          /\ NoTx(conn).tx = NoTask
          /\ NoTx(conn).begun = FALSE
          /\ NoTx(conn).lost = FALSE
          /\ NoTx(conn).raw = conn.raw
          /\ NoTx(conn).owner = conn.owner
          /\ NoTx(conn).depth = conn.depth
          /\ NoTx(conn).held = conn.held
      BY <1>u, NoTxFields
    <3>e. /\ conn' \in Conn
          /\ conn'.tx = NoTask
          /\ conn'.begun = FALSE
          /\ conn'.lost = FALSE
          /\ conn'.raw = conn.raw
      BY <1>u, <3>a, <3>m, ReturnFields
    <3>l. /\ link' \in Link
          /\ link'.wire = link.wire
          /\ link'.open = link.open
          /\ link'.top = (IF link.top = conn.tx /\ conn.raw = "up" /\ conn.begun THEN NoTask ELSE link.top)
          /\ link'.pending = link.pending
      BY <1>t, <1>u, <1>12, <2>g, <2>4, <3>a DEF Link
    <3>t. TInv'
      BY <1>t, <1>u, <1>12, <2>g, <2>4, <3>d, <3>e, <3>l DEF TInv, TypeOK, DoneInv, AtWork, At, Rows
    <3>1. WireInv' /\ KnownInv' /\ WritingInv'
      BY <1>t, <1>u, <1>12, <2>g, <2>4, <3>d, <3>e, <3>l DEF WireInv, KnownInv, TxInv, OwnInv, WritingInv, PendInv, CommitInv, StoredInv, AtWork, CanAsk, At, RowsOf, Commit
    <3>2. TxInv' /\ OwnInv'
      BY <1>t, <1>u, <1>12, <2>g, <2>4, <3>d, <3>e, <3>l DEF WireInv, KnownInv, TxInv, OwnInv, WritingInv, PendInv, CommitInv, StoredInv, AtWork, CanAsk, At, RowsOf, Commit
    <3>3. PendInv' /\ CommitInv' /\ StoredInv'
      BY <1>t, <1>u, <1>12, <2>g, <2>4, <3>d, <3>e, <3>l DEF WireInv, KnownInv, TxInv, OwnInv, WritingInv, PendInv, CommitInv, StoredInv, AtWork, CanAsk, At, RowsOf, Rows, Commit
    <3>4. ASSUME troubles' = {} PROVE Unharmed'
      <4>c. /\ troubles = {} /\ mixed = {}
            /\ LockInv
            /\ HeldInv
            /\ DepthInv
            /\ SessionInv
        BY <1>t, <3>d, <3>4 DEF CInv, Unharmed
      <4>f. /\ conn.owner = t
            /\ conn.tx = t
            /\ conn.held
            /\ conn.depth = 1
            /\ conn.raw # "up"
        BY <1>t, <1>u, <1>12, <2>g, <2>4, <3>4, <3>d, <4>c DEF LockInv, HeldInv, DepthInv, SessionInv, WireInv, KnownInv, AtWork, Gone, CanAsk, At, Commit
      <4>g. /\ conn'.owner = NoTask
            /\ conn'.depth = 0
            /\ conn'.held = FALSE
        BY <1>u, <3>a, <3>m, <4>c, <4>f, ReturnFields
      <4>1. mixed' = {} /\ LockInv'
        BY <1>t, <1>u, <1>12, <2>g, <2>4, <3>d, <3>e, <3>l, <4>c, <4>f, <4>g DEF LockInv, HeldInv, DepthInv, SessionInv, WireInv, KnownInv, AtWork, CanAsk, At, RowsOf, Rows
      <4>2. HeldInv' /\ DepthInv'
        BY <1>t, <1>u, <1>12, <2>g, <2>4, <3>d, <3>e, <3>l, <4>c, <4>f, <4>g DEF LockInv, HeldInv, DepthInv, SessionInv, WireInv, KnownInv, AtWork, CanAsk, At, RowsOf, Rows
      <4>3. SessionInv'
        BY <1>t, <1>u, <1>12, <2>g, <2>4, <3>d, <3>e, <3>l, <4>c, <4>f, <4>g DEF LockInv, HeldInv, DepthInv, SessionInv, WireInv, KnownInv, AtWork, CanAsk, At, RowsOf, Rows
      <4> QED BY <4>1, <4>2, <4>3 DEF Unharmed
    <3> QED BY <3>t, <3>1, <3>2, <3>3, <3>4 DEF IInv, UInv, CInv
  <2> QED BY <1>u, <1>12, <2>g, <2>1, <2>2, <2>3, <2>4 DEF Commit, Forget, CanAsk, At
<1>13. ASSUME NEW t \in Tasks, Rollback(t) PROVE IInv'
  <2>g. /\ pc[t] \in {"raised"}
        /\ \A u \in Tasks : pc[u] \in Running => u = t
    BY <1>13 DEF Rollback, At
  <2>1. CASE conn.tx = NoTask
    <3>a. /\ conn' = conn
          /\ link' = link
      BY <1>u, <1>13, <2>g, <2>1 DEF Rollback, SendRollback, Forget, Ends, At, Goto, Rest, Calm
    <3>d. /\ pc' = [pc EXCEPT ![t] = "failed"]
          /\ done' = done
          /\ db' = db
          /\ mixed' = mixed \cup {u \in {conn.tx} \ {t} : AtWork(u)}
          /\ troubles \subseteq troubles' /\ troubles' \subseteq Troubles
          /\ breaks' = breaks
      BY <1>u, <1>13, <2>g, <2>1 DEF Rollback, SendRollback, Forget, Ends, At, Goto, Rest, Calm
    <3>e. /\ conn' \in Conn
          /\ conn'.tx = conn.tx
          /\ conn'.begun = conn.begun
          /\ conn'.lost = conn.lost
          /\ conn'.raw = conn.raw
          /\ conn'.owner = conn.owner
          /\ conn'.depth = conn.depth
          /\ conn'.held = conn.held
      BY <1>u, <3>a
    <3>l. /\ link' \in Link
          /\ link'.wire = link.wire
          /\ link'.open = link.open
          /\ link'.top = link.top
          /\ link'.pending = link.pending
      BY <1>u, <3>a
    <3>t. TInv'
      BY <1>t, <1>u, <1>13, <2>g, <2>1, <3>d, <3>e, <3>l DEF TInv, TypeOK, DoneInv, AtWork, At, Rows
    <3>1. WireInv' /\ KnownInv' /\ WritingInv'
      BY <1>t, <1>u, <1>13, <2>g, <2>1, <3>d, <3>e, <3>l DEF WireInv, KnownInv, TxInv, OwnInv, WritingInv, PendInv, CommitInv, StoredInv, AtWork, CanAsk, At, RowsOf
    <3>2. TxInv' /\ OwnInv'
      BY <1>t, <1>u, <1>13, <2>g, <2>1, <3>d, <3>e, <3>l DEF WireInv, KnownInv, TxInv, OwnInv, WritingInv, PendInv, CommitInv, StoredInv, AtWork, CanAsk, At, RowsOf
    <3>3. PendInv' /\ CommitInv' /\ StoredInv'
      BY <1>t, <1>u, <1>13, <2>g, <2>1, <3>d, <3>e, <3>l DEF WireInv, KnownInv, TxInv, OwnInv, WritingInv, PendInv, CommitInv, StoredInv, AtWork, CanAsk, At, RowsOf, Rows
    <3>4. ASSUME troubles' = {} PROVE Unharmed'
      <4>c. /\ troubles = {} /\ mixed = {}
            /\ LockInv
            /\ HeldInv
            /\ DepthInv
            /\ SessionInv
        BY <1>t, <3>d, <3>4 DEF CInv, Unharmed
      <4>f. conn.owner # t
        BY <1>t, <1>u, <1>13, <2>g, <2>1, <3>4, <3>d, <4>c DEF LockInv, HeldInv, DepthInv, SessionInv, WireInv, KnownInv, AtWork, Gone, CanAsk, At, Rollback
      <4>1. mixed' = {} /\ LockInv'
        BY <1>t, <1>u, <1>13, <2>g, <2>1, <3>d, <3>e, <3>l, <4>c, <4>f DEF LockInv, HeldInv, DepthInv, SessionInv, WireInv, KnownInv, AtWork, CanAsk, At, RowsOf, Rows
      <4>2. HeldInv' /\ DepthInv'
        BY <1>t, <1>u, <1>13, <2>g, <2>1, <3>d, <3>e, <3>l, <4>c, <4>f DEF LockInv, HeldInv, DepthInv, SessionInv, WireInv, KnownInv, AtWork, CanAsk, At, RowsOf, Rows
      <4>3. SessionInv'
        BY <1>t, <1>u, <1>13, <2>g, <2>1, <3>d, <3>e, <3>l, <4>c, <4>f DEF LockInv, HeldInv, DepthInv, SessionInv, WireInv, KnownInv, AtWork, CanAsk, At, RowsOf, Rows
      <4> QED BY <4>1, <4>2, <4>3 DEF Unharmed
    <3> QED BY <3>t, <3>1, <3>2, <3>3, <3>4 DEF IInv, UInv, CInv
  <2>2. CASE conn.tx # NoTask /\ ~conn.lost /\ CanAsk(NoTask)
    <3>a. /\ conn' = NoTx(conn)
          /\ link' = [link EXCEPT !.wire = t, !.top = IF link.top = conn.tx THEN NoTask ELSE link.top, !.pending = IF link.top = conn.tx THEN {} ELSE link.pending \ RowsOf(conn.tx)]
      BY <1>u, <1>13, <2>g, <2>2 DEF Rollback, SendRollback, Forget, Ends, At, Goto, Rest, Calm
    <3>d. /\ pc' = [pc EXCEPT ![t] = "rolling"]
          /\ done' = done
          /\ db' = db
          /\ mixed' = mixed \cup {u \in {conn.tx} \ {t} : AtWork(u)}
          /\ troubles \subseteq troubles' /\ troubles' \subseteq Troubles
          /\ breaks' = breaks
      BY <1>u, <1>13, <2>g, <2>2 DEF Rollback, SendRollback, Forget, Ends, At, Goto, Rest, Calm
    <3>e. /\ conn' \in Conn
          /\ conn'.tx = NoTask
          /\ conn'.begun = FALSE
          /\ conn'.lost = FALSE
          /\ conn'.raw = conn.raw
      BY <1>u, <3>a, NoTxFields
    <3>l. /\ link' \in Link
          /\ link'.wire = t
          /\ link'.open = link.open
          /\ link'.top = (IF link.top = conn.tx THEN NoTask ELSE link.top)
          /\ link'.pending = (IF link.top = conn.tx THEN {} ELSE link.pending \ RowsOf(conn.tx))
      BY <1>t, <1>u, <1>13, <2>g, <2>2, <3>a DEF Link
    <3>t. TInv'
      BY <1>t, <1>u, <1>13, <2>g, <2>2, <3>d, <3>e, <3>l DEF TInv, TypeOK, DoneInv, AtWork, At, Rows
    <3>1. WireInv' /\ KnownInv' /\ WritingInv'
      BY <1>t, <1>u, <1>13, <2>g, <2>2, <3>d, <3>e, <3>l DEF WireInv, KnownInv, TxInv, OwnInv, WritingInv, PendInv, CommitInv, StoredInv, AtWork, CanAsk, At, RowsOf
    <3>2. TxInv' /\ OwnInv'
      BY <1>t, <1>u, <1>13, <2>g, <2>2, <3>d, <3>e, <3>l DEF WireInv, KnownInv, TxInv, OwnInv, WritingInv, PendInv, CommitInv, StoredInv, AtWork, CanAsk, At, RowsOf
    <3>3. PendInv' /\ CommitInv' /\ StoredInv'
      BY <1>t, <1>u, <1>13, <2>g, <2>2, <3>d, <3>e, <3>l DEF WireInv, KnownInv, TxInv, OwnInv, WritingInv, PendInv, CommitInv, StoredInv, AtWork, CanAsk, At, RowsOf, Rows
    <3>4. ASSUME troubles' = {} PROVE Unharmed'
      <4>c. /\ troubles = {} /\ mixed = {}
            /\ LockInv
            /\ HeldInv
            /\ DepthInv
            /\ SessionInv
        BY <1>t, <3>d, <3>4 DEF CInv, Unharmed
      <4>f. /\ conn.owner = t
            /\ conn.tx = t
            /\ conn.held
            /\ conn.depth = 1
            /\ link.top = t
        BY <1>t, <1>u, <1>13, <2>g, <2>2, <3>4, <3>d, <4>c DEF LockInv, HeldInv, DepthInv, SessionInv, WireInv, KnownInv, AtWork, Gone, CanAsk, At, Rollback
      <4>g. /\ conn'.owner = conn.owner
            /\ conn'.depth = conn.depth
            /\ conn'.held = conn.held
        BY <1>u, <3>a, <4>c, <4>f, NoTxFields
      <4>1. mixed' = {} /\ LockInv'
        BY <1>t, <1>u, <1>13, <2>g, <2>2, <3>d, <3>e, <3>l, <4>c, <4>f, <4>g DEF LockInv, HeldInv, DepthInv, SessionInv, WireInv, KnownInv, AtWork, CanAsk, At, RowsOf, Rows
      <4>2. HeldInv' /\ DepthInv'
        BY <1>t, <1>u, <1>13, <2>g, <2>2, <3>d, <3>e, <3>l, <4>c, <4>f, <4>g DEF LockInv, HeldInv, DepthInv, SessionInv, WireInv, KnownInv, AtWork, CanAsk, At, RowsOf, Rows
      <4>3. SessionInv'
        BY <1>t, <1>u, <1>13, <2>g, <2>2, <3>d, <3>e, <3>l, <4>c, <4>f, <4>g DEF LockInv, HeldInv, DepthInv, SessionInv, WireInv, KnownInv, AtWork, CanAsk, At, RowsOf, Rows
      <4> QED BY <4>1, <4>2, <4>3 DEF Unharmed
    <3> QED BY <3>t, <3>1, <3>2, <3>3, <3>4 DEF IInv, UInv, CInv
  <2>3. CASE conn.tx # NoTask /\ conn.lost
    <3>a. /\ conn' = ReturnTx(NoTx(conn))
          /\ link' = link
      BY <1>u, <1>13, <2>g, <2>3 DEF Rollback, SendRollback, Forget, Ends, At, Goto, Rest, Calm
    <3>d. /\ pc' = [pc EXCEPT ![t] = "failed"]
          /\ done' = done
          /\ db' = db
          /\ mixed' = mixed \cup {u \in {conn.tx} \ {t} : AtWork(u)}
          /\ troubles \subseteq troubles' /\ troubles' \subseteq Troubles
          /\ breaks' = breaks
      BY <1>u, <1>13, <2>g, <2>3 DEF Rollback, SendRollback, Forget, Ends, At, Goto, Rest, Calm
    <3>m. /\ NoTx(conn) \in Conn
          /\ NoTx(conn).tx = NoTask
          /\ NoTx(conn).begun = FALSE
          /\ NoTx(conn).lost = FALSE
          /\ NoTx(conn).raw = conn.raw
          /\ NoTx(conn).owner = conn.owner
          /\ NoTx(conn).depth = conn.depth
          /\ NoTx(conn).held = conn.held
      BY <1>u, NoTxFields
    <3>e. /\ conn' \in Conn
          /\ conn'.tx = NoTask
          /\ conn'.begun = FALSE
          /\ conn'.lost = FALSE
          /\ conn'.raw = conn.raw
      BY <1>u, <3>a, <3>m, ReturnFields
    <3>l. /\ link' \in Link
          /\ link'.wire = link.wire
          /\ link'.open = link.open
          /\ link'.top = link.top
          /\ link'.pending = link.pending
      BY <1>u, <3>a
    <3>t. TInv'
      BY <1>t, <1>u, <1>13, <2>g, <2>3, <3>d, <3>e, <3>l DEF TInv, TypeOK, DoneInv, AtWork, At, Rows
    <3>1. WireInv' /\ KnownInv' /\ WritingInv'
      BY <1>t, <1>u, <1>13, <2>g, <2>3, <3>d, <3>e, <3>l DEF WireInv, KnownInv, TxInv, OwnInv, WritingInv, PendInv, CommitInv, StoredInv, AtWork, CanAsk, At, RowsOf
    <3>2. TxInv' /\ OwnInv'
      BY <1>t, <1>u, <1>13, <2>g, <2>3, <3>d, <3>e, <3>l DEF WireInv, KnownInv, TxInv, OwnInv, WritingInv, PendInv, CommitInv, StoredInv, AtWork, CanAsk, At, RowsOf
    <3>3. PendInv' /\ CommitInv' /\ StoredInv'
      BY <1>t, <1>u, <1>13, <2>g, <2>3, <3>d, <3>e, <3>l DEF WireInv, KnownInv, TxInv, OwnInv, WritingInv, PendInv, CommitInv, StoredInv, AtWork, CanAsk, At, RowsOf, Rows
    <3>4. ASSUME troubles' = {} PROVE Unharmed'
      <4>c. /\ troubles = {} /\ mixed = {}
            /\ LockInv
            /\ HeldInv
            /\ DepthInv
            /\ SessionInv
        BY <1>t, <3>d, <3>4 DEF CInv, Unharmed
      <4>f. /\ conn.owner = t
            /\ conn.tx = t
            /\ conn.held
            /\ conn.depth = 1
        BY <1>t, <1>u, <1>13, <2>g, <2>3, <3>4, <3>d, <4>c DEF LockInv, HeldInv, DepthInv, SessionInv, WireInv, KnownInv, AtWork, Gone, CanAsk, At, Rollback
      <4>g. /\ conn'.owner = NoTask
            /\ conn'.depth = 0
            /\ conn'.held = FALSE
        BY <1>u, <3>a, <3>m, <4>c, <4>f, ReturnFields
      <4>1. mixed' = {} /\ LockInv'
        BY <1>t, <1>u, <1>13, <2>g, <2>3, <3>d, <3>e, <3>l, <4>c, <4>f, <4>g DEF LockInv, HeldInv, DepthInv, SessionInv, WireInv, KnownInv, AtWork, CanAsk, At, RowsOf, Rows
      <4>2. HeldInv' /\ DepthInv'
        BY <1>t, <1>u, <1>13, <2>g, <2>3, <3>d, <3>e, <3>l, <4>c, <4>f, <4>g DEF LockInv, HeldInv, DepthInv, SessionInv, WireInv, KnownInv, AtWork, CanAsk, At, RowsOf, Rows
      <4>3. SessionInv'
        BY <1>t, <1>u, <1>13, <2>g, <2>3, <3>d, <3>e, <3>l, <4>c, <4>f, <4>g DEF LockInv, HeldInv, DepthInv, SessionInv, WireInv, KnownInv, AtWork, CanAsk, At, RowsOf, Rows
      <4> QED BY <4>1, <4>2, <4>3 DEF Unharmed
    <3> QED BY <3>t, <3>1, <3>2, <3>3, <3>4 DEF IInv, UInv, CInv
  <2>4. CASE conn.tx # NoTask /\ ~conn.lost /\ ~CanAsk(NoTask)
    <3>a. /\ conn' = ReturnTx(NoTx(conn))
          /\ link' = [link EXCEPT !.top = IF link.top = conn.tx /\ conn.raw = "up" /\ conn.begun THEN NoTask ELSE link.top]
      BY <1>u, <1>13, <2>g, <2>4 DEF Rollback, SendRollback, Forget, Ends, At, Goto, Rest, Calm
    <3>d. /\ pc' = [pc EXCEPT ![t] = "failed"]
          /\ done' = done
          /\ db' = db
          /\ mixed' = mixed \cup {u \in {conn.tx} \ {t} : AtWork(u)}
          /\ troubles \subseteq troubles' /\ troubles' \subseteq Troubles
          /\ breaks' = breaks
      BY <1>u, <1>13, <2>g, <2>4 DEF Rollback, SendRollback, Forget, Ends, At, Goto, Rest, Calm
    <3>m. /\ NoTx(conn) \in Conn
          /\ NoTx(conn).tx = NoTask
          /\ NoTx(conn).begun = FALSE
          /\ NoTx(conn).lost = FALSE
          /\ NoTx(conn).raw = conn.raw
          /\ NoTx(conn).owner = conn.owner
          /\ NoTx(conn).depth = conn.depth
          /\ NoTx(conn).held = conn.held
      BY <1>u, NoTxFields
    <3>e. /\ conn' \in Conn
          /\ conn'.tx = NoTask
          /\ conn'.begun = FALSE
          /\ conn'.lost = FALSE
          /\ conn'.raw = conn.raw
      BY <1>u, <3>a, <3>m, ReturnFields
    <3>l. /\ link' \in Link
          /\ link'.wire = link.wire
          /\ link'.open = link.open
          /\ link'.top = (IF link.top = conn.tx /\ conn.raw = "up" /\ conn.begun THEN NoTask ELSE link.top)
          /\ link'.pending = link.pending
      BY <1>t, <1>u, <1>13, <2>g, <2>4, <3>a DEF Link
    <3>t. TInv'
      BY <1>t, <1>u, <1>13, <2>g, <2>4, <3>d, <3>e, <3>l DEF TInv, TypeOK, DoneInv, AtWork, At, Rows
    <3>1. WireInv' /\ KnownInv' /\ WritingInv'
      BY <1>t, <1>u, <1>13, <2>g, <2>4, <3>d, <3>e, <3>l DEF WireInv, KnownInv, TxInv, OwnInv, WritingInv, PendInv, CommitInv, StoredInv, AtWork, CanAsk, At, RowsOf
    <3>2. TxInv' /\ OwnInv'
      BY <1>t, <1>u, <1>13, <2>g, <2>4, <3>d, <3>e, <3>l DEF WireInv, KnownInv, TxInv, OwnInv, WritingInv, PendInv, CommitInv, StoredInv, AtWork, CanAsk, At, RowsOf
    <3>3. PendInv' /\ CommitInv' /\ StoredInv'
      BY <1>t, <1>u, <1>13, <2>g, <2>4, <3>d, <3>e, <3>l DEF WireInv, KnownInv, TxInv, OwnInv, WritingInv, PendInv, CommitInv, StoredInv, AtWork, CanAsk, At, RowsOf, Rows
    <3>4. ASSUME troubles' = {} PROVE Unharmed'
      <4>c. /\ troubles = {} /\ mixed = {}
            /\ LockInv
            /\ HeldInv
            /\ DepthInv
            /\ SessionInv
        BY <1>t, <3>d, <3>4 DEF CInv, Unharmed
      <4>f. /\ conn.owner = t
            /\ conn.tx = t
            /\ conn.held
            /\ conn.depth = 1
            /\ conn.raw # "up"
        BY <1>t, <1>u, <1>13, <2>g, <2>4, <3>4, <3>d, <4>c DEF LockInv, HeldInv, DepthInv, SessionInv, WireInv, KnownInv, AtWork, Gone, CanAsk, At, Rollback
      <4>g. /\ conn'.owner = NoTask
            /\ conn'.depth = 0
            /\ conn'.held = FALSE
        BY <1>u, <3>a, <3>m, <4>c, <4>f, ReturnFields
      <4>1. mixed' = {} /\ LockInv'
        BY <1>t, <1>u, <1>13, <2>g, <2>4, <3>d, <3>e, <3>l, <4>c, <4>f, <4>g DEF LockInv, HeldInv, DepthInv, SessionInv, WireInv, KnownInv, AtWork, CanAsk, At, RowsOf, Rows
      <4>2. HeldInv' /\ DepthInv'
        BY <1>t, <1>u, <1>13, <2>g, <2>4, <3>d, <3>e, <3>l, <4>c, <4>f, <4>g DEF LockInv, HeldInv, DepthInv, SessionInv, WireInv, KnownInv, AtWork, CanAsk, At, RowsOf, Rows
      <4>3. SessionInv'
        BY <1>t, <1>u, <1>13, <2>g, <2>4, <3>d, <3>e, <3>l, <4>c, <4>f, <4>g DEF LockInv, HeldInv, DepthInv, SessionInv, WireInv, KnownInv, AtWork, CanAsk, At, RowsOf, Rows
      <4> QED BY <4>1, <4>2, <4>3 DEF Unharmed
    <3> QED BY <3>t, <3>1, <3>2, <3>3, <3>4 DEF IInv, UInv, CInv
  <2> QED BY <1>u, <1>13, <2>g, <2>1, <2>2, <2>3, <2>4 DEF Rollback, SendRollback, Forget, Ends, CanAsk, At
<1>14. ASSUME NEW t \in Tasks, Leave(t) PROVE IInv'
  <2>g. /\ pc[t] \in {"raised"}
        /\ \A u \in Tasks : pc[u] \in Running => u = t
    BY <1>14 DEF Leave, At
  <2>a. /\ conn' = conn
        /\ link' = link
    BY <1>u, <1>14, <2>g DEF Leave, At, Goto, Rest, Calm
  <2>d. /\ pc' = [pc EXCEPT ![t] = "failed"]
        /\ done' = done
        /\ db' = db
        /\ mixed' = mixed
        /\ troubles' = troubles
        /\ breaks' = breaks
    BY <1>u, <1>14, <2>g DEF Leave, At, Goto, Rest, Calm
  <2>e. /\ conn' \in Conn
        /\ conn'.tx = conn.tx
        /\ conn'.begun = conn.begun
        /\ conn'.lost = conn.lost
        /\ conn'.raw = conn.raw
        /\ conn'.owner = conn.owner
        /\ conn'.depth = conn.depth
        /\ conn'.held = conn.held
    BY <1>u, <2>a
  <2>l. /\ link' \in Link
        /\ link'.wire = link.wire
        /\ link'.open = link.open
        /\ link'.top = link.top
        /\ link'.pending = link.pending
    BY <1>u, <2>a
  <2>t. TInv'
    BY <1>t, <1>u, <1>14, <2>g, <2>d, <2>e, <2>l DEF TInv, TypeOK, DoneInv, AtWork, At, Rows
  <2>1. WireInv' /\ KnownInv' /\ WritingInv'
    BY <1>t, <1>u, <1>14, <2>g, <2>d, <2>e, <2>l DEF WireInv, KnownInv, TxInv, OwnInv, WritingInv, PendInv, CommitInv, StoredInv, AtWork, CanAsk, At, RowsOf
  <2>2. TxInv' /\ OwnInv'
    BY <1>t, <1>u, <1>14, <2>g, <2>d, <2>e, <2>l DEF WireInv, KnownInv, TxInv, OwnInv, WritingInv, PendInv, CommitInv, StoredInv, AtWork, CanAsk, At, RowsOf
  <2>3. PendInv' /\ CommitInv' /\ StoredInv'
    BY <1>t, <1>u, <1>14, <2>g, <2>d, <2>e, <2>l DEF WireInv, KnownInv, TxInv, OwnInv, WritingInv, PendInv, CommitInv, StoredInv, AtWork, CanAsk, At, RowsOf, Rows
  <2>4. ASSUME troubles' = {} PROVE Unharmed'
    <3>c. /\ troubles = {} /\ mixed = {}
          /\ LockInv
          /\ HeldInv
          /\ DepthInv
          /\ SessionInv
      BY <1>t, <2>d, <2>4 DEF CInv, Unharmed
    <3>f. conn.owner = t => t \in Clumsy
      BY <1>t, <1>u, <1>14, <2>g, <2>4, <2>d, <3>c DEF LockInv, HeldInv, DepthInv, SessionInv, WireInv, KnownInv, AtWork, Gone, CanAsk, At, Leave
    <3>1. mixed' = {} /\ LockInv'
      BY <1>t, <1>u, <1>14, <2>g, <2>d, <2>e, <2>l, <3>c, <3>f DEF LockInv, HeldInv, DepthInv, SessionInv, WireInv, KnownInv, AtWork, CanAsk, At, RowsOf, Rows
    <3>2. HeldInv' /\ DepthInv'
      BY <1>t, <1>u, <1>14, <2>g, <2>d, <2>e, <2>l, <3>c, <3>f DEF LockInv, HeldInv, DepthInv, SessionInv, WireInv, KnownInv, AtWork, CanAsk, At, RowsOf, Rows
    <3>3. SessionInv'
      BY <1>t, <1>u, <1>14, <2>g, <2>d, <2>e, <2>l, <3>c, <3>f DEF LockInv, HeldInv, DepthInv, SessionInv, WireInv, KnownInv, AtWork, CanAsk, At, RowsOf, Rows
    <3> QED BY <3>1, <3>2, <3>3 DEF Unharmed
  <2> QED BY <2>t, <2>1, <2>2, <2>3, <2>4 DEF IInv, UInv, CInv
<1>15. ASSUME NEW t \in Tasks, Raise(t) PROVE IInv'
  <2>g. /\ pc[t] \in {"idle", "between"}
        /\ \A u \in Tasks : pc[u] \in Running => u = t
    BY <1>15 DEF Raise, At
  <2>a. /\ conn' = conn
        /\ link' = link
    BY <1>u, <1>15, <2>g DEF Raise, At, Goto, Rest, Calm
  <2>d. /\ pc' = [pc EXCEPT ![t] = "raised"]
        /\ done' = done
        /\ db' = db
        /\ mixed' = mixed
        /\ troubles' = troubles
        /\ breaks' = breaks
    BY <1>u, <1>15, <2>g DEF Raise, At, Goto, Rest, Calm
  <2>e. /\ conn' \in Conn
        /\ conn'.tx = conn.tx
        /\ conn'.begun = conn.begun
        /\ conn'.lost = conn.lost
        /\ conn'.raw = conn.raw
        /\ conn'.owner = conn.owner
        /\ conn'.depth = conn.depth
        /\ conn'.held = conn.held
    BY <1>u, <2>a
  <2>l. /\ link' \in Link
        /\ link'.wire = link.wire
        /\ link'.open = link.open
        /\ link'.top = link.top
        /\ link'.pending = link.pending
    BY <1>u, <2>a
  <2>t. TInv'
    BY <1>t, <1>u, <1>15, <2>g, <2>d, <2>e, <2>l DEF TInv, TypeOK, DoneInv, AtWork, At, Rows
  <2>1. WireInv' /\ KnownInv' /\ WritingInv'
    BY <1>t, <1>u, <1>15, <2>g, <2>d, <2>e, <2>l DEF WireInv, KnownInv, TxInv, OwnInv, WritingInv, PendInv, CommitInv, StoredInv, AtWork, CanAsk, At, RowsOf
  <2>2. TxInv' /\ OwnInv'
    BY <1>t, <1>u, <1>15, <2>g, <2>d, <2>e, <2>l DEF WireInv, KnownInv, TxInv, OwnInv, WritingInv, PendInv, CommitInv, StoredInv, AtWork, CanAsk, At, RowsOf
  <2>3. PendInv' /\ CommitInv' /\ StoredInv'
    BY <1>t, <1>u, <1>15, <2>g, <2>d, <2>e, <2>l DEF WireInv, KnownInv, TxInv, OwnInv, WritingInv, PendInv, CommitInv, StoredInv, AtWork, CanAsk, At, RowsOf, Rows
  <2>4. ASSUME troubles' = {} PROVE Unharmed'
    <3>c. /\ troubles = {} /\ mixed = {}
          /\ LockInv
          /\ HeldInv
          /\ DepthInv
          /\ SessionInv
      BY <1>t, <2>d, <2>4 DEF CInv, Unharmed
    <3>f. conn.owner = t => conn.tx = t
      BY <1>t, <1>u, <1>15, <2>g, <2>4, <2>d, <3>c DEF LockInv, HeldInv, DepthInv, SessionInv, WireInv, KnownInv, AtWork, Gone, CanAsk, At, Raise
    <3>1. mixed' = {} /\ LockInv'
      BY <1>t, <1>u, <1>15, <2>g, <2>d, <2>e, <2>l, <3>c, <3>f DEF LockInv, HeldInv, DepthInv, SessionInv, WireInv, KnownInv, AtWork, CanAsk, At, RowsOf, Rows
    <3>2. HeldInv' /\ DepthInv'
      BY <1>t, <1>u, <1>15, <2>g, <2>d, <2>e, <2>l, <3>c, <3>f DEF LockInv, HeldInv, DepthInv, SessionInv, WireInv, KnownInv, AtWork, CanAsk, At, RowsOf, Rows
    <3>3. SessionInv'
      BY <1>t, <1>u, <1>15, <2>g, <2>d, <2>e, <2>l, <3>c, <3>f DEF LockInv, HeldInv, DepthInv, SessionInv, WireInv, KnownInv, AtWork, CanAsk, At, RowsOf, Rows
    <3> QED BY <3>1, <3>2, <3>3 DEF Unharmed
  <2> QED BY <2>t, <2>1, <2>2, <2>3, <2>4 DEF IInv, UInv, CInv
<1>16. ASSUME NEW t \in Tasks, Cancel(t) PROVE IInv'
  <2>g. /\ pc[t] \in Queued \cup Waiting
        /\ t \in Clumsy
        /\ \A u \in Tasks : pc[u] \in Running => u = t
    BY <1>16 DEF Cancel, At
  <2>1. CASE pc[t] \in Queued
    <3>a. /\ conn' = conn
          /\ link' = link
      BY <1>u, <1>16, <2>g, <2>1 DEF Cancel, Lands, CalledOff, Answered, Stored, At, Goto, Rest, Calm
    <3>d. /\ pc' = [pc EXCEPT ![t] = "failed"]
          /\ done' = done
          /\ db' = db
          /\ mixed' = mixed
          /\ troubles' = troubles
          /\ breaks' = breaks
      BY <1>u, <1>16, <2>g, <2>1 DEF Cancel, Lands, CalledOff, Answered, Stored, At, Goto, Rest, Calm
    <3>e. /\ conn' \in Conn
          /\ conn'.tx = conn.tx
          /\ conn'.begun = conn.begun
          /\ conn'.lost = conn.lost
          /\ conn'.raw = conn.raw
          /\ conn'.owner = conn.owner
          /\ conn'.depth = conn.depth
          /\ conn'.held = conn.held
      BY <1>u, <3>a
    <3>l. /\ link' \in Link
          /\ link'.wire = link.wire
          /\ link'.open = link.open
          /\ link'.top = link.top
          /\ link'.pending = link.pending
      BY <1>u, <3>a
    <3>t. TInv'
      BY <1>t, <1>u, <1>16, <2>g, <2>1, <3>d, <3>e, <3>l DEF TInv, TypeOK, DoneInv, AtWork, At, Rows
    <3>1. WireInv' /\ KnownInv' /\ WritingInv'
      BY <1>t, <1>u, <1>16, <2>g, <2>1, <3>d, <3>e, <3>l DEF WireInv, KnownInv, TxInv, OwnInv, WritingInv, PendInv, CommitInv, StoredInv, AtWork, CanAsk, At, RowsOf
    <3>2. TxInv' /\ OwnInv'
      BY <1>t, <1>u, <1>16, <2>g, <2>1, <3>d, <3>e, <3>l DEF WireInv, KnownInv, TxInv, OwnInv, WritingInv, PendInv, CommitInv, StoredInv, AtWork, CanAsk, At, RowsOf
    <3>3. PendInv' /\ CommitInv' /\ StoredInv'
      BY <1>t, <1>u, <1>16, <2>g, <2>1, <3>d, <3>e, <3>l DEF WireInv, KnownInv, TxInv, OwnInv, WritingInv, PendInv, CommitInv, StoredInv, AtWork, CanAsk, At, RowsOf, Rows
    <3>4. ASSUME troubles' = {} PROVE Unharmed'
      <4>c. /\ troubles = {} /\ mixed = {}
            /\ LockInv
            /\ HeldInv
            /\ DepthInv
            /\ SessionInv
        BY <1>t, <3>d, <3>4 DEF CInv, Unharmed
      <4>f. conn.owner # t
        BY <1>t, <1>u, <1>16, <2>g, <2>1, <3>4, <3>d, <4>c DEF LockInv, HeldInv, DepthInv, SessionInv, WireInv, KnownInv, AtWork, Gone, CanAsk, At, Cancel
      <4>1. mixed' = {} /\ LockInv'
        BY <1>t, <1>u, <1>16, <2>g, <2>1, <3>d, <3>e, <3>l, <4>c, <4>f DEF LockInv, HeldInv, DepthInv, SessionInv, WireInv, KnownInv, AtWork, CanAsk, At, RowsOf, Rows
      <4>2. HeldInv' /\ DepthInv'
        BY <1>t, <1>u, <1>16, <2>g, <2>1, <3>d, <3>e, <3>l, <4>c, <4>f DEF LockInv, HeldInv, DepthInv, SessionInv, WireInv, KnownInv, AtWork, CanAsk, At, RowsOf, Rows
      <4>3. SessionInv'
        BY <1>t, <1>u, <1>16, <2>g, <2>1, <3>d, <3>e, <3>l, <4>c, <4>f DEF LockInv, HeldInv, DepthInv, SessionInv, WireInv, KnownInv, AtWork, CanAsk, At, RowsOf, Rows
      <4> QED BY <4>1, <4>2, <4>3 DEF Unharmed
    <3> QED BY <3>t, <3>1, <3>2, <3>3, <3>4 DEF IInv, UInv, CInv
  <2>2. CASE pc[t] = "opening"
    <3>a. /\ conn' = Exit(conn)
          /\ link' \in {[link EXCEPT !.wire = NoTask, !.open = o] : o \in {link.open, TRUE}}
      BY <1>u, <1>16, <2>g, <2>2 DEF Cancel, Lands, CalledOff, Answered, Stored, At, Goto, Rest, Calm
    <3>d. /\ pc' = [pc EXCEPT ![t] = "failed"]
          /\ done' = done
          /\ db' = db
          /\ mixed' = mixed
          /\ troubles' = troubles \cup {"cancelled"}
          /\ breaks' = breaks
      BY <1>u, <1>16, <2>g, <2>2 DEF Cancel, Lands, CalledOff, Answered, Stored, At, Goto, Rest, Calm
    <3>e. /\ conn' \in Conn
          /\ conn'.tx = conn.tx
          /\ conn'.begun = conn.begun
          /\ conn'.lost = conn.lost
          /\ conn'.raw = conn.raw
      BY <1>u, <3>a, ExitFields
    <3>l. /\ link' \in Link
          /\ link'.wire = NoTask
          /\ link'.top = link.top
          /\ link'.pending = link.pending
          /\ link'.open \in BOOLEAN
          /\ link.open => link'.open
      BY <1>t, <1>u, <1>16, <2>g, <2>2, <3>a DEF Link
    <3>t. TInv'
      BY <1>t, <1>u, <1>16, <2>g, <2>2, <3>d, <3>e, <3>l DEF TInv, TypeOK, DoneInv, AtWork, At, Rows
    <3>1. WireInv' /\ KnownInv' /\ WritingInv'
      BY <1>t, <1>u, <1>16, <2>g, <2>2, <3>d, <3>e, <3>l DEF WireInv, KnownInv, TxInv, OwnInv, WritingInv, PendInv, CommitInv, StoredInv, AtWork, CanAsk, At, RowsOf
    <3>2. TxInv' /\ OwnInv'
      BY <1>t, <1>u, <1>16, <2>g, <2>2, <3>d, <3>e, <3>l DEF WireInv, KnownInv, TxInv, OwnInv, WritingInv, PendInv, CommitInv, StoredInv, AtWork, CanAsk, At, RowsOf
    <3>3. PendInv' /\ CommitInv' /\ StoredInv'
      BY <1>t, <1>u, <1>16, <2>g, <2>2, <3>d, <3>e, <3>l DEF WireInv, KnownInv, TxInv, OwnInv, WritingInv, PendInv, CommitInv, StoredInv, AtWork, CanAsk, At, RowsOf, Rows
    <3>4. CInv'
      BY <3>d DEF CInv
    <3> QED BY <3>t, <3>1, <3>2, <3>3, <3>4 DEF IInv, UInv, CInv
  <2>3. CASE pc[t] = "writing" /\ Lands(t)
    <3>a. /\ conn' = Exit(conn)
          /\ link' = [link EXCEPT !.wire = NoTask, !.pending = IF link.open THEN link.pending \cup {<<t, done[t] + 1>>} ELSE link.pending]
      BY <1>u, <1>16, <2>g, <2>3 DEF Cancel, Lands, CalledOff, Answered, Stored, At, Goto, Rest, Calm
    <3>d. /\ pc' = [pc EXCEPT ![t] = "failed"]
          /\ done' = done
          /\ db' = IF link.open THEN db ELSE db \cup {<<t, done[t] + 1>>}
          /\ mixed' = mixed
          /\ troubles' = troubles
          /\ breaks' = breaks
      BY <1>u, <1>16, <2>g, <2>3 DEF Cancel, Lands, CalledOff, Answered, Stored, At, Goto, Rest, Calm
    <3>e. /\ conn' \in Conn
          /\ conn'.tx = conn.tx
          /\ conn'.begun = conn.begun
          /\ conn'.lost = conn.lost
          /\ conn'.raw = conn.raw
      BY <1>u, <3>a, ExitFields
    <3>r. <<t, done[t] + 1>> \in Rows
      BY <1>t, <1>u, <1>16, <2>g, <2>3 DEF DoneInv, Rows, At
    <3>l. /\ link' \in Link
          /\ link'.wire = NoTask
          /\ link'.open = link.open
          /\ link'.top = link.top
          /\ link'.pending = (IF link.open THEN link.pending \cup {<<t, done[t] + 1>>} ELSE link.pending)
      BY <1>t, <3>r, <1>u, <1>16, <2>g, <2>3, <3>a DEF Link, DoneInv, Rows, At
    <3>t. TInv'
      BY <1>t, <1>u, <1>16, <2>g, <2>3, <3>d, <3>e, <3>l DEF TInv, TypeOK, DoneInv, AtWork, At, Rows
    <3>1. WireInv' /\ KnownInv' /\ WritingInv'
      BY <1>t, <1>u, <1>16, <2>g, <2>3, <3>d, <3>e, <3>l DEF WireInv, KnownInv, TxInv, OwnInv, WritingInv, PendInv, CommitInv, StoredInv, AtWork, CanAsk, At, RowsOf
    <3>2. TxInv' /\ OwnInv'
      BY <1>t, <1>u, <1>16, <2>g, <2>3, <3>d, <3>e, <3>l DEF WireInv, KnownInv, TxInv, OwnInv, WritingInv, PendInv, CommitInv, StoredInv, AtWork, CanAsk, At, RowsOf
    <3>3. PendInv' /\ CommitInv' /\ StoredInv'
      BY <1>t, <1>u, <1>16, <2>g, <2>3, <3>d, <3>e, <3>l DEF WireInv, KnownInv, TxInv, OwnInv, WritingInv, PendInv, CommitInv, StoredInv, AtWork, CanAsk, At, RowsOf, Rows
    <3>4. ASSUME troubles' = {} PROVE Unharmed'
      <4>c. /\ troubles = {} /\ mixed = {}
            /\ LockInv
            /\ HeldInv
            /\ DepthInv
            /\ SessionInv
        BY <1>t, <3>d, <3>4 DEF CInv, Unharmed
      <4>f. /\ conn.owner = t
            /\ conn.tx = t
            /\ conn.held
            /\ conn.depth = 2
            /\ t \in Clumsy
            /\ conn.raw = "up" => ~conn.lost /\ link.open
        BY <1>t, <1>u, <1>16, <2>g, <2>3, <3>4, <3>d, <4>c DEF LockInv, HeldInv, DepthInv, SessionInv, WireInv, KnownInv, AtWork, Gone, CanAsk, At, Cancel
      <4>g. /\ conn'.owner = conn.owner
            /\ conn'.depth = 1
            /\ conn'.held = conn.held
        BY <1>u, <3>a, <4>c, <4>f, ExitFields
      <4>1. mixed' = {} /\ LockInv'
        BY <1>t, <1>u, <1>16, <2>g, <2>3, <3>d, <3>e, <3>l, <4>c, <4>f, <4>g DEF LockInv, HeldInv, DepthInv, SessionInv, WireInv, KnownInv, AtWork, CanAsk, At, RowsOf, Rows
      <4>2. HeldInv' /\ DepthInv'
        BY <1>t, <1>u, <1>16, <2>g, <2>3, <3>d, <3>e, <3>l, <4>c, <4>f, <4>g DEF LockInv, HeldInv, DepthInv, SessionInv, WireInv, KnownInv, AtWork, CanAsk, At, RowsOf, Rows
      <4>3. SessionInv'
        BY <1>t, <1>u, <1>16, <2>g, <2>3, <3>d, <3>e, <3>l, <4>c, <4>f, <4>g DEF LockInv, HeldInv, DepthInv, SessionInv, WireInv, KnownInv, AtWork, CanAsk, At, RowsOf, Rows
      <4> QED BY <4>1, <4>2, <4>3 DEF Unharmed
    <3> QED BY <3>t, <3>1, <3>2, <3>3, <3>4 DEF IInv, UInv, CInv
  <2>4. CASE pc[t] = "writing" /\ link' = [link EXCEPT !.wire = NoTask] /\ UNCHANGED db
    <3>a. /\ conn' = Exit(conn)
          /\ link' = [link EXCEPT !.wire = NoTask]
      BY <1>u, <1>16, <2>g, <2>4 DEF Cancel, Lands, CalledOff, Answered, Stored, At, Goto, Rest, Calm
    <3>d. /\ pc' = [pc EXCEPT ![t] = "failed"]
          /\ done' = done
          /\ db' = db
          /\ mixed' = mixed
          /\ troubles' = troubles
          /\ breaks' = breaks
      BY <1>u, <1>16, <2>g, <2>4 DEF Cancel, Lands, CalledOff, Answered, Stored, At, Goto, Rest, Calm
    <3>e. /\ conn' \in Conn
          /\ conn'.tx = conn.tx
          /\ conn'.begun = conn.begun
          /\ conn'.lost = conn.lost
          /\ conn'.raw = conn.raw
      BY <1>u, <3>a, ExitFields
    <3>l. /\ link' \in Link
          /\ link'.wire = NoTask
          /\ link'.open = link.open
          /\ link'.top = link.top
          /\ link'.pending = link.pending
      BY <1>t, <1>u, <1>16, <2>g, <2>4, <3>a DEF Link
    <3>t. TInv'
      BY <1>t, <1>u, <1>16, <2>g, <2>4, <3>d, <3>e, <3>l DEF TInv, TypeOK, DoneInv, AtWork, At, Rows
    <3>1. WireInv' /\ KnownInv' /\ WritingInv'
      BY <1>t, <1>u, <1>16, <2>g, <2>4, <3>d, <3>e, <3>l DEF WireInv, KnownInv, TxInv, OwnInv, WritingInv, PendInv, CommitInv, StoredInv, AtWork, CanAsk, At, RowsOf
    <3>2. TxInv' /\ OwnInv'
      BY <1>t, <1>u, <1>16, <2>g, <2>4, <3>d, <3>e, <3>l DEF WireInv, KnownInv, TxInv, OwnInv, WritingInv, PendInv, CommitInv, StoredInv, AtWork, CanAsk, At, RowsOf
    <3>3. PendInv' /\ CommitInv' /\ StoredInv'
      BY <1>t, <1>u, <1>16, <2>g, <2>4, <3>d, <3>e, <3>l DEF WireInv, KnownInv, TxInv, OwnInv, WritingInv, PendInv, CommitInv, StoredInv, AtWork, CanAsk, At, RowsOf, Rows
    <3>4. ASSUME troubles' = {} PROVE Unharmed'
      <4>c. /\ troubles = {} /\ mixed = {}
            /\ LockInv
            /\ HeldInv
            /\ DepthInv
            /\ SessionInv
        BY <1>t, <3>d, <3>4 DEF CInv, Unharmed
      <4>f. /\ conn.owner = t
            /\ conn.tx = t
            /\ conn.held
            /\ conn.depth = 2
            /\ t \in Clumsy
            /\ conn.raw = "up" => ~conn.lost
        BY <1>t, <1>u, <1>16, <2>g, <2>4, <3>4, <3>d, <4>c DEF LockInv, HeldInv, DepthInv, SessionInv, WireInv, KnownInv, AtWork, Gone, CanAsk, At, Cancel
      <4>g. /\ conn'.owner = conn.owner
            /\ conn'.depth = 1
            /\ conn'.held = conn.held
        BY <1>u, <3>a, <4>c, <4>f, ExitFields
      <4>1. mixed' = {} /\ LockInv'
        BY <1>t, <1>u, <1>16, <2>g, <2>4, <3>d, <3>e, <3>l, <4>c, <4>f, <4>g DEF LockInv, HeldInv, DepthInv, SessionInv, WireInv, KnownInv, AtWork, CanAsk, At, RowsOf, Rows
      <4>2. HeldInv' /\ DepthInv'
        BY <1>t, <1>u, <1>16, <2>g, <2>4, <3>d, <3>e, <3>l, <4>c, <4>f, <4>g DEF LockInv, HeldInv, DepthInv, SessionInv, WireInv, KnownInv, AtWork, CanAsk, At, RowsOf, Rows
      <4>3. SessionInv'
        BY <1>t, <1>u, <1>16, <2>g, <2>4, <3>d, <3>e, <3>l, <4>c, <4>f, <4>g DEF LockInv, HeldInv, DepthInv, SessionInv, WireInv, KnownInv, AtWork, CanAsk, At, RowsOf, Rows
      <4> QED BY <4>1, <4>2, <4>3 DEF Unharmed
    <3> QED BY <3>t, <3>1, <3>2, <3>3, <3>4 DEF IInv, UInv, CInv
  <2>5. CASE pc[t] = "committing"
    <3>a. /\ conn' = ReturnTx(conn)
          /\ link' \in {Answered, [Answered EXCEPT !.open = TRUE]}
      BY <1>u, <1>16, <2>g, <2>5 DEF Cancel, Lands, CalledOff, Answered, Stored, At, Goto, Rest, Calm
    <3>d. /\ pc' = [pc EXCEPT ![t] = "unsure"]
          /\ done' = done
          /\ db' \in {db, IF link.top = NoTask THEN db \cup link.pending ELSE db}
          /\ mixed' = mixed
          /\ troubles' = troubles \cup {"cancelled"}
          /\ breaks' = breaks
      BY <1>u, <1>16, <2>g, <2>5 DEF Cancel, Lands, CalledOff, Answered, Stored, At, Goto, Rest, Calm
    <3>e. /\ conn' \in Conn
          /\ conn'.tx = conn.tx
          /\ conn'.begun = conn.begun
          /\ conn'.lost = conn.lost
          /\ conn'.raw = conn.raw
      BY <1>u, <3>a, ReturnFields
    <3>l. /\ link' \in Link
          /\ link'.wire = NoTask
          /\ link'.top = link.top
          /\ link'.pending = (IF link.top = NoTask THEN {} ELSE link.pending)
          /\ link'.open \in BOOLEAN
          /\ link.top # NoTask => link'.open
      BY <1>t, <1>u, <1>16, <2>g, <2>5, <3>a DEF Link, Answered
    <3>t. TInv'
      BY <1>t, <1>u, <1>16, <2>g, <2>5, <3>d, <3>e, <3>l DEF TInv, TypeOK, DoneInv, AtWork, At, Rows
    <3>1. WireInv' /\ KnownInv' /\ WritingInv'
      BY <1>t, <1>u, <1>16, <2>g, <2>5, <3>d, <3>e, <3>l DEF WireInv, KnownInv, TxInv, OwnInv, WritingInv, PendInv, CommitInv, StoredInv, AtWork, CanAsk, At, RowsOf
    <3>2. TxInv' /\ OwnInv'
      BY <1>t, <1>u, <1>16, <2>g, <2>5, <3>d, <3>e, <3>l DEF WireInv, KnownInv, TxInv, OwnInv, WritingInv, PendInv, CommitInv, StoredInv, AtWork, CanAsk, At, RowsOf
    <3>3. PendInv' /\ CommitInv' /\ StoredInv'
      BY <1>t, <1>u, <1>16, <2>g, <2>5, <3>d, <3>e, <3>l DEF WireInv, KnownInv, TxInv, OwnInv, WritingInv, PendInv, CommitInv, StoredInv, AtWork, CanAsk, At, RowsOf, Rows
    <3>4. CInv'
      BY <3>d DEF CInv
    <3> QED BY <3>t, <3>1, <3>2, <3>3, <3>4 DEF IInv, UInv, CInv
  <2>6. CASE pc[t] = "rolling"
    <3>a. /\ conn' = ReturnTx(conn)
          /\ link' \in {Answered, [Answered EXCEPT !.open = TRUE]}
      BY <1>u, <1>16, <2>g, <2>6 DEF Cancel, Lands, CalledOff, Answered, Stored, At, Goto, Rest, Calm
    <3>d. /\ pc' = [pc EXCEPT ![t] = "failed"]
          /\ done' = done
          /\ db' = db
          /\ mixed' = mixed
          /\ troubles' = troubles \cup {"cancelled"}
          /\ breaks' = breaks
      BY <1>u, <1>16, <2>g, <2>6 DEF Cancel, Lands, CalledOff, Answered, Stored, At, Goto, Rest, Calm
    <3>e. /\ conn' \in Conn
          /\ conn'.tx = conn.tx
          /\ conn'.begun = conn.begun
          /\ conn'.lost = conn.lost
          /\ conn'.raw = conn.raw
      BY <1>u, <3>a, ReturnFields
    <3>l. /\ link' \in Link
          /\ link'.wire = NoTask
          /\ link'.top = link.top
          /\ link'.pending = (IF link.top = NoTask THEN {} ELSE link.pending)
          /\ link'.open \in BOOLEAN
          /\ link.top # NoTask => link'.open
      BY <1>t, <1>u, <1>16, <2>g, <2>6, <3>a DEF Link, Answered
    <3>t. TInv'
      BY <1>t, <1>u, <1>16, <2>g, <2>6, <3>d, <3>e, <3>l DEF TInv, TypeOK, DoneInv, AtWork, At, Rows
    <3>1. WireInv' /\ KnownInv' /\ WritingInv'
      BY <1>t, <1>u, <1>16, <2>g, <2>6, <3>d, <3>e, <3>l DEF WireInv, KnownInv, TxInv, OwnInv, WritingInv, PendInv, CommitInv, StoredInv, AtWork, CanAsk, At, RowsOf
    <3>2. TxInv' /\ OwnInv'
      BY <1>t, <1>u, <1>16, <2>g, <2>6, <3>d, <3>e, <3>l DEF WireInv, KnownInv, TxInv, OwnInv, WritingInv, PendInv, CommitInv, StoredInv, AtWork, CanAsk, At, RowsOf
    <3>3. PendInv' /\ CommitInv' /\ StoredInv'
      BY <1>t, <1>u, <1>16, <2>g, <2>6, <3>d, <3>e, <3>l DEF WireInv, KnownInv, TxInv, OwnInv, WritingInv, PendInv, CommitInv, StoredInv, AtWork, CanAsk, At, RowsOf, Rows
    <3>4. CInv'
      BY <3>d DEF CInv
    <3> QED BY <3>t, <3>1, <3>2, <3>3, <3>4 DEF IInv, UInv, CInv
  <2>7. CASE pc[t] = "discarding"
    <3>a. /\ conn' = Exit(ReturnTx(conn))
          /\ link' \in {Answered, [Answered EXCEPT !.open = TRUE]}
      BY <1>u, <1>16, <2>g, <2>7 DEF Cancel, Lands, CalledOff, Answered, Stored, At, Goto, Rest, Calm
    <3>d. /\ pc' = [pc EXCEPT ![t] = "failed"]
          /\ done' = done
          /\ db' = db
          /\ mixed' = mixed
          /\ troubles' = troubles \cup {"cancelled"}
          /\ breaks' = breaks
      BY <1>u, <1>16, <2>g, <2>7 DEF Cancel, Lands, CalledOff, Answered, Stored, At, Goto, Rest, Calm
    <3>m. /\ ReturnTx(conn) \in Conn
          /\ ReturnTx(conn).tx = conn.tx
          /\ ReturnTx(conn).begun = conn.begun
          /\ ReturnTx(conn).lost = conn.lost
          /\ ReturnTx(conn).raw = conn.raw
          /\ ReturnTx(conn).held = FALSE
          /\ conn.held /\ conn.depth = 2 => ReturnTx(conn).owner = conn.owner /\ ReturnTx(conn).depth = 1
      BY <1>u, ReturnFields
    <3>e. /\ conn' \in Conn
          /\ conn'.tx = conn.tx
          /\ conn'.begun = conn.begun
          /\ conn'.lost = conn.lost
          /\ conn'.raw = conn.raw
      BY <1>u, <3>a, <3>m, ExitFields
    <3>l. /\ link' \in Link
          /\ link'.wire = NoTask
          /\ link'.top = link.top
          /\ link'.pending = (IF link.top = NoTask THEN {} ELSE link.pending)
          /\ link'.open \in BOOLEAN
          /\ link.top # NoTask => link'.open
      BY <1>t, <1>u, <1>16, <2>g, <2>7, <3>a DEF Link, Answered
    <3>t. TInv'
      BY <1>t, <1>u, <1>16, <2>g, <2>7, <3>d, <3>e, <3>l DEF TInv, TypeOK, DoneInv, AtWork, At, Rows
    <3>1. WireInv' /\ KnownInv' /\ WritingInv'
      BY <1>t, <1>u, <1>16, <2>g, <2>7, <3>d, <3>e, <3>l DEF WireInv, KnownInv, TxInv, OwnInv, WritingInv, PendInv, CommitInv, StoredInv, AtWork, CanAsk, At, RowsOf
    <3>2. TxInv' /\ OwnInv'
      BY <1>t, <1>u, <1>16, <2>g, <2>7, <3>d, <3>e, <3>l DEF WireInv, KnownInv, TxInv, OwnInv, WritingInv, PendInv, CommitInv, StoredInv, AtWork, CanAsk, At, RowsOf
    <3>3. PendInv' /\ CommitInv' /\ StoredInv'
      BY <1>t, <1>u, <1>16, <2>g, <2>7, <3>d, <3>e, <3>l DEF WireInv, KnownInv, TxInv, OwnInv, WritingInv, PendInv, CommitInv, StoredInv, AtWork, CanAsk, At, RowsOf, Rows
    <3>4. CInv'
      BY <3>d DEF CInv
    <3> QED BY <3>t, <3>1, <3>2, <3>3, <3>4 DEF IInv, UInv, CInv
  <2>8. CASE pc[t] = "clearing"
    <3>a. /\ conn' = conn
          /\ link' \in {Answered, [Answered EXCEPT !.open = TRUE]}
      BY <1>u, <1>16, <2>g, <2>8 DEF Cancel, Lands, CalledOff, Answered, Stored, At, Goto, Rest, Calm
    <3>d. /\ pc' = [pc EXCEPT ![t] = "failed"]
          /\ done' = done
          /\ db' = db
          /\ mixed' = mixed
          /\ troubles' = troubles \cup {"cancelled"}
          /\ breaks' = breaks
      BY <1>u, <1>16, <2>g, <2>8 DEF Cancel, Lands, CalledOff, Answered, Stored, At, Goto, Rest, Calm
    <3>e. /\ conn' \in Conn
          /\ conn'.tx = conn.tx
          /\ conn'.begun = conn.begun
          /\ conn'.lost = conn.lost
          /\ conn'.raw = conn.raw
          /\ conn'.owner = conn.owner
          /\ conn'.depth = conn.depth
          /\ conn'.held = conn.held
      BY <1>u, <3>a
    <3>l. /\ link' \in Link
          /\ link'.wire = NoTask
          /\ link'.top = link.top
          /\ link'.pending = (IF link.top = NoTask THEN {} ELSE link.pending)
          /\ link'.open \in BOOLEAN
          /\ link.top # NoTask => link'.open
      BY <1>t, <1>u, <1>16, <2>g, <2>8, <3>a DEF Link, Answered
    <3>t. TInv'
      BY <1>t, <1>u, <1>16, <2>g, <2>8, <3>d, <3>e, <3>l DEF TInv, TypeOK, DoneInv, AtWork, At, Rows
    <3>1. WireInv' /\ KnownInv' /\ WritingInv'
      BY <1>t, <1>u, <1>16, <2>g, <2>8, <3>d, <3>e, <3>l DEF WireInv, KnownInv, TxInv, OwnInv, WritingInv, PendInv, CommitInv, StoredInv, AtWork, CanAsk, At, RowsOf
    <3>2. TxInv' /\ OwnInv'
      BY <1>t, <1>u, <1>16, <2>g, <2>8, <3>d, <3>e, <3>l DEF WireInv, KnownInv, TxInv, OwnInv, WritingInv, PendInv, CommitInv, StoredInv, AtWork, CanAsk, At, RowsOf
    <3>3. PendInv' /\ CommitInv' /\ StoredInv'
      BY <1>t, <1>u, <1>16, <2>g, <2>8, <3>d, <3>e, <3>l DEF WireInv, KnownInv, TxInv, OwnInv, WritingInv, PendInv, CommitInv, StoredInv, AtWork, CanAsk, At, RowsOf, Rows
    <3>4. CInv'
      BY <3>d DEF CInv
    <3> QED BY <3>t, <3>1, <3>2, <3>3, <3>4 DEF IInv, UInv, CInv
  <2> QED BY <1>u, <1>16, <2>g, <2>1, <2>2, <2>3, <2>4, <2>5, <2>6, <2>7, <2>8 DEF Cancel, Lands, CalledOff, Answered, Stored, CanAsk, At
<1>17. ASSUME Close PROVE IInv'
  <2>1. CASE AtWork(conn.owner)
    <3>a. /\ conn' = [conn EXCEPT !.raw = "closed", !.lost = conn.lost \/ conn.tx # NoTask]
          /\ link' = link
      BY <1>u, <1>17, <2>1 DEF Close, Break, Ends, At, Goto, Rest, Calm, NoteOpening
    <3>d. /\ pc' = pc
          /\ done' = done
          /\ db' = db
          /\ mixed' = mixed
          /\ troubles \subseteq troubles' /\ troubles' \subseteq Troubles
          /\ breaks' \in 0..MaxBreaks
      BY <1>u, <1>17, <2>1 DEF Close, Break, Ends, At, Goto, Rest, Calm, NoteOpening
    <3>e. /\ conn' \in Conn
          /\ conn'.tx = conn.tx
          /\ conn'.begun = conn.begun
          /\ conn'.lost = (conn.lost \/ conn.tx # NoTask)
          /\ conn'.raw = "closed"
          /\ conn'.owner = conn.owner
          /\ conn'.depth = conn.depth
          /\ conn'.held = conn.held
      BY <1>u, <3>a DEF Conn
    <3>l. /\ link' \in Link
          /\ link'.wire = link.wire
          /\ link'.open = link.open
          /\ link'.top = link.top
          /\ link'.pending = link.pending
      BY <1>u, <3>a
    <3>t. TInv'
      BY <1>t, <1>u, <1>17, <2>1, <3>d, <3>e, <3>l DEF TInv, TypeOK, DoneInv, AtWork, At, Rows
    <3>1. WireInv' /\ KnownInv' /\ WritingInv'
      BY <1>t, <1>u, <1>17, <2>1, <3>d, <3>e, <3>l DEF WireInv, KnownInv, TxInv, OwnInv, WritingInv, PendInv, CommitInv, StoredInv, AtWork, CanAsk, At, RowsOf, Close
    <3>2. TxInv' /\ OwnInv'
      BY <1>t, <1>u, <1>17, <2>1, <3>d, <3>e, <3>l DEF WireInv, KnownInv, TxInv, OwnInv, WritingInv, PendInv, CommitInv, StoredInv, AtWork, CanAsk, At, RowsOf, Close
    <3>3. PendInv' /\ CommitInv' /\ StoredInv'
      BY <1>t, <1>u, <1>17, <2>1, <3>d, <3>e, <3>l DEF WireInv, KnownInv, TxInv, OwnInv, WritingInv, PendInv, CommitInv, StoredInv, AtWork, CanAsk, At, RowsOf, Rows, Close
    <3>4. ASSUME troubles' = {} PROVE Unharmed'
      <4>c. /\ troubles = {} /\ mixed = {}
            /\ LockInv
            /\ HeldInv
            /\ DepthInv
            /\ SessionInv
        BY <1>t, <3>d, <3>4 DEF CInv, Unharmed
      <4>f. \A u \in Tasks : pc[u] # "opening"
        BY <1>t, <1>u, <1>17, <2>1, <3>4, <3>d, <4>c DEF LockInv, HeldInv, DepthInv, SessionInv, WireInv, KnownInv, AtWork, Gone, CanAsk, At, Close, NoteOpening
      <4>g. /\ conn'.owner = conn.owner
            /\ conn'.depth = conn.depth
            /\ conn'.held = conn.held
        BY <1>u, <3>e, <4>c, <4>f
      <4>1. mixed' = {} /\ LockInv'
        BY <1>t, <1>u, <1>17, <2>1, <3>d, <3>e, <3>l, <4>c, <4>f, <4>g DEF LockInv, HeldInv, DepthInv, SessionInv, WireInv, KnownInv, AtWork, CanAsk, At, RowsOf, Rows
      <4>2. HeldInv' /\ DepthInv'
        BY <1>t, <1>u, <1>17, <2>1, <3>d, <3>e, <3>l, <4>c, <4>f, <4>g DEF LockInv, HeldInv, DepthInv, SessionInv, WireInv, KnownInv, AtWork, CanAsk, At, RowsOf, Rows
      <4>3. SessionInv'
        BY <1>t, <1>u, <1>17, <2>1, <3>d, <3>e, <3>l, <4>c, <4>f, <4>g DEF LockInv, HeldInv, DepthInv, SessionInv, WireInv, KnownInv, AtWork, CanAsk, At, RowsOf, Rows
      <4> QED BY <4>1, <4>2, <4>3 DEF Unharmed
    <3> QED BY <3>t, <3>1, <3>2, <3>3, <3>4 DEF IInv, UInv, CInv
  <2>2. CASE ~AtWork(conn.owner) /\ conn.tx = NoTask
    <3>a. /\ conn' = [conn EXCEPT !.raw = "closed", !.owner = NoTask, !.depth = 0]
          /\ link' = link
      BY <1>u, <1>17, <2>2 DEF Close, Break, Ends, At, Goto, Rest, Calm, NoteOpening
    <3>d. /\ pc' = pc
          /\ done' = done
          /\ db' = db
          /\ mixed' = mixed \cup {u \in {conn.tx} \ {NoTask} : AtWork(u)}
          /\ troubles \subseteq troubles' /\ troubles' \subseteq Troubles
          /\ breaks' \in 0..MaxBreaks
      BY <1>u, <1>17, <2>2 DEF Close, Break, Ends, At, Goto, Rest, Calm, NoteOpening
    <3>e. /\ conn' \in Conn
          /\ conn'.tx = conn.tx
          /\ conn'.begun = conn.begun
          /\ conn'.lost = conn.lost
          /\ conn'.raw = "closed"
          /\ conn'.owner = NoTask
          /\ conn'.depth = 0
          /\ conn'.held = conn.held
      BY <1>u, <3>a DEF Conn
    <3>l. /\ link' \in Link
          /\ link'.wire = link.wire
          /\ link'.open = link.open
          /\ link'.top = link.top
          /\ link'.pending = link.pending
      BY <1>u, <3>a
    <3>t. TInv'
      BY <1>t, <1>u, <1>17, <2>2, <3>d, <3>e, <3>l DEF TInv, TypeOK, DoneInv, AtWork, At, Rows
    <3>1. WireInv' /\ KnownInv' /\ WritingInv'
      BY <1>t, <1>u, <1>17, <2>2, <3>d, <3>e, <3>l DEF WireInv, KnownInv, TxInv, OwnInv, WritingInv, PendInv, CommitInv, StoredInv, AtWork, CanAsk, At, RowsOf, Close
    <3>2. TxInv' /\ OwnInv'
      BY <1>t, <1>u, <1>17, <2>2, <3>d, <3>e, <3>l DEF WireInv, KnownInv, TxInv, OwnInv, WritingInv, PendInv, CommitInv, StoredInv, AtWork, CanAsk, At, RowsOf, Close
    <3>3. PendInv' /\ CommitInv' /\ StoredInv'
      BY <1>t, <1>u, <1>17, <2>2, <3>d, <3>e, <3>l DEF WireInv, KnownInv, TxInv, OwnInv, WritingInv, PendInv, CommitInv, StoredInv, AtWork, CanAsk, At, RowsOf, Rows, Close
    <3>4. ASSUME troubles' = {} PROVE Unharmed'
      <4>c. /\ troubles = {} /\ mixed = {}
            /\ LockInv
            /\ HeldInv
            /\ DepthInv
            /\ SessionInv
        BY <1>t, <3>d, <3>4 DEF CInv, Unharmed
      <4>f. /\ conn.owner = NoTask
            /\ ~conn.held
            /\ ~conn.lost
        BY <1>t, <1>u, <1>17, <2>2, <3>4, <3>d, <4>c DEF LockInv, HeldInv, DepthInv, SessionInv, WireInv, KnownInv, AtWork, Gone, CanAsk, At, Close, NoteOpening
      <4>g. /\ conn'.owner = NoTask
            /\ conn'.depth = 0
            /\ conn'.held = conn.held
        BY <1>u, <3>e, <4>c, <4>f
      <4>1. mixed' = {} /\ LockInv'
        BY <1>t, <1>u, <1>17, <2>2, <3>d, <3>e, <3>l, <4>c, <4>f, <4>g DEF LockInv, HeldInv, DepthInv, SessionInv, WireInv, KnownInv, AtWork, CanAsk, At, RowsOf, Rows
      <4>2. HeldInv' /\ DepthInv'
        BY <1>t, <1>u, <1>17, <2>2, <3>d, <3>e, <3>l, <4>c, <4>f, <4>g DEF LockInv, HeldInv, DepthInv, SessionInv, WireInv, KnownInv, AtWork, CanAsk, At, RowsOf, Rows
      <4>3. SessionInv'
        BY <1>t, <1>u, <1>17, <2>2, <3>d, <3>e, <3>l, <4>c, <4>f, <4>g DEF LockInv, HeldInv, DepthInv, SessionInv, WireInv, KnownInv, AtWork, CanAsk, At, RowsOf, Rows
      <4> QED BY <4>1, <4>2, <4>3 DEF Unharmed
    <3> QED BY <3>t, <3>1, <3>2, <3>3, <3>4 DEF IInv, UInv, CInv
  <2>3. CASE ~AtWork(conn.owner) /\ conn.tx # NoTask
    <3>a. /\ conn' = [[NoTx(conn) EXCEPT !.held = FALSE] EXCEPT !.raw = "closed", !.owner = NoTask, !.depth = 0]
          /\ link' = link
      BY <1>u, <1>17, <2>3 DEF Close, Break, Ends, At, Goto, Rest, Calm, NoteOpening
    <3>d. /\ pc' = pc
          /\ done' = done
          /\ db' = db
          /\ mixed' = mixed \cup {u \in {conn.tx} \ {NoTask} : AtWork(u)}
          /\ troubles \subseteq troubles' /\ troubles' \subseteq Troubles
          /\ breaks' \in 0..MaxBreaks
      BY <1>u, <1>17, <2>3 DEF Close, Break, Ends, At, Goto, Rest, Calm, NoteOpening
    <3>m. /\ NoTx(conn) \in Conn
          /\ NoTx(conn).tx = NoTask
          /\ NoTx(conn).begun = FALSE
          /\ NoTx(conn).lost = FALSE
          /\ NoTx(conn).raw = conn.raw
          /\ NoTx(conn).owner = conn.owner
          /\ NoTx(conn).depth = conn.depth
          /\ NoTx(conn).held = conn.held
      BY <1>u, NoTxFields
    <3>e. /\ conn' \in Conn
          /\ conn'.tx = NoTask
          /\ conn'.begun = FALSE
          /\ conn'.lost = FALSE
          /\ conn'.raw = "closed"
          /\ conn'.owner = NoTask
          /\ conn'.depth = 0
          /\ conn'.held = FALSE
      BY <1>u, <3>a, <3>m DEF Conn
    <3>l. /\ link' \in Link
          /\ link'.wire = link.wire
          /\ link'.open = link.open
          /\ link'.top = link.top
          /\ link'.pending = link.pending
      BY <1>u, <3>a
    <3>t. TInv'
      BY <1>t, <1>u, <1>17, <2>3, <3>d, <3>e, <3>l DEF TInv, TypeOK, DoneInv, AtWork, At, Rows
    <3>1. WireInv' /\ KnownInv' /\ WritingInv'
      BY <1>t, <1>u, <1>17, <2>3, <3>d, <3>e, <3>l DEF WireInv, KnownInv, TxInv, OwnInv, WritingInv, PendInv, CommitInv, StoredInv, AtWork, CanAsk, At, RowsOf, Close
    <3>2. TxInv' /\ OwnInv'
      BY <1>t, <1>u, <1>17, <2>3, <3>d, <3>e, <3>l DEF WireInv, KnownInv, TxInv, OwnInv, WritingInv, PendInv, CommitInv, StoredInv, AtWork, CanAsk, At, RowsOf, Close
    <3>3. PendInv' /\ CommitInv' /\ StoredInv'
      BY <1>t, <1>u, <1>17, <2>3, <3>d, <3>e, <3>l DEF WireInv, KnownInv, TxInv, OwnInv, WritingInv, PendInv, CommitInv, StoredInv, AtWork, CanAsk, At, RowsOf, Rows, Close
    <3>4. ASSUME troubles' = {} PROVE Unharmed'
      <4>c. /\ troubles = {} /\ mixed = {}
            /\ LockInv
            /\ HeldInv
            /\ DepthInv
            /\ SessionInv
        BY <1>t, <3>d, <3>4 DEF CInv, Unharmed
      <4>f. /\ conn.owner \in Tasks
            /\ conn.tx = conn.owner
            /\ \A u \in Tasks : pc[u] \notin Waiting
        BY <1>t, <1>u, <1>17, <2>3, <3>4, <3>d, <4>c DEF LockInv, HeldInv, DepthInv, SessionInv, WireInv, KnownInv, AtWork, Gone, CanAsk, At, Close, NoteOpening
      <4>g. /\ conn'.owner = NoTask
            /\ conn'.depth = 0
            /\ conn'.held = FALSE
        BY <1>u, <3>e, <4>c, <4>f
      <4>1. mixed' = {} /\ LockInv'
        BY <1>t, <1>u, <1>17, <2>3, <3>d, <3>e, <3>l, <4>c, <4>f, <4>g DEF LockInv, HeldInv, DepthInv, SessionInv, WireInv, KnownInv, AtWork, CanAsk, At, RowsOf, Rows
      <4>2. HeldInv' /\ DepthInv'
        BY <1>t, <1>u, <1>17, <2>3, <3>d, <3>e, <3>l, <4>c, <4>f, <4>g DEF LockInv, HeldInv, DepthInv, SessionInv, WireInv, KnownInv, AtWork, CanAsk, At, RowsOf, Rows
      <4>3. SessionInv'
        BY <1>t, <1>u, <1>17, <2>3, <3>d, <3>e, <3>l, <4>c, <4>f, <4>g DEF LockInv, HeldInv, DepthInv, SessionInv, WireInv, KnownInv, AtWork, CanAsk, At, RowsOf, Rows
      <4> QED BY <4>1, <4>2, <4>3 DEF Unharmed
    <3> QED BY <3>t, <3>1, <3>2, <3>3, <3>4 DEF IInv, UInv, CInv
  <2> QED BY <1>u, <1>17, <2>1, <2>2, <2>3 DEF Close, Break, Ends, CanAsk, At
<1>18. ASSUME Drop PROVE IInv'
  <2>a. /\ conn' = [conn EXCEPT !.raw = "closed"]
        /\ link' = link
    BY <1>u, <1>18 DEF Drop, Break, At, Goto, Rest, Calm
  <2>d. /\ pc' = pc
        /\ done' = done
        /\ db' = db
        /\ mixed' = mixed
        /\ troubles' = troubles
        /\ breaks' \in 0..MaxBreaks
    BY <1>u, <1>18 DEF Drop, Break, At, Goto, Rest, Calm
  <2>e. /\ conn' \in Conn
        /\ conn'.tx = conn.tx
        /\ conn'.begun = conn.begun
        /\ conn'.lost = conn.lost
        /\ conn'.raw = "closed"
        /\ conn'.owner = conn.owner
        /\ conn'.depth = conn.depth
        /\ conn'.held = conn.held
    BY <1>u, <2>a DEF Conn
  <2>l. /\ link' \in Link
        /\ link'.wire = link.wire
        /\ link'.open = link.open
        /\ link'.top = link.top
        /\ link'.pending = link.pending
    BY <1>u, <2>a
  <2>t. TInv'
    BY <1>t, <1>u, <1>18, <2>d, <2>e, <2>l DEF TInv, TypeOK, DoneInv, AtWork, At, Rows
  <2>1. WireInv' /\ KnownInv' /\ WritingInv'
    BY <1>t, <1>u, <1>18, <2>d, <2>e, <2>l DEF WireInv, KnownInv, TxInv, OwnInv, WritingInv, PendInv, CommitInv, StoredInv, AtWork, CanAsk, At, RowsOf, Drop
  <2>2. TxInv' /\ OwnInv'
    BY <1>t, <1>u, <1>18, <2>d, <2>e, <2>l DEF WireInv, KnownInv, TxInv, OwnInv, WritingInv, PendInv, CommitInv, StoredInv, AtWork, CanAsk, At, RowsOf, Drop
  <2>3. PendInv' /\ CommitInv' /\ StoredInv'
    BY <1>t, <1>u, <1>18, <2>d, <2>e, <2>l DEF WireInv, KnownInv, TxInv, OwnInv, WritingInv, PendInv, CommitInv, StoredInv, AtWork, CanAsk, At, RowsOf, Rows, Drop
  <2>4. ASSUME troubles' = {} PROVE Unharmed'
    <3>c. /\ troubles = {} /\ mixed = {}
          /\ LockInv
          /\ HeldInv
          /\ DepthInv
          /\ SessionInv
      BY <1>t, <2>d, <2>4 DEF CInv, Unharmed
    <3>g. /\ conn'.owner = conn.owner
          /\ conn'.depth = conn.depth
          /\ conn'.held = conn.held
      BY <1>u, <2>e, <3>c
    <3>1. mixed' = {} /\ LockInv'
      BY <1>t, <1>u, <1>18, <2>d, <2>e, <2>l, <3>c, <3>g DEF LockInv, HeldInv, DepthInv, SessionInv, WireInv, KnownInv, AtWork, CanAsk, At, RowsOf, Rows
    <3>2. HeldInv' /\ DepthInv'
      BY <1>t, <1>u, <1>18, <2>d, <2>e, <2>l, <3>c, <3>g DEF LockInv, HeldInv, DepthInv, SessionInv, WireInv, KnownInv, AtWork, CanAsk, At, RowsOf, Rows
    <3>3. SessionInv'
      BY <1>t, <1>u, <1>18, <2>d, <2>e, <2>l, <3>c, <3>g DEF LockInv, HeldInv, DepthInv, SessionInv, WireInv, KnownInv, AtWork, CanAsk, At, RowsOf, Rows
    <3> QED BY <3>1, <3>2, <3>3 DEF Unharmed
  <2> QED BY <2>t, <2>1, <2>2, <2>3, <2>4 DEF IInv, UInv, CInv
<1>19. ASSUME Seal PROVE IInv'
  <2>a. /\ conn' = [conn EXCEPT !.raw = "none", !.lost = conn.lost \/ conn.tx # NoTask]
        /\ link' = link
    BY <1>u, <1>19 DEF Seal, Break, At, Goto, Rest, Calm, NoteOpening
  <2>d. /\ pc' = pc
        /\ done' = done
        /\ db' = db
        /\ mixed' = mixed
        /\ troubles \subseteq troubles' /\ troubles' \subseteq Troubles
        /\ breaks' \in 0..MaxBreaks
    BY <1>u, <1>19 DEF Seal, Break, At, Goto, Rest, Calm, NoteOpening
  <2>e. /\ conn' \in Conn
        /\ conn'.tx = conn.tx
        /\ conn'.begun = conn.begun
        /\ conn'.lost = (conn.lost \/ conn.tx # NoTask)
        /\ conn'.raw = "none"
        /\ conn'.owner = conn.owner
        /\ conn'.depth = conn.depth
        /\ conn'.held = conn.held
    BY <1>u, <2>a DEF Conn
  <2>l. /\ link' \in Link
        /\ link'.wire = link.wire
        /\ link'.open = link.open
        /\ link'.top = link.top
        /\ link'.pending = link.pending
    BY <1>u, <2>a
  <2>t. TInv'
    BY <1>t, <1>u, <1>19, <2>d, <2>e, <2>l DEF TInv, TypeOK, DoneInv, AtWork, At, Rows
  <2>k. KnownInv'
    BY <1>t, <1>u, <1>19, <2>d, <2>e, <2>l DEF KnownInv
  <2>1. WireInv' /\ KnownInv' /\ WritingInv'
    BY <1>t, <1>u, <1>19, <2>d, <2>e, <2>l, <2>k DEF WireInv, KnownInv, TxInv, OwnInv, WritingInv, PendInv, CommitInv, StoredInv, AtWork, CanAsk, At, RowsOf, Seal
  <2>2. TxInv' /\ OwnInv'
    BY <1>t, <1>u, <1>19, <2>d, <2>e, <2>l DEF WireInv, KnownInv, TxInv, OwnInv, WritingInv, PendInv, CommitInv, StoredInv, AtWork, CanAsk, At, RowsOf, Seal
  <2>3. PendInv' /\ CommitInv' /\ StoredInv'
    BY <1>t, <1>u, <1>19, <2>d, <2>e, <2>l DEF WireInv, KnownInv, TxInv, OwnInv, WritingInv, PendInv, CommitInv, StoredInv, AtWork, CanAsk, At, RowsOf, Rows, Seal
  <2>4. ASSUME troubles' = {} PROVE Unharmed'
    <3>c. /\ troubles = {} /\ mixed = {}
          /\ LockInv
          /\ HeldInv
          /\ DepthInv
          /\ SessionInv
      BY <1>t, <2>d, <2>4 DEF CInv, Unharmed
    <3>f. \A u \in Tasks : pc[u] # "opening"
      BY <1>t, <1>u, <1>19, <2>4, <2>d, <3>c DEF LockInv, HeldInv, DepthInv, SessionInv, WireInv, KnownInv, AtWork, Gone, CanAsk, At, Seal, NoteOpening
    <3>g. /\ conn'.owner = conn.owner
          /\ conn'.depth = conn.depth
          /\ conn'.held = conn.held
      BY <1>u, <2>e, <3>c, <3>f
    <3>1. mixed' = {} /\ LockInv'
      BY <1>t, <1>u, <1>19, <2>d, <2>e, <2>l, <3>c, <3>f, <3>g DEF LockInv, HeldInv, DepthInv, SessionInv, WireInv, KnownInv, AtWork, CanAsk, At, RowsOf, Rows
    <3>2. HeldInv' /\ DepthInv'
      BY <1>t, <1>u, <1>19, <2>d, <2>e, <2>l, <3>c, <3>f, <3>g DEF LockInv, HeldInv, DepthInv, SessionInv, WireInv, KnownInv, AtWork, CanAsk, At, RowsOf, Rows
    <3>3. SessionInv'
      BY <1>t, <1>u, <1>19, <2>d, <2>e, <2>l, <3>c, <3>f, <3>g DEF LockInv, HeldInv, DepthInv, SessionInv, WireInv, KnownInv, AtWork, CanAsk, At, RowsOf, Rows
    <3> QED BY <3>1, <3>2, <3>3 DEF Unharmed
  <2> QED BY <2>t, <2>1, <2>2, <2>3, <2>4 DEF IInv, UInv, CInv
<1>20. ASSUME Rebuilt PROVE IInv'
  <2>a. /\ conn' = [conn EXCEPT !.raw = "up"]
        /\ link' = [wire |-> NoTask, open |-> FALSE, top |-> NoTask, pending |-> {}]
    BY <1>u, <1>20 DEF Rebuilt, At, Goto, Rest, Calm
  <2>d. /\ pc' = pc
        /\ done' = done
        /\ db' = db
        /\ mixed' = mixed
        /\ troubles' = troubles
        /\ breaks' = breaks
    BY <1>u, <1>20 DEF Rebuilt, At, Goto, Rest, Calm
  <2>e. /\ conn' \in Conn
        /\ conn'.tx = conn.tx
        /\ conn'.begun = conn.begun
        /\ conn'.lost = conn.lost
        /\ conn'.raw = "up"
        /\ conn'.owner = conn.owner
        /\ conn'.depth = conn.depth
        /\ conn'.held = conn.held
    BY <1>u, <2>a DEF Conn
  <2>l. /\ link' \in Link
        /\ link'.wire = NoTask
        /\ link'.open = FALSE
        /\ link'.top = NoTask
        /\ link'.pending = {}
    BY <1>t, <1>u, <1>20, <2>a DEF Link
  <2>t. TInv'
    BY <1>t, <1>u, <1>20, <2>d, <2>e, <2>l DEF TInv, TypeOK, DoneInv, AtWork, At, Rows
  <2>1. WireInv' /\ KnownInv' /\ WritingInv'
    BY <1>t, <1>u, <1>20, <2>d, <2>e, <2>l DEF WireInv, KnownInv, TxInv, OwnInv, WritingInv, PendInv, CommitInv, StoredInv, AtWork, CanAsk, At, RowsOf, Rebuilt
  <2>2. TxInv' /\ OwnInv'
    BY <1>t, <1>u, <1>20, <2>d, <2>e, <2>l DEF WireInv, KnownInv, TxInv, OwnInv, WritingInv, PendInv, CommitInv, StoredInv, AtWork, CanAsk, At, RowsOf, Rebuilt
  <2>3. PendInv' /\ CommitInv' /\ StoredInv'
    BY <1>t, <1>u, <1>20, <2>d, <2>e, <2>l DEF WireInv, KnownInv, TxInv, OwnInv, WritingInv, PendInv, CommitInv, StoredInv, AtWork, CanAsk, At, RowsOf, Rows, Rebuilt
  <2>4. ASSUME troubles' = {} PROVE Unharmed'
    <3>c. /\ troubles = {} /\ mixed = {}
          /\ LockInv
          /\ HeldInv
          /\ DepthInv
          /\ SessionInv
      BY <1>t, <2>d, <2>4 DEF CInv, Unharmed
    <3>f. conn.tx # NoTask => conn.lost
      BY <1>t, <1>u, <1>20, <2>4, <2>d, <3>c DEF LockInv, HeldInv, DepthInv, SessionInv, WireInv, KnownInv, AtWork, Gone, CanAsk, At, Rebuilt
    <3>g. /\ conn'.owner = conn.owner
          /\ conn'.depth = conn.depth
          /\ conn'.held = conn.held
      BY <1>u, <2>e, <3>c, <3>f
    <3>1. mixed' = {} /\ LockInv'
      BY <1>t, <1>u, <1>20, <2>d, <2>e, <2>l, <3>c, <3>f, <3>g DEF LockInv, HeldInv, DepthInv, SessionInv, WireInv, KnownInv, AtWork, CanAsk, At, RowsOf, Rows
    <3>2. HeldInv' /\ DepthInv'
      BY <1>t, <1>u, <1>20, <2>d, <2>e, <2>l, <3>c, <3>f, <3>g DEF LockInv, HeldInv, DepthInv, SessionInv, WireInv, KnownInv, AtWork, CanAsk, At, RowsOf, Rows
    <3>3. SessionInv'
      BY <1>t, <1>u, <1>20, <2>d, <2>e, <2>l, <3>c, <3>f, <3>g DEF LockInv, HeldInv, DepthInv, SessionInv, WireInv, KnownInv, AtWork, CanAsk, At, RowsOf, Rows
    <3> QED BY <3>1, <3>2, <3>3 DEF Unharmed
  <2> QED BY <2>t, <2>1, <2>2, <2>3, <2>4 DEF IInv, UInv, CInv
<1>21. CASE UNCHANGED vars
  BY <1>t, <1>21 DEF vars, IInv, TInv, UInv, CInv, Unharmed, TypeOK, DoneInv, WireInv, KnownInv, TxInv, OwnInv, WritingInv, PendInv, CommitInv, StoredInv, LockInv, HeldInv, DepthInv, SessionInv, AtWork
<1> QED BY <1>1, <1>2, <1>3, <1>4, <1>5, <1>6, <1>7, <1>8, <1>9, <1>10, <1>11, <1>12, <1>13, <1>14, <1>15, <1>16, <1>17, <1>18, <1>19, <1>20, <1>21 DEF Next, Progress, Answer

\* In every behaviour the invariant holds in every state.
LEMMA AlwaysIInv == Spec => []IInv
<1>1. IInv /\ [Next]_vars => IInv'
  BY StepIInv
<1> QED BY <1>1, InitIInv, PTL DEF Spec

\* Type correctness for any number of tasks, statements and breaks, whatever happens.
THEOREM TypeCorrect == Spec => []TypeOK
<1>1. IInv => TypeOK
  BY DEF IInv, TInv
<1> QED BY <1>1, AlwaysIInv, PTL

-----------------------------------------------------------------------------
(* Sharing the connection.                                                 *)

\* What is written and not committed is the work of the task that has the lock.
LEMMA OwnRows == ASSUME TypeOK, WireInv, LockInv, SessionInv PROVE OwnRowsOnly
<1> SUFFICES ASSUME conn.raw = "up", NEW r \in link.pending PROVE r[1] = conn.owner
  BY DEF OwnRowsOnly
<1>1. PICK t \in Tasks, i \in 1..Size : r = <<t, i>>
  BY Parts DEF Rows
<1>2. conn.tx = t \/ pc[t] = "committing"
  BY <1>1 DEF SessionInv
<1>3. conn.owner = t
  BY <1>2 DEF LockInv, Waiting
<1> QED BY <1>1, <1>3

\* Tasks share the connection without harm until one of the four circumstances arises:
\* the only ways to a statement in somebody else's transaction, to a lock that is not
\* given back and to a transaction that nobody ends.
THEOREM SafelyShared == Spec => []SharedSafely
<1>1. IInv => SharedSafely
  <2> SUFFICES ASSUME IInv, troubles = {}
               PROVE  mixed = {} /\ OwnRowsOnly /\ GuardReturned /\ SessionLeftIdle
    BY DEF SharedSafely
  <2>1. /\ TypeOK /\ WireInv /\ mixed = {}
        /\ LockInv /\ SessionInv
    BY DEF IInv, TInv, UInv, CInv, Unharmed
  <2>2. OwnRowsOnly
    BY <2>1, OwnRows
  <2>3. GuardReturned
    BY <2>1 DEF LockInv, GuardReturned, Gone, Ended
  <2>4. SessionLeftIdle
    BY <2>1 DEF SessionInv, SessionLeftIdle
  <2> QED BY <2>1, <2>2, <2>3, <2>4
<1> QED BY <1>1, AlwaysIInv, PTL

-----------------------------------------------------------------------------
(* PgConnection implements AtomicUnits: a unit that is not mixed up is       *)
(* stored and reported in one step of its task; every other step changes     *)
(* neither.                                                                  *)

StoredOf(t) == {i \in 1..Size : <<t, i>> \in db}

\* A unit becomes mixed while it is at work, or after it has failed.
LEMMA StepMixing == ASSUME IInv, [Next]_vars PROVE Units!Mixing
<1> USE DEF Ended, Queued, Waiting, Running, PcSet, Somebody
<1>t. /\ TypeOK /\ KnownInv /\ pc \in [Tasks -> PcSet] /\ conn.tx \in Somebody
      /\ mixed \subseteq Tasks
  BY Parts DEF IInv, TInv, UInv
<1>1. ASSUME NEW t \in Tasks, pc[t] \notin Ended,
             mixed' \subseteq mixed \cup {t, conn.tx}, mixed \subseteq mixed', mixed' \subseteq Tasks
      PROVE  Units!Mixing
  <2>1. \A u \in mixed' \ mixed : u \in Tasks /\ Shown(u) \in {"none", "failed"}
    BY <1>t, <1>1 DEF Shown, KnownInv
  <2> QED BY <1>1, <2>1 DEF Units!Mixing
<1>2. ASSUME mixed' \in {mixed, mixed \cup {u \in {conn.tx} \ {NoTask} : AtWork(u)}}
      PROVE  Units!Mixing
  <2>1. \A u \in mixed' \ mixed : u \in Tasks /\ Shown(u) = "none"
    BY <1>t, <1>2 DEF Shown, AtWork
  <2> QED BY <1>2, <2>1 DEF Units!Mixing
<1>3. mixed' \subseteq Tasks
  BY StepIInv, Parts DEF IInv, TInv, TypeOK
<1>4. ASSUME NEW t \in Tasks, Execute(t) \/ Granted(t) PROVE Units!Mixing
  <2>1. mixed' \in {mixed, mixed \cup {u \in {conn.tx} \ {NoTask} : AtWork(u)}}
    BY <1>4 DEF Execute, Granted, Take, TakeOver, Enqueue, Ends
  <2> QED BY <1>2, <2>1
<1>5. ASSUME NEW t \in Tasks, Statement(t) PROVE Units!Mixing
  <2>1. pc[t] \notin Ended /\ mixed \subseteq mixed' /\ mixed' \subseteq mixed \cup {t, conn.tx}
    BY <1>5 DEF Statement, Begin, At
  <2> QED BY <1>1, <1>3, <2>1
<1>6. ASSUME NEW t \in Tasks, WriteFails(t) \/ Rollback(t) \/ Commit(t) PROVE Units!Mixing
  <2>1. pc[t] \notin Ended /\ mixed \subseteq mixed' /\ mixed' \subseteq mixed \cup {t, conn.tx}
    BY <1>6 DEF WriteFails, Rollback, Commit, At, Ends
  <2> QED BY <1>1, <1>3, <2>1
<1>7. ASSUME NEW t \in Tasks, Cut(t) PROVE Units!Mixing
  <2>1. pc[t] \notin Ended
    BY <1>7 DEF Cut, At
  <2>2. mixed \subseteq mixed' /\ mixed' \subseteq mixed \cup {t, conn.tx}
    BY <1>7 DEF Cut, Ends
  <2> QED BY <1>1, <1>3, <2>1, <2>2
<1>8. ASSUME Close PROVE Units!Mixing
  <2>1. mixed' \in {mixed, mixed \cup {u \in {conn.tx} \ {NoTask} : AtWork(u)}}
    BY <1>8 DEF Close, Ends
  <2> QED BY <1>2, <2>1
<1>9. ASSUME mixed' = mixed PROVE Units!Mixing
  BY <1>2, <1>9
<1>10. ASSUME NEW t \in Tasks,
              \/ Timeout(t) \/ Opened(t) \/ Written(t) \/ Committed(t) \/ RolledBack(t)
              \/ Cleared(t) \/ Leave(t) \/ Raise(t) \/ Cancel(t)
       PROVE  mixed' = mixed
  BY <1>10 DEF Timeout, Opened, Written, Committed, RolledBack, Cleared, Leave, Raise, Cancel, Calm
<1>11. Drop \/ Seal \/ Rebuilt \/ UNCHANGED vars => mixed' = mixed
  BY DEF Drop, Seal, Rebuilt, Calm, vars
<1> QED BY <1>4, <1>5, <1>6, <1>7, <1>8, <1>9, <1>10, <1>11 DEF Next, Progress, Answer

\* A step that changes nothing of the units that are not mixed up.
LEMMA UnitsRest ==
  ASSUME Units!Mixing,
         \A t \in Tasks \ mixed' : /\ Shown(t)' = Shown(t)
                                   /\ \A i \in 1..Size : <<t, i>> \in db' <=> <<t, i>> \in db
  PROVE  Units!Next
<1>1. \A t \in Tasks \ mixed' : StoredOf(t)' = StoredOf(t)
  BY DEF StoredOf
<1> QED BY <1>1 DEF Units!Next, Units!Anything, StoredOf

\* A step in which t's unit ends, with its rows stored at once or not at all.
LEMMA UnitReported ==
  ASSUME NEW t \in Tasks, NEW s \in Ended, NEW rows \in {{}, 1..Size},
         pc[t] \notin Ended, t \notin mixed', RowsOf(t) \cap db = {},
         pc \in [Tasks -> PcSet],
         pc' = [pc EXCEPT ![t] = s],
         db' = db \cup ({t} \X rows)
  PROVE  Units!Report(t, s, rows)
<1>1. \A u \in Tasks \ {t} : StoredOf(u)' = StoredOf(u)
  BY DEF StoredOf
<1>2. StoredOf(t)' = rows
  <2>1. \A i \in 1..Size : <<t, i>> \notin db
    BY DEF RowsOf
  <2>2. \A i \in 1..Size : <<t, i>> \in db' <=> i \in rows
    BY <2>1
  <2> QED BY <2>2 DEF StoredOf
<1>3. [u \in Tasks |-> StoredOf(u)]' = [[u \in Tasks |-> StoredOf(u)] EXCEPT ![t] = rows]
  BY <1>1, <1>2
<1>4. /\ \A u \in Tasks \ {t} : Shown(u)' = Shown(u)
      /\ Shown(t) = "none" /\ Shown(t)' = s
  BY DEF Shown, Ended, PcSet
<1>5. [u \in Tasks |-> Shown(u)]' = [[u \in Tasks |-> Shown(u)] EXCEPT ![t] = s]
  BY <1>4
<1> QED BY <1>3, <1>4, <1>5 DEF Units!Report, StoredOf

\* A unit that is not mixed up ends in one of the three ways of the abstract specification.
LEMMA UnitEnds ==
  ASSUME Units!Mixing, NEW t \in Tasks, NEW s \in Ended,
         pc[t] \notin Ended, t \notin mixed', RowsOf(t) \cap db = {},
         pc \in [Tasks -> PcSet],
         pc' = [pc EXCEPT ![t] = s],
         \/ s = "failed" /\ db' = db
         \/ s = "ok" /\ db' = db \cup RowsOf(t)
         \/ s = "unsure" /\ db' \in {db, db \cup RowsOf(t)}
  PROVE  Units!Next
<1>1. CASE db' = db
  <2>1. db' = db \cup ({t} \X {})
    BY <1>1
  <2>2. Units!Report(t, s, {})
    BY <2>1, UnitReported
  <2>3. s # "ok"
    <3>1. <<t, 1>> \in RowsOf(t)
      BY PgAssumption DEF RowsOf
    <3> QED BY <1>1, <3>1
  <2>4. Units!Refuse(t) \/ Units!Doubt(t)
    BY <2>2, <2>3 DEF Ended, Units!Refuse, Units!Doubt, Units!Nothing
  <2> QED BY <2>4 DEF Units!Next
<1>2. CASE db' = db \cup RowsOf(t) /\ s # "failed"
  <2>1. db' = db \cup ({t} \X (1..Size))
    BY <1>2 DEF RowsOf
  <2>2. Units!Report(t, s, 1..Size)
    BY <2>1, UnitReported
  <2>3. Units!Commit(t) \/ Units!Doubt(t)
    BY <1>2, <2>2 DEF Ended, Units!Commit, Units!Doubt, Units!Everything
  <2> QED BY <2>3 DEF Units!Next
<1> QED BY <1>1, <1>2

\* The answer to a commit stores the committing unit's rows, and of the others that are
\* not mixed up nothing.
LEMMA StoredByCommit ==
  ASSUME IInv, NEW t \in Tasks, pc[t] = "committing"
  PROVE  /\ t \notin mixed => Stored = db \cup RowsOf(t)
         /\ t \in mixed => \A u \in Tasks \ mixed, i \in 1..Size :
                             <<u, i>> \in Stored <=> <<u, i>> \in db
<1>t. TypeOK /\ WireInv /\ PendInv /\ CommitInv /\ link.pending \subseteq Rows /\ link.wire = t
  BY Parts DEF IInv, TInv, UInv, WireInv, Waiting
<1>1. ASSUME t \notin mixed PROVE Stored = db \cup RowsOf(t)
  <2>1. link.top = NoTask /\ \A u \in Tasks, i \in 1..Size : <<u, i>> \in link.pending <=> u = t
    BY <1>t, <1>1 DEF CommitInv
  <2>2. link.pending = RowsOf(t)
    BY <1>t, <2>1 DEF Rows, RowsOf
  <2> QED BY <2>1, <2>2 DEF Stored
<1>2. ASSUME t \in mixed, NEW u \in Tasks \ mixed, NEW i \in 1..Size
      PROVE  <<u, i>> \in Stored <=> <<u, i>> \in db
  <2>1. CASE link.top = NoTask
    <3>1. <<u, i>> \notin link.pending
      BY <1>t, <1>2, <2>1, PgAssumption DEF PendInv, WireInv, Waiting
    <3> QED BY <2>1, <3>1 DEF Stored
  <2>2. CASE link.top # NoTask
    BY <2>2 DEF Stored
  <2> QED BY <2>1, <2>2
<1> QED BY <1>1, <1>2

LEMMA StepUnits == ASSUME IInv, [Next]_vars PROVE [Units!Next]_(Units!vars)
<1> USE DEF Ended, Queued, Waiting, Running, PcSet
<1>t. /\ pc \in [Tasks -> PcSet] /\ TxInv /\ WritingInv /\ StoredInv /\ mixed \subseteq mixed'
      /\ Units!Mixing
  BY Parts, StepMixing DEF IInv, TInv, UInv, Units!Mixing
<1>s. \A t \in Tasks \ mixed' : pc[t] \notin {"ok", "unsure"} => RowsOf(t) \cap db = {}
  BY <1>t DEF StoredInv, RowsOf
\* A step that ends no unit and stores nothing.
<1>a. ASSUME NEW t \in Tasks, pc[t] \notin Ended, NEW s \in PcSet \ Ended,
             pc' = [pc EXCEPT ![t] = s], db' = db
      PROVE  Units!Next
  <2>1. \A u \in Tasks : Shown(u)' = Shown(u)
    BY <1>t, <1>a DEF Shown
  <2> QED BY <1>t, <1>a, <2>1, UnitsRest
\* A step of a unit that is mixed up.
<1>b. ASSUME NEW t \in Tasks, t \in mixed', NEW s \in PcSet, pc' = [pc EXCEPT ![t] = s],
             \A u \in Tasks \ mixed', i \in 1..Size : <<u, i>> \in db' <=> <<u, i>> \in db
      PROVE  Units!Next
  <2>1. \A u \in Tasks \ mixed' : Shown(u)' = Shown(u)
    BY <1>t, <1>b DEF Shown
  <2> QED BY <1>t, <1>b, <2>1, UnitsRest
\* A step in which a unit fails.
<1>c. ASSUME NEW t \in Tasks, pc[t] \notin Ended, pc' = [pc EXCEPT ![t] = "failed"], db' = db
      PROVE  Units!Next
  <2>1. CASE t \in mixed'
    BY <1>b, <1>c, <2>1
  <2>2. CASE t \notin mixed'
    BY <1>s, <1>t, <1>c, <2>2, UnitEnds
  <2> QED BY <2>1, <2>2
\* A step in which a unit is left in doubt.
<1>d. ASSUME NEW t \in Tasks, pc[t] = "committing", pc' = [pc EXCEPT ![t] = "unsure"],
             db' \in {db, Stored}, mixed' = mixed
      PROVE  Units!Next
  <2>1. CASE t \in mixed'
    <3>1. \A u \in Tasks \ mixed', i \in 1..Size : <<u, i>> \in db' <=> <<u, i>> \in db
      BY <1>d, <2>1, StoredByCommit
    <3> QED BY <1>b, <1>d, <2>1, <3>1
  <2>2. CASE t \notin mixed'
    <3>1. db' \in {db, db \cup RowsOf(t)}
      BY <1>d, <2>2, StoredByCommit
    <3> QED BY <1>s, <1>t, <1>d, <2>2, <3>1, UnitEnds
  <2> QED BY <2>1, <2>2
\* t's row goes to its transaction, or t is mixed up.
<1>l. ASSUME NEW t \in Tasks, pc[t] = "writing", Lands(t), mixed' = mixed
      PROVE  /\ t \notin mixed => db' = db
             /\ \A u \in Tasks \ mixed', i \in 1..Size : <<u, i>> \in db' <=> <<u, i>> \in db
  BY <1>t, <1>l DEF WritingInv, Lands
<1>1. ASSUME NEW t \in Tasks,
             \/ Execute(t) \/ Granted(t) \/ Timeout(t) \/ Statement(t) \/ Opened(t)
             \/ WriteFails(t) \/ Cleared(t) \/ Raise(t)
      PROVE  Units!Next
  <2>1. db' = db /\ pc[t] \notin Ended /\ \E s \in PcSet \ Ended : pc' = [pc EXCEPT ![t] = s]
    BY <1>1 DEF Execute, Granted, Timeout, Statement, Opened, WriteFails, Cleared, Raise,
       At, Goto, Rest, Take, TakeOver, Enqueue, Begin, Refused
  <2> QED BY <1>a, <2>1
<1>2. ASSUME NEW t \in Tasks, Written(t) PROVE Units!Next
  <2>1. pc[t] = "writing" /\ pc' = [pc EXCEPT ![t] = "between"] /\ Lands(t) /\ mixed' = mixed
    BY <1>2 DEF Written, At, Goto, Calm
  <2>2. CASE t \in mixed
    BY <1>b, <1>l, <2>1, <2>2
  <2>3. CASE t \notin mixed
    BY <1>a, <1>l, <2>1, <2>3
  <2> QED BY <2>2, <2>3
<1>3. ASSUME NEW t \in Tasks, Commit(t) PROVE Units!Next
  <2>1. /\ db' = db /\ pc[t] = "between" /\ done[t] = Size
        /\ \E s \in {"ok", "committing", "raised"} : pc' = [pc EXCEPT ![t] = s]
    BY <1>3 DEF Commit, At, Goto, Rest
  <2>2. CASE pc' = [pc EXCEPT ![t] = "ok"]
    <3>1. conn.tx = NoTask \/ pc' # [pc EXCEPT ![t] = "ok"]
      BY <1>t, <1>3, <2>1 DEF Commit, Goto
    <3>2. t \in mixed'
      BY <1>t, <2>1, <2>2, <3>1, PgAssumption DEF TxInv
    <3> QED BY <1>b, <2>1, <2>2, <3>2
  <2>3. CASE pc' # [pc EXCEPT ![t] = "ok"]
    BY <1>a, <2>1, <2>3
  <2> QED BY <2>2, <2>3
<1>4. ASSUME NEW t \in Tasks, Rollback(t) \/ RolledBack(t) \/ Leave(t) PROVE Units!Next
  <2>1. /\ db' = db /\ pc[t] \notin Ended
        /\ \E s \in {"rolling", "raised", "failed"} : pc' = [pc EXCEPT ![t] = s]
    BY <1>4 DEF Rollback, RolledBack, Leave, At, Goto, Rest, Refused
  <2> QED BY <1>a, <1>c, <2>1
<1>5. ASSUME NEW t \in Tasks, Committed(t) PROVE Units!Next
  <2>1. pc[t] = "committing" /\ pc' = [pc EXCEPT ![t] = "ok"] /\ db' = Stored /\ mixed' = mixed
    BY <1>5 DEF Committed, At, Goto, Calm
  <2>2. CASE t \in mixed'
    <3>1. \A u \in Tasks \ mixed', i \in 1..Size : <<u, i>> \in db' <=> <<u, i>> \in db
      BY <2>1, <2>2, StoredByCommit
    <3> QED BY <1>b, <2>1, <2>2, <3>1
  <2>3. CASE t \notin mixed'
    <3>1. db' = db \cup RowsOf(t)
      BY <2>1, <2>3, StoredByCommit
    <3> QED BY <1>s, <1>t, <2>1, <2>3, <3>1, UnitEnds
  <2> QED BY <2>2, <2>3
<1>6. ASSUME NEW t \in Tasks, Cut(t) PROVE Units!Next
  <2>1. CASE pc[t] = "committing"
    <3>1. pc' = [pc EXCEPT ![t] = "unsure"] /\ db' \in {db, Stored} /\ mixed' = mixed
      BY <1>6, <2>1 DEF Cut, Goto
    <3> QED BY <1>d, <2>1, <3>1
  <2>2. CASE pc[t] # "committing"
    <3>1. /\ db' = db /\ pc[t] \notin Ended
          /\ \E s \in {"inside", "raised", "failed"} : pc' = [pc EXCEPT ![t] = s]
      BY <1>6, <2>2 DEF Cut, At, Goto, Refused
    <3> QED BY <1>a, <1>c, <3>1
  <2> QED BY <2>1, <2>2
<1>7. ASSUME NEW t \in Tasks, Cancel(t) PROVE Units!Next
  <2>0. mixed' = mixed
    BY <1>7 DEF Cancel
  <2>1. CASE pc[t] = "committing"
    <3>1. pc' = [pc EXCEPT ![t] = "unsure"] /\ db' \in {db, Stored}
      BY <1>7, <2>1 DEF Cancel, At, Goto
    <3> QED BY <1>d, <2>0, <2>1, <3>1
  <2>2. CASE pc[t] = "writing"
    <3>1. pc' = [pc EXCEPT ![t] = "failed"] /\ (Lands(t) \/ db' = db)
      BY <1>7, <2>2 DEF Cancel, At, Goto
    <3>2. CASE db' = db
      BY <1>c, <2>2, <3>1, <3>2
    <3>3. CASE Lands(t) /\ t \in mixed
      BY <1>b, <1>l, <2>0, <2>2, <3>1, <3>3
    <3>4. CASE Lands(t) /\ t \notin mixed
      BY <1>c, <1>l, <2>0, <2>2, <3>1, <3>4
    <3> QED BY <3>1, <3>2, <3>3, <3>4
  <2>3. CASE pc[t] \notin {"committing", "writing"}
    <3>1. db' = db /\ pc[t] \notin Ended /\ pc' = [pc EXCEPT ![t] = "failed"]
      BY <1>7, <2>3 DEF Cancel, At, Goto
    <3> QED BY <1>c, <3>1
  <2> QED BY <2>1, <2>2, <2>3
<1>8. ASSUME Close \/ Drop \/ Seal \/ Rebuilt PROVE Units!Next
  <2>1. db' = db /\ pc' = pc
    BY <1>8 DEF Close, Drop, Seal, Rebuilt, Break
  <2> QED BY <1>t, <2>1, UnitsRest DEF Shown
<1>9. ASSUME UNCHANGED vars PROVE Units!Next
  <2>1. db' = db /\ pc' = pc
    BY <1>9 DEF vars
  <2> QED BY <1>t, <2>1, UnitsRest DEF Shown
<1> QED BY <1>1, <1>2, <1>3, <1>4, <1>5, <1>6, <1>7, <1>8, <1>9 DEF Next, Progress, Answer

\* Whatever happens, the unit of a task that was not mixed up with another one is atomic:
\* reported as committed it is stored with all its statements, reported as failed with
\* none, and a unit that was reported as committed is never mixed up afterwards.
THEOREM Atomicity == Spec => UnitsAreAtomic
<1>1. Init => Units!Init
  BY DEF Init, Units!Init, Units!Nothing, Shown, Ended
<1>2. IInv /\ [Next]_vars => [Units!Next]_(Units!vars)
  BY StepUnits
<1> QED BY <1>1, <1>2, AlwaysIInv, PTL DEF Spec, UnitsAreAtomic, Units!Spec
=============================================================================
