---------------------------- MODULE PgConnection ----------------------------
(***************************************************************************)
(* PgConnection: the one database connection that every request and every  *)
(* background loop of the process shares.  A task writes the statements of *)
(* one unit of work through it and commits; the connection opens a         *)
(* transaction at the first write and keeps a lock, re-entrant per task,   *)
(* until the transaction ends.  Tasks switch only where the code awaits:   *)
(* in the queue for the lock, while a request is on the wire and between   *)
(* two statements.  Statements fail, tasks raise between two of them, are  *)
(* cancelled at an await or end without a rollback, and the connection is  *)
(* closed and rebuilt under them.  asyncpg and the server are modelled     *)
(* from how they are used.                                                 *)
(***************************************************************************)
EXTENDS Naturals, FiniteSets

CONSTANTS
  Tasks,       \* tasks of the event loop, each with one unit of work
  NoTask,
  Size,        \* statements of a unit
  Clumsy,      \* tasks that may be cancelled, or end without a rollback
  MaxBreaks    \* bound: closings, losses and rebuildings of the connection

ASSUME PgAssumption == /\ NoTask \notin Tasks
                       /\ Size \in Nat \ {0}
                       /\ Clumsy \subseteq Tasks
                       /\ MaxBreaks \in Nat

VARIABLES
  pc,          \* where each task is, or how its unit ended
  done,        \* statements of its unit a task has executed
  conn,        \* PgConnection and its _TaskGuard
  link,        \* asyncpg's connection and the server's session
  db,          \* statements that are committed
  breaks,
  mixed,       \* history: units that shared a transaction, that lost theirs to another
               \* task, or that were nested in one which nobody ends
  troubles     \* history: the circumstances, below, that have arisen

vars == <<pc, done, conn, link, db, breaks, mixed, troubles>>

\* "blind":     a task has rolled back the transaction of another;
\* "crowded":   a task met the lock of an ended task while others queued for it;
\* "opening":   the connection was closed or rebuilt while a BEGIN was in flight;
\* "cancelled": a task was cancelled while its BEGIN, COMMIT or ROLLBACK was in flight.
Troubles == {"blind", "crowded", "opening", "cancelled"}

Rows == Tasks \X (1..Size)
Somebody == Tasks \cup {NoTask}

\* owner, depth: of the _TaskGuard; held: _tx_guard_held; tx: the task whose _tx is open;
\* begun: its BEGIN has succeeded; lost: _tx_lost; raw: _raw is usable, closed, or None.
Conn == [owner : Somebody, depth : Nat, held : BOOLEAN, tx : Somebody, begun : BOOLEAN,
         lost : BOOLEAN, raw : {"up", "closed", "none"}]

\* wire: the task whose request is in flight; open: the session is in a transaction;
\* top: whose unit asyncpg has as its outermost transaction.
Link == [wire : Somebody, open : BOOLEAN, top : Somebody, pending : SUBSET Rows]

Ended == {"ok", "failed", "unsure"}
\* In the queue for the lock; the last two wait there without a time limit.
Queued == {"queued", "thief", "patient"}
Waiting == {"opening", "writing", "discarding", "clearing", "committing", "rolling"}

\* A task that runs on without an await: nobody else moves.
Running == {"inside", "raised"}

TypeOK ==
  /\ pc \in [Tasks -> Ended \cup Queued \cup Waiting \cup Running \cup {"idle", "between"}]
  /\ done \in [Tasks -> 0..Size]
  /\ conn \in Conn /\ link \in Link
  /\ db \subseteq Rows
  /\ breaks \in 0..MaxBreaks
  /\ mixed \subseteq Tasks /\ troubles \subseteq Troubles

Init ==
  /\ pc = [t \in Tasks |-> "idle"]
  /\ done = [t \in Tasks |-> 0]
  /\ conn = [owner |-> NoTask, depth |-> 0, held |-> FALSE, tx |-> NoTask, begun |-> FALSE,
             lost |-> FALSE, raw |-> "up"]
  /\ link = [wire |-> NoTask, open |-> FALSE, top |-> NoTask, pending |-> {}]
  /\ db = {} /\ breaks = 0
  /\ mixed = {} /\ troubles = {}

Goto(t, step) == pc' = [pc EXCEPT ![t] = step]
At(t, steps) == pc[t] \in steps /\ \A u \in Tasks : pc[u] \in Running => u = t
Rest == UNCHANGED <<done, db, breaks>>

RowsOf(t) == {t} \X (1..Size)
Queue == {u \in Tasks : pc[u] \in Queued}
Gone(u) == u \in Tasks /\ pc[u] \in Ended
AtWork(u) == u \in Tasks /\ pc[u] \notin Ended

Calm == UNCHANGED <<mixed, troubles>>

\* The transaction on the connection ends, at the hand of its task t or of nobody's.
Ends(t) == mixed' = mixed \cup {u \in {conn.tx} \ {t} : AtWork(u)}

-----------------------------------------------------------------------------
(* The lock.                                                               *)

\* _TaskGuard.release, whoever calls it: also the end of guard() around t's statement.
Exit(c) == CASE c.depth = 0 -> c
             [] c.depth = 1 -> [c EXCEPT !.depth = 0, !.owner = NoTask]
             [] OTHER       -> [c EXCEPT !.depth = @ - 1]

\* _release_tx_guard
ReturnTx(c) == IF c.held THEN Exit([c EXCEPT !.held = FALSE]) ELSE c

Unset(c) == [c EXCEPT !.tx = NoTask, !.begun = FALSE]
NoTx(c) == [Unset(c) EXCEPT !.lost = FALSE]

\* The transaction was begun on this connection, and the wire is free but for t's own
\* request that has just been answered.
CanAsk(t) == conn.raw = "up" /\ conn.begun /\ link.open /\ link.wire \in {t, NoTask}

\* asyncpg sends ROLLBACK, or ROLLBACK TO when the unit is a savepoint.
SendRollback(t) ==
  link' = [link EXCEPT
             !.wire = t,
             !.top = IF @ = conn.tx THEN NoTask ELSE @,
             !.pending = IF link.top = conn.tx THEN {} ELSE @ \ RowsOf(conn.tx)]

\* asyncpg refuses the request; it forgets a transaction that had begun, and that only.
Forget == [link EXCEPT !.top = IF @ = conn.tx /\ conn.raw = "up" /\ conn.begun
                               THEN NoTask ELSE @]

\* _discard_stale_transaction, by the task that has just taken the lock.
TakeOver(t) ==
  /\ conn' = [(IF conn.tx = NoTask THEN conn ELSE [NoTx(conn) EXCEPT !.held = FALSE])
                EXCEPT !.owner = t, !.depth = 1]
  /\ IF conn.tx # NoTask /\ CanAsk(NoTask)
       THEN SendRollback(t) /\ Goto(t, "clearing")
       ELSE /\ link' = IF conn.tx = NoTask THEN link ELSE Forget
            /\ Goto(t, "inside")
  /\ Ends(NoTask)

Take(t) == /\ conn' = [conn EXCEPT !.owner = t, !.depth = @ + 1]
           /\ Goto(t, "inside") /\ UNCHANGED <<link, mixed>>

Enqueue(t, how) == Goto(t, how) /\ UNCHANGED <<link, mixed>>

\* _TaskGuard.acquire at the head of a statement.
Execute(t) ==
  /\ At(t, {"idle", "between"}) /\ done[t] < Size
  /\ \/ conn.owner = t /\ Take(t) /\ UNCHANGED troubles
     \/ conn.owner = NoTask /\ Queue = {} /\ Take(t) /\ UNCHANGED troubles
     \/ Gone(conn.owner) /\ Queue = {} /\ TakeOver(t) /\ UNCHANGED troubles
     \/ /\ Gone(conn.owner) /\ Queue # {}
        /\ conn' = [conn EXCEPT !.owner = NoTask, !.depth = 0]   \* wakes the first of the queue
        /\ troubles' = troubles \cup {"crowded"}
        /\ Enqueue(t, "thief")
     \/ /\ AtWork(conn.owner) /\ conn.owner # t
        /\ Enqueue(t, "queued") /\ UNCHANGED <<conn, troubles>>
     \/ /\ conn.owner = NoTask /\ Queue # {}         \* free, but promised to the first
        /\ Enqueue(t, "patient") /\ UNCHANGED <<conn, troubles>>
  /\ Rest

Granted(t) ==
  /\ At(t, Queued) /\ conn.owner = NoTask
  /\ IF pc[t] = "thief" THEN TakeOver(t) ELSE Take(t)
  /\ UNCHANGED troubles /\ Rest

\* Fault: the time limit of the queue ends in an error that no unit expects.
TimeoutUnheard(t) ==
  /\ At(t, {"queued"}) /\ conn.owner # NoTask
  /\ Goto(t, "busy") /\ UNCHANGED <<conn, link>> /\ Rest /\ Calm

\* Fault: the queue has no time limit.
TimeoutNever(t) == FALSE

\* DatabaseBusy: the queue has a time limit, where the lock was not free for a moment.
Timeout(t) ==
  /\ At(t, {"queued"}) /\ conn.owner # NoTask
  /\ Goto(t, "raised") /\ UNCHANGED <<conn, link>> /\ Rest /\ Calm

-----------------------------------------------------------------------------
(* A statement, inside the guard.                                          *)

Refused(t, c) == conn' = Exit(c) /\ Goto(t, "raised")

\* Fault: the transaction does not keep the lock between two statements.
BeginUnheld(t) ==
  /\ IF link.wire = NoTask
       THEN /\ conn' = [conn EXCEPT !.tx = t]
            /\ link' = [link EXCEPT !.wire = t, !.top = IF @ = NoTask THEN t ELSE @]
            /\ Goto(t, "opening")
       ELSE Refused(t, conn) /\ UNCHANGED link
  /\ UNCHANGED mixed

\* ensure_transaction found no transaction: Transaction.start(), as a savepoint if
\* asyncpg knows of an outer transaction.
Begin(t) ==
  LET fresh == link.top = NoTask /\ ~link.open
      nested == link.top # NoTask /\ link.open
  IN IF link.wire = NoTask /\ (fresh \/ nested)
       THEN /\ conn' = [conn EXCEPT !.tx = t, !.begun = FALSE, !.held = TRUE, !.depth = @ + 1]
            /\ link' = [link EXCEPT !.wire = t, !.top = IF fresh THEN t ELSE @]
            /\ mixed' = IF nested THEN mixed \cup {t} ELSE mixed
            /\ Goto(t, "opening")
       ELSE /\ Refused(t, [conn EXCEPT !.held = FALSE])
            /\ link' = [link EXCEPT !.top = IF fresh THEN t ELSE @]
            /\ UNCHANGED mixed

\* PgCursor.execute of a write, up to the request.
Statement(t) ==
  /\ At(t, {"inside"})
  /\ \/ /\ conn.raw # "up" \/ (conn.tx # NoTask /\ (conn.lost \/ link.wire # NoTask))
        /\ Refused(t, conn) /\ UNCHANGED <<link, mixed>>
     \/ /\ conn.raw = "up" /\ conn.tx = NoTask
        /\ Begin(t)
     \/ /\ conn.raw = "up" /\ conn.tx # NoTask /\ ~conn.lost /\ link.wire = NoTask
        /\ link' = [link EXCEPT !.wire = t]
        /\ mixed' = IF conn.tx = t THEN mixed ELSE mixed \cup {t, conn.tx}
        /\ Goto(t, "writing") /\ UNCHANGED conn
  /\ UNCHANGED troubles /\ Rest

\* BEGIN succeeded; the statement goes to the connection the cursor has read before.
Opened(t) ==
  /\ At(t, {"opening"})
  /\ LET begun == [conn EXCEPT !.begun = conn.tx = t]
     IN IF conn.raw = "up"
          THEN /\ link' = [link EXCEPT !.open = TRUE]
               /\ conn' = begun
               /\ Goto(t, "writing")
          ELSE /\ link' = [link EXCEPT !.open = TRUE, !.wire = NoTask]
               /\ Refused(t, begun)
  /\ Rest /\ Calm

\* t's row is written, and stored at once on a session that is in no transaction.
Lands(t) ==
  LET row == {<<t, done[t] + 1>>}
  IN /\ link' = [link EXCEPT !.wire = NoTask,
                            !.pending = IF link.open THEN @ \cup row ELSE @]
     /\ db' = IF link.open THEN db ELSE db \cup row

Written(t) ==
  /\ At(t, {"writing"})
  /\ done' = [done EXCEPT ![t] = @ + 1]
  /\ Lands(t)
  /\ conn' = Exit(conn)
  /\ Goto(t, "between") /\ UNCHANGED breaks /\ Calm

\* The server refuses the statement: discard_aborted_transaction, that is rollback().
WriteFails(t) ==
  /\ At(t, {"writing"}) /\ conn.raw = "up"
  /\ IF conn.tx # NoTask /\ ~conn.lost /\ CanAsk(t)
       THEN /\ SendRollback(t)
            /\ conn' = NoTx(conn)
            /\ Goto(t, "discarding")
       ELSE /\ link' = [link EXCEPT !.wire = NoTask]
            /\ Refused(t, IF conn.tx = NoTask THEN conn ELSE ReturnTx(NoTx(conn)))
  /\ Ends(t) /\ UNCHANGED troubles /\ Rest

-----------------------------------------------------------------------------
(* The end of a unit.                                                      *)

\* asyncpg sends COMMIT, or RELEASE SAVEPOINT when the unit is not the outermost.
Commit(t) ==
  /\ At(t, {"between"}) /\ done[t] = Size
  /\ \/ /\ conn.tx = NoTask
        /\ Goto(t, "ok") /\ UNCHANGED <<conn, link>>
     \/ /\ conn.tx # NoTask /\ conn.lost
        /\ conn' = ReturnTx(NoTx(conn))
        /\ Goto(t, "raised") /\ UNCHANGED link
     \/ /\ conn.tx # NoTask /\ ~conn.lost /\ CanAsk(NoTask)
        /\ link' = [link EXCEPT !.wire = t, !.top = IF @ = conn.tx THEN NoTask ELSE @]
        /\ conn' = NoTx(conn)
        /\ Goto(t, "committing")
     \/ /\ conn.tx # NoTask /\ ~conn.lost /\ ~CanAsk(NoTask)
        /\ link' = Forget
        /\ conn' = ReturnTx(NoTx(conn))
        /\ Goto(t, "raised")
  /\ mixed' = IF conn.tx \in {t, NoTask} THEN mixed ELSE mixed \cup {t, conn.tx}
  /\ UNCHANGED troubles /\ Rest

\* What the server stores for the request of a committing task.
Stored == IF link.top = NoTask THEN db \cup link.pending ELSE db

\* The answer to a COMMIT or ROLLBACK has come: the session is idle unless nested.
Answered == [link EXCEPT !.wire = NoTask, !.open = link.top # NoTask,
                         !.pending = IF link.top = NoTask THEN {} ELSE @]

Committed(t) ==
  /\ At(t, {"committing"})
  /\ db' = Stored /\ link' = Answered
  /\ conn' = ReturnTx(conn)
  /\ Goto(t, "ok") /\ UNCHANGED <<done, breaks>> /\ Calm

\* An exception of the unit itself, between two statements or before the first.
Raise(t) ==
  /\ At(t, {"idle", "between"})
  /\ Goto(t, "raised") /\ UNCHANGED <<conn, link>> /\ Rest /\ Calm

\* The handler of a failed unit calls rollback(), whoever the transaction belongs to.
Rollback(t) ==
  /\ At(t, {"raised"})
  /\ \/ /\ conn.tx = NoTask
        /\ Goto(t, "failed") /\ UNCHANGED <<conn, link>>
     \/ /\ conn.tx # NoTask /\ ~conn.lost /\ CanAsk(NoTask)
        /\ SendRollback(t)
        /\ conn' = NoTx(conn)
        /\ Goto(t, "rolling")
     \/ /\ conn.tx # NoTask /\ (conn.lost \/ ~CanAsk(NoTask))
        /\ link' = IF conn.lost THEN link ELSE Forget
        /\ conn' = ReturnTx(NoTx(conn))
        /\ Goto(t, "failed")
  /\ Ends(t)
  /\ troubles' = IF conn.tx \notin {t, NoTask} THEN troubles \cup {"blind"} ELSE troubles
  /\ Rest

RolledBack(t) ==
  /\ At(t, {"rolling", "discarding"})
  /\ link' = Answered
  /\ IF pc[t] = "rolling" THEN conn' = ReturnTx(conn) /\ Goto(t, "failed")
                          ELSE Refused(t, ReturnTx(conn))
  /\ Rest /\ Calm

Cleared(t) ==
  /\ At(t, {"clearing"})
  /\ link' = Answered
  /\ Goto(t, "inside") /\ UNCHANGED conn /\ Rest /\ Calm

\* The unit ends with its exception and no rollback.
Leave(t) ==
  /\ At(t, {"raised"}) /\ (conn.owner # t \/ t \in Clumsy)
  /\ Goto(t, "failed") /\ UNCHANGED <<conn, link>> /\ Rest /\ Calm

-----------------------------------------------------------------------------
(* A task is cancelled at an await.  No handler runs, since they all catch   *)
(* Exception only; asyncpg calls the request off and lets nobody else use    *)
(* the wire before it has ended, one way or the other.                       *)

\* The COMMIT or ROLLBACK took effect, or its transaction is left aborted.
CalledOff == {Answered, [Answered EXCEPT !.open = TRUE]}

Cancel(t) ==
  /\ t \in Clumsy
  /\ \/ /\ At(t, Queued)
        /\ Goto(t, "failed") /\ UNCHANGED <<conn, link, db, troubles>>
     \/ /\ At(t, {"opening"})
        /\ link' \in {[link EXCEPT !.wire = NoTask, !.open = o] : o \in {link.open, TRUE}}
        /\ conn' = Exit(conn)
        /\ Goto(t, "failed") /\ UNCHANGED db
        /\ troubles' = troubles \cup {"cancelled"}
     \/ /\ At(t, {"writing"})
        /\ Lands(t) \/ (link' = [link EXCEPT !.wire = NoTask] /\ UNCHANGED db)
        /\ conn' = Exit(conn)
        /\ Goto(t, "failed") /\ UNCHANGED troubles
     \/ /\ At(t, {"committing"})
        /\ \/ link' = Answered /\ db' \in {db, Stored}
           \/ link' \in CalledOff /\ UNCHANGED db
        /\ conn' = ReturnTx(conn)
        /\ Goto(t, "unsure")
        /\ troubles' = troubles \cup {"cancelled"}
     \/ /\ At(t, {"rolling", "discarding", "clearing"})
        /\ link' \in CalledOff
        /\ conn' = CASE pc[t] = "rolling"    -> ReturnTx(conn)
                     [] pc[t] = "discarding" -> Exit(ReturnTx(conn))
                     [] pc[t] = "clearing"   -> conn        \* not yet in guard()'s try
        /\ Goto(t, "failed") /\ UNCHANGED db
        /\ troubles' = troubles \cup {"cancelled"}
  /\ UNCHANGED <<done, breaks, mixed>>

-----------------------------------------------------------------------------
(* The connection goes away and comes back.                                *)

Break == /\ \A u \in Tasks : pc[u] \notin Running
         /\ breaks < MaxBreaks
         /\ breaks' = breaks + 1 /\ UNCHANGED <<pc, done, link, db>>

NoteOpening == troubles' = IF \E u \in Tasks : pc[u] = "opening"
                           THEN troubles \cup {"opening"} ELSE troubles

\* DatabaseConnection.close; a live writer's transaction is only marked.
Close ==
  /\ conn.raw = "up" /\ Break
  /\ IF AtWork(conn.owner)
       THEN /\ conn' = [conn EXCEPT !.raw = "closed", !.lost = @ \/ conn.tx # NoTask]
            /\ UNCHANGED mixed
       ELSE /\ conn' = [(IF conn.tx = NoTask THEN conn ELSE [NoTx(conn) EXCEPT !.held = FALSE])
                          EXCEPT !.raw = "closed", !.owner = NoTask, !.depth = 0]
            /\ Ends(NoTask)
  /\ NoteOpening

\* The server ends the session, or the network does.
Drop == /\ conn.raw = "up" /\ Break
        /\ conn' = [conn EXCEPT !.raw = "closed"]
        /\ Calm

\* Fault: the writer is not told that its transaction is gone.
SealSilently ==
  /\ conn.raw # "none" /\ Break
  /\ conn' = [Unset(conn) EXCEPT !.raw = "none", !.held = FALSE]
  /\ NoteOpening /\ UNCHANGED mixed

\* _reconnect_raw up to old.close().
Seal ==
  /\ conn.raw # "none" /\ Break
  /\ conn' = [conn EXCEPT !.raw = "none", !.lost = @ \/ conn.tx # NoTask]
  /\ NoteOpening /\ UNCHANGED mixed

\* _reconnect_raw: the requests of the old connection have ended, the new one is up.
Rebuilt ==
  /\ conn.raw = "none" /\ link.wire = NoTask
  /\ \A u \in Tasks : pc[u] \notin Running
  /\ conn' = [conn EXCEPT !.raw = "up"]
  /\ link' = [wire |-> NoTask, open |-> FALSE, top |-> NoTask, pending |-> {}]
  /\ UNCHANGED <<pc, done, db, breaks>> /\ Calm

\* A request on a connection that is closing ends with an exception.
Cut(t) ==
  /\ conn.raw # "up" /\ At(t, Waiting)
  /\ link' = [link EXCEPT !.wire = NoTask]
  /\ \/ /\ pc[t] = "opening"                           \* start() raises
        /\ Refused(t, ReturnTx(Unset(conn))) /\ Ends(t)
        /\ UNCHANGED db
     \/ /\ pc[t] = "writing"                           \* InterfaceError
        /\ Refused(t, conn) /\ UNCHANGED <<db, mixed>>
     \/ /\ pc[t] = "writing" /\ conn.tx # NoTask       \* PostgresError: discarded
        /\ Refused(t, ReturnTx(NoTx(conn))) /\ Ends(t)
        /\ UNCHANGED db
     \/ /\ pc[t] = "clearing"
        /\ Goto(t, "inside") /\ UNCHANGED <<conn, db, mixed>>
     \/ /\ pc[t] = "rolling"
        /\ conn' = ReturnTx(conn)
        /\ Goto(t, "failed") /\ UNCHANGED <<db, mixed>>
     \/ /\ pc[t] = "discarding"
        /\ Refused(t, ReturnTx(conn)) /\ UNCHANGED <<db, mixed>>
     \/ /\ pc[t] = "committing"
        /\ db' \in {db, Stored}
        /\ conn' = ReturnTx(conn)
        /\ Goto(t, "unsure") /\ UNCHANGED mixed
  /\ UNCHANGED <<done, breaks, troubles>>

-----------------------------------------------------------------------------
Answer(t) == \/ Opened(t) \/ Written(t) \/ WriteFails(t) \/ Committed(t)
             \/ RolledBack(t) \/ Cleared(t) \/ Cut(t)

Progress(t) == \/ Execute(t) \/ Granted(t) \/ Timeout(t) \/ Statement(t) \/ Answer(t)
               \/ Commit(t) \/ Rollback(t) \/ Leave(t)

Next == \/ Close \/ Drop \/ Seal \/ Rebuilt
        \/ \E t \in Tasks : Progress(t) \/ Raise(t) \/ Cancel(t)

Spec == Init /\ [][Next]_vars

\* The event loop runs every task that can run, and a request is answered or cut.
FairSpec == Spec /\ \A t \in Tasks : WF_vars(Progress(t))

-----------------------------------------------------------------------------
\* What is written and not yet committed is the work of one task, the one that has
\* the lock or has ended with it (PgConnection.ensure_transaction: the statements of
\* other tasks must not fall into somebody's transaction).
OwnRowsOnly == conn.raw = "up" => \A r \in link.pending : r[1] = conn.owner

\* A task that has ended has the lock only if it left without a rollback, and a lock
\* that no statement holds is held for a transaction (_release_tx_guard).
GuardReturned ==
  /\ Gone(conn.owner) => conn.owner \in Clumsy
  /\ conn.owner \in Tasks /\ pc[conn.owner] \in {"between"} \cup Ended => conn.tx = conn.owner

\* Without a transaction and without a request in flight, the session is outside any
\* transaction: rollback() can end a unit however it was interrupted.
SessionLeftIdle ==
  conn.raw = "up" /\ conn.tx = NoTask /\ link.wire = NoTask => ~link.open

\* Tasks share the one connection without harm until one of the four circumstances has
\* arisen: no unit is mixed up with another, what is open belongs to the task that has the
\* lock, the lock comes back when a unit ends, and no transaction stays open on the session
\* that the connection no longer knows of.  Breaks, timeouts, failed statements, units that
\* end without a rollback and tasks cancelled in the queue or while they write do no harm.
SharedSafely ==
  troubles = {} => mixed = {} /\ OwnRowsOnly /\ GuardReturned /\ SessionLeftIdle

\* Whatever circumstances arise, the units are atomic and are reported as they ended, but
\* for those that were mixed up; and one reported as committed is not mixed up afterwards.
Shown(t) == IF pc[t] \in Ended THEN pc[t] ELSE "none"
Units == INSTANCE AtomicUnits WITH
           stored <- [t \in Tasks |-> {i \in 1..Size : <<t, i>> \in db}],
           report <- [t \in Tasks |-> Shown(t)]
UnitsAreAtomic == Units!Spec

\* Every unit ends, whatever another task left behind on the connection: by itself, or at
\* the time limit of the queue.  Only a task that met the lock in the moment in which it
\* was free has no such limit, and may wait for ever behind one that has ended with it.
Stranded(t) == pc[t] \in {"thief", "patient"} /\ Gone(conn.owner)
EveryUnitEnds == \A t \in Tasks : <>(pc[t] \in Ended) \/ <>[]Stranded(t)

\* A unit whose commit() returned is stored with all its statements, as
\* PgConnection says of "three statements of which only the last is stored".
OkIsStored == \A t \in Tasks : pc[t] = "ok" => RowsOf(t) \subseteq db

\* No statement of a failed unit is stored: _discard_stale_transaction removes what
\* an ended task left, so that nobody writes into its transaction.
FailedIsGone == \A t \in Tasks : pc[t] = "failed" => RowsOf(t) \cap db = {}
=============================================================================
