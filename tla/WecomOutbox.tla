----------------------------- MODULE WecomOutbox -----------------------------
(***************************************************************************)
(* The unified outbox for WeCom messages: table wecom_push_outbox, the     *)
(* business callers that enqueue deliveries, and the one scheduler loop    *)
(* that reclaims, dispatches and purges them every thirty seconds.  All    *)
(* are coroutines of one process: each await is a point where the others   *)
(* run, and each database call is a step of its own.                       *)
(*                                                                         *)
(* Time is abstract: `due' and `stale' say that a back-off or the sending  *)
(* timeout of a row has passed, `used' counts the messages of a channel    *)
(* within the last minute.                                                 *)
(***************************************************************************)
EXTENDS Naturals, FiniteSets

CONSTANTS
  Keys,        \* idempotency keys: topic, business reference and channel
  Channels,
  ChannelOf,   \* the channel of a key
  Scheduled,   \* the keys of deliveries that come from a push job
  Callers,     \* coroutines that enqueue deliveries
  Limit,       \* WECOM_OUTBOX_RATE_LIMIT_PER_MINUTE
  Races,       \* TRUE: channels change while deliveries are being handled
  MaxMishaps   \* bound: restarts, failed database writes and lost answers, together

ASSUME OutboxAssumption ==
  /\ ChannelOf \in [Keys -> Channels]
  /\ Scheduled \subseteq Keys
  /\ Limit \in Nat \ {0}
  /\ Races \in BOOLEAN
  /\ MaxMishaps \in Nat

VARIABLES
  row,        \* wecom_push_outbox, by idempotency key
  channel,    \* "on", "off" or "gone"
  caller,     \* the coroutines in enqueue_topic
  loop,       \* the scheduler loop: its place, its batch and the row in hand
  used,       \* _recent_sends: messages of a channel within the window
  crashes,    \* restarts of the process
  faults,     \* database writes that failed
  lost,       \* messages that arrived although their answer was lost
  posts,      \* history: messages sent to the channel
  copies      \* history: those that arrived

trouble == <<crashes, faults, lost>>
Mishaps == crashes + faults + lost
history == <<posts, copies>>
vars == <<row, channel, caller, loop, used, crashes, faults, lost, posts, copies>>

Open == {"pending", "sending"}
Finished == {"sent", "failed", "skipped"}
Row == [status : Open \cup Finished \cup {"none", "purged"},
        attempts : Nat,
        due : BOOLEAN,       \* scheduled_at is empty or has passed
        stale : BOOLEAN]     \* in "sending" for longer than the timeout

\* SCHEDULED_MAX_ATTEMPTS and EVENT_MAX_ATTEMPTS
MaxAttempts(k) == IF k \in Scheduled THEN 2 ELSE 4

Fresh == [status |-> "pending", attempts |-> 0, due |-> TRUE, stale |-> FALSE]

\* A row as a query found it.
Snapshot == [key : Keys, attempts : Nat]

\* The places of the loop: between two rows, and with a row in hand.
AtRest == {"requeue", "reclaim", "rows"}
AtRow == {"fail", "skip", "mark", "post", "sent", "settle"}

Round == [pc |-> "requeue", batch |-> {}, hand |-> {}]
Resting == [pc |-> "idle", key |-> {}, off |-> FALSE]

Init ==
  /\ row = [k \in Keys |-> [Fresh EXCEPT !.status = "none"]]
  /\ channel \in [Channels -> {"on", "off"}]
  /\ caller = [c \in Callers |-> Resting]
  /\ loop = Round
  /\ used = [c \in Channels |-> 0]
  /\ crashes = 0 /\ faults = 0 /\ lost = 0
  /\ posts = [k \in Keys |-> 0] /\ copies = [k \in Keys |-> 0]

\* A write of row k that succeeds, or fails and is only logged.
Write(k, new) ==
  \/ row' = [row EXCEPT ![k] = new] /\ faults' = faults
  \/ row' = row /\ Mishaps < MaxMishaps /\ faults' = faults + 1

-----------------------------------------------------------------------------
(* enqueue_topic, for one target.  `caller.key' and `loop.hand' hold the row *)
(* in hand, as a set of one at most.                                         *)

CallAt(c, pc) == caller[c].pc = pc

\* resolve_targets: a channel that is off is still a target, one that is gone is not.
\* Bound: a business reference is not used again after its row was purged.
Resolve(c, k) ==
  /\ CallAt(c, "idle")
  /\ row[k].status # "purged" /\ channel[ChannelOf[k]] # "gone"
  /\ caller' = [caller EXCEPT ![c] =
                  [pc |-> "insert", key |-> {k}, off |-> channel[ChannelOf[k]] = "off"]]
  /\ UNCHANGED <<row, channel, loop, used, trouble, history>>

\* INSERT ... ON CONFLICT DO NOTHING.  A caller whose row belongs to its own
\* transaction (commit=False) leaves the skip to the dispatcher.
Insert(c) ==
  /\ CallAt(c, "insert")
  /\ \E k \in caller[c].key :
       \/ row[k].status = "none" /\ Write(k, Fresh)
       \/ row[k].status # "none" /\ UNCHANGED <<row, faults>>
  /\ \E commit \in BOOLEAN :
       caller' = [caller EXCEPT ![c] =
                    IF caller[c].off /\ commit /\ faults' = faults
                      THEN [caller[c] EXCEPT !.pc = "look"] ELSE Resting]
  /\ UNCHANGED <<channel, loop, used, crashes, lost, history>>

\* _skip_if_untouched: read ...
Look(c) ==
  /\ CallAt(c, "look")
  /\ caller' = [caller EXCEPT ![c] =
                  IF \A k \in caller[c].key : row[k].status = "pending" /\ row[k].attempts = 0
                    THEN [caller[c] EXCEPT !.pc = "skip"] ELSE Resting]
  /\ UNCHANGED <<row, channel, loop, used, trouble, history>>

\* ... and write, whatever the row has become.
Skip(c) ==
  /\ CallAt(c, "skip")
  /\ \E k \in caller[c].key : Write(k, [row[k] EXCEPT !.status = "skipped"])
  /\ caller' = [caller EXCEPT ![c] = Resting]
  /\ UNCHANGED <<channel, loop, used, crashes, lost, history>>

Enqueue(c) == Insert(c) \/ Look(c) \/ Skip(c)

-----------------------------------------------------------------------------
(* The scheduler loop: requeue_stale_sending, dispatch_pending, purge.  Bound: *)
(* fewer than OUTBOX_BATCH_SIZE rows, so that a batch holds them all.          *)

LoopAt(pc) == loop.pc = pc
Found(keys) == {[key |-> k, attempts |-> row[k].attempts] : k \in keys}

\* Fault: the rows are never reclaimed (a sending timeout of 0).
StaleNever ==
  /\ LoopAt("requeue")
  /\ loop' = [Round EXCEPT !.pc = "reclaim"]
  /\ UNCHANGED <<row, channel, caller, used, trouble, history>>

StaleSending ==
  /\ LoopAt("requeue")
  /\ loop' = [Round EXCEPT !.pc = "reclaim", !.batch =
                Found({k \in Keys : row[k].status = "sending" /\ row[k].stale})]
  /\ UNCHANGED <<row, channel, caller, used, trouble, history>>

\* Fault: the row goes back with a status of its own.
ReclaimedAs(k, attempts) ==
  IF attempts >= MaxAttempts(k)
    THEN [row[k] EXCEPT !.status = "failed", !.attempts = attempts]
    ELSE [row[k] EXCEPT !.status = "lost", !.attempts = attempts]

\* A row stuck in "sending" costs an attempt; it fails or goes back to "pending".
Reclaimed(k, attempts) ==
  IF attempts >= MaxAttempts(k)
    THEN [row[k] EXCEPT !.status = "failed", !.attempts = attempts]
    ELSE [row[k] EXCEPT !.status = "pending", !.attempts = attempts,
                        !.due = TRUE, !.stale = FALSE]

Reclaim(r) ==
  /\ LoopAt("reclaim")
  /\ Write(r.key, Reclaimed(r.key, r.attempts + 1))
  /\ loop' = [loop EXCEPT !.batch = @ \ {r}]
  /\ UNCHANGED <<channel, caller, used, crashes, lost, history>>

Pending ==
  /\ LoopAt("reclaim") /\ loop.batch = {}
  /\ loop' = [Round EXCEPT !.pc = "rows", !.batch =
                Found({k \in Keys : row[k].status = "pending" /\ row[k].due})]
  /\ UNCHANGED <<row, channel, caller, used, trouble, history>>

\* _dispatch_row up to its first write: the row in hand is the one of the snapshot,
\* its channel is read now.  The read, the rendering and the decryption may fail.
InHand(r, pc) == loop' = [pc |-> pc, batch |-> loop.batch \ {r}, hand |-> {r}]

Take(r) ==
  LET c == ChannelOf[r.key]
  IN /\ LoopAt("rows") /\ loop.hand = {}
     /\ \/ UNCHANGED used /\ InHand(r, "fail")
        \/ UNCHANGED used /\ channel[c] = "off" /\ InHand(r, "skip")
        \/ /\ channel[c] = "on" /\ used[c] >= Limit
           /\ loop' = [loop EXCEPT !.batch = @ \ {r}] /\ UNCHANGED used
        \/ /\ channel[c] = "on" /\ used[c] < Limit
           /\ used' = [used EXCEPT ![c] = @ + 1]
           /\ InHand(r, "settle") \/ InHand(r, "mark")
     /\ UNCHANGED <<row, channel, caller, trouble, history>>

\* A write of the row in hand, after which the loop is at `go'.
HandWrite(at, new, go) ==
  /\ LoopAt(at)
  /\ \E r \in loop.hand : Write(r.key, new[r])
  /\ loop' = [loop EXCEPT !.pc = go, !.hand = IF go = "rows" THEN {} ELSE @]
  /\ UNCHANGED <<channel, caller, used, crashes, lost, history>>

MarkFailed ==
  HandWrite("fail", [r \in loop.hand |-> [row[r.key] EXCEPT !.status = "failed",
                                                            !.attempts = r.attempts + 1]], "rows")

MarkSkipped ==
  HandWrite("skip", [r \in loop.hand |-> [row[r.key] EXCEPT !.status = "skipped"]], "rows")

MarkSending ==
  HandWrite("mark", [r \in loop.hand |-> [row[r.key] EXCEPT !.status = "sending",
                                                            !.stale = FALSE]], "post")

Sent == [r \in loop.hand |-> [row[r.key] EXCEPT !.status = "sent", !.attempts = r.attempts + 1]]

\* Fault: no return after the message was marked as sent.
MarkSentAndGoOn == HandWrite("sent", Sent, "settle")

MarkSent == HandWrite("sent", Sent, "rows")

\* The message arrives or not; the answer may be lost when it does.  Bound: a
\* delivery is one message.
Post ==
  /\ LoopAt("post")
  /\ \E r \in loop.hand :
       /\ posts' = [posts EXCEPT ![r.key] = @ + 1]
       /\ \/ /\ loop' = [loop EXCEPT !.pc = "sent"] /\ lost' = lost
             /\ copies' = [copies EXCEPT ![r.key] = @ + 1]
          \/ /\ loop' = [loop EXCEPT !.pc = "settle"] /\ lost' = lost
             /\ UNCHANGED copies
          \/ /\ loop' = [loop EXCEPT !.pc = "settle"]
             /\ Mishaps < MaxMishaps /\ lost' = lost + 1
             /\ copies' = [copies EXCEPT ![r.key] = @ + 1]
  /\ UNCHANGED <<row, channel, caller, used, crashes, faults>>

\* _settle_failure: failed for good, or pending until its back-off has passed.
Settled(k, attempts) ==
  IF attempts >= MaxAttempts(k)
    THEN [row[k] EXCEPT !.status = "failed", !.attempts = attempts]
    ELSE [row[k] EXCEPT !.status = "pending", !.attempts = attempts, !.due = FALSE]

Settle ==
  HandWrite("settle", [r \in loop.hand |-> Settled(r.key, r.attempts + 1)], "rows")

\* Fault: old rows go whatever their status.
PurgeAll ==
  /\ LoopAt("rows") /\ loop.hand = {} /\ loop.batch = {}
  /\ \E old \in SUBSET {k \in Keys : row[k].status # "none"} :
       row' = [k \in Keys |-> IF k \in old THEN [row[k] EXCEPT !.status = "purged"]
                                           ELSE row[k]]
  /\ loop' = Round
  /\ UNCHANGED <<channel, caller, used, trouble, history>>

\* Finished rows past their retention go; the caller that holds one is long done.
Purge ==
  /\ LoopAt("rows") /\ loop.hand = {} /\ loop.batch = {}
  /\ \E old \in SUBSET {k \in Keys : /\ row[k].status \in Finished
                                     /\ \A c \in Callers : k \notin caller[c].key} :
       row' = [k \in Keys |-> IF k \in old THEN [row[k] EXCEPT !.status = "purged"]
                                           ELSE row[k]]
  /\ loop' = Round
  /\ UNCHANGED <<channel, caller, used, trouble, history>>

Loop == \/ StaleSending \/ Pending \/ \E r \in loop.batch : Reclaim(r) \/ Take(r)
        \/ MarkFailed \/ MarkSkipped \/ MarkSending \/ Post \/ MarkSent \/ Settle
        \/ Purge

-----------------------------------------------------------------------------
(* Time, the operator and the process.                                       *)

Due(k) ==
  /\ row[k].status = "pending" /\ ~row[k].due
  /\ row' = [row EXCEPT ![k].due = TRUE]
  /\ UNCHANGED <<channel, caller, loop, used, trouble, history>>

Stale(k) ==
  /\ row[k].status = "sending" /\ ~row[k].stale
  /\ row' = [row EXCEPT ![k].stale = TRUE]
  /\ UNCHANGED <<channel, caller, loop, used, trouble, history>>

WindowMoves(c) ==
  /\ used[c] > 0
  /\ used' = [used EXCEPT ![c] = @ - 1]
  /\ UNCHANGED <<row, channel, caller, loop, trouble, history>>

\* No row is in anybody's hand.
Quiet == /\ \A c \in Callers : CallAt(c, "idle")
         /\ loop.batch = {} /\ loop.hand = {}

ChangeChannel(c) ==
  /\ Races \/ Quiet
  /\ channel[c] # "gone"
  /\ \E s \in {"on", "off", "gone"} \ {channel[c]} : channel' = [channel EXCEPT ![c] = s]
  /\ UNCHANGED <<row, caller, loop, used, trouble, history>>

\* The process dies and starts again: coroutines, batch and throttle are gone.
Crash ==
  /\ Mishaps < MaxMishaps /\ crashes' = crashes + 1
  /\ caller' = [c \in Callers |-> Resting]
  /\ loop' = Round
  /\ used' = [c \in Channels |-> 0]
  /\ UNCHANGED <<row, channel, faults, lost, history>>

Next ==
  \/ \E c \in Callers : Enqueue(c) \/ \E k \in Keys : Resolve(c, k)
  \/ Loop
  \/ \E k \in Keys : Due(k) \/ Stale(k)
  \/ \E c \in Channels : WindowMoves(c) \/ ChangeChannel(c)
  \/ Crash

Spec == Init /\ [][Next]_vars

\* The loop never ends, coroutines finish and clocks move; nobody has to enqueue.
Fairness ==
  /\ WF_vars(Loop)
  /\ \A c \in Callers : WF_vars(Enqueue(c))
  /\ \A k \in Keys : WF_vars(Due(k)) /\ WF_vars(Stale(k))
  /\ \A c \in Channels : WF_vars(WindowMoves(c))

FairSpec == Spec /\ Fairness

-----------------------------------------------------------------------------
(* Properties *)

CallerType == [pc : {"idle", "insert", "look", "skip"}, key : SUBSET Keys, off : BOOLEAN]
LoopType == [pc : AtRest \cup AtRow, batch : SUBSET Snapshot, hand : SUBSET Snapshot]

TypeOK ==
  /\ row \in [Keys -> Row]
  /\ channel \in [Channels -> {"on", "off", "gone"}]
  /\ caller \in [Callers -> CallerType]
  /\ loop \in LoopType
  /\ used \in [Channels -> 0..Limit]
  /\ crashes \in Nat /\ faults \in Nat /\ lost \in Nat
  /\ posts \in [Keys -> Nat] /\ copies \in [Keys -> Nat]

\* A message arrives more than once only for a reason: each copy after the first is
\* paid for by a crash, a failed write or a lost answer.
DuplicatesNeedMishap == \A k \in Keys : copies[k] <= 1 + Mishaps

\* No delivery is posted more often than its retry limit allows; only a failed write
\* can hide an attempt.
PostsBounded == \A k \in Keys : posts[k] <= MaxAttempts(k) + faults

\* The record says "sent" only of a message that arrived.
SentArrived == \A k \in Keys : row[k].status = "sent" => copies[k] > 0

\* What the table, the channel and the callers can tell of a delivery agrees: retries
\* are bounded, duplicates have a cause and "sent" is true.
HonestRecord == DuplicatesNeedMishap /\ PostsBounded /\ SentArrived

\* What a status means to whoever asked for the delivery.
Outcome(status) ==
  CASE status \in Open -> "owed"
    [] status = "sent" -> "delivered"
    [] status \in {"failed", "skipped"} -> "dropped"
    [] OTHER -> status

Outcomes == [k \in Keys |-> Outcome(row[k].status)]

\* The outbox keeps the promise of DeliveryLedger.
Ledger == INSTANCE DeliveryLedger WITH ledger <- Outcomes, mishaps <- Mishaps
KeepsLedger == Ledger!Spec

\* Every delivery that was accepted is settled: nothing stays in the queue for ever.
Settles == \A k \in Keys : row[k].status \in Open ~> row[k].status \notin Open
=============================================================================
