--------------------------- MODULE DeliveryLedger ---------------------------
(***************************************************************************)
(* What the unified outbox promises about its deliveries, whoever asks for *)
(* them and however often: a delivery is owed until it is settled, copies  *)
(* of its message go out only while it is owed, each copy after the first  *)
(* is paid for by a mishap, and what is settled stays settled.             *)
(***************************************************************************)
EXTENDS Naturals

CONSTANT Keys            \* idempotency keys

VARIABLES
  ledger,                \* "none", "owed", "delivered", "dropped" or "purged"
  copies,                \* messages that reached the channel
  mishaps                \* crashes, failed writes and lost answers

vars == <<ledger, copies, mishaps>>

Init == /\ ledger = [k \in Keys |-> "none"]
        /\ copies = [k \in Keys |-> 0]
        /\ mishaps = 0

Owe(k) ==
  /\ ledger[k] = "none"
  /\ ledger' = [ledger EXCEPT ![k] = "owed"]
  /\ UNCHANGED <<copies, mishaps>>

Send(k) ==
  /\ ledger[k] = "owed" /\ copies[k] <= mishaps
  /\ copies' = [copies EXCEPT ![k] = @ + 1]
  /\ mishaps' \in {mishaps, mishaps + 1}
  /\ UNCHANGED ledger

Settle(k) ==
  /\ ledger[k] = "owed"
  /\ \E s \in {"delivered", "dropped"} :
       /\ s = "delivered" => copies[k] > 0
       /\ ledger' = [ledger EXCEPT ![k] = s]
  /\ UNCHANGED <<copies, mishaps>>

Purge ==
  /\ \E old \in SUBSET {k \in Keys : ledger[k] \in {"delivered", "dropped"}} :
       ledger' = [k \in Keys |-> IF k \in old THEN "purged" ELSE ledger[k]]
  /\ UNCHANGED <<copies, mishaps>>

Mishap == mishaps' = mishaps + 1 /\ UNCHANGED <<ledger, copies>>

Next == Purge \/ Mishap \/ \E k \in Keys : Owe(k) \/ Send(k) \/ Settle(k)

Spec == Init /\ [][Next]_vars
=============================================================================
