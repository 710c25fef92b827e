--------------------------- MODULE MCSteamerHoles ---------------------------
(* Two tables and a delivery of two portions; calls one after the other, or two that   *)
(* overlap.  Calls that write and changes at the POS are at most MaxSteps together:     *)
(* three calls and a change, two calls and two.                                         *)
EXTENDS SteamerHoles

CONSTANT MaxSteps

MCOrdered == <<[table |-> "a", delivery |-> FALSE, qty |-> 1],
               [table |-> "b", delivery |-> FALSE, qty |-> 1],
               [table |-> "out", delivery |-> TRUE, qty |-> 2]>>

MCMaxNamed == [b \in BOOLEAN |-> IF b THEN 2 ELSE 1]

MCMaxCalls == [b \in BOOLEAN |-> IF b THEN 3 ELSE 2]

MCMaxChanges == [b \in BOOLEAN |-> IF b THEN 2 ELSE 1]

Symmetry == Permutations(Tablets) \cup Permutations(Holes)

Small == Len(rows) <= MaxRows /\ commits + changes < MaxSteps
=============================================================================
