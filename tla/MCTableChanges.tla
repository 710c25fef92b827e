--------------------------- MODULE MCTableChanges ---------------------------
(* Instance of TableChanges for TLC.                                        *)
EXTENDS TableChanges
\* A dear dish and a cheap one: one portion of the dear one weighs as much as two.
TwoDishes == {"dear", "cheap"}
Sums      == [w \in [TwoDishes -> 0..MaxQuantity] |-> 2 * w["dear"] + w["cheap"]]
=============================================================================
