--------------------------- MODULE MCDutyRoster ---------------------------
EXTENDS DutyRoster, TLC

\* At first the day is nobody's day off.
MCInit == Init /\ \A e \in Staff : rule[e] # Rest

Symmetry == Permutations(Staff) \cup Permutations(Shifts) \cup Permutations(Calls)
                \cup Permutations(Requests)
===========================================================================
