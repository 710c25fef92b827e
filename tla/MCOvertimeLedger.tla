------------------------- MODULE MCOvertimeLedger -------------------------
EXTENDS OvertimeLedger, TLC

MCHours   == {-17, 2}
MCCredits == {-1, 3}
MCNoShift == -1

Nothing(r) == r # None /\ r.status \in {"rejected", "cancelled"}

CameToNothing ==
    {e \in Entries : Nothing(entry[e])} \cup {d \in Deductions : Nothing(deduction[d])}

\* One call outside the lock at a time, one row that came to nothing, neither of them beside
\* a call by hand or a decision under way, and no schedule yet for the last month: what
\* leave it has was brought into it.
Small ==
    /\ \A s \in Employees : credit[s][LastMonth] = NoShift
    /\ Cardinality(withdrawing) <= 1 /\ Cardinality(CameToNothing) <= 1
    /\ manual # None \/ task # None => withdrawing = {} /\ CameToNothing = {}

Symmetry == Permutations(Entries) \cup Permutations(Deductions)
===========================================================================
