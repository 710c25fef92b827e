----------------------------- MODULE AtomicUnits -----------------------------
(***************************************************************************)
(* What the shared database connection promises to the writers that use    *)
(* it: the statements of a unit of work are stored together or not at all, *)
(* a unit reported as committed is stored, a unit reported as failed is    *)
(* not, and nothing changes once a unit has been reported.  The promise is *)
(* void for a unit that was mixed up with another one; a unit reported as  *)
(* committed, or left in doubt, is not mixed up any more.                  *)
(***************************************************************************)
EXTENDS Naturals

CONSTANTS Tasks, Size          \* one unit per task, of Size statements

VARIABLES
  stored,                      \* the statements of each unit that are stored
  report,                      \* what its caller was told
  mixed                        \* the units that were mixed up

vars == <<stored, report, mixed>>

Nothing == {}
Everything == 1..Size

Init == /\ stored = [t \in Tasks |-> Nothing]
        /\ report = [t \in Tasks |-> "none"]
        /\ mixed = {}

Mixing == /\ mixed \subseteq mixed'
          /\ \A t \in mixed' \ mixed : report[t] \in {"none", "failed"}

Report(t, what, rows) ==
  /\ report[t] = "none" /\ t \notin mixed'
  /\ report' = [report EXCEPT ![t] = what]
  /\ stored' = [stored EXCEPT ![t] = rows]

Commit(t) == Report(t, "ok", Everything)
Refuse(t) == Report(t, "failed", Nothing)

\* The connection went away under the COMMIT: the caller cannot know.
Doubt(t) == \E rows \in {Nothing, Everything} : Report(t, "unsure", rows)

\* Nothing is promised of the units that are mixed up.
Anything == \A t \in Tasks \ mixed' : stored'[t] = stored[t] /\ report'[t] = report[t]

Next == /\ Mixing
        /\ Anything \/ \E t \in Tasks : Commit(t) \/ Refuse(t) \/ Doubt(t)

Spec == Init /\ [][Next]_vars
=============================================================================
