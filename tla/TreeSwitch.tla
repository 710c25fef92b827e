----------------------------- MODULE TreeSwitch -----------------------------
(***************************************************************************)
(* What switching the application tree promises a Runtime Instance: the    *)
(* installed release changes in one step, to a release that can be undone  *)
(* in one step to the very release it replaced, and the shop state is not  *)
(* touched by either.  A step that fails half-way may strand the tree: all *)
(* of it is then still on disk, but not where the service looks for it.    *)
(* ReleaseTree implements this with copies and renames.                    *)
(***************************************************************************)
CONSTANTS Releases, Items

VARIABLES
  installed,   \* the release whose code is in force
  shop,        \* the shop files the service finds
  fallback,    \* {} or the one release a rollback returns to
  whole        \* the service finds release and shop state in their places

Init ==
  /\ installed \in Releases
  /\ shop \in SUBSET Items
  /\ fallback \in {{}} \cup {{r} : r \in Releases}
  /\ whole = TRUE

Save(x) == shop' = shop \cup {x} /\ UNCHANGED <<installed, fallback, whole>>

Forget == fallback' = {} /\ UNCHANGED <<installed, shop, whole>>

Switch(t) ==
  /\ installed' = t
  /\ fallback' = {installed}
  /\ UNCHANGED <<shop, whole>>

RollBack ==
  /\ fallback = {installed'}
  /\ fallback' = {}
  /\ UNCHANGED <<shop, whole>>

Strand == whole /\ whole' = FALSE /\ UNCHANGED <<installed, shop, fallback>>

\* By hand, or by an update of what is in force: nothing is promised.
Repair == ~whole /\ installed' \in Releases /\ shop' \in SUBSET Items /\ whole' \in BOOLEAN

Next ==
  \/ \E x \in Items : Save(x)
  \/ \E t \in Releases : Switch(t)
  \/ Forget
  \/ Strand
  \/ Repair
  \/ \E r \in Releases : installed' = r /\ RollBack

Step == Next \/ UNCHANGED <<installed, shop, fallback, whole>>

Spec == Init /\ [][Next]_<<installed, shop, fallback, whole>>
=============================================================================
