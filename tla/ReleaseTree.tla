---------------------------- MODULE ReleaseTree ----------------------------
(***************************************************************************)
(* The application tree of a Runtime Instance while an Update Job switches *)
(* it: ReleaseBundleInstallAdapter.activate_bundle extracts the new        *)
(* release beside the live tree, copies the shop state into it and renames *)
(* twice; restore_previous_tree moves the shop state back and renames      *)
(* twice.  Every rmtree, copy and rename is a step of its own, the service *)
(* keeps writing shop files meanwhile, and the job process may be killed   *)
(* between any two steps (nothing in it handles SIGTERM).  Every one of    *)
(* these calls may also raise, with a part of its work done.  In a         *)
(* behaviour that starts calm nobody kills a job, or saves while the shop  *)
(* state is in two places; what a job then owes is more.                   *)
(*                                                                         *)
(* A directory is a record: which release's code it holds and which shop   *)
(* files (data/, secrets/, .env and the like) are under it.                *)
(***************************************************************************)
EXTENDS Naturals

CONSTANTS
  Releases,    \* release tags
  NoCode,      \* the code of a directory that holds no release
  Items,       \* shop files the service may write
  MaxSwitches  \* bound: update jobs in a behaviour

ASSUME ReleaseAssumption == /\ NoCode \notin Releases
                            /\ MaxSwitches \in Nat

VARIABLES
  live,     \* <deploy>
  next,     \* <deploy>.next
  prev,     \* <deploy>.prev
  pc,       \* the step the job is at, or how the last one ended
  killed,   \* the job process died at pc
  target,   \* the release the job installs
  failed,   \* the steps of this job that raised
  jobs,     \* number of jobs started
  calm,     \* nobody kills a job, or saves while the shop state is in two places
  before,   \* history: the live release when the job started
  base,     \* history: the shop files in the live tree when the job started
  intact,   \* history: these were all the shop files ever saved
  written   \* history: every shop file ever saved

treeVars == <<live, next, prev, pc, killed, target, failed, jobs, calm, before, base, intact,
              written>>
trees == <<live, next, prev>>
history == <<target, jobs, before, base, intact>>

Dir == [code : Releases \cup {NoCode}, shop : SUBSET Items]
Absent == [code |-> NoCode, shop |-> {}]
Exists(d) == d # Absent
Complete(d) == d.code \in Releases

\* How a job may have ended: activate_bundle returned, or raised before or after the switch;
\* restore_previous_tree returned or raised.
Ended == {"ready", "activated", "raised", "slipped", "restored", "stranded"}

\* The shop state has been copied (or moved) to one tree while <deploy> still is,
\* or is about to become, another.
Window == {"drop_prev", "rename_away", "rename_in", "undo",
           "rename_out", "rename_back"}

Steps == Window \cup {"extract", "copy", "discard", "strip", "active", "carry", "sweep"}

Running == pc \notin Ended /\ ~killed

At(step) == pc = step /\ ~killed
Goto(step) == pc' = step /\ UNCHANGED <<failed, killed, calm, history, written>>

\* The step raises.
Fail(step) == /\ pc' = step /\ failed' = failed \cup {pc}
              /\ UNCHANGED <<killed, calm, history, written>>

TreeTypeOK ==
  /\ live \in Dir /\ next \in Dir /\ prev \in Dir
  /\ pc \in Ended \cup Steps
  /\ killed \in BOOLEAN
  /\ target \in Releases /\ before \in Releases
  /\ failed \subseteq Steps
  /\ jobs \in Nat /\ calm \in BOOLEAN /\ intact \in BOOLEAN
  /\ base \subseteq Items /\ written \subseteq Items

TreeInit ==
  /\ live \in {d \in Dir : Complete(d)}
  /\ next = Absent
  /\ prev \in {Absent} \cup {[code |-> r, shop |-> {}] : r \in Releases}
  /\ pc = "ready" /\ killed = FALSE
  /\ target = live.code /\ before = live.code
  /\ base = live.shop /\ written = live.shop /\ intact = TRUE
  /\ failed = {} /\ jobs = 0 /\ calm \in BOOLEAN

-----------------------------------------------------------------------------
(* The service.  A save creates the missing parents (FileJobStateStore.write *)
(* and its siblings), so it also creates <deploy> when a rename just took it *)
(* away.                                                                     *)

Save(x) ==
  /\ pc \in Window => ~calm
  /\ live' = [live EXCEPT !.shop = @ \cup {x}]
  /\ written' = written \cup {x}
  /\ UNCHANGED <<next, prev, pc, killed, calm, failed, history>>

-----------------------------------------------------------------------------
(* Seeded faults: plausible bugs of the adapter, used to check that each      *)
(* property below can tell the code from a broken version of it.              *)

\* The shop files an archive ships by mistake are kept.
ExtractShippedState ==
  /\ At("extract")
  /\ next' = [code |-> target, shop |-> {NoCode}] /\ Goto("copy")
  /\ UNCHANGED <<live, prev>>

\* The retained tree is removed after, not before, the live one takes its place.
RemoveAfterRename ==
  /\ At("rename_away")
  /\ prev' = Absent /\ live' = Absent /\ Goto("rename_in")
  /\ UNCHANGED next

\* The failed second rename is reported without undoing the first.
NoUndo == At("undo") /\ Goto("discard") /\ UNCHANGED trees

\* The names are flipped back without carrying the shop state.
FlipWithoutCarry ==
  /\ At("carry")
  /\ next' = Absent /\ Goto("rename_out")
  /\ UNCHANGED <<live, prev>>

-----------------------------------------------------------------------------
(* activate_bundle *)

\* scripts/run_update_job.py is itself a file of the live tree.
StartJob(t) ==
  /\ ~Running /\ jobs < MaxSwitches
  /\ Complete(live)
  /\ pc' = "extract" /\ killed' = FALSE
  /\ target' = t /\ before' = live.code /\ base' = live.shop
  /\ intact' = (live.shop = written)
  /\ failed' = {} /\ jobs' = jobs + 1
  /\ UNCHANGED <<trees, calm, written>>

\* rmtree(next), mkdir, extract, drop whatever shop state the archive shipped; the first
\* two are not yet covered by the clean-up.
Extract ==
  /\ At("extract")
  /\ \/ next' = [code |-> target, shop |-> {}] /\ Goto("copy")
     \/ next' = [code |-> NoCode, shop |-> {}] /\ Fail("discard")
     \/ next' = next /\ Fail("raised")
  /\ UNCHANGED <<live, prev>>

CopyPreserved ==
  /\ At("copy")
  /\ \/ next' = [next EXCEPT !.shop = live.shop] /\ Goto("drop_prev")
     \/ \E part \in SUBSET live.shop :
          next' = [next EXCEPT !.shop = part] /\ Fail("discard")
  /\ UNCHANGED <<live, prev>>

DropPrev ==
  /\ At("drop_prev")
  /\ \/ prev' = Absent /\ Goto("rename_away")
     \/ prev' = prev /\ Fail("discard")
  /\ UNCHANGED <<live, next>>

RenameAway ==
  /\ At("rename_away")
  /\ \/ prev' = live /\ live' = Absent /\ Goto("rename_in")
     \/ UNCHANGED <<live, prev>> /\ Fail("discard")
  /\ UNCHANGED next

\* A directory that came into being at <deploy> makes the rename fail.
RenameIn ==
  /\ At("rename_in")
  /\ \/ /\ ~Exists(live)
        /\ live' = next /\ next' = Absent /\ Goto("strip")
     \/ UNCHANGED <<live, next>> /\ Fail("undo")
  /\ UNCHANGED prev

\* The undo is tried where it can help, and is a rename that may fail like the others.
Undo ==
  /\ At("undo")
  /\ \/ /\ IF Exists(prev) /\ ~Exists(live)
             THEN live' = prev /\ prev' = Absent
             ELSE UNCHANGED <<live, prev>>
        /\ Goto("discard")
     \/ /\ Exists(prev) /\ ~Exists(live)
        /\ UNCHANGED <<live, prev>> /\ Fail("discard")
  /\ UNCHANGED next

\* rmtree(next, ignore_errors)
Discard ==
  /\ At("discard")
  /\ next' \in {Absent, next}
  /\ Goto("raised")
  /\ UNCHANGED <<live, prev>>

\* _remove_preserved ignores a directory it cannot remove, and raises for a file.
StripPrev ==
  /\ At("strip")
  /\ \E left \in SUBSET prev.shop : prev' = [prev EXCEPT !.shop = left]
  /\ Goto("active") \/ Fail("slipped")
  /\ UNCHANGED <<live, next>>

\* The rest of the job (dependencies, migrations, restart) needs no rollback.
Finish == At("active") /\ Goto("activated") /\ UNCHANGED trees

-----------------------------------------------------------------------------
(* restore_previous_tree, when a later stage of the job failed *)

RestoreBegin ==
  /\ At("active")
  /\ Goto(IF Exists(prev) THEN "carry" ELSE "stranded")
  /\ UNCHANGED trees

\* _carry_preserved MOVES the entries of the shop state one by one, each over the entry of
\* that name in prev; files of prev under other names stay.  Then next is removed.
CarryBack ==
  /\ At("carry")
  /\ \/ /\ Exists(live)
        /\ \E kept \in SUBSET prev.shop :
             /\ live.shop = {} => kept = prev.shop
             /\ prev' = [prev EXCEPT !.shop = live.shop \cup kept]
        /\ live' = [live EXCEPT !.shop = {}]
        /\ \/ next' = Absent /\ Goto("rename_out")
           \/ next' = next /\ Exists(next) /\ Fail("stranded")
     \/ /\ Exists(live)
        /\ \E moved \in SUBSET live.shop, kept \in SUBSET prev.shop :
             /\ live.shop = {} => kept = prev.shop
             /\ prev' = [prev EXCEPT !.shop = moved \cup kept]
             /\ live' = [live EXCEPT !.shop = @ \ moved]
        /\ UNCHANGED next /\ Fail("stranded")
     \/ ~Exists(live) /\ UNCHANGED trees /\ Goto("rename_back")

RenameOut ==
  /\ At("rename_out")
  /\ \/ next' = live /\ live' = Absent /\ Goto("rename_back")
     \/ UNCHANGED <<live, next>> /\ Fail("stranded")
  /\ UNCHANGED prev

RenameBack ==
  /\ At("rename_back")
  /\ \/ ~Exists(live) /\ live' = prev /\ prev' = Absent /\ Goto("sweep")
     \/ UNCHANGED <<live, prev>> /\ Fail("stranded")
  /\ UNCHANGED next

\* rmtree(next, ignore_errors)
Sweep ==
  /\ At("sweep")
  /\ next' \in {Absent, next}
  /\ Goto("restored")
  /\ UNCHANGED <<live, prev>>

-----------------------------------------------------------------------------
\* SIGTERM from a cancel, a power cut, or the restart of the container.
Kill ==
  /\ ~calm /\ Running
  /\ killed' = TRUE
  /\ UNCHANGED <<trees, pc, calm, failed, history, written>>

Activate == Extract \/ CopyPreserved \/ DropPrev \/ RenameAway \/ RenameIn
              \/ Undo \/ Discard \/ StripPrev \/ Finish
RestoreTree == RestoreBegin \/ CarryBack \/ RenameOut \/ RenameBack \/ Sweep

TreeNext ==
  \/ \E x \in Items : Save(x)
  \/ \E t \in Releases : StartJob(t)
  \/ Activate
  \/ RestoreTree
  \/ Kill

TreeSpec == TreeInit /\ [][TreeNext]_treeVars

-----------------------------------------------------------------------------
(* The promise this module implements: the switch takes effect at the second *)
(* rename of either pair; in between, the code in force is in prev or next.  *)
(* A rename that cannot be undone, and a rollback that raises, strand the    *)
(* tree with everything still on disk.                                       *)

Halfway == pc \in {"rename_in", "undo"} \/ "undo" \in failed
Stranded == pc = "stranded" \/ "undo" \in failed

Abstract == INSTANCE TreeSwitch WITH
  installed <- IF Complete(live) THEN live.code
               ELSE IF Halfway THEN prev.code ELSE next.code,
  shop      <- IF Halfway \/ pc \in {"rename_out", "rename_back", "stranded"}
               THEN prev.shop \cup live.shop ELSE live.shop,
  fallback  <- IF ~Halfway /\ Complete(prev) THEN {prev.code} ELSE {},
  whole     <- ~Stranded

-----------------------------------------------------------------------------
(* Properties *)

\* Wherever the job is, and wherever it was killed, a whole release is on disk,
\* as the live tree or one rename away from being it (.prev): the manual recovery
\* of docs/RELEASE_AND_DEPLOY.md 5.7 always has something to move back.
ReleaseOnDisk == Complete(live) \/ Complete(prev)

\* No shop file the live tree held when the job started is gone: whatever rmtree
\* the adapter runs and wherever it dies, the file is still in one of the trees.
BaselineOnDisk == base \subseteq live.shop \cup next.shop \cup prev.shop

\* A job killed anywhere leaves both to be recovered by hand: a release and the data.
NothingLost == ReleaseOnDisk /\ BaselineOnDisk

\* In a calm shop, after every job that found all the shop state in place: a whole
\* release is live, the new one if activate_bundle returned or raised after the switch,
\* the one before it on every other failure and after a rollback, and with it every shop
\* file ever saved.  Only if the undo of a rename raised, or a step of a rollback, is that
\* left to the operator: then the release before is in .prev, and between it and the live
\* tree no shop file is missing.
SettledTree ==
  calm /\ intact /\ pc \in Ended =>
    IF failed \cap {"undo", "carry", "rename_out", "rename_back"} = {}
      THEN /\ pc # "stranded"
           /\ live.code = IF pc \in {"activated", "slipped"} THEN target ELSE before
           /\ live.shop = written
      ELSE /\ prev.code = before
           /\ live.shop \cup prev.shop = written

\* Seen from outside and in a calm shop, activate_bundle and restore_previous_tree
\* are atomic: the release changes at one step, that step can be undone to exactly
\* the release it replaced, and no shop file disappears at either; a step that raises
\* where nothing undoes it is the one way out, and takes nothing off the disk
\* (services/release_update/job_adapters.py:262-343).
AtomicSwitch ==
  /\ Abstract!Init
  /\ [][calm /\ intact => Abstract!Step]_treeVars

\* "Shop state that must survive atomic application-tree swap"
\* (services/release_update/job_adapters.py:192): after a job that was not
\* killed the live tree holds every shop file that was ever saved.
ShopStateSurvives == pc \in Ended \ {"stranded"} => live.shop = written

\* "activate_bundle must leave the live tree untouched on failure."
\* (services/release_update/job_runner.py:167)
FailureLeavesLive == pc \in {"raised", "slipped"} => live.code = before
=============================================================================
