------------------------- MODULE SoftwareUpdateProofs -------------------------
(***************************************************************************)
(* Proofs about a software update, in two parts.  The first is about the   *)
(* switch of the application tree, ReleaseTree: for every set of releases  *)
(* and of shop files and any number of jobs, no kill and no concurrent     *)
(* save leaves the disk without a whole release, or without a shop file    *)
(* the job found.  The second is about UpdateJob, which takes that switch  *)
(* as one step: for any number of releases, web threads, Update Jobs and   *)
(* power failures, the job file tells the truth about the update it names, *)
(* and a cancel ends that update and no other.                             *)
(***************************************************************************)
EXTENDS ReleaseTree, UpdateJob, TLAPS

-----------------------------------------------------------------------------
(* The inductive invariant says, for every step, which of the three trees   *)
(* holds a whole release and which holds the shop files the job started     *)
(* with; the properties are its weakest reading over all steps.             *)

LiveWhole == {"ready", "extract", "copy", "drop_prev", "rename_away", "strip",
              "active", "activated", "slipped", "carry", "rename_out", "sweep", "restored"}
PrevWhole == {"rename_in", "undo", "strip", "active", "carry", "rename_out",
              "rename_back", "stranded"}
LiveBase == LiveWhole \ {"rename_out"}
PrevBase == {"rename_in", "undo", "rename_out", "rename_back"}
NextBase == {"drop_prev", "rename_away", "rename_in"}
Either == {"discard", "raised", "stranded"}

ReleaseInv ==
  /\ pc \in LiveWhole => Complete(live)
  /\ pc \in PrevWhole => Complete(prev)
  /\ pc \in NextBase \cup {"copy"} => Complete(next)
  /\ pc \in Either => Complete(live) \/ Complete(prev)

BaselineInv ==
  /\ pc \in LiveBase => base \subseteq live.shop
  /\ pc \in PrevBase => base \subseteq prev.shop
  /\ pc \in NextBase => base \subseteq next.shop
  /\ pc \in Either => base \subseteq live.shop \cup prev.shop

IInv == TreeTypeOK /\ ReleaseInv /\ BaselineInv

LEMMA InitIInv == TreeInit => IInv
<1> SUFFICES ASSUME TreeInit PROVE IInv
    OBVIOUS
<1>1. live \in Dir /\ Complete(live) /\ pc = "ready" /\ base = live.shop
    BY DEF TreeInit
<1>2. next \in Dir /\ prev \in Dir
    BY DEF TreeInit, Dir, Absent
<1>3. TreeTypeOK
    BY <1>1, <1>2 DEF TreeInit, TreeTypeOK, Dir, Complete, Ended
<1>4. ReleaseInv /\ BaselineInv
    BY <1>1 DEF ReleaseInv, BaselineInv, LiveWhole, PrevWhole, LiveBase, PrevBase,
       NextBase, Either
<1> QED BY <1>3, <1>4 DEF IInv

\* Every step of the job, of the service and of the kill preserves the invariant.
LEMMA StepIInv == IInv /\ [TreeNext]_treeVars => IInv'
<1> SUFFICES ASSUME IInv, [TreeNext]_treeVars PROVE IInv'
    OBVIOUS
<1> USE ReleaseAssumption
<1> USE DEF Dir, Absent, Complete
<1>t. TreeTypeOK /\ ReleaseInv /\ BaselineInv
    BY DEF IInv
<1>1. ASSUME NEW x \in Items, Save(x) PROVE IInv'
  <2>1. TreeTypeOK'
    BY <1>t, <1>1 DEF Save, TreeTypeOK, history
  <2>2. ReleaseInv'
    BY <1>t, <1>1 DEF Save, TreeTypeOK, ReleaseInv, history
  <2>3. BaselineInv'
    BY <1>t, <1>1 DEF Save, TreeTypeOK, BaselineInv, history
  <2> QED BY <2>1, <2>2, <2>3 DEF IInv
<1>2. ASSUME NEW t \in Releases, StartJob(t) PROVE IInv'
  <2>1. TreeTypeOK'
    <3>1. pc' = "extract" /\ target' = t /\ before' = live.code /\ base' = live.shop
          /\ killed' = FALSE /\ jobs' = jobs + 1 /\ Complete(live)
          /\ failed' = {} /\ intact' = (live.shop = written)
          /\ UNCHANGED <<live, next, prev, written, calm>>
      BY <1>2 DEF StartJob, trees
    <3>2. jobs' \in Nat /\ before' \in Releases /\ base' \subseteq Items
      BY <1>t, <3>1 DEF TreeTypeOK
    <3>3. pc' \in Ended \cup Steps
      BY <3>1 DEF Steps
    <3> QED BY <1>t, <3>1, <3>2, <3>3 DEF TreeTypeOK
  <2>2. ReleaseInv' /\ BaselineInv'
    BY <1>t, <1>2 DEF StartJob, TreeTypeOK, ReleaseInv, BaselineInv, trees, LiveWhole,
       PrevWhole, LiveBase, PrevBase, NextBase, Either
  <2> QED BY <2>1, <2>2 DEF IInv
<1>3. CASE Activate
  <2> USE DEF Goto, Fail, history, trees, At, LiveWhole, PrevWhole, LiveBase,
     PrevBase,
              NextBase, Either, Steps, Window, Ended
  <2>1. CASE Extract
    <3>1. TreeTypeOK'
      <4>1. live' \in Dir /\ next' \in Dir /\ prev' \in Dir
        BY <1>t, <2>1 DEF Extract, TreeTypeOK
      <4>2. pc' \in Ended \cup Steps /\ failed' \in SUBSET Steps
        BY <1>t, <2>1 DEF Extract, TreeTypeOK
      <4> QED BY <1>t, <2>1, <4>1, <4>2 DEF Extract, TreeTypeOK
    <3>2. ReleaseInv'
      BY <1>t, <2>1 DEF Extract, TreeTypeOK, ReleaseInv
    <3>3. BaselineInv'
      BY <1>t, <2>1 DEF Extract, TreeTypeOK, BaselineInv
    <3> QED BY <3>1, <3>2, <3>3 DEF IInv
  <2>2. CASE CopyPreserved
    <3>1. TreeTypeOK'
      <4>1. live' \in Dir /\ next' \in Dir /\ prev' \in Dir
        BY <1>t, <2>2 DEF CopyPreserved, TreeTypeOK
      <4>2. pc' \in Ended \cup Steps /\ failed' \in SUBSET Steps
        BY <1>t, <2>2 DEF CopyPreserved, TreeTypeOK
      <4> QED BY <1>t, <2>2, <4>1, <4>2 DEF CopyPreserved, TreeTypeOK
    <3>2. ReleaseInv'
      BY <1>t, <2>2 DEF CopyPreserved, TreeTypeOK, ReleaseInv
    <3>3. BaselineInv'
      BY <1>t, <2>2 DEF CopyPreserved, TreeTypeOK, BaselineInv
    <3> QED BY <3>1, <3>2, <3>3 DEF IInv
  <2>3. CASE DropPrev
    <3>1. TreeTypeOK'
      <4>1. live' \in Dir /\ next' \in Dir /\ prev' \in Dir
        BY <1>t, <2>3 DEF DropPrev, TreeTypeOK
      <4>2. pc' \in Ended \cup Steps /\ failed' \in SUBSET Steps
        BY <1>t, <2>3 DEF DropPrev, TreeTypeOK
      <4> QED BY <1>t, <2>3, <4>1, <4>2 DEF DropPrev, TreeTypeOK
    <3>2. ReleaseInv'
      BY <1>t, <2>3 DEF DropPrev, TreeTypeOK, ReleaseInv
    <3>3. BaselineInv'
      BY <1>t, <2>3 DEF DropPrev, TreeTypeOK, BaselineInv
    <3> QED BY <3>1, <3>2, <3>3 DEF IInv
  <2>4. CASE RenameAway
    <3>1. TreeTypeOK'
      <4>1. live' \in Dir /\ next' \in Dir /\ prev' \in Dir
        BY <1>t, <2>4 DEF RenameAway, TreeTypeOK
      <4>2. pc' \in Ended \cup Steps /\ failed' \in SUBSET Steps
        BY <1>t, <2>4 DEF RenameAway, TreeTypeOK
      <4> QED BY <1>t, <2>4, <4>1, <4>2 DEF RenameAway, TreeTypeOK
    <3>2. ReleaseInv'
      BY <1>t, <2>4 DEF RenameAway, TreeTypeOK, ReleaseInv
    <3>3. BaselineInv'
      BY <1>t, <2>4 DEF RenameAway, TreeTypeOK, BaselineInv
    <3> QED BY <3>1, <3>2, <3>3 DEF IInv
  <2>5. CASE RenameIn
    <3>1. TreeTypeOK'
      <4>1. live' \in Dir /\ next' \in Dir /\ prev' \in Dir
        BY <1>t, <2>5 DEF RenameIn, TreeTypeOK
      <4>2. pc' \in Ended \cup Steps /\ failed' \in SUBSET Steps
        BY <1>t, <2>5 DEF RenameIn, TreeTypeOK
      <4> QED BY <1>t, <2>5, <4>1, <4>2 DEF RenameIn, TreeTypeOK
    <3>2. ReleaseInv'
      BY <1>t, <2>5 DEF RenameIn, TreeTypeOK, ReleaseInv
    <3>3. BaselineInv'
      BY <1>t, <2>5 DEF RenameIn, TreeTypeOK, BaselineInv
    <3> QED BY <3>1, <3>2, <3>3 DEF IInv
  <2>6. CASE Undo
    <3>1. TreeTypeOK'
      <4>1. live' \in Dir /\ next' \in Dir /\ prev' \in Dir
        BY <1>t, <2>6 DEF Undo, TreeTypeOK
      <4>2. pc' \in Ended \cup Steps /\ failed' \in SUBSET Steps
        BY <1>t, <2>6 DEF Undo, TreeTypeOK
      <4> QED BY <1>t, <2>6, <4>1, <4>2 DEF Undo, TreeTypeOK
    <3>2. ReleaseInv'
      BY <1>t, <2>6 DEF Undo, TreeTypeOK, ReleaseInv
    <3>3. BaselineInv'
      BY <1>t, <2>6 DEF Undo, TreeTypeOK, BaselineInv
    <3> QED BY <3>1, <3>2, <3>3 DEF IInv
  <2>7. CASE Discard
    BY <1>t, <2>7 DEF Discard, IInv, TreeTypeOK, ReleaseInv, BaselineInv
  <2>8. CASE StripPrev
    BY <1>t, <2>8 DEF StripPrev, IInv, TreeTypeOK, ReleaseInv, BaselineInv
  <2>9. CASE Finish
    BY <1>t, <2>9 DEF Finish, IInv, TreeTypeOK, ReleaseInv, BaselineInv
  <2> QED BY <1>3, <2>1, <2>2, <2>3, <2>4, <2>5, <2>6, <2>7, <2>8, <2>9 DEF Activate
<1>4. CASE RestoreTree
  <2> USE DEF Goto, Fail, history, trees, At, LiveWhole, PrevWhole, LiveBase,
     PrevBase,
              NextBase, Either, Steps, Window, Ended, Exists
  <2>1. CASE RestoreBegin
    BY <1>t, <2>1 DEF RestoreBegin, IInv, TreeTypeOK, ReleaseInv, BaselineInv
  <2>2. CASE CarryBack
    <3>1. TreeTypeOK'
      <4>1. live' \in Dir /\ next' \in Dir /\ prev' \in Dir
        BY <1>t, <2>2 DEF CarryBack, TreeTypeOK
      <4>2. pc' \in Ended \cup Steps /\ failed' \in SUBSET Steps
        BY <1>t, <2>2 DEF CarryBack, TreeTypeOK
      <4> QED BY <1>t, <2>2, <4>1, <4>2 DEF CarryBack, TreeTypeOK
    <3>2. ReleaseInv'
      BY <1>t, <2>2 DEF CarryBack, TreeTypeOK, ReleaseInv
    <3>3. BaselineInv'
      BY <1>t, <2>2 DEF CarryBack, TreeTypeOK, BaselineInv
    <3> QED BY <3>1, <3>2, <3>3 DEF IInv
  <2>3. CASE RenameOut
    <3>1. TreeTypeOK'
      <4>1. live' \in Dir /\ next' \in Dir /\ prev' \in Dir
        BY <1>t, <2>3 DEF RenameOut, TreeTypeOK
      <4>2. pc' \in Ended \cup Steps /\ failed' \in SUBSET Steps
        BY <1>t, <2>3 DEF RenameOut, TreeTypeOK
      <4> QED BY <1>t, <2>3, <4>1, <4>2 DEF RenameOut, TreeTypeOK
    <3>2. ReleaseInv'
      BY <1>t, <2>3 DEF RenameOut, TreeTypeOK, ReleaseInv
    <3>3. BaselineInv'
      BY <1>t, <2>3 DEF RenameOut, TreeTypeOK, BaselineInv
    <3> QED BY <3>1, <3>2, <3>3 DEF IInv
  <2>4. CASE RenameBack
    <3>1. TreeTypeOK'
      <4>1. live' \in Dir /\ next' \in Dir /\ prev' \in Dir
        BY <1>t, <2>4 DEF RenameBack, TreeTypeOK
      <4>2. pc' \in Ended \cup Steps /\ failed' \in SUBSET Steps
        BY <1>t, <2>4 DEF RenameBack, TreeTypeOK
      <4> QED BY <1>t, <2>4, <4>1, <4>2 DEF RenameBack, TreeTypeOK
    <3>2. ReleaseInv'
      BY <1>t, <2>4 DEF RenameBack, TreeTypeOK, ReleaseInv
    <3>3. BaselineInv'
      BY <1>t, <2>4 DEF RenameBack, TreeTypeOK, BaselineInv
    <3> QED BY <3>1, <3>2, <3>3 DEF IInv
  <2>5. CASE Sweep
    BY <1>t, <2>5 DEF Sweep, IInv, TreeTypeOK, ReleaseInv, BaselineInv
  <2> QED BY <1>4, <2>1, <2>2, <2>3, <2>4, <2>5 DEF RestoreTree
<1>5. CASE Kill
    BY <1>t, <1>5 DEF Kill, IInv, TreeTypeOK, ReleaseInv, BaselineInv, trees,
       history
<1>6. CASE UNCHANGED treeVars
    BY <1>t, <1>6 DEF treeVars, IInv, TreeTypeOK, ReleaseInv, BaselineInv
<1> QED BY <1>1, <1>2, <1>3, <1>4, <1>5, <1>6 DEF TreeNext

LEMMA Invariance == TreeSpec => []IInv
BY InitIInv, StepIInv, PTL DEF TreeSpec

\* The three trees, the position of the job and the history variables keep their
\* types through every interleaving of job, service and kills.
THEOREM TreeTypeCorrect == TreeSpec => []TreeTypeOK
<1>1. IInv => TreeTypeOK
    BY DEF IInv
<1> QED BY <1>1, Invariance, PTL

\* activate_bundle and restore_previous_tree, killed anywhere and with the service
\* saving at any moment, never leave both <deploy> and <deploy>.prev without a
\* whole release.
THEOREM ReleaseAlwaysOnDisk == TreeSpec => []ReleaseOnDisk
<1>1. IInv => ReleaseOnDisk
    BY DEF IInv, TreeTypeOK, ReleaseInv, ReleaseOnDisk, Ended, Steps,
       Window, LiveWhole,
           PrevWhole, Either
<1> QED BY <1>1, Invariance, PTL

\* The shop files a job found in the live tree are in one of the three trees for as
\* long as it runs and after it is killed.
THEOREM BaselineAlwaysOnDisk == TreeSpec => []BaselineOnDisk
<1>1. IInv => BaselineOnDisk
    BY DEF IInv, TreeTypeOK, BaselineInv, BaselineOnDisk, Ended, Steps,
       Window, LiveWhole,
           LiveBase, PrevBase, Either
<1> QED BY <1>1, Invariance, PTL

\* Killed anywhere, a job takes neither the last whole release nor a shop file that it
\* found, for every set of releases and files and every number of jobs.
THEOREM NothingIsLost == TreeSpec => []NothingLost
<1>1. ReleaseOnDisk /\ BaselineOnDisk => NothingLost
    BY DEF NothingLost
<1> QED BY <1>1, ReleaseAlwaysOnDisk, BaselineAlwaysOnDisk, PTL

-----------------------------------------------------------------------------
(* A calm shop.  Without kills and without saves in the windows, and once    *)
(* the job found all the shop state in its place, the live tree holds what   *)
(* the job owes, and the job's steps implement TreeSwitch.                   *)

\* What holds of every tree and needs no calm: no directory holds a shop file nobody
\* saved.  And nobody kills a calm job.
SavedInv ==
  /\ live.shop \subseteq written /\ next.shop \subseteq written /\ prev.shop \subseteq written
  /\ calm => killed = FALSE

LEMMA SavedInit == TreeInit => SavedInv
BY DEF TreeInit, SavedInv, Absent

LEMMA SavedStep == IInv /\ SavedInv /\ [TreeNext]_treeVars => SavedInv'
<1> SUFFICES ASSUME IInv, SavedInv, [TreeNext]_treeVars PROVE SavedInv'
    OBVIOUS
<1>t. live \in Dir /\ next \in Dir /\ prev \in Dir
    BY DEF IInv, TreeTypeOK
<1> USE <1>t DEF SavedInv, Dir, Absent, Goto, Fail, history, trees, At
<1>1. ASSUME NEW x \in Items, Save(x) PROVE SavedInv'
    BY <1>1 DEF Save
<1>2. ASSUME NEW t \in Releases, StartJob(t) PROVE SavedInv'
    BY <1>2 DEF StartJob
<1>3. CASE Extract
    BY <1>3 DEF Extract
<1>4. CASE CopyPreserved
    BY <1>4 DEF CopyPreserved
<1>5. CASE DropPrev \/ RenameAway \/ RenameIn
    BY <1>5 DEF DropPrev, RenameAway, RenameIn
<1>6. CASE Undo \/ Discard \/ StripPrev \/ Finish
    BY <1>6 DEF Undo, Discard, StripPrev, Finish
<1>7. CASE RestoreBegin \/ RenameOut \/ RenameBack \/ Sweep
    BY <1>7 DEF RestoreBegin, RenameOut, RenameBack, Sweep
<1>8. CASE CarryBack
    BY <1>8 DEF CarryBack
<1>9. CASE Kill
    BY <1>9 DEF Kill
<1>10. CASE UNCHANGED treeVars
    BY <1>10 DEF treeVars
<1> QED
    BY <1>1, <1>2, <1>3, <1>4, <1>5, <1>6, <1>7, <1>8, <1>9, <1>10
    DEF TreeNext, Activate, RestoreTree

\* The failures that nothing undoes, and the ends they lead to.
Fatal == {"undo", "carry", "rename_out", "rename_back"}
Torn == {"discard", "raised"}
Between == {"rename_in", "undo", "rename_back"}

QuietInv ==
  /\ "undo" \in failed => pc \in Torn
  /\ pc = "stranded" <=> failed \cap (Fatal \ {"undo"}) # {}
  /\ pc \in Between => live = Absent
  /\ pc \notin Between \cup Torn \cup {"stranded"} => Complete(live)
  /\ pc \in Torn /\ "undo" \notin failed => Complete(live)
  /\ pc = "rename_back" => Complete(next)

\* Which release each tree holds, step by step.
QuietCode ==
  /\ pc \in {"ready", "extract", "copy", "drop_prev", "rename_away", "sweep", "restored"}
       => live.code = before
  /\ pc \in Torn => IF "undo" \in failed THEN prev.code = before ELSE live.code = before
  /\ pc \in PrevWhole => prev.code = before
  /\ pc \in {"copy", "drop_prev", "rename_away", "rename_in"} => next.code = target
  /\ pc \in {"strip", "active", "activated", "slipped", "carry", "rename_out"}
       => live.code = target

\* Which trees hold every shop file ever saved.
Away == {"rename_in", "undo", "rename_out", "rename_back"}

QuietShop ==
  /\ pc \in Away => prev.shop = written
  /\ pc \notin Away \cup Torn \cup {"stranded"} => live.shop = written
  /\ pc \in Torn /\ "undo" \notin failed => live.shop = written
  /\ "undo" \in failed \/ pc = "stranded" => live.shop \cup prev.shop = written
  /\ pc \in {"drop_prev", "rename_away", "rename_in"} => next.shop = written

Quiet == QuietInv /\ QuietCode /\ QuietShop

LEMMA QuietInit == TreeInit => Quiet
BY DEF TreeInit, Quiet, QuietInv, QuietCode, QuietShop, Complete, Between, Torn, Away, Fatal,
   PrevWhole

\* A job that finds all the shop state in its place starts a quiet one, whatever
\* happened before it.
LEMMA QuietStart ==
  ASSUME NEW t \in Releases, StartJob(t), intact' PROVE Quiet'
BY DEF StartJob, trees, Quiet, QuietInv, QuietCode, QuietShop, Complete, Between, Torn, Away,
   Fatal, PrevWhole

\* The other steps of a quiet job.
LEMMA QuietStep ==
  ASSUME calm, IInv, SavedInv, Quiet,
         (\E x \in Items : Save(x)) \/ Activate \/ RestoreTree
  PROVE  Quiet'
<1>a. Absent.shop = {} /\ Absent.code = NoCode /\ NoCode \notin Releases
    BY ReleaseAssumption DEF Absent
<1>t. /\ live \in Dir /\ next \in Dir /\ prev \in Dir
      /\ pc \in PrevWhole => Complete(prev)
      /\ pc \in NextBase \cup {"copy"} => Complete(next)
    BY DEF IInv, TreeTypeOK, ReleaseInv
<1>s. live.shop \subseteq written /\ next.shop \subseteq written /\ prev.shop \subseteq written
    BY DEF SavedInv
<1>q. QuietInv /\ QuietCode /\ QuietShop
    BY DEF Quiet
<1> USE <1>a, <1>t, <1>s, <1>q
<1> USE DEF Dir, Complete, Exists, QuietInv, QuietCode, QuietShop, Between, Torn, Away, Fatal,
            Goto, Fail, history, trees, At, PrevWhole, NextBase
<1>1. ASSUME NEW x \in Items, Save(x) PROVE Quiet'
  <2>1. /\ pc' = pc /\ failed' = failed /\ next' = next /\ prev' = prev
        /\ before' = before /\ target' = target /\ written' = written \cup {x}
        /\ live'.code = live.code /\ live'.shop = live.shop \cup {x}
        /\ pc \notin Window
    BY <1>1 DEF Save
  <2>2. QuietInv' /\ QuietCode'
    BY <2>1 DEF Window
  <2>3. QuietShop'
    BY <2>1 DEF Window
  <2> QED BY <2>2, <2>3 DEF Quiet
<1>3. CASE Extract
  <2>1. \/ next' = [code |-> target, shop |-> {}] /\ pc' = "copy" /\ failed' = failed
        \/ pc' \in Torn /\ failed' = failed \cup {"extract"}
    BY <1>3 DEF Extract
  <2>2. pc' = "copy" => next'.code = target
    BY <2>1
  <2>3. QuietInv'
    BY <1>3, <2>1 DEF Extract
  <2>4. QuietCode'
    BY <1>3, <2>1, <2>2 DEF Extract
  <2>5. QuietShop'
    BY <1>3, <2>1 DEF Extract
  <2> QED BY <2>3, <2>4, <2>5 DEF Quiet
<1>4. CASE CopyPreserved
    BY <1>4 DEF CopyPreserved, Quiet
<1>5. CASE DropPrev
    BY <1>5 DEF DropPrev, Quiet
<1>6. CASE RenameAway
    BY <1>6 DEF RenameAway, Quiet
<1>7. CASE RenameIn
    BY <1>7 DEF RenameIn, Quiet
<1>8. CASE Undo
    BY <1>8 DEF Undo, Quiet
<1>9. CASE Discard \/ Finish
    BY <1>9 DEF Discard, Finish, Quiet
<1>10. CASE StripPrev
    BY <1>10 DEF StripPrev, Quiet
<1>11. CASE RestoreBegin
    BY <1>11 DEF RestoreBegin, Quiet
<1>12. CASE CarryBack
  <2>1. /\ Complete(live) /\ Exists(live) /\ live.shop = written
    BY <1>12 DEF CarryBack
  <2>2. CASE pc' = "rename_out"
    <3>1. /\ live'.code = live.code /\ prev'.code = prev.code /\ prev'.shop = written
          /\ failed' = failed
      BY <1>12, <2>1, <2>2 DEF CarryBack
    <3> QED BY <1>12, <2>1, <2>2, <3>1 DEF CarryBack, Quiet
  <2>3. CASE pc' = "stranded"
    <3>1. /\ prev'.code = prev.code /\ live'.shop \cup prev'.shop = written
          /\ failed' = failed \cup {"carry"}
      BY <1>12, <2>1, <2>3 DEF CarryBack
    <3> QED BY <1>12, <2>1, <2>3, <3>1 DEF CarryBack, Quiet
  <2> QED BY <1>12, <2>1, <2>2, <2>3 DEF CarryBack
<1>13. CASE RenameOut
    BY <1>13 DEF RenameOut, Quiet
<1>14. CASE RenameBack
    BY <1>14 DEF RenameBack, Quiet
<1>15. CASE Sweep
    BY <1>15 DEF Sweep, Quiet
<1> QED
    BY <1>1, <1>3, <1>4, <1>5, <1>6, <1>7, <1>8, <1>9, <1>10, <1>11, <1>12, <1>13,
       <1>14, <1>15 DEF Activate, RestoreTree

-----------------------------------------------------------------------------
\* The names of TreeSwitch's variables, read off the three trees.
Installed == IF Complete(live) THEN live.code
             ELSE IF Halfway THEN prev.code ELSE next.code
Shop == IF Halfway \/ pc \in {"rename_out", "rename_back", "stranded"}
        THEN prev.shop \cup live.shop ELSE live.shop
Fallback == IF ~Halfway /\ Complete(prev) THEN {prev.code} ELSE {}
AbstractUnchanged ==
  Installed' = Installed /\ Shop' = Shop /\ Fallback' = Fallback /\ Stranded' = Stranded

LEMMA RefinementInit == TreeInit => Abstract!Init
<1> SUFFICES ASSUME TreeInit PROVE Abstract!Init
    OBVIOUS
<1>1. live \in Dir /\ Complete(live) /\ pc = "ready" /\ failed = {}
    BY DEF TreeInit
<1>2. Complete(prev) => prev.code \in Releases
    BY DEF Complete
<1> QED BY <1>1, <1>2 DEF Abstract!Init, Halfway, Stranded, Dir, Complete

\* One step of the job or of the service is one step of the abstract switch, or none.
LEMMA RefinementStep ==
  ASSUME calm, IInv, SavedInv, Quiet, [TreeNext]_treeVars
  PROVE  Abstract!Next \/ AbstractUnchanged
<1>a. Absent.shop = {} /\ Absent.code = NoCode /\ NoCode \notin Releases
    BY ReleaseAssumption DEF Absent
<1> USE <1>a DEF Dir, Complete, Goto, Fail, history, trees, At, Exists, Halfway, Stranded
<1>t. live \in Dir /\ next \in Dir /\ prev \in Dir
    BY DEF IInv, TreeTypeOK
<1>w. /\ pc \in PrevWhole => Complete(prev)
      /\ pc \in NextBase \cup {"copy"} => Complete(next)
    BY DEF IInv, ReleaseInv
<1>s. live.shop \subseteq written /\ next.shop \subseteq written /\ prev.shop \subseteq written
      /\ written \subseteq Items /\ killed = FALSE
    BY DEF SavedInv, IInv, TreeTypeOK
<1>q. QuietInv /\ QuietShop
    BY DEF Quiet
<1> USE <1>t, <1>w, <1>s, <1>q DEF PrevWhole, NextBase, QuietInv, QuietShop, Between, Torn,
        Away, Fatal
<1>1. ASSUME NEW x \in Items, Save(x) PROVE Abstract!Save(x)
  <2>1. /\ pc' = pc /\ failed' = failed /\ next' = next /\ prev' = prev
        /\ live'.code = live.code /\ live'.shop = live.shop \cup {x}
        /\ pc \notin Window
    BY <1>1 DEF Save
  <2> QED BY <2>1 DEF Window, Abstract!Save
<1>2. ASSUME NEW t \in Releases, StartJob(t) PROVE Abstract!Next \/ AbstractUnchanged
  <2>1. /\ pc' = "extract" /\ failed' = {} /\ live' = live /\ next' = next /\ prev' = prev
        /\ Complete(live) /\ pc \in Ended
    BY <1>2 DEF StartJob, Running
  <2>2. CASE Stranded
    <3>1. Stranded /\ ~Stranded' /\ Installed' \in Releases /\ Shop' \in SUBSET Items
      BY <2>1, <2>2 DEF Installed, Shop
    <3>2. Abstract!Repair
      BY <3>1, Zenon DEF Abstract!Repair, Installed, Shop
    <3> QED BY <3>2 DEF Abstract!Next
  <2>3. CASE ~Stranded
    BY <2>1, <2>3 DEF AbstractUnchanged, Installed, Shop, Fallback, Ended
  <2> QED BY <2>2, <2>3
<1>3. CASE Extract \/ CopyPreserved \/ Discard \/ StripPrev \/ Finish
  <2> USE DEF AbstractUnchanged, Installed, Shop, Fallback
  <2>1. CASE Extract
      BY <2>1 DEF Extract
  <2>2. CASE CopyPreserved
      BY <2>2 DEF CopyPreserved
  <2>5. CASE Discard
      BY <2>5 DEF Discard
  <2>6. CASE StripPrev
      BY <2>6 DEF StripPrev
  <2>7. CASE Finish
      BY <2>7 DEF Finish
  <2> QED BY <1>3, <2>1, <2>2, <2>5, <2>6, <2>7
<1>4. CASE DropPrev \/ RenameAway
  <2>1. CASE UNCHANGED <<live, prev>>
    BY <1>4, <2>1 DEF DropPrev, RenameAway, AbstractUnchanged, Installed, Shop, Fallback
  <2>2. CASE ~UNCHANGED <<live, prev>>
    <3>1. Installed' = Installed /\ Shop' = Shop /\ Fallback' = {} /\ Stranded' = Stranded
      BY <1>4, <2>2 DEF DropPrev, RenameAway, Installed, Shop, Fallback
    <3> QED BY <3>1 DEF Abstract!Next, Abstract!Forget, Installed, Shop, Fallback
  <2> QED BY <2>1, <2>2
<1>5. CASE RenameIn
  <2>1. CASE live' = live
      BY <1>5, <2>1 DEF RenameIn, AbstractUnchanged, Installed, Shop, Fallback
  <2>2. CASE live' # live
    <3>1. Abstract!Switch(next.code)
      BY <1>5, <2>2 DEF RenameIn, Abstract!Switch
    <3>2. next.code \in Releases
      BY <1>5 DEF RenameIn
    <3> QED BY <3>1, <3>2 DEF Abstract!Next
  <2> QED BY <2>1, <2>2
<1>6. CASE Undo
  <2>1. CASE failed' = failed
    BY <1>6, <2>1 DEF Undo, AbstractUnchanged, Installed, Shop, Fallback
  <2>2. CASE failed' # failed
    <3>1. /\ Installed' = Installed /\ Shop' = Shop /\ Fallback' = Fallback
          /\ ~Stranded /\ Stranded'
      BY <1>6, <2>2 DEF Undo, Installed, Shop, Fallback
    <3> QED BY <3>1 DEF Abstract!Next, Abstract!Strand, Installed, Shop, Fallback
  <2> QED BY <2>1, <2>2
<1>7. CASE RestoreBegin \/ Sweep
  <2> USE DEF AbstractUnchanged, Installed, Shop, Fallback
  <2>1. CASE RestoreBegin
      BY <2>1 DEF RestoreBegin
  <2>2. CASE Sweep
      BY <2>2 DEF Sweep
  <2> QED BY <1>7, <2>1, <2>2
<1>8. CASE CarryBack \/ RenameOut
  <2> DEFINE same == Installed' = Installed /\ Shop' = Shop /\ Fallback' = Fallback
  <2>1. /\ Complete(live) /\ Exists(live) /\ Complete(prev) /\ ~Stranded /\ ~Halfway'
        /\ live.shop \cup prev.shop = written
    BY <1>8 DEF CarryBack, RenameOut
  <2>2. ASSUME CarryBack PROVE same
    <3>1. live'.code = live.code /\ prev'.code = prev.code
      BY <2>1, <2>2 DEF CarryBack
    <3>2. prev'.shop \cup live'.shop = written /\ pc' \in {"rename_out", "stranded"}
      BY <2>1, <2>2 DEF CarryBack
    <3>3. Shop = written /\ Shop' = written
      BY <2>1, <2>2, <3>2 DEF CarryBack, Shop
    <3> QED BY <2>1, <2>2, <3>1, <3>3 DEF CarryBack, Installed, Fallback
  <2>3. ASSUME RenameOut PROVE same
    BY <2>1, <2>3 DEF RenameOut, Installed, Shop, Fallback
  <2>4. same
    BY <1>8, <2>2, <2>3
  <2>5. CASE Stranded'
    BY <2>1, <2>4, <2>5 DEF Abstract!Next, Abstract!Strand, Installed, Shop, Fallback
  <2>6. CASE ~Stranded'
    BY <2>1, <2>4, <2>6 DEF AbstractUnchanged
  <2> QED BY <2>5, <2>6
<1>9. CASE RenameBack
  <2>1. CASE live' = live
    <3>1. /\ Installed' = Installed /\ Shop' = Shop /\ Fallback' = Fallback
          /\ ~Stranded /\ Stranded'
      BY <1>9, <2>1 DEF RenameBack, Installed, Shop, Fallback
    <3> QED BY <3>1 DEF Abstract!Next, Abstract!Strand, Installed, Shop, Fallback
  <2>2. CASE live' # live
    <3>1. Abstract!RollBack /\ Installed' = prev.code /\ prev.code \in Releases
      BY <1>9, <2>2 DEF RenameBack, Abstract!RollBack, Installed
    <3> QED BY <3>1 DEF Abstract!Next, Installed
  <2> QED BY <2>1, <2>2
<1>10. CASE Kill
    BY <1>10 DEF Kill
<1>11. CASE UNCHANGED treeVars
    BY <1>11 DEF treeVars, AbstractUnchanged, Installed, Shop, Fallback
<1> QED
  <2>1. ASSUME NEW x \in Items, Save(x) PROVE Abstract!Next
    BY <1>1, <2>1 DEF Abstract!Next
  <2> QED
    BY <2>1, <1>2, <1>3, <1>4, <1>5, <1>6, <1>7, <1>8, <1>9, <1>10, <1>11
    DEF TreeNext, Activate, RestoreTree

\* Nothing changes whether a shop is calm, and only the start of a job what it found.
LEMMA CalmStays ==
  [TreeNext]_treeVars => calm' = calm /\ (intact' = intact \/ \E t \in Releases : StartJob(t))
BY DEF treeVars, TreeNext, Save, StartJob, Activate, RestoreTree, Kill, Goto, Fail, history,
   Extract, CopyPreserved, DropPrev, RenameAway, RenameIn, Undo, Discard, StripPrev, Finish,
   RestoreBegin, CarryBack, RenameOut, RenameBack, Sweep

CalmInv == IInv /\ SavedInv /\ (calm /\ intact => Quiet)

LEMMA CalmInvariance == TreeSpec => []CalmInv
<1>1. TreeInit => CalmInv
    BY InitIInv, SavedInit, QuietInit DEF CalmInv
<1>2. CalmInv /\ [TreeNext]_treeVars => CalmInv'
  <2> SUFFICES ASSUME CalmInv, [TreeNext]_treeVars PROVE CalmInv'
      OBVIOUS
  <2>1. IInv' /\ SavedInv'
      BY StepIInv, SavedStep DEF CalmInv
  <2>2. ASSUME calm', intact' PROVE Quiet'
    <3>1. CASE \E t \in Releases : StartJob(t)
        BY <2>2, <3>1, QuietStart
    <3>2. CASE ~\E t \in Releases : StartJob(t)
      <4>1. calm /\ intact /\ IInv /\ SavedInv /\ Quiet
          BY <2>2, <3>2, CalmStays DEF CalmInv
      <4>2. CASE (\E x \in Items : Save(x)) \/ Activate \/ RestoreTree
          BY <4>1, <4>2, QuietStep
      <4>3. CASE UNCHANGED treeVars
          BY <4>1, <4>3 DEF treeVars, Quiet, QuietInv, QuietCode, QuietShop
      <4>4. ~Kill
          BY <4>1 DEF Kill
      <4> QED BY <3>2, <4>2, <4>3, <4>4 DEF TreeNext
    <3> QED BY <3>1, <3>2
  <2> QED BY <2>1, <2>2 DEF CalmInv
<1> QED BY <1>1, <1>2, PTL DEF TreeSpec

\* In a calm shop a job that found all the shop state in place ends with the release it
\* owes live, and every shop file ever saved with it.  If the undo of a rename raised or a
\* step of a rollback, the release before it is in .prev, and no shop file is gone.
THEOREM SettlesTheTree == TreeSpec => []SettledTree
<1>1. CalmInv => SettledTree
  <2> SUFFICES ASSUME CalmInv, calm, intact, pc \in Ended
               PROVE  IF failed \cap Fatal = {}
                        THEN /\ pc # "stranded"
                             /\ live.code = IF pc \in {"activated", "slipped"}
                                            THEN target ELSE before
                             /\ live.shop = written
                        ELSE /\ prev.code = before
                             /\ live.shop \cup prev.shop = written
      BY DEF SettledTree, Fatal
  <2>1. QuietInv /\ QuietCode /\ QuietShop
      BY DEF CalmInv, Quiet
  <2>2. ASSUME failed \cap Fatal = {}
        PROVE  /\ pc # "stranded" /\ live.shop = written
               /\ live.code = IF pc \in {"activated", "slipped"} THEN target ELSE before
    <3>1. pc # "stranded" /\ "undo" \notin failed
      BY <2>1, <2>2 DEF QuietInv, Fatal
    <3> QED BY <2>1, <3>1 DEF QuietCode, QuietShop, Ended, Torn, Away
  <2>3. ASSUME failed \cap Fatal # {}
        PROVE  prev.code = before /\ live.shop \cup prev.shop = written
    <3>1. "undo" \in failed \/ pc = "stranded"
      BY <2>1, <2>3 DEF QuietInv, Fatal
    <3>2. live.shop \cup prev.shop = written
      BY <2>1, <3>1 DEF QuietShop
    <3>3. prev.code = before
      BY <2>1, <3>1 DEF QuietInv, QuietCode, PrevWhole
    <3> QED BY <3>2, <3>3
  <2> QED BY <2>2, <2>3
<1> QED BY <1>1, CalmInvariance, PTL

\* With no kill and the service quiet in the windows, the copies and renames of
\* activate_bundle and restore_previous_tree implement TreeSwitch, whichever of them
\* raises: a switch and a rollback take effect at one step each, and neither they nor a
\* step that strands the tree takes a release or a shop file off the disk.
THEOREM SwitchIsAtomic == TreeSpec => AtomicSwitch
<1>1. TreeInit => Abstract!Init
    BY RefinementInit
<1>2. CalmInv /\ [TreeNext]_treeVars => (calm /\ intact => Abstract!Step)
  <2> SUFFICES ASSUME IInv, SavedInv, Quiet, [TreeNext]_treeVars, calm PROVE Abstract!Step
      BY DEF CalmInv
  <2>1. Abstract!Next \/ AbstractUnchanged
      BY RefinementStep
  <2> QED BY <2>1 DEF Abstract!Step, AbstractUnchanged, Installed, Shop, Fallback, Stranded
<1>3. CalmInv /\ [TreeNext]_treeVars => [calm /\ intact => Abstract!Step]_treeVars
    BY <1>2
<1> QED
    BY <1>1, <1>3, CalmInvariance, PTL DEF TreeSpec, AtomicSwitch


-----------------------------------------------------------------------------
(* Types.  A job file that is not idle names a release, and so does every    *)
(* record that is going to be written back.                                  *)

\* The places with a bundle at hand, and those with a stage of this job on record.
Fetched == {"read_fetch", "check_install", "set_install", "install"}
Working == Early \ {"start", "intent", "check_backup", "set_backup"}

\* The ends of a process.
Over == {"gone", "unborn"}

NamedInv ==
  /\ job.stage # "idle" => job.target \in Tags
  /\ \A a \in Admins : op[a].pc \in Applying \cup Holding => op[a].state.target \in Tags
  /\ \A a \in Admins : op[a].pc = "apply_start" => job.target \in Tags
  /\ poll.pc # "idle" => poll.state.target \in Tags
  /\ \A r \in Runners : Alive(r) =>
       /\ job.target \in Tags
       /\ runner[r].pc \notin {"start", "intent"} => runner[r].base.target \in Tags
       /\ runner[r].pc = "progress" => runner[r].seen.target \in Tags
       /\ runner[r].pc \in Fetched => runner[r].bundle \in Tags

TypeInv == TypeOK /\ NamedInv

\* A plain step of the Update Job stays on its side of the switch.
Stays(at, go) ==
  /\ at \in (Early \cup Mid) \ {"start", "intent", "progress"}
  /\ go \in (Early \cup Mid) \ {"start", "intent", "progress"}
  /\ at \in Early <=> go \in Early
  /\ go \in Fetched => at \in Fetched

\* A step that leaves the job file alone does not enter the places with a stage on record.
Plain(at, go) == Stays(at, go) /\ (go \in Working => at \in Working)

\* The stages that _set writes.
Reported == {"backing_up", "fetching_bundle", "installing", "syncing_deps", "applying_migrations"}

LEMMA PlainSteps ==
  /\ \A p \in {<<"check_backup", "set_backup">>, <<"check_fetch", "set_fetch">>,
                <<"check_install", "set_install">>, <<"check_deps", "set_deps">>,
                <<"check_migrate", "read_migrate">>, <<"check_restart", "read_restart">>,
                <<"backup", "read_backup">>, <<"browser", "check_migrate">>,
                <<"migrate", "read_outcome">>, <<"read_backup", "check_fetch">>,
                <<"read_fetch", "check_install">>, <<"read_install", "check_deps">>,
                <<"read_deps", "browser">>, <<"read_migrate", "set_migrate">>,
                <<"read_outcome", "set_outcome">>, <<"read_restart", "set_restart">>} :
       Plain(p[1], p[2])
  /\ \A p \in {<<"set_backup", "backup">>, <<"set_fetch", "fetch">>, <<"set_install", "install">>,
                <<"set_deps", "deps">>, <<"set_migrate", "migrate">>,
                <<"set_outcome", "check_restart">>} : Stays(p[1], p[2])
BY DEF Plain, Stays, Early, Mid, Fetched, Working

\* The kinds of step that Run is made of.
LEMMA RunCases ==
  ASSUME NEW r \in Runners, Run(r)
  PROVE  \/ Boot(r) \/ Stillbirth(r) \/ Intent(r) \/ Fetch(r) \/ ProgressRead(r) \/ ProgressWrite(r)
         \/ Install(r) \/ Deps(r) \/ SetRestarting(r) \/ FailRead(r) \/ Restore(r)
         \/ FailWrite(r) \/ FailRewrite(r) \/ Exit(r)
         \/ \E at, go : /\ Plain(at, go)
                        /\ \/ Check(r, at, go)
                           \/ Work(r, at, go) \/ Read(r, at, go)
         \/ \E at, go : \E stage \in Reported :
              Stays(at, go) /\ Set(r, at, stage, go)
         \/ RestartCall(r, "restart", "exit", "fail_read")
         \/ RestartCall(r, "fail_restart", "exit", "fail_rewrite")
<1> DEFINE Plainly == \E at, go : /\ Plain(at, go)
                                  /\ \/ Check(r, at, go)
                                     \/ Work(r, at, go) \/ Read(r, at, go)
           Sets == \E at, go : \E stage \in Reported :
                     Stays(at, go) /\ Set(r, at, stage, go)
<1>1. ASSUME NEW at, NEW go, Plain(at, go),
             \/ Check(r, at, go)
             \/ Work(r, at, go) \/ Read(r, at, go)
      PROVE  Plainly
  BY <1>1
<1>2. ASSUME NEW at, NEW go, NEW stage \in Reported, Stays(at, go),
             Set(r, at, stage, go)
      PROVE  Sets
  BY <1>2
<1> HIDE DEF Plainly, Sets
<1>3. \/ Check(r, "check_backup", "set_backup") \/ Check(r, "check_fetch", "set_fetch")
      \/ Check(r, "check_install", "set_install") \/ Check(r, "check_deps", "set_deps")
      \/ Check(r, "check_migrate", "read_migrate") \/ Check(r, "check_restart", "read_restart")
      => Plainly
  <2>1. /\ Plain("check_backup", "set_backup") /\ Plain("check_fetch", "set_fetch")
        /\ Plain("check_install", "set_install") /\ Plain("check_deps", "set_deps")
        /\ Plain("check_migrate", "read_migrate") /\ Plain("check_restart", "read_restart")
    BY PlainSteps
  <2> QED BY <1>1, <2>1
<1>4. \/ Work(r, "backup", "read_backup") \/ Work(r, "browser", "check_migrate")
      \/ Work(r, "migrate", "read_outcome")
      => Plainly
  <2>1. /\ Plain("backup", "read_backup") /\ Plain("browser", "check_migrate")
        /\ Plain("migrate", "read_outcome")
    BY PlainSteps
  <2> QED BY <1>1, <2>1
<1>5. \/ Read(r, "read_backup", "check_fetch") \/ Read(r, "read_fetch", "check_install")
      \/ Read(r, "read_install", "check_deps") \/ Read(r, "read_deps", "browser")
      \/ Read(r, "read_migrate", "set_migrate") \/ Read(r, "read_outcome", "set_outcome")
      \/ Read(r, "read_restart", "set_restart")
      => Plainly
  <2>1. /\ Plain("read_backup", "check_fetch") /\ Plain("read_fetch", "check_install")
        /\ Plain("read_install", "check_deps") /\ Plain("read_deps", "browser")
        /\ Plain("read_migrate", "set_migrate") /\ Plain("read_outcome", "set_outcome")
        /\ Plain("read_restart", "set_restart")
    BY PlainSteps
  <2> QED BY <1>1, <2>1
<1>6. \/ Set(r, "set_backup", "backing_up", "backup") \/ Set(r, "set_fetch", "fetching_bundle", "fetch")
      \/ Set(r, "set_install", "installing", "install") \/ Set(r, "set_deps", "syncing_deps", "deps")
      \/ Set(r, "set_migrate", "applying_migrations", "migrate")
      \/ Set(r, "set_outcome", "applying_migrations", "check_restart")
      => Sets
  <2>1. /\ Stays("set_backup", "backup") /\ Stays("set_fetch", "fetch") /\ Stays("set_install", "install")
        /\ Stays("set_deps", "deps") /\ Stays("set_migrate", "migrate")
        /\ Stays("set_outcome", "check_restart")
    BY PlainSteps
  <2>2. /\ "backing_up" \in Reported /\ "fetching_bundle" \in Reported /\ "installing" \in Reported
        /\ "syncing_deps" \in Reported /\ "applying_migrations" \in Reported
    BY DEF Reported
  <2> QED BY <1>2, <2>1, <2>2
<1> QED BY <1>3, <1>4, <1>5, <1>6 DEF Run, Plainly, Sets

\* A process that is not there holds nothing.
LEMMA AtRest ==
  /\ NoJob \in Job /\ NoJob.stage = "idle"
  /\ Dormant \in RunnerState /\ Dormant.pc = "none" /\ ~Dormant.left /\ ~Dormant.term
  /\ ~Dormant.cancelled
  /\ Idle \in OpState /\ Idle.pc = "idle" /\ PollRest \in PollState /\ PollRest.pc = "idle"
  /\ Gone \in RunnerState /\ Gone.pc = "gone" /\ ~Gone.left /\ ~Gone.term /\ ~Gone.cancelled
  /\ Unborn \in RunnerState /\ Unborn.pc = "unborn" /\ ~Unborn.left /\ ~Unborn.term
  /\ ~Unborn.cancelled
<1>1. NoJob \in Job /\ NoJob.stage = "idle"
  BY DEF NoJob, Job
<1> HIDE DEF NoJob
<1>2. /\ Dormant \in RunnerState /\ Dormant.pc = "none" /\ ~Dormant.left /\ ~Dormant.term
      /\ ~Dormant.cancelled
  BY <1>1 DEF Dormant, RunnerState
<1>3. Idle \in OpState /\ Idle.pc = "idle"
  BY <1>1 DEF Idle, OpState
<1>4. PollRest \in PollState /\ PollRest.pc = "idle"
  BY <1>1 DEF PollRest, PollState
<1> QED BY <1>1, <1>2, <1>3, <1>4 DEF Gone, Unborn, RunnerState

\* What a restart of the service does, at whatever step of a job it happens.
LEMMA ServiceRestarts ==
  ASSUME TypeOK, NEW r \in Runners, NEW go \in Early \cup Mid \cup Late,
         RestartService([runner EXCEPT ![r].pc = go])
  PROVE  /\ epoch' = epoch + 1 /\ running' = installed
         /\ op' = [a \in Admins |-> Idle] /\ poll' = PollRest
         /\ runner' \in [Runners -> RunnerState]
         /\ \A q \in Runners :
              \/ q # r /\ runner'[q] = runner[q]
              \/ runner'[q] = Gone
              \/ q = r /\ runner'[q] = [runner[r] EXCEPT !.pc = go]
              \/ ~Alive(q) /\ runner'[q] = runner[q]
<1>1. Gone \in RunnerState
  BY AtRest
<1>2. \A q \in Runners : runner[q] \in RunnerState
  BY DEF TypeOK
<1> HIDE DEF Gone
<1>3. [runner[r] EXCEPT !.pc = go] \in RunnerState
  BY <1>2 DEF RunnerState
<1> DEFINE moved == [runner EXCEPT ![r].pc = go]
<1>4. moved \in [Runners -> RunnerState] /\ moved[r] = [runner[r] EXCEPT !.pc = go]
      /\ \A q \in Runners \ {r} : moved[q] = runner[q]
  BY <1>2, <1>3 DEF TypeOK
<1>5. runner' = IF Docker THEN [q \in Runners |-> IF Alive(q) THEN Gone ELSE runner[q]] ELSE moved
  BY DEF RestartService
<1> HIDE DEF moved
<1>6. runner' \in [Runners -> RunnerState]
  BY <1>1, <1>2, <1>4, <1>5
<1>7. \A q \in Runners :
        \/ q # r /\ runner'[q] = runner[q]
        \/ runner'[q] = Gone
        \/ q = r /\ runner'[q] = [runner[r] EXCEPT !.pc = go]
        \/ ~Alive(q) /\ runner'[q] = runner[q]
  BY <1>4, <1>5
<1> QED BY <1>6, <1>7 DEF RestartService, PollRest

\* A record that is edited is a record of the same update: each edit that a party makes.
Edited(rec, new) == new \in Job /\ new.target = rec.target /\ new.prev = rec.prev

LEMMA RecordEdits ==
  ASSUME NEW rec \in Job
  PROVE  /\ Edited(rec, [rec EXCEPT !.stage = "failed", !.error = "start"])
         /\ Edited(rec, [rec EXCEPT !.cancel = TRUE])
         /\ Edited(rec, [rec EXCEPT !.stage = "failed", !.cancel = TRUE, !.error = "forced"])
         /\ Edited(rec, [rec EXCEPT !.stage = "succeeded_but_unhealthy"])
         /\ Edited(rec, [rec EXCEPT !.stage = "succeeded", !.error = "none", !.cancel = FALSE])
         /\ Edited(rec, [rec EXCEPT !.cancel = FALSE, !.error = "none", !.rollback = "none"])
         /\ \A stage \in InProgress : Edited(rec, [rec EXCEPT !.stage = stage])
         /\ \A x \in {"ok", "bad"} : Edited(rec, [rec EXCEPT !.rollback = x])
         /\ \A e \in Nat : Edited(rec, [rec EXCEPT !.stage = "restarting", !.error = "none",
                                                   !.cancel = FALSE, !.restart = e])
         /\ \A c \in BOOLEAN : Edited(rec, [rec EXCEPT !.stage = "failed", !.error = "rolled",
                                                       !.cancel = @ \/ c])
         /\ Edited(rec, [rec EXCEPT !.stage = "failed", !.error = "before", !.rollback = "none"])
<1> USE DEF Edited, Job, InProgress, Terminal
<1>1. /\ Edited(rec, [rec EXCEPT !.stage = "failed", !.error = "start"])
      /\ Edited(rec, [rec EXCEPT !.cancel = TRUE])
      /\ Edited(rec, [rec EXCEPT !.stage = "failed", !.cancel = TRUE, !.error = "forced"])
  OBVIOUS
<1>2. /\ Edited(rec, [rec EXCEPT !.stage = "succeeded_but_unhealthy"])
      /\ Edited(rec, [rec EXCEPT !.stage = "succeeded", !.error = "none", !.cancel = FALSE])
      /\ Edited(rec, [rec EXCEPT !.cancel = FALSE, !.error = "none", !.rollback = "none"])
  OBVIOUS
<1>3. /\ \A stage \in InProgress : Edited(rec, [rec EXCEPT !.stage = stage])
      /\ \A x \in {"ok", "bad"} : Edited(rec, [rec EXCEPT !.rollback = x])
  OBVIOUS
<1>4. \A e \in Nat : Edited(rec, [rec EXCEPT !.stage = "restarting", !.error = "none",
                                             !.cancel = FALSE, !.restart = e])
  OBVIOUS
<1>5. \A c \in BOOLEAN : Edited(rec, [rec EXCEPT !.stage = "failed", !.error = "rolled",
                                                 !.cancel = @ \/ c])
  OBVIOUS
<1>6. Edited(rec, [rec EXCEPT !.stage = "failed", !.error = "before", !.rollback = "none"])
  OBVIOUS
<1> QED BY <1>1, <1>2, <1>3, <1>4, <1>5, <1>6

\* A step of one web thread, and a step of one Update Job.
LEMMA OpMoves ==
  ASSUME op \in [Admins -> OpState], NEW a \in Admins, NEW state \in Job,
         NEW to \in {"idle"} \cup Applying \cup Cancelling, OpStep(a, to, state)
  PROVE  /\ op' \in [Admins -> OpState] /\ op'[a].pc = to /\ op'[a].state = state
         /\ \A b \in Admins \ {a} : op'[b] = op[b]
<1>1. [pc |-> to, state |-> state] \in OpState
  BY DEF OpState
<1> QED BY <1>1 DEF OpStep

LEMMA RunnerMoves ==
  ASSUME runner \in [Runners -> RunnerState], NEW r \in Runners, NEW new \in RunnerState,
         Advance(r, new)
  PROVE  /\ runner' \in [Runners -> RunnerState] /\ runner'[r] = new
         /\ \A q \in Runners \ {r} : runner'[q] = runner[q]
BY DEF Advance

\* What the types say of the parts.
LEMMA Parts ==
  ASSUME TypeOK
  PROVE  /\ job \in Job /\ flag \in BOOLEAN /\ pid \in Runners \cup {0}
         /\ runner \in [Runners -> RunnerState] /\ op \in [Admins -> OpState]
         /\ installed \in Tags /\ fallback \in Tags \cup {NoTag} /\ running \in Tags
         /\ epoch \in Nat /\ slipped \in BOOLEAN
         /\ \A a \in Admins : /\ op[a].state \in Job
                              /\ op[a].pc \in {"idle"} \cup Applying \cup Cancelling
         /\ poll.state \in Job /\ poll.pc \in {"idle", "probe", "mismatch"}
         /\ poll.late \in BOOLEAN
         /\ \A r \in Runners : /\ runner[r] \in RunnerState /\ runner[r].base \in Job
                               /\ runner[r].seen \in Job
                               /\ runner[r].bundle \in Tags \cup {NoTag}
                               /\ runner[r].left \in BOOLEAN /\ runner[r].term \in BOOLEAN
                               /\ runner[r].cancelled \in BOOLEAN
                               /\ runner[r].pc \in Early \cup Mid \cup Late \cup {"none", "gone", "unborn"}
<1>1. \A a \in Admins : op[a] \in OpState
  BY DEF TypeOK
<1>2. \A r \in Runners : runner[r] \in RunnerState
  BY DEF TypeOK
<1>3. \A a \in Admins : op[a].state \in Job /\ op[a].pc \in {"idle"} \cup Applying \cup Cancelling
  BY <1>1 DEF OpState
<1>4. \A r \in Runners : /\ runner[r].base \in Job
                         /\ runner[r].seen \in Job
                         /\ runner[r].bundle \in Tags \cup {NoTag}
                         /\ runner[r].left \in BOOLEAN /\ runner[r].term \in BOOLEAN
                         /\ runner[r].cancelled \in BOOLEAN
                         /\ runner[r].pc \in Early \cup Mid \cup Late \cup {"none", "gone", "unborn"}
  BY <1>2 DEF RunnerState
<1> QED BY <1>2, <1>3, <1>4 DEF TypeOK, PollState

LEMMA TypeInit == Init => TypeInv
<1> SUFFICES ASSUME Init PROVE TypeInv
  OBVIOUS
<1>3. TypeOK
  <2>1. op \in [Admins -> OpState] /\ poll \in PollState
    BY AtRest DEF Init, PollRest
  <2>2. runner \in [Runners -> RunnerState] /\ job \in Job
    BY AtRest DEF Init
  <2>3. 0 \in 0..MaxOutages
    BY JobAssumption
  <2> QED BY <2>1, <2>2, <2>3 DEF Init, TypeOK
<1>4. NamedInv
  BY AtRest DEF Init, NamedInv, Alive, Applying, Holding
<1> QED BY <1>3, <1>4 DEF TypeInv

\* The web threads.
LEMMA TypeOps ==
  ASSUME TypeInv, NEW a \in Admins, Apply(a) \/ Cancel(a)
  PROVE  TypeInv'
<1>t. TypeOK /\ NamedInv
  BY DEF TypeInv
<1> USE DEF files, tree, service, past, forced
<1> USE Parts, AtRest
<1>1. CASE ApplyRead(a)
  <2>1. PICK t \in Tags : OpStep(a, "apply_clear", [NoJob EXCEPT !.stage = "queued", !.target = t])
    BY <1>1 DEF ApplyRead
  <2> DEFINE rec == [NoJob EXCEPT !.stage = "queued", !.target = t]
  <2>2. rec \in Job /\ rec.target \in Tags
    BY DEF Job, InProgress
  <2> HIDE DEF rec
  <2>3. /\ op' \in [Admins -> OpState] /\ op'[a].state.target \in Tags
        /\ op'[a].pc = "apply_clear" /\ \A b \in Admins \ {a} : op'[b] = op[b]
    BY <1>t, <2>1, <2>2, OpMoves DEF Applying, rec
  <2> QED BY <1>1, <1>t, <2>3 DEF ApplyRead, TypeInv, TypeOK, NamedInv, Alive
<1>2. CASE ApplyClear(a)
  <2> DEFINE rec == [op[a].state EXCEPT !.prev = installed]
  <2>1. rec \in Job /\ rec.target \in Tags
    BY <1>t, <1>2 DEF ApplyClear, OpAt, Job, NamedInv, Applying
  <2>2. OpStep(a, "apply_write", rec)
    BY <1>2 DEF ApplyClear
  <2> HIDE DEF rec
  <2>3. /\ op' \in [Admins -> OpState] /\ op'[a].state.target \in Tags
        /\ op'[a].pc = "apply_write" /\ \A b \in Admins \ {a} : op'[b] = op[b]
    BY <1>t, <2>1, <2>2, OpMoves DEF Applying
  <2> QED BY <1>2, <1>t, <2>3 DEF ApplyClear, TypeInv, TypeOK, NamedInv, Alive
<1>3. CASE ApplyWrite(a)
  <2>1. job' = op[a].state /\ op[a].state.target \in Tags /\ op[a].state \in Job
    BY <1>t, <1>3 DEF ApplyWrite, OpAt, NamedInv, Applying
  <2>2. /\ op' \in [Admins -> OpState] /\ op'[a].state = op[a].state
        /\ \A b \in Admins \ {a} : op'[b] = op[b]
    BY <1>t, <1>3, <2>1, OpMoves DEF ApplyWrite, Applying
  <2> QED BY <1>3, <1>t, <2>1, <2>2 DEF ApplyWrite, TypeInv, TypeOK, NamedInv, Alive
<1>4. CASE ApplyStart(a)
  <2>1. /\ op' \in [Admins -> OpState] /\ op'[a].pc = "idle" /\ op[a].state.target \in Tags
        /\ \A b \in Admins \ {a} : op'[b] = op[b]
    BY <1>t, <1>4, OpMoves DEF ApplyStart, OpAt, NamedInv, Applying
  <2>2. CASE job' = job /\ runner' = runner
    BY <1>4, <1>t, <2>1, <2>2 DEF ApplyStart, TypeInv, TypeOK, NamedInv, Alive, Applying, Holding
  <2>3. CASE /\ job' = [op[a].state EXCEPT !.stage = "failed", !.error = "start"] /\ runner' = runner
    <3>1. job' \in Job /\ job'.target \in Tags
      BY <1>t, <2>1, <2>3, RecordEdits DEF Edited
    <3> QED BY <1>4, <1>t, <2>1, <2>3, <3>1 DEF ApplyStart, TypeInv, TypeOK, NamedInv, Alive,
       Applying, Holding
  <2>4. ASSUME NEW r \in Runners, runner' = [runner EXCEPT ![r].pc = "start"], job' = job,
               job.target \in Tags
        PROVE  TypeInv'
    <3>1. [runner[r] EXCEPT !.pc = "start"] \in RunnerState
      BY <1>t DEF RunnerState, Early
    <3>2. /\ runner' \in [Runners -> RunnerState] /\ runner'[r] = [runner[r] EXCEPT !.pc = "start"]
          /\ \A q \in Runners \ {r} : runner'[q] = runner[q]
      BY <1>t, <2>4, <3>1
    <3>3. runner'[r].pc = "start"
      BY <1>t, <3>2 DEF RunnerState
    <3> QED BY <1>4, <1>t, <2>1, <2>4, <3>2, <3>3 DEF ApplyStart, TypeInv, TypeOK, NamedInv,
       Alive, Applying, Holding, Fetched
  <2>5. job.target \in Tags
    BY <1>t, <1>4 DEF ApplyStart, OpAt, NamedInv
  <2> QED BY <1>4, <2>2, <2>3, <2>4, <2>5 DEF ApplyStart
<1>5. CASE CancelRead(a)
  <2>1. job.target \in Tags
    BY <1>t, <1>5 DEF CancelRead, NamedInv, InProgress
  <2>2. /\ op' \in [Admins -> OpState] /\ op'[a].state = job
        /\ \A b \in Admins \ {a} : op'[b] = op[b]
    BY <1>t, <1>5, OpMoves DEF CancelRead, Cancelling, Holding
  <2> QED BY <1>5, <1>t, <2>1, <2>2 DEF CancelRead, TypeInv, TypeOK, NamedInv, Alive
<1>6. CASE CancelFlag(a)
  <2>1. /\ op' \in [Admins -> OpState] /\ op'[a].state = op[a].state /\ op[a].state.target \in Tags
        /\ op'[a].pc = "cancel_write"
        /\ \A b \in Admins \ {a} : op'[b] = op[b]
    BY <1>t, <1>6, OpMoves DEF CancelFlag, OpAt, NamedInv, Cancelling, Holding
  <2> QED BY <1>6, <1>t, <2>1 DEF CancelFlag, TypeInv, TypeOK, NamedInv, Alive
<1>7. CASE CancelWrite(a) \/ CancelForce(a)
  <2>1. /\ job' \in Job /\ job'.target = op[a].state.target /\ op[a].state.target \in Tags
        /\ op[a].pc \in Holding
    <3>1. op[a].pc \in Holding /\ op[a].state.target \in Tags /\ op[a].state \in Job
      BY <1>t, <1>7 DEF CancelWrite, CancelForce, OpAt, NamedInv, Holding
    <3>2. Edited(op[a].state, job')
      BY <1>7, <3>1, RecordEdits DEF CancelWrite, CancelForce
    <3> QED BY <3>1, <3>2 DEF Edited
  <2>2. /\ op' \in [Admins -> OpState] /\ op'[a].pc \notin Applying \cup Holding
        /\ \A b \in Admins \ {a} : op'[b] = op[b]
    BY <1>t, <1>7, OpMoves DEF CancelWrite, CancelForce, Cancelling, Holding, Applying
  <2>3. op'[a].pc # "apply_start"
    BY <2>2 DEF Applying
  <2>4. told' \in BOOLEAN /\ outlived' \subseteq Runners
    BY <1>7, <1>t DEF CancelWrite, CancelForce, NoteForcedEnd, TypeOK
  <2> QED BY <1>7, <1>t, <2>1, <2>2, <2>3, <2>4 DEF CancelWrite, CancelForce, TypeInv, TypeOK,
     NamedInv, Alive
<1>8. CASE CancelStop(a)
  <2>1. PICK hit : runner' = [r \in Runners |-> IF r \in hit /\ Alive(r)
                                               THEN [runner[r] EXCEPT !.term = TRUE] ELSE runner[r]]
    BY <1>8 DEF CancelStop
  <2>2. \A r \in Runners : /\ runner'[r] \in RunnerState /\ runner'[r].pc = runner[r].pc
                          /\ runner'[r].base = runner[r].base /\ runner'[r].seen = runner[r].seen
                          /\ runner'[r].bundle = runner[r].bundle
    BY <1>t, <2>1 DEF RunnerState
  <2>3. runner' \in [Runners -> RunnerState]
    BY <2>1, <2>2
  <2>4. /\ op' \in [Admins -> OpState] /\ op'[a].pc = "cancel_wait"
        /\ \A b \in Admins \ {a} : op'[b] = op[b]
    BY <1>t, <1>8, OpMoves DEF CancelStop, Cancelling
  <2> QED BY <1>8, <1>t, <2>2, <2>3, <2>4 DEF CancelStop, TypeInv, TypeOK, NamedInv, Alive,
     Applying, Holding
<1>9. CASE CancelDone(a) \/ CancelClear(a)
  <2>1. /\ op' \in [Admins -> OpState] /\ op'[a].pc = "idle" /\ flag' \in BOOLEAN
        /\ \A b \in Admins \ {a} : op'[b] = op[b]
    BY <1>t, <1>9, OpMoves DEF CancelDone, CancelClear
  <2> QED BY <1>9, <1>t, <2>1 DEF CancelDone, CancelClear, TypeInv, TypeOK, NamedInv, Alive,
     Applying, Holding
<1>10. CASE CancelTimeout(a)
  <2>1. job.target \in Tags
    BY <1>t, <1>10 DEF CancelTimeout, NamedInv, InProgress
  <2>2. /\ op' \in [Admins -> OpState] /\ op'[a].state = job /\ op'[a].pc = "cancel_force"
        /\ \A b \in Admins \ {a} : op'[b] = op[b]
    BY <1>t, <1>10, OpMoves DEF CancelTimeout, Cancelling, Holding
  <2> QED BY <1>10, <1>t, <2>1, <2>2 DEF CancelTimeout, TypeInv, TypeOK, NamedInv, Alive
<1> QED BY <1>1, <1>2, <1>3, <1>4, <1>5, <1>6, <1>7, <1>8, <1>9, <1>10 DEF Apply, Cancel

\* The status poll and the world around.
LEMMA TypeWorld ==
  ASSUME TypeInv, Poll \/ GraceElapses \/ Outage
  PROVE  TypeInv'
<1>t. TypeOK /\ NamedInv
  BY DEF TypeInv
<1> USE DEF files, tree, service, past, forced
<1> USE Parts, AtRest
<1>1. CASE PollRead
  <2>1. /\ poll' \in PollState /\ poll'.state = job /\ job.target \in Tags
    <3>1. job.target \in Tags /\ grace \in BOOLEAN
      BY <1>t, <1>1 DEF PollRead, NamedInv, TypeOK
    <3>2. CASE poll' = [pc |-> "probe", state |-> job, late |-> grace]
      BY <1>t, <3>1, <3>2 DEF PollState
    <3>3. CASE poll' = [pc |-> "mismatch", state |-> job, late |-> TRUE]
      BY <1>t, <3>1, <3>3 DEF PollState
    <3> QED BY <1>1, <3>1, <3>2, <3>3 DEF PollRead
  <2> QED BY <1>1, <1>t, <2>1 DEF PollRead, TypeInv, TypeOK, NamedInv, Alive
<1>2. CASE PollMismatch \/ PollProbe
  <2>1. /\ poll' \in PollState /\ poll'.pc = "idle" /\ poll.state.target \in Tags
    BY <1>t, <1>2 DEF PollMismatch, PollProbe, NamedInv
  <2>2. job' = job \/ Edited(poll.state, job')
    BY <1>t, <1>2, RecordEdits DEF PollMismatch, PollProbe
  <2>3. job' \in Job /\ (job' = job \/ job'.target \in Tags)
    BY <1>t, <2>1, <2>2 DEF Edited
  <2> QED BY <1>2, <1>t, <2>1, <2>3 DEF PollMismatch, PollProbe, TypeInv, TypeOK, NamedInv, Alive
<1>3. CASE GraceElapses
  BY <1>3, <1>t DEF GraceElapses, TypeInv, TypeOK, NamedInv, Alive
<1>4. CASE Outage
  <2>1. /\ epoch' = epoch + 1 /\ running' = installed /\ outages' = outages + 1
        /\ op' = [a \in Admins |-> Idle] /\ poll' = PollRest
        /\ runner' = [r \in Runners |-> IF Alive(r) THEN Gone ELSE runner[r]]
        /\ outages < MaxOutages
    BY <1>4 DEF Outage, RestartService, PollRest
  <2>2. \A r \in Runners : runner'[r] \in RunnerState /\ ~Alive(r)'
    BY <1>t, <2>1 DEF Alive
  <2>3. /\ runner' \in [Runners -> RunnerState] /\ outages' \in 0..MaxOutages
        /\ op' \in [Admins -> OpState] /\ poll' \in PollState
        /\ \A a \in Admins : op'[a].pc = "idle"
        /\ poll'.pc = "idle"
    BY <1>t, <2>1, <2>2, JobAssumption DEF TypeOK, OpState, PollState, PollRest, Idle
  <2> QED BY <1>4, <1>t, <2>1, <2>2, <2>3 DEF Outage, TypeInv, TypeOK, NamedInv, Applying, Holding
<1> QED BY <1>1, <1>2, <1>3, <1>4 DEF Poll

\* The Update Job, when it only moves on: it keeps what it holds, or reads the job file.
LEMMA TypeMoves ==
  ASSUME TypeInv, NEW r \in Runners, NEW new \in RunnerState, Alive(r), Advance(r, new),
         new.pc \notin {"start", "intent", "none"},
         new.base.target \in Tags \/ new.pc \in Over,
         new.pc = "progress" => new.seen.target \in Tags,
         new.pc \in Fetched => new.bundle \in Tags,
         job' \in Job, job' = job \/ job'.target \in Tags,
         flag' \in BOOLEAN, pid' \in Runners \cup {0}, installed' \in Tags,
         fallback' \in Tags \cup {NoTag}, grace' \in BOOLEAN,
         UNCHANGED <<epoch, running, op, poll, asked, told, outlived, outages, deploy>>,
         slipped' \in BOOLEAN
  PROVE  TypeInv'
<1>t. TypeOK /\ NamedInv
  BY DEF TypeInv
<1>1. /\ runner' \in [Runners -> RunnerState] /\ runner'[r] = new
      /\ \A q \in Runners \ {r} : runner'[q] = runner[q]
  BY <1>t, Parts, RunnerMoves
<1>2. TypeOK'
  BY <1>t, <1>1 DEF TypeOK
<1>3. NamedInv'
  BY <1>t, <1>1 DEF NamedInv, Alive, Over
<1> QED BY <1>2, <1>3 DEF TypeInv

\* Every step of an Update Job keeps the types.
LEMMA TypeRun ==
  ASSUME TypeInv, NEW r \in Runners, Run(r) \/ Die(r)
  PROVE  TypeInv'
<1>t. TypeOK /\ NamedInv
  BY DEF TypeInv
<1> USE DEF files, tree, service, past, forced, Outside, RunAt
<1> DEFINE me == runner[r]
<1>p. /\ job \in Job /\ flag \in BOOLEAN /\ pid \in Runners \cup {0} /\ installed \in Tags
      /\ fallback \in Tags \cup {NoTag} /\ grace \in BOOLEAN /\ epoch \in Nat
      /\ slipped \in BOOLEAN
      /\ me \in RunnerState /\ me.base \in Job /\ me.seen \in Job
      /\ me.bundle \in Tags \cup {NoTag} /\ me.left \in BOOLEAN /\ me.cancelled \in BOOLEAN
  BY <1>t, Parts DEF TypeOK
<1>n. Alive(r) => /\ job.target \in Tags
                  /\ me.pc \notin {"start", "intent"} => me.base.target \in Tags
                  /\ me.pc = "progress" => me.seen.target \in Tags
                  /\ me.pc \in Fetched => me.bundle \in Tags
  BY <1>t DEF NamedInv
<1> HIDE DEF me
\* A step that only goes on, possibly with another record in hand.
<1>m. ASSUME NEW new \in RunnerState, Alive(r), Advance(r, new), UNCHANGED <<files, tree, grace>>,
             UNCHANGED <<epoch, running, op, poll, asked, told, outlived, slipped, outages, deploy>>,
             new.pc \notin {"start", "intent", "none"}, new.base.target \in Tags,
             new.pc = "progress" => new.seen.target \in Tags,
             new.pc \in Fetched => new.bundle \in Tags
      PROVE  TypeInv'
  BY <1>m, <1>p, TypeMoves
<1>f. ASSUME NEW c \in BOOLEAN, Alive(r), me.pc \notin {"start", "intent"}, Raise(r, c),
             UNCHANGED <<files, tree, grace>>,
             UNCHANGED <<epoch, running, op, poll, asked, told, outlived, slipped, outages, deploy>>
      PROVE  TypeInv'
  <2> DEFINE new == [me EXCEPT !.pc = "fail_read", !.cancelled = c]
  <2>1. new \in RunnerState /\ new.pc = "fail_read" /\ new.base = me.base
    BY <1>p, <1>f DEF RunnerState, Late
  <2>2. Advance(r, new)
    BY <1>f DEF Raise, me
  <2> HIDE DEF new
  <2> QED BY <1>m, <1>n, <1>f, <2>1, <2>2 DEF Fetched
<1>g. ASSUME NEW go \in Early \cup Mid \cup Late, Alive(r), Advance(r, [me EXCEPT !.pc = go]),
             UNCHANGED <<files, tree, grace>>,
             UNCHANGED <<epoch, running, op, poll, asked, told, outlived, slipped, outages, deploy>>,
             go \notin {"start", "intent", "progress"}, me.pc \notin {"start", "intent"},
             go \in Fetched => me.pc \in Fetched
      PROVE  TypeInv'
  <2> DEFINE new == [me EXCEPT !.pc = go]
  <2>1. new \in RunnerState /\ new.pc = go /\ new.base = me.base /\ new.bundle = me.bundle
    BY <1>p, <1>g DEF RunnerState
  <2>2. go # "none"
    BY DEF Early, Mid, Late
  <2> HIDE DEF new
  <2> QED BY <1>m, <1>n, <1>g, <2>1, <2>2 DEF new
<1>1. CASE Boot(r)
  <2> DEFINE new == [me EXCEPT !.pc = "intent"]
  <2>1. new \in RunnerState /\ new.pc = "intent"
    BY <1>p DEF RunnerState, Early
  <2>2. runner' = [runner EXCEPT ![r] = new] /\ pid' = r /\ me.pc = "start" /\ Alive(r)
    BY <1>1 DEF Boot, Advance, me, Alive
  <2> HIDE DEF new
  <2>3. /\ runner' \in [Runners -> RunnerState] /\ runner'[r] = new
        /\ \A q \in Runners \ {r} : runner'[q] = runner[q]
    BY <1>t, <2>1, <2>2 DEF TypeOK
  <2> QED BY <1>1, <1>t, <1>n, <2>1, <2>2, <2>3 DEF Boot, TypeInv, TypeOK, NamedInv, Alive, Fetched
<1>2. CASE Intent(r)
  <2> DEFINE fresh == [job EXCEPT !.cancel = FALSE, !.error = "none", !.rollback = "none"]
             go == [me EXCEPT !.pc = "check_backup", !.base = fresh]
             fail == [me EXCEPT !.pc = "fail_write", !.base = job]
  <2>1. fresh \in Job /\ fresh.target = job.target
    BY <1>p, RecordEdits DEF Edited
  <2>2. Alive(r) /\ job.target \in Tags
    BY <1>2, <1>n DEF Intent, Alive
  <2>3. Advance(r, go) \/ Advance(r, fail)
    BY <1>2 DEF Intent, me
  <2> HIDE DEF fresh
  <2>4. /\ go \in RunnerState /\ go.pc = "check_backup" /\ go.base = fresh
        /\ fail \in RunnerState /\ fail.pc = "fail_write" /\ fail.base = job
    BY <1>p, <2>1 DEF RunnerState, Early, Late
  <2> HIDE DEF go, fail
  <2> QED BY <1>2, <1>m, <2>1, <2>2, <2>3, <2>4 DEF Intent, Fetched
<1>3. ASSUME NEW at, NEW go, Plain(at, go), Check(r, at, go) \/ Work(r, at, go) PROVE TypeInv'
  <2>1. /\ Alive(r) /\ me.pc = at /\ at \notin {"start", "intent"}
        /\ go \in Early \cup Mid /\ go \notin {"start", "intent", "progress"}
        /\ go \in Fetched => at \in Fetched
    BY <1>3 DEF Check, Work, Plain, Stays, Alive, Early, Mid, me
  <2>2. \/ Raise(r, TRUE) \/ Raise(r, FALSE) \/ Advance(r, [me EXCEPT !.pc = go])
    BY <1>3 DEF Check, Work, me
  <2>3. /\ UNCHANGED <<files, tree, grace>>
        /\ UNCHANGED <<epoch, running, op, poll, asked, told, outlived, slipped, outages, deploy>>
    BY <1>3 DEF Check, Work
  <2> QED BY <1>f, <1>g, <2>1, <2>2, <2>3
<1>4. ASSUME NEW at, NEW go, Plain(at, go), Read(r, at, go) PROVE TypeInv'
  <2> DEFINE new == [me EXCEPT !.pc = go, !.base = job]
  <2>1. /\ Alive(r) /\ me.pc = at /\ at \notin {"start", "intent"}
        /\ go \in Early \cup Mid /\ go \notin {"start", "intent", "progress", "none"}
        /\ go \in Fetched => at \in Fetched
    BY <1>4 DEF Read, Plain, Stays, Alive, Early, Mid, me
  <2>2. new \in RunnerState /\ new.pc = go /\ new.base = job /\ new.bundle = me.bundle
    BY <1>p, <2>1 DEF RunnerState
  <2>3. /\ Advance(r, new) /\ UNCHANGED <<files, tree, grace>>
        /\ UNCHANGED <<epoch, running, op, poll, asked, told, outlived, slipped, outages, deploy>>
    BY <1>4 DEF Read, me
  <2> HIDE DEF new
  <2> QED BY <1>m, <1>n, <2>1, <2>2, <2>3
<1>5. ASSUME NEW at, NEW go, NEW stage \in Reported, Stays(at, go), Set(r, at, stage, go)
      PROVE  TypeInv'
  <2> DEFINE new == [me EXCEPT !.pc = go]
  <2>1. /\ Alive(r) /\ me.pc = at /\ at \notin {"start", "intent"}
        /\ go \in Early \cup Mid /\ go \notin {"start", "intent", "progress", "none"}
        /\ go \in Fetched => at \in Fetched
    BY <1>5 DEF Set, Stays, Alive, Early, Mid, me
  <2>2. new \in RunnerState /\ new.pc = go /\ new.base = me.base /\ new.bundle = me.bundle
    BY <1>p, <2>1 DEF RunnerState
  <2>3. stage \in InProgress
    BY DEF Reported, InProgress
  <2>4. job' \in Job /\ job'.target \in Tags
    BY <1>5, <1>n, <1>p, <2>1, <2>3, RecordEdits DEF Set, Edited, me
  <2>5. /\ Advance(r, new) /\ UNCHANGED <<flag, pid, tree, grace>>
        /\ UNCHANGED <<epoch, running, op, poll, asked, told, outlived, slipped, outages, deploy>>
    BY <1>5 DEF Set, me
  <2> HIDE DEF new
  <2> QED BY <1>n, <1>p, <2>1, <2>2, <2>4, <2>5, TypeMoves
<1>6. CASE Fetch(r)
  <2> DEFINE new == [me EXCEPT !.pc = "read_fetch", !.seen = NoJob, !.bundle = me.base.target]
  <2>1. Alive(r) /\ me.pc = "fetch" /\ me.base.target \in Tags
    BY <1>6, <1>n DEF Fetch, Alive, me
  <2>2. /\ UNCHANGED <<files, tree, grace>>
        /\ UNCHANGED <<epoch, running, op, poll, asked, told, outlived, slipped, outages, deploy>>
        /\ Raise(r, FALSE) \/ Advance(r, new)
    BY <1>6 DEF Fetch, me
  <2>3. /\ new \in RunnerState /\ new.pc = "read_fetch" /\ new.base = me.base
        /\ new.bundle = me.base.target
    BY <1>p, <2>1, AtRest DEF RunnerState, Early
  <2> HIDE DEF new
  <2> QED BY <1>f, <1>m, <2>1, <2>2, <2>3
<1>7. CASE ProgressRead(r)
  <2> DEFINE new == [me EXCEPT !.pc = "progress", !.seen = job]
  <2>1. Alive(r) /\ me.pc = "fetch" /\ me.base.target \in Tags /\ job.target \in Tags
    BY <1>7, <1>n DEF ProgressRead, Alive, me
  <2>2. /\ UNCHANGED <<files, tree, grace>> /\ Advance(r, new)
        /\ UNCHANGED <<epoch, running, op, poll, asked, told, outlived, slipped, outages, deploy>>
    BY <1>7 DEF ProgressRead, me
  <2>3. new \in RunnerState /\ new.pc = "progress" /\ new.base = me.base /\ new.seen = job
    BY <1>p, <2>1 DEF RunnerState, Early
  <2> HIDE DEF new
  <2> QED BY <1>m, <2>1, <2>2, <2>3 DEF Fetched
<1>8. CASE ProgressWrite(r)
  <2> DEFINE new == [me EXCEPT !.pc = "fetch"]
  <2>1. /\ Alive(r) /\ me.pc = "progress" /\ me.base.target \in Tags
        /\ job' = me.seen /\ me.seen.target \in Tags
    BY <1>8, <1>n DEF ProgressWrite, Alive, me
  <2>2. /\ UNCHANGED <<flag, pid, tree, grace>> /\ Advance(r, new)
        /\ UNCHANGED <<epoch, running, op, poll, asked, told, outlived, slipped, outages, deploy>>
    BY <1>8 DEF ProgressWrite, me
  <2>3. new \in RunnerState /\ new.pc = "fetch" /\ new.base = me.base
    BY <1>p, <2>1 DEF RunnerState, Early
  <2> HIDE DEF new
  <2> QED BY <1>p, <2>1, <2>2, <2>3, TypeMoves DEF Fetched
<1>9. CASE Install(r)
  <2> DEFINE new == [me EXCEPT !.pc = "read_install", !.left = TRUE]
             late == [me EXCEPT !.pc = "fail_read", !.cancelled = FALSE]
  <2>1. Alive(r) /\ me.pc = "install" /\ me.base.target \in Tags /\ me.bundle \in Tags
    BY <1>9, <1>n DEF Install, Alive, Fetched, me
  <2>2. /\ UNCHANGED <<files, grace>>
        /\ UNCHANGED <<epoch, running, op, poll, asked, told, outlived, outages, deploy>>
        /\ \/ Raise(r, FALSE) /\ UNCHANGED <<tree, slipped>>
           \/ /\ Advance(r, new) /\ installed' = me.bundle /\ fallback' = installed
              /\ slipped' = slipped
           \/ /\ Advance(r, late) /\ installed' = me.bundle /\ fallback' = installed
              /\ slipped' = TRUE
    BY <1>9 DEF Install, Raise, me
  <2>3. /\ new \in RunnerState /\ new.pc = "read_install" /\ new.base = me.base
        /\ late \in RunnerState /\ late.pc = "fail_read" /\ late.base = me.base
    BY <1>p, <2>1 DEF RunnerState, Mid, Late
  <2> HIDE DEF new, late
  <2>4. CASE Raise(r, FALSE) /\ UNCHANGED <<tree, slipped>>
    BY <1>f, <2>1, <2>2, <2>4
  <2>5. CASE /\ Advance(r, new) /\ installed' = me.bundle /\ fallback' = installed
             /\ slipped' = slipped
    BY <1>p, <2>1, <2>2, <2>3, <2>5, TypeMoves DEF Fetched
  <2>6. CASE /\ Advance(r, late) /\ installed' = me.bundle /\ fallback' = installed
             /\ slipped' = TRUE
    BY <1>p, <2>1, <2>2, <2>3, <2>6, TypeMoves DEF Fetched
  <2> QED BY <2>2, <2>4, <2>5, <2>6
<1>10. CASE Deps(r)
  <2>1. Alive(r) /\ me.pc = "deps"
    BY <1>10 DEF Deps, Alive, me
  <2>2. /\ UNCHANGED <<files, tree, grace>>
        /\ UNCHANGED <<epoch, running, op, poll, asked, told, outlived, slipped, outages, deploy>>
        /\ Raise(r, TRUE) \/ Raise(r, FALSE) \/ Advance(r, [me EXCEPT !.pc = "read_deps"])
    BY <1>10 DEF Deps, me
  <2>3. "read_deps" \in Early \cup Mid \cup Late /\ "read_deps" \notin Fetched
    BY DEF Mid, Fetched
  <2> QED BY <1>f, <1>g, <2>1, <2>2, <2>3
<1>11. CASE SetRestarting(r)
  <2> DEFINE new == [me EXCEPT !.pc = "restart"]
  <2>1. Alive(r) /\ me.pc = "set_restart" /\ me.base.target \in Tags
    BY <1>11, <1>n DEF SetRestarting, Alive, me
  <2>2. /\ UNCHANGED <<flag, pid, tree>> /\ Advance(r, new) /\ grace' = FALSE
        /\ UNCHANGED <<epoch, running, op, poll, asked, told, outlived, slipped, outages, deploy>>
    BY <1>11 DEF SetRestarting, me
  <2>3. new \in RunnerState /\ new.pc = "restart" /\ new.base = me.base
    BY <1>p, <2>1 DEF RunnerState, Late
  <2>4. job' \in Job /\ job'.target \in Tags
    BY <1>11, <1>p, <2>1, RecordEdits DEF SetRestarting, Edited, me
  <2> HIDE DEF new
  <2> QED BY <1>p, <2>1, <2>2, <2>3, <2>4, TypeMoves DEF Fetched
<1>12. ASSUME NEW at \in {"restart", "fail_restart"}, NEW raised \in {"fail_read", "fail_rewrite"},
              RestartCall(r, at, "exit", raised)
       PROVE  TypeInv'
  <2>1. Alive(r) /\ me.pc = at
    BY <1>12 DEF RestartCall, Alive, me
  <2>2. /\ raised \in Late /\ "exit" \in Late
        /\ raised \notin {"start", "intent", "progress", "none"} /\ raised \notin Fetched
        /\ "exit" \notin Fetched
    BY DEF Late, Fetched
  <2>3. CASE Advance(r, [me EXCEPT !.pc = raised]) /\ UNCHANGED <<service, op, poll>>
    BY <1>12, <1>g, <2>1, <2>2, <2>3 DEF RestartCall
  <2>4. ASSUME NEW go \in {raised, "exit"}, RestartService([runner EXCEPT ![r].pc = go])
        PROVE  TypeInv'
    <3>1. /\ epoch' = epoch + 1 /\ running' = installed
          /\ op' = [a \in Admins |-> Idle] /\ poll' = PollRest
          /\ runner' \in [Runners -> RunnerState]
          /\ \A q \in Runners :
               \/ q # r /\ runner'[q] = runner[q]
               \/ runner'[q] = Gone
               \/ q = r /\ runner'[q] = [runner[r] EXCEPT !.pc = go]
               \/ ~Alive(q) /\ runner'[q] = runner[q]
      BY <1>t, <2>2, <2>4, ServiceRestarts
    <3>2. /\ [me EXCEPT !.pc = go].pc = go /\ [me EXCEPT !.pc = go].base = me.base
      BY <1>p DEF RunnerState
    <3>3. \A q \in Runners : Alive(q)' =>
             \/ Alive(q) /\ runner'[q] = runner[q]
             \/ q = r /\ runner'[q].pc = go /\ runner'[q].base = me.base
      BY <2>1, <3>1, <3>2, AtRest DEF Alive, me
    <3>4. op' \in [Admins -> OpState] /\ \A a \in Admins : op'[a].pc = "idle"
      BY <3>1, AtRest
    <3>5. UNCHANGED <<job, flag, pid, installed, fallback, grace, asked, told, outlived, slipped, outages, deploy>>
      BY <1>12 DEF RestartCall
    <3>6. TypeOK'
      BY <1>t, <1>p, <3>1, <3>4, <3>5, AtRest DEF TypeOK
    <3>7. NamedInv'
      BY <1>t, <1>n, <2>1, <2>2, <3>1, <3>3, <3>4, <3>5, AtRest DEF NamedInv, Applying, Holding
    <3> QED BY <3>6, <3>7 DEF TypeInv
  <2> QED BY <1>12, <2>3, <2>4 DEF RestartCall, me
<1>13. CASE FailRead(r)
  <2> DEFINE go == IF me.left THEN "restore" ELSE "fail_write"
             new == [me EXCEPT !.pc = go, !.base = job]
  <2>1. Alive(r) /\ me.pc = "fail_read" /\ job.target \in Tags
    BY <1>13, <1>n DEF FailRead, Alive, me
  <2>2. /\ UNCHANGED <<files, tree, grace>> /\ Advance(r, new)
        /\ UNCHANGED <<epoch, running, op, poll, asked, told, outlived, slipped, outages, deploy>>
    BY <1>13 DEF FailRead, me
  <2>3. go \in {"restore", "fail_write"} /\ go \in Late /\ go \notin Fetched
    BY DEF Late, Fetched
  <2> HIDE DEF go
  <2>4. new \in RunnerState /\ new.pc = go /\ new.base = job
    BY <1>p, <2>3 DEF RunnerState
  <2> HIDE DEF new
  <2> QED BY <1>m, <2>1, <2>2, <2>3, <2>4
<1>14. CASE Restore(r)
  <2>1. Alive(r) /\ me.pc = "restore" /\ me.base.target \in Tags
    BY <1>14, <1>n DEF Restore, Alive, me
  <2>2. PICK x \in {"ok", "bad"} : Advance(r, [me EXCEPT !.pc = "fail_write", !.base.rollback = x])
    BY <1>14 DEF Restore, me
  <2> DEFINE rec == [me.base EXCEPT !.rollback = x]
             new == [me EXCEPT !.pc = "fail_write", !.base = rec]
  <2>3. rec \in Job /\ rec.target = me.base.target
    BY <1>p, RecordEdits DEF Edited
  <2>4. [me EXCEPT !.pc = "fail_write", !.base.rollback = x] = new
    BY <1>p DEF RunnerState
  <2>5. /\ UNCHANGED <<files, grace>> /\ installed' \in Tags /\ fallback' \in Tags \cup {NoTag}
        /\ UNCHANGED <<epoch, running, op, poll, asked, told, outlived, slipped, outages, deploy>>
    BY <1>14, <1>p DEF Restore
  <2> HIDE DEF rec
  <2>6. new \in RunnerState /\ new.pc = "fail_write" /\ new.base = rec
    BY <1>p, <2>3 DEF RunnerState, Late
  <2>7. Advance(r, new)
    BY <2>2, <2>4
  <2> HIDE DEF new
  <2> QED BY <1>p, <2>1, <2>3, <2>5, <2>6, <2>7, TypeMoves DEF Fetched
<1>15. CASE FailWrite(r)
  <2>1. Alive(r) /\ me.pc = "fail_write" /\ me.base.target \in Tags
    BY <1>15, <1>n DEF FailWrite, Alive, me
  <2> DEFINE go == IF me.left THEN "fail_restart" ELSE "exit"
             new == [me EXCEPT !.base = job', !.pc = go]
  <2>2. /\ Edited(me.base, job')
        /\ UNCHANGED <<flag, pid, tree, grace>>
        /\ UNCHANGED <<epoch, running, op, poll, asked, told, outlived, slipped, outages, deploy>>
    BY <1>15, <1>p, RecordEdits DEF FailWrite, me
  <2>3. Advance(r, new)
    BY <1>15 DEF FailWrite, me
  <2>4. go \in {"fail_restart", "exit"} /\ go \in Late /\ go \notin Fetched
    BY DEF Late, Fetched
  <2> HIDE DEF go
  <2>5. new \in RunnerState /\ new.pc = go /\ new.base = job'
    BY <1>p, <2>2, <2>4 DEF RunnerState, Edited
  <2> HIDE DEF new
  <2> QED BY <1>p, <2>1, <2>2, <2>3, <2>4, <2>5, TypeMoves DEF Edited
<1>16. CASE FailRewrite(r)
  <2> DEFINE new == [me EXCEPT !.pc = "exit"]
  <2>1. Alive(r) /\ me.pc = "fail_rewrite" /\ me.base.target \in Tags
    BY <1>16, <1>n DEF FailRewrite, Alive, me
  <2>2. /\ UNCHANGED <<flag, pid, tree, grace>> /\ Advance(r, new)
        /\ UNCHANGED <<epoch, running, op, poll, asked, told, outlived, slipped, outages, deploy>>
    BY <1>16 DEF FailRewrite, me
  <2>3. new \in RunnerState /\ new.pc = "exit" /\ new.base = me.base
    BY <1>p, <2>1 DEF RunnerState, Late
  <2>4. Edited(me.base, job')
    BY <1>16, <1>p, RecordEdits DEF FailRewrite, me
  <2> HIDE DEF new
  <2> QED BY <1>p, <2>1, <2>2, <2>3, <2>4, TypeMoves DEF Fetched, Edited
<1>17. CASE Exit(r) \/ Die(r)
  <2>1. /\ Alive(r) /\ Advance(r, Gone) /\ flag' \in BOOLEAN /\ pid' \in Runners \cup {0}
        /\ UNCHANGED <<job, tree, grace>>
        /\ UNCHANGED <<epoch, running, op, poll, asked, told, outlived, slipped, outages, deploy>>
    BY <1>17, <1>p DEF Exit, Die, Alive
  <2> QED BY <1>p, <2>1, AtRest, TypeMoves DEF Fetched, Over
<1>18. CASE Stillbirth(r)
  <2>1. /\ Alive(r) /\ Advance(r, Unborn) /\ flag' \in BOOLEAN /\ pid' \in Runners \cup {0}
        /\ UNCHANGED <<job, tree, grace>>
        /\ UNCHANGED <<epoch, running, op, poll, asked, told, outlived, slipped, outages, deploy>>
    BY <1>18, <1>p DEF Stillbirth, Alive, me
  <2> QED BY <1>p, <2>1, AtRest, TypeMoves DEF Fetched, Over
<1> QED BY <1>1, <1>2, <1>3, <1>4, <1>5, <1>6, <1>7, <1>8, <1>9, <1>10, <1>11, <1>12, <1>13,
           <1>14, <1>15, <1>16, <1>17, <1>18, RunCases

LEMMA TypeInvariance == Spec => []TypeInv
<1>1. ASSUME TypeInv, [Next]_vars PROVE TypeInv'
  <2>1. CASE UNCHANGED vars
    BY <1>1, <2>1 DEF vars, TypeInv, TypeOK, NamedInv, Alive
  <2> QED BY <1>1, <2>1, TypeOps, TypeWorld, TypeRun DEF Next
<1> QED BY <1>1, TypeInit, PTL DEF Spec

\* Type correctness for every set of releases, threads and jobs, with calls that
\* overlap, late restarts and outages.
THEOREM UpdateTypeCorrect == Spec => []TypeOK
<1>1. TypeInv => TypeOK
  BY DEF TypeInv
<1> QED BY <1>1, TypeInvariance, PTL

-----------------------------------------------------------------------------
(* One party at a time.  While no call overlaps what is still at work, a job *)
(* file is written for one update at a time: by the thread that applies it,  *)
(* by its process, and by the cancels and the polls that read it.            *)

NoneAlive == \A r \in Runners : ~Alive(r)
AliveIn(S) == \A r \in Runners : Alive(r) => runner[r].pc \in S
Starting == \E a \in Admins : op[a].pc = "apply_start"

\* Who can be at work at the same time.
CrewInv ==
  /\ \A a, b \in Admins : op[a].pc \in Applying /\ op[b].pc \in Applying => a = b
  /\ \A a \in Admins : op[a].pc \in {"apply_clear", "apply_write"} =>
       /\ \A b \in Admins \ {a} : op[b].pc = "idle"
       /\ poll.pc = "idle" /\ job.stage \notin InProgress
  /\ \A a \in Admins : op[a].pc \in Applying => NoneAlive
  /\ \A a \in Admins : op[a].pc \in Cancelling => a \in Cancellers
  /\ \A q, r \in Runners : Alive(q) /\ Alive(r) => q = r
  /\ \A r \in Runners : runner[r].pc = "none" => runner[r] = Dormant

\* A record of the update that the job file is about.
Of(rec, file) == rec.target = file.target /\ rec.prev = file.prev

\* What a record that asks for a restart says of the rest of the system.
Awaits(rec) ==
  rec.stage = "restarting" =>
    /\ rec.restart <= epoch /\ ~Starting /\ AliveIn(Late)
    /\ ~LateRestart /\ rec.restart < epoch => running = installed /\ AliveIn({"exit"})

\* What the web threads and the poll hold, to write it back later.
ThreadInv ==
  \A a \in Admins :
    /\ op[a].pc = "apply_write" => op[a].state.prev = installed
    /\ op[a].pc \in Applying => op[a].state.stage = "queued"
    /\ op[a].pc = "apply_start" => Of(op[a].state, job) /\ installed = job.prev /\ ~slipped
    /\ op[a].pc \in Holding => /\ Of(op[a].state, job) /\ op[a].state.stage \in InProgress
                               /\ Awaits(op[a].state)

PollInv ==
  /\ poll.pc # "idle" => /\ Of(poll.state, job) /\ poll.state.stage = "restarting"
                         /\ Awaits(poll.state)
  /\ ~LateRestart /\ poll.pc = "probe" /\ poll.state.restart < epoch =>
       installed = poll.state.target

\* What a process holds, and where it stands relative to the switch of the tree.
Worker(me, file, now, kept, slip) ==
  /\ me.pc \notin {"start", "intent"} => Of(me.base, file)
  /\ me.pc = "progress" => Of(me.seen, file) /\ me.seen.stage = "fetching_bundle"
  /\ me.left => me.pc \in Mid \cup Late
  /\ ~me.left => /\ me.pc \in Early \cup {"fail_read", "fail_write", "exit"}
                 /\ slip \/ now = file.prev
  /\ slip => me.pc \notin Early /\ ~me.left
  /\ me.left /\ me.pc \in Mid \cup {"restart", "fail_read", "restore"} => kept = file.prev
  /\ me.left /\ me.pc \in {"fail_write", "fail_restart", "fail_rewrite"} /\ me.base.rollback = "ok"
       => now = file.prev
  /\ me.pc \in {"fail_restart", "fail_rewrite"} => me.base.stage = "failed" /\ me.base.error = "rolled"

WorkerInv == \A r \in Runners : Alive(r) => Worker(runner[r], job, installed, fallback, slipped)

\* What the job file says of the end of the update is true, and stays true: nobody
\* who could still change it is at work.
FileInv ==
  /\ job.stage = "failed" /\ job.error \in {"before", "start"} =>
       (slipped \/ installed = job.prev) /\ ~Starting /\ AliveIn({"exit"})
  /\ job.stage = "failed" /\ job.error = "rolled" /\ job.rollback = "ok" =>
       installed = job.prev /\ ~Starting /\ AliveIn({"fail_restart", "fail_rewrite", "exit"})
  /\ ~LateRestart /\ job.stage = "succeeded" =>
       /\ installed = job.target /\ running = job.target /\ epoch > job.restart
       /\ ~Starting /\ AliveIn({"exit"})
  /\ Awaits(job)

TrueInv == TypeInv /\ CrewInv /\ ThreadInv /\ PollInv /\ WorkerInv /\ FileInv

LEMMA TrueInit == Init => TrueInv
<1> SUFFICES ASSUME Init PROVE TrueInv
  OBVIOUS
<1>1. TypeInv
  BY TypeInit
<1>2. /\ \A a \in Admins : op[a].pc = "idle"
      /\ \A r \in Runners : runner[r] = Dormant /\ ~Alive(r)
      /\ poll.pc = "idle" /\ job.stage = "idle"
  BY AtRest DEF Init, Alive
<1>3. CrewInv
  BY <1>2 DEF CrewInv, Applying, Cancelling, Holding
<1>4. ThreadInv /\ PollInv /\ WorkerInv /\ FileInv
  BY <1>2 DEF ThreadInv, PollInv, WorkerInv, FileInv, Awaits, Applying, Holding
<1> QED BY <1>1, <1>3, <1>4 DEF TrueInv

\* While a process is at work it is alone, and no thread is starting another.
LEMMA Alone ==
  ASSUME TrueInv, NEW r \in Runners, Alive(r)
  PROVE  /\ \A q \in Runners \ {r} : ~Alive(q)
         /\ \A a \in Admins : op[a].pc \notin Applying
         /\ ~Starting
         /\ Worker(runner[r], job, installed, fallback, slipped)
BY DEF TrueInv, CrewInv, NoneAlive, Starting, Applying, WorkerInv

\* The ends of the process that a finished record may still see.
Ends == {"fail_restart", "fail_rewrite", "exit"}

\* A step of the process that leaves the service alone keeps what everybody holds.
LEMMA WorkerMoves ==
  ASSUME TrueInv, TypeInv', NEW r \in Runners, NEW new \in RunnerState, Alive(r), Advance(r, new),
         UNCHANGED <<epoch, running, op, poll, asked, told, outlived, outages, deploy>>,
         new.pc # "none", Of(job', job),
         new.pc \notin Over => Worker(new, job', installed', fallback', slipped'),
         runner[r].pc \in Late => new.pc \in Late \cup Over,
         runner[r].pc = "exit" => new.pc \in Over,
         runner[r].pc \in Ends => /\ new.pc \in Ends \cup Over /\ installed' = installed
                                  /\ slipped' = slipped,
         job' = job \/ FileInv'
  PROVE  TrueInv'
<1>t. TypeInv /\ TypeOK /\ CrewInv /\ ThreadInv /\ PollInv /\ WorkerInv /\ FileInv
  BY DEF TrueInv, TypeInv
<1>1. /\ runner' \in [Runners -> RunnerState] /\ runner'[r] = new
      /\ \A q \in Runners \ {r} : runner'[q] = runner[q]
  BY <1>t, Parts, RunnerMoves
<1>2. /\ \A q \in Runners \ {r} : ~Alive(q) /\ ~Alive(q)'
      /\ Alive(r)' <=> new.pc \notin Over
      /\ \A a \in Admins : op[a].pc \notin Applying
      /\ ~Starting /\ ~Starting' /\ op' = op /\ poll' = poll /\ epoch' = epoch /\ running' = running
  BY <1>1, Alone DEF Alive, Starting, Over
<1>3. CrewInv'
  BY <1>t, <1>1, <1>2 DEF CrewInv, Applying, NoneAlive
\* Where the process is, of the places that matter to the others.
<1>4. \A S : AliveIn(S)' <=> (new.pc \notin Over => new.pc \in S)
  BY <1>1, <1>2 DEF AliveIn
<1>5. \A S : AliveIn(S) <=> runner[r].pc \in S
  BY <1>2 DEF AliveIn
<1>6. Ends \subseteq Late /\ "exit" \in Ends
  BY DEF Ends, Late
<1>7. ASSUME NEW rec, Awaits(rec), rec.stage = "restarting"
      PROVE  /\ rec.restart <= epoch /\ AliveIn(Late)'
             /\ ~LateRestart /\ rec.restart < epoch =>
                  running = installed' /\ AliveIn({"exit"})' /\ installed' = installed
  BY <1>2, <1>4, <1>5, <1>6, <1>7 DEF Awaits
<1>8. ThreadInv'
  <2> SUFFICES ASSUME NEW a \in Admins, op[a].pc \in Holding
               PROVE  /\ Of(op[a].state, job') /\ op[a].state.stage \in InProgress
                      /\ Awaits(op[a].state)'
    BY <1>2 DEF ThreadInv, Applying
  <2>1. Of(op[a].state, job) /\ op[a].state.stage \in InProgress /\ Awaits(op[a].state)
    BY <1>t DEF ThreadInv
  <2>2. (op[a].state)' = op[a].state
    BY <1>2
  <2>3. Awaits(op[a].state)'
    BY <1>2, <1>7, <2>1, <2>2 DEF Awaits
  <2> QED BY <2>1, <2>3 DEF Of
<1>9. PollInv'
  <2>1. poll.pc # "idle" => Of(poll.state, job) /\ poll.state.stage = "restarting" /\ Awaits(poll.state)
    BY <1>t DEF PollInv
  <2>2. poll.pc # "idle" => Awaits(poll.state)' /\ Of(poll.state, job')
    BY <1>2, <1>7, <2>1 DEF Awaits, Of
  <2>3. ~LateRestart /\ poll.pc = "probe" /\ poll.state.restart < epoch =>
          installed' = poll.state.target
    BY <1>t, <1>7, <2>1 DEF PollInv
  <2> QED BY <1>2, <2>1, <2>2, <2>3 DEF PollInv
<1>10. WorkerInv'
  BY <1>1, <1>2 DEF WorkerInv
<1>11. FileInv'
  <2>1. CASE job' = job
    <3>1. job.stage = "failed" /\ job.error \in {"before", "start"} =>
            runner[r].pc = "exit" /\ (slipped \/ installed = job.prev)
      BY <1>t, <1>5 DEF FileInv
    <3>2. job.stage = "failed" /\ job.error = "rolled" /\ job.rollback = "ok" =>
            runner[r].pc \in Ends /\ installed = job.prev
      BY <1>t, <1>5 DEF FileInv, Ends
    <3>3. ~LateRestart /\ job.stage = "succeeded" =>
            /\ runner[r].pc = "exit"
            /\ installed = job.target /\ running = job.target /\ epoch > job.restart
      BY <1>t, <1>5 DEF FileInv
    <3>4. Awaits(job)'
      BY <1>t, <1>2, <1>7, <2>1 DEF FileInv, Awaits
    <3> QED BY <1>2, <1>4, <1>6, <2>1, <3>1, <3>2, <3>3, <3>4 DEF FileInv, Ends
  <2> QED BY <2>1
<1> QED BY <1>3, <1>8, <1>9, <1>10, <1>11 DEF TrueInv

\* The steps of the web threads.
LEMMA TrueOps ==
  ASSUME ~Overlap, TrueInv, NEW a \in Admins, Apply(a) \/ Cancel(a)
  PROVE  TrueInv'
<1>t. TypeInv /\ TypeOK /\ CrewInv /\ ThreadInv /\ PollInv /\ WorkerInv /\ FileInv
  BY DEF TrueInv, TypeInv
<1>y. TypeInv'
  BY <1>t, TypeOps
<1>p. /\ op \in [Admins -> OpState] /\ job \in Job /\ op[a].state \in Job /\ NoJob \in Job
      /\ runner \in [Runners -> RunnerState] /\ installed \in Tags /\ epoch \in Nat
  BY <1>t, Parts, AtRest
<1> USE DEF files, tree, service, past, forced, OpAt
<1>i. /\ "idle" \notin Applying \cup Cancelling
      /\ Holding \subseteq Cancelling /\ Applying \cap Cancelling = {}
      /\ "queued" \in InProgress /\ {"failed", "succeeded", "idle"} \cap InProgress = {}
  BY DEF Applying, Cancelling, Holding, InProgress
\* The step moves one thread and leaves the processes, the tree and the service alone.
<1> DEFINE Still == UNCHANGED <<runner, installed, fallback, epoch, running, poll>>
<1>s. ASSUME Still
      PROVE  /\ \A r \in Runners : Alive(r)' <=> Alive(r)
             /\ NoneAlive' <=> NoneAlive
             /\ \A S : AliveIn(S)' <=> AliveIn(S)
  BY <1>s DEF Alive, NoneAlive, AliveIn
<1>w. ASSUME Still, slipped' = slipped, Of(job', job) PROVE WorkerInv'
  BY <1>t, <1>s, <1>w DEF WorkerInv, Worker, Of
<1>1. CASE ApplyRead(a)
  <2>1. PICK t \in Tags : OpStep(a, "apply_clear", [NoJob EXCEPT !.stage = "queued", !.target = t])
    BY <1>1 DEF ApplyRead
  <2> DEFINE rec == [NoJob EXCEPT !.stage = "queued", !.target = t]
  <2>2. rec \in Job /\ rec.stage = "queued"
    BY <1>p DEF Job, InProgress
  <2>3. OpStep(a, "apply_clear", rec)
    BY <2>1
  <2> HIDE DEF rec
  <2>4. /\ op'[a].pc = "apply_clear" /\ op'[a].state = rec
        /\ \A b \in Admins \ {a} : op'[b] = op[b]
    BY <1>p, <2>2, <2>3, OpMoves DEF Applying
  <2>5. Still /\ slipped' = slipped /\ job' = job /\ job.stage \notin InProgress /\ poll.pc = "idle"
        /\ NoneAlive /\ \A b \in Admins : op[b].pc = "idle"
    BY <1>1 DEF ApplyRead, Settled, NoneAlive
  <2>6. ~Starting /\ ~Starting'
    BY <2>4, <2>5 DEF Starting
  <2>7. CrewInv'
    BY <1>t, <1>i, <1>s, <2>4, <2>5 DEF CrewInv, Applying
  <2>8. ThreadInv'
    BY <1>i, <2>2, <2>4, <2>5 DEF ThreadInv, Applying, Holding
  <2>9. PollInv' /\ WorkerInv'
    BY <2>5, <1>w DEF PollInv, Of
  <2>10. FileInv'
    BY <1>t, <1>s, <2>5, <2>6 DEF FileInv, Awaits
  <2> QED BY <1>y, <2>7, <2>8, <2>9, <2>10 DEF TrueInv
<1>2. CASE ApplyClear(a)
  <2> DEFINE rec == [op[a].state EXCEPT !.prev = installed]
  <2>1. rec \in Job /\ rec.prev = installed /\ rec.stage = op[a].state.stage
    BY <1>p DEF Job
  <2>2. OpStep(a, "apply_write", rec)
    BY <1>2 DEF ApplyClear
  <2> HIDE DEF rec
  <2>4. /\ op'[a].pc = "apply_write" /\ op'[a].state = rec
        /\ \A b \in Admins \ {a} : op'[b] = op[b]
    BY <1>p, <2>1, <2>2, OpMoves DEF Applying
  <2>5. Still /\ slipped' = slipped /\ job' = job /\ op[a].pc = "apply_clear"
    BY <1>2 DEF ApplyClear
  <2>6. /\ poll.pc = "idle" /\ job.stage \notin InProgress /\ NoneAlive
        /\ op[a].state.stage = "queued" /\ \A b \in Admins \ {a} : op[b].pc = "idle"
    BY <1>t, <2>5 DEF CrewInv, ThreadInv, Applying
  <2>7. ~Starting /\ ~Starting'
    BY <2>4, <2>5, <2>6 DEF Starting
  <2>8. CrewInv'
    BY <1>t, <1>i, <1>s, <2>4, <2>5, <2>6 DEF CrewInv, Applying
  <2>9. ThreadInv'
    BY <1>i, <2>1, <2>4, <2>5, <2>6 DEF ThreadInv, Applying, Holding
  <2>10. PollInv' /\ WorkerInv'
    BY <2>5, <2>6, <1>w DEF PollInv, Of
  <2>11. FileInv'
    BY <1>t, <1>s, <2>5, <2>7 DEF FileInv, Awaits
  <2> QED BY <1>y, <2>8, <2>9, <2>10, <2>11 DEF TrueInv
<1>3. CASE ApplyWrite(a)
  <2>1. /\ op'[a].pc = "apply_start" /\ op'[a].state = op[a].state
        /\ \A b \in Admins \ {a} : op'[b] = op[b]
    BY <1>p, <1>3, OpMoves DEF ApplyWrite, Applying
  <2>2. Still /\ ~slipped' /\ job' = op[a].state /\ op[a].pc = "apply_write"
    BY <1>3 DEF ApplyWrite
  <2>3. /\ poll.pc = "idle" /\ NoneAlive /\ op[a].state.stage = "queued"
        /\ op[a].state.prev = installed /\ \A b \in Admins \ {a} : op[b].pc = "idle"
    BY <1>t, <2>2 DEF CrewInv, ThreadInv, Applying
  <2>4. CrewInv'
    BY <1>t, <1>i, <1>s, <2>1, <2>2, <2>3 DEF CrewInv, Applying
  <2>5. ThreadInv'
    BY <1>i, <2>1, <2>2, <2>3 DEF ThreadInv, Applying, Holding, Of
  <2>6. PollInv' /\ WorkerInv'
    BY <2>2, <2>3, <1>s DEF PollInv, WorkerInv, NoneAlive
  <2>7. FileInv'
    BY <2>2, <2>3 DEF FileInv, Awaits
  <2> QED BY <1>y, <2>4, <2>5, <2>6, <2>7 DEF TrueInv
<1>4. CASE ApplyStart(a)
  <2>1. /\ op'[a].pc = "idle" /\ \A b \in Admins \ {a} : op'[b] = op[b]
    BY <1>p, <1>4, OpMoves DEF ApplyStart
  <2>2. /\ op[a].pc = "apply_start" /\ UNCHANGED <<installed, fallback, slipped, epoch, running, poll>>
    BY <1>4 DEF ApplyStart
  <2>3. /\ Starting /\ NoneAlive /\ Of(op[a].state, job) /\ installed = job.prev /\ ~slipped
        /\ \A b \in Admins \ {a} : op[b].pc \notin Applying
    BY <1>t, <2>2 DEF Starting, CrewInv, ThreadInv, Applying
  <2>4. ~Starting'
    BY <2>1, <2>3 DEF Starting, Applying
  \* Nothing claims an end, or awaits a restart, while the process is being started.
  <2>5. /\ job.stage # "restarting" /\ (~LateRestart => job.stage # "succeeded")
        /\ job.stage = "failed" => job.error \notin {"before", "start"}
        /\ ~(job.stage = "failed" /\ job.error = "rolled" /\ job.rollback = "ok")
        /\ \A b \in Admins : op[b].pc \in Holding => op[b].state.stage # "restarting"
        /\ poll.pc = "idle"
    BY <1>t, <2>3 DEF FileInv, Awaits, ThreadInv, PollInv
  <2>6. ASSUME Of(job', job), CrewInv' PROVE ThreadInv' /\ PollInv'
    <3>1. ThreadInv'
      BY <1>t, <1>i, <2>1, <2>2, <2>3, <2>5, <2>6 DEF ThreadInv, Awaits, Of, Applying
    <3> QED BY <3>1, <2>2, <2>5 DEF PollInv
  <2>7. CASE job' = job /\ runner' = runner
    <3>1. CrewInv'
      BY <1>t, <1>i, <1>s, <2>1, <2>2, <2>3, <2>7 DEF CrewInv, Applying
    <3>2. WorkerInv' /\ Of(job', job)
      BY <1>w, <2>2, <2>7 DEF Of
    <3>3. FileInv'
      BY <2>5, <2>7 DEF FileInv, Awaits
    <3> QED BY <1>y, <2>6, <3>1, <3>2, <3>3 DEF TrueInv
  <2>8. CASE job' = [op[a].state EXCEPT !.stage = "failed", !.error = "start"] /\ runner' = runner
    <3>1. job'.stage = "failed" /\ job'.error = "start" /\ Of(job', job)
      BY <1>p, <2>3, <2>8 DEF Job, Of
    <3>2. CrewInv'
      BY <1>t, <1>i, <1>s, <2>1, <2>2, <2>3, <2>8 DEF CrewInv, Applying
    <3>3. WorkerInv'
      BY <1>w, <2>2, <2>8, <3>1
    <3>4. FileInv'
      BY <1>s, <2>2, <2>3, <2>4, <2>8, <3>1 DEF FileInv, Awaits, NoneAlive, AliveIn, Of
    <3> QED BY <1>y, <2>6, <3>1, <3>2, <3>3, <3>4 DEF TrueInv
  <2>9. ASSUME NEW r \in Runners, runner[r].pc = "none", runner' = [runner EXCEPT ![r].pc = "start"],
               job' = job
        PROVE  TrueInv'
    <3>1. /\ ~runner[r].left /\ runner[r] \in RunnerState
      BY <1>t, <1>p, <2>9, AtRest DEF CrewInv
    <3>2. [runner[r] EXCEPT !.pc = "start"].pc = "start" /\ ~[runner[r] EXCEPT !.pc = "start"].left
      BY <3>1 DEF RunnerState
    <3>3. /\ runner'[r].pc = "start" /\ ~runner'[r].left
          /\ \A q \in Runners \ {r} : runner'[q] = runner[q]
      BY <1>p, <2>9, <3>2
    <3>4. \A q \in Runners : Alive(q)' <=> q = r
      BY <2>3, <3>3 DEF Alive, NoneAlive
    <3>5. CrewInv'
      BY <1>t, <1>i, <2>1, <2>2, <2>3, <2>9, <3>3, <3>4 DEF CrewInv, Applying
    <3>6. WorkerInv'
      BY <2>2, <2>3, <2>9, <3>3, <3>4 DEF WorkerInv, Worker, Early, Mid
    <3>7. FileInv'
      BY <2>5, <2>9 DEF FileInv, Awaits
    <3> QED BY <1>y, <2>6, <2>9, <3>5, <3>6, <3>7 DEF TrueInv, Of
  <2> QED BY <1>4, <2>7, <2>8, <2>9 DEF ApplyStart
<1>5. CASE CancelRead(a) \/ CancelTimeout(a)
  <2>1. PICK to \in {"cancel_flag", "cancel_force"} :
          /\ op'[a].pc = to /\ op'[a].state = job /\ \A b \in Admins \ {a} : op'[b] = op[b]
    BY <1>p, <1>5, OpMoves DEF CancelRead, CancelTimeout, Cancelling, Holding
  <2>2. /\ Still /\ slipped' = slipped /\ job' = job /\ job.stage \in InProgress /\ a \in Cancellers
        /\ op[a].pc \in {"idle", "cancel_wait"}
    BY <1>t, <1>5 DEF CancelRead, CancelTimeout, CrewInv, Cancelling
  <2>3. to \in Holding /\ to \in Cancelling /\ to \notin Applying /\ op[a].pc \notin Applying
    BY <2>1, <2>2 DEF Holding, Cancelling, Applying
  <2>4. Starting' <=> Starting
    BY <2>1, <2>3 DEF Starting, Applying
  <2>5. CrewInv'
    BY <1>t, <1>i, <1>s, <2>1, <2>2, <2>3 DEF CrewInv, Applying
  <2>6. \A b \in Admins \ {a} : op[b].pc \in Holding => Awaits(op[b].state)'
    BY <1>t, <1>s, <2>1, <2>2, <2>4 DEF ThreadInv, Awaits
  <2>7. Awaits(job)' /\ Awaits(op[a].state)'
    BY <1>t, <1>s, <2>1, <2>2, <2>4 DEF FileInv, Awaits
  <2>8. ThreadInv'
    BY <1>t, <1>i, <2>1, <2>2, <2>3, <2>6, <2>7 DEF ThreadInv, Of, Applying
  <2>9. PollInv' /\ WorkerInv'
    BY <1>t, <1>s, <1>w, <2>2, <2>4 DEF PollInv, Awaits, Of
  <2>10. FileInv'
    BY <1>t, <1>s, <2>2, <2>4, <2>7 DEF FileInv
  <2> QED BY <1>y, <2>5, <2>8, <2>9, <2>10 DEF TrueInv
\* A cancel that flags, stops or ends, leaving the job file as it is.
<1>6. CASE CancelFlag(a) \/ CancelStop(a) \/ CancelDone(a) \/ CancelClear(a)
  <2>1. /\ op'[a].pc \in {"cancel_write", "cancel_wait", "idle"}
        /\ op'[a].pc = "cancel_write" => op[a].pc = "cancel_flag" /\ op'[a].state = op[a].state
        /\ \A b \in Admins \ {a} : op'[b] = op[b]
        /\ op[a].pc \in Cancelling
    BY <1>p, <1>6, OpMoves DEF CancelFlag, CancelStop, CancelDone, CancelClear, Cancelling, Holding
  <2>2. /\ job' = job /\ UNCHANGED <<installed, fallback, slipped, epoch, running, poll>>
    BY <1>6 DEF CancelFlag, CancelStop, CancelDone, CancelClear
  <2>3. \A r \in Runners :
          /\ runner'[r].pc = runner[r].pc /\ runner'[r].base = runner[r].base
          /\ runner'[r].seen = runner[r].seen /\ runner'[r].left = runner[r].left
          /\ ~Alive(r) => runner'[r] = runner[r]
    <3>1. CASE runner' = runner
      BY <3>1
    <3>2. CASE CancelStop(a)
      <4>1. PICK hit : runner' = [r \in Runners |-> IF r \in hit /\ Alive(r)
                                                   THEN [runner[r] EXCEPT !.term = TRUE] ELSE runner[r]]
        BY <3>2 DEF CancelStop
      <4>2. \A r \in Runners : runner[r] \in RunnerState
        BY <1>p
      <4> QED BY <4>1, <4>2 DEF RunnerState
    <3> QED BY <1>6, <3>1, <3>2 DEF CancelFlag, CancelDone, CancelClear
  <2>4. /\ \A r \in Runners : Alive(r)' <=> Alive(r)
        /\ NoneAlive' <=> NoneAlive
        /\ \A S : AliveIn(S)' <=> AliveIn(S)
    BY <2>3 DEF Alive, NoneAlive, AliveIn
  <2>5. Starting' <=> Starting
    BY <2>1 DEF Starting, Cancelling, Holding
  <2>6. CrewInv'
    BY <1>t, <1>i, <2>1, <2>2, <2>3, <2>4 DEF CrewInv, Applying, Cancelling, Holding, Alive
  <2>7. \A b \in Admins \ {a} : op[b].pc \in Holding => Awaits(op[b].state)'
    BY <1>t, <2>1, <2>2, <2>4, <2>5 DEF ThreadInv, Awaits
  <2>8. op[a].pc = "cancel_flag" /\ op'[a].state = op[a].state => Awaits(op[a].state)'
    BY <1>t, <2>2, <2>4, <2>5 DEF ThreadInv, Awaits, Holding
  <2>9. ThreadInv'
    BY <1>t, <1>i, <2>1, <2>2, <2>7, <2>8 DEF ThreadInv, Of, Applying, Holding
  <2>10. PollInv' /\ FileInv'
    BY <1>t, <2>2, <2>4, <2>5 DEF PollInv, FileInv, Awaits
  <2>11. WorkerInv'
    BY <1>t, <2>2, <2>3, <2>4 DEF WorkerInv, Worker
  <2> QED BY <1>y, <2>6, <2>9, <2>10, <2>11 DEF TrueInv
\* A cancel that writes its record, as it read it or as a forced failure.
<1>7. CASE CancelWrite(a) \/ CancelForce(a)
  <2>1. /\ op'[a].pc \in {"cancel_stop", "cancel_clear"}
        /\ \A b \in Admins \ {a} : op'[b] = op[b]
        /\ op[a].pc \in Holding
    BY <1>p, <1>7, OpMoves DEF CancelWrite, CancelForce, Cancelling, Holding
  <2>2. Still /\ slipped' = slipped
    BY <1>7 DEF CancelWrite, CancelForce
  <2>3. Of(op[a].state, job) /\ op[a].state.stage \in InProgress /\ Awaits(op[a].state)
    BY <1>t, <2>1 DEF ThreadInv
  <2>4. /\ Of(job', job)
        /\ \/ job'.stage = op[a].state.stage /\ job'.restart = op[a].state.restart
           \/ job'.stage = "failed" /\ job'.error = "forced"
    BY <1>p, <1>7, <2>3 DEF CancelWrite, CancelForce, Job, Of
  <2>5. Starting' <=> Starting
    BY <2>1 DEF Starting, Holding
  <2>6. CrewInv'
    <3>1. \A b \in Admins : op[b].pc \notin {"apply_clear", "apply_write"}
      BY <1>t, <2>1 DEF CrewInv, Holding
    <3> QED BY <1>t, <1>i, <1>s, <2>1, <2>2, <3>1 DEF CrewInv, Applying, Cancelling, Holding
  <2>7. \A b \in Admins \ {a} : op[b].pc \in Holding => Awaits(op[b].state)'
    BY <1>t, <1>s, <2>1, <2>2, <2>5 DEF ThreadInv, Awaits
  <2>8. ThreadInv'
    BY <1>t, <1>i, <2>1, <2>2, <2>4, <2>7 DEF ThreadInv, Of, Applying, Holding
  <2>9. PollInv' /\ WorkerInv'
    BY <1>t, <1>s, <1>w, <2>2, <2>4, <2>5 DEF PollInv, Awaits, Of
  <2>10. FileInv'
    BY <1>i, <1>s, <2>2, <2>3, <2>4, <2>5 DEF FileInv, Awaits
  <2> QED BY <1>y, <2>6, <2>8, <2>9, <2>10 DEF TrueInv
<1> QED BY <1>1, <1>2, <1>3, <1>4, <1>5, <1>6, <1>7 DEF Apply, Cancel

\* A restart of the service ends every thread and every poll, and finds the tree that
\* is in force; what is left of a process is at the place it goes to.
LEMMA RestartKeeps ==
  ASSUME TrueInv, TypeInv', UNCHANGED <<job, installed, fallback, slipped>>,
         epoch' = epoch + 1, running' = installed, op' = [a \in Admins |-> Idle], poll' = PollRest,
         runner' \in [Runners -> RunnerState],
         \A q, r \in Runners : Alive(q)' /\ Alive(r)' => q = r,
         \A q \in Runners : /\ runner'[q].pc = "none" => runner'[q] = Dormant
                            /\ Alive(q)' => Worker(runner'[q], job, installed, fallback, slipped)
                            /\ Alive(q)' => /\ Alive(q) /\ runner'[q].pc \in Late
                                            /\ ~LateRestart => runner'[q].pc = "exit"
                                            /\ runner[q].pc \in Ends => runner'[q].pc \in Ends
                                            /\ runner[q].pc = "exit" => runner'[q].pc = "exit"
  PROVE  TrueInv'
<1>t. TypeOK /\ FileInv
  BY DEF TrueInv, TypeInv
<1>p. epoch \in Nat /\ job \in Job /\ job.restart \in Nat
  BY <1>t, Parts DEF Job
<1>1. (\A a \in Admins : op'[a].pc = "idle") /\ poll'.pc = "idle" /\ ~Starting'
  BY AtRest DEF Starting
<1>2. /\ AliveIn(Late)' /\ (~LateRestart => AliveIn({"exit"})')
      /\ AliveIn({"exit"}) => AliveIn({"exit"})'
      /\ AliveIn(Ends) => AliveIn(Ends)'
  BY DEF AliveIn
<1>3. CrewInv'
  BY <1>1 DEF CrewInv, Applying, Cancelling, Holding
<1>4. ThreadInv' /\ PollInv'
  BY <1>1 DEF ThreadInv, PollInv, Applying, Holding
<1>5. WorkerInv'
  BY DEF WorkerInv
<1>6. FileInv'
  BY <1>t, <1>p, <1>1, <1>2 DEF FileInv, Awaits, Ends
<1> QED BY <1>3, <1>4, <1>5, <1>6 DEF TrueInv

\* The status poll and the world around.
LEMMA TrueWorld ==
  ASSUME TrueInv, Poll \/ GraceElapses \/ Outage
  PROVE  TrueInv'
<1>t. TypeInv /\ TypeOK /\ CrewInv /\ ThreadInv /\ PollInv /\ WorkerInv /\ FileInv
  BY DEF TrueInv, TypeInv
<1>y. TypeInv'
  BY <1>t, TypeWorld
<1>p. job \in Job /\ poll.state \in Job /\ epoch \in Nat /\ poll.state.restart \in Nat
  BY <1>t, Parts DEF Job
<1> USE DEF files, tree, service, past, forced
<1> DEFINE Still == UNCHANGED <<runner, installed, fallback, slipped, epoch, running, op>>
<1>s. ASSUME Still
      PROVE  /\ \A r \in Runners : Alive(r)' <=> Alive(r)
             /\ NoneAlive' <=> NoneAlive
             /\ Starting' <=> Starting
             /\ \A S : AliveIn(S)' <=> AliveIn(S)
  BY <1>s DEF Alive, NoneAlive, AliveIn, Starting
<1>w. ASSUME Still, Of(job', job), \/ poll'.pc = "idle"
                                   \/ \A a \in Admins : op[a].pc \notin {"apply_clear", "apply_write"},
             job' = job \/ \A a \in Admins : op[a].pc \notin {"apply_clear", "apply_write"}
      PROVE  CrewInv' /\ ThreadInv' /\ WorkerInv'
  <2>1. CrewInv'
    BY <1>t, <1>s, <1>w DEF CrewInv
  <2>2. \A a \in Admins : op[a].pc \in Holding => Awaits(op[a].state)'
    BY <1>t, <1>s, <1>w DEF ThreadInv, Awaits
  <2>3. ThreadInv'
    BY <1>t, <1>s, <1>w, <2>2 DEF ThreadInv, Of
  <2>4. WorkerInv'
    BY <1>t, <1>s, <1>w DEF WorkerInv, Worker, Of
  <2> QED BY <2>1, <2>3, <2>4
<1>1. CASE PollRead
  <2>1. /\ Still /\ job' = job /\ job.stage = "restarting" /\ poll'.state = job
        /\ poll'.pc \in {"probe", "mismatch"} /\ (poll'.pc = "probe" => installed = job.target)
    BY <1>1 DEF PollRead
  <2>2. \A a \in Admins : op[a].pc \notin {"apply_clear", "apply_write"}
    BY <1>t, <2>1 DEF CrewInv, InProgress
  <2>3. Awaits(job)'
    BY <1>t, <1>s, <2>1 DEF FileInv, Awaits
  <2>4. FileInv'
    BY <1>t, <1>s, <2>1, <2>3 DEF FileInv
  <2>5. PollInv'
    BY <2>1, <2>3 DEF PollInv, Of, Awaits
  <2> QED BY <1>w, <1>y, <2>1, <2>2, <2>4, <2>5 DEF TrueInv, Of
<1>2. CASE PollMismatch \/ PollProbe
  <2>1. /\ Still /\ poll.pc # "idle" /\ poll'.pc = "idle"
    BY <1>2, AtRest DEF PollMismatch, PollProbe
  <2>2. \A a \in Admins : op[a].pc \notin {"apply_clear", "apply_write"}
    BY <1>t, <2>1 DEF CrewInv
  <2>3. /\ Of(poll.state, job) /\ poll.state.stage = "restarting" /\ Awaits(poll.state)
        /\ ~LateRestart /\ poll.pc = "probe" /\ poll.state.restart < epoch =>
             installed = poll.state.target
    BY <1>t, <2>1 DEF PollInv
  <2>4. \/ job' = job
        \/ Of(job', job) /\ job'.stage = "succeeded_but_unhealthy"
        \/ /\ Of(job', job) /\ job'.stage = "succeeded" /\ job'.restart = poll.state.restart
           /\ job'.target = poll.state.target /\ epoch > job'.restart /\ poll.pc = "probe"
    BY <1>2, <1>p, <2>3 DEF PollMismatch, PollProbe, Job, Of
  <2>5. FileInv'
    <3>1. CASE job' = job
      BY <1>t, <1>s, <2>1, <3>1 DEF FileInv, Awaits
    <3>2. CASE job'.stage = "succeeded_but_unhealthy"
      BY <3>2 DEF FileInv, Awaits
    <3>3. CASE /\ job'.stage = "succeeded" /\ job'.restart = poll.state.restart
               /\ job'.target = poll.state.target /\ epoch > job'.restart /\ poll.pc = "probe"
      <4>1. ~Starting /\ (~LateRestart => /\ running = installed /\ AliveIn({"exit"})
                                        /\ installed = job'.target)
        BY <1>p, <2>3, <3>3 DEF Awaits
      <4> QED BY <1>s, <2>1, <3>3, <4>1 DEF FileInv, Awaits
    <3> QED BY <2>4, <3>1, <3>2, <3>3
  <2>6. PollInv' /\ Of(job', job)
    BY <2>1, <2>4 DEF PollInv, Of
  <2> QED BY <1>w, <1>y, <2>1, <2>2, <2>5, <2>6 DEF TrueInv
<1>3. CASE GraceElapses
  <2>1. Still /\ job' = job /\ poll' = poll /\ job.stage = "restarting"
    BY <1>3 DEF GraceElapses
  <2>2. \A a \in Admins : op[a].pc \notin {"apply_clear", "apply_write"}
    BY <1>t, <2>1 DEF CrewInv, InProgress
  <2>3. FileInv' /\ PollInv'
    BY <1>t, <1>s, <2>1 DEF FileInv, PollInv, Awaits
  <2> QED BY <1>w, <1>y, <2>1, <2>2, <2>3 DEF TrueInv, Of
<1>4. CASE Outage
  <2>1. /\ epoch' = epoch + 1 /\ running' = installed
        /\ op' = [a \in Admins |-> Idle] /\ poll' = PollRest
        /\ runner' = [r \in Runners |-> IF Alive(r) THEN Gone ELSE runner[r]]
        /\ UNCHANGED <<job, installed, fallback, slipped>>
    BY <1>4 DEF Outage, RestartService, PollRest
  <2>2. \A r \in Runners : ~Alive(r)' /\ (runner'[r] = Gone \/ runner'[r] = runner[r])
    BY <2>1, AtRest DEF Alive
  <2>3. \A r \in Runners : runner'[r].pc = "none" => runner'[r] = Dormant
    BY <1>t, <2>2, AtRest DEF CrewInv
  <2>4. runner' \in [Runners -> RunnerState]
    BY <1>y DEF TypeInv, TypeOK
  <2> QED BY <1>y, <2>1, <2>2, <2>3, <2>4, RestartKeeps
<1> QED BY <1>1, <1>2, <1>3, <1>4 DEF Poll

\* Every step of a process, killed or not.
LEMMA TrueRun ==
  ASSUME TrueInv, NEW r \in Runners, Run(r) \/ Die(r)
  PROVE  TrueInv'
<1>t. TypeInv /\ TypeOK /\ CrewInv /\ ThreadInv /\ PollInv /\ WorkerInv /\ FileInv
  BY DEF TrueInv, TypeInv
<1>y. TypeInv'
  BY <1>t, TypeRun
<1> USE DEF files, tree, service, past, forced, Outside, RunAt
<1> DEFINE me == runner[r]
<1>p. /\ job \in Job /\ epoch \in Nat /\ me \in RunnerState /\ me.base \in Job /\ me.seen \in Job
      /\ me.left \in BOOLEAN
  BY <1>t, Parts
<1>a. Alive(r) => /\ Worker(me, job, installed, fallback, slipped) /\ ~Starting
                  /\ \A q \in Runners \ {r} : ~Alive(q)
  BY Alone
<1>o. me.pc \notin {"none", "gone", "unborn"} => Alive(r)
  BY DEF Alive
<1> HIDE DEF me
<1>l. /\ Early \cap Mid = {} /\ Early \cap Late = {} /\ Mid \cap Late = {}
      /\ {"none", "gone", "unborn"} \cap (Early \cup Mid \cup Late) = {}
      /\ Ends \subseteq Late /\ {"start", "intent", "progress"} \subseteq Early
  BY DEF Early, Mid, Late, Ends
\* The same record in hand, or the job file's; the tree as it is.
<1>m. ASSUME NEW new \in RunnerState, Alive(r), Advance(r, new), UNCHANGED <<epoch, running, op, poll>>,
             UNCHANGED <<asked, told, outlived, slipped, outages, deploy, job, installed, fallback>>,
             new.pc \notin {"none", "gone", "unborn"}, me.pc \notin Ends, me.pc \in Late => new.pc \in Late,
             Worker(new, job, installed, fallback, slipped)
      PROVE  TrueInv'
  <2>1. me.pc # "exit"
    BY <1>m DEF Ends
  <2> QED BY <1>y, <1>m, <2>1, WorkerMoves DEF Of, me
<1>f. ASSUME NEW c \in BOOLEAN, Alive(r), me.pc \in (Early \cup Mid) \ {"start", "intent"}, Raise(r, c),
             UNCHANGED <<epoch, running, op, poll>>,
             UNCHANGED <<asked, told, outlived, slipped, outages, deploy, job, installed, fallback>>
      PROVE  TrueInv'
  <2> DEFINE new == [me EXCEPT !.pc = "fail_read", !.cancelled = c]
  <2>1. new \in RunnerState /\ new.pc = "fail_read" /\ new.base = me.base /\ new.left = me.left
    BY <1>p, <1>f DEF RunnerState, Late
  <2>2. Advance(r, new)
    BY <1>f DEF Raise, me
  <2> HIDE DEF new
  <2>3. Worker(new, job, installed, fallback, slipped)
    BY <1>a, <1>f, <1>l, <2>1 DEF Worker, Late
  <2> QED BY <1>f, <1>l, <1>m, <2>1, <2>2, <2>3
<1>1. CASE Boot(r)
  <2> DEFINE new == [me EXCEPT !.pc = "intent"]
  <2>1. new \in RunnerState /\ new.pc = "intent" /\ new.left = me.left
    BY <1>p DEF RunnerState, Early
  <2>2. /\ Advance(r, new) /\ me.pc = "start" /\ UNCHANGED <<epoch, running, op, poll>>
        /\ UNCHANGED <<asked, told, outlived, slipped, outages, deploy, job, installed, fallback>>
    BY <1>1 DEF Boot, Advance, me
  <2> HIDE DEF new
  <2>3. Worker(new, job, installed, fallback, slipped)
    BY <1>a, <1>o, <2>1, <2>2 DEF Worker, Early, Mid, Late
  <2> QED BY <1>l, <1>o, <1>m, <2>1, <2>2, <2>3
<1>2. CASE Intent(r)
  <2> DEFINE fresh == [job EXCEPT !.cancel = FALSE, !.error = "none", !.rollback = "none"]
             go == [me EXCEPT !.pc = "check_backup", !.base = fresh]
             fail == [me EXCEPT !.pc = "fail_write", !.base = job]
  <2>1. fresh \in Job /\ Of(fresh, job)
    BY <1>p DEF Job, Of
  <2>2. /\ Advance(r, go) \/ Advance(r, fail)
        /\ me.pc = "intent" /\ UNCHANGED <<epoch, running, op, poll>>
        /\ UNCHANGED <<asked, told, outlived, slipped, outages, deploy, job, installed, fallback>>
    BY <1>2 DEF Intent, me
  <2> HIDE DEF fresh
  <2>4. /\ go \in RunnerState /\ go.pc = "check_backup" /\ go.base = fresh /\ go.left = me.left
        /\ fail \in RunnerState /\ fail.pc = "fail_write" /\ fail.base = job /\ fail.left = me.left
    BY <1>p, <2>1 DEF RunnerState, Early, Late
  <2> HIDE DEF go, fail
  <2>5. /\ Worker(go, job, installed, fallback, slipped)
        /\ Worker(fail, job, installed, fallback, slipped)
    BY <1>a, <1>o, <2>1, <2>2, <2>4 DEF Worker, Early, Mid, Late, Of
  <2> QED BY <1>l, <1>o, <1>m, <2>2, <2>4, <2>5
<1>3. ASSUME NEW at, NEW go, Plain(at, go), Check(r, at, go) \/ Work(r, at, go) PROVE TrueInv'
  <2>1. /\ Alive(r) /\ me.pc = at /\ at \in (Early \cup Mid) \ {"start", "intent", "progress"}
        /\ go \in (Early \cup Mid) \ {"start", "intent", "progress"} /\ (at \in Early <=> go \in Early)
    BY <1>3, <1>l, <1>o DEF Check, Work, Plain, Stays, me
  <2>2. \/ Raise(r, TRUE) \/ Raise(r, FALSE) \/ Advance(r, [me EXCEPT !.pc = go])
    BY <1>3 DEF Check, Work, me
  <2>3. /\ UNCHANGED <<epoch, running, op, poll>>
        /\ UNCHANGED <<asked, told, outlived, slipped, outages, deploy, job, installed, fallback>>
    BY <1>3 DEF Check, Work
  <2> DEFINE new == [me EXCEPT !.pc = go]
  <2>4. new \in RunnerState /\ new.pc = go /\ new.left = me.left /\ new.base = me.base
    BY <1>p, <2>1 DEF RunnerState
  <2> HIDE DEF new
  <2>5. Worker(new, job, installed, fallback, slipped)
    BY <1>a, <1>l, <2>1, <2>4 DEF Worker, Late
  <2> QED BY <1>f, <1>l, <1>m, <2>1, <2>2, <2>3, <2>4, <2>5 DEF new
<1>4. ASSUME NEW at, NEW go, Plain(at, go), Read(r, at, go) PROVE TrueInv'
  <2> DEFINE new == [me EXCEPT !.pc = go, !.base = job]
  <2>1. /\ Alive(r) /\ me.pc = at /\ at \in (Early \cup Mid) \ {"start", "intent", "progress"}
        /\ go \in (Early \cup Mid) \ {"start", "intent", "progress"} /\ (at \in Early <=> go \in Early)
    BY <1>4, <1>l, <1>o DEF Read, Plain, Stays, me
  <2>3. /\ Advance(r, new) /\ UNCHANGED <<epoch, running, op, poll>>
        /\ UNCHANGED <<asked, told, outlived, slipped, outages, deploy, job, installed, fallback>>
    BY <1>4 DEF Read, me
  <2>4. new \in RunnerState /\ new.pc = go /\ new.left = me.left /\ new.base = job
    BY <1>p, <2>1 DEF RunnerState
  <2> HIDE DEF new
  <2>5. Worker(new, job, installed, fallback, slipped)
    BY <1>a, <1>l, <2>1, <2>4 DEF Worker, Late, Of
  <2> QED BY <1>l, <1>m, <2>1, <2>3, <2>4, <2>5
\* Before the switch and after it, up to the restart, nobody holds a record that awaits one.
<1>e. Alive(r) /\ me.pc \notin Late =>
        /\ job.stage # "restarting" /\ poll.pc = "idle"
        /\ \A a \in Admins : op[a].pc \in Holding => op[a].state.stage # "restarting"
  BY <1>t DEF FileInv, PollInv, ThreadInv, Awaits, AliveIn, me
\* _set, before the restart.
<1>5. ASSUME NEW at, NEW go, NEW stage \in Reported, Stays(at, go), Set(r, at, stage, go)
      PROVE  TrueInv'
  <2> DEFINE new == [me EXCEPT !.pc = go]
  <2>1. /\ Alive(r) /\ me.pc = at /\ at \in (Early \cup Mid) \ {"start", "intent", "progress"}
        /\ go \in (Early \cup Mid) \ {"start", "intent", "progress"} /\ (at \in Early <=> go \in Early)
    BY <1>5, <1>l, <1>o DEF Set, Stays, me
  <2>2. /\ Advance(r, new) /\ UNCHANGED <<epoch, running, op, poll, asked, told, outlived, slipped, outages, deploy>>
        /\ UNCHANGED <<installed, fallback>> /\ job' = [me.base EXCEPT !.stage = stage]
    BY <1>5 DEF Set, me
  <2>3. new \in RunnerState /\ new.pc = go /\ new.left = me.left /\ new.base = me.base
    BY <1>p, <2>1 DEF RunnerState
  <2>4. job'.stage = stage /\ Of(job', job) /\ Of(me.base, job)
    BY <1>a, <1>p, <2>1, <2>2 DEF Job, Of, Worker
  <2>5. FileInv'
    BY <2>4 DEF FileInv, Awaits, Reported
  <2> HIDE DEF new
  <2>6. Worker(new, job', installed', fallback', slipped')
    BY <1>a, <1>l, <2>1, <2>2, <2>3, <2>4 DEF Worker, Late, Of
  <2>7. me.pc \notin Late /\ me.pc \notin Ends /\ me.pc # "exit" /\ new.pc # "none"
    BY <1>l, <2>1, <2>3 DEF Late
  <2> QED BY <1>y, <2>1, <2>2, <2>3, <2>4, <2>5, <2>6, <2>7, WorkerMoves DEF me
<1>6. CASE Fetch(r)
  <2> DEFINE new == [me EXCEPT !.pc = "read_fetch", !.seen = NoJob, !.bundle = me.base.target]
  <2>1. me.pc = "fetch"
    BY <1>6 DEF Fetch, me
  <2>2. /\ UNCHANGED <<epoch, running, op, poll>>
        /\ UNCHANGED <<asked, told, outlived, slipped, outages, deploy, job, installed, fallback>>
        /\ Raise(r, FALSE) \/ Advance(r, new)
    BY <1>6 DEF Fetch, me
  <2>3. new.pc = "read_fetch" /\ new.base = me.base /\ new.left = me.left
    BY <1>p DEF RunnerState
  <2>4. Advance(r, new) => new \in RunnerState
    <3> SUFFICES ASSUME Advance(r, new) PROVE new \in RunnerState
      OBVIOUS
    <3>1. runner'[r] = new /\ runner'[r] \in RunnerState
      BY <1>t, <1>y DEF TypeInv, TypeOK, Advance
    <3> QED BY <3>1
  <2>5. me.pc \in Early \ {"start", "intent"} /\ new.pc \in Early
    BY <2>1, <2>3 DEF Early
  <2> HIDE DEF new
  <2>6. Worker(new, job, installed, fallback, slipped)
    BY <1>a, <1>o, <1>l, <2>1, <2>3, <2>5 DEF Worker, Late
  <2>7. Alive(r) /\ new.pc \notin {"none", "gone", "unborn"} /\ me.pc \notin Ends
    BY <1>l, <1>o, <2>1, <2>3 DEF Ends
  <2> QED BY <1>f, <1>l, <1>m, <2>2, <2>4, <2>5, <2>6, <2>7
<1>7. CASE ProgressRead(r)
  <2> DEFINE new == [me EXCEPT !.pc = "progress", !.seen = job]
  <2>1. me.pc = "fetch" /\ job.stage = "fetching_bundle"
    BY <1>7 DEF ProgressRead, me
  <2>2. /\ UNCHANGED <<epoch, running, op, poll>> /\ Advance(r, new)
        /\ UNCHANGED <<asked, told, outlived, slipped, outages, deploy, job, installed, fallback>>
    BY <1>7 DEF ProgressRead, me
  <2>3. /\ new \in RunnerState /\ new.pc = "progress" /\ new.base = me.base /\ new.left = me.left
        /\ new.seen = job
    BY <1>p DEF RunnerState, Early
  <2> HIDE DEF new
  <2>6. Worker(new, job, installed, fallback, slipped)
    BY <1>a, <1>o, <1>l, <2>1, <2>3 DEF Worker, Early, Mid, Late, Of
  <2>7. Alive(r) /\ me.pc \notin Ends /\ me.pc \in Early
    BY <1>o, <2>1 DEF Ends, Early
  <2> QED BY <1>l, <1>m, <2>2, <2>3, <2>6, <2>7
<1>8. CASE ProgressWrite(r)
  <2> DEFINE new == [me EXCEPT !.pc = "fetch"]
  <2>1. me.pc = "progress" /\ Alive(r)
    BY <1>8, <1>o DEF ProgressWrite, me
  <2>2. /\ Advance(r, new) /\ UNCHANGED <<epoch, running, op, poll, asked, told, outlived, slipped, outages, deploy>>
        /\ UNCHANGED <<installed, fallback>> /\ job' = me.seen
    BY <1>8 DEF ProgressWrite, me
  <2>3. new \in RunnerState /\ new.pc = "fetch" /\ new.base = me.base /\ new.left = me.left
    BY <1>p DEF RunnerState, Early
  <2>4. job'.stage = "fetching_bundle" /\ Of(job', job)
    BY <1>a, <2>1, <2>2 DEF Worker
  <2>5. FileInv'
    BY <2>4 DEF FileInv, Awaits
  <2> HIDE DEF new
  <2>6. Worker(new, job', installed', fallback', slipped')
    BY <1>a, <2>1, <2>2, <2>3, <2>4 DEF Worker, Early, Mid, Late, Of
  <2>7. me.pc \notin Late /\ me.pc \notin Ends
    BY <2>1 DEF Ends, Late
  <2> QED BY <1>y, <2>1, <2>2, <2>3, <2>4, <2>5, <2>6, <2>7, WorkerMoves DEF me
<1>9. CASE Install(r)
  <2> DEFINE new == [me EXCEPT !.pc = "read_install", !.left = TRUE]
             late == [me EXCEPT !.pc = "fail_read", !.cancelled = FALSE]
  <2>1. Alive(r) /\ me.pc = "install" /\ me.pc \in Early \ {"start", "intent"}
    BY <1>9, <1>o DEF Install, Early, me
  <2>2. /\ UNCHANGED <<epoch, running, op, poll, asked, told, outlived, outages, deploy, job>>
        /\ \/ Raise(r, FALSE) /\ UNCHANGED <<installed, fallback, slipped>>
           \/ Advance(r, new) /\ fallback' = installed /\ slipped' = slipped
           \/ Advance(r, late) /\ slipped' = TRUE
    BY <1>9 DEF Install, Raise, me
  <2>3. /\ new \in RunnerState /\ new.pc = "read_install" /\ new.base = me.base /\ new.left
        /\ late \in RunnerState /\ late.pc = "fail_read" /\ late.base = me.base
        /\ late.left = me.left
    BY <1>p DEF RunnerState, Mid, Late
  <2> HIDE DEF new, late
  <2>4. CASE Raise(r, FALSE) /\ UNCHANGED <<installed, fallback, slipped>>
    BY <1>f, <2>1, <2>2, <2>4
  <2>5. me.pc \notin Late /\ me.pc \notin Ends /\ me.pc # "exit" /\ Of(job', job)
    BY <2>1, <2>2 DEF Late, Ends, Of
  <2>6. installed = job.prev /\ ~me.left /\ ~slipped /\ Of(me.base, job)
    BY <1>a, <1>l, <2>1 DEF Worker
  <2>7. CASE Advance(r, new) /\ fallback' = installed /\ slipped' = slipped
    <3>1. Worker(new, job', installed', fallback', slipped')
      BY <1>l, <2>2, <2>3, <2>6, <2>7 DEF Worker, Mid
    <3> QED BY <1>y, <2>1, <2>2, <2>3, <2>5, <2>7, <3>1, WorkerMoves DEF me
  <2>8. CASE Advance(r, late) /\ slipped' = TRUE
    <3>1. Worker(late, job', installed', fallback', slipped')
      BY <1>l, <2>2, <2>3, <2>6, <2>8 DEF Worker, Late
    <3> QED BY <1>y, <2>1, <2>2, <2>3, <2>5, <2>8, <3>1, WorkerMoves DEF me
  <2> QED BY <2>2, <2>4, <2>7, <2>8
<1>10. CASE Deps(r)
  <2>1. Alive(r) /\ me.pc = "deps" /\ me.pc \in Mid
    BY <1>10, <1>o DEF Deps, Mid, me
  <2> DEFINE new == [me EXCEPT !.pc = "read_deps"]
  <2>2. /\ UNCHANGED <<epoch, running, op, poll>>
        /\ UNCHANGED <<asked, told, outlived, slipped, outages, deploy, job, installed, fallback>>
        /\ Raise(r, TRUE) \/ Raise(r, FALSE) \/ Advance(r, new)
    BY <1>10 DEF Deps, me
  <2>3. new \in RunnerState /\ new.pc = "read_deps" /\ new.base = me.base /\ new.left = me.left
    BY <1>p DEF RunnerState, Mid
  <2> HIDE DEF new
  <2>4. Worker(new, job, installed, fallback, slipped)
    BY <1>a, <2>1, <2>3 DEF Worker, Early, Mid, Late
  <2>5. me.pc \notin Late /\ me.pc \notin Ends /\ new.pc \notin {"none", "gone", "unborn"}
    BY <2>1, <2>3 DEF Late, Ends
  <2> QED BY <1>f, <1>l, <1>m, <2>1, <2>2, <2>3, <2>4, <2>5
<1>11. CASE SetRestarting(r)
  <2> DEFINE new == [me EXCEPT !.pc = "restart"]
  <2>1. Alive(r) /\ me.pc = "set_restart"
    BY <1>11, <1>o DEF SetRestarting, me
  <2>2. /\ Advance(r, new) /\ UNCHANGED <<epoch, running, op, poll, asked, told, outlived, slipped, outages, deploy>>
        /\ UNCHANGED <<installed, fallback>>
        /\ job' = [me.base EXCEPT !.stage = "restarting", !.error = "none", !.cancel = FALSE,
                                  !.restart = epoch]
    BY <1>11 DEF SetRestarting, me
  <2>3. new \in RunnerState /\ new.pc = "restart" /\ new.base = me.base /\ new.left = me.left
    BY <1>p DEF RunnerState, Late
  <2>4. job'.stage = "restarting" /\ job'.restart = epoch /\ Of(job', job)
    BY <1>a, <1>p, <2>1, <2>2 DEF Job, Of, Worker
  <2> HIDE DEF new
  <2>5. runner'[r] = new /\ \A q \in Runners \ {r} : runner'[q] = runner[q]
    BY <1>t, <2>2 DEF TypeOK, Advance
  <2>6. FileInv'
    <3>1. AliveIn(Late)' /\ ~Starting'
      BY <1>a, <2>1, <2>2, <2>3, <2>5 DEF AliveIn, Alive, Late, Starting
    <3> QED BY <1>p, <2>2, <2>4, <3>1 DEF FileInv, Awaits
  <2>7. Worker(new, job', installed', fallback', slipped')
    BY <1>a, <2>1, <2>2, <2>3, <2>4 DEF Worker, Early, Mid, Late, Of
  <2>8. me.pc \notin Late /\ me.pc \notin Ends
    BY <2>1 DEF Late, Ends
  <2> QED BY <1>y, <2>1, <2>2, <2>3, <2>4, <2>6, <2>7, <2>8, WorkerMoves DEF me
<1>12. ASSUME NEW at \in {"restart", "fail_restart"}, NEW raised \in {"fail_read", "fail_rewrite"},
              at = "restart" <=> raised = "fail_read", RestartCall(r, at, "exit", raised)
       PROVE  TrueInv'
  <2>1. Alive(r) /\ me.pc = at /\ UNCHANGED <<asked, told, outlived, slipped, outages, deploy, job, flag, pid, installed, fallback>>
    BY <1>12, <1>o DEF RestartCall, me
  <2>2. me.left /\ Worker(me, job, installed, fallback, slipped)
    BY <1>a, <2>1 DEF Worker, Early
  <2>3. \A go \in {"exit", raised} :
          LET new == [me EXCEPT !.pc = go]
          IN  /\ new \in RunnerState /\ new.pc = go /\ new.base = me.base /\ new.left = me.left
              /\ Worker(new, job, installed, fallback, slipped)
    <3> SUFFICES ASSUME NEW go \in {"exit", raised}
                 PROVE  LET new == [me EXCEPT !.pc = go]
                        IN  /\ new \in RunnerState /\ new.pc = go /\ new.base = me.base
                            /\ new.left = me.left /\ Worker(new, job, installed, fallback, slipped)
      OBVIOUS
    <3> DEFINE new == [me EXCEPT !.pc = go]
    <3>1. new \in RunnerState /\ new.pc = go /\ new.base = me.base /\ new.left = me.left
      BY <1>p DEF RunnerState, Late
    <3> HIDE DEF new
    <3>2. Worker(new, job, installed, fallback, slipped)
      BY <1>12, <2>1, <2>2, <3>1 DEF Worker, Early, Mid, Late
    <3> QED BY <3>1, <3>2 DEF new
  <2>4. CASE Advance(r, [me EXCEPT !.pc = raised]) /\ UNCHANGED <<service, op, poll>>
    <3> DEFINE new == [me EXCEPT !.pc = raised]
    <3>1. /\ new \in RunnerState /\ new.pc = raised /\ Worker(new, job, installed, fallback, slipped)
      BY <2>3
    <3> HIDE DEF new
    <3>2. /\ raised \in Late /\ raised \notin {"none", "gone", "unborn"} /\ me.pc # "exit"
          /\ me.pc \in Ends => raised \in Ends
      BY <1>12, <2>1 DEF Late, Ends
    <3> QED BY <1>y, <2>1, <2>4, <3>1, <3>2, WorkerMoves DEF Of, me, new
  <2>5. ASSUME NEW go \in {"exit", raised}, go = "exit" \/ LateRestart,
               RestartService([runner EXCEPT ![r].pc = go])
        PROVE  TrueInv'
    <3>1. /\ epoch' = epoch + 1 /\ running' = installed
          /\ op' = [a \in Admins |-> Idle] /\ poll' = PollRest
          /\ runner' \in [Runners -> RunnerState]
          /\ \A q \in Runners :
               \/ q # r /\ runner'[q] = runner[q]
               \/ runner'[q] = Gone
               \/ q = r /\ runner'[q] = [runner[r] EXCEPT !.pc = go]
               \/ ~Alive(q) /\ runner'[q] = runner[q]
      <4>1. go \in Early \cup Mid \cup Late
        BY <1>12, <2>5 DEF Late
      <4> QED BY <1>t, <2>5, <4>1, ServiceRestarts
    <3>2. \A q \in Runners : Alive(q)' => q = r /\ runner'[q] = [me EXCEPT !.pc = go]
      BY <1>a, <2>1, <3>1, AtRest DEF Alive, me
    <3>3. \A q \in Runners : runner'[q].pc = "none" => runner'[q] = Dormant
      <4>1. [me EXCEPT !.pc = go].pc = go /\ go # "none"
        BY <1>12, <2>3, <2>5
      <4> QED BY <1>t, <3>1, <4>1, AtRest DEF CrewInv, me
    <3>4. /\ go \in Late /\ (~LateRestart => go = "exit")
          /\ me.pc \in Ends => go \in Ends
          /\ me.pc # "exit"
      BY <1>12, <2>1, <2>5 DEF Late, Ends
    <3>5. \A q \in Runners : Alive(q)' =>
            /\ Alive(q) /\ runner'[q].pc = go /\ runner[q].pc = me.pc
            /\ Worker(runner'[q], job, installed, fallback, slipped)
      BY <2>1, <2>3, <2>5, <3>2 DEF me
    <3> QED BY <1>y, <2>1, <3>1, <3>2, <3>3, <3>4, <3>5, RestartKeeps
  <2> QED BY <1>12, <2>4, <2>5 DEF RestartCall, me
<1>13. CASE FailRead(r)
  <2> DEFINE go == IF me.left THEN "restore" ELSE "fail_write"
             new == [me EXCEPT !.pc = go, !.base = job]
  <2>1. Alive(r) /\ me.pc = "fail_read"
    BY <1>13, <1>o DEF FailRead, me
  <2>2. /\ UNCHANGED <<epoch, running, op, poll>> /\ Advance(r, new)
        /\ UNCHANGED <<asked, told, outlived, slipped, outages, deploy, job, installed, fallback>>
    BY <1>13 DEF FailRead, me
  <2>3. go \in Late /\ (me.left <=> go = "restore") /\ go \in {"restore", "fail_write"}
    BY <1>p DEF Late
  <2> HIDE DEF go
  <2>4. new \in RunnerState /\ new.pc = go /\ new.base = job /\ new.left = me.left
    BY <1>p, <2>3 DEF RunnerState
  <2> HIDE DEF new
  <2>5. Worker(new, job, installed, fallback, slipped)
    BY <1>a, <1>l, <2>1, <2>3, <2>4 DEF Worker, Of
  <2>6. me.pc \notin Ends
    BY <2>1 DEF Ends
  <2> QED BY <1>l, <1>m, <2>1, <2>2, <2>3, <2>4, <2>5, <2>6
<1>14. CASE Restore(r)
  <2>1. Alive(r) /\ me.pc = "restore" /\ me.left
    BY <1>14, <1>a, <1>o DEF Restore, Worker, Early, me
  <2>2. PICK x \in {"ok", "bad"} :
          /\ Advance(r, [me EXCEPT !.pc = "fail_write", !.base.rollback = x])
          /\ x = "ok" => installed' = fallback
    BY <1>14 DEF Restore, me
  <2> DEFINE rec == [me.base EXCEPT !.rollback = x]
             new == [me EXCEPT !.pc = "fail_write", !.base = rec]
  <2>3. rec \in Job /\ Of(rec, me.base) /\ rec.rollback = x
    BY <1>p DEF Job, Of
  <2>4. [me EXCEPT !.pc = "fail_write", !.base.rollback = x] = new
    BY <1>p DEF RunnerState
  <2>5. UNCHANGED <<epoch, running, op, poll, asked, told, outlived, slipped, outages, deploy, job>>
    BY <1>14 DEF Restore
  <2> HIDE DEF rec
  <2>6. new \in RunnerState /\ new.pc = "fail_write" /\ new.base = rec /\ new.left = me.left
    BY <1>p, <2>3 DEF RunnerState, Late
  <2>7. Advance(r, new)
    BY <2>2, <2>4
  <2> HIDE DEF new
  <2>8. Worker(new, job', installed', fallback', slipped')
    <3>1. Of(me.base, job) /\ fallback = job.prev
      BY <1>a, <2>1 DEF Worker
    <3>2. Of(new.base, job') /\ (new.base.rollback = "ok" => installed' = job'.prev)
      BY <2>2, <2>3, <2>5, <2>6, <3>1 DEF Of
    <3>3. ~slipped'
      BY <1>a, <2>1, <2>5 DEF Worker
    <3> QED BY <2>1, <2>6, <3>2, <3>3 DEF Worker, Mid, Late
  <2>9. me.pc \notin Ends /\ me.pc # "exit" /\ new.pc \in Late /\ new.pc # "none" /\ Of(job', job)
    BY <2>1, <2>5, <2>6 DEF Ends, Late, Of
  <2> QED BY <1>y, <2>1, <2>5, <2>6, <2>7, <2>8, <2>9, WorkerMoves DEF me
<1>15. CASE FailWrite(r)
  <2>1. Alive(r) /\ me.pc = "fail_write" /\ Worker(me, job, installed, fallback, slipped)
    BY <1>15, <1>a, <1>o DEF FailWrite, me
  <2> DEFINE go == IF me.left THEN "fail_restart" ELSE "exit"
             new == [me EXCEPT !.base = job', !.pc = go]
  <2>2. /\ UNCHANGED <<epoch, running, op, poll, asked, told, outlived, slipped, outages, deploy>>
        /\ UNCHANGED <<installed, fallback>> /\ Advance(r, new)
    BY <1>15 DEF FailWrite, me
  <2>3. go \in Late /\ go \in Ends /\ (me.left <=> go = "fail_restart") /\ go \in {"fail_restart", "exit"}
    BY <1>p DEF Late, Ends
  <2> HIDE DEF go
  <2>4. /\ job' \in Job /\ Of(job', me.base) /\ job'.stage = "failed"
        /\ me.left => job'.error = "rolled" /\ job'.rollback = me.base.rollback
        /\ ~me.left => job'.error = "before"
    <3>1. CASE me.left
      <4>1. job' = [me.base EXCEPT !.stage = "failed", !.error = "rolled",
                                   !.cancel = me.base.cancel \/ me.cancelled]
        BY <1>15, <3>1 DEF FailWrite, me
      <4>2. me.base.cancel \/ me.cancelled \in BOOLEAN
        BY <1>p DEF Job, RunnerState
      <4>3. job' \in Job
        BY <1>y DEF TypeInv, TypeOK
      <4> QED BY <1>p, <3>1, <4>1, <4>3 DEF Job, Of
    <3>2. CASE ~me.left
      <4>1. job' = [me.base EXCEPT !.stage = "failed", !.error = "before", !.rollback = "none"]
        BY <1>15, <3>2 DEF FailWrite, me
      <4> QED BY <1>p, <3>2, <4>1 DEF Job, Of, Terminal
    <3> QED BY <3>1, <3>2
  <2>5. new \in RunnerState /\ new.pc = go /\ new.base = job' /\ new.left = me.left
    BY <1>p, <2>3, <2>4 DEF RunnerState
  <2> HIDE DEF new
  <2>6. Of(job', job)
    BY <2>1, <2>4 DEF Worker, Of
  <2>7. Worker(new, job', installed', fallback', slipped')
    <3>1. me.left => Of(new.base, job') /\ (new.base.rollback = "ok" => installed' = job'.prev)
      BY <2>1, <2>2, <2>4, <2>5, <2>6 DEF Worker, Of
    <3>2. ~me.left => Of(new.base, job') /\ (slipped' \/ installed' = job'.prev)
      BY <2>1, <2>2, <2>4, <2>5, <2>6 DEF Worker, Of
    <3>3. me.left => new.base.stage = "failed" /\ new.base.error = "rolled" /\ new.pc = "fail_restart"
      BY <2>3, <2>4, <2>5
    <3>4. ~me.left => new.pc = "exit"
      BY <2>3, <2>5
    <3>5. slipped' => ~new.left
      BY <2>1, <2>2, <2>5 DEF Worker
    <3>6. new.pc \in Late /\ new.pc \notin Early
      BY <1>l, <2>3, <2>5
    <3> QED BY <2>5, <3>1, <3>2, <3>3, <3>4, <3>5, <3>6 DEF Worker, Mid, Late
  <2>8. runner'[r] = new /\ \A q \in Runners \ {r} : runner'[q] = runner[q]
    BY <1>t, <2>2 DEF TypeOK, Advance
  <2>9. FileInv'
    <3>1. ~Starting' /\ \A S : go \in S => AliveIn(S)'
      BY <1>a, <2>1, <2>2, <2>5, <2>8 DEF AliveIn, Alive, Starting
    <3>2. me.left => go \in {"fail_restart", "fail_rewrite", "exit"}
      BY <2>3
    <3>3. ~me.left => (slipped' \/ installed' = job'.prev) /\ go = "exit"
      BY <2>1, <2>2, <2>3, <2>6 DEF Worker, Of
    <3>4. me.left /\ me.base.rollback = "ok" => installed' = job'.prev
      BY <2>1, <2>2, <2>6 DEF Worker, Of
    <3> QED BY <1>p, <2>4, <3>1, <3>2, <3>3, <3>4 DEF FileInv, Awaits
  <2>10. me.pc \notin Ends /\ me.pc # "exit" /\ new.pc \in Late /\ new.pc # "none"
    BY <2>1, <2>3, <2>5 DEF Ends
  <2> QED BY <1>y, <2>1, <2>2, <2>5, <2>6, <2>7, <2>9, <2>10, WorkerMoves DEF me
<1>16. CASE FailRewrite(r)
  <2> DEFINE new == [me EXCEPT !.pc = "exit"]
  <2>1. Alive(r) /\ me.pc = "fail_rewrite" /\ Worker(me, job, installed, fallback, slipped)
    BY <1>16, <1>a, <1>o DEF FailRewrite, me
  <2>2. /\ Advance(r, new) /\ UNCHANGED <<epoch, running, op, poll, asked, told, outlived, slipped, outages, deploy>>
        /\ UNCHANGED <<installed, fallback>> /\ job' = [me.base EXCEPT !.rollback = "bad"]
    BY <1>16 DEF FailRewrite, me
  <2>3. new \in RunnerState /\ new.pc = "exit" /\ new.base = me.base /\ new.left = me.left
    BY <1>p DEF RunnerState, Late
  <2>4. /\ job'.rollback = "bad" /\ job'.stage = "failed" /\ job'.error = "rolled" /\ Of(job', job)
    BY <1>p, <2>1, <2>2 DEF Job, Of, Worker
  <2>5. FileInv'
    BY <2>4 DEF FileInv, Awaits
  <2> HIDE DEF new
  <2>6. Worker(new, job', installed', fallback', slipped')
    BY <2>1, <2>2, <2>3, <2>4 DEF Worker, Early, Mid, Late, Of
  <2>7. me.pc # "exit" /\ new.pc \in Late /\ new.pc \in Ends /\ new.pc # "none"
    BY <2>1, <2>3 DEF Late, Ends
  <2> QED BY <1>y, <2>1, <2>2, <2>3, <2>4, <2>5, <2>6, <2>7, WorkerMoves DEF me
<1>17. CASE Exit(r) \/ Die(r)
  <2>1. /\ Alive(r) /\ Advance(r, Gone) /\ job' = job
        /\ UNCHANGED <<epoch, running, op, poll, asked, told, outlived, slipped, outages, deploy>>
        /\ UNCHANGED <<installed, fallback>>
    BY <1>17 DEF Exit, Die, Alive
  <2> QED BY <1>y, <2>1, AtRest, WorkerMoves DEF Of, Over, Ends
<1>18. CASE Stillbirth(r)
  <2>1. /\ Alive(r) /\ Advance(r, Unborn) /\ job' = job /\ me.pc \in {"start", "intent"}
        /\ UNCHANGED <<epoch, running, op, poll, asked, told, outlived, slipped, outages, deploy>>
        /\ UNCHANGED <<installed, fallback>>
    BY <1>18 DEF Stillbirth, Alive, me
  <2> QED BY <1>y, <2>1, AtRest, WorkerMoves DEF Of, Over, Ends
<1> QED BY <1>1, <1>2, <1>3, <1>4, <1>5, <1>6, <1>7, <1>8, <1>9, <1>10, <1>11, <1>12, <1>13,
           <1>14, <1>15, <1>16, <1>17, <1>18, RunCases

\* However the calls of one update interleave with its process and its polls, and
\* wherever the host goes down, the job file holds the truth about it.
LEMMA TrueInvariance ==
  ASSUME ~Overlap
  PROVE  Spec => []TrueInv
<1>1. ASSUME TrueInv, [Next]_vars PROVE TrueInv'
  <2>1. CASE UNCHANGED vars
    <3>1. TypeInv'
      BY <1>1, <2>1 DEF vars, TrueInv, TypeInv, TypeOK, NamedInv, Alive
    <3>2. /\ \A r \in Runners : Alive(r)' <=> Alive(r)
          /\ NoneAlive' <=> NoneAlive
          /\ Starting' <=> Starting
          /\ \A S : AliveIn(S)' <=> AliveIn(S)
      BY <2>1 DEF vars, Alive, NoneAlive, Starting, AliveIn
    <3>3. CrewInv' /\ WorkerInv'
      BY <1>1, <2>1, <3>2 DEF vars, TrueInv, CrewInv, WorkerInv
    <3>4. FileInv' /\ PollInv'
      BY <1>1, <2>1, <3>2 DEF vars, TrueInv, FileInv, PollInv, Awaits
    <3>5. ThreadInv'
      BY <1>1, <2>1, <3>2 DEF vars, TrueInv, ThreadInv, Awaits
    <3> QED BY <3>1, <3>3, <3>4, <3>5 DEF TrueInv
  <2> QED BY <1>1, <2>1, TrueOps, TrueWorld, TrueRun DEF Next
<1> QED BY <1>1, TrueInit, PTL DEF Spec

\* What the job file says of a failed update, that it failed before the switch or that it
\* was rolled back, is what happened to the tree, also when `systemctl restart' times out
\* after it restarted the service, and the job rolls back an update that a poll may have
\* confirmed by then.
THEOREM FailuresAreTrue ==
  ASSUME ~Overlap
  PROVE  Spec => [](FailedBeforeIsUntouched /\ RollbackIsReal)
<1>1. TrueInv => FailedBeforeIsUntouched /\ RollbackIsReal
  BY DEF TrueInv, FileInv, FailedBeforeIsUntouched, RollbackIsReal
<1> QED BY <1>1, TrueInvariance, PTL

\* What the job file says of a finished update, that it succeeded, that it failed
\* before the switch or that it was rolled back, is what happened to the tree and to
\* the service: for every number of releases, threads, polls, processes and outages,
\* as long as nobody applies an update before the last one is at rest, and a restart that
\* reports an error did not happen.  Without the latter only SuccessIsReal is lost.
THEOREM UpdateRecordIsTrue ==
  ASSUME ~Overlap, ~LateRestart
  PROVE  Spec => []RecordIsTrue
<1>1. TrueInv => RecordIsTrue
  BY DEF TrueInv, FileInv, RecordIsTrue, SuccessIsReal, FailedBeforeIsUntouched, RollbackIsReal
<1> QED BY <1>1, TrueInvariance, PTL

-----------------------------------------------------------------------------
(* Cancels.  A cancel asks by the flag and then by a signal, and forces the  *)
(* end of what is still in progress five seconds later, wherever its process *)
(* is.  The signal may have failed, so a process that was at work goes on,   *)
(* and may even switch the tree.  What the forced end does exclude, while    *)
(* one operator cancels at a time, is a process that had not yet taken the   *)
(* update up: the file never goes back to "queued", the only stage from      *)
(* which the job begins.                                                     *)

\* The flag is somebody's request of this update.
FlagInv ==
  /\ flag => asked
  /\ \A a \in Admins : op[a].pc = "apply_write" => ~flag

\* A process that works does so on the bundle of its own update, and its update is
\* reported to be in progress unless a cancel forced its end.
WorkInv ==
  \A r \in Runners :
    /\ runner[r].pc \in Fetched => runner[r].bundle = job.target
    /\ runner[r].pc \in Working => told \/ job.stage \in InProgress

\* The places of a process that has taken the update up and not yet switched the tree.
Taken == Early \ {"start", "intent"}

\* After a forced end nothing puts the update back in the queue, and who is on the way to
\* the switch was on it then.
ToldInv ==
  told => /\ job.stage # "queued"
          /\ \A a \in Admins : op[a].pc \in Holding => op[a].state.stage # "queued"
          /\ \A r \in Runners : runner[r].pc \in Taken => r \in outlived

HonestInv == FlagInv /\ WorkInv /\ ToldInv

\* What a step of the whole system owes to its cancels.
Honoured == CancelIsMeant /\ InstallsTarget

OneCanceller == \A a, b \in Cancellers : a = b

\* The places that the invariant speaks of are those of a living process.
LEMMA Places ==
  /\ {"none", "gone", "unborn", "start", "intent"} \cap (Working \cup Fetched \cup Taken) = {}
  /\ Fetched \subseteq Working /\ Working \subseteq Taken /\ Taken \subseteq Early
  /\ (Mid \cup Late) \cap Taken = {}
  /\ "install" \in Fetched
  /\ "idle" \notin Applying \cup Cancelling
  /\ Holding \subseteq Cancelling /\ Applying \cap Cancelling = {}
BY DEF Working, Fetched, Taken, Early, Mid, Late, Applying, Cancelling, Holding

LEMMA HonestInit == Init => HonestInv
BY AtRest, Places DEF Init, HonestInv, FlagInv, WorkInv, ToldInv

\* A step that leaves every process where it is, with its bundle.
LEMMA Unmoved ==
  ASSUME \A r \in Runners : /\ runner'[r].pc = runner[r].pc /\ runner'[r].bundle = runner[r].bundle
                            /\ runner'[r].cancelled = runner[r].cancelled
  PROVE  /\ Honoured
         /\ WorkInv /\ job'.target = job.target /\ told' = told
            /\ (job' = job \/ job'.stage \in InProgress
                \/ \A r \in Runners : runner[r].pc \notin Working) => WorkInv'
BY DEF Honoured, CancelIsMeant, InstallsTarget, Switches, RunAt, WorkInv

LEMMA StopOps ==
  ASSUME ~Overlap, OneCanceller, TrueInv, TrueInv', HonestInv,
         NEW a \in Admins, Apply(a) \/ Cancel(a)
  PROVE  HonestInv' /\ Honoured
<1>t. /\ TypeOK /\ CrewInv /\ ThreadInv /\ TypeOK' /\ CrewInv' /\ FlagInv /\ WorkInv /\ ToldInv
  BY DEF TrueInv, TypeInv, HonestInv
<1>p. /\ op \in [Admins -> OpState] /\ job \in Job /\ op[a].state \in Job /\ NoJob \in Job
      /\ runner \in [Runners -> RunnerState]
  BY <1>t, Parts, AtRest
<1> USE DEF files, tree, service, past, forced, OpAt
\* Only one thread cancels.
<1>c. \A b \in Admins \ {a} : op[a].pc \in Cancelling => op[b].pc \notin Cancelling
  BY <1>t DEF CrewInv, OneCanceller
<1>1. CASE ApplyRead(a) \/ ApplyClear(a) \/ ApplyWrite(a)
  <2>1. /\ op'[a].pc \in Applying /\ \A b \in Admins \ {a} : op'[b] = op[b]
        /\ (op'[a].pc = "apply_write" => ~flag')
        /\ (flag' => flag) /\ (flag' => asked') /\ runner' = runner
        /\ ~told' \/ (told' /\ told /\ job' = job)
    <3>1. CASE ApplyRead(a)
      <4>1. PICK t \in Tags : OpStep(a, "apply_clear", [NoJob EXCEPT !.stage = "queued", !.target = t])
        BY <3>1 DEF ApplyRead
      <4>2. [NoJob EXCEPT !.stage = "queued", !.target = t] \in Job
        BY <1>p DEF Job, InProgress
      <4> QED BY <1>t, <1>p, <3>1, <4>1, <4>2, OpMoves DEF ApplyRead, Applying, FlagInv
    <3>2. CASE ApplyClear(a)
      <4>1. [op[a].state EXCEPT !.prev = installed] \in Job
        BY <1>p, <1>t DEF Job, TypeOK
      <4> QED BY <1>p, <3>2, <4>1, OpMoves DEF ApplyClear, Applying
    <3>3. CASE ApplyWrite(a)
      BY <1>t, <1>p, <3>3, OpMoves DEF ApplyWrite, Applying, FlagInv
    <3> QED BY <1>1, <3>1, <3>2, <3>3
  <2>2. NoneAlive /\ \A b \in Admins \ {a} : op[b].pc = "idle"
    BY <1>t, <1>1 DEF ApplyRead, ApplyClear, ApplyWrite, Settled, NoneAlive, CrewInv, Applying
  <2>3. FlagInv'
    BY <2>1, <2>2 DEF FlagInv
  <2>4. \A r \in Runners : runner'[r].pc \in {"none", "gone", "unborn"}
    BY <2>1, <2>2 DEF NoneAlive, Alive
  <2>5. WorkInv'
    BY <2>4, Places DEF WorkInv
  <2>6. ToldInv'
    BY <1>t, <2>1, <2>2, <2>4, Places DEF ToldInv
  <2> QED BY <2>1, <2>3, <2>5, <2>6, Unmoved DEF HonestInv
<1>2. CASE ApplyStart(a)
  <2>1. /\ op'[a].pc = "idle" /\ \A b \in Admins \ {a} : op'[b] = op[b]
        /\ UNCHANGED <<flag, asked, told, outlived>> /\ op[a].pc = "apply_start"
    BY <1>p, <1>2, OpMoves DEF ApplyStart
  <2>2. NoneAlive /\ \A r \in Runners : runner[r].pc \in {"none", "gone", "unborn"}
    BY <1>t, <2>1 DEF CrewInv, Applying, NoneAlive, Alive
  <2>3. FlagInv'
    BY <1>t, <2>1 DEF FlagInv
  <2>4. job' = job \/ job'.stage = "failed"
    BY <1>p, <1>2 DEF ApplyStart, Job
  <2>5. ASSUME \A r \in Runners : \/ runner'[r].pc \in {"none", "gone", "unborn"}
                                 \/ runner'[r].pc = "start"
        PROVE  WorkInv' /\ ToldInv'
    <3>1. WorkInv'
      BY <2>5, Places DEF WorkInv
    <3>2. ToldInv'
      BY <1>t, <2>1, <2>4, <2>5, Places DEF ToldInv
    <3> QED BY <3>1, <3>2
  <2>6. CASE runner' = runner
    BY <2>2, <2>3, <2>5, <2>6, Unmoved DEF HonestInv
  <2>7. ASSUME NEW r \in Runners, runner[r].pc = "none", runner' = [runner EXCEPT ![r].pc = "start"]
        PROVE  HonestInv' /\ Honoured
    <3> DEFINE new == [runner[r] EXCEPT !.pc = "start"]
    <3>1. /\ runner[r] = Dormant /\ runner[r] \in RunnerState
      BY <1>t, <1>p, <2>7 DEF CrewInv
    <3>2. new.pc = "start" /\ ~new.cancelled
      BY <3>1, AtRest DEF RunnerState
    <3>3. runner'[r] = new /\ \A q \in Runners \ {r} : runner'[q] = runner[q]
      BY <1>p, <2>7
    <3> HIDE DEF new
    <3>4. Honoured
      BY <2>2, <3>2, <3>3 DEF Honoured, CancelIsMeant, InstallsTarget, Switches, RunAt
    <3> QED BY <2>2, <2>3, <2>5, <3>2, <3>3, <3>4 DEF HonestInv
  <2> QED BY <1>2, <2>6, <2>7 DEF ApplyStart
<1>3. CASE CancelRead(a) \/ CancelTimeout(a)
  <2>1. /\ \A b \in Admins \ {a} : op'[b] = op[b]
        /\ op'[a].pc \in {"cancel_flag", "cancel_force"} /\ op'[a].state = job
        /\ UNCHANGED <<flag, asked, told, outlived, job, runner>>
    BY <1>p, <1>3, OpMoves DEF CancelRead, CancelTimeout, Cancelling, Holding
  <2>2. FlagInv' /\ ToldInv'
    BY <1>t, <2>1 DEF FlagInv, ToldInv
  <2> QED BY <1>t, <2>1, <2>2, Unmoved DEF HonestInv
<1>4. CASE CancelFlag(a)
  <2>1. /\ \A b \in Admins \ {a} : op'[b] = op[b]
        /\ op'[a].pc = "cancel_write" /\ op[a].pc = "cancel_flag" /\ flag' /\ asked'
        /\ op'[a].state = op[a].state
        /\ UNCHANGED <<told, outlived, job, runner>>
    BY <1>p, <1>4, OpMoves DEF CancelFlag, Cancelling, Holding
  <2>2. \A b \in Admins : op'[b].pc # "apply_write"
    BY <1>t, <2>1 DEF CrewInv
  <2>3. FlagInv' /\ ToldInv'
    BY <1>t, <2>1, <2>2 DEF FlagInv, ToldInv, Holding
  <2> QED BY <1>t, <2>1, <2>3, Unmoved DEF HonestInv
<1>5. CASE CancelWrite(a)
  <2>1. /\ \A b \in Admins \ {a} : op'[b] = op[b]
        /\ op[a].pc \in Holding /\ op'[a].pc = "cancel_stop"
        /\ UNCHANGED <<flag, asked, told, outlived, runner>>
    BY <1>p, <1>5, OpMoves DEF CancelWrite, Cancelling, Holding
  <2>2. Of(op[a].state, job) /\ op[a].state.stage \in InProgress
    BY <1>t, <2>1 DEF ThreadInv
  <2>3. job'.target = job.target /\ job'.stage = op[a].state.stage /\ "cancel_stop" \notin Holding
    BY <1>p, <1>5, <2>2 DEF CancelWrite, Job, Of, Holding
  <2>4. FlagInv' /\ ToldInv'
    BY <1>t, <2>1, <2>3 DEF FlagInv, ToldInv
  <2> QED BY <1>t, <2>1, <2>2, <2>3, <2>4, Unmoved DEF HonestInv
\* The forced end notes who outlives it, and nobody else holds a record to write back.
<1>6. CASE CancelForce(a)
  <2>1. /\ \A b \in Admins \ {a} : op'[b] = op[b]
        /\ op[a].pc \in Cancelling \cap Holding /\ op'[a].pc = "cancel_clear"
        /\ UNCHANGED <<flag, asked, runner>>
        /\ told' = TRUE /\ outlived' = {r \in Runners : AtWork(r)}
    BY <1>p, <1>6, OpMoves DEF CancelForce, Cancelling, Holding, NoteForcedEnd
  <2>2. Of(op[a].state, job)
    BY <1>t, <2>1 DEF ThreadInv
  <2>3. job'.target = job.target /\ job'.stage = "failed" /\ "cancel_clear" \notin Holding
    BY <1>p, <1>6, <2>2 DEF CancelForce, Job, Of, Holding
  <2>4. FlagInv'
    BY <1>t, <2>1 DEF FlagInv
  <2>5. WorkInv'
    BY <1>t, <2>1, <2>3 DEF WorkInv
  <2>6. ToldInv'
    BY <1>c, <2>1, <2>3, Places DEF ToldInv, AtWork, Alive
  <2> QED BY <2>1, <2>4, <2>5, <2>6, Unmoved DEF HonestInv
<1>7. CASE CancelStop(a)
  <2>1. PICK hit : runner' = [r \in Runners |-> IF r \in hit /\ Alive(r)
                                               THEN [runner[r] EXCEPT !.term = TRUE] ELSE runner[r]]
    BY <1>7 DEF CancelStop
  <2>2. /\ \A b \in Admins \ {a} : op'[b] = op[b]
        /\ op'[a].pc = "cancel_wait" /\ UNCHANGED <<flag, asked, told, outlived, job>>
    BY <1>p, <1>7, OpMoves DEF CancelStop, Cancelling, Holding
  <2>3. \A r \in Runners :
          /\ runner'[r].pc = runner[r].pc /\ runner'[r].bundle = runner[r].bundle
          /\ runner'[r].cancelled = runner[r].cancelled
    <3>1. \A r \in Runners : runner[r] \in RunnerState
      BY <1>p
    <3> QED BY <2>1, <3>1 DEF RunnerState
  <2>4. FlagInv' /\ ToldInv'
    BY <1>t, <2>2, <2>3 DEF FlagInv, ToldInv, Holding
  <2> QED BY <1>t, <2>2, <2>3, <2>4, Unmoved DEF HonestInv
<1>8. CASE CancelDone(a) \/ CancelClear(a)
  <2>1. /\ \A b \in Admins \ {a} : op'[b] = op[b]
        /\ op'[a].pc = "idle" /\ ~flag'
        /\ UNCHANGED <<asked, told, outlived, job, runner>>
    BY <1>p, <1>8, OpMoves DEF CancelDone, CancelClear, Cancelling, Holding
  <2>2. FlagInv' /\ ToldInv'
    BY <1>t, <2>1, Places DEF FlagInv, ToldInv
  <2> QED BY <1>t, <2>1, <2>2, Unmoved DEF HonestInv
<1> QED BY <1>1, <1>2, <1>3, <1>4, <1>5, <1>6, <1>7, <1>8 DEF Apply, Cancel

LEMMA StopWorld ==
  ASSUME TrueInv, TrueInv', HonestInv, Poll \/ GraceElapses \/ Outage
  PROVE  HonestInv' /\ Honoured
<1>t. TypeOK /\ PollInv /\ FlagInv /\ WorkInv /\ ToldInv
  BY DEF TrueInv, TypeInv, HonestInv
<1>p. poll.state \in Job
  BY <1>t, Parts
<1> USE DEF files, tree, service, past, forced
<1>1. CASE Poll \/ GraceElapses
  <2>1. UNCHANGED <<runner, flag, asked, told, outlived, op>>
    BY <1>1 DEF Poll, PollRead, PollMismatch, PollProbe, GraceElapses
  <2>2. \/ job' = job
        \/ /\ job'.target = job.target /\ job'.stage # "queued"
           /\ \A r \in Runners : runner[r].pc \notin Working
    <3>1. CASE PollRead \/ GraceElapses
      BY <3>1 DEF PollRead, GraceElapses
    <3>2. CASE PollMismatch \/ PollProbe
      <4>1. /\ poll.pc # "idle"
            /\ job' = job \/ (job'.target = poll.state.target /\ job'.stage # "queued")
        BY <1>p, <3>2 DEF PollMismatch, PollProbe, Job
      <4>2. poll.state.target = job.target /\ AliveIn(Late)
        BY <1>t, <4>1 DEF PollInv, Awaits, Of
      <4> QED BY <4>1, <4>2, Places DEF AliveIn, Alive
    <3> QED BY <1>1, <3>1, <3>2 DEF Poll
  <2>3. WorkInv' /\ Honoured
    BY <1>t, <2>1, <2>2, Unmoved
  <2>4. FlagInv' /\ ToldInv'
    BY <1>t, <2>1, <2>2 DEF FlagInv, ToldInv
  <2> QED BY <2>3, <2>4 DEF HonestInv
<1>2. CASE Outage
  <2>1. /\ op' = [a \in Admins |-> Idle] /\ UNCHANGED <<job, flag, asked, told, outlived, tree>>
        /\ runner' = [r \in Runners |-> IF Alive(r) THEN Gone ELSE runner[r]]
    BY <1>2 DEF Outage, RestartService
  <2>2. \A r \in Runners : ~Alive(r)' /\ (runner'[r] = Gone \/ runner'[r] = runner[r])
    BY <2>1, AtRest DEF Alive
  <2>3. \A r \in Runners : runner'[r].pc \in {"none", "gone", "unborn"}
    BY <2>2 DEF Alive
  <2>4. \A a \in Admins : op'[a].pc = "idle"
    BY <2>1, AtRest
  <2>5. FlagInv' /\ WorkInv' /\ ToldInv'
    BY <1>t, <2>1, <2>3, <2>4, Places DEF FlagInv, WorkInv, ToldInv
  <2>6. Honoured
    BY <2>1, <2>2, AtRest DEF Honoured, CancelIsMeant, InstallsTarget, Switches
  <2> QED BY <2>5, <2>6 DEF HonestInv
<1> QED BY <1>1, <1>2

\* A step of a process, seen from the cancels: it is cancelled by the flag only, it
\* switches the tree only to the release of its own update, and it gets on the way to
\* the switch only while nobody forced the end of the update.
LEMMA HonestMoves ==
  ASSUME TrueInv, HonestInv, NEW r \in Runners, NEW new \in RunnerState, Alive(r), Advance(r, new),
         UNCHANGED <<op, asked, told, outlived>>, job'.target = job.target, flag' => flag,
         job' = job \/ job'.stage # "queued",
         new.pc \in Fetched => new.bundle = job.target,
         new.pc \in Working => told \/ job'.stage \in InProgress,
         new.pc \in Taken => runner[r].pc \in Taken \/ ~told,
         new.cancelled /\ ~runner[r].cancelled => flag,
         runner[r].pc = "install" /\ tree' # tree => installed' = job.target
  PROVE  HonestInv' /\ Honoured
<1>t. TypeOK /\ FlagInv /\ WorkInv /\ ToldInv
  BY DEF TrueInv, TypeInv, HonestInv
<1>1. /\ runner' \in [Runners -> RunnerState] /\ runner'[r] = new
      /\ \A q \in Runners \ {r} : runner'[q] = runner[q]
  BY <1>t, Parts, RunnerMoves
<1>2. \A q \in Runners \ {r} : runner[q].pc \in {"none", "gone", "unborn"}
  BY Alone DEF Alive
<1>3. FlagInv'
  BY <1>t DEF FlagInv
<1>4. WorkInv'
  BY <1>1, <1>2, Places DEF WorkInv
<1>5. ToldInv'
  BY <1>t, <1>1, <1>2, Places DEF ToldInv
<1>6. CancelIsMeant
  BY <1>t, <1>1 DEF CancelIsMeant, FlagInv
<1>7. InstallsTarget
  <2> SUFFICES ASSUME NEW q \in Runners, Switches(q)
               PROVE  /\ installed' = job.target
                      /\ q \in outlived \/ (~told /\ job.stage \in InProgress)
    BY DEF InstallsTarget
  <2>1. runner[q].pc = "install" /\ q = r /\ tree' # tree
    BY <1>2, Places DEF Switches, RunAt
  <2> QED BY <1>t, <2>1, Places DEF WorkInv, ToldInv
<1> QED BY <1>3, <1>4, <1>5, <1>6, <1>7 DEF HonestInv, Honoured

LEMMA StopRun ==
  ASSUME TrueInv, TrueInv', HonestInv, NEW r \in Runners, Run(r) \/ Die(r)
  PROVE  HonestInv' /\ Honoured
<1>t. /\ TypeOK /\ NamedInv /\ FlagInv /\ WorkInv /\ ToldInv
  BY DEF TrueInv, TypeInv, HonestInv
<1> USE DEF files, tree, service, past, forced, Outside, RunAt
<1> DEFINE me == runner[r]
           Apart == UNCHANGED <<op, asked, told, outlived>>
<1>p. /\ job \in Job /\ epoch \in Nat /\ me \in RunnerState /\ me.base \in Job /\ me.seen \in Job
      /\ me.left \in BOOLEAN /\ flag \in BOOLEAN
  BY <1>t, Parts
<1>a. Alive(r) => Worker(me, job, installed, fallback, slipped)
  BY Alone
<1>k. /\ me.pc \in Fetched => me.bundle = job.target
      /\ me.pc \in Working => told \/ job.stage \in InProgress
  BY <1>t DEF WorkInv
<1>o. me.pc \notin {"none", "gone", "unborn"} => Alive(r)
  BY DEF Alive
<1> HIDE DEF me
\* A step that leaves the job file and the tree alone: it moves on, with another record in hand.
<1>m. ASSUME NEW new \in RunnerState, Alive(r), Advance(r, new), Apart, flag' => flag,
             UNCHANGED <<job, tree>>,
             new.pc \in Fetched => new.bundle = job.target,
             new.pc \in Working => me.pc \in Working,
             new.pc \in Taken => me.pc \in Taken,
             new.cancelled /\ ~me.cancelled => flag
      PROVE  HonestInv' /\ Honoured
  BY <1>k, <1>m, HonestMoves DEF me
<1>f. ASSUME NEW c \in BOOLEAN, Alive(r), Raise(r, c), c => flag, Apart, flag' = flag,
             UNCHANGED <<job, tree>>
      PROVE  HonestInv' /\ Honoured
  <2> DEFINE new == [me EXCEPT !.pc = "fail_read", !.cancelled = c]
  <2>1. new \in RunnerState /\ new.pc = "fail_read" /\ new.cancelled = c
    BY <1>p, <1>f DEF RunnerState, Late
  <2>2. Advance(r, new)
    BY <1>f DEF Raise, me
  <2> HIDE DEF new
  <2>3. new.pc \notin Taken /\ new.pc \notin Working /\ new.pc \notin Fetched
    BY <2>1, Places DEF Late
  <2> QED BY <1>f, <1>m, <2>1, <2>2, <2>3
<1>1. CASE Boot(r)
  <2> DEFINE new == [me EXCEPT !.pc = "intent"]
  <2>1. new \in RunnerState /\ new.pc = "intent" /\ new.cancelled = me.cancelled
    BY <1>p DEF RunnerState, Early
  <2>2. /\ Advance(r, new) /\ me.pc = "start" /\ Apart /\ UNCHANGED <<job, flag, tree>>
    BY <1>1 DEF Boot, Advance, me
  <2> HIDE DEF new
  <2> QED BY <1>o, <1>m, <2>1, <2>2, Places
\* Only a queued update is taken up, and none is queued after a forced end.
<1>2. CASE Intent(r)
  <2> DEFINE fresh == [job EXCEPT !.cancel = FALSE, !.error = "none", !.rollback = "none"]
             go == [me EXCEPT !.pc = "check_backup", !.base = fresh]
             fail == [me EXCEPT !.pc = "fail_write", !.base = job]
  <2>1. fresh \in Job
    BY <1>p, RecordEdits DEF Edited
  <2>2. /\ (Advance(r, go) /\ job.stage = "queued") \/ Advance(r, fail)
        /\ me.pc = "intent" /\ Apart /\ UNCHANGED <<job, flag, tree>>
    BY <1>2 DEF Intent, me
  <2> HIDE DEF fresh
  <2>4. /\ go \in RunnerState /\ go.pc = "check_backup" /\ go.cancelled = me.cancelled
        /\ fail \in RunnerState /\ fail.pc = "fail_write" /\ fail.cancelled = me.cancelled
    BY <1>p, <2>1 DEF RunnerState, Early, Late
  <2> HIDE DEF go, fail
  <2>5. /\ {"check_backup", "fail_write"} \cap (Working \cup Fetched) = {}
        /\ "fail_write" \notin Taken
    BY DEF Working, Early, Fetched, Taken
  <2>6. CASE Advance(r, go) /\ job.stage = "queued"
    <3>1. ~told
      BY <1>t, <2>6 DEF ToldInv
    <3> QED BY <1>o, <2>2, <2>4, <2>5, <2>6, <3>1, HonestMoves DEF me
  <2>7. CASE Advance(r, fail)
    BY <1>o, <1>m, <2>2, <2>4, <2>5, <2>7
  <2> QED BY <2>2, <2>6, <2>7
<1>3. ASSUME NEW at, NEW go, Plain(at, go), Check(r, at, go) \/ Work(r, at, go) \/ Read(r, at, go)
      PROVE  HonestInv' /\ Honoured
  <2>1. /\ Alive(r) /\ me.pc = at /\ at \in (Early \cup Mid) \ {"start", "intent", "progress"}
        /\ go \in Early \cup Mid /\ (go \in Fetched => at \in Fetched)
        /\ (go \in Working => at \in Working) /\ (go \in Taken => at \in Taken)
    BY <1>3, <1>o DEF Check, Work, Read, Plain, Stays, Taken, me, Early, Mid
  <2>2. Apart /\ UNCHANGED <<job, flag, tree>>
    BY <1>3 DEF Check, Work, Read
  <2>3. ASSUME NEW rec \in Job, Advance(r, [me EXCEPT !.pc = go, !.base = rec])
        PROVE  HonestInv' /\ Honoured
    <3> DEFINE new == [me EXCEPT !.pc = go, !.base = rec]
    <3>1. /\ new \in RunnerState /\ new.pc = go
          /\ new.cancelled = me.cancelled /\ new.bundle = me.bundle
      BY <1>p, <2>1 DEF RunnerState
    <3> HIDE DEF new
    <3> QED BY <1>k, <1>m, <2>1, <2>2, <2>3, <3>1 DEF new
  <2>4. [me EXCEPT !.pc = go] = [me EXCEPT !.pc = go, !.base = me.base]
    BY <1>p DEF RunnerState
  <2>5. \/ flag /\ Raise(r, TRUE)
        \/ Raise(r, FALSE)
        \/ \E rec \in Job : Advance(r, [me EXCEPT !.pc = go, !.base = rec])
    BY <1>3, <1>p, <2>4 DEF Check, Work, Read, me
  <2> QED BY <1>f, <2>1, <2>2, <2>3, <2>5
<1>5. ASSUME NEW at, NEW go, NEW stage \in Reported, Stays(at, go), Set(r, at, stage, go)
      PROVE  HonestInv' /\ Honoured
  <2> DEFINE new == [me EXCEPT !.pc = go]
  <2>1. /\ Alive(r) /\ me.pc = at /\ at \in (Early \cup Mid) \ {"start", "intent", "progress"}
        /\ go \in Early \cup Mid /\ (go \in Fetched => at \in Fetched) /\ (go \in Taken => at \in Taken)
    BY <1>5, <1>o DEF Set, Stays, Taken, me, Early, Mid
  <2>2. /\ Advance(r, new) /\ Apart /\ UNCHANGED <<flag, tree>>
        /\ job' = [me.base EXCEPT !.stage = stage]
    BY <1>5 DEF Set, me
  <2>3. /\ new \in RunnerState /\ new.pc = go /\ new.cancelled = me.cancelled
        /\ new.bundle = me.bundle
    BY <1>p, <2>1 DEF RunnerState
  <2>4. job'.stage \in InProgress /\ job'.stage # "queued" /\ job'.target = job.target
    BY <1>a, <1>p, <2>1, <2>2 DEF Job, Of, Worker, Reported, InProgress
  <2> HIDE DEF new
  <2> QED BY <1>k, <2>1, <2>2, <2>3, <2>4, HonestMoves DEF me
<1>6. CASE Fetch(r)
  <2> DEFINE new == [me EXCEPT !.pc = "read_fetch", !.seen = NoJob, !.bundle = me.base.target]
  <2>1. Alive(r) /\ me.pc = "fetch"
    BY <1>6, <1>o DEF Fetch, me
  <2>2. Apart /\ UNCHANGED <<job, flag, tree>> /\ (Raise(r, FALSE) \/ Advance(r, new))
    BY <1>6 DEF Fetch, me
  <2>3. me.base.target = job.target /\ me.base.target \in Tags
    BY <1>a, <1>t, <2>1 DEF Worker, Of, NamedInv, me
  <2>4. /\ new \in RunnerState /\ new.pc = "read_fetch" /\ new.cancelled = me.cancelled
        /\ new.bundle = job.target
    BY <1>p, <2>3, AtRest DEF RunnerState, Early
  <2> HIDE DEF new
  <2>5. me.pc \in Working /\ me.pc \in Taken
    BY <2>1 DEF Working, Taken, Early
  <2> QED BY <1>f, <1>m, <2>1, <2>2, <2>4, <2>5
<1>7. CASE ProgressRead(r) \/ ProgressWrite(r)
  <2>1. /\ Alive(r) /\ me.pc \in {"fetch", "progress"} /\ Apart /\ UNCHANGED <<flag, tree>>
    BY <1>7, <1>o DEF ProgressRead, ProgressWrite, me
  <2>2. /\ me.pc \in Working /\ me.pc \in Taken
        /\ {"fetch", "progress"} \cap Fetched = {} /\ me.pc # "install"
    BY <2>1 DEF Working, Taken, Early, Fetched
  <2>3. job' = job \/ (job'.target = job.target /\ job'.stage = "fetching_bundle")
    BY <1>7, <1>a, <2>1 DEF ProgressRead, ProgressWrite, Worker, Of, me
  <2>4. PICK go \in {"fetch", "progress"}, rec \in Job : Advance(r, [me EXCEPT !.pc = go, !.seen = rec])
    <3>1. [me EXCEPT !.pc = "fetch"] = [me EXCEPT !.pc = "fetch", !.seen = me.seen]
      BY <1>p DEF RunnerState
    <3> QED BY <1>7, <1>p, <3>1 DEF ProgressRead, ProgressWrite, me
  <2> DEFINE new == [me EXCEPT !.pc = go, !.seen = rec]
  <2>5. new \in RunnerState /\ new.pc = go /\ new.cancelled = me.cancelled
    BY <1>p DEF RunnerState, Early
  <2>6. job'.target = job.target /\ (told \/ job'.stage \in InProgress)
    BY <1>k, <2>2, <2>3 DEF InProgress
  <2> HIDE DEF new
  <2>7. Advance(r, new)
    BY <2>4 DEF new
  <2> QED BY <2>1, <2>2, <2>3, <2>5, <2>6, <2>7, HonestMoves DEF me
\* The switch: the bundle of this update.
<1>9. CASE Install(r)
  <2>1. /\ Alive(r) /\ me.pc = "install" /\ Apart /\ UNCHANGED <<job, flag>>
    BY <1>9, <1>o DEF Install, me
  <2>2. PICK new \in {[me EXCEPT !.pc = "read_install", !.left = TRUE],
                      [me EXCEPT !.pc = "fail_read", !.cancelled = FALSE]} :
          /\ Advance(r, new)
          /\ tree' # tree => installed' = me.bundle
    BY <1>9 DEF Install, Raise, me
  <2>3. /\ new \in RunnerState /\ new.pc \in {"read_install", "fail_read"}
        /\ new.cancelled => me.cancelled
    BY <1>p, <2>2 DEF RunnerState, Mid, Late
  <2>4. me.pc \in Fetched /\ new.pc \notin Working \cup Fetched \cup Taken
    BY <2>1, <2>3, Places DEF Mid, Late
  <2> QED BY <1>k, <2>1, <2>2, <2>3, <2>4, HonestMoves DEF me
\* A process that is past the switch is none of the cancels' concern.
<1>g. ASSUME NEW new \in RunnerState, Alive(r), Advance(r, new), Apart, flag' => flag,
             me.pc # "install", job'.target = job.target, job' = job \/ job'.stage # "queued",
             new.pc \notin Early, new.cancelled => me.cancelled
      PROVE  HonestInv' /\ Honoured
  BY <1>g, HonestMoves, Places DEF me
<1>10. CASE Deps(r)
  <2>1. Alive(r) /\ me.pc = "deps" /\ Apart /\ UNCHANGED <<job, flag, tree>>
    BY <1>10, <1>o DEF Deps, me
  <2> DEFINE new == [me EXCEPT !.pc = "read_deps"]
  <2>2. (flag /\ Raise(r, TRUE)) \/ Raise(r, FALSE) \/ Advance(r, new)
    BY <1>10 DEF Deps, me
  <2>3. new \in RunnerState /\ new.pc = "read_deps" /\ new.cancelled = me.cancelled
    BY <1>p DEF RunnerState, Mid
  <2>4. "read_deps" \notin Early
    BY DEF Early
  <2> HIDE DEF new
  <2> QED BY <1>f, <1>g, <2>1, <2>2, <2>3, <2>4
<1>11. CASE SetRestarting(r)
  <2> DEFINE new == [me EXCEPT !.pc = "restart"]
  <2>1. /\ Alive(r) /\ me.pc = "set_restart" /\ Apart /\ flag' = flag /\ Advance(r, new)
        /\ job' = [me.base EXCEPT !.stage = "restarting", !.error = "none", !.cancel = FALSE,
                                  !.restart = epoch]
    BY <1>11, <1>o DEF SetRestarting, me
  <2>2. job'.target = job.target /\ job'.stage # "queued"
    BY <1>a, <1>p, <2>1 DEF Job, Of, Worker
  <2>3. new \in RunnerState /\ new.pc = "restart" /\ new.cancelled = me.cancelled
    BY <1>p DEF RunnerState, Late
  <2>4. "restart" \notin Early
    BY DEF Early
  <2> HIDE DEF new
  <2> QED BY <1>g, <2>1, <2>2, <2>3, <2>4
<1>12. ASSUME NEW at \in {"restart", "fail_restart"}, NEW raised \in {"fail_read", "fail_rewrite"},
              RestartCall(r, at, "exit", raised)
       PROVE  HonestInv' /\ Honoured
  <2>1. Alive(r) /\ me.pc = at /\ UNCHANGED <<asked, told, outlived, job, flag, tree>>
    BY <1>12, <1>o DEF RestartCall, me
  <2>2. \A go \in {"exit", raised} :
          LET new == [me EXCEPT !.pc = go]
          IN  new \in RunnerState /\ new.pc = go /\ new.cancelled = me.cancelled
    BY <1>p DEF RunnerState, Late
  <2>3. CASE Advance(r, [me EXCEPT !.pc = raised]) /\ UNCHANGED <<service, op, poll>>
    <3> DEFINE new == [me EXCEPT !.pc = raised]
    <3>1. new \in RunnerState /\ new.pc = raised /\ new.cancelled = me.cancelled
      BY <2>2
    <3>2. raised \notin Early /\ me.pc # "install"
      BY <2>1 DEF Early
    <3> HIDE DEF new
    <3> QED BY <1>g, <2>1, <2>3, <3>1, <3>2 DEF new
  <2>4. ASSUME NEW go \in {"exit", raised}, RestartService([runner EXCEPT ![r].pc = go])
        PROVE  HonestInv' /\ Honoured
    <3>1. /\ op' = [a \in Admins |-> Idle]
          /\ \A q \in Runners :
               \/ q # r /\ runner'[q] = runner[q]
               \/ runner'[q] = Gone
               \/ q = r /\ runner'[q] = [me EXCEPT !.pc = go]
               \/ ~Alive(q) /\ runner'[q] = runner[q]
      <4>1. go \in Early \cup Mid \cup Late
        BY <1>12, <2>4 DEF Late
      <4> QED BY <1>t, <2>4, <4>1, ServiceRestarts DEF me
    <3>2. \A a \in Admins : op'[a].pc = "idle"
      BY <3>1, AtRest
    <3>3. /\ [me EXCEPT !.pc = go].pc = go /\ [me EXCEPT !.pc = go].cancelled = me.cancelled
      BY <2>2, <2>4
    <3>4. \A q \in Runners \ {r} : runner[q].pc \in {"none", "gone", "unborn"}
      BY <2>1, Alone DEF Alive
    <3>5. go \notin Working \cup Fetched \cup Taken
      BY <2>4, Places DEF Late
    <3>6. \A q \in Runners : runner'[q].pc \notin Working \cup Fetched \cup Taken
      <4>1. \A q \in Runners : \/ runner'[q].pc \in {"none", "gone", "unborn"}
                                \/ runner'[q].pc = go
        BY <2>1, <3>1, <3>3, <3>4, AtRest DEF Alive, me
      <4> QED BY <3>5, <4>1, Places
    <3>7. WorkInv'
      BY <3>6 DEF WorkInv
    <3>8. FlagInv' /\ ToldInv'
      BY <1>t, <2>1, <3>2, <3>6, Places DEF FlagInv, ToldInv
    <3>9. Honoured
      BY <2>1, <3>1, <3>3, AtRest DEF Honoured, CancelIsMeant, InstallsTarget, Switches, me
    <3> QED BY <3>7, <3>8, <3>9 DEF HonestInv
  <2> QED BY <1>12, <2>3, <2>4 DEF RestartCall, me
<1>13. CASE FailRead(r)
  <2> DEFINE go == IF me.left THEN "restore" ELSE "fail_write"
             new == [me EXCEPT !.pc = go, !.base = job]
  <2>1. /\ Alive(r) /\ me.pc = "fail_read" /\ Advance(r, new) /\ Apart
        /\ UNCHANGED <<job, flag, tree>>
    BY <1>13, <1>o DEF FailRead, me
  <2>2. go \in Late /\ go \notin Early
    BY DEF Late, Early
  <2> HIDE DEF go
  <2>3. new \in RunnerState /\ new.pc = go /\ new.cancelled = me.cancelled
    BY <1>p, <2>2 DEF RunnerState
  <2> HIDE DEF new
  <2> QED BY <1>g, <2>1, <2>2, <2>3
<1>14. CASE Restore(r)
  <2>1. Alive(r) /\ me.pc = "restore" /\ Apart /\ UNCHANGED <<job, flag>>
    BY <1>14, <1>o DEF Restore, me
  <2>2. PICK x \in {"ok", "bad"} : Advance(r, [me EXCEPT !.pc = "fail_write", !.base.rollback = x])
    BY <1>14 DEF Restore, me
  <2> DEFINE rec == [me.base EXCEPT !.rollback = x]
             new == [me EXCEPT !.pc = "fail_write", !.base = rec]
  <2>3. rec \in Job
    BY <1>p, RecordEdits DEF Edited
  <2>4. [me EXCEPT !.pc = "fail_write", !.base.rollback = x] = new
    BY <1>p DEF RunnerState
  <2> HIDE DEF rec
  <2>5. new \in RunnerState /\ new.pc = "fail_write" /\ new.cancelled = me.cancelled
    BY <1>p, <2>3 DEF RunnerState, Late
  <2>6. Advance(r, new) /\ "fail_write" \notin Early
    BY <2>2, <2>4 DEF Early
  <2> HIDE DEF new
  <2> QED BY <1>g, <2>1, <2>5, <2>6
<1>15. CASE FailWrite(r)
  <2> DEFINE go == IF me.left THEN "fail_restart" ELSE "exit"
             new == [me EXCEPT !.base = job', !.pc = go]
  <2>1. Alive(r) /\ me.pc = "fail_write" /\ Advance(r, new) /\ Apart /\ flag' = flag
    BY <1>15, <1>o DEF FailWrite, me
  <2>2. go \in Late /\ go \notin Early
    BY DEF Late, Early
  <2>3. Edited(me.base, job') /\ job'.stage = "failed"
    BY <1>15, <1>p, RecordEdits DEF FailWrite, me, RunnerState, Job
  <2> HIDE DEF go
  <2>4. new \in RunnerState /\ new.pc = go /\ new.cancelled = me.cancelled
    BY <1>p, <2>2, <2>3 DEF RunnerState, Edited
  <2>5. job'.target = job.target
    BY <1>a, <2>1, <2>3 DEF Worker, Of, Edited
  <2> HIDE DEF new
  <2> QED BY <1>g, <2>1, <2>2, <2>3, <2>4, <2>5
<1>16. CASE FailRewrite(r)
  <2> DEFINE new == [me EXCEPT !.pc = "exit"]
  <2>1. Alive(r) /\ me.pc = "fail_rewrite" /\ Advance(r, new) /\ Apart /\ flag' = flag
    BY <1>16, <1>o DEF FailRewrite, me
  <2>2. Edited(me.base, job')
    BY <1>16, <1>p, RecordEdits DEF FailRewrite, me
  <2>3. new \in RunnerState /\ new.pc = "exit" /\ new.cancelled = me.cancelled
    BY <1>p DEF RunnerState, Late
  <2>4. job'.target = job.target /\ job'.stage = "failed"
    BY <1>16, <1>a, <1>p, <2>1, <2>2 DEF FailRewrite, Worker, Of, Edited, Job, me
  <2>5. "exit" \notin Early
    BY DEF Early
  <2> HIDE DEF new
  <2> QED BY <1>g, <2>1, <2>3, <2>4, <2>5
<1>17. CASE Exit(r) \/ Die(r) \/ Stillbirth(r)
  <2>1. /\ Alive(r) /\ Apart /\ (flag' = flag \/ ~flag') /\ UNCHANGED <<job, tree>>
        /\ Advance(r, Gone) \/ Advance(r, Unborn)
    BY <1>17 DEF Exit, Die, Stillbirth, Alive
  <2> QED BY <2>1, <1>m, AtRest, Places
<1> QED BY <1>1, <1>2, <1>3, <1>5, <1>6, <1>7, <1>9, <1>10, <1>11, <1>12, <1>13,
           <1>14, <1>15, <1>16, <1>17, RunCases

\* A cancel ends the update it was meant for, and no other.  After a forced end no process
\* takes the update up any more, and one that was at work then switches, if the signal did
\* not stop it, to no other release than the one the file names: for every number of
\* releases, applying threads, processes and outages, as long as one operator cancels at a
\* time, whether or not a signal arrives, and with restarts that report a timeout.
THEOREM CancelsHonoured ==
  ASSUME ~Overlap, OneCanceller
  PROVE  Spec => CancelsAreHonoured
<1>1. TrueInv /\ TrueInv' /\ HonestInv /\ [Next]_vars => HonestInv' /\ [Honoured]_vars
  <2> SUFFICES ASSUME TrueInv, TrueInv', HonestInv, [Next]_vars PROVE HonestInv' /\ [Honoured]_vars
    OBVIOUS
  <2>1. CASE UNCHANGED vars
    <3>1. FlagInv' /\ WorkInv' /\ ToldInv'
      BY <2>1 DEF vars, HonestInv, FlagInv, WorkInv, ToldInv
    <3> QED BY <2>1, <3>1 DEF HonestInv
  <2>2. CASE Next
    BY <2>2, StopOps, StopWorld, StopRun DEF Next
  <2> QED BY <2>1, <2>2
<1>2. Spec => []TrueInv
  BY TrueInvariance
<1>3. Init => HonestInv
  BY HonestInit
<1>4. [Honoured]_vars => [CancelIsMeant /\ InstallsTarget]_vars
  BY DEF Honoured
<1> QED BY <1>1, <1>2, <1>3, <1>4, PTL DEF Spec, CancelsAreHonoured
=============================================================================
