------------------------- MODULE HygieneDailyProofs -------------------------
(***************************************************************************)
(* Proofs about HygieneDaily for every number of items, employees, photos, *)
(* versions and submissions: no order of uploads, reviews, deletions,      *)
(* sweeps and crashes loses a photo that one row names, replaces evidence, *)
(* or miscounts what passed at once.                                       *)
(***************************************************************************)
EXTENDS HygieneDaily, SequenceTheorems, TLAPS

-----------------------------------------------------------------------------
(* The inductive invariant.  A photo is written before its row and removed  *)
(* after it, so besides the rows it speaks of the photos on their way in    *)
(* (fresh) and on their way out (doomed).                                   *)

Stored(s) == staff[s].at = "stored"
Fresh(p) == \/ upload # NoUpload /\ upload.photo = p
            \/ \E s \in Staff : Stored(s) /\ staff[s].photo = p

\* What holds of a photo that a row names.
Safe(p) ==
  /\ p \in 1..taken
  /\ p \in files \cup shared
  /\ p \in doomed => p \in shared
  /\ ~Fresh(p)

\* The rows that name photo p.
StandardNames(i, v, p) == v \in Kept(i) /\ standards[i][v].photo = p
ShotNames(n, p) == n \in LiveShots /\ shots[n].photo = p
LessonNames(l, p) == l \in lessons /\ p \in {l.left, l.right}
Named(p) == \/ \E i \in Items, v \in Nat : StandardNames(i, v, p)
            \/ \E n \in ShotIds : ShotNames(n, p)
            \/ \E l \in lessons : LessonNames(l, p)

NamedSafe == \A p : Named(p) => Safe(p)

\* Photos on their way in are on disk, young, and nobody else's; no name that is still to
\* be given is on its way out.
FreshSafe ==
  /\ doomed \subseteq 1..taken
  /\ upload # NoUpload => upload.photo \in files /\ doomed = {}
  /\ \A s \in Staff : Stored(s) =>
       /\ staff[s].photo \in files /\ staff[s].photo > aged /\ staff[s].photo \notin doomed
       /\ upload # NoUpload => upload.photo # staff[s].photo
       /\ \A t \in Staff : Stored(t) /\ staff[t].photo = staff[s].photo => t = s

\* Two rows name one photo only if the second took it over.
OwnPhoto ==
  \A p : p \notin shared =>
    /\ \A i, j \in Items, v, w \in Nat :
         StandardNames(i, v, p) /\ StandardNames(j, w, p) => i = j /\ v = w
    /\ \A n, m \in ShotIds : ShotNames(n, p) /\ ShotNames(m, p) => n = m
    /\ \A i \in Items, v \in Nat, n \in ShotIds : ~(StandardNames(i, v, p) /\ ShotNames(n, p))
    /\ \A l \in lessons : ~LessonNames(l, p)

PhotosInv == NamedSafe /\ FreshSafe /\ OwnPhoto

\* What an instance waits for is a shot of its item.
PendingFits ==
  \A i \in Items : pending[i] \in LiveShots => shots[pending[i]].item = i

\* There is room for the version that is being uploaded.
UploadFits == upload # NoUpload => Len(standards[upload.item]) < MaxVersions

\* The row of the current version of a standard stays.
CurrentKept == \A i \in Items : Exists(i) => Current(i) \in Kept(i)

IInv == TypeOK /\ FirstPassHonest /\ PendingFits /\ UploadFits /\ CurrentKept /\ PhotosInv

-----------------------------------------------------------------------------

LEMMA Versioned ==
  ASSUME TypeOK, NEW i \in Items
  PROVE  /\ standards[i] \in Seq(Standard) /\ Len(standards[i]) \in 0..MaxVersions
         /\ DOMAIN standards[i] = 1..Len(standards[i])
         /\ Kept(i) \subseteq 1..Len(standards[i])
         /\ \A v \in 1..Len(standards[i]) : standards[i][v] \in Standard
<1>1. standards[i] \in Seq(Standard) /\ Len(standards[i]) <= MaxVersions
    BY DEF TypeOK
<1>2. Len(standards[i]) \in Nat /\ DOMAIN standards[i] = 1..Len(standards[i])
    BY <1>1, LenProperties
<1>3. \A v \in 1..Len(standards[i]) : standards[i][v] \in Standard
    BY <1>1, ElementOfSeq
<1> QED BY <1>1, <1>2, <1>3, BoundsAssumption DEF Kept

LEMMA ReferencedIsNamed ==
  ASSUME TypeOK
  PROVE  \A p : p \in Referenced <=> Named(p)
<1>1. \A i \in Items : \A v \in Kept(i) : v \in Nat
    BY Versioned, BoundsAssumption
<1>2. \A n \in LiveShots : n \in ShotIds
    BY DEF LiveShots
<1> SUFFICES ASSUME NEW p PROVE p \in Referenced <=> Named(p)
    OBVIOUS
<1>3. p \in UNION {{standards[i][v].photo : v \in Kept(i)} : i \in Items}
        <=> \E i \in Items, v \in Nat : StandardNames(i, v, p)
  <2>1. ASSUME p \in UNION {{standards[i][v].photo : v \in Kept(i)} : i \in Items}
        PROVE  \E i \in Items, v \in Nat : StandardNames(i, v, p)
    <3>1. PICK i \in Items : p \in {standards[i][v].photo : v \in Kept(i)}
      BY <2>1
    <3>2. PICK v \in Kept(i) : p = standards[i][v].photo
      BY <3>1
    <3> QED BY <1>1, <3>1, <3>2 DEF StandardNames
  <2>2. ASSUME NEW i \in Items, NEW v \in Nat, StandardNames(i, v, p)
        PROVE  p \in UNION {{standards[j][w].photo : w \in Kept(j)} : j \in Items}
    <3>1. p \in {standards[i][w].photo : w \in Kept(i)}
      BY <2>2 DEF StandardNames
    <3> QED BY <3>1
  <2> QED BY <2>1, <2>2
<1>4. p \in {shots[n].photo : n \in LiveShots} <=> \E n \in ShotIds : ShotNames(n, p)
    BY <1>2 DEF ShotNames
<1>5. p \in {l.left : l \in lessons} \cup {l.right : l \in lessons}
        <=> \E l \in lessons : LessonNames(l, p)
    BY DEF LessonNames
<1>6. p \in Referenced
        <=> \/ p \in UNION {{standards[i][v].photo : v \in Kept(i)} : i \in Items}
            \/ p \in {shots[n].photo : n \in LiveShots}
            \/ p \in {l.left : l \in lessons} \cup {l.right : l \in lessons}
    BY DEF Referenced
<1> QED BY <1>3, <1>4, <1>5, <1>6 DEF Named

LEMMA InitIInv == Init => IInv
<1> SUFFICES ASSUME Init PROVE IInv
    OBVIOUS
<1> USE BoundsAssumption
<1>1. TypeOK
    BY DEF Init, TypeOK, Idle, Submitting, NoUpload, NoShot
<1>2. FirstPassHonest /\ PendingFits /\ UploadFits /\ CurrentKept
    BY DEF Init, FirstPassHonest, PendingFits, LiveShots, UploadFits, CurrentKept, Exists
<1>3. \A p : ~Named(p)
    BY DEF Init, Named, StandardNames, ShotNames, LessonNames, Kept, LiveShots
<1>4. PhotosInv
    BY <1>3 DEF Init, PhotosInv, NamedSafe, FreshSafe, OwnPhoto, Named, Stored, Idle
<1> QED BY <1>1, <1>2, <1>4 DEF IInv

\* While rows only go, and what goes on its way out is named by no row that stays, nothing
\* is lost.
RowsShrink ==
  /\ \A i \in Items, v \in Nat : \A p : StandardNames(i, v, p)' => StandardNames(i, v, p)
  /\ \A n \in ShotIds : \A p : ShotNames(n, p)' => ShotNames(n, p)
  /\ lessons' \subseteq lessons

LEMMA Shrunk ==
  ASSUME TypeOK, PhotosInv, RowsShrink, UNCHANGED <<disk, staff, upload, shared>>,
         upload = NoUpload,
         \A p \in doomed' : p \in 1..taken /\ ~Fresh(p) /\ (Named(p)' => p \in shared)
  PROVE  PhotosInv'
<1>1. \A p : Named(p)' => Named(p)
    BY DEF RowsShrink, Named, LessonNames
<1>2. UNCHANGED <<taken, files, aged>>
    BY DEF disk
<1>3. \A p : Fresh(p)' <=> Fresh(p)
    BY DEF Fresh, Stored
<1>4. NamedSafe'
    BY <1>1, <1>2, <1>3 DEF PhotosInv, NamedSafe, Safe
<1>5. FreshSafe'
    BY <1>2 DEF PhotosInv, FreshSafe, Stored, Fresh
<1>6. OwnPhoto'
  <2> SUFFICES ASSUME NEW p, p \notin shared'
      PROVE  /\ \A i, j \in Items, v, w \in Nat :
                  StandardNames(i, v, p)' /\ StandardNames(j, w, p)' => i = j /\ v = w
             /\ \A n, m \in ShotIds : ShotNames(n, p)' /\ ShotNames(m, p)' => n = m
             /\ \A i \in Items, v \in Nat, n \in ShotIds :
                  ~(StandardNames(i, v, p)' /\ ShotNames(n, p)')
             /\ \A l \in lessons' : ~LessonNames(l, p)'
      BY DEF OwnPhoto
  <2>1. p \notin shared
    OBVIOUS
  <2>2. \A l : LessonNames(l, p)' => LessonNames(l, p)
    BY DEF RowsShrink, LessonNames
  <2> QED BY <2>1, <2>2 DEF PhotosInv, OwnPhoto, RowsShrink
<1> QED BY <1>4, <1>5, <1>6 DEF PhotosInv

\* A version is appended to the standard of item i.
LEMMA Appended ==
  ASSUME TypeOK, NEW i \in Items, NEW p \in Photos, Len(standards[i]) < MaxVersions,
         standards' = [standards EXCEPT ![i] = Append(@, [photo |-> p, kept |-> TRUE])]
  PROVE  /\ standards' \in [Items -> Seq(Standard)]
         /\ \A j \in Items : Len(standards'[j]) <= MaxVersions
         /\ \A j \in Items, v \in Nat : \A q :
              StandardNames(j, v, q)' =>
                \/ StandardNames(j, v, q)
                \/ j = i /\ v = Len(standards[i]) + 1 /\ q = p
         /\ Len(standards'[i]) \in Kept(i)'
         /\ \A j \in Items \ {i} : standards'[j] = standards[j]
<1> DEFINE e == [photo |-> p, kept |-> TRUE]
<1>1. e \in Standard /\ e.photo = p /\ e.kept
    BY DEF Standard
<1> HIDE DEF e
<1>2. /\ Append(standards[i], e) \in Seq(Standard)
      /\ Len(Append(standards[i], e)) = Len(standards[i]) + 1
      /\ \A k \in 1..Len(standards[i]) : Append(standards[i], e)[k] = standards[i][k]
      /\ Append(standards[i], e)[Len(standards[i]) + 1] = e
    BY <1>1, Versioned, AppendProperties
<1>3. /\ standards'[i] = Append(standards[i], e)
      /\ \A j \in Items \ {i} : standards'[j] = standards[j]
      /\ standards' \in [Items -> Seq(Standard)]
    BY <1>2 DEF TypeOK, e
<1>4. \A j \in Items : Len(standards'[j]) <= MaxVersions
  <2>1. \A j \in Items : Len(standards[j]) \in Nat /\ Len(standards[j]) <= MaxVersions
    BY Versioned, BoundsAssumption
  <2> QED BY <1>2, <1>3, <2>1, BoundsAssumption
<1>5. DOMAIN standards'[i] = 1..(Len(standards[i]) + 1)
    BY <1>2, <1>3, LenProperties
<1>6. \A v \in Nat : \A q : StandardNames(i, v, q)' =>
        StandardNames(i, v, q) \/ (v = Len(standards[i]) + 1 /\ q = p)
  <2> SUFFICES ASSUME NEW v \in Nat, NEW q, StandardNames(i, v, q)'
      PROVE  StandardNames(i, v, q) \/ (v = Len(standards[i]) + 1 /\ q = p)
      OBVIOUS
  <2>1. v \in 1..(Len(standards[i]) + 1) /\ standards'[i][v].kept /\ standards'[i][v].photo = q
    BY <1>5 DEF StandardNames, Kept
  <2>2. Len(standards[i]) \in Nat /\ DOMAIN standards[i] = 1..Len(standards[i])
    BY Versioned, BoundsAssumption
  <2>3. CASE v \in 1..Len(standards[i])
    BY <1>2, <1>3, <2>1, <2>2, <2>3 DEF StandardNames, Kept
  <2>4. CASE v = Len(standards[i]) + 1
    BY <1>1, <1>2, <1>3, <2>1, <2>4
  <2> QED BY <2>1, <2>2, <2>3, <2>4
<1>7. \A j \in Items \ {i}, v \in Nat : \A q : StandardNames(j, v, q)' => StandardNames(j, v, q)
    BY <1>3 DEF StandardNames, Kept
<1>8. Len(standards'[i]) \in Kept(i)'
  <2>1. Len(standards[i]) + 1 \in 1..(Len(standards[i]) + 1)
    BY Versioned, BoundsAssumption
  <2> QED BY <1>1, <1>2, <1>3, <1>5, <2>1 DEF Kept
<1> QED BY <1>3, <1>4, <1>6, <1>7, <1>8

\* The rows of some old versions go.
LEMMA VersionsDropped ==
  ASSUME TypeOK, NEW i \in Items, NEW gone,
         standards' = [standards EXCEPT ![i] =
                        [v \in DOMAIN @ |-> IF v \in gone
                                            THEN [@[v] EXCEPT !.kept = FALSE]
                                            ELSE @[v]]]
  PROVE  /\ standards' \in [Items -> Seq(Standard)]
         /\ \A j \in Items : Len(standards'[j]) <= MaxVersions
         /\ \A j \in Items, v \in Nat : \A q :
              StandardNames(j, v, q)' => StandardNames(j, v, q) /\ (j = i => v \notin gone)
         /\ Len(standards'[i]) = Len(standards[i])
         /\ \A v \in Kept(i) : v \notin gone => v \in Kept(i)'
         /\ \A j \in Items \ {i} : standards'[j] = standards[j]
<1> DEFINE n == Len(standards[i])
           new == [v \in 1..n |-> IF v \in gone THEN [standards[i][v] EXCEPT !.kept = FALSE]
                                  ELSE standards[i][v]]
<1>1. n \in Nat /\ n <= MaxVersions /\ DOMAIN standards[i] = 1..n
      /\ \A v \in 1..n : standards[i][v] \in Standard
    BY Versioned, BoundsAssumption
<1>2. standards' = [standards EXCEPT ![i] = new]
    BY <1>1
<1>3. \A v \in 1..n : /\ new[v] \in Standard /\ new[v].photo = standards[i][v].photo
                      /\ new[v].kept => standards[i][v].kept /\ v \notin gone
                      /\ v \notin gone => new[v] = standards[i][v]
    BY <1>1 DEF Standard
<1>4. new \in [1..n -> Standard]
    BY <1>3
<1> HIDE DEF new
<1>5. new \in Seq(Standard)
    BY <1>1, <1>4, SeqDef
<1>6. DOMAIN new = 1..n /\ Len(new) = n
    BY <1>1, <1>4, <1>5, LenProperties
<1>7. /\ standards'[i] = new /\ \A j \in Items \ {i} : standards'[j] = standards[j]
      /\ standards' \in [Items -> Seq(Standard)]
    BY <1>2, <1>5 DEF TypeOK
<1>8. \A j \in Items : Len(standards'[j]) <= MaxVersions
    BY <1>1, <1>6, <1>7, Versioned DEF TypeOK
<1>9. \A v \in Nat : \A q : StandardNames(i, v, q)' => StandardNames(i, v, q) /\ v \notin gone
    BY <1>1, <1>3, <1>6, <1>7 DEF StandardNames, Kept
<1>10. \A j \in Items \ {i}, v \in Nat : \A q : StandardNames(j, v, q)' => StandardNames(j, v, q)
    BY <1>7 DEF StandardNames, Kept
<1>11. \A v \in Kept(i) : v \notin gone => v \in Kept(i)'
    BY <1>1, <1>3, <1>6, <1>7 DEF Kept
<1> QED BY <1>6, <1>7, <1>8, <1>9, <1>10, <1>11

-----------------------------------------------------------------------------
(* Types and the state of an item, action by action.                        *)

\* A stored photo gets a new name.
LEMMA NewName ==
  ASSUME TypeOK, StoreCapture
  PROVE  /\ taken + 1 \in Photos /\ taken' = taken + 1 /\ taken' \in 0..MaxPhotos
         /\ files' = files \cup {taken + 1} /\ files' \in SUBSET (1..taken')
         /\ aged' = aged /\ aged' \in 0..taken'
BY BoundsAssumption DEF StoreCapture, TypeOK, Photos

LEMMA StandardSteps ==
  ASSUME TypeOK, FirstPassHonest, PendingFits, UploadFits,
         StandardStep
  PROVE  TypeOK' /\ FirstPassHonest' /\ PendingFits'
<1> USE BoundsAssumption
<1>1. UNCHANGED <<shots, status, pending, firstPass, rejected>>
    BY DEF StandardStep, AddItem, ReplaceStandard, BeginUpload, EditMarkup, InsertStandard,
           FailUpload, rows
<1>2. FirstPassHonest' /\ PendingFits'
    BY <1>1 DEF FirstPassHonest, PendingFits, LiveShots
<1>3. ASSUME NEW i \in Items, BeginUpload(i) PROVE TypeOK'
  <2>1. upload' \in Uploading
    BY <1>3, NewName DEF BeginUpload, Uploading
  <2> QED BY <1>3, <2>1, NewName DEF TypeOK, BeginUpload, rows
<1>4. ASSUME NEW i \in Items, EditMarkup(i) PROVE TypeOK'
  <2>1. standards[i][Current(i)].photo \in Photos
    <3>1. Current(i) \in 1..Len(standards[i])
      BY <1>4, Versioned, EmptySeq DEF EditMarkup, Exists, Current
    <3> QED BY <3>1, Versioned DEF Standard
  <2>2. /\ standards' \in [Items -> Seq(Standard)]
        /\ \A j \in Items : Len(standards'[j]) <= MaxVersions
    BY <1>4, <2>1, Appended DEF EditMarkup
  <2>3. shared' \in SUBSET Photos
    BY <1>4, <2>1 DEF EditMarkup, TypeOK
  <2> QED BY <1>4, <2>2, <2>3 DEF TypeOK, EditMarkup, disk
<1>5. CASE InsertStandard
  <2>1. upload.item \in Items /\ upload.photo \in Photos /\ Len(standards[upload.item]) < MaxVersions
    BY <1>5 DEF InsertStandard, TypeOK, Uploading, UploadFits
  <2>2. /\ standards' \in [Items -> Seq(Standard)]
        /\ \A j \in Items : Len(standards'[j]) <= MaxVersions
    BY <1>5, <2>1, Appended DEF InsertStandard
  <2>3. /\ upload' = NoUpload
        /\ UNCHANGED <<taken, files, aged, dropped, shots, status, pending, firstPass,
                       rejected, lessons, staff, doomed, shared>>
    BY <1>5 DEF InsertStandard, disk
  <2> QED BY <1>2, <2>2, <2>3 DEF TypeOK
<1>6. CASE FailUpload
  <2>1. doomed' \in SUBSET Photos
    BY <1>6 DEF FailUpload, TypeOK, Uploading
  <2>2. upload' = NoUpload
        /\ UNCHANGED <<taken, files, aged, standards, dropped, shots, status, pending,
                       firstPass, rejected, lessons, staff, shared>>
    BY <1>6 DEF FailUpload, disk, rows
  <2> QED BY <1>2, <2>1, <2>2 DEF TypeOK
<1> QED BY <1>2, <1>3, <1>4, <1>5, <1>6 DEF StandardStep, AddItem, ReplaceStandard

LEMMA ShotSteps ==
  ASSUME TypeOK, FirstPassHonest, PendingFits,
         ShotStep
  PROVE  TypeOK' /\ FirstPassHonest' /\ PendingFits'
<1> USE BoundsAssumption
<1>1. ASSUME NEW s \in Staff, NEW i \in Items, TakeShot(s, i)
      PROVE  TypeOK' /\ FirstPassHonest' /\ PendingFits'
  <2>1. UNCHANGED <<standards, dropped, shots, status, pending, firstPass, rejected, lessons,
                    upload, doomed, shared>>
    BY <1>1 DEF TakeShot, rows
  <2>2. Current(i) \in Versions
    BY <1>1, Versioned, EmptySeq DEF TakeShot, Exists, Current, Versions
  <2>3. staff' \in [Staff -> Submitting]
    BY <1>1, <2>2, NewName DEF TakeShot, TypeOK, Submitting
  <2>4. TypeOK'
    BY <1>1, <2>1, <2>3, NewName DEF TypeOK, TakeShot
  <2> QED BY <2>1, <2>4 DEF FirstPassHonest, PendingFits, LiveShots
<1>2. ASSUME NEW s \in Staff, RefuseShot(s)
      PROVE  TypeOK' /\ FirstPassHonest' /\ PendingFits'
  <2>1. UNCHANGED <<taken, aged, standards, dropped, shots, status, pending, firstPass,
                    rejected, lessons, upload, doomed, shared>>
    BY <1>2 DEF RefuseShot, rows
  <2>2. staff' \in [Staff -> Submitting] /\ files' \subseteq files
    BY <1>2 DEF RefuseShot, TypeOK, Submitting
  <2>3. TypeOK'
    BY <2>1, <2>2 DEF TypeOK
  <2> QED BY <2>1, <2>3 DEF FirstPassHonest, PendingFits, LiveShots
<1>3. ASSUME NEW s \in Staff, NEW n \in ShotIds, CommitShot(s, n)
      PROVE  TypeOK' /\ FirstPassHonest' /\ PendingFits'
  <2> DEFINE i == staff[s].item
  <2>1. /\ i \in Items /\ staff[s].photo \in Photos /\ staff[s].frozen \in Versions
        /\ n # 0 /\ status[i] # "passed"
    BY <1>3 DEF CommitShot, TypeOK, Submitting, Idle, ShotIds
  <2>2. /\ NewShot(s) \in Shot /\ NewShot(s) # NoShot /\ NewShot(s).item = i
    BY <2>1 DEF NewShot, Shot, NoShot
  <2>3. /\ shots' = [shots EXCEPT ![n] = NewShot(s)] /\ status' = [status EXCEPT ![i] = "pending"]
        /\ pending' = [pending EXCEPT ![i] = n] /\ staff' = [staff EXCEPT ![s] = Idle]
        /\ UNCHANGED <<taken, files, aged, standards, dropped, firstPass, rejected, lessons,
                       upload, doomed, shared>>
    BY <1>3 DEF CommitShot, disk
  <2>4. TypeOK'
    BY <2>1, <2>2, <2>3 DEF TypeOK, Submitting
  <2>5. FirstPassHonest'
    BY <2>1, <2>3 DEF FirstPassHonest, TypeOK
  <2>6. \A j \in Items \ {i} : pending[j] # n
    <3>1. CASE n = pending[i] /\ n \in LiveShots
      BY <2>1, <3>1 DEF PendingFits
    <3>2. CASE FreshRow(n)
      BY <3>2 DEF FreshRow
    <3> QED BY <1>3, <3>1, <3>2 DEF CommitShot, RowFor, Waiting, NoShot
  <2>7. PendingFits'
    BY <2>1, <2>2, <2>3, <2>6 DEF PendingFits, LiveShots, TypeOK
  <2> QED BY <2>4, <2>5, <2>7
<1> QED BY <1>1, <1>2, <1>3 DEF ShotStep

LEMMA ReviewSteps ==
  ASSUME TypeOK, FirstPassHonest, PendingFits,
         ReviewStep
  PROVE  TypeOK' /\ FirstPassHonest' /\ PendingFits'
<1> USE BoundsAssumption
<1>1. ASSUME NEW i \in Items, AcceptDaily(i) \/ UndoAcceptDaily(i)
      PROVE  TypeOK' /\ FirstPassHonest' /\ PendingFits'
  <2>1. UNCHANGED <<taken, files, aged, standards, dropped, shots, pending, rejected, lessons,
                    staff, upload, doomed, shared>>
    BY <1>1 DEF AcceptDaily, UndoAcceptDaily, disk
  <2> DEFINE count == IF AcceptDaily(i) THEN IF rejected[i] THEN firstPass[i] ELSE firstPass[i] + 1
                      ELSE IF firstPass[i] > 0 THEN firstPass[i] - 1 ELSE firstPass[i]
             new == IF AcceptDaily(i) THEN "passed" ELSE "pending"
  <2>2. /\ status' = [status EXCEPT ![i] = new] /\ firstPass' = [firstPass EXCEPT ![i] = count]
        /\ status[i] = IF AcceptDaily(i) THEN "pending" ELSE "passed"
    BY <1>1 DEF AcceptDaily, UndoAcceptDaily
  <2>3. firstPass[i] \in Nat /\ rejected[i] \in BOOLEAN
    BY DEF TypeOK
  <2>4. firstPass[i] <= 1 /\ (firstPass[i] = 1 <=> (status[i] = "passed" /\ ~rejected[i]))
    BY DEF FirstPassHonest
  <2>5. count \in 0..1 /\ (count = 1 <=> (new = "passed" /\ ~rejected[i]))
    BY <2>2, <2>3, <2>4
  <2> HIDE DEF count
  <2>6. new \in {"pending", "passed"}
    OBVIOUS
  <2> HIDE DEF new
  <2>7. TypeOK'
    BY <2>1, <2>2, <2>5, <2>6 DEF TypeOK
  <2>8. FirstPassHonest'
    <3>1. \A j \in Items : /\ firstPass'[j] = IF j = i THEN count ELSE firstPass[j]
                           /\ status'[j] = IF j = i THEN new ELSE status[j]
      BY <2>2 DEF TypeOK
    <3> QED BY <2>1, <2>5, <3>1 DEF FirstPassHonest
  <2> QED BY <2>1, <2>7, <2>8 DEF PendingFits, LiveShots
<1>2. ASSUME NEW i \in Items, RejectDaily(i)
      PROVE  TypeOK' /\ FirstPassHonest' /\ PendingFits'
  <2>1. /\ UNCHANGED <<taken, files, aged, standards, dropped, shots, firstPass, lessons,
                       staff, upload, doomed, shared>>
        /\ status[i] = "pending" /\ status' = [status EXCEPT ![i] = "todo"]
        /\ pending' = [pending EXCEPT ![i] = 0] /\ rejected' = [rejected EXCEPT ![i] = TRUE]
    BY <1>2 DEF RejectDaily, disk
  <2>2. TypeOK'
    BY <2>1 DEF TypeOK
  <2>3. FirstPassHonest'
    BY <2>1 DEF FirstPassHonest, TypeOK
  <2>4. PendingFits'
    BY <2>1 DEF PendingFits, LiveShots, TypeOK, ShotIds
  <2> QED BY <2>2, <2>3, <2>4
<1>3. ASSUME NEW i \in Items, MarkTeaching(i)
      PROVE  TypeOK' /\ FirstPassHonest' /\ PendingFits'
  <2>1. UNCHANGED <<taken, files, aged, standards, dropped, shots, status, pending, firstPass,
                    rejected, staff, upload, doomed>>
    BY <1>3 DEF MarkTeaching, disk
  <2> DEFINE a == standards[i][Waiting(i).frozen].photo
             b == Waiting(i).photo
  <2>2. Waiting(i) \in Shot
    BY <1>3 DEF MarkTeaching, Waiting, TypeOK, LiveShots
  <2>3. a \in Photos /\ b \in Photos
    <3>1. Waiting(i).frozen \in 1..Len(standards[i])
      BY <1>3, Versioned DEF MarkTeaching
    <3> QED BY <2>2, <3>1, Versioned DEF Shot, Standard
  <2>4. /\ lessons' = lessons \cup {[item |-> i, left |-> a, right |-> b]}
        /\ shared' = shared \cup {a, b}
    BY <1>3 DEF MarkTeaching
  <2> HIDE DEF a, b
  <2>5. lessons' \in SUBSET Lesson /\ shared' \in SUBSET Photos
    BY <2>3, <2>4 DEF TypeOK, Lesson
  <2>6. TypeOK'
    BY <2>1, <2>5 DEF TypeOK
  <2> QED BY <2>1, <2>6 DEF FirstPassHonest, PendingFits, LiveShots
<1> QED BY <1>1, <1>2, <1>3 DEF ReviewStep

LEMMA DeletionSteps ==
  ASSUME TypeOK, FirstPassHonest, PendingFits,
         DeletionStep
  PROVE  TypeOK' /\ FirstPassHonest' /\ PendingFits'
<1> USE BoundsAssumption
<1>1. ASSUME NEW i \in Items, DeleteItem(i) PROVE TypeOK' /\ FirstPassHonest' /\ PendingFits'
  <2>1. /\ UNCHANGED <<taken, files, aged, staff, upload, doomed, shared>>
        /\ standards' = [standards EXCEPT ![i] = <<>>] /\ dropped' = dropped \cup {i}
        /\ shots' = [n \in ShotIds |-> IF n \in LiveShots /\ shots[n].item = i
                                       THEN NoShot ELSE shots[n]]
        /\ status' = [status EXCEPT ![i] = "todo"] /\ pending' = [pending EXCEPT ![i] = 0]
        /\ firstPass' = [firstPass EXCEPT ![i] = 0] /\ rejected' = [rejected EXCEPT ![i] = FALSE]
        /\ lessons' \subseteq lessons
    BY <1>1 DEF DeleteItem, disk
  <2>2. /\ standards' \in [Items -> Seq(Standard)]
        /\ \A j \in Items : Len(standards'[j]) <= MaxVersions
    <3>1. /\ standards'[i] = <<>> /\ \A j \in Items \ {i} : standards'[j] = standards[j]
          /\ standards' \in [Items -> Seq(Standard)]
      BY <2>1, EmptySeq DEF TypeOK
    <3>2. Len(<<>>) = 0
      BY EmptySeq
    <3> QED BY <3>1, <3>2 DEF TypeOK
  <2>3. shots' \in [ShotIds -> Shot \cup {NoShot}]
    BY <2>1 DEF TypeOK
  <2>4. TypeOK'
    BY <2>1, <2>2, <2>3 DEF TypeOK
  <2>5. FirstPassHonest'
    BY <2>1 DEF FirstPassHonest, TypeOK
  <2>6. PendingFits'
    BY <2>1 DEF PendingFits, LiveShots, TypeOK, ShotIds
  <2> QED BY <2>4, <2>5, <2>6
<1>2. ASSUME NEW i \in Items, NEW gone \in SUBSET Versions, DropStandards(i, gone)
      PROVE  TypeOK' /\ FirstPassHonest' /\ PendingFits'
  <2>1. /\ UNCHANGED <<taken, files, aged, dropped, shots, status, pending, firstPass, rejected,
                       lessons, staff, upload, shared>>
        /\ gone \subseteq Kept(i) /\ doomed' = {standards[i][v].photo : v \in gone}
    BY <1>2 DEF DropStandards, disk
  <2>2. doomed' \in SUBSET Photos
    BY <2>1, Versioned DEF Standard
  <2>3. /\ standards' \in [Items -> Seq(Standard)]
        /\ \A j \in Items : Len(standards'[j]) <= MaxVersions
    BY <1>2, VersionsDropped DEF DropStandards
  <2>4. TypeOK'
    BY <2>1, <2>2, <2>3 DEF TypeOK
  <2> QED BY <2>1, <2>4 DEF FirstPassHonest, PendingFits, LiveShots
<1>3. ASSUME NEW gone \in SUBSET ShotIds, DropShots(gone)
      PROVE  TypeOK' /\ FirstPassHonest' /\ PendingFits'
  <2> DEFINE reset == {i \in Items : status[i] = "pending" /\ pending[i] \in gone}
  <2>1. /\ UNCHANGED <<taken, files, aged, standards, dropped, firstPass, rejected,
                       lessons, staff, upload, shared>>
        /\ status' = [i \in Items |-> IF i \in reset THEN "todo" ELSE status[i]]
        /\ pending' = [i \in Items |-> IF i \in reset THEN 0 ELSE pending[i]]
        /\ shots' = [n \in ShotIds |-> IF n \in gone THEN NoShot ELSE shots[n]]
        /\ doomed' = {shots[n].photo : n \in gone} /\ gone \subseteq LiveShots
    BY <1>3 DEF DropShots, disk
  <2>2. doomed' \in SUBSET Photos
    BY <2>1 DEF LiveShots, TypeOK, Shot
  <2>3. TypeOK'
    BY <2>1, <2>2 DEF TypeOK
  <2>4. FirstPassHonest'
    BY <2>1 DEF FirstPassHonest, TypeOK
  <2>5. PendingFits'
    BY <2>1 DEF PendingFits, LiveShots, TypeOK, ShotIds
  <2> QED BY <2>3, <2>4, <2>5
<1>4. ASSUME NEW gone \in SUBSET lessons, DropLessons(gone)
      PROVE  TypeOK' /\ FirstPassHonest' /\ PendingFits'
  <2>1. /\ UNCHANGED <<taken, files, aged, standards, dropped, shots, status, pending, firstPass,
                       rejected, staff, upload, shared>>
        /\ lessons' = lessons \ gone
        /\ doomed' = {l.left : l \in gone} \cup {l.right : l \in gone}
    BY <1>4 DEF DropLessons, disk
  <2>2. doomed' \in SUBSET Photos
    BY <2>1 DEF TypeOK, Lesson
  <2>3. TypeOK'
    BY <2>1, <2>2 DEF TypeOK
  <2> QED BY <2>1, <2>3 DEF FirstPassHonest, PendingFits, LiveShots
<1> QED BY <1>1, <1>2, <1>3, <1>4 DEF DeletionStep

LEMMA FileSteps ==
  ASSUME TypeOK, FirstPassHonest, PendingFits,
         FileStep \/ UNCHANGED vars
  PROVE  TypeOK' /\ FirstPassHonest' /\ PendingFits'
<1> USE BoundsAssumption
<1>1. UNCHANGED <<taken, standards, dropped, shots, status, pending, firstPass, rejected,
                  lessons, shared>>
    BY DEF FileStep, SweepOrphans, RemoveFiles, DayPasses, Crash, vars, disk, rows
<1>2. files' \subseteq files /\ aged' \in {aged, taken} /\ doomed' \subseteq doomed \cup files
  <2>1. ASSUME Crash PROVE files' \subseteq files
    BY <2>1 DEF Crash
  <2> QED BY <2>1 DEF FileStep, SweepOrphans, RemoveFiles, DayPasses, Crash, vars, disk, Stale, Orphans
<1>3. upload' \in {upload, NoUpload} /\ staff' \in [Staff -> Submitting]
    BY DEF FileStep, SweepOrphans, RemoveFiles, DayPasses, Crash, vars, TypeOK, Submitting
<1>4. doomed' \in SUBSET Photos
    BY <1>2 DEF TypeOK, Photos
<1>5. TypeOK'
    BY <1>1, <1>2, <1>3, <1>4 DEF TypeOK
<1> QED BY <1>1, <1>5 DEF FirstPassHonest, PendingFits, LiveShots

\* While a standard is being uploaded no other standard is written.
LEMMA UploadStep ==
  ASSUME TypeOK, UploadFits, [Next]_vars
  PROVE  UploadFits'
<1>1. CASE upload' = NoUpload
    BY <1>1 DEF UploadFits
<1>2. CASE upload' = upload /\ standards' = standards
    BY <1>2 DEF UploadFits
<1>3. CASE \E i \in Items : BeginUpload(i)
    BY <1>3 DEF BeginUpload, UploadFits, rows
<1>4. CASE upload = NoUpload /\ upload' = upload
    BY <1>4 DEF UploadFits
<1>5. \A i \in Items : \A gone : EditMarkup(i) \/ DeleteItem(i) \/ DropStandards(i, gone) =>
        upload = NoUpload /\ upload' = upload
    BY DEF EditMarkup, DeleteItem, DropStandards, LockFree
<1>6. \A s \in Staff, i \in Items : TakeShot(s, i) => upload' = upload /\ standards' = standards
    BY DEF TakeShot, rows
<1>7. \A s \in Staff : RefuseShot(s) \/ (\E n \in ShotIds : CommitShot(s, n)) =>
        upload' = upload /\ standards' = standards
    BY DEF RefuseShot, CommitShot, rows
<1>8. \A i \in Items : AcceptDaily(i) \/ UndoAcceptDaily(i) \/ RejectDaily(i) \/ MarkTeaching(i) =>
        upload' = upload /\ standards' = standards
    BY DEF AcceptDaily, UndoAcceptDaily, RejectDaily, MarkTeaching
<1>9. \A gone : DropShots(gone) \/ DropLessons(gone) => upload' = upload /\ standards' = standards
    BY DEF DropShots, DropLessons
<1>10. InsertStandard \/ FailUpload \/ Crash => upload' = NoUpload
    BY DEF InsertStandard, FailUpload, Crash
<1>11. SweepOrphans \/ RemoveFiles \/ DayPasses \/ UNCHANGED vars =>
        upload' = upload /\ standards' = standards
    BY DEF SweepOrphans, RemoveFiles, DayPasses, vars, rows
<1>12. \A i \in Items : AddItem(i) \/ ReplaceStandard(i) => BeginUpload(i)
    BY DEF AddItem, ReplaceStandard
<1>13. CASE StandardStep
    BY <1>1, <1>3, <1>4, <1>5, <1>10, <1>12, <1>13 DEF StandardStep
<1>14. CASE ShotStep
    BY <1>2, <1>6, <1>7, <1>14 DEF ShotStep
<1>15. CASE ReviewStep
    BY <1>2, <1>8, <1>15 DEF ReviewStep
<1>16. CASE DeletionStep
    BY <1>2, <1>4, <1>5, <1>9, <1>16 DEF DeletionStep
<1>17. CASE FileStep
    BY <1>1, <1>2, <1>10, <1>11, <1>17 DEF FileStep
<1> QED BY <1>2, <1>11, <1>13, <1>14, <1>15, <1>16, <1>17 DEF Next

-----------------------------------------------------------------------------
(* The photos, action by action.                                            *)

\* Rows stay as they are, or only go.
LEMMA SameNames ==
  ASSUME UNCHANGED <<standards, shots, lessons>>
  PROVE  RowsShrink /\ \A p : Named(p)' <=> Named(p)
BY DEF RowsShrink, StandardNames, ShotNames, LessonNames, Named, Kept, LiveShots

\* A new name is known to nobody.
LEMMA Unknown ==
  ASSUME TypeOK, PhotosInv
  PROVE  /\ ~Named(taken + 1) /\ ~Fresh(taken + 1) /\ taken + 1 \notin files
         /\ aged < taken + 1
<1>1. taken \in Nat /\ aged \in 0..taken /\ files \subseteq 1..taken
    BY BoundsAssumption DEF TypeOK
<1>2. taken + 1 \notin 1..taken
    BY <1>1
<1>3. ~Fresh(taken + 1)
    BY <1>1, <1>2 DEF PhotosInv, FreshSafe, Fresh, NoUpload
<1> QED BY <1>1, <1>2, <1>3 DEF PhotosInv, NamedSafe, Safe

LEMMA UploadPhotos ==
  ASSUME TypeOK, PhotosInv, NEW i \in Items, BeginUpload(i)
  PROVE  PhotosInv'
<1>1. /\ UNCHANGED <<standards, shots, lessons, shared, staff, doomed, aged>>
      /\ upload = NoUpload /\ doomed = {}
      /\ upload'.photo = taken + 1 /\ taken' = taken + 1 /\ files' = files \cup {taken + 1}
    BY DEF BeginUpload, StoreCapture, rows, LockFree
<1>2. \A p : Named(p)' <=> Named(p)
    BY <1>1, SameNames
<1>3. \A p : Fresh(p)' => Fresh(p) \/ p = taken + 1
    BY <1>1 DEF Fresh, Stored
<1>4. taken \in Nat
    BY BoundsAssumption DEF TypeOK
<1>5. NamedSafe'
    BY <1>1, <1>2, <1>3, <1>4, Unknown DEF PhotosInv, NamedSafe, Safe
<1>6. FreshSafe'
  <2>1. \A s \in Staff : Stored(s) => staff[s].photo # taken + 1
    BY Unknown DEF Fresh
  <2> QED BY <1>1, <2>1 DEF PhotosInv, FreshSafe, Stored
<1>7. OwnPhoto'
    BY <1>1 DEF PhotosInv, OwnPhoto, StandardNames, ShotNames, LessonNames, Kept, LiveShots
<1> QED BY <1>5, <1>6, <1>7 DEF PhotosInv

LEMMA ShotPhotos ==
  ASSUME TypeOK, PhotosInv, NEW s \in Staff, NEW i \in Items, TakeShot(s, i)
  PROVE  PhotosInv'
<1>1. /\ UNCHANGED <<standards, shots, lessons, shared, upload, doomed, aged>>
      /\ taken' = taken + 1 /\ files' = files \cup {taken + 1}
      /\ staff'[s].photo = taken + 1
      /\ \A t \in Staff \ {s} : staff'[t] = staff[t]
    BY DEF TakeShot, StoreCapture, rows, TypeOK
<1>2. \A p : Named(p)' <=> Named(p)
    BY <1>1, SameNames
<1>3. \A p : Fresh(p)' => Fresh(p) \/ p = taken + 1
    BY <1>1 DEF Fresh, Stored
<1>4. taken \in Nat /\ doomed \subseteq 1..taken
    BY BoundsAssumption DEF TypeOK, PhotosInv, FreshSafe
<1>5. NamedSafe'
    BY <1>1, <1>2, <1>3, <1>4, Unknown DEF PhotosInv, NamedSafe, Safe
<1>6. FreshSafe'
  <2>1. \A t \in Staff : Stored(t) => staff[t].photo # taken + 1
    BY Unknown DEF Fresh
  <2>2. upload # NoUpload => upload.photo # taken + 1
    BY Unknown DEF Fresh
  <2> QED BY <1>1, <1>4, <2>1, <2>2, Unknown DEF PhotosInv, FreshSafe, Stored
<1>7. OwnPhoto'
    BY <1>1 DEF PhotosInv, OwnPhoto, StandardNames, ShotNames, LessonNames, Kept, LiveShots
<1> QED BY <1>5, <1>6, <1>7 DEF PhotosInv

\* The row takes over the file that was fresh until now.
LEMMA CommitPhotos ==
  ASSUME TypeOK, PhotosInv, NEW s \in Staff, NEW n \in ShotIds, CommitShot(s, n)
  PROVE  PhotosInv'
<1> DEFINE photo == staff[s].photo
<1>1. /\ UNCHANGED <<standards, lessons, shared, upload, doomed, taken, files, aged>>
      /\ Stored(s) /\ upload = NoUpload /\ doomed = {}
      /\ staff'[s] = Idle /\ \A t \in Staff \ {s} : staff'[t] = staff[t]
      /\ shots' = [shots EXCEPT ![n] = NewShot(s)]
    BY DEF CommitShot, LockFree, disk, TypeOK, Stored
<1>2. NewShot(s).photo = photo /\ NewShot(s) # NoShot
    BY DEF NewShot, NoShot
<1>3. \A m \in ShotIds : \A p : ShotNames(m, p)' => ShotNames(m, p) \/ (m = n /\ p = photo)
    BY <1>1, <1>2 DEF ShotNames, LiveShots, TypeOK
<1>4. \A i, v, l, p : /\ StandardNames(i, v, p)' <=> StandardNames(i, v, p)
                      /\ LessonNames(l, p)' <=> LessonNames(l, p)
    BY <1>1 DEF StandardNames, LessonNames, Kept
<1>5. \A p : Named(p)' => Named(p) \/ p = photo
    BY <1>1, <1>3, <1>4 DEF Named
<1>6. ~Named(photo) /\ photo \in files
    BY <1>1 DEF PhotosInv, NamedSafe, Safe, Fresh, FreshSafe
<1>7. \A p : Fresh(p)' => Fresh(p) /\ p # photo
    BY <1>1 DEF Fresh, Stored, Idle, PhotosInv, FreshSafe
<1>8. files \subseteq 1..taken
    BY DEF TypeOK
<1> HIDE DEF photo
<1>9. NamedSafe'
    BY <1>1, <1>5, <1>6, <1>7, <1>8 DEF PhotosInv, NamedSafe, Safe
<1>10. FreshSafe'
    BY <1>1 DEF PhotosInv, FreshSafe, Stored, Idle
<1>11. OwnPhoto'
  <2> SUFFICES ASSUME NEW p, p \notin shared
      PROVE  /\ \A i, j \in Items, v, w \in Nat :
                  StandardNames(i, v, p)' /\ StandardNames(j, w, p)' => i = j /\ v = w
             /\ \A m, k \in ShotIds : ShotNames(m, p)' /\ ShotNames(k, p)' => m = k
             /\ \A i \in Items, v \in Nat, m \in ShotIds :
                  ~(StandardNames(i, v, p)' /\ ShotNames(m, p)')
             /\ \A l \in lessons' : ~LessonNames(l, p)'
      BY <1>1 DEF OwnPhoto
  <2>1. CASE p = photo
    BY <1>1, <1>3, <1>4, <1>6, <2>1 DEF Named
  <2>2. CASE p # photo
    BY <1>1, <1>3, <1>4, <2>2 DEF PhotosInv, OwnPhoto
  <2> QED BY <2>1, <2>2
<1> QED BY <1>9, <1>10, <1>11 DEF PhotosInv

LEMMA RefusePhotos ==
  ASSUME TypeOK, PhotosInv, NEW s \in Staff, RefuseShot(s)
  PROVE  PhotosInv'
<1> DEFINE photo == staff[s].photo
<1>1. /\ UNCHANGED <<standards, shots, lessons, shared, upload, doomed, taken, aged>>
      /\ Stored(s) /\ files' = files \ {photo} /\ upload = NoUpload
      /\ staff'[s] = Idle /\ \A t \in Staff \ {s} : staff'[t] = staff[t]
    BY DEF RefuseShot, LockFree, rows, TypeOK, Stored
<1>2. \A p : Named(p)' <=> Named(p)
    BY <1>1, SameNames
<1>3. ~Named(photo)
    BY <1>1 DEF PhotosInv, NamedSafe, Safe, Fresh
<1>4. \A p : Fresh(p)' => Fresh(p) /\ p # photo
    BY <1>1 DEF Fresh, Stored, Idle, PhotosInv, FreshSafe
<1>5. NamedSafe'
    BY <1>1, <1>2, <1>3, <1>4 DEF PhotosInv, NamedSafe, Safe
<1>6. FreshSafe'
    BY <1>1 DEF PhotosInv, FreshSafe, Stored, Idle
<1>7. OwnPhoto'
    BY <1>1 DEF PhotosInv, OwnPhoto, StandardNames, ShotNames, LessonNames, Kept, LiveShots
<1> QED BY <1>5, <1>6, <1>7 DEF PhotosInv

\* The version that is inserted takes over the file that was fresh until now.
LEMMA InsertPhotos ==
  ASSUME TypeOK, PhotosInv, UploadFits, InsertStandard
  PROVE  PhotosInv'
<1> DEFINE photo == upload.photo
           at == upload.item
           new == Len(standards[at]) + 1
<1>1. /\ UNCHANGED <<shots, lessons, shared, staff, doomed, taken, files, aged>>
      /\ upload # NoUpload /\ upload' = NoUpload /\ doomed = {} /\ photo \in files
    BY DEF InsertStandard, disk, PhotosInv, FreshSafe
<1>2. at \in Items /\ photo \in Photos /\ Len(standards[at]) < MaxVersions
    BY <1>1 DEF TypeOK, Uploading, UploadFits
<1>3. \A i \in Items, v \in Nat : \A p :
        StandardNames(i, v, p)' => StandardNames(i, v, p) \/ (i = at /\ v = new /\ p = photo)
    BY <1>2, Appended DEF InsertStandard
<1>4. \A n, l, p : /\ ShotNames(n, p)' <=> ShotNames(n, p)
                   /\ LessonNames(l, p)' <=> LessonNames(l, p)
    BY <1>1 DEF ShotNames, LessonNames, LiveShots
<1>5. \A p : Named(p)' => Named(p) \/ p = photo
    BY <1>1, <1>3, <1>4 DEF Named
<1>6. ~Named(photo)
    BY <1>1 DEF PhotosInv, NamedSafe, Safe, Fresh
<1>7. \A p : Fresh(p)' => Fresh(p) /\ p # photo
    BY <1>1 DEF Fresh, Stored, PhotosInv, FreshSafe
<1>8. files \subseteq 1..taken
    BY DEF TypeOK
<1> HIDE DEF photo, at, new
<1>9. NamedSafe'
    BY <1>1, <1>5, <1>6, <1>7, <1>8 DEF PhotosInv, NamedSafe, Safe
<1>10. FreshSafe'
    BY <1>1 DEF PhotosInv, FreshSafe, Stored
<1>11. OwnPhoto'
  <2> SUFFICES ASSUME NEW p, p \notin shared
      PROVE  /\ \A i, j \in Items, v, w \in Nat :
                  StandardNames(i, v, p)' /\ StandardNames(j, w, p)' => i = j /\ v = w
             /\ \A m, k \in ShotIds : ShotNames(m, p)' /\ ShotNames(k, p)' => m = k
             /\ \A i \in Items, v \in Nat, m \in ShotIds :
                  ~(StandardNames(i, v, p)' /\ ShotNames(m, p)')
             /\ \A l \in lessons' : ~LessonNames(l, p)'
      BY <1>1 DEF OwnPhoto
  <2>1. CASE p = photo
    BY <1>1, <1>3, <1>4, <1>6, <2>1 DEF Named
  <2>2. CASE p # photo
    BY <1>1, <1>3, <1>4, <2>2 DEF PhotosInv, OwnPhoto
  <2> QED BY <2>1, <2>2
<1> QED BY <1>9, <1>10, <1>11 DEF PhotosInv

LEMMA FailPhotos ==
  ASSUME TypeOK, PhotosInv, FailUpload
  PROVE  PhotosInv'
<1>1. /\ UNCHANGED <<standards, shots, lessons, shared, staff, taken, files, aged>>
      /\ upload # NoUpload /\ upload' = NoUpload /\ doomed = {}
      /\ doomed' \subseteq {upload.photo} /\ upload.photo \in files
    BY DEF FailUpload, disk, rows, PhotosInv, FreshSafe
<1>2. \A p : Named(p)' <=> Named(p)
    BY <1>1, SameNames
<1>3. ~Named(upload.photo)
    BY <1>1 DEF PhotosInv, NamedSafe, Safe, Fresh
<1>4. \A p : Fresh(p)' => Fresh(p)
    BY <1>1 DEF Fresh, Stored
<1>5. files \subseteq 1..taken
    BY DEF TypeOK
<1>6. NamedSafe'
    BY <1>1, <1>2, <1>3, <1>4 DEF PhotosInv, NamedSafe, Safe
<1>7. FreshSafe'
    BY <1>1, <1>5 DEF PhotosInv, FreshSafe, Stored
<1>8. OwnPhoto'
    BY <1>1 DEF PhotosInv, OwnPhoto, StandardNames, ShotNames, LessonNames, Kept, LiveShots
<1> QED BY <1>6, <1>7, <1>8 DEF PhotosInv

\* The photos of the rows that were there stay safe; the one that is named again is shared
\* from now on.
LEMMA SharedPhotos ==
  ASSUME TypeOK, PhotosInv, NEW more,
         UNCHANGED <<disk, shots, staff, upload, doomed>>,
         shared' = shared \cup more,
         \A p : Named(p)' => Named(p),
         \A p : p \notin shared' =>
            /\ \A i \in Items, v \in Nat : StandardNames(i, v, p)' => StandardNames(i, v, p)
            /\ \A l : LessonNames(l, p)' => LessonNames(l, p)
  PROVE  PhotosInv'
<1>1. UNCHANGED <<taken, files, aged>>
    BY DEF disk
<1>2. \A p : Fresh(p)' <=> Fresh(p)
    BY DEF Fresh, Stored
<1>3. NamedSafe'
    BY <1>1, <1>2 DEF PhotosInv, NamedSafe, Safe
<1>4. FreshSafe'
    BY <1>1 DEF PhotosInv, FreshSafe, Stored
<1>5. \A n, p : ShotNames(n, p)' <=> ShotNames(n, p)
    BY DEF ShotNames, LiveShots
<1>6. OwnPhoto'
  <2> SUFFICES ASSUME NEW p, p \notin shared'
      PROVE  /\ \A i, j \in Items, v, w \in Nat :
                  StandardNames(i, v, p)' /\ StandardNames(j, w, p)' => i = j /\ v = w
             /\ \A n, m \in ShotIds : ShotNames(n, p)' /\ ShotNames(m, p)' => n = m
             /\ \A i \in Items, v \in Nat, n \in ShotIds :
                  ~(StandardNames(i, v, p)' /\ ShotNames(n, p)')
             /\ \A l \in lessons' : ~LessonNames(l, p)'
      BY DEF OwnPhoto
  <2>1. p \notin shared
    OBVIOUS
  <2>2. \A l : LessonNames(l, p) => l \in lessons
    BY DEF LessonNames
  <2> QED BY <1>5, <2>1, <2>2 DEF PhotosInv, OwnPhoto
<1> QED BY <1>3, <1>4, <1>6 DEF PhotosInv

LEMMA MarkupPhotos ==
  ASSUME TypeOK, CurrentKept, PhotosInv, NEW i \in Items, EditMarkup(i)
  PROVE  PhotosInv'
<1> DEFINE photo == standards[i][Current(i)].photo
<1>1. Current(i) \in Kept(i) /\ Current(i) \in Nat
    BY Versioned, BoundsAssumption DEF EditMarkup, CurrentKept, Current
<1>2. photo \in Photos /\ Len(standards[i]) < MaxVersions
    BY <1>1, Versioned DEF EditMarkup, Standard
<1>3. /\ UNCHANGED <<disk, shots, lessons, staff, upload, doomed>>
      /\ shared' = shared \cup {photo}
      /\ standards' = [standards EXCEPT ![i] = Append(@, [photo |-> photo, kept |-> TRUE])]
    BY DEF EditMarkup
<1>4. StandardNames(i, Current(i), photo)
    BY <1>1 DEF StandardNames
<1> HIDE DEF photo
<1>5. \A j \in Items, v \in Nat : \A q : StandardNames(j, v, q)' => StandardNames(j, v, q) \/ q = photo
    BY <1>2, <1>3, Appended
<1>6. \A l, p : LessonNames(l, p)' <=> LessonNames(l, p)
    BY <1>3 DEF LessonNames
<1>7. \A n, p : ShotNames(n, p)' <=> ShotNames(n, p)
    BY <1>3 DEF ShotNames, LiveShots
<1>8. Named(photo)
    BY <1>1, <1>4 DEF Named
<1>9. \A p : Named(p)' => Named(p)
    BY <1>3, <1>5, <1>6, <1>7, <1>8 DEF Named
<1>10. \A p : p \notin shared' =>
            /\ \A j \in Items, v \in Nat : StandardNames(j, v, p)' => StandardNames(j, v, p)
            /\ \A l : LessonNames(l, p)' => LessonNames(l, p)
    BY <1>3, <1>5, <1>6
<1> QED BY <1>3, <1>9, <1>10, SharedPhotos

LEMMA TeachingPhotos ==
  ASSUME TypeOK, PhotosInv, NEW i \in Items, MarkTeaching(i)
  PROVE  PhotosInv'
<1> DEFINE frozen == Waiting(i).frozen
           left == standards[i][frozen].photo
           right == Waiting(i).photo
           new == [item |-> i, left |-> left, right |-> right]
<1>1. /\ UNCHANGED <<disk, standards, shots, staff, upload, doomed>>
      /\ shared' = shared \cup {left, right} /\ lessons' = lessons \cup {new}
      /\ frozen \in Kept(i) /\ Waiting(i) # NoShot
    BY DEF MarkTeaching
<1>2. StandardNames(i, frozen, left) /\ frozen \in Nat
    BY <1>1, Versioned, BoundsAssumption DEF StandardNames
<1>3. ShotNames(pending[i], right) /\ pending[i] \in ShotIds
    BY <1>1 DEF ShotNames, Waiting, LiveShots
<1>4. new.left = left /\ new.right = right
    OBVIOUS
<1> HIDE DEF frozen, left, right, new
<1>5. Named(left) /\ Named(right)
    BY <1>2, <1>3 DEF Named
<1>6. \A l, p : LessonNames(l, p)' => LessonNames(l, p) \/ p \in {left, right}
    BY <1>1, <1>4 DEF LessonNames
<1>7. \A j, v, n, p : /\ StandardNames(j, v, p)' <=> StandardNames(j, v, p)
                      /\ ShotNames(n, p)' <=> ShotNames(n, p)
    BY <1>1 DEF StandardNames, ShotNames, LiveShots, Kept
<1>8. \A l, p : LessonNames(l, p) => l \in lessons
    BY DEF LessonNames
<1>9. \A p : Named(p)' => Named(p)
    BY <1>5, <1>6, <1>7, <1>8 DEF Named
<1>10. \A p : p \notin shared' =>
            /\ \A j \in Items, v \in Nat : StandardNames(j, v, p)' => StandardNames(j, v, p)
            /\ \A l : LessonNames(l, p)' => LessonNames(l, p)
    BY <1>1, <1>6, <1>7
<1> QED BY <1>1, <1>9, <1>10, SharedPhotos

\* A verdict names no photo.
LEMMA ReviewPhotos ==
  ASSUME TypeOK, PhotosInv, ReviewStep
  PROVE  PhotosInv'
<1>1. ASSUME NEW i \in Items, AcceptDaily(i) \/ UndoAcceptDaily(i) \/ RejectDaily(i)
      PROVE  PhotosInv'
  <2>1. /\ UNCHANGED <<disk, standards, shots, lessons, staff, upload, shared>>
        /\ doomed' = {} /\ upload = NoUpload
    BY <1>1 DEF AcceptDaily, UndoAcceptDaily, RejectDaily, LockFree
  <2> QED BY <2>1, SameNames, Shrunk
<1> QED BY <1>1, TeachingPhotos DEF ReviewStep

\* A photo that one row names is not on its way in.
LEMMA NamedIsOld ==
  ASSUME TypeOK, PhotosInv, NEW p, Named(p)
  PROVE  p \in 1..taken /\ ~Fresh(p)
BY DEF PhotosInv, NamedSafe, Safe

LEMMA ItemPhotos ==
  ASSUME TypeOK, PhotosInv, NEW i \in Items, DeleteItem(i)
  PROVE  PhotosInv'
<1>1. /\ UNCHANGED <<disk, staff, upload, shared>>
      /\ doomed' = {} /\ upload = NoUpload
      /\ standards' = [standards EXCEPT ![i] = <<>>]
      /\ shots' = [n \in ShotIds |-> IF n \in LiveShots /\ shots[n].item = i
                                     THEN NoShot ELSE shots[n]]
      /\ lessons' \subseteq lessons
    BY DEF DeleteItem, LockFree
<1>2. standards'[i] = <<>> /\ \A j \in Items \ {i} : standards'[j] = standards[j]
    BY <1>1 DEF TypeOK
<1>3. \A j \in Items, v \in Nat : \A p : StandardNames(j, v, p)' => StandardNames(j, v, p)
  <2>1. \A v, p : ~StandardNames(i, v, p)'
    BY <1>2 DEF StandardNames, Kept
  <2>2. \A j \in Items \ {i}, v \in Nat : \A p : StandardNames(j, v, p)' => StandardNames(j, v, p)
    BY <1>2 DEF StandardNames, Kept
  <2> QED BY <2>1, <2>2
<1>4. \A n \in ShotIds : \A p : ShotNames(n, p)' => ShotNames(n, p)
    BY <1>1 DEF ShotNames, LiveShots
<1>5. RowsShrink
    BY <1>1, <1>3, <1>4 DEF RowsShrink
<1> QED BY <1>1, <1>5, Shrunk

LEMMA VersionPhotos ==
  ASSUME TypeOK, PhotosInv, NEW i \in Items, NEW gone, DropStandards(i, gone)
  PROVE  PhotosInv'
<1>1. /\ UNCHANGED <<disk, shots, lessons, staff, upload, shared>>
      /\ upload = NoUpload /\ gone \subseteq Kept(i)
      /\ doomed' = {standards[i][v].photo : v \in gone}
    BY DEF DropStandards, LockFree
<1>2. \A j \in Items, v \in Nat : \A q :
        StandardNames(j, v, q)' => StandardNames(j, v, q) /\ (j = i => v \notin gone)
    BY VersionsDropped DEF DropStandards
<1>3. \A n, p : ShotNames(n, p)' <=> ShotNames(n, p)
    BY <1>1 DEF ShotNames, LiveShots
<1>4. RowsShrink
    BY <1>1, <1>2, <1>3 DEF RowsShrink
<1>5. ASSUME NEW p \in doomed' PROVE p \in 1..taken /\ ~Fresh(p) /\ (Named(p)' => p \in shared)
  <2>1. PICK v \in gone : standards[i][v].photo = p
    BY <1>1
  <2>2. v \in Nat /\ StandardNames(i, v, p)
    BY <1>1, <2>1, Versioned, BoundsAssumption DEF StandardNames
  <2>3. p \in 1..taken /\ ~Fresh(p)
    BY <2>2, NamedIsOld DEF Named
  <2>4. ASSUME p \notin shared PROVE ~Named(p)'
    <3>1. \A j \in Items, w \in Nat : ~StandardNames(j, w, p)'
      BY <1>2, <2>1, <2>2, <2>4 DEF PhotosInv, OwnPhoto
    <3>2. \A n \in ShotIds : ~ShotNames(n, p)'
      BY <1>3, <2>2, <2>4 DEF PhotosInv, OwnPhoto
    <3>3. \A l \in lessons' : ~LessonNames(l, p)'
      BY <1>1, <2>4 DEF PhotosInv, OwnPhoto, LessonNames
    <3> QED BY <3>1, <3>2, <3>3 DEF Named
  <2> QED BY <2>3, <2>4
<1> QED BY <1>1, <1>4, <1>5, Shrunk

LEMMA DroppedShotPhotos ==
  ASSUME TypeOK, PhotosInv, NEW gone, DropShots(gone)
  PROVE  PhotosInv'
<1>1. /\ UNCHANGED <<disk, standards, lessons, staff, upload, shared>>
      /\ upload = NoUpload /\ gone \subseteq LiveShots
      /\ shots' = [n \in ShotIds |-> IF n \in gone THEN NoShot ELSE shots[n]]
      /\ doomed' = {shots[n].photo : n \in gone}
    BY DEF DropShots, LockFree
<1>2. \A j, v, l, p : /\ StandardNames(j, v, p)' <=> StandardNames(j, v, p)
                      /\ LessonNames(l, p)' <=> LessonNames(l, p)
    BY <1>1 DEF StandardNames, LessonNames, Kept
<1>3. \A n \in ShotIds : \A p : ShotNames(n, p)' => ShotNames(n, p) /\ n \notin gone
    BY <1>1 DEF ShotNames, LiveShots
<1>4. RowsShrink
    BY <1>1, <1>2, <1>3 DEF RowsShrink
<1>5. ASSUME NEW p \in doomed' PROVE p \in 1..taken /\ ~Fresh(p) /\ (Named(p)' => p \in shared)
  <2>1. PICK n \in gone : shots[n].photo = p
    BY <1>1
  <2>2. n \in ShotIds /\ ShotNames(n, p)
    BY <1>1, <2>1 DEF ShotNames, LiveShots
  <2>3. p \in 1..taken /\ ~Fresh(p)
    BY <2>2, NamedIsOld DEF Named
  <2>4. ASSUME p \notin shared PROVE ~Named(p)'
    <3>1. \A j \in Items, w \in Nat : ~StandardNames(j, w, p)'
      BY <1>2, <2>2, <2>4 DEF PhotosInv, OwnPhoto
    <3>2. \A m \in ShotIds : ~ShotNames(m, p)'
      BY <1>3, <2>1, <2>2, <2>4 DEF PhotosInv, OwnPhoto
    <3>3. \A l \in lessons' : ~LessonNames(l, p)'
      BY <1>1, <1>2, <2>4 DEF PhotosInv, OwnPhoto
    <3> QED BY <3>1, <3>2, <3>3 DEF Named
  <2> QED BY <2>3, <2>4
<1> QED BY <1>1, <1>4, <1>5, Shrunk

\* The photos of a lesson are shared, whoever still shows them.
LEMMA LessonPhotos ==
  ASSUME TypeOK, PhotosInv, NEW gone, DropLessons(gone)
  PROVE  PhotosInv'
<1>1. /\ UNCHANGED <<disk, standards, shots, staff, upload, shared>>
      /\ upload = NoUpload /\ gone \subseteq lessons /\ lessons' = lessons \ gone
      /\ doomed' = {l.left : l \in gone} \cup {l.right : l \in gone}
    BY DEF DropLessons, LockFree
<1>2. RowsShrink
    BY <1>1 DEF RowsShrink, StandardNames, ShotNames, Kept, LiveShots
<1>3. ASSUME NEW p \in doomed' PROVE p \in 1..taken /\ ~Fresh(p) /\ (Named(p)' => p \in shared)
  <2>1. PICK l \in lessons : LessonNames(l, p)
    BY <1>1 DEF LessonNames
  <2>2. p \in 1..taken /\ ~Fresh(p)
    BY <2>1, NamedIsOld DEF Named
  <2>3. p \in shared
    BY <2>1 DEF PhotosInv, OwnPhoto
  <2> QED BY <2>2, <2>3
<1> QED BY <1>1, <1>2, <1>3, Shrunk

LEMMA DeletionPhotos ==
  ASSUME TypeOK, PhotosInv, DeletionStep
  PROVE  PhotosInv'
BY ItemPhotos, VersionPhotos, DroppedShotPhotos, LessonPhotos DEF DeletionStep

\* Old files that nobody names.
LEMMA SweepPhotos ==
  ASSUME TypeOK, PhotosInv, SweepOrphans
  PROVE  PhotosInv'
<1>1. /\ UNCHANGED <<disk, standards, shots, lessons, staff, upload, shared>>
      /\ upload = NoUpload /\ doomed' = Stale
    BY DEF SweepOrphans, LockFree, rows
<1>2. RowsShrink /\ \A p : Named(p)' <=> Named(p)
    BY <1>1, SameNames
<1>3. ASSUME NEW p \in Stale PROVE p \in 1..taken /\ ~Fresh(p) /\ ~Named(p)
  <2>1. p \in files /\ p \notin Referenced /\ p <= aged
    BY DEF Stale, Orphans
  <2>2. p \in 1..taken /\ taken \in Nat /\ aged \in Nat
    BY <2>1, BoundsAssumption DEF TypeOK
  <2>3. ~Fresh(p)
    BY <1>1, <2>1, <2>2 DEF Fresh, PhotosInv, FreshSafe
  <2> QED BY <2>1, <2>2, <2>3, ReferencedIsNamed
<1> QED BY <1>1, <1>2, <1>3, Shrunk

\* Files go that no row needs, and the names on their way in stay.
LEMMA RemovedPhotos ==
  ASSUME TypeOK, PhotosInv, RemoveFiles \/ Crash
  PROVE  PhotosInv'
<1>1. /\ UNCHANGED <<standards, shots, lessons, shared, taken, aged>>
      /\ doomed' = {} /\ files' \subseteq files /\ files \ doomed \subseteq files'
    BY DEF RemoveFiles, Crash, rows
<1>2. \/ UNCHANGED <<staff, upload>> /\ doomed # {}
      \/ upload' = NoUpload /\ \A s \in Staff : staff'[s] = Idle
    BY DEF RemoveFiles, Crash
<1>3. \A p : Named(p)' <=> Named(p)
    BY <1>1, SameNames
<1>4. \A p : Fresh(p)' => Fresh(p)
    BY <1>2 DEF Fresh, Stored, Idle
<1>5. NamedSafe'
    BY <1>1, <1>3, <1>4 DEF PhotosInv, NamedSafe, Safe
<1>6. FreshSafe'
  <2>1. CASE UNCHANGED <<staff, upload>> /\ doomed # {}
    BY <1>1, <2>1 DEF PhotosInv, FreshSafe, Stored
  <2>2. CASE upload' = NoUpload /\ \A s \in Staff : staff'[s] = Idle
    BY <1>1, <2>2 DEF FreshSafe, Stored, Idle
  <2> QED BY <1>2, <2>1, <2>2
<1>7. OwnPhoto'
    BY <1>1 DEF PhotosInv, OwnPhoto, StandardNames, ShotNames, LessonNames, Kept, LiveShots
<1> QED BY <1>5, <1>6, <1>7 DEF PhotosInv

LEMMA FilePhotos ==
  ASSUME TypeOK, PhotosInv, FileStep \/ UNCHANGED vars
  PROVE  PhotosInv'
<1>1. ASSUME DayPasses PROVE PhotosInv'
  <2>1. /\ UNCHANGED <<standards, shots, lessons, shared, taken, files, staff, upload, doomed>>
        /\ \A s \in Staff : ~Stored(s)
    BY <1>1 DEF DayPasses, rows, Stored
  <2>2. PhotosInv' <=> NamedSafe /\ FreshSafe' /\ OwnPhoto
    BY <2>1 DEF PhotosInv, NamedSafe, Safe, Fresh, Stored, OwnPhoto, Named, StandardNames,
             ShotNames, LessonNames, Kept, LiveShots
  <2>3. FreshSafe'
    BY <2>1 DEF PhotosInv, FreshSafe, Stored
  <2> QED BY <2>2, <2>3 DEF PhotosInv
<1>2. ASSUME UNCHANGED vars PROVE PhotosInv'
  <2>1. UNCHANGED <<standards, shots, lessons, shared, taken, files, aged, staff, upload, doomed>>
    BY <1>2 DEF vars
  <2> QED BY <2>1 DEF PhotosInv, NamedSafe, Safe, Fresh, FreshSafe, Stored, OwnPhoto, Named,
             StandardNames, ShotNames, LessonNames, Kept, LiveShots
<1> QED BY <1>1, <1>2, SweepPhotos, RemovedPhotos DEF FileStep

-----------------------------------------------------------------------------
(* The current version of a standard keeps its row.                         *)

LEMMA CurrentStep ==
  ASSUME TypeOK, UploadFits, CurrentKept, [Next]_vars
  PROVE  CurrentKept'
<1>1. CASE standards' = standards
    BY <1>1 DEF CurrentKept, Exists, Current, Kept
<1>2. ASSUME NEW i \in Items, NEW p \in Photos, Len(standards[i]) < MaxVersions,
             standards' = [standards EXCEPT ![i] = Append(@, [photo |-> p, kept |-> TRUE])]
      PROVE  CurrentKept'
  <2>1. /\ Len(standards'[i]) \in Kept(i)'
        /\ \A j \in Items \ {i} : standards'[j] = standards[j]
    BY <1>2, Appended
  <2> QED BY <2>1 DEF CurrentKept, Exists, Current, Kept
<1>3. CASE InsertStandard
  <2>1. upload.item \in Items /\ upload.photo \in Photos /\ Len(standards[upload.item]) < MaxVersions
    BY <1>3 DEF InsertStandard, TypeOK, Uploading, UploadFits
  <2> QED BY <1>2, <1>3, <2>1 DEF InsertStandard
<1>4. ASSUME NEW i \in Items, EditMarkup(i) PROVE CurrentKept'
  <2>1. Current(i) \in Kept(i)
    BY <1>4 DEF EditMarkup, CurrentKept
  <2>2. standards[i][Current(i)].photo \in Photos
    BY <2>1, Versioned DEF Standard
  <2> QED BY <1>2, <1>4, <2>2 DEF EditMarkup
<1>5. ASSUME NEW i \in Items, NEW gone, DropStandards(i, gone) PROVE CurrentKept'
  <2>1. /\ Len(standards'[i]) = Len(standards[i])
        /\ \A v \in Kept(i) : v \notin gone => v \in Kept(i)'
        /\ \A j \in Items \ {i} : standards'[j] = standards[j]
    BY <1>5, VersionsDropped DEF DropStandards
  <2>2. Len(standards[i]) \notin gone
    BY <1>5 DEF DropStandards, InUse, Current
  <2>3. standards[i] # <<>>
    BY <1>5 DEF DropStandards, Kept
  <2> QED BY <2>1, <2>2, <2>3 DEF CurrentKept, Exists, Current, Kept
<1>6. ASSUME NEW i \in Items, DeleteItem(i) PROVE CurrentKept'
  <2>1. standards'[i] = <<>> /\ \A j \in Items \ {i} : standards'[j] = standards[j]
    BY <1>6 DEF DeleteItem, TypeOK
  <2> QED BY <2>1 DEF CurrentKept, Exists, Current, Kept
<1>7. \A i \in Items : BeginUpload(i) => standards' = standards
    BY DEF BeginUpload, rows
<1>8. CASE StandardStep
  <2>1. FailUpload => standards' = standards
    BY DEF FailUpload, rows
  <2> QED BY <1>1, <1>3, <1>4, <1>7, <1>8, <2>1 DEF StandardStep, AddItem, ReplaceStandard
<1>9. CASE DeletionStep
  <2>1. \A gone : DropShots(gone) \/ DropLessons(gone) => standards' = standards
    BY DEF DropShots, DropLessons
  <2> QED BY <1>1, <1>5, <1>6, <1>9, <2>1 DEF DeletionStep
<1>10. CASE ShotStep \/ ReviewStep \/ FileStep \/ UNCHANGED vars
  <2>1. standards' = standards
    BY <1>10 DEF ShotStep, ReviewStep, FileStep, TakeShot, CommitShot, RefuseShot, AcceptDaily,
             UndoAcceptDaily, RejectDaily, MarkTeaching, SweepOrphans, RemoveFiles, DayPasses,
             Crash, rows, vars
  <2> QED BY <1>1, <2>1
<1> QED BY <1>8, <1>9, <1>10 DEF Next

-----------------------------------------------------------------------------

LEMMA StepIInv == IInv /\ [Next]_vars => IInv'
<1> SUFFICES ASSUME IInv, [Next]_vars PROVE IInv'
    OBVIOUS
<1>1. TypeOK /\ FirstPassHonest /\ PendingFits /\ UploadFits /\ CurrentKept /\ PhotosInv
    BY DEF IInv
<1>2. UploadFits' /\ CurrentKept'
    BY <1>1, UploadStep, CurrentStep
<1>3. CASE StandardStep
  <2>1. PhotosInv'
    BY <1>1, <1>3, UploadPhotos, InsertPhotos, FailPhotos, MarkupPhotos
       DEF StandardStep, AddItem, ReplaceStandard
  <2> QED BY <1>1, <1>2, <1>3, <2>1, StandardSteps DEF IInv
<1>4. CASE ShotStep
  <2>1. PhotosInv'
    BY <1>1, <1>4, ShotPhotos, CommitPhotos, RefusePhotos DEF ShotStep
  <2> QED BY <1>1, <1>2, <1>4, <2>1, ShotSteps DEF IInv
<1>5. CASE ReviewStep
    BY <1>1, <1>2, <1>5, ReviewSteps, ReviewPhotos DEF IInv
<1>6. CASE DeletionStep
    BY <1>1, <1>2, <1>6, DeletionSteps, DeletionPhotos DEF IInv
<1>7. CASE FileStep \/ UNCHANGED vars
    BY <1>1, <1>2, <1>7, FileSteps, FilePhotos DEF IInv
<1> QED BY <1>3, <1>4, <1>5, <1>6, <1>7 DEF Next

\* Everything keeps its type, for every number of items, employees and photos.
THEOREM TypeCorrect == Spec => []TypeOK
<1>1. IInv => TypeOK
    BY DEF IInv
<1> QED BY InitIInv, StepIInv, <1>1, PTL DEF Spec

\* No order of uploads, refusals, reviews, deletions, sweeps and crashes takes away the
\* photo of a row, unless a second row had taken that photo over.
THEOREM NothingLostAlone == Spec => []LossNeedsSharing
<1>1. IInv => LossNeedsSharing
    BY ReferencedIsNamed DEF IInv, PhotosInv, NamedSafe, Safe, LossNeedsSharing
<1> QED BY InitIInv, StepIInv, <1>1, PTL DEF Spec

\* The count of items that passed at once agrees with the items and their rejections after
\* every undo, rejection, new submission and deletion.
THEOREM FirstPassCounts == Spec => []FirstPassHonest
<1>1. IInv => FirstPassHonest
    BY DEF IInv
<1> QED BY InitIInv, StepIInv, <1>1, PTL DEF Spec

-----------------------------------------------------------------------------
(* What a step may do to a submission that is there.                        *)

ShotKept ==
  \A n \in LiveShots :
    LET old_ == shots[n] new == shots'[n] IN
    new # NoShot /\ new # old_ =>
        /\ new.by = old_.by
        /\ status[old_.item] = "pending"
        /\ pending[old_.item] = n

LEMMA StepShotKept == IInv /\ [Next]_vars => ShotKept
<1> SUFFICES ASSUME IInv, [Next]_vars PROVE ShotKept
    OBVIOUS
<1>1. TypeOK /\ PendingFits
    BY DEF IInv
<1>2. ASSUME \A n \in LiveShots : shots'[n] \in {shots[n], NoShot} PROVE ShotKept
    BY <1>2 DEF ShotKept
<1>3. ASSUME NEW s \in Staff, NEW n \in ShotIds, CommitShot(s, n) PROVE ShotKept
  <2> DEFINE i == staff[s].item
  <2>1. i \in Items
    BY <1>1, <1>3 DEF CommitShot, TypeOK, Submitting, Idle
  <2>2. /\ shots'[n] = NewShot(s) /\ NewShot(s).by = s
        /\ \A m \in ShotIds \ {n} : shots'[m] = shots[m]
    BY <1>1, <1>3 DEF CommitShot, TypeOK, NewShot
  <2>3. ASSUME n \in LiveShots
        PROVE  shots[n].by = s /\ status[shots[n].item] = "pending" /\ pending[shots[n].item] = n
    <3>1. /\ status[i] = "pending" /\ Waiting(i) # NoShot /\ Waiting(i).by = s
          /\ n = pending[i]
      BY <1>3, <2>3 DEF CommitShot, RowFor, FreshRow, LiveShots
    <3>2. shots[n].item = i /\ shots[n].by = s
      BY <1>1, <2>1, <2>3, <3>1 DEF PendingFits, Waiting
    <3> QED BY <3>1, <3>2
  <2> HIDE DEF i
  <2> QED BY <2>2, <2>3 DEF ShotKept, LiveShots
<1>4. CASE DeletionStep
  <2>1. \A i \in Items : \A gone : DropStandards(i, gone) => shots' = shots
    BY DEF DropStandards
  <2>2. \A gone : DropLessons(gone) => shots' = shots
    BY DEF DropLessons
  <2>3. ASSUME NEW gone, DropShots(gone) PROVE \A n \in LiveShots : shots'[n] \in {shots[n], NoShot}
    BY <2>3 DEF DropShots, LiveShots
  <2>4. ASSUME NEW i \in Items, DeleteItem(i)
        PROVE  \A n \in LiveShots : shots'[n] \in {shots[n], NoShot}
    BY <2>4 DEF DeleteItem, LiveShots
  <2> QED BY <1>2, <1>4, <2>1, <2>2, <2>3, <2>4 DEF DeletionStep
<1>5. CASE StandardStep \/ ReviewStep \/ FileStep \/ UNCHANGED vars
  <2>1. shots' = shots
    BY <1>5 DEF StandardStep, AddItem, ReplaceStandard, BeginUpload, EditMarkup, InsertStandard,
             FailUpload, ReviewStep, AcceptDaily, UndoAcceptDaily, RejectDaily, MarkTeaching,
             FileStep, SweepOrphans, RemoveFiles, DayPasses, Crash, rows, vars
  <2> QED BY <1>2, <2>1
<1>6. CASE ShotStep
  <2>1. \A s \in Staff, i \in Items : TakeShot(s, i) \/ RefuseShot(s) => shots' = shots
    BY DEF TakeShot, RefuseShot, rows
  <2>2. \A s \in Staff : RefuseShot(s) => shots' = shots
    BY DEF RefuseShot, rows
  <2> QED BY <1>2, <1>3, <1>6, <2>1, <2>2 DEF ShotStep
<1> QED BY <1>4, <1>5, <1>6 DEF Next

\* Nobody replaces a passed or rejected submission, nor a colleague's.
THEOREM EvidenceIsKept == Spec => EvidenceKept
<1> QED BY InitIInv, StepIInv, StepShotKept, PTL DEF Spec, EvidenceKept, ShotKept
=============================================================================
