--------------------------- MODULE HygieneDaily ---------------------------
(***************************************************************************)
(* The daily hygiene checks of one day: an employee photographs an item    *)
(* against its standard photo, a reviewer passes or rejects the shot, the  *)
(* administrator changes standards, marks lessons and deletes records.     *)
(* The rows are written under one write lock; the photos are files beside  *)
(* the database, written before the row that names them and removed after  *)
(* the row is gone, so every step in between is a state of its own.        *)
(***************************************************************************)
EXTENDS Integers, Sequences, FiniteSets

CONSTANTS
    Items,        \* the daily check items of the day
    Staff,        \* the employees who photograph
    MaxPhotos,    \* bound: photos ever written
    MaxVersions,  \* bound: versions of one item's standard
    MaxShots      \* bound: the ids of submission rows

ASSUME BoundsAssumption ==
    /\ MaxPhotos \in Nat
    /\ MaxVersions \in Nat
    /\ MaxShots \in Nat

VARIABLES
    taken,      \* how many photo names have been handed out: names are 1..taken
    files,      \* the photos that are on disk
    aged,       \* photos 1..aged are older than ORPHAN_CAPTURE_MIN_AGE_SECONDS
    standards,  \* item -> versions of its standard photo, the last one is current
    dropped,    \* items that were deleted
    shots,      \* submission rows, by id
    status,     \* item -> status of the day's instance
    pending,    \* item -> pending_submission_id of the day's instance
    firstPass,  \* item -> number of "passed at once" events
    rejected,   \* item -> is there a "rejected" event
    lessons,    \* teaching examples
    staff,      \* employee -> where the submission in flight stands
    upload,     \* the standard photo being uploaded under the write lock
    doomed,     \* files the holder of the write lock has still to remove
    shared      \* history: photos that a second row took over

vars == <<taken, files, aged, standards, dropped, shots, status, pending,
          firstPass, rejected, lessons, staff, upload, doomed, shared>>

Photos   == 1..MaxPhotos
ShotIds  == 1..MaxShots
Versions == 1..MaxVersions

NoShot   == [kind |-> "none"]
NoUpload == [kind |-> "none"]
Idle     == [at |-> "idle"]

Standard   == [photo : Photos, kept : BOOLEAN]
Shot       == [kind : {"shot"}, item : Items, photo : Photos,
               frozen : Versions, by : Staff]
Uploading  == [kind : {"upload"}, item : Items, photo : Photos]
Lesson     == [item : Items, left : Photos, right : Photos]
Submitting == {Idle} \cup [at : {"stored"}, item : Items, frozen : Versions,
                            photo : Photos]

TypeOK ==
    /\ taken \in 0..MaxPhotos
    /\ files \in SUBSET (1..taken)
    /\ aged \in 0..taken
    /\ standards \in [Items -> Seq(Standard)]
    /\ \A i \in Items : Len(standards[i]) <= MaxVersions
    /\ dropped \in SUBSET Items
    /\ shots \in [ShotIds -> Shot \cup {NoShot}]
    /\ status \in [Items -> {"todo", "pending", "passed"}]
    /\ pending \in [Items -> ShotIds \cup {0}]
    /\ firstPass \in [Items -> Nat]
    /\ rejected \in [Items -> BOOLEAN]
    /\ lessons \in SUBSET Lesson
    /\ staff \in [Staff -> Submitting]
    /\ upload \in Uploading \cup {NoUpload}
    /\ doomed \in SUBSET Photos
    /\ shared \in SUBSET Photos

---------------------------------------------------------------------------
\* The rows and the photos they name.

Exists(i)  == standards[i] # <<>>
Current(i) == Len(standards[i])
Kept(i)    == {v \in DOMAIN standards[i] : standards[i][v].kept}
LiveShots  == {n \in ShotIds : shots[n] # NoShot}

\* The photos the business tables name.
Referenced ==
    (UNION {{standards[i][v].photo : v \in Kept(i)} : i \in Items})
    \cup {shots[n].photo : n \in LiveShots}
    \cup {l.left : l \in lessons} \cup {l.right : l \in lessons}

LockFree == upload = NoUpload /\ doomed = {}

\* The submission the day's instance of item i waits for, or shows as passed.
Waiting(i) == IF pending[i] \in LiveShots THEN shots[pending[i]] ELSE NoShot

rows  == <<standards, dropped, shots, status, pending, firstPass, rejected,
           lessons, shared>>
disk  == <<taken, files, aged>>

Init ==
    /\ taken = 0
    /\ files = {}
    /\ aged = 0
    /\ standards = [i \in Items |-> <<>>]
    /\ dropped = {}
    /\ shots = [n \in ShotIds |-> NoShot]
    /\ status = [i \in Items |-> "todo"]
    /\ pending = [i \in Items |-> 0]
    /\ firstPass = [i \in Items |-> 0]
    /\ rejected = [i \in Items |-> FALSE]
    /\ lessons = {}
    /\ staff = [s \in Staff |-> Idle]
    /\ upload = NoUpload
    /\ doomed = {}
    /\ shared = {}

\* A photo gets a name of its own and is on disk before any row names it.
StoreCapture ==
    /\ taken < MaxPhotos
    /\ taken' = taken + 1
    /\ files' = files \cup {taken + 1}
    /\ UNCHANGED aged

---------------------------------------------------------------------------
\* Standards: the administrator uploads them inside the write lock.

BeginUpload(i) ==
    /\ LockFree
    /\ Len(standards[i]) < MaxVersions
    /\ StoreCapture
    /\ upload' = [kind |-> "upload", item |-> i, photo |-> taken + 1]
    /\ UNCHANGED <<rows, staff, doomed>>

AddItem(i)         == i \notin dropped /\ ~Exists(i) /\ BeginUpload(i)
ReplaceStandard(i) == Exists(i) /\ BeginUpload(i)

InsertStandard ==
    /\ upload # NoUpload
    /\ standards' = [standards EXCEPT ![upload.item] =
                        Append(@, [photo |-> upload.photo, kept |-> TRUE])]
    /\ upload' = NoUpload
    /\ UNCHANGED <<disk, dropped, shots, status, pending, firstPass, rejected,
                   lessons, staff, doomed, shared>>

\* The statement fails.  A replacement removes its photo; a new item removes it
\* only when the name was taken, any other failure leaves the file behind.
FailUpload ==
    /\ upload # NoUpload
    /\ upload' = NoUpload
    /\ \/ doomed' = {upload.photo}
       \/ ~Exists(upload.item) /\ UNCHANGED doomed
    /\ UNCHANGED <<disk, rows, staff>>

\* New marks on the standard are a new version that shows the same photo.
EditMarkup(i) ==
    /\ LockFree
    /\ Exists(i)
    /\ Len(standards[i]) < MaxVersions
    /\ LET photo == standards[i][Current(i)].photo
       IN  /\ standards' = [standards EXCEPT ![i] =
                               Append(@, [photo |-> photo, kept |-> TRUE])]
           /\ shared' = shared \cup {photo}
    /\ UNCHANGED <<disk, dropped, shots, status, pending, firstPass, rejected,
                   lessons, staff, upload, doomed>>

---------------------------------------------------------------------------
\* Submissions: checks and the file outside the lock, the rows inside.

\* The standard that is current now is the one the shot will be frozen to.
TakeShot(s, i) ==
    /\ staff[s] = Idle
    /\ Exists(i)
    /\ StoreCapture
    /\ staff' = [staff EXCEPT ![s] = [at |-> "stored", item |-> i,
                        frozen |-> Current(i), photo |-> taken + 1]]
    /\ UNCHANGED <<rows, upload, doomed>>

\* The rows a submission needs: its item, and the standard it was taken against.
StillThere(s) == staff[s].frozen \in Kept(staff[s].item)

NewShot(s) == [kind |-> "shot", item |-> staff[s].item, photo |-> staff[s].photo,
               frozen |-> staff[s].frozen, by |-> s]

\* An id above the live ones that no instance names: ids are never given twice.
FreshRow(n) ==
    /\ shots[n] = NoShot
    /\ \A m \in LiveShots : m < n
    /\ \A i \in Items : pending[i] # n

\* Fault: the pending row is replaced whoever sent it.
RowOfAnyone(s, n) ==
    LET i == staff[s].item IN
    IF status[i] = "pending" /\ Waiting(i) # NoShot
    THEN n = pending[i]
    ELSE FreshRow(n)

\* The row the submission goes to: the pending one when it is the employee's
\* own, a new one otherwise.
RowFor(s, n) ==
    LET i == staff[s].item IN
    IF status[i] = "pending" /\ Waiting(i) # NoShot /\ Waiting(i).by = s
    THEN n = pending[i]
    ELSE FreshRow(n)

CommitShot(s, n) ==
    LET i == staff[s].item IN
    /\ staff[s].at = "stored"
    /\ LockFree
    /\ status[i] # "passed"
    /\ StillThere(s)
    /\ RowFor(s, n)
    /\ shots' = [shots EXCEPT ![n] = NewShot(s)]
    /\ status' = [status EXCEPT ![i] = "pending"]
    /\ pending' = [pending EXCEPT ![i] = n]
    /\ staff' = [staff EXCEPT ![s] = Idle]
    /\ UNCHANGED <<disk, standards, dropped, firstPass, rejected, lessons, upload, doomed, shared>>

\* Already passed, a row it needs is gone, or the database refuses: the
\* transaction rolls back and the employee's own file is removed, unless the
\* process dies first.
RefuseShot(s) ==
    /\ staff[s].at = "stored"
    /\ LockFree
    /\ files' = files \ {staff[s].photo}
    /\ staff' = [staff EXCEPT ![s] = Idle]
    /\ UNCHANGED <<taken, aged, rows, upload, doomed>>

---------------------------------------------------------------------------
\* Reviews, each one transaction under the write lock.

AcceptDaily(i) ==
    /\ LockFree
    /\ status[i] = "pending"
    /\ Waiting(i) # NoShot
    /\ status' = [status EXCEPT ![i] = "passed"]
    /\ firstPass' = [firstPass EXCEPT ![i] = IF rejected[i] THEN @ ELSE @ + 1]
    /\ UNCHANGED <<disk, standards, dropped, shots, pending, rejected, lessons,
                   staff, upload, doomed, shared>>

\* Fault: the event of the acceptance that is undone stays.
UndoStatusOnly(i) ==
    /\ LockFree
    /\ status[i] = "passed"
    /\ Waiting(i) # NoShot
    /\ status' = [status EXCEPT ![i] = "pending"]
    /\ UNCHANGED <<disk, standards, dropped, shots, pending, firstPass, rejected,
                   lessons, staff, upload, doomed, shared>>

\* Fault: an event is taken off that was never written.
UndoBlindly(i) ==
    /\ LockFree
    /\ status[i] = "passed"
    /\ Waiting(i) # NoShot
    /\ status' = [status EXCEPT ![i] = "pending"]
    /\ firstPass' = [firstPass EXCEPT ![i] = @ - 1]
    /\ UNCHANGED <<disk, standards, dropped, shots, pending, rejected,
                   lessons, staff, upload, doomed, shared>>

\* The shot stays; the last "passed at once" event goes.
UndoAcceptDaily(i) ==
    /\ LockFree
    /\ status[i] = "passed"
    /\ Waiting(i) # NoShot
    /\ status' = [status EXCEPT ![i] = "pending"]
    /\ firstPass' = [firstPass EXCEPT ![i] = IF @ > 0 THEN @ - 1 ELSE @]
    /\ UNCHANGED <<disk, standards, dropped, shots, pending, rejected, lessons, staff, upload, doomed, shared>>

RejectDaily(i) ==
    /\ LockFree
    /\ status[i] = "pending"
    /\ Waiting(i) # NoShot
    /\ status' = [status EXCEPT ![i] = "todo"]
    /\ pending' = [pending EXCEPT ![i] = 0]
    /\ rejected' = [rejected EXCEPT ![i] = TRUE]
    /\ UNCHANGED <<disk, standards, dropped, shots, firstPass, lessons,
                   staff, upload, doomed, shared>>

\* A passed shot and its frozen standard become a lesson that names both photos.
MarkTeaching(i) ==
    /\ LockFree
    /\ status[i] = "passed"
    /\ Waiting(i) # NoShot
    /\ Waiting(i).frozen \in Kept(i)
    /\ LET left  == standards[i][Waiting(i).frozen].photo
           right == Waiting(i).photo
       IN  /\ lessons' = lessons \cup {[item |-> i, left |-> left, right |-> right]}
           /\ shared' = shared \cup {left, right}
    /\ UNCHANGED <<disk, standards, dropped, shots, status, pending, firstPass,
                   rejected, staff, upload, doomed>>

---------------------------------------------------------------------------
\* Deletions: the rows and the commit first, the files after it.

\* Archive: submissions.  An instance that waits for a deleted one starts again.
DropShots(gone) ==
    /\ LockFree
    /\ gone \subseteq LiveShots
    /\ gone # {}
    /\ LET reset == {i \in Items : status[i] = "pending" /\ pending[i] \in gone}
       IN  /\ status' = [i \in Items |-> IF i \in reset THEN "todo" ELSE status[i]]
           /\ pending' = [i \in Items |-> IF i \in reset THEN 0 ELSE pending[i]]
    /\ shots' = [n \in ShotIds |-> IF n \in gone THEN NoShot ELSE shots[n]]
    /\ doomed' = {shots[n].photo : n \in gone}
    /\ UNCHANGED <<disk, standards, dropped, firstPass, rejected, lessons, staff, upload, shared>>

\* Archive: lessons, with both photos they name.
DropLessons(gone) ==
    /\ LockFree
    /\ gone \subseteq lessons
    /\ gone # {}
    /\ lessons' = lessons \ gone
    /\ doomed' = {l.left : l \in gone} \cup {l.right : l \in gone}
    /\ UNCHANGED <<disk, standards, dropped, shots, status, pending, firstPass,
                   rejected, staff, upload, shared>>

\* Archive: versions of a standard that are neither current nor frozen by a row.
InUse(i) == {Current(i)} \cup {shots[n].frozen : n \in {m \in LiveShots : shots[m].item = i}}

DropStandards(i, gone) ==
    /\ LockFree
    /\ gone \subseteq Kept(i) \ InUse(i)
    /\ gone # {}
    /\ standards' = [standards EXCEPT ![i] =
                        [v \in DOMAIN @ |-> IF v \in gone
                                            THEN [@[v] EXCEPT !.kept = FALSE]
                                            ELSE @[v]]]
    /\ doomed' = {standards[i][v].photo : v \in gone}
    /\ UNCHANGED <<disk, dropped, shots, status, pending, firstPass, rejected,
                   lessons, staff, upload, shared>>

\* The item with everything that belongs to it; its files are left to the sweep.
DeleteItem(i) ==
    /\ LockFree
    /\ Exists(i)
    /\ standards' = [standards EXCEPT ![i] = <<>>]
    /\ dropped' = dropped \cup {i}
    /\ shots' = [n \in ShotIds |-> IF n \in LiveShots /\ shots[n].item = i
                                   THEN NoShot ELSE shots[n]]
    /\ status' = [status EXCEPT ![i] = "todo"]
    /\ pending' = [pending EXCEPT ![i] = 0]
    /\ firstPass' = [firstPass EXCEPT ![i] = 0]
    /\ rejected' = [rejected EXCEPT ![i] = FALSE]
    /\ lessons' = {l \in lessons : l.item # i}
    /\ UNCHANGED <<disk, staff, upload, doomed, shared>>

\* The hourly sweep: files nobody names and that are a day old.
Orphans == files \ Referenced

\* Faults: no minimum age, or one photo short.
AnyOrphan     == Orphans
OldestOrphans == {p \in Orphans : p < aged}

Stale == {p \in Orphans : p <= aged}

SweepOrphans ==
    /\ LockFree
    /\ Stale # {}
    /\ doomed' = Stale
    /\ UNCHANGED <<disk, rows, staff, upload>>

\* The lock is kept until the last file is gone.
RemoveFiles ==
    /\ doomed # {}
    /\ doomed' = {}
    /\ files' = files \ doomed
    /\ UNCHANGED <<taken, aged, rows, staff, upload>>

---------------------------------------------------------------------------
\* A day goes by.  No request and no holder of the lock lasts that long.
DayPasses ==
    /\ LockFree
    /\ \A s \in Staff : staff[s].at # "stored"
    /\ \E p \in files : p > aged
    /\ aged' = taken
    /\ UNCHANGED <<taken, files, rows, staff, upload, doomed>>

\* The process dies: what it was about to do is forgotten.  Of the files it was
\* removing some are gone.
Crash ==
    /\ ~LockFree \/ \E s \in Staff : staff[s] # Idle
    /\ staff' = [s \in Staff |-> Idle]
    /\ upload' = NoUpload
    /\ doomed' = {}
    /\ \E gone \in SUBSET doomed : files' = files \ gone
    /\ UNCHANGED <<taken, aged, rows>>

StandardStep ==
    \/ \E i \in Items : AddItem(i) \/ ReplaceStandard(i) \/ EditMarkup(i)
    \/ InsertStandard
    \/ FailUpload

ShotStep ==
    \/ \E s \in Staff, i \in Items : TakeShot(s, i)
    \/ \E s \in Staff : RefuseShot(s)
    \/ \E s \in Staff, n \in ShotIds : CommitShot(s, n)

ReviewStep ==
    \E i \in Items : AcceptDaily(i) \/ UndoAcceptDaily(i) \/ RejectDaily(i) \/ MarkTeaching(i)

DeletionStep ==
    \/ \E i \in Items : DeleteItem(i) \/ \E gone \in SUBSET Versions : DropStandards(i, gone)
    \/ \E gone \in SUBSET ShotIds : DropShots(gone)
    \/ \E gone \in SUBSET lessons : DropLessons(gone)

FileStep == SweepOrphans \/ RemoveFiles \/ DayPasses \/ Crash

Next == StandardStep \/ ShotStep \/ ReviewStep \/ DeletionStep \/ FileStep

Spec == Init /\ [][Next]_vars

\* Whoever holds the write lock comes to an end, and so does a request with a
\* photo on disk: the lock is handed on in the order of arrival, so it is not
\* passed over for good.  The sweep comes back every hour and time goes by.
\* The process may die for ever, but not each time before it removes a file.
\* Nobody has to submit, review or delete anything.
FairSpec ==
    /\ Spec
    /\ SF_vars(SweepOrphans)
    /\ SF_vars(RemoveFiles /\ doomed \cap files # {})
    /\ WF_vars(InsertStandard \/ FailUpload \/ RemoveFiles)
    /\ SF_vars(DayPasses)
    /\ \A s \in Staff :
        SF_vars(RefuseShot(s) \/ \E n \in ShotIds : CommitShot(s, n))

---------------------------------------------------------------------------
\* Properties.

\* A row whose photo is missing from the disk shows a photo that a second row
\* had taken over: no order of uploads, retries, deletions, sweeps and crashes
\* loses a photo that belongs to one row only (work.py: file before row, row
\* and commit before the file goes).
LossNeedsSharing == Referenced \ files \subseteq shared

\* The board shows one "passed at once" for an item exactly when the item is
\* passed and was never rejected that day, through every order of undo,
\* rejection, new submission and deletion of records.
FirstPassHonest ==
    \A i \in Items :
        /\ firstPass[i] <= 1
        /\ firstPass[i] = 1 <=> (status[i] = "passed" /\ ~rejected[i])

\* A submission that is neither the pending one nor its employee's own keeps
\* its photo: nobody replaces a passed or rejected shot, nor a colleague's.
EvidenceKept ==
    [][\A n \in LiveShots :
          LET old_ == shots[n] new == shots'[n] IN
          new # NoShot /\ new # old_ =>
              /\ new.by = old_.by
              /\ status[old_.item] = "pending"
              /\ pending[old_.item] = n]_vars

\* Once people stop photographing, the disk comes to hold the photos that a row
\* names and no others: refused requests, replaced shots, deletions and crashes
\* leave nothing behind for good.
DiskSettles == <>[](files \subseteq Referenced)

=============================================================================
