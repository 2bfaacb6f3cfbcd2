---------------------------- MODULE Compilation ----------------------------
(***************************************************************************)
(* One blueprint of the Agent Library, from its source to the launch views   *)
(* of the jobs that run it: the library page, which replaces the directory,  *)
(* people who edit its files, submissions, which take a snapshot of it and   *)
(* compile and pin the projection, and the workers, which copy it.           *)
(*                                                                         *)
(* A tree stands for its digest.  The page saves under a lock of the         *)
(* blueprint and an artifact is built under a lock of its digest; a snapshot *)
(* is read without a lock, file after file, and so is an artifact.           *)
(***************************************************************************)
EXTENDS Naturals, FiniteSets

CONSTANTS
    Editors, Jobs, Nobody,
    NumFiles,              \* AGENTS.md and one file for every skill
    Contents, Broken,      \* Broken is a content that no inspection accepts
    NoTree, Missing, Damaged,
    Initial,               \* the tree at the start
    Attempts,              \* of a snapshot
    Budgets                \* bounds: what may still happen, of each kind

Files == 1 .. NumFiles
Trees == [Files -> Contents]
Scanners == Editors \cup Jobs

    \* inspect_blueprint accepts the tree
Valid(tree) == tree # NoTree /\ \A f \in Files : tree[f] # Broken

Kinds == {"saves", "submissions", "hands", "harms", "faults", "crashes"}

ASSUME CompilationAssumption ==
    /\ NumFiles \in Nat \ {0} /\ Attempts \in Nat \ {0}
    /\ Initial \in Trees /\ Valid(Initial)
    /\ NoTree \notin [Files -> Contents \cup {Missing, Damaged}]
    /\ Missing \notin Contents /\ Damaged \notin Contents
    /\ Nobody \notin Scanners /\ Editors \cap Jobs = {}
    /\ Budgets \subseteq [Kinds -> Nat]

VARIABLES
    root, lock,                   \* the blueprint's directory and the lock of its page
    shown, want, stage, backup,   \* per request of the page: the form, and its directories
    abandoned,                    \* trees in the backup directories of dead requests
    pc, at, tries, snap,          \* per reader: its snapshot
    touched,                      \* the files whose stamps differ from the first scan's
    entry, builder,               \* the cache, and the locks of its entries
    pins, pinsDir,                \* per digest, and whether the directory of its pins is there
    view,                         \* the launch views
    late,                         \* history: artifacts harmed after the job validated them
    handed, last,                 \* history: files edited by hand, the tree last moved away,
    unrestored,                   \* and whether a restoration has failed
    left                          \* of the budget

history == <<handed, last, unrestored>>
library == <<root, lock, shown, want, stage, backup, abandoned, history>>
reading == <<at, tries, snap, touched>>
cache == <<entry, builder>>
pinning == <<pins, pinsDir>>
launching == <<view, late>>
vars == <<library, pc, reading, cache, pinning, launching, left>>

EditorStates == {"idle", "first", "stat", "read", "scanned", "away", "in", "restore", "finish"}
JobStates == {"new", "first", "stat", "read", "scanned", "check", "compare", "lock", "locked",
              "build", "validate", "mkdir", "pin", "pinned", "queued", "copy", "running",
              "unpin", "rmdir", "dead", "ended"}

TypeOK ==
    /\ root \in Trees \cup {NoTree} /\ lock \in Editors \cup {Nobody}
    /\ shown \in [Editors -> Trees \cup {NoTree}] /\ want \in [Editors -> Files \X Contents]
    /\ stage \in [Editors -> Trees \cup {NoTree}] /\ backup \in [Editors -> Trees \cup {NoTree}]
    /\ abandoned \subseteq Trees
    /\ pc \in [Scanners -> EditorStates \cup JobStates]
    /\ at \in [Scanners -> 1 .. NumFiles] /\ tries \in [Scanners -> 0 .. Attempts]
    /\ snap \in [Scanners -> Trees] /\ touched \in [Scanners -> SUBSET Files]
    /\ entry \in [Trees -> [Files -> Contents \cup {Damaged}] \cup {NoTree}]
    /\ builder \in [Trees -> Jobs \cup {Nobody}]
    /\ pins \in [Trees -> SUBSET Jobs] /\ pinsDir \in [Trees -> BOOLEAN]
    /\ view \in [Jobs -> [Files -> Contents \cup {Missing, Damaged}]]
    /\ late \in [Jobs -> BOOLEAN]
    /\ handed \subseteq Files /\ last \in Trees \cup {NoTree}
    /\ unrestored \in BOOLEAN /\ left \in [Kinds -> Nat]

Init ==
    /\ root = Initial /\ lock = Nobody /\ abandoned = {} /\ handed = {} /\ last = Initial
    /\ shown = [e \in Editors |-> NoTree]
    /\ stage = [e \in Editors |-> NoTree] /\ backup = [e \in Editors |-> NoTree]
    /\ want = [e \in Editors |-> <<1, Initial[1]>>]
    /\ pc = [p \in Scanners |-> IF p \in Editors THEN "idle" ELSE "new"]
    /\ at = [p \in Scanners |-> 1] /\ tries = [p \in Scanners |-> 0]
    /\ snap = [p \in Scanners |-> Initial] /\ touched = [p \in Scanners |-> {}]
    /\ entry = [t \in Trees |-> NoTree] /\ builder = [t \in Trees |-> Nobody]
    /\ pins = [t \in Trees |-> {}] /\ pinsDir = [t \in Trees |-> FALSE]
    /\ view = [j \in Jobs |-> [f \in Files |-> Missing]] /\ late = [j \in Jobs |-> FALSE]
    /\ unrestored = FALSE /\ left \in Budgets

Goto(p, state) == pc' = [pc EXCEPT ![p] = state]
Spend(kind) == left[kind] > 0 /\ left' = [left EXCEPT ![kind] = @ - 1]

----------------------------------------------------------------------------
(* A snapshot: two scans, and another try when their inventories differ.  The  *)
(* stamps of the second are compared as they are read, and the files it reads  *)
(* are the snapshot.  A missing directory ends it.                             *)

Begin(p) == at' = [at EXCEPT ![p] = 1] /\ touched' = [touched EXCEPT ![p] = {}]

    \* whose first scan is over finds other stamps
Touched(files) ==
    touched' = [p \in Scanners |->
                  IF pc[p] \in {"stat", "read"} THEN touched[p] \cup files ELSE touched[p]]

    \* who scans gives up: the page lets go of its lock, a submission ends
Refuse(p) ==
    /\ Goto(p, IF p \in Editors THEN "idle" ELSE "ended")
    /\ lock' = IF p \in Editors THEN Nobody ELSE lock

FirstScan(p) ==
    /\ pc[p] = "first" /\ root # NoTree
    /\ Begin(p) /\ Goto(p, "stat")
    /\ UNCHANGED <<library, tries, snap, cache, pinning, launching, left>>

StatFile(p) ==
    /\ pc[p] = "stat" /\ root # NoTree /\ at[p] \notin touched[p]
    /\ Goto(p, "read")
    /\ UNCHANGED <<library, reading, cache, pinning, launching, left>>

Rescan(p) ==
    /\ pc[p] = "stat" /\ root # NoTree /\ at[p] \in touched[p] /\ tries[p] + 1 < Attempts
    /\ tries' = [tries EXCEPT ![p] = @ + 1]
    /\ Goto(p, "first")
    /\ UNCHANGED <<library, at, snap, touched, cache, pinning, launching, left>>

ReadFile(p) ==
    /\ pc[p] = "read" /\ root # NoTree
    /\ snap' = [snap EXCEPT ![p] = [@ EXCEPT ![at[p]] = root[at[p]]]]
    /\ IF at[p] < NumFiles
       THEN at' = [at EXCEPT ![p] = @ + 1] /\ Goto(p, "stat")
       ELSE at' = at /\ Goto(p, "scanned")
    /\ UNCHANGED <<library, tries, touched, cache, pinning, launching, left>>

    \* the tree has gone, or does not come to rest
ScanFails(p) ==
    /\ \/ pc[p] \in {"first", "stat", "read"} /\ root = NoTree
       \/ pc[p] = "stat" /\ at[p] \in touched[p] /\ tries[p] + 1 >= Attempts
    /\ Refuse(p)
    /\ UNCHANGED <<root, shown, want, stage, backup, abandoned, history, reading, cache,
                   pinning, launching, left>>

----------------------------------------------------------------------------
(* The page.                                                                *)

    \* the page, also after a refused save, carries the digest of what it shows
Show(e) ==
    /\ pc[e] = "idle" /\ Valid(root)
    /\ shown' = [shown EXCEPT ![e] = root]
    /\ UNCHANGED <<root, lock, want, stage, backup, abandoned, history, pc, reading, cache,
                   pinning, launching, left>>

Save(e, f, c) ==
    /\ pc[e] = "idle" /\ shown[e] # NoTree /\ lock = Nobody /\ Spend("saves")
    /\ lock' = e
    /\ want' = [want EXCEPT ![e] = <<f, c>>]
    /\ tries' = [tries EXCEPT ![e] = 0]
    /\ Goto(e, "first")
    /\ UNCHANGED <<root, shown, stage, backup, abandoned, history, at, snap, touched, cache,
                   pinning, launching>>

Edited(e) == [snap[e] EXCEPT ![want[e][1]] = want[e][2]]

    \* Mutant: the digest of the form is not compared.
PublishableAnyway(e) ==
    Valid(snap[e]) /\ Valid(root) /\ Valid(Edited(e))

    \* the snapshot is what the page showed, and both it and the stage pass inspection
Publishable(e) ==
    /\ Valid(snap[e]) /\ snap[e] = shown[e] /\ Valid(root) /\ Valid(Edited(e))

Stage(e) ==
    /\ pc[e] = "scanned" /\ Publishable(e)
    /\ stage' = [stage EXCEPT ![e] = Edited(e)]
    /\ Goto(e, "away")
    /\ UNCHANGED <<root, lock, shown, want, backup, abandoned, history, reading, cache,
                   pinning, launching, left>>

RefuseSave(e) ==
    /\ pc[e] = "scanned" /\ ~Publishable(e)
    /\ Refuse(e)
    /\ UNCHANGED <<root, shown, want, stage, backup, abandoned, history, reading, cache,
                   pinning, launching, left>>

MoveAway(e) ==
    /\ pc[e] = "away"
    /\ backup' = [backup EXCEPT ![e] = root]
    /\ root' = NoTree
    /\ last' = root
    /\ Goto(e, "in")
    /\ UNCHANGED <<lock, shown, want, stage, abandoned, handed, unrestored, reading, cache, pinning,
                   launching, left>>

    \* every file of the stage is new
MoveIn(e) ==
    /\ pc[e] = "in"
    /\ root' = stage[e]
    /\ stage' = [stage EXCEPT ![e] = NoTree]
    /\ Touched(Files)
    /\ Goto(e, "finish")
    /\ UNCHANGED <<lock, shown, want, backup, abandoned, history, at, tries, snap, cache,
                   pinning, launching, left>>

    \* Mutant: the backup is not put back.
FaultUnrestored(e) ==
    /\ pc[e] \in {"away", "in"} /\ Spend("faults")
    /\ Goto(e, "finish")
    /\ UNCHANGED <<library, reading, cache, pinning, launching>>

    \* os.replace raises: before the directory has gone there is nothing to restore, and
    \* the restoration itself may fail
Fault(e) ==
    /\ pc[e] \in {"away", "in", "restore"} /\ Spend("faults")
    /\ Goto(e, IF pc[e] = "in" THEN "restore" ELSE "finish")
    /\ unrestored' = (unrestored \/ pc[e] = "restore")
    /\ UNCHANGED <<root, lock, shown, want, stage, backup, abandoned, handed, last, reading, cache, pinning, launching>>

Restore(e) ==
    /\ pc[e] = "restore"
    /\ root' = backup[e]
    /\ backup' = [backup EXCEPT ![e] = NoTree]
    /\ Goto(e, "finish")
    /\ UNCHANGED <<lock, shown, want, stage, abandoned, history, reading, cache, pinning,
                   launching, left>>

    \* the stage and the backup are removed whatever happened
Finish(e) ==
    /\ pc[e] = "finish"
    /\ stage' = [stage EXCEPT ![e] = NoTree] /\ backup' = [backup EXCEPT ![e] = NoTree]
    /\ lock' = Nobody
    /\ Goto(e, "idle")
    /\ UNCHANGED <<root, shown, want, abandoned, history, reading, cache, pinning,
                   launching, left>>

    \* the server dies under the request; nothing looks at what it leaves behind
Crash(e) ==
    /\ lock = e /\ Spend("crashes")
    /\ abandoned' = abandoned \cup ({backup[e]} \ {NoTree})
    /\ stage' = [stage EXCEPT ![e] = NoTree] /\ backup' = [backup EXCEPT ![e] = NoTree]
    /\ shown' = [shown EXCEPT ![e] = NoTree]
    /\ lock' = Nobody
    /\ Goto(e, "idle")
    /\ UNCHANGED <<root, want, history, reading, cache, pinning, launching>>

    \* somebody edits a file in the directory
HandEdit(f, c) ==
    /\ root # NoTree /\ root[f] # c /\ Spend("hands")
    /\ root' = [root EXCEPT ![f] = c]
    /\ Touched({f})
    /\ handed' = handed \cup {f}
    /\ UNCHANGED <<lock, shown, want, stage, backup, abandoned, last, unrestored, pc, at, tries, snap, cache,
                   pinning, launching>>

----------------------------------------------------------------------------
(* A submission: inspect, compile, pin, record and launch.                    *)

Submit(j) ==
    /\ pc[j] = "new" /\ Spend("submissions")
    /\ Goto(j, "first")
    /\ UNCHANGED <<library, reading, cache, pinning, launching>>

Inspect(j) ==
    /\ pc[j] = "scanned"
    /\ Goto(j, IF Valid(snap[j]) THEN "check" ELSE "ended")
    /\ UNCHANGED <<library, reading, cache, pinning, launching, left>>

    \* Mutant: an artifact that is there is taken for intact.
Present(j) == entry[snap[j]] # NoTree

    \* the projection of the snapshot, whole: no file missing, none besides
Intact(j) == entry[snap[j]] = snap[j]

    \* validate_artifact, before any lock: first whether there is an artifact ...
Check(j) ==
    /\ pc[j] = "check"
    /\ Goto(j, IF entry[snap[j]] = NoTree THEN "lock" ELSE "compare")
    /\ UNCHANGED <<library, reading, cache, pinning, launching, left>>

    \* ... then its files; one moved away meanwhile is invalid, or an unexpected error
Compare(j) ==
    /\ pc[j] = "compare"
    /\ \/ Intact(j) /\ Goto(j, "mkdir")
       \/ ~Intact(j) /\ Goto(j, "lock")
       \/ entry[snap[j]] = NoTree /\ Goto(j, "ended")
    /\ UNCHANGED <<library, reading, cache, pinning, launching, left>>

Lock(j) ==
    /\ pc[j] = "lock" /\ builder[snap[j]] = Nobody
    /\ builder' = [builder EXCEPT ![snap[j]] = j]
    /\ Goto(j, "locked")
    /\ UNCHANGED <<library, reading, entry, pinning, launching, left>>

Unlocked(j) == builder' = [builder EXCEPT ![snap[j]] = Nobody]

    \* another submission has built it
Revalidate(j) ==
    /\ pc[j] = "locked" /\ Intact(j)
    /\ Unlocked(j)
    /\ Goto(j, "mkdir")
    /\ UNCHANGED <<library, reading, entry, pinning, launching, left>>

    \* what is there and not intact is moved to quarantine
Quarantine(j) ==
    /\ pc[j] = "locked" /\ ~Intact(j)
    /\ entry' = [entry EXCEPT ![snap[j]] = NoTree]
    /\ Goto(j, "build")
    /\ UNCHANGED <<library, reading, builder, pinning, launching, left>>

    \* projected and validated in a directory of its own, then moved into place
Build(j) ==
    /\ pc[j] = "build"
    /\ entry' = [entry EXCEPT ![snap[j]] = snap[j]]
    /\ Unlocked(j)
    /\ Goto(j, "validate")
    /\ UNCHANGED <<library, reading, pinning, launching, left>>

BuildFails(j) ==
    /\ pc[j] = "build" /\ Spend("faults")
    /\ Unlocked(j)
    /\ Goto(j, "ended")
    /\ UNCHANGED <<library, reading, entry, pinning, launching>>

Validate(j) ==
    /\ pc[j] = "validate"
    /\ Goto(j, IF Intact(j) THEN "mkdir" ELSE "ended")
    /\ UNCHANGED <<library, reading, cache, pinning, launching, left>>

    \* the pin is a file, written by atomic_write: its directory ...
MakePinsDir(j) ==
    /\ pc[j] = "mkdir"
    /\ pinsDir' = [pinsDir EXCEPT ![snap[j]] = TRUE]
    /\ Goto(j, "pin")
    /\ UNCHANGED <<library, reading, cache, pins, launching, left>>

    \* ... then the file in it, when the directory is still there
Pin(j) ==
    /\ pc[j] = "pin"
    /\ IF pinsDir[snap[j]]
       THEN pins' = [pins EXCEPT ![snap[j]] = @ \cup {j}] /\ Goto(j, "pinned")
       ELSE pins' = pins /\ Goto(j, "ended")
    /\ UNCHANGED <<library, reading, cache, pinsDir, launching, left>>

Launch(j) ==
    /\ pc[j] = "pinned"
    /\ Goto(j, "queued")
    /\ UNCHANGED <<library, reading, cache, pinning, launching, left>>

LaunchFails(j) ==
    /\ pc[j] = "pinned" /\ Spend("faults")
    /\ Goto(j, "unpin")
    /\ UNCHANGED <<library, reading, cache, pinning, launching>>

----------------------------------------------------------------------------
(* The worker, and the pass that follows the death of one.                    *)

CancelWaiting(j) ==
    /\ pc[j] = "queued"
    /\ Goto(j, "unpin")
    /\ UNCHANGED <<library, reading, cache, pinning, launching, left>>

    \* an empty launch directory
StartView(j) ==
    /\ pc[j] = "queued"
    /\ view' = [view EXCEPT ![j] = [f \in Files |-> Missing]]
    /\ at' = [at EXCEPT ![j] = 1]
    /\ Goto(j, "copy")
    /\ UNCHANGED <<library, tries, snap, touched, cache, pinning, late, left>>

Copied(j) ==
    IF at[j] < NumFiles THEN at' = [at EXCEPT ![j] = @ + 1] /\ pc' = pc
                        ELSE at' = at /\ Goto(j, "running")

    \* every file is in a directory of its own: os.walk passes over a directory that has gone
CopyFile(j) ==
    /\ pc[j] = "copy"
    /\ view' = [view EXCEPT ![j][at[j]] =
                   IF entry[snap[j]] = NoTree THEN Missing ELSE entry[snap[j]][at[j]]]
    /\ Copied(j)
    /\ UNCHANGED <<library, tries, snap, touched, cache, pinning, late, left>>

    \* the directory goes after it was listed
CopyFails(j) ==
    /\ pc[j] = "copy" /\ entry[snap[j]] = NoTree
    /\ Goto(j, "unpin")
    /\ UNCHANGED <<library, reading, cache, pinning, launching, left>>

End(j) ==
    /\ pc[j] = "running"
    /\ Goto(j, "unpin")
    /\ UNCHANGED <<library, reading, cache, pinning, launching, left>>

    \* release_pin: the file, when it is there, and the directory, when it is empty
Unpin(j) ==
    /\ pc[j] = "unpin"
    /\ pins' = [pins EXCEPT ![snap[j]] = @ \ {j}]
    /\ Goto(j, IF j \in pins[snap[j]] THEN "rmdir" ELSE "ended")
    /\ UNCHANGED <<library, reading, cache, pinsDir, launching, left>>

    \* Mutant: the directory goes with whatever is in it.
RemovePinsTree(j) ==
    /\ pc[j] = "rmdir"
    /\ pinsDir' = [pinsDir EXCEPT ![snap[j]] = FALSE]
    /\ pins' = [pins EXCEPT ![snap[j]] = {}]
    /\ Goto(j, "ended")
    /\ UNCHANGED <<library, reading, cache, launching, left>>

RemovePinsDir(j) ==
    /\ pc[j] = "rmdir"
    /\ pinsDir' = [pinsDir EXCEPT ![snap[j]] = @ /\ pins[snap[j]] # {}]
    /\ pins' = pins
    /\ Goto(j, "ended")
    /\ UNCHANGED <<library, reading, cache, launching, left>>

    \* the startup pass ends the job of a worker that died, and releases its pin; what is left
    \* of the release of an ended job is the matter of JobLifecycle
Active == {"queued", "copy", "running"}

Die(j) ==
    /\ pc[j] \notin {"new", "dead", "ended"} /\ Spend("crashes")
    /\ builder' = [t \in Trees |-> IF builder[t] = j THEN Nobody ELSE builder[t]]
    /\ Goto(j, IF pc[j] \in Active THEN "dead" ELSE "ended")
    /\ UNCHANGED <<library, reading, entry, pinning, launching>>

Reconcile(j) ==
    /\ pc[j] = "dead"
    /\ Goto(j, "unpin")
    /\ UNCHANGED <<library, reading, cache, pinning, launching, left>>

    \* the states of a job that has found its artifact intact
Validated == {"mkdir", "pin", "pinned", "queued", "copy", "running"}

Harm(t) ==
    /\ Spend("harms")
    /\ late' = [j \in Jobs |-> late[j] \/ (pc[j] \in Validated /\ snap[j] = t)]

    \* a file of an artifact is overwritten, or lost in a power failure
Damage(t, f) ==
    /\ entry[t] # NoTree
    /\ entry' = [entry EXCEPT ![t] = [@ EXCEPT ![f] = Damaged]]
    /\ Harm(t)
    /\ UNCHANGED <<library, pc, reading, builder, pinning, view>>

    \* compiled output is disposable: somebody removes it
Discard(t) ==
    /\ entry[t] # NoTree
    /\ entry' = [entry EXCEPT ![t] = NoTree]
    /\ Harm(t)
    /\ UNCHANGED <<library, pc, reading, builder, pinning, view>>

----------------------------------------------------------------------------
Scan(p) == FirstScan(p) \/ StatFile(p) \/ Rescan(p) \/ ReadFile(p) \/ ScanFails(p)

Page(e) ==
    \/ Show(e) \/ (\E f \in Files, c \in Contents : Save(e, f, c))
    \/ Stage(e) \/ RefuseSave(e) \/ MoveAway(e) \/ MoveIn(e) \/ Fault(e) \/ Restore(e)
    \/ Finish(e) \/ Crash(e)

Submission(j) ==
    \/ Submit(j) \/ Inspect(j) \/ Check(j) \/ Compare(j) \/ Lock(j) \/ Revalidate(j)
    \/ Quarantine(j) \/ Build(j) \/ BuildFails(j) \/ Validate(j) \/ MakePinsDir(j) \/ Pin(j)
    \/ Launch(j) \/ LaunchFails(j)

Worker(j) ==
    \/ CancelWaiting(j) \/ StartView(j) \/ CopyFile(j) \/ CopyFails(j) \/ End(j)
    \/ Unpin(j) \/ RemovePinsDir(j) \/ Die(j) \/ Reconcile(j)

Next ==
    \/ \E p \in Scanners : Scan(p)
    \/ \E e \in Editors : Page(e)
    \/ \E j \in Jobs : Submission(j) \/ Worker(j)
    \/ \E f \in Files, c \in Contents : HandEdit(f, c)
    \/ \E t \in Trees : Discard(t) \/ (\E f \in Files : Damage(t, f))

Spec == Init /\ [][Next]_vars

----------------------------------------------------------------------------
(* What the library, the cache and the pins promise.                         *)

(* A save of the page replaces only what its user saw: the directory moved    *)
(* away is the one the form showed, and of that only the saved file changes.  *)
(* (Files edited by hand are left out: such an edit is lost when it falls     *)
(* between the comparison of the digests and the move.)                       *)
SavesBuildOnEachOther ==
    [][\A e \in Editors : pc[e] = "in" /\ root' # root =>
          \A f \in Files \ handed :
             /\ backup[e][f] = shown[e][f]
             /\ f # want[e][1] => root'[f] = backup[e][f]]_vars

(* While the blueprint's directory is away, the tree that was there is in a    *)
(* backup, of a request under way or of a dead one, unless its restoration    *)
(* failed too: one failure, or a crash at any moment, loses nothing.          *)
LibraryKept ==
    root = NoTree /\ ~unrestored => last \in abandoned \cup {backup[e] : e \in Editors}

(* A job that runs was given the tree its digest names, every file of it,      *)
(* unless its artifact was harmed after the job found it intact: nothing that  *)
(* other submissions do to the artifact in the meantime reaches the job.       *)
LaunchMatchesDigest ==
    \A j \in Jobs : pc[j] = "running" /\ ~late[j] => view[j] = snap[j]

(* A job holds its pin from before it is recorded until it has ended, however  *)
(* the pins of others come and go in the same directory.                      *)
PinsHeld ==
    \A j \in Jobs : pc[j] \in {"pinned", "queued", "copy", "running", "dead"} =>
        j \in pins[snap[j]]
=============================================================================
