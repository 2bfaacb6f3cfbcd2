-------------------------- MODULE MemoryPublication --------------------------
(***************************************************************************)
(* One canonical memory directory, the transactions that replace it and    *)
(* the startup recovery that cleans up after them.                          *)
(*                                                                         *)
(*   memory/store.py        lock, ensure, stage, try_update, file-by-file   *)
(*                          replacement with in-process rollback            *)
(*   memory/publication.py  journal, backup, publish, roll back, finalize   *)
(*   memory/recovery.py     what a journal found at startup is resolved to  *)
(*   jobs/execution.py      a worker's use of the above                     *)
(*   jobs/reconciliation.py the startup pass over the job records           *)
(*                                                                         *)
(* An operation is a job (run by a worker process of its own) or a direct   *)
(* save (`memory save`, the content form of a page).  At most one process   *)
(* holds the memory lock; what it keeps in its own memory (pc, old, new,    *)
(* evac...) is one set of variables, lost when it dies, and so is the lock. *)
(* The directories, the journals and the job records survive.              *)
(***************************************************************************)
EXTENDS Naturals, FiniteSets, MemoryContents

CONSTANTS
    Jobs,        \* jobs bound to this memory, with a worker waiting for it
    Saves,       \* direct saves
    NoDir,       \* a directory that does not exist
    Nobody,      \* the holder of a free lock
    Server,      \* the holder while the starting server recovers a journal
    Initial,     \* the content of the memory to begin with
    Results,     \* contents an agent may leave in its stage
    MaxCrashes,  \* bound on process deaths
    MaxFaults    \* bound on failing file operations

Ops == Jobs \cup Saves

ASSUME ActorsAssumption ==
    /\ Jobs \cap Saves = {}
    /\ Nobody \notin Ops
    /\ Server \notin Ops
    /\ Nobody # Server

ASSUME ResultsAssumption ==
    /\ NoDir \notin Content
    /\ Initial \in Content
    /\ Results \subseteq Content \ {Empty}

ASSUME BoundsAssumption ==
    /\ MaxCrashes \in Nat
    /\ MaxFaults \in Nat

VARIABLES
    \* durable
    canonical,  \* content of <store>/<hash>, whatever wrote it
    stage,      \* content of .staging/<hash>/<operation>, or NoDir
    backup,     \* content of .publication-backups/<hash>/<operation>, or NoDir
    journal,    \* .journals/<hash>/<operation>.yaml
    status,     \* status of a job's record
    receipt,    \* new_revision of the publication a job's record names, or NoDir
    \* the process that holds the memory lock
    holder,     \* an operation, Server or Nobody
    op,         \* the operation whose transaction the holder works on
    pc,         \* the holder's next step
    mode,       \* whether it replaces the files to publish or to roll back
    old, new,   \* contents before and after, as read into the transaction
    evac,       \* files moved to the private directory of the replacement
    \* other processes
    alive,      \* whether a job's worker process lives
    seen,       \* the revision the user of a direct save last looked at
    reply,      \* what that user was told
    srv,        \* phase of the server process
    todo,       \* journals, then job records, the startup pass has yet to visit
    blocked,    \* jobs that recovery has set aside for the operator
    \* history and bounds
    history,    \* contents that some completed publication put in place
    crashes, faults

disk    == <<canonical, stage, backup, journal>>
records == <<status, receipt>>
txn     == <<op, mode, old, new, evac>>
clients == <<seen, reply>>
server  == <<srv, todo, blocked>>
bounds  == <<crashes, faults>>
vars    == <<disk, records, holder, pc, txn, alive, clients, server, history, bounds>>

Phases == {"none", "prepared", "backed_up", "published"}
NoJournal == [phase |-> "none", old |-> Empty, new |-> Empty]

Terminal == {"complete", "failed"}
Running == {"waiting_for_memory", "running"}

TypeOK ==
    /\ canonical \in Content
    /\ stage \in [Ops -> Content \cup {NoDir}]
    /\ backup \in [Ops -> Content \cup {NoDir}]
    /\ journal \in [Ops -> [phase : Phases, old : Content, new : Content]]
    /\ status \in [Jobs -> Running \cup Terminal]
    /\ receipt \in [Jobs -> Content \cup {NoDir}]
    /\ holder \in Ops \cup {Nobody, Server}
    /\ op \in Ops \cup {Nobody}
    /\ pc \in {"idle", "run", "begin", "prepared", "backup", "evacuate", "install",
               "installed", "published", "rolled_back", "rm_journal", "rm_backup", "rm_stage"}
    /\ mode \in {"publish", "restore"}
    /\ old \in Content /\ new \in Content /\ evac \in Content
    /\ alive \in [Jobs -> BOOLEAN]
    /\ seen \in [Saves -> Content \cup {NoDir}]
    /\ reply \in [Saves -> {"none", "looking", "saving", "saved", "conflict", "error",
                         "raised", "lost"}]
    /\ srv \in {"down", "recovering", "reconciling", "serving"}
    /\ todo \subseteq Ops /\ blocked \subseteq Jobs
    /\ history \subseteq Content
    /\ crashes \in Nat /\ faults \in Nat

Init ==
    /\ canonical = Initial
    /\ stage = [o \in Ops |-> NoDir]
    /\ backup = [o \in Ops |-> NoDir]
    /\ journal = [o \in Ops |-> NoJournal]
    /\ status = [j \in Jobs |-> "waiting_for_memory"]
    /\ receipt = [j \in Jobs |-> NoDir]
    /\ holder = Nobody /\ op = Nobody /\ pc = "idle" /\ mode = "publish"
    /\ old = Empty /\ new = Empty /\ evac = Empty
    /\ alive = [j \in Jobs |-> TRUE]
    /\ seen = [s \in Saves |-> NoDir]
    /\ reply = [s \in Saves |-> "none"]
    /\ srv = "serving" /\ todo = {} /\ blocked = {}
    /\ history = {Initial}
    /\ crashes = 0 /\ faults = 0

----------------------------------------------------------------------------
(* The lock and the transaction variables of its holder.                   *)

\* p takes the memory lock to work on operation o, starting at step l.
Take(p, o, l) ==
    /\ holder = Nobody
    /\ holder' = p /\ op' = o /\ pc' = l

\* The process lets go of the lock (or dies): its variables are gone.
LetGo ==
    /\ holder' = Nobody /\ op' = Nobody /\ pc' = "idle" /\ mode' = "publish"
    /\ old' = Empty /\ new' = Empty /\ evac' = Empty

SetPhase(p) == journal' = [journal EXCEPT ![op] = [phase |-> p, old |-> old, new |-> new]]

\* transition_job(running -> s), for the operations that have a record.
SetStatus(s) == status' = IF op \in Jobs THEN [status EXCEPT ![op] = s] ELSE status

----------------------------------------------------------------------------
(* A job's worker.                                                         *)

\* The lock is won: the memory is ensured, copied into the job's stage, and the
\* record goes to running.
StartJob(j) ==
    /\ alive[j] /\ status[j] = "waiting_for_memory"
    /\ Take(j, j, "run")
    /\ LET base == Ensured(canonical) IN
         /\ canonical' = base
         /\ stage' = [stage EXCEPT ![j] = base]
         /\ old' = base
         /\ history' = IF canonical \in history THEN history \cup {base} ELSE history
    /\ status' = [status EXCEPT ![j] = "running"]
    /\ UNCHANGED <<backup, journal, receipt, mode, new, evac, alive, clients, server, bounds>>

\* The agent exits with a code other than 0, runs into its timeout (124), or leaves
\* no file: the record fails, the memory and the stage stay as they are.
FailRun(j) ==
    /\ holder = j /\ pc = "run"
    /\ LetGo
    /\ status' = [status EXCEPT ![j] = "failed"]
    /\ UNCHANGED <<disk, receipt, alive, clients, server, history, bounds>>

\* The agent exits with 0 and prepare_publication reads what it left in the stage.
\* canonical = old is the base-revision check (BaseIsCurrent says it never refuses).
FinishRun(j) ==
    /\ holder = j /\ pc = "run" /\ canonical = old
    /\ \E c \in Results \cup {old} :
         /\ stage' = [stage EXCEPT ![j] = c]
         /\ new' = c
    /\ pc' = "begin"
    /\ UNCHANGED <<canonical, backup, journal, records, holder, op, mode, old, evac,
                   alive, clients, server, history, bounds>>

----------------------------------------------------------------------------
(* A direct save.                                                          *)

\* `memory show`, or the page with the form: a revision read under the lock.
Show(s) ==
    /\ holder = Nobody /\ reply[s] \in {"none", "looking"} /\ seen[s] # canonical
    /\ seen' = [seen EXCEPT ![s] = canonical]
    /\ reply' = [reply EXCEPT ![s] = "looking"]
    /\ UNCHANGED <<disk, records, holder, pc, txn, alive, server, history, bounds>>

\* try_update_memory finds another revision than the user's.
RefuseSave(s) ==
    /\ holder = Nobody /\ reply[s] = "looking" /\ seen[s] # Ensured(canonical)
    /\ canonical' = Ensured(canonical)
    /\ history' = IF canonical \in history THEN history \cup {canonical'} ELSE history
    /\ reply' = [reply EXCEPT ![s] = "conflict"]
    /\ UNCHANGED <<stage, backup, journal, records, holder, pc, txn, alive, seen, server, bounds>>

\* Mutant: the save is based on what the user saw, whatever the memory holds now.
BeginSaveBlind(s) ==
    /\ reply[s] = "looking" /\ seen[s] # Empty
    /\ Take(s, s, "begin")
    /\ canonical' = Ensured(canonical)
    /\ history' = IF canonical \in history THEN history \cup {canonical'} ELSE history
    /\ old' = seen[s]
    /\ \E f \in Files, d \in Data :
         /\ new' = [seen[s] EXCEPT ![f] = d]
         /\ stage' = [stage EXCEPT ![s] = [seen[s] EXCEPT ![f] = d]]
    /\ reply' = [reply EXCEPT ![s] = "saving"]
    /\ UNCHANGED <<backup, journal, records, mode, evac, alive, seen, server, bounds>>

\* The lock is free (a busy one refuses the save at once) and the revision is the
\* user's: one file gets the user's text, the result is staged.
BeginSave(s) ==
    /\ reply[s] = "looking" /\ seen[s] = Ensured(canonical)
    /\ Take(s, s, "begin")
    /\ LET base == Ensured(canonical) IN
         /\ canonical' = base
         /\ history' = IF canonical \in history THEN history \cup {base} ELSE history
         /\ old' = base
         /\ \E f \in Files, d \in Data :
              /\ new' = [base EXCEPT ![f] = d]
              /\ stage' = [stage EXCEPT ![s] = [base EXCEPT ![f] = d]]
    /\ reply' = [reply EXCEPT ![s] = "saving"]
    /\ UNCHANGED <<backup, journal, records, mode, evac, alive, seen, server, bounds>>

----------------------------------------------------------------------------
(* _run_transaction_locked, by the operation that holds the lock.           *)

\* The holder is an operation of its own, not the recovering server.
Working == holder \in Ops

\* The journal is written for the first time.
WriteJournal ==
    /\ Working /\ pc = "begin" /\ canonical = old
    /\ SetPhase("prepared")
    /\ pc' = "prepared"
    /\ UNCHANGED <<canonical, stage, backup, records, holder, txn, alive, clients, server,
                   history, bounds>>

\* A publication that changes nothing goes straight to published.
PublishUnchanged ==
    /\ Working /\ pc = "prepared" /\ new = old
    /\ SetPhase("published")
    /\ pc' = "published"
    /\ history' = history \cup {canonical}
    /\ UNCHANGED <<canonical, stage, backup, records, holder, txn, alive, clients, server, bounds>>

\* _write_backup makes the directory...
MakeBackup ==
    /\ Working /\ pc = "prepared" /\ new # old
    /\ backup' = [backup EXCEPT ![op] = Empty]
    /\ pc' = "backup"
    /\ UNCHANGED <<canonical, stage, journal, records, holder, txn, alive, clients, server,
                   history, bounds>>

\* ...and writes the old files into it one by one.
BackupFile ==
    /\ Working /\ pc = "backup"
    /\ \E f \in Present(old) \ Present(backup[op]) :
         backup' = [backup EXCEPT ![op] = Overlay(@, old, {f})]
    /\ UNCHANGED <<canonical, stage, journal, records, holder, pc, txn, alive, clients, server,
                   history, bounds>>

\* Mutant: the journal says backed_up before the files are in the backup.
MarkBackedUpEarly ==
    /\ Working /\ pc = "backup"
    /\ SetPhase("backed_up")
    /\ pc' = "evacuate"
    /\ UNCHANGED <<canonical, stage, backup, records, holder, txn, alive, clients, server,
                   history, bounds>>

\* The backup is complete: the journal says so, and only then the memory is touched.
MarkBackedUp ==
    /\ Working /\ pc = "backup" /\ backup[op] = old
    /\ SetPhase("backed_up")
    /\ pc' = "evacuate"
    /\ UNCHANGED <<canonical, stage, backup, records, holder, txn, alive, clients, server,
                   history, bounds>>

----------------------------------------------------------------------------
(* _replace_canonical_files: to publish the new files or to put the old     *)
(* ones back, the files there are moved out one by one, then the wanted     *)
(* ones are moved in one by one.                                            *)

\* Mutant: a rollback installs the new files again.
TargetAlwaysNew == new

Target == IF mode = "publish" THEN new ELSE old

Evacuate ==
    /\ Working /\ pc = "evacuate"
    /\ \E f \in Present(canonical) :
         /\ canonical' = [canonical EXCEPT ![f] = Absent]
         /\ evac' = [evac EXCEPT ![f] = canonical[f]]
    /\ UNCHANGED <<stage, backup, journal, records, holder, op, pc, mode, old, new, alive,
                   clients, server, history, bounds>>

BeginInstall ==
    /\ Working /\ pc = "evacuate" /\ canonical = Empty
    /\ pc' = "install"
    /\ UNCHANGED <<disk, records, holder, txn, alive, clients, server, history, bounds>>

Install ==
    /\ Working /\ pc = "install"
    /\ \E f \in Present(Target) \ Present(canonical) :
         canonical' = [canonical EXCEPT ![f] = Target[f]]
    /\ UNCHANGED <<stage, backup, journal, records, holder, pc, txn, alive, clients, server,
                   history, bounds>>

\* All files are in and the private directory of the moved ones is removed.
EndReplace ==
    /\ Working /\ pc = "install" /\ canonical = Target
    /\ evac' = Empty
    /\ pc' = IF mode = "publish" THEN "installed" ELSE "rolled_back"
    /\ history' = IF mode = "publish" THEN history \cup {canonical} ELSE history
    /\ UNCHANGED <<disk, records, holder, op, mode, old, new, alive, clients, server, bounds>>

MarkPublished ==
    /\ Working /\ pc = "installed"
    /\ SetPhase("published")
    /\ pc' = "published"
    /\ UNCHANGED <<canonical, stage, backup, records, holder, txn, alive, clients, server,
                   history, bounds>>

----------------------------------------------------------------------------
(* The end of a transaction.                                               *)

\* finalize_publication marks the job complete; a direct save has no record.
Finalize ==
    /\ Working /\ pc = "published"
    /\ SetStatus("complete")
    /\ receipt' = IF op \in Jobs THEN [receipt EXCEPT ![op] = new] ELSE receipt
    /\ pc' = "rm_journal"
    /\ UNCHANGED <<disk, holder, txn, alive, clients, server, history, bounds>>

\* _rollback_failed_transaction marks the job failed once the old files are back.
RolledBack ==
    /\ Working /\ pc = "rolled_back"
    /\ SetStatus("failed")
    /\ pc' = "rm_journal"
    /\ UNCHANGED <<disk, receipt, holder, txn, alive, clients, server, history, bounds>>

\* _cleanup_paths, by whoever finished the operation: first the journal...
RemoveJournal ==
    /\ pc = "rm_journal"
    /\ journal' = [journal EXCEPT ![op] = NoJournal]
    /\ pc' = "rm_backup"
    /\ UNCHANGED <<canonical, stage, backup, records, holder, txn, alive, clients, server,
                   history, bounds>>

\* ...then the backup...
RemoveBackup ==
    /\ pc = "rm_backup"
    /\ backup' = [backup EXCEPT ![op] = NoDir]
    /\ pc' = "rm_stage"
    /\ UNCHANGED <<canonical, stage, journal, records, holder, txn, alive, clients, server,
                   history, bounds>>

\* ...then the stage; the lock is released and a saving user gets the answer.
RemoveStage ==
    /\ pc = "rm_stage"
    /\ stage' = [stage EXCEPT ![op] = NoDir]
    /\ LetGo
    /\ reply' = IF holder \in Saves
                THEN [reply EXCEPT ![op] = IF mode = "publish" THEN "saved" ELSE "error"]
                ELSE reply
    /\ UNCHANGED <<canonical, backup, journal, records, alive, seen, server, history, bounds>>

----------------------------------------------------------------------------
(* Failing file operations in a live process.                              *)

\* What _rollback_canonical_replace can leave: the installed files are unlinked, then
\* the moved ones put back. It ends with everything back, or fails on the way.
Undone == IF pc = "evacuate" THEN Overlay(canonical, evac, Present(evac)) ELSE evac
HalfUndone ==
    IF pc = "evacuate"
    THEN {Overlay(canonical, evac, S) : S \in SUBSET Present(evac) \ {Present(evac)}}
    ELSE {Only(canonical, S) : S \in SUBSET Present(canonical)}
         \cup {Only(evac, S) : S \in SUBSET Present(evac) \ {Present(evac)}}

\* Inside a replacement the failure undoes it; a failure to undo is a second fault.
UndoReplace ==
    IF pc \in {"evacuate", "install"}
    THEN \/ canonical' = Undone /\ faults' = faults + 1
         \/ canonical' \in HalfUndone /\ faults' = faults + 2
    ELSE canonical' = canonical /\ faults' = faults + 1

\* Mutant: the failure is recorded without putting the old files back.
PublishFaultNoRollback ==
    /\ Working /\ mode = "publish"
    /\ pc \in {"begin", "prepared", "backup", "evacuate", "install", "installed"}
    /\ faults < MaxFaults /\ faults' = faults + 1
    /\ pc' = "rolled_back" /\ mode' = "restore" /\ evac' = Empty
    /\ UNCHANGED <<disk, records, holder, op, old, new, alive, clients, server, history, crashes>>

\* An exception before the transaction is published: the old files are put back over
\* whatever is there, even when nothing was touched yet.
PublishFault ==
    /\ Working /\ mode = "publish"
    /\ pc \in {"begin", "prepared", "backup", "evacuate", "install", "installed"}
    /\ faults < MaxFaults /\ UndoReplace /\ faults' <= MaxFaults
    /\ pc' = "evacuate" /\ mode' = "restore" /\ evac' = Empty
    /\ UNCHANGED <<stage, backup, journal, records, holder, op, old, new, alive, clients,
                   server, history, crashes>>

\* A saving user gets the exception itself, not the MemoryPublicationError that says the
\* save was rolled back ("error"); a worker answers nobody.
Fail == reply' = IF op \in Saves THEN [reply EXCEPT ![op] = "raised"] ELSE reply

\* An exception while the old files are put back leaves the journal and the directories
\* to recovery; _terminalize_failure fails the job.
RestoreFault ==
    /\ Working /\ mode = "restore" /\ pc \in {"evacuate", "install"}
    /\ faults < MaxFaults /\ UndoReplace /\ faults' <= MaxFaults
    /\ SetStatus("failed")
    /\ Fail /\ LetGo
    /\ UNCHANGED <<stage, backup, journal, receipt, alive, seen, server, history, crashes>>

\* The write of the job's record fails in _mark_complete or _mark_failed and succeeds in
\* _terminalize_failure: the job fails, its journal stays.
RecordFault ==
    /\ holder \in Jobs /\ pc \in {"published", "rolled_back"}
    /\ faults < MaxFaults /\ faults' = faults + 1
    /\ SetStatus("failed")
    /\ LetGo
    /\ UNCHANGED <<disk, receipt, alive, clients, server, history, crashes>>

\* The step of _cleanup_paths that comes next finds something to remove.
Removing ==
    \/ pc = "rm_journal" /\ journal[op].phase # "none"
    \/ pc = "rm_backup" /\ backup[op] # NoDir
    \/ pc = "rm_stage" /\ stage[op] # NoDir

\* _cleanup_paths fails: its rest is left undone and the lock is released.  A job's record
\* has ended before; a saving user gets the exception, whether the save was published or
\* rolled back.  (What a failing rmtree leaves of a directory is nothing anybody reads.)
CleanupFault ==
    /\ Working /\ Removing
    /\ faults < MaxFaults /\ faults' = faults + 1
    /\ Fail /\ LetGo
    /\ UNCHANGED <<disk, records, alive, seen, server, history, crashes>>

----------------------------------------------------------------------------
(* Process deaths.                                                         *)

\* The worker of a job, or the process of a direct save, dies holding the lock.
CrashHolder ==
    /\ Working /\ crashes < MaxCrashes /\ crashes' = crashes + 1
    /\ LetGo
    /\ alive' = IF holder \in Jobs THEN [alive EXCEPT ![holder] = FALSE] ELSE alive
    /\ reply' = IF holder \in Saves THEN [reply EXCEPT ![holder] = "lost"] ELSE reply
    /\ UNCHANGED <<disk, records, seen, server, history, faults>>

\* A worker dies while it waits for the lock.
CrashWaiting(j) ==
    /\ alive[j] /\ status[j] = "waiting_for_memory"
    /\ crashes < MaxCrashes /\ crashes' = crashes + 1
    /\ alive' = [alive EXCEPT ![j] = FALSE]
    /\ UNCHANGED <<disk, records, holder, pc, txn, clients, server, history, faults>>

\* The server stops, for a restart or because it died.
StopServer ==
    /\ srv # "down" /\ crashes < MaxCrashes /\ crashes' = crashes + 1
    /\ srv' = "down" /\ todo' = {} /\ blocked' = {}
    /\ IF holder = Server THEN LetGo ELSE UNCHANGED <<holder, pc, txn>>
    /\ UNCHANGED <<disk, records, alive, clients, history, faults>>

----------------------------------------------------------------------------
(* Startup of the server: recover_publications over the journals found,     *)
(* then the pass of reconcile_jobs over the job records.                    *)

Journals == {o \in Ops : journal[o].phase # "none"}

StartServer ==
    /\ srv = "down"
    /\ srv' = "recovering" /\ todo' = Journals /\ blocked' = {}
    /\ UNCHANGED <<disk, records, holder, pc, txn, alive, clients, history, bounds>>

\* The checks of _operation_from_payload and _recover_locked on a journal's directories.
Consistent(o) ==
    LET J == journal[o] IN
    /\ stage[o] = J.new
    /\ IF J.old = J.new
       THEN backup[o] = NoDir
       ELSE \/ backup[o] = J.old
            \/ backup[o] = NoDir /\ J.phase = "prepared"

\* Mutant: past its backup a journal counts as published, whatever the memory holds.
FoundNewByPhase(o) ==
    /\ Consistent(o)
    /\ journal[o].phase \in {"backed_up", "published"}

\* The memory holds the journal's new content, and the journal got far enough.
FoundNew(o) ==
    /\ Consistent(o) /\ canonical = journal[o].new
    /\ \/ journal[o].phase \in {"backed_up", "published"}
       \/ journal[o].old = journal[o].new

\* Mutant: whatever is not the new content is taken for the old one.
FoundAnythingElse(o) == Consistent(o) /\ ~FoundNew(o)

\* The memory holds the journal's old content.
FoundOld(o) == Consistent(o) /\ ~FoundNew(o) /\ canonical = journal[o].old

\* _mark_complete and _mark_failed tolerate a record that already says so, and raise on
\* any other.
MayMark(o, s) == o \in Jobs => status[o] \in {"running", s}

Recovering(o) == srv = "recovering" /\ o \in todo /\ holder = Nobody

\* Another process finished the operation while the server waited for the lock.
SkipJournal(o) ==
    /\ Recovering(o) /\ journal[o].phase = "none"
    /\ todo' = todo \ {o}
    /\ UNCHANGED <<disk, records, holder, pc, txn, alive, clients, srv, blocked, history, bounds>>

\* _finalize_recovered_success; _cleanup_paths follows under the same lock.
RecoverNew(o) ==
    /\ Recovering(o) /\ journal[o].phase # "none" /\ FoundNew(o) /\ MayMark(o, "complete")
    /\ Take(Server, o, "rm_journal")
    /\ IF o \in Jobs /\ status[o] = "running"
       THEN /\ status' = [status EXCEPT ![o] = "complete"]
            /\ receipt' = [receipt EXCEPT ![o] = journal[o].new]
       ELSE UNCHANGED records
    /\ todo' = todo \ {o}
    /\ history' = history \cup {canonical}
    /\ UNCHANGED <<disk, mode, old, new, evac, alive, clients, srv, blocked, bounds>>

\* Mutant: the record is failed whatever it says.
RecoverOldForced(o) ==
    /\ Recovering(o) /\ journal[o].phase # "none" /\ FoundOld(o)
    /\ Take(Server, o, "rm_journal")
    /\ status' = IF o \in Jobs THEN [status EXCEPT ![o] = "failed"] ELSE status
    /\ todo' = todo \ {o}
    /\ UNCHANGED <<disk, receipt, mode, old, new, evac, alive, clients, srv, blocked, history,
                   bounds>>

\* The publication never reached the memory: the job fails, the transaction is dropped.
RecoverOld(o) ==
    /\ Recovering(o) /\ journal[o].phase # "none" /\ FoundOld(o) /\ MayMark(o, "failed")
    /\ Take(Server, o, "rm_journal")
    /\ status' = IF o \in Jobs THEN [status EXCEPT ![o] = "failed"] ELSE status
    /\ todo' = todo \ {o}
    /\ UNCHANGED <<disk, receipt, mode, old, new, evac, alive, clients, srv, blocked, history,
                   bounds>>

\* "manual intervention required": the journal stays and the pass over the job records
\* will not touch the job (blocked_job_ids).
Refuse(o) ==
    /\ Recovering(o) /\ journal[o].phase # "none"
    /\ ~ (FoundNew(o) /\ MayMark(o, "complete"))
    /\ ~ (FoundOld(o) /\ MayMark(o, "failed"))
    /\ todo' = todo \ {o}
    /\ blocked' = blocked \cup ({o} \cap Jobs)
    /\ UNCHANGED <<disk, records, holder, pc, txn, alive, clients, srv, history, bounds>>

\* Recovery of one journal raises before the record is written: like a refusal.
RecoveryFault(o) ==
    /\ Recovering(o) /\ journal[o].phase # "none"
    /\ faults < MaxFaults /\ faults' = faults + 1
    /\ todo' = todo \ {o}
    /\ blocked' = blocked \cup ({o} \cap Jobs)
    /\ UNCHANGED <<disk, records, holder, pc, txn, alive, clients, srv, history, crashes>>

\* Recovery fails to clean up: the record is written, and yet the job counts as refused.
RecoveryCleanupFault ==
    /\ holder = Server /\ Removing
    /\ faults < MaxFaults /\ faults' = faults + 1
    /\ LetGo
    /\ blocked' = blocked \cup ({op} \cap Jobs)
    /\ UNCHANGED <<disk, records, alive, clients, srv, todo, history, crashes>>

\* Recovery as a whole raises: the pass over the job records skips every job.
StartWithoutRecovery ==
    /\ srv = "down"
    /\ faults < MaxFaults /\ faults' = faults + 1
    /\ srv' = "reconciling" /\ todo' = Jobs /\ blocked' = Jobs
    /\ UNCHANGED <<disk, records, holder, pc, txn, alive, clients, history, crashes>>

EndRecovery ==
    /\ srv = "recovering" /\ todo = {} /\ holder # Server
    /\ srv' = "reconciling" /\ todo' = Jobs
    /\ UNCHANGED <<disk, records, holder, pc, txn, alive, clients, blocked, history, bounds>>

\* Mutant: only jobs that got to run are looked at.
ReconcileRunningOnly(j) ==
    /\ srv = "reconciling" /\ j \in todo
    /\ status' = IF j \notin blocked /\ status[j] = "running" /\ ~alive[j]
                 THEN [status EXCEPT ![j] = "failed"] ELSE status
    /\ todo' = todo \ {j}
    /\ UNCHANGED <<disk, receipt, holder, pc, txn, alive, clients, srv, blocked, history, bounds>>

\* An active job whose worker is confirmed absent fails, unless recovery has set it aside.
Reconcile(j) ==
    /\ srv = "reconciling" /\ j \in todo
    /\ status' = IF j \notin blocked /\ status[j] \in Running /\ ~alive[j]
                 THEN [status EXCEPT ![j] = "failed"] ELSE status
    /\ todo' = todo \ {j}
    /\ UNCHANGED <<disk, receipt, holder, pc, txn, alive, clients, srv, blocked, history, bounds>>

EndReconcile ==
    /\ srv = "reconciling" /\ todo = {}
    /\ srv' = "serving"
    /\ UNCHANGED <<disk, records, holder, pc, txn, alive, clients, todo, blocked, history, bounds>>

----------------------------------------------------------------------------
\* Every operation has ended or was abandoned by a death the server has yet to see.
Quiet ==
    /\ holder = Nobody /\ srv = "serving"
    /\ \A j \in Jobs : status[j] \in Terminal \/ ~alive[j]
    /\ UNCHANGED vars

JobStep(j) == StartJob(j) \/ FailRun(j) \/ FinishRun(j)

Transaction ==
    \/ WriteJournal \/ PublishUnchanged \/ MakeBackup \/ BackupFile \/ MarkBackedUp
    \/ Evacuate \/ BeginInstall \/ Install \/ EndReplace \/ MarkPublished
    \/ Finalize \/ RolledBack \/ RemoveJournal \/ RemoveBackup \/ RemoveStage

Startup ==
    \/ StartServer \/ EndRecovery \/ EndReconcile
    \/ \E o \in Ops : SkipJournal(o) \/ RecoverNew(o) \/ RecoverOld(o) \/ Refuse(o)
    \/ \E j \in Jobs : Reconcile(j)

RecoveryFailure ==
    \/ RecoveryCleanupFault \/ StartWithoutRecovery
    \/ \E o \in Ops : RecoveryFault(o)

Failure ==
    \/ PublishFault \/ RestoreFault \/ RecordFault \/ CleanupFault \/ CrashHolder \/ StopServer
    \/ RecoveryFailure
    \/ \E j \in Jobs : CrashWaiting(j)

Next ==
    \/ \E j \in Jobs : JobStep(j)
    \/ \E s \in Saves : Show(s) \/ RefuseSave(s) \/ BeginSave(s)
    \/ Transaction \/ Startup \/ Failure \/ Quiet

\* Agents end by themselves or at their timeout, a process that lives keeps taking
\* steps, the service manager restarts the server (Restart=always) and a waiting worker
\* polls for the lock every 50 ms, so that it wins a lock that is free often enough.
Fairness ==
    /\ WF_vars(Transaction) /\ WF_vars(Startup)
    /\ \A j \in Jobs : WF_vars(FailRun(j) \/ FinishRun(j)) /\ SF_vars(StartJob(j))

Spec == Init /\ [][Next]_vars
FairSpec == Spec /\ Fairness

----------------------------------------------------------------------------
(* The memory as its users know it: a replacement happens when the journal  *)
(* says published, since a failure until then puts the old files back.      *)

Outcome(o) ==
    IF o \in Jobs
    THEN CASE status[o] = "complete" -> "done"
           [] status[o] = "failed" -> "failed"
           [] OTHER -> "none"
    ELSE CASE reply[o] = "saved" -> "done"
           [] reply[o] = "error" -> "failed"
           [] reply[o] = "raised" -> "raised"
           [] reply[o] = "conflict" -> "refused"
           [] OTHER -> "none"

MemContent == IF pc \in {"evacuate", "install", "installed"} THEN old ELSE canonical
MemBase == IF holder = Nobody THEN Empty ELSE old
MemCommitted ==
    \/ pc = "published"
    \/ pc \in {"rm_journal", "rm_backup", "rm_stage"} /\ mode = "publish"
MemOutcome == [o \in Ops |-> Outcome(o)]

Memory == INSTANCE AtomicMemory WITH
    content <- MemContent, turn <- holder, base <- MemBase,
    committed <- MemCommitted, outcome <- MemOutcome

----------------------------------------------------------------------------
(* Properties.                                                             *)

\* Write-ahead discipline: while a journal says that its operation may have touched the
\* memory, the stage still holds the complete new content and the backup the complete
\* old one.  The order of _write_backup, journal writes and _cleanup_paths is what keeps
\* it; recovery refuses a journal that breaks it.
JournalBacked ==
    \A o \in Ops : journal[o].phase \in {"backed_up", "published"} =>
        /\ stage[o] = journal[o].new
        /\ journal[o].old # journal[o].new => backup[o] = journal[o].old

\* A death in the middle of a replacement leaves a mixture of files, and other jobs may
\* run on the mixture before the server restarts.  Still, as long as no file operation
\* failed, a memory that is not what some publication put there has a journal whose
\* backup is such a content, complete: nothing is lost beyond manual repair.
TornIsRecoverable ==
    faults = 0 /\ canonical \notin history =>
        \E o \in Ops : journal[o].phase = "backed_up" /\ backup[o] \in history

\* No transaction runs on a stale base: from the moment an operation reads the memory to
\* the moment it starts to replace it, nobody else changes it (not a second worker, a
\* direct save, or the recovery of an earlier crash).  prepare_publication and
\* _run_transaction_locked re-check this; the check never refuses.
BaseIsCurrent ==
    pc \in {"run", "begin", "prepared", "backup"} => canonical = old

\* A record that says complete names a revision that was wholly in the memory at some
\* time, also when it was completed by recovery after a crash.
CompleteMeansPublished ==
    \A j \in Jobs : status[j] = "complete" => receipt[j] \in history

\* However crashes, recovery, reconciliation and late workers interleave, the record of a
\* job goes along VALID_TRANSITIONS, one record at a time: recovery does not come over an
\* end that the worker or an earlier pass has recorded, and nobody puts a job back.
Records == INSTANCE JobRecord
RecordsFollow == Records!Spec

\* A worker found dead while the server is down does not stay active: its job ends, or a
\* server comes to serve that has set the job aside for the operator, since recovery refused
\* its journal, failed on it or could not run.  That there is a journal excuses nothing.
DeadJobsResolved ==
    \A j \in Jobs :
        (srv = "down" /\ status[j] \in Running /\ ~alive[j])
            ~> (status[j] \in Terminal \/ (srv = "serving" /\ j \in blocked))

\* A failing file operation alone, in a process that lives, never leaves a mixture: when
\* the lock is free the memory is a content some publication put there.
NoTornWithoutCrash ==
    crashes = 0 /\ faults <= 1 /\ holder = Nobody => canonical \in history

\* An operation that rolls back, lives and meets no second failure lets go of the lock
\* with the memory as it found it, whatever step of the publication had failed.
RollbackRestores ==
    [][Working /\ mode = "restore" /\ holder' = Nobody /\ faults' <= 1 /\ crashes' = crashes
       => canonical' = old]_vars

\* As long as no process dies and no more than one file operation fails, a memory is
\* replaced at once or not at all, by one operation at a time, on the base it has read.  A
\* save that is confirmed took effect and one that answers with MemoryPublicationError did
\* not; after any other exception (the clean-up that follows a publication fails) it may
\* have taken effect, and the user has to look.
IsAtomic == Memory!Spec

\* What test_memory_recovery.py:563 (direct_save_crash_recovery_subprocess_keeps_complete_
\* old_or_new) says of a save that crashed: once startup recovery has dealt with its
\* journal, the memory holds the complete old or the complete new files.
RecoveryKeepsOldOrNew ==
    [][\A s \in Saves : srv = "recovering" /\ srv' = "recovering" /\ s \in todo \ todo'
                        /\ journal[s].phase # "none"
                        => canonical' \in {journal[s].old, journal[s].new}]_vars

\* What test_job_reconciliation.py:260 (reconcile_recovers_published_journal_before_
\* failing_dead_worker) says: the pass over the job records does not fail a job whose
\* publication is journalled as published.
PublishedIsNotFailed ==
    [][\A j \in Jobs : srv = "reconciling" /\ j \in todo /\ j \notin todo'
                       /\ status[j] = "running" /\ journal[j].phase = "published"
                       => status'[j] # "failed"]_vars
=============================================================================
