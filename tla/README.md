# A verification model of agency

agency runs agents on a schedule or on request. A run gets the *memory* of its
channel, a directory of markdown files, works on a private copy of it, and
publishes the copy when the agent succeeds. Several worker processes, a web
server, a command line and a timer share the files on disk that record all this;
the only means they have to agree are advisory file locks, revisions they compare, and
the order in which they write. This directory models that part in TLA+: what is on the
disk, which process writes it in which step, and what is left when a process dies in
between; and what the configuration file must say for a run to start.

Paths below are relative to `src/agency/`.

## 1. Inventory

| Component | Code | State | Operations | Interacts with |
|---|---|---|---|---|
| Memory store | `memory/store.py` | canonical directory of markdown files per memory, stages, lock | ensure, stage, try_update, replace file by file, roll a replacement back | locks; called by publication, recovery, web and CLI |
| Publication | `memory/publication.py` | journal with a phase, backup, receipt in the job's record | run a transaction, roll back, finalize, clean up | store, job records |
| Recovery | `memory/recovery.py` | list of journals found | resolve each journal to success, failure or "manual intervention" | publication, job records; called by reconciliation |
| Job records | `jobs/store.py` | one YAML record per job, its lock | create, transition, cancel | everyone |
| Submission | `jobs/submission.py`, `jobs/launcher.py` | pin of the compiled artifact, record | pin, create, launch, record a launch error | cache, records, service manager |
| Worker | `jobs/execution.py` | a process per job | claim, wait for the memory, stage, run the agent, publish, release the pin | all of the above, decisions |
| Reconciliation | `jobs/reconciliation.py` | none of its own | recover journals, fail the jobs of dead workers, release pins | recovery, records, cache |
| File locks | `fs/locks.py` | thread lock and `flock` per path | acquire with a timeout, release | everyone |
| Atomic writes | `fs/atomic.py` | none | replace a file, write exclusively | everyone |
| Decisions | `app.py`, `cli.py`, `project_decision` of `jobs/execution.py` | frontmatter of a decision file, status of its proposal | decide, retry, verify, synchronize a proposal, project a run's start and end | submission, worker, reconciliation |
| Dispatch | `dispatch/` | marker files, daily count | list due routines, submit them, touch markers | submission; overlaps with itself |
| Configuration | `configuration/` | YAML with a revision | parse, check the directories, patch, replace when the revision is still that of the form | web forms, submission |
| Effective policy | `effective_policy.py`, `jobs/resolution.py`, `memory/selectors.py` | none | the mode, roots, tools and memory of a job | configuration, submission |
| Group locks | `jobs/store.py` | one lock file under the root of each group | take those of several groups in one order, load the file again under them | submission, pages, moves |
| Instances | `instances.py` | entries of agents and their memories | create, remove, preview and move between groups, roll a move back | configuration, group and memory locks |
| Memory administration | `web/routes/admin_memory.py` | channels of the configuration, archives of their memories | create, rekey, delete a channel; put an archive back | configuration, group and memory locks |
| Pages on groups and agents | `web/routes/admin_groups.py`, `agents.py`, `agent_detail.py` | none | forms that patch the configuration | configuration, group locks |
| Blueprint library | `web/routes/admin_library.py`, `blueprints/library.py`, `fs/snapshot.py` | a directory of files per blueprint | edit a file (stage, move away, move in), take a snapshot | users' editors, submission |
| Compilation cache | `blueprints/cache.py`, `blueprints/projectors.py` | artifacts per digest, pins, quarantine | validate, compile, quarantine, pin, release, copy a launch view | submission, worker |
| Everything else | dashboard, workspaces, integrations, setup | none that outlives a request | render, build command lines, open editors | |

**What is hard here.** Nothing is a database. A publication is thirty-odd file
operations, any of which can be the last one a process makes or can fail; the
rollback consists of the same operations and can fail too. Memory, journal and job
record are three files that cannot be written together. A worker, the user who
cancels, and the server's startup pass write the same record. The startup pass
reads a record and only later looks whether its process exists. A cancellation
races the claim, the wait for the lock and the step to running. Waiting workers
poll. What each part has to guarantee in spite of that:

* memory: a transaction is based on what is there; a rollback puts it back;
  a mixture of old and new files is never lost track of;
* journal: it never claims more than the directories bear out (write-ahead order);
* records: an ended job keeps its status, *complete* means the content really was
  in the memory, a dead worker's job ends at the next startup;
* worker: a cancelled job never runs; whoever is inside the critical section holds
  the lock; nobody waits for ever;
* pins: the artifact stays pinned as long as a worker may use it, and not longer;
* decisions: what a decision says of a run is true of the job it names, one job at a
  time works on it, no job is forgotten, no run is claimed that does not exist;
* dispatch: a routine is submitted once a day or once a period, and none is missed
  although nothing but files on disk remembers what was done;
* configuration: what the parser accepts, the resolver can use; what a page saves leaves
  the agents able to run; nothing a restricted run writes to is the agency's own;
* operations on it: nobody waits in a circle; a job is of a configured agent, which does
  not move under it; a move takes every memory along or none, a rollback or a deletion
  loses no text;
* library and cache: a save replaces only what its user saw, a failure loses no blueprint,
  a job gets the tree its digest names, a pin outlives the release of others.

`PROJECT.json` lists each hazard at its line, with the property that covers it.

## 2. Modules

| Module | Models |
|---|---|
| `MemoryContents` | contents of a memory directory as functions from file names to data |
| `MemoryPublication` | one memory directory, transactions on it, recovery, the job records as far as they depend on it |
| `AtomicMemory` | what a memory promises: a transaction looks, and later replaces everything at once or leaves it |
| `MemoryPublicationProofs`, `MemoryRefinementProofs` | theorems about `MemoryPublication`, and that it implements `AtomicMemory` |
| `JobRecord` | what the jobs' records promise: each goes forward along the transitions and ends once, whoever writes it |
| `JobLifecycle` | submission, cancellation, worker and startup pass on the records of all jobs of one memory |
| `JobLifecycleProofs` | theorems about `JobLifecycle` |
| `Decisions` | one decision file and its writers: web handlers, the command `decide`, workers, startup pass |
| `DecisionsProofs` | theorems about `Decisions` |
| `Dispatch` | cycles of the timer and by hand over the routines of a group, their markers and the daily limit |
| `DispatchProofs` | theorems about `Dispatch` |
| `Configuration` | `config.yaml` as a mapping: what the parser accepts, what a job makes of it, how each page changes it |
| `ConfigurationProofs` | theorems about `Configuration` |
| `Administration` | operations on the configuration side by side: submissions, moves, group and channel pages, with their locks and the memories they touch |
| `AdministrationProofs` | theorems about `Administration` |
| `Compilation` | one blueprint: its page, hand edits, snapshots, the artifacts compiled from it, their pins and the launch views |
| `CompilationProofs` | theorems about `Compilation` |
| `MC*` | instances for TLC |

The modules compose at the places where the code does. `JobLifecycle` sees a publication
as the interval in which a journal exists, and `MemoryPublication` sees a job's record as
far as a transaction depends on it. `Configuration` says which saves are accepted, each
in one step; `Administration` takes three steps or more for the same saves and keeps of
the file only the roots of groups, the agents and the memories they name. `Compilation`
ends where `JobLifecycle` begins: with a pin and a recorded job. `JobRecord` is what the
three modules that have records of jobs (`MemoryPublication`, `JobLifecycle`, `Decisions`)
rely on and provide: each is shown to implement it, so that the slice of a record that one
of them models moves the way the others expect.

### MemoryPublication

*State.* `canonical`, `stage`, `backup`, `journal` are the four places on disk,
`status` and `receipt` two fields of a job's record. The process that holds the
memory lock is `holder`; `op`, `pc`, `mode`, `old`, `new`, `evac` are its own
variables and vanish with it. `srv`, `todo`, `blocked` are the startup pass.
`history` is a history variable: the contents that some completed publication put
in place.

*Actions.* `StartJob`, `FinishRun` and `FailRun` are the worker's part of
`execute_job`; `Show`, `RefuseSave` and `BeginSave` a direct save
(`try_update_memory`). From then on both run the same transaction,
`_run_transaction_locked`: `WriteJournal`, either `PublishUnchanged` or
`MakeBackup` / `BackupFile` / `MarkBackedUp`, the replacement `Evacuate` /
`BeginInstall` / `Install` / `EndReplace`, `MarkPublished`, `Finalize`, and the
cleanup in the code's order (journal, backup, stage). One file is moved or written
per step, in any order. `PublishFault`, `RestoreFault`, `RecordFault` and `CleanupFault`
are operations that raise in a process that lives, with what the exception handlers
do about it (nothing, for the clean-up after a direct save); `CrashHolder`,
`CrashWaiting` and `StopServer` are deaths. `RecoverNew`,
`RecoverOld`, `Refuse` and `SkipJournal` are `_recover_locked`, with the checks of
the code written as `Consistent`, `FoundNew`, `FoundOld` and `MayMark`; an operation
that fails in recovery, in its clean-up (`RecoveryFault`, `RecoveryCleanupFault`) or around
all of it (`StartWithoutRecovery`) sets the job, or every job, aside (`blocked`) for the
operator, and the pass over the records skips it. A save is answered *saved*, *failed*,
or *raised*, by an exception that does not say whether the save took effect.

*Abstraction.* A revision is the content itself: the SHA-256 is taken to be
injective. A journal carries the old and the new revision, not bytes. Identity,
path and schema checks are taken to pass, since only this code writes the files.
An atomic write is one step; a write that is torn by a power cut is not modelled. A
failure before the transaction has begun (staging the files of a save) is left out: it
changes nothing but the stage and raises.

### AtomicMemory

*State.* The `content` of the memory, what each save's user has `seen`, whose `turn`
it is, the `base` the turn began with, whether it has `committed`, and the `outcome`
each operation reports. *Actions.* `Look`, `Begin` (a save only on the content its
user saw), `Refuse` (only when it changed), `Commit` (everything at once), `Report`
(success only after a commit, failure of a save only without one, and for a save an
exception at any time, which says neither), `Leave`. `MemoryPublication` implements it with
`MemContent`, `MemBase`, `MemCommitted` and `MemOutcome` for the variables: while
files are being moved the content is still the old one, the commit is the step
`MarkPublished`, and a rollback is no step at all.

### JobRecord

*State.* The `status` of each record, *absent* before it is made. *Actions.* `Create`
(`JobStore.create`), `LaunchError` (the failed record that a submission writes without a
look at what is there, so that it may come over a cancellation), and `Move`, one of
`ValidTransitions`, which is all that `transition_job` and `cancel_job` let through. The
modules that implement it have no such guard on all their writes: recovery, the startup
pass and a late worker write what their own look at the record allows, and several looks
lie before the write. `MemoryPublication` and `JobLifecycle` have the same variable
`status`; in `Decisions` it is `RecordStatus`, the job's state as its record shows it.

### JobLifecycle

*State.* Per job: the status of its record, whether its artifact is pinned, whether
a journal exists, and the next step of its submitter and of its worker (including
*exited* and *dead*). `holder` is the memory lock. `hand` and `view` are the record
the startup pass has read and not yet dealt with, and what it read.

*Actions.* One per step between two looks at shared files: `Pin`, `Create`,
`Launch`, `SubmitFails`, `Unpin`, `RecordLaunchError` of `_submit_resolved`;
`Cancel`; the worker's `Claim` ... `ReleasePin`; `LookAt`, then `PutDown` or
`FailAbsent`, of the startup pass. A record transition reads and writes under the
record's own lock and is one step; every failure path of `execute_job` goes through
`Terminalize`. The publication is the interval in which a journal exists; how it
gets there and what recovery makes of it is `MemoryPublication`'s subject, and
`Recover` may therefore resolve a journal either way, `RecoverUnclean` may do so and fail
afterwards, `Refuse` may set the job aside, and `StartWithoutRecovery` all of them.

### Decisions

*State.* `file` is the decision's frontmatter (`execution_status`, `execution_job_id`,
`execution_job_history`, the verdict of a verification), or `NoFile`; `proposal` the
status of its proposal. Each request has the next `step` of its handler and the file
as it has `seen` it; `loop` is the handler that has the event loop. `job` and `worker`
are the status in a job's record and the worker's position, `copy` what a projection
has read and not yet written. `srv`, `todo` and `hand` are the startup pass, `blocked` the
jobs that recovery has set aside.
`overtaken` (somebody wrote from an outdated reading), `overlapped` (a request was made
while another request or a run was under way), `owed` (what a startup pass has to show)
and `raised` (a submission raised something else than `JobSubmissionError`) are history
variables: the properties say under which of these circumstances they hold.

*Actions.* A handler is split where it awaits the form, since other handlers run there:
`retry` and `verify` read the file before (`AskRetry`, `AskVerify`) and write after it
(`Retry`, `Verify`); `decide` never reads it (`ShowForm`, `Decide`). From its write to its
return a handler has the event loop to itself, while workers and commands go on:
`SubmitSucceeds`, `SubmitFails` (the decision is taken back), `SubmitRaises` (it is not) and
`MarkDecided`. The command `decide` takes the same steps without the event loop. A
worker's `project_decision` is a read (`ReadAtStart`, `ReadAtEnd`) and a write (`ShowRun`,
`ShowEnd`) with anything in between, and so is that of the startup pass. `Retry`,
`WriteDecision` and the others write the whole file: what they had read of it, changed.

*Abstraction.* One decision; a job is named by the request that makes its id. Of a
worker's run only its ends matter here, so waiting for the memory, the agent and the
publication are one step each, and `FailEarly` and `EndRun` take any outcome. There is no
journal here: recovery may end any running job of a dead worker (`Recover`), and may set
aside any job that ran (`MayBeSetAside`) or, when it could not run, all of them
(`BeginPass`); these are more cases than `MemoryPublication` has. The validation of questions, answers and
executors is an arbitrary refusal (`RefuseForm`); the follow-up observation is a file of
its own that nobody else writes.

### Dispatch

*State.* `time` of the day and `wait`, the time since the timer's last start. On disk:
`marked`, the days for which a routine with a time of day has its `.event` marker;
`age`, that of the `.last` marker of a routine with a period; `outs`, the `.out` files in
each day's directory. A cycle is a process with the step `pc`, the routine `pos` it has
come to and the `day` whose directory it uses. The rest is history: submissions today and
the time since the last (`ran`, `since`), submissions without a marker (`unmarked`), markers
of another day (`late`), overlapping cycles (`clash`), outputs written while a cycle
submitted (`ended`), and routines that a cycle could not serve (`hindered`). The
properties name them as the circumstances under which a promise is not kept.

*Actions.* `Begin`, `Enter` (the group's limit), then per routine `SkipFull`, `SkipNotDue`
or `Choose` (the limit again, the marker, the schedule rule), `SubmitSucceeds` or
`SubmitFails` (the exceptions the loop expects) and `Touch`; `EndCycle`, or `Abort` at any
step. `Choose`, submission and marker are three steps, so a second cycle, a death, an
output or midnight may come in between. `Midnight` renames the days: the directory a
running cycle calls today is then yesterday's. `WriteOutput` files a run's output under
the UTC date of its start.

*Abstraction.* Time is discrete and passes within a cycle. The age of a marker stops
at the period and the number of outputs at the limit, since the code compares them with
these. One group whose configuration does not change; routines that are disabled or have
a condition, which a cycle passes over, are left out, and two routines have two
markers. In the code the name of a marker joins the names of agent and routine by a hyphen
after `_marker_safe` has replaced characters in them, so that two routines can share one
(`a-b` of agent `c` and `b` of agent `c-a`, besides names that only differ in what is
replaced); one is then passed over when the other has run. What is said of routines below
holds for those that share no marker. The timer is taken to start a
cycle exactly every `Interval`, a cycle of it to take `Slack` at most (the two minutes that
`check_at_rule` adds), and a cycle by hand less than a day.

### Configuration

*State.* `file`, the mapping that the YAML of `config.yaml` yields, as a record whose
parts may be `Absent` or, written by hand, `Malformed`. `saves` counts.

*Operators.* `Parses` is the parser: `WellShaped` (wrong kinds of value), `RawIsValid`
(`validate_raw_config`) and `Typed` (what the typed model refuses afterwards).
`PathsAreValid` is `validate_resolved_paths`: given directories exist, the authorities
(library, cache, memory, every group's workspace and root) do not overlap, and no root
that is checked reaches a store. `CheckedRoots` has the asymmetry of the code: the roots
of an agent are always checked, those of a group when its own mode is restricted.
`EffectiveMode`, `PolicyResolves`, `SandboxRoots`, `EffectiveSelector` and
`SelectorResolves` are what a submission makes of an accepted file, `JobResolves` the
two together.

*Actions.* One per page: `SaveGroup`, `CreateGroup`, `DeleteGroup`, `SaveSettings`,
`CreateAgent`, `RemoveAgent`, `MoveAgent`, `SaveRuntime`, `SaveRoutines`, `SaveSelector`,
`CreateChannel`, `RekeyChannel`, `DeleteChannel`; each patches the mapping the way its
handler does and goes through `Save`, which refuses what is not accepted. `HandEdit` puts
any of a set of files there.

*Abstraction.* `JobResolves` is about mode and memory. A submission is refused besides when
the routine is disabled, when the blueprint does not pass inspection or when the integration
does not take the policy, and a request by hand may bring a selector of its own, which goes
before the configured ones; `AcceptedResolves` says nothing of these.
A directory is the sequence of its names; it exists with its permissions
or not. A tool list is one of five forms. Identifiers, schedules, arguments, display
names and time limits of a run are left out.

### Administration

*State.* `cfg` (roots of groups, agents with the memories they name, channels), `mem` and
`archive` (the contents of memories and of the directories set aside), `job` (active or
not, on which memory), `owner` of every lock, and per process an operation record `proc`
with its step, the file its form was made from (`form`), the file it chose its locks by
(`snap`), the locks it still needs and what it has created. Two variables are
history: `last`, what a job or a user last wrote to a memory, and `reverted`, which becomes
true with the first save that makes the file again what an operation under way had read
(`Note`).

*Actions.* `Show` makes a form (a submission has none). `Load` reads the file for the
paths of the locks, `Acquire` takes the next one, `Reload` goes on if the file is
`Unchanged`, and `Conflict` is the other case, where a submission tries again, three times
in all. Then `CreateJob`, or `Patch` for pages on agents and groups. A move is `Preview`,
the steps above, `MemoryLocks`, `CheckMove`, `CreateDestination` once per memory,
`CommitMove`, and `Rollback` directory by directory. The deletion of a channel is
`TryChannel` (no waiting), `ArchiveChannel`, `SaveWithoutChannel`, and `RestoreChannel`
after a conflict, which the code does without the lock of the memory. `SaveUnlocked` are
the pages that take no group lock. `Die` is the death of the process, `Fault` a failing
file operation. Workers (`StartJob`, `Publish`, `EndJob`) and pages that make or write a
memory (`ViewMemory`, `WriteMemory`) go on besides.

*Abstraction.* The lock of `config.yaml` is held for one comparison and replacement, so
that a save is a step; a revision is the contents, so that a file that is changed and
changed back has its old revision, as it does in the code. Jobs with a memory of their
own run and hand edits of the file are left out; a selector page adds or removes one
memory. A copy of one memory is one step: what happens within it is the subject of
`MemoryPublication`.

### Compilation

*State.* The blueprint's directory `root` (or `NoTree` while it is being replaced), the
`lock` of its page, per request of the page the tree its form showed, its stage and its
backup; `abandoned` backups of dead requests. Each reader has the position of its scan and
the tree it has read (`snap`), and `touched`, the files whose stamps have changed since its
first scan. `entry` is the artifact in the cache of each digest, `builder` the lock of it,
`pins` and `pinsDir` the files and the directory of its pins, `view` the launch directory
of each job. `handed`, `last`, `unrestored` and `late` are history.

*Actions.* A snapshot is `FirstScan`, then per file `StatFile` (compare the stamp) and
`ReadFile`, with `Rescan` or `ScanFails` when a stamp differs. The page is `Show`, `Save`,
the snapshot, `Stage` or `RefuseSave`, `MoveAway`, `MoveIn`, `Fault`, `Restore`, `Finish`;
`Crash` is the server's death. A submission is `Submit`, the snapshot, `Inspect`, `Check`
and `Compare` without a lock, `Lock`, `Revalidate`, `Quarantine`, `Build`, `Validate`,
`MakePinsDir`, `Pin`, `Launch`. A worker is `StartView`, `CopyFile` one by one, `End`,
`Unpin`, `RemovePinsDir`. `HandEdit`, `Damage` and `Discard` are people and disks.

*Abstraction.* A tree stands for its digest (SHA-256 is taken to be injective) and the
projection of a tree that passes inspection is the tree. Files do not appear or vanish one
at a time, and an artifact is validated at one moment.

## 3. Runs

| Run | Instance | Shows |
|---|---|---|
| `publication` | 1 job, 1 direct save, 2 files, 2 payloads, 2 deaths, 2 failing operations, fairness | `JournalBacked`, `TornIsRecoverable`, `BaseIsCurrent`, `CompleteMeansPublished`, `NoTornWithoutCrash`, `RecordsFollow` (the records implement `JobRecord`), `RollbackRestores`, `DeadJobsResolved` |
| `publication_atomic` | 2 jobs, 2 saves, 1 failing operation, no death | `IsAtomic`: the steps of a publication implement `AtomicMemory` |
| `publication_torn` | 1 save, deaths | *violated:* `RecoveryKeepsOldOrNew` |
| `publication_race` | 1 job, deaths | *violated:* `PublishedIsNotFailed` |
| `lifecycle` | 2 jobs, 3 deaths, fairness | `Coherent`, `CancelledNeverRuns`, `PinnedWhileNeeded`, `EndedStays`, `OnlyTheDeadFail`, `SubmittedEnds`, `StartupResolves` |
| `lifecycle_pin` | 1 job, no death | *violated:* `EndedWorkerLeavesNoPin` |
| `decisions` | 2 jobs, 1 verification, 2 deaths, 2 stops of the server, symmetry | `ShownIsTrue`, `LostOnlyByOverlap`, `OneActive`, `NoJobForgotten`, `DecidedHasDecision`, `FailedSubmissionIsUndone`, `EndIsShown`, `StartupShows` |
| `decisions_phantom` | 1 job, no death | *violated:* `NoPhantomRun` |
| `dispatch` | 2 cycles, a daily and a periodic routine, a day of 6 ticks, any number of days | `EveryInTime`, `AtOncePerDay`, `EverySpaced`, `AtRunsDaily`, `LimitStops` |
| `configuration` | 2 groups, 1 agent, 1 routine, 2 channels, 4 files by hand, 3 saves | `AcceptedResolves`, `RunsCannotReachStores`, `SavesKeepAgentsRunnable` |
| `administration` | 2 processes, 2 operations, 1 fault or death, 2 groups, 2 channels, 1 job, symmetry | `OrderedLocks`, `MemoryKept`, `MoveIsWhole`, `JobsKeepHome` |
| `compilation` | 2 requests of the page, 2 jobs, 2 files, 3 contents, five scenarios, symmetry | `LibraryKept`, `LaunchMatchesDigest`, `PinsHeld`, `SavesBuildOnEachOther` |

The type invariants are in no run: each is a theorem (`TypeCorrect` of the proof modules,
and a part of the invariant of the others).

**Bounds.** `MaxCrashes` counts process deaths and server stops together, `MaxFaults`
failing file operations. Two deaths are what the interesting cases need: one leaves
a torn memory or a journal, the other is either a second worker on top of it or the
server whose startup then meets both. Jobs and saves that follow each other on one memory
are the instance of `publication_atomic`, and of the theorems. Three deaths in `lifecycle`
allow a worker, a submitter and the server. Two faults are a failing step and a failing step
of the rollback. Two files are the least that can be mixed; two payloads distinguish
old from new, and the contents an agent may leave include one that changes a file and
one that drops a file. Two jobs compete for one lock; a third behaves as the second
does. Jobs and saves happen once each: a finished one leaves nothing on disk that a
later one reads, except what `canonical` and the records say. In `decisions`, two
requests that submit a job are a decision with a retry, two decisions at once, or two
retries of which one is refused; the verification is the writer whose reading may be
older than both. Two deaths and two stops let a worker die before each of its projections
with a startup pass after each. In `dispatch` nothing bounds the number of days or
cycles; a day of six ticks with an interval and a slack of two has a window that
ends before midnight and cycles before, in and after it, a slack of two lets both a late
marker and a late look delay a periodic routine, a daily limit of one is reached
and left on any day, and an offset of one tick makes UTC and local date differ. A limit
of one is the least that has all cases, since only "reached or not" is ever asked.

In `configuration`, a page's save has no memory of earlier ones but the file, and three
are what it takes to get from each of the files to a group, its agent, and the page that
could break it; the directories are chosen so that one group lies in the other's
workspace, one extra root lies in a store, and one does not exist. In `administration`,
`MaxOps` counts the operations that are begun: two overlap, and the third actor is the
job or the user who writes; the first file has an agent with two memories to move and a
group to move it to, the second an agent on a channel, the third a channel that can be
deleted and whose file can change under the deletion. `MaxFaults` is one failure or death.
In `compilation`, `Budgets` is a set of five scenarios that share the state space: pages
that save three times with two failures and a death, pages with a user who edits by hand,
two jobs with damage to their artifact, a page and two jobs, one job under whose scan
files change twice. `Attempts` is the code's three. The theorems below have none of these
bounds.

**Fairness.** A live process keeps taking steps (an agent has a timeout that the
worker enforces), so each worker, each submitter and the transaction of the lock
holder are weakly fair. The server is restarted by the service manager
(`Restart=always`), so the startup steps are weakly fair. A waiting worker polls
every 50 ms without a queue: it gets a lock that is free again and again, not one
that is free for a moment, hence strong fairness of `Acquire` and `StartJob`. No
fairness is given to deaths, faults, users or cancellations. `Configuration`, `Administration` and
`Compilation` state safety only. `Dispatch` needs no fairness: it bounds
the time that may pass before the timer starts a cycle and before that cycle ends, and
what must happen is stated as an invariant with a deadline.

**Deadlock** is checked in the runs of publication, lifecycle, decisions and dispatch. There
`Quiet`, where a system ends, is the stuttering step of one whose operations have all
ended; a state from which nothing but that is possible while a worker still waits would be
reported. It is not checked in `configuration`, `administration` and `compilation`, which
stop when the bounded operations are used up. That operations on the configuration do not
wait for each other in a circle is the invariant `OrderedLocks` instead, and the theorem
`OperationsDoNotDeadlock`.

### What the violated runs show

* `publication_torn`: a process that dies between two file moves (or while it writes
  the backup) leaves a memory that startup recovery refuses to resolve, although the
  backup is complete in the first case; a test says recovery keeps the complete old
  or new files. What does hold is `TornIsRecoverable`: nothing is lost.
* `publication_race`: recovery lists the journals once; a worker that publishes and
  dies after that has its job failed by the pass over the records, and its journal is
  refused from then on. Of a job whose journal is on the list the memory does decide: that
  is the theorem `RecoveryGoesByTheMemory`.
* `decisions_phantom`: `decide` and `retry` catch `JobSubmissionError` alone. Any other
  exception of a submission (a configuration conflict after three attempts, an invalid
  path, a compilation error) leaves a decision that claims a pending run; no job exists
  that could ever change it, and `retry` refuses a pending decision.
* `lifecycle_pin`: a job that is cancelled before its worker claims it never has its
  artifact unpinned, neither by the worker nor by the startup pass. It is the only pin that
  a living process leaves: that is the theorem `PinsAreAccountedFor`.

### What the passing runs rely on

Some properties have a condition because the code needs it; each was met as a
counterexample first.

* The clean-up after a direct save lies outside the `try` that turns failures into
  `MemoryPublicationError` (`memory/publication.py:249`): an operation that fails there
  raises to the user although the memory was replaced, and a later form shows the new
  content. `IsAtomic` allows an exception as the answer to a save whether it took effect or
  not; `failed` and a refusal it allows only when it did not, `saved` only when it did.
* The pass over the records skips what recovery has set aside, before it releases pins and
  projects ends (`jobs/reconciliation.py:115`), ended jobs included. One journal is enough for
  its job, and a failure of recovery as a whole for every job. Such jobs may stay active
  (`DeadJobsResolved`, `StartupResolves`) and their decisions may go on showing a run that is
  over (`StartupShows`) until a later startup; the three properties except these jobs and no
  others. In `DeadJobsResolved` it is not enough that there is a journal.
* A group that is saved as unrestricted, and a move into an unrestricted group, leave an
  agent that inherits its mode with roots it may not have: its next run is refused.
  `SavesKeepAgentsRunnable` therefore speaks of pages that leave the group's mode alone.
* The roots of a group without a mode are checked by nobody, and an agent of it whose own
  mode is restricted writes to them: `RunsCannotReachStores` leaves them out.
* A revision is the digest of the file, so a file that is changed and changed back passes
  every comparison. The pages that take no group lock compare the file with that of their
  form and then save the one they loaded in between. With three operations they can undo a
  change of another page in this way, a move among them: the file moves on, the page loads
  it, the file moves back, the page saves. `MoveIsWhole` and `JobsKeepHome` therefore speak
  of behaviours without such a return (`~reverted`), for any number of operations.
* The deletion of a channel looks for active jobs in the groups it has locked. A group that
  is created meanwhile, with an agent and a job on the channel, is not among them; the save
  then finds another revision, but the directory has been set aside under the job.
  `JobsKeepHome` speaks of the groups the deletion knew.
* A late failure of the write of a committed move rolls its memories back although the
  file has the agent at its new group; the memories of the old group are still there, which
  is why `MemoryKept` holds and `MoveIsWhole` speaks of the step.
* An error other than a conflict leaves a channel's memory in the archive although the
  channel is still configured; nothing restores it. `MemoryKept` counts the archive.
* A snapshot compares the stamp of a file before it reads it. A file that is written
  between the two is read new with the old stamp, so a snapshot may be a mixture of two
  versions: `LaunchMatchesDigest` says that the job gets what was read, and
  `SavesBuildOnEachOther` leaves out files that were edited by hand.
* A launch view of an artifact that is removed meanwhile may be empty or partial, without an
  error, and a pin does not prevent the removal: nothing in the code looks at pins before it
  moves an artifact away. `LaunchMatchesDigest` is conditional on `late`.
* A death between the two moves of a save leaves no blueprint, and a backup that nothing
  restores: `LibraryKept` counts it.

## 4. Proofs

`JobLifecycleProofs` is about any set of jobs and any number of deaths
(assumption: `LifecycleAssumption`, `Nobody` is no job and the bound is a number).

None of the properties is inductive alone. That a cancelled job never runs depends
on the worker's position agreeing with the status it last wrote; that depends on
nobody else moving the record from there, and so on where the submitter and the
startup pass can be; a recovery that marks a job must not meet a worker that is
before its publication, which is `JournalAgrees` with the lock. `Inv` is the
conjunction of `TypeOK`, `Coherent` (the agreement of status, submitter, worker, lock
and journal, and of the record the pass has in hand) and `PinnedWhileNeeded`. It is
shown for the initial states, and preserved by the submitter's, the worker's and the
server's steps in one lemma each, one case per action. From it follow the state
theorems `TypeCorrect`, `PartsAgree`, `CancelledJobsNeverRun` and
`ArtifactStaysPinned`. The action theorems `EndedJobsStayEnded` and
`StartupFailsOnlyTheDead` use it for the state before the step; for the latter the
point is that a worker that left by itself has ended its job, so the pass's outdated
view no longer matches the record.

Three more theorems follow the same invariant. `PinsAreAccountedFor` is
`Spec => []PinsAccounted`: a pin is that of a submission under way or dead, of a worker that
has not left, or of a cancelled job. It is inductive with `Inv`, which says where the
submitter is when the record is queued. `StartupOverlooksNone` is the safety half of
`StartupResolves`: a dead worker's job that is unsettled stays `Ahead` of the pass, on its
list or in its hand with a view that still holds, until it is settled or the server stops;
nobody else can move its record but a user who cancels it. `LivesFollowTheRecords` is
`Spec => RecordsFollow`, with one step of `JobRecord` or a stutter for every action: the
guards that make it so are the worker's positions, of which `Inv` says the status.

`MemoryPublicationProofs` is about any files, payloads, jobs and saves, and any
bounds on deaths and faults, unless the theorem says otherwise. `Inv` is a
conjunction of parts that need each other: `HolderAgrees` (the lock's holder and its
program counter), `Unclaimed` (what is on disk when nobody runs), `TxnAgrees` (at
each step of a transaction, what `canonical`, `stage`, `backup` and the journal can
be), `EndAgrees` (what a record says while its journal is being removed),
`JournalBacked`, and `CompleteMeansPublished`. The step from `JournalBacked` to the
theorems is the observation that only the holder of the lock and the recovery touch
the four places, and recovery acts only when nobody holds the lock. `TornInv` adds, for
behaviours in which no operation has failed, a journal with a complete published
backup as long as the memory is torn, and what the cleanup has not removed yet.
`IntactInv` says for behaviours without a death and with one fault at most that the
memory is torn only while its holder is at work on it, with a published content to go
back to. Both are conditional on the counters `crashes` and `faults` and hold for
every value of the bounds; with a second fault the code really leaves a mixture.

Five theorems are about the records and the users. `RecordsFollowTheTransitions` is the
refinement of `JobRecord`: that recovery and the cleanup after a publication never come over
an end needs `EndAgrees` and the positions in `TxnAgrees`. `RefusedJournalsStay` says that
no step changes the journal or the record of a job that recovery has set aside and that
nobody works on: the pass over the records, the other jobs and the saves leave it to the
operator. With the agreement of the pass's lists (`StartupAgrees`), `StartupOverlooksNone` is the safety half of
`DeadJobsResolved` and `RecoveryGoesByTheMemory` what holds instead of `PublishedIsNotFailed`.
`ConfirmedSavesLoseNothing` is what a user gets from comparing revisions: whoever published
since the form was shown, a save that is answered *saved* has left the memory of the form
with the one file changed. `SaveAgrees` carries what was seen from the comparison through
every step of the transaction to the answer; a save whose publication is rolled back, also
after the memory was replaced, is never confirmed.

`MemoryRefinementProofs` shows `Spec => IsAtomic` for `MaxCrashes = 0` and
`MaxFaults <= 1`, with one lemma per group of actions that maps each step to a step
of `AtomicMemory` or a stutter; a failing clean-up is the `Report` of an exception together
with the end of the turn. Neither assumption can be dropped: `publication_torn`
is the counterexample with a death.

`DecisionsFollowTheRecords` closes the third refinement of `JobRecord`: what `Decisions`
takes the outcomes of jobs to be is allowed by the records' transitions, also where the
startup pass fails a job whose record it read before.

`DecisionsProofs` is about any number of requests, deaths and stops, and any
interleaving: `DecisionsTellTheTruth` is `Spec => []ShownIsTrue`. What makes it hold
without a lock is that the end of a job is stable. `Held` says that every content that
may still be written (the file, what a request has seen, what a projection has read) is
`Truthful`: if it shows an end, the job it names has had that end. Old readings stay
truthful, so writing them back late does no harm to the truth, although it may lose
what was written in between. A projection adds a status to the job it has compared with;
`JobAgrees` says that the worker's step and its record go together, so that status is
the job's own, and `HandAgrees` and `SeenAgrees` say the same of the startup pass and
of the requests.

The other seven properties of `Decisions` are about what the writers leave in the file,
and follow from `Inv` and `HistoryInv`. `HistoryInv` has two halves. As long as
nobody has written from an outdated reading (`~overtaken`), `Current` holds: the decision
names every job that was launched, as the current one while it is under way or about to be
submitted (`Named`, from which `OneActive` and `NoJobForgotten` follow; retry keeps it
because a decision that may be retried shows an end, and `Held` says that end is true);
a worker that is gone and whatever the startup pass owes is settled (`EndsSettled`,
`OwedSettled`, with the record in the pass's hand or still to be looked at until then, and
without what recovery has set aside); a
pending run is about to be submitted or was launched (`Backed`). As long as requests do not
overlap and the server has not stopped, `KnowsFile` says that whoever will write has
read the file as it is, which is why nobody is overtaken: retry and verify wait until no
worker is left that could write, and requests are served one after the other
(`OneByOne`). The two halves need each other: `KnowsFile` keeps `overtaken` false, and
`Current` bounds what a writer that is not overtaken can find. The proof needs that the
absent file is no decision (`NoFileAssumption`).

`DispatchProofs` is about any routines, periods, targets, limit, interval and length of the
day (`DispatchAssumption`: what matters is that `Order` lists every routine), and shows all
five properties of `Dispatch`. For `AtOncePerDay` and `EverySpaced`: what a cycle saw
when it chose a routine is still so when it submits it, unless another cycle runs
(`StillDue`); a submission whose marker was touched left a marker that is as young as the
submission and of the same day, unless the day had changed (`Marked`); and if the cycle's
day is no longer today, nothing it submitted today has a marker of today (`OverMidnight`).
So a routine that was submitted today and is submitted again has lost its marker to one
of the three circumstances. `PromptInv` is about the other side, how long a routine may have
been waiting. `Lag` is the time since the timer began the last cycle that has come past a
routine: at most an interval and the time of the present cycle, which `TimerAgrees` bounds
by `Slack`. `EveryAgrees` says that at that time the marker of a periodic routine was still
young, and is no younger than the submission by more than `Slack`; `AtAgrees` that a routine
not submitted today was still before its target. A look that finds neither must find the
routine due, and then it is submitted or hindered. Hence the bounds of `EveryInTime` (an
interval and twice the slack: once between a submission and its marker, once between the
start of a cycle and its look) and of `AtRunsDaily` (a window that ends before midnight).
`LimitStops` needs `BegunBefore` only.

`ConfigurationProofs` is about any groups, agents, routines, channels, directories and
hand-written files. `AcceptedIsResolved` needs no invariant: on every mapping whatever, the
parser's test of a selector at its place (`SelectorIsValid`, with or without routines)
implies the resolver's, and an inherited selector comes from a place with the stronger
test. `StoresAreOutOfReach` goes through `ApartOrOverlap`: two sequences of names overlap
or differ at some position, so that what `PathsAreValid` says of authorities and checked
roots is what is wanted of every path below them. `SavesKeepThemRunnable` has one lemma per
page, which says that the agents it leaves have their mode, roots and group mode; it needs
`TypeCorrect`, that a file that parses has the right shape whatever page wrote it.

`AdministrationProofs` is about any groups, agents, memories, paths, processes and jobs,
any number of operations and faults, and any strict order of the locks that puts group
roots first. `Inv` has five parts. `OperationsAgree` is about one operation alone: at each
step, the kind of its request, the locks it still needs, and for a move that its form has
the agent, that it goes to another group, and what it has made. `HoldersAgree` adds what it
holds at each step, so that `NextLock` keeps the order (`LocksInOrder`): group locks are
complete before memory locks are chosen, and an operation that tries again has let go of
all. `OperationsDoNotDeadlock` draws the conclusion: in a set of operations where each
waits for a lock of another, whoever holds the lock that one waits for itself waits for a
later one; the sets `Later(W, p)` of those that wait for a later lock then shrink for
ever, and a finite set has no such sequence of subsets. `MovesAgree` is about a move and the memories it has locked: no text was ever written
at its destinations, and each it has made is the copy of its source as it is now. It is
stable since nobody changes a memory that another process has locked (`Untouched`), and it
is established by `CheckMove` from `MemoryKept`: a memory that is not there, and is no
channel's, has never been written. With it `WritesAreKept` follows: a rollback removes
destinations only; and `CommittedMoves`: the step that saves a move finds the copies whole.
`MovesAreWhole` and `JobsKeepTheirHome` add that no other step moves an agent, which needs
`FilesInv`: as long as the file has not returned, who is past its second load holds the
lock of each of its groups at the path the file gives it now (`Guarded`), with the agent of
a submission still there, and no active job at the agent of a move or on the channel of a
deletion. Another operation's save cannot disturb it (`FilesOfOthers`): a change of a path,
of a group's existence or of an agent's comes from an operation that is itself `Guarded`
over the same group (`PatchedPaths`, `PatchedUses`), and one lock has one owner; for those
that are still waiting, a changed file fails the comparison (`Noted`).

`CompilationProofs` is about any requests of the page, any jobs, trees of any number of
files, and any budgets. The parts of `Inv` follow the resources. `LockHeld`: who is past
`Save` has the page's lock. `Replacing`: at each step of a replacement, where the
directory, the stage and the backup are. `LibraryKept` is inductive with these. `Fresh`: a
file that a snapshot has read and that was not edited by hand is still as it was read,
since only the holder of the lock replaces the directory; `SavesBuild` follows, for the
digest that is compared is that of the form. `ViewsMatch`: a job that found its artifact
intact still has it intact, or `late`; the point is that a submission quarantines an entry
only under the lock of its digest and after it found it not intact. `PinsHeld` is inductive
alone: only the owner removes a pin, and the directory goes only when it is empty.

Only model-checked: the liveness properties (`SubmittedEnds`, `StartupResolves`,
`DeadJobsResolved`), since temporal proofs under fairness are beyond the prover. Of the two
about the startup, the safety half is proved (`StartupOverlooksNone` of both modules): what
is left to TLC is that the pass comes to an end.

## 5. Not modelled

Rendering, setup, workspaces, command lines of integrations: no state that outlives a
request. Symbolic links and permissions of directories, the refusal of a policy by an
integration, schedules and display names in the configuration: data that no property
tells apart. The manifests and the layout of artifacts. File system crashes below the level
of a completed call (lost or torn writes): `fs/atomic.py` syncs files and directories to
exclude them. Reuse of a dead worker's process number and `systemd-run` reporting an error
after it started the unit: they need the operating system's state. The status of every
component is in `PROJECT.json`.

## 6. Plan

1. `ExclusiveLock`: the thread lock in front of the file lock, with timeouts; shown to
   implement the lock variables the other modules use.
2. Validation of answers, and the profile and dispatch fields of the agent pages.
