---------------------------- MODULE JobLifecycle ----------------------------
(***************************************************************************)
(* The life of the jobs bound to one memory, from submission to the end of  *)
(* their workers, and the processes that touch their records:               *)
(*                                                                         *)
(*   jobs/submission.py      pins the compiled artifact, creates the record *)
(*                           and launches a worker                          *)
(*   jobs/execution.py       the worker: claims the record, waits for the   *)
(*                           memory lock, runs the agent, publishes         *)
(*   web/routes/jobs.py      the user cancels                               *)
(*   jobs/reconciliation.py  the startup pass of the server                 *)
(*   jobs/store.py           the transitions these go through               *)
(*                                                                         *)
(* A transition reads and writes the record under the record's own lock and *)
(* is one step here.  The publication of the memory is MemoryPublication's  *)
(* subject: here it is the interval in which a journal exists.              *)
(***************************************************************************)
EXTENDS Naturals

CONSTANTS
    Jobs,
    Nobody,      \* the holder of a free memory lock
    MaxCrashes   \* bound on process deaths and server restarts

ASSUME LifecycleAssumption == Nobody \notin Jobs /\ MaxCrashes \in Nat

VARIABLES
    status,   \* status of the record; "absent" before it is created
    pin,      \* whether the artifact is pinned for the job
    journal,  \* whether a publication journal of the job exists
    sub,      \* next step of the submitting process
    wrk,      \* next step of the worker process
    holder,   \* the job whose worker holds the memory lock
    srv, todo, blocked,  \* the startup pass of the server
    hand,     \* the job whose record the pass has read and not yet dealt with
    view,     \* the status it read
    crashes

records == <<status, pin, journal>>
actors  == <<sub, wrk, holder>>
server  == <<srv, todo, blocked, hand, view>>
vars    == <<records, actors, server, crashes>>

Active == {"queued", "waiting_for_memory", "running"}
Ended == {"complete", "failed", "cancelled"}

\* The steps of a worker that holds the memory lock.
Inside == {"locked", "staged", "running", "publishing", "published", "cleaning"}

TypeOK ==
    /\ status \in [Jobs -> {"absent"} \cup Active \cup Ended]
    /\ pin \in [Jobs -> BOOLEAN]
    /\ journal \in [Jobs -> BOOLEAN]
    /\ sub \in [Jobs -> {"idle", "pinned", "created", "unpin", "record", "done", "gone"}]
    /\ wrk \in [Jobs -> {"none", "starting", "waiting", "leaving", "exited", "dead"} \cup Inside]
    /\ holder \in Jobs \cup {Nobody}
    /\ srv \in {"down", "recovering", "reconciling", "serving"}
    /\ todo \subseteq Jobs /\ blocked \subseteq Jobs
    /\ hand \in Jobs \cup {Nobody}
    /\ view \in {"none", "running", "waiting_for_memory"}
    /\ crashes \in Nat

Init ==
    /\ status = [j \in Jobs |-> "absent"]
    /\ pin = [j \in Jobs |-> FALSE]
    /\ journal = [j \in Jobs |-> FALSE]
    /\ sub = [j \in Jobs |-> "idle"]
    /\ wrk = [j \in Jobs |-> "none"]
    /\ holder = Nobody
    /\ srv = "serving" /\ todo = {} /\ blocked = {} /\ hand = Nobody /\ view = "none"
    /\ crashes = 0

----------------------------------------------------------------------------
\* The valid transitions of a record.
ValidTransitions ==
    [ queued             |-> {"waiting_for_memory", "running", "failed", "cancelled"},
      waiting_for_memory |-> {"running", "failed", "cancelled", "complete"},
      running            |-> {"complete", "failed"} ]

\* Mutant: the record is not compared with the expected status.
TransitionUnchecked(j, from, to) ==
    /\ status[j] # "absent"
    /\ to \in ValidTransitions[from]
    /\ status' = [status EXCEPT ![j] = to]

\* transition_job(expected, status) succeeds.
Transition(j, from, to) ==
    /\ status[j] = from
    /\ to \in ValidTransitions[from]
    /\ status' = [status EXCEPT ![j] = to]

\* Mutant: only a job that got to run is failed.
TerminalizeRunningOnly(j) ==
    status' = IF status[j] = "running" THEN [status EXCEPT ![j] = "failed"] ELSE status

\* _terminalize_failure: fails an active record, leaves any other alone.
Terminalize(j) ==
    status' = IF status[j] \in {"running", "waiting_for_memory"}
              THEN [status EXCEPT ![j] = "failed"] ELSE status

Goto(p, j, l) == p' = [p EXCEPT ![j] = l]

\* The lock goes with the process that holds it.
LetGo(j) == holder' = IF holder = j THEN Nobody ELSE holder

\* Mutant: a worker leaves without releasing the lock.
LeaveLockHeld(j) == Goto(wrk, j, "leaving") /\ UNCHANGED holder

\* Leaving the with-block of the memory lock, on the way to the finally clause.
LeaveLock(j) == LetGo(j) /\ Goto(wrk, j, "leaving")

----------------------------------------------------------------------------
(* The submitting process.                                                 *)

Pin(j) ==
    /\ sub[j] = "idle" /\ Goto(sub, j, "pinned")
    /\ pin' = [pin EXCEPT ![j] = TRUE]
    /\ UNCHANGED <<status, journal, wrk, holder, server, crashes>>

Create(j) ==
    /\ sub[j] = "pinned" /\ Goto(sub, j, "created")
    /\ status' = [status EXCEPT ![j] = "queued"]
    /\ UNCHANGED <<pin, journal, wrk, holder, server, crashes>>

Launch(j) ==
    /\ sub[j] = "created" /\ Goto(sub, j, "done")
    /\ Goto(wrk, j, "starting")
    /\ UNCHANGED <<records, holder, server, crashes>>

\* The record cannot be created, or the launcher cannot start a worker...
SubmitFails(j) ==
    /\ sub[j] \in {"pinned", "created"} /\ Goto(sub, j, "unpin")
    /\ UNCHANGED <<records, wrk, holder, server, crashes>>

\* ...the pin is released...
Unpin(j) ==
    /\ sub[j] = "unpin" /\ Goto(sub, j, "record")
    /\ pin' = [pin EXCEPT ![j] = FALSE]
    /\ UNCHANGED <<status, journal, wrk, holder, server, crashes>>

\* ...and a failed record is written over whatever is there, a cancelled one included.
RecordLaunchError(j) ==
    /\ sub[j] = "record" /\ Goto(sub, j, "done")
    /\ status' = [status EXCEPT ![j] = "failed"]
    /\ UNCHANGED <<pin, journal, wrk, holder, server, crashes>>

----------------------------------------------------------------------------
\* Mutant: a running job can be cancelled as well.
CancelActive(j) ==
    /\ status[j] \in Active
    /\ status' = [status EXCEPT ![j] = "cancelled"]
    /\ UNCHANGED <<pin, journal, actors, server, crashes>>

\* The user cancels a job that does not run yet.
Cancel(j) ==
    /\ status[j] \in {"queued", "waiting_for_memory"}
    /\ status' = [status EXCEPT ![j] = "cancelled"]
    /\ UNCHANGED <<pin, journal, actors, server, crashes>>

----------------------------------------------------------------------------
(* The worker.                                                             *)

Claim(j) ==
    /\ wrk[j] = "starting" /\ Goto(wrk, j, "waiting")
    /\ Transition(j, "queued", "waiting_for_memory")
    /\ UNCHANGED <<pin, journal, sub, holder, server, crashes>>

\* The record is no longer queued: the exception leaves execute_job before its try, so
\* that the finally clause with the pin is never reached.
ClaimRefused(j) ==
    /\ wrk[j] = "starting" /\ status[j] # "queued" /\ Goto(wrk, j, "exited")
    /\ UNCHANGED <<records, sub, holder, server, crashes>>

\* The poll between two attempts at the lock sees the cancellation.
SeeCancelled(j) ==
    /\ wrk[j] = "waiting" /\ status[j] = "cancelled" /\ Goto(wrk, j, "leaving")
    /\ UNCHANGED <<records, sub, holder, server, crashes>>

\* The context of the run cannot be resolved, or a look at the record raises.
WaitFails(j) ==
    /\ wrk[j] = "waiting" /\ Goto(wrk, j, "leaving")
    /\ Terminalize(j)
    /\ UNCHANGED <<pin, journal, sub, holder, server, crashes>>

Acquire(j) ==
    /\ wrk[j] = "waiting" /\ holder = Nobody
    /\ holder' = j /\ Goto(wrk, j, "locked")
    /\ UNCHANGED <<records, sub, server, crashes>>

\* Cancelled between the poll and the lock.
CancelledInside(j) ==
    /\ wrk[j] = "locked" /\ status[j] = "cancelled"
    /\ LeaveLock(j)
    /\ UNCHANGED <<records, sub, server, crashes>>

\* The memory is staged and the launch view copied from the pinned artifact.
Stage(j) ==
    /\ wrk[j] = "locked" /\ status[j] # "cancelled" /\ Goto(wrk, j, "staged")
    /\ UNCHANGED <<records, sub, holder, server, crashes>>

\* Staging raises, or the transition to running does because the job was cancelled after
\* the last look at its record.
StartFails(j) ==
    /\ \/ wrk[j] = "locked"
       \/ wrk[j] = "staged" /\ status[j] # "waiting_for_memory"
    /\ Terminalize(j)
    /\ LeaveLock(j)
    /\ UNCHANGED <<pin, journal, sub, server, crashes>>

StartRun(j) ==
    /\ wrk[j] = "staged" /\ Goto(wrk, j, "running")
    /\ Transition(j, "waiting_for_memory", "running")
    /\ UNCHANGED <<pin, journal, sub, holder, server, crashes>>

\* The agent exits with another code than 0, times out, or the run raises.
RunFails(j) ==
    /\ wrk[j] = "running"
    /\ Terminalize(j)
    /\ LeaveLock(j)
    /\ UNCHANGED <<pin, journal, sub, server, crashes>>

RunSucceeds(j) ==
    /\ wrk[j] = "running" /\ Goto(wrk, j, "publishing")
    /\ journal' = [journal EXCEPT ![j] = TRUE]
    /\ UNCHANGED <<status, pin, sub, holder, server, crashes>>

\* The publication raises.  Its rollback removes the journal, unless it fails as well.
PublishFails(j) ==
    /\ wrk[j] = "publishing"
    /\ Terminalize(j)
    /\ \/ journal' = [journal EXCEPT ![j] = FALSE]
       \/ UNCHANGED journal
    /\ LeaveLock(j)
    /\ UNCHANGED <<pin, sub, server, crashes>>

Publish(j) ==
    /\ wrk[j] = "publishing" /\ Goto(wrk, j, "published")
    /\ UNCHANGED <<records, sub, holder, server, crashes>>

Complete(j) ==
    /\ wrk[j] = "published" /\ Goto(wrk, j, "cleaning")
    /\ Transition(j, "running", "complete")
    /\ UNCHANGED <<pin, journal, sub, holder, server, crashes>>

\* The record cannot be written in _mark_complete: the job fails, the journal stays.
CompleteFails(j) ==
    /\ wrk[j] = "published"
    /\ Terminalize(j)
    /\ LeaveLock(j)
    /\ UNCHANGED <<pin, journal, sub, server, crashes>>

\* The journal goes, unless its removal fails; the record has ended in any case.
CleanUp(j) ==
    /\ wrk[j] = "cleaning"
    /\ \/ journal' = [journal EXCEPT ![j] = FALSE]
       \/ UNCHANGED journal
    /\ LeaveLock(j)
    /\ UNCHANGED <<status, pin, sub, server, crashes>>

\* The finally clause of execute_job.
ReleasePin(j) ==
    /\ wrk[j] = "leaving" /\ Goto(wrk, j, "exited")
    /\ pin' = [pin EXCEPT ![j] = FALSE]
    /\ UNCHANGED <<status, journal, sub, holder, server, crashes>>

----------------------------------------------------------------------------
(* Deaths.                                                                 *)

CrashWorker(j) ==
    /\ wrk[j] \notin {"none", "exited", "dead"} /\ Goto(wrk, j, "dead")
    /\ LetGo(j)
    /\ crashes < MaxCrashes /\ crashes' = crashes + 1
    /\ UNCHANGED <<records, sub, server>>

CrashSubmitter(j) ==
    /\ sub[j] \in {"pinned", "created", "unpin", "record"} /\ Goto(sub, j, "gone")
    /\ crashes < MaxCrashes /\ crashes' = crashes + 1
    /\ UNCHANGED <<records, wrk, holder, server>>

StopServer ==
    /\ srv # "down" /\ srv' = "down" /\ todo' = {} /\ blocked' = {}
    /\ hand' = Nobody /\ view' = "none"
    /\ crashes < MaxCrashes /\ crashes' = crashes + 1
    /\ UNCHANGED <<records, actors>>

----------------------------------------------------------------------------
(* Startup of the server.                                                  *)

StartServer ==
    /\ srv = "down" /\ srv' = "recovering"
    /\ todo' = {j \in Jobs : journal[j]} /\ blocked' = {}
    /\ UNCHANGED <<records, actors, hand, view, crashes>>

\* Recovery as a whole raises: the pass leaves every job alone.
StartWithoutRecovery ==
    /\ srv = "down" /\ srv' = "reconciling"
    /\ todo' = {j \in Jobs : status[j] # "absent"} /\ blocked' = Jobs
    /\ UNCHANGED <<records, actors, hand, view, crashes>>

\* A journal whose operation ended while the server waited for the memory lock.
SkipJournal(j) ==
    /\ srv = "recovering" /\ j \in todo /\ holder = Nobody /\ ~journal[j]
    /\ todo' = todo \ {j}
    /\ UNCHANGED <<records, actors, srv, blocked, hand, view, crashes>>

\* Recovery resolves a journal: by what it finds in the memory, the job completes or
\* fails, or a record that already says so keeps it.
Recover(j, s) ==
    /\ srv = "recovering" /\ j \in todo /\ holder = Nobody /\ journal[j]
    /\ status[j] \in {"running", s}
    /\ status' = [status EXCEPT ![j] = s]
    /\ journal' = [journal EXCEPT ![j] = FALSE]
    /\ todo' = todo \ {j}
    /\ UNCHANGED <<pin, actors, srv, blocked, hand, view, crashes>>

\* The same with a clean-up that fails, before or after the journal is gone: the record has
\* ended and the job is left alone in this pass.
RecoverUnclean(j, s) ==
    /\ srv = "recovering" /\ j \in todo /\ holder = Nobody /\ journal[j]
    /\ status[j] \in {"running", s}
    /\ status' = [status EXCEPT ![j] = s]
    /\ \E kept \in BOOLEAN : journal' = [journal EXCEPT ![j] = kept]
    /\ todo' = todo \ {j} /\ blocked' = blocked \cup {j}
    /\ UNCHANGED <<pin, actors, srv, hand, view, crashes>>

\* Recovery needs the operator, or raises: the job is left alone in this pass.
Refuse(j) ==
    /\ srv = "recovering" /\ j \in todo /\ holder = Nobody /\ journal[j]
    /\ todo' = todo \ {j} /\ blocked' = blocked \cup {j}
    /\ UNCHANGED <<records, actors, srv, hand, view, crashes>>

\* Mutant: the pass visits running jobs alone.
EndRecoveryRunningOnly ==
    /\ srv = "recovering" /\ todo = {}
    /\ srv' = "reconciling" /\ todo' = {j \in Jobs : status[j] = "running"}
    /\ UNCHANGED <<records, actors, blocked, hand, view, crashes>>

EndRecovery ==
    /\ srv = "recovering" /\ todo = {}
    /\ srv' = "reconciling" /\ todo' = {j \in Jobs : status[j] # "absent"}
    /\ UNCHANGED <<records, actors, blocked, hand, view, crashes>>

\* Nothing to do: recovery has set the job aside, or the record is queued or cancelled.
LeaveAlone(j) ==
    /\ srv = "reconciling" /\ j \in todo /\ hand = Nobody
    /\ j \in blocked \/ status[j] \in {"queued", "cancelled"}
    /\ todo' = todo \ {j}
    /\ UNCHANGED <<records, actors, srv, blocked, hand, view, crashes>>

\* A job that completed or failed lets go of its pin.
ReleaseEnded(j) ==
    /\ srv = "reconciling" /\ j \in todo /\ hand = Nobody
    /\ j \notin blocked /\ status[j] \in {"complete", "failed"}
    /\ pin' = [pin EXCEPT ![j] = FALSE]
    /\ todo' = todo \ {j}
    /\ UNCHANGED <<status, journal, actors, srv, blocked, hand, view, crashes>>

\* The pass reads the record of a claimed job...
LookAt(j) ==
    /\ srv = "reconciling" /\ j \in todo /\ hand = Nobody
    /\ j \notin blocked /\ status[j] \in {"running", "waiting_for_memory"}
    /\ hand' = j /\ view' = status[j]
    /\ todo' = todo \ {j}
    /\ UNCHANGED <<records, actors, srv, blocked, crashes>>

\* Mutant: a worker that does not hold the memory lock counts as absent.
UnlockedIsAbsent(j) == wrk[j] \notin Inside

\* worker_alive, called later: the process the record names no longer exists.
Absent(j) == wrk[j] \in {"exited", "dead"}

\* ...and drops it when its worker may live, or when the record has changed meanwhile
\* (the transition refuses)...
PutDown ==
    /\ hand # Nobody
    /\ ~Absent(hand) \/ status[hand] # view
    /\ hand' = Nobody /\ view' = "none"
    /\ UNCHANGED <<records, actors, srv, todo, blocked, crashes>>

\* Mutant: what the pass read earlier is taken for the status of the record.
FailAbsentStale ==
    /\ hand # Nobody /\ Absent(hand)
    /\ status' = [status EXCEPT ![hand] = "failed"]
    /\ pin' = [pin EXCEPT ![hand] = FALSE]
    /\ hand' = Nobody /\ view' = "none"
    /\ UNCHANGED <<journal, actors, srv, todo, blocked, crashes>>

\* ...or fails a job whose worker is gone and releases its pin.
FailAbsent ==
    /\ hand # Nobody /\ Absent(hand)
    /\ Transition(hand, view, "failed")
    /\ pin' = [pin EXCEPT ![hand] = FALSE]
    /\ hand' = Nobody /\ view' = "none"
    /\ UNCHANGED <<journal, actors, srv, todo, blocked, crashes>>

EndReconcile ==
    /\ srv = "reconciling" /\ todo = {} /\ hand = Nobody /\ srv' = "serving"
    /\ UNCHANGED <<records, actors, todo, blocked, hand, view, crashes>>

----------------------------------------------------------------------------
\* Nothing is under way: every job ended, or a death left it to the next startup.
Quiet ==
    /\ srv = "serving"
    /\ \A j \in Jobs : sub[j] \in {"done", "gone"} /\ wrk[j] \in {"none", "exited", "dead"}
    /\ UNCHANGED vars

Submit(j) == Create(j) \/ Launch(j) \/ SubmitFails(j) \/ Unpin(j) \/ RecordLaunchError(j)

\* The steps of a worker but Acquire and WaitFails.
Work(j) ==
    \/ Claim(j) \/ ClaimRefused(j) \/ SeeCancelled(j) \/ CancelledInside(j)
    \/ Stage(j) \/ StartFails(j) \/ StartRun(j) \/ RunFails(j) \/ RunSucceeds(j)
    \/ PublishFails(j) \/ Publish(j) \/ Complete(j) \/ CompleteFails(j) \/ CleanUp(j)
    \/ ReleasePin(j)

Startup ==
    \/ StartServer \/ StartWithoutRecovery \/ EndRecovery \/ PutDown \/ FailAbsent \/ EndReconcile
    \/ \E j \in Jobs : \/ SkipJournal(j) \/ Refuse(j)
                       \/ Recover(j, "complete") \/ Recover(j, "failed")
                       \/ RecoverUnclean(j, "complete") \/ RecoverUnclean(j, "failed")
                       \/ LeaveAlone(j) \/ ReleaseEnded(j) \/ LookAt(j)

Next ==
    \/ \E j \in Jobs :
         \/ Pin(j) \/ Submit(j) \/ Cancel(j)
         \/ Acquire(j) \/ WaitFails(j) \/ Work(j)
         \/ CrashSubmitter(j) \/ CrashWorker(j)
    \/ StopServer \/ Startup \/ Quiet

\* A process that lives keeps taking steps: agents end by themselves or at their timeout,
\* the service manager restarts the server (Restart=always), and a waiting worker polls
\* every 50 ms, so that it wins a lock that is free again and again.
Fairness ==
    /\ WF_vars(Startup)
    /\ \A j \in Jobs : WF_vars(Submit(j)) /\ WF_vars(Work(j)) /\ SF_vars(Acquire(j))

Spec == Init /\ [][Next]_vars
FairSpec == Spec /\ Fairness

----------------------------------------------------------------------------
(* Properties.                                                             *)

\* How the parts agree.  Each worker step rests on the status that the steps before it
\* left in the record, although the user and the startup pass write the record as well.
WorkerAgrees ==
    \A j \in Jobs :
        /\ wrk[j] = "none" => status[j] \notin {"waiting_for_memory", "running"}
        /\ wrk[j] = "starting" => status[j] \in {"queued", "cancelled"}
        /\ wrk[j] \in {"waiting", "locked", "staged"} => status[j] \in {"waiting_for_memory", "cancelled"}
        /\ wrk[j] \in {"running", "publishing", "published"} => status[j] = "running"
        /\ wrk[j] = "cleaning" => status[j] = "complete"
        /\ wrk[j] \in {"leaving", "exited"} => status[j] \in Ended

SubmitterAgrees ==
    \A j \in Jobs :
        /\ sub[j] # "done" => wrk[j] = "none"
        /\ sub[j] \in {"idle", "pinned"} => status[j] = "absent"
        /\ sub[j] = "created" => status[j] \in {"queued", "cancelled"}
        /\ sub[j] \in {"unpin", "record"} => status[j] \in {"absent", "queued", "cancelled"}
        /\ sub[j] \in {"pinned", "created"} => pin[j]

\* Exactly the worker that holds the lock is inside the critical section.
LockAgrees == \A j \in Jobs : wrk[j] \in Inside <=> holder = j

JournalAgrees ==
    \A j \in Jobs : journal[j] =>
        /\ wrk[j] \notin {"none", "starting", "waiting", "locked", "staged"}
        /\ status[j] \in {"running", "complete", "failed"}

HandAgrees ==
    hand # Nobody => view # "none" /\ wrk[hand] \notin {"none", "starting"}

\* The four records of a job's progress (its status, its submitter's and its worker's
\* position, the lock, the journal) agree after every step, also after a death.
Coherent == WorkerAgrees /\ SubmitterAgrees /\ LockAgrees /\ JournalAgrees /\ HandAgrees

\* cancel_job and the worker's look at its record race at three places (the claim, the
\* poll, the step to running).  Whichever wins, a cancelled job's agent does not run and
\* nothing of it is published.
CancelledNeverRuns ==
    \A j \in Jobs : status[j] = "cancelled" =>
        /\ wrk[j] \notin {"running", "publishing", "published", "cleaning"}
        /\ ~journal[j]

\* The worker has yet to use the compiled artifact, and will get to it unless it stops.
NeedsArtifact(j) ==
    \/ wrk[j] = "starting" /\ status[j] = "queued"
    \/ wrk[j] \in {"waiting", "locked", "staged", "running"}

\* The compiled artifact stays pinned from before a worker is started until after it has
\* copied its launch view and run: neither the startup pass nor a failed launch releases
\* the pin of a job whose worker will still use the artifact.
PinnedWhileNeeded ==
    \A j \in Jobs : NeedsArtifact(j) => pin[j]

\* An ended job keeps its status, whatever a late worker, a second user or the startup
\* pass with an outdated view of the record does.  (A launch error is the one exception:
\* it overwrites a job that was cancelled before its worker could be started.)
EndedStays ==
    [][\A j \in Jobs : status[j] \in Ended =>
         status'[j] = status[j] \/ (sub[j] = "record" /\ status[j] = "cancelled")]_vars

\* The startup pass fails a job only when its worker died before the end of the job: a
\* worker that ends the job between the pass's look at the record and its look at the
\* process is not mistaken for a dead one.
OnlyTheDeadFail ==
    [][\A j \in Jobs : hand = j /\ hand' = Nobody /\ status'[j] # status[j]
         => wrk[j] = "dead"]_vars

\* A submitted job ends (waiting workers are not starved, a cancelled one leaves), unless
\* the submitter or the worker dies on the way.
SubmittedEnds ==
    \A j \in Jobs :
        status[j] \in Active ~> (status[j] \in Ended \/ wrk[j] = "dead" \/ sub[j] = "gone")

\* A startup of the server that can recover cleans up after the dead: a job whose worker died
\* while it was active ends and its artifact is unpinned, unless it is cancelled meanwhile,
\* recovery has set it aside for the operator, or the server stops again first.
StartupResolves ==
    \A j \in Jobs :
        (srv = "recovering" /\ wrk[j] = "dead" /\ status[j] \in {"running", "waiting_for_memory"})
            ~> ((status[j] \in Ended /\ (pin[j] => status[j] = "cancelled")) \/ j \in blocked \/ srv = "down")

\* What test_job_execution.py:340 (execute_job_releases_cache_pin_after_terminal_state)
\* says: when a worker has left and its job is over, the artifact is no longer pinned.
EndedWorkerLeavesNoPin ==
    \A j \in Jobs : wrk[j] = "exited" /\ status[j] \in Ended => ~pin[j]
=============================================================================
