------------------------- MODULE JobLifecycleProofs -------------------------
(***************************************************************************)
(* Proofs about JobLifecycle, for any set of jobs and any number of deaths. *)
(*                                                                         *)
(* The inductive invariant is Inv: the types, Coherent and                  *)
(* PinnedWhileNeeded.  It is shown for the submitter's and the user's, the  *)
(* worker's and the server's steps in a lemma each; the theorems follow     *)
(* from it.                                                                 *)
(***************************************************************************)
EXTENDS JobLifecycle, TLAPS

Inv == TypeOK /\ Coherent /\ PinnedWhileNeeded

\* The parts of the invariant, and the sets and helpers of the actions.
USE DEF Active, Ended, Inside

\* The initial states satisfy the invariant.
LEMMA InitInv == Init => Inv
BY LifecycleAssumption
   DEF Init, Inv, TypeOK, Coherent, WorkerAgrees, SubmitterAgrees, LockAgrees, JournalAgrees,
       HandAgrees, PinnedWhileNeeded, NeedsArtifact

\* A submission, a launch error and a cancellation keep the invariant.
LEMMA SubmissionInv ==
    ASSUME Inv, NEW j \in Jobs, Pin(j) \/ Submit(j) \/ Cancel(j) \/ CrashSubmitter(j)
    PROVE  Inv'
<1> USE LifecycleAssumption
    DEF Inv, TypeOK, Coherent, WorkerAgrees, SubmitterAgrees, LockAgrees, JournalAgrees,
        HandAgrees, PinnedWhileNeeded, NeedsArtifact, Goto, records, actors, server
<1>1. CASE Pin(j)
  BY <1>1 DEF Pin
<1>2. CASE Create(j)
  BY <1>2 DEF Create
<1>3. CASE Launch(j)
  BY <1>3 DEF Launch
<1>4. CASE SubmitFails(j)
  BY <1>4 DEF SubmitFails
<1>5. CASE Unpin(j)
  BY <1>5 DEF Unpin
<1>6. CASE RecordLaunchError(j)
  BY <1>6 DEF RecordLaunchError
<1>7. CASE Cancel(j)
  BY <1>7 DEF Cancel
<1>8. CASE CrashSubmitter(j)
  BY <1>8 DEF CrashSubmitter
<1>9. QED
  BY <1>1, <1>2, <1>3, <1>4, <1>5, <1>6, <1>7, <1>8 DEF Submit

\* So does every step of a worker, its death included.
LEMMA WorkerInv ==
    ASSUME Inv, NEW j \in Jobs, Acquire(j) \/ WaitFails(j) \/ Work(j) \/ CrashWorker(j)
    PROVE  Inv'
<1> USE LifecycleAssumption
    DEF Inv, TypeOK, Coherent, WorkerAgrees, SubmitterAgrees, LockAgrees, JournalAgrees,
        HandAgrees, PinnedWhileNeeded, NeedsArtifact, Goto, LetGo, LeaveLock, Terminalize,
        Transition, ValidTransitions, records, actors, server
<1>1. CASE Acquire(j)
  BY <1>1 DEF Acquire
<1>2. CASE WaitFails(j)
  BY <1>2 DEF WaitFails
<1>3. CASE Claim(j)
  BY <1>3 DEF Claim
<1>4. CASE ClaimRefused(j)
  BY <1>4 DEF ClaimRefused
<1>5. CASE SeeCancelled(j)
  BY <1>5 DEF SeeCancelled
<1>6. CASE CancelledInside(j)
  BY <1>6 DEF CancelledInside
<1>7. CASE Stage(j)
  BY <1>7 DEF Stage
<1>8. CASE StartFails(j)
  BY <1>8 DEF StartFails
<1>9. CASE StartRun(j)
  BY <1>9 DEF StartRun
<1>10. CASE RunFails(j)
  BY <1>10 DEF RunFails
<1>11. CASE RunSucceeds(j)
  BY <1>11 DEF RunSucceeds
<1>12. CASE PublishFails(j)
  <2>1. CASE journal' = [journal EXCEPT ![j] = FALSE]
    BY <1>12, <2>1 DEF PublishFails
  <2>2. CASE UNCHANGED journal
    BY <1>12, <2>2 DEF PublishFails
  <2>3. QED
    BY <1>12, <2>1, <2>2 DEF PublishFails
<1>13. CASE Publish(j)
  BY <1>13 DEF Publish
<1>14. CASE Complete(j)
  BY <1>14 DEF Complete
<1>15. CASE CompleteFails(j)
  BY <1>15 DEF CompleteFails
<1>16. CASE CleanUp(j)
  <2>1. CASE journal' = [journal EXCEPT ![j] = FALSE]
    BY <1>16, <2>1 DEF CleanUp
  <2>2. CASE UNCHANGED journal
    BY <1>16, <2>2 DEF CleanUp
  <2> QED
    BY <1>16, <2>1, <2>2 DEF CleanUp
<1>17. CASE ReleasePin(j)
  BY <1>17 DEF ReleasePin
<1>18. CASE CrashWorker(j)
  BY <1>18 DEF CrashWorker
<1>19. QED
  BY <1>1, <1>2, <1>3, <1>4, <1>5, <1>6, <1>7, <1>8, <1>9, <1>10, <1>11, <1>12, <1>13, <1>14, <1>15, <1>16, <1>17, <1>18 DEF Work

\* So does the server: its startup pass and its end.
LEMMA ServerInv ==
    ASSUME Inv, StopServer \/ Startup
    PROVE  Inv'
<1> USE LifecycleAssumption
    DEF Inv, TypeOK, Coherent, WorkerAgrees, SubmitterAgrees, LockAgrees, JournalAgrees,
        HandAgrees, PinnedWhileNeeded, NeedsArtifact, Absent, Transition, ValidTransitions,
        records, actors, server
<1>1. CASE StopServer
  BY <1>1 DEF StopServer
<1>2. CASE StartServer \/ StartWithoutRecovery
  BY <1>2 DEF StartServer, StartWithoutRecovery
<1>3. CASE EndRecovery
  BY <1>3 DEF EndRecovery
<1>4. CASE PutDown
  BY <1>4 DEF PutDown
<1>5. CASE FailAbsent
  BY <1>5 DEF FailAbsent
<1>6. CASE EndReconcile
  BY <1>6 DEF EndReconcile
<1>7. ASSUME NEW j \in Jobs, SkipJournal(j)
     PROVE  Inv'
  BY <1>7 DEF SkipJournal
<1>8. ASSUME NEW j \in Jobs, Refuse(j)
     PROVE  Inv'
  BY <1>8 DEF Refuse
<1>9. ASSUME NEW j \in Jobs, NEW s \in {"complete", "failed"},
             Recover(j, s) \/ RecoverUnclean(j, s)
      PROVE  Inv'
  <2>1. CASE Recover(j, s)
    BY <2>1 DEF Recover
  <2>2. CASE RecoverUnclean(j, s)
    <3>1. PICK kept \in BOOLEAN : journal' = [journal EXCEPT ![j] = kept]
      BY <2>2 DEF RecoverUnclean
    <3>2. journal' \in [Jobs -> BOOLEAN] /\ \A k \in Jobs : journal'[k] => journal[k]
      BY <2>2, <3>1 DEF RecoverUnclean
    <3> HIDE <3>1
    <3> QED
      BY <2>2, <3>2 DEF RecoverUnclean
  <2> QED
    BY <1>9, <2>1, <2>2
<1>10. ASSUME NEW j \in Jobs, LeaveAlone(j)
     PROVE  Inv'
  BY <1>10 DEF LeaveAlone
<1>11. ASSUME NEW j \in Jobs, ReleaseEnded(j)
     PROVE  Inv'
  BY <1>11 DEF ReleaseEnded
<1>12. ASSUME NEW j \in Jobs, LookAt(j)
     PROVE  Inv'
  BY <1>12 DEF LookAt
<1>13. QED
  BY <1>1, <1>2, <1>3, <1>4, <1>5, <1>6, <1>7, <1>8, <1>9, <1>10, <1>11, <1>12 DEF Startup

\* Every reachable state satisfies the invariant.
THEOREM InvHolds == Spec => []Inv
<1>1. Init => Inv
  BY InitInv
<1>2. Inv /\ [Next]_vars => Inv'
  <2> SUFFICES ASSUME Inv, [Next]_vars
               PROVE  Inv'
    OBVIOUS
  <2>1. CASE \E j \in Jobs : Pin(j) \/ Submit(j) \/ Cancel(j) \/ CrashSubmitter(j)
    BY <2>1, SubmissionInv
  <2>2. CASE \E j \in Jobs : Acquire(j) \/ WaitFails(j) \/ Work(j) \/ CrashWorker(j)
    BY <2>2, WorkerInv
  <2>3. CASE StopServer \/ Startup
    BY <2>3, ServerInv
  <2>4. CASE UNCHANGED vars
    BY <2>4 DEF vars, records, actors, server, Inv, TypeOK, Coherent, WorkerAgrees,
                SubmitterAgrees, LockAgrees, JournalAgrees, HandAgrees, PinnedWhileNeeded,
                NeedsArtifact
  <2>5. QED
    BY <2>1, <2>2, <2>3, <2>4 DEF Next, Quiet
<1>3. QED
  BY <1>1, <1>2, PTL DEF Spec

----------------------------------------------------------------------------
\* The variables have their types, in every reachable state.
THEOREM TypeCorrect == Spec => []TypeOK
BY InvHolds, PTL DEF Inv

\* Status, submitter, worker, lock and journal of every job agree.
THEOREM PartsAgree == Spec => []Coherent
BY InvHolds, PTL DEF Inv

\* A cancelled job's agent never runs and nothing of it is published.
THEOREM CancelledJobsNeverRun == Spec => []CancelledNeverRuns
<1>1. Inv => CancelledNeverRuns
  BY DEF Inv, Coherent, WorkerAgrees, JournalAgrees, CancelledNeverRuns
<1>2. QED
  BY <1>1, InvHolds, PTL

\* A worker that has yet to use its compiled artifact finds it pinned.
THEOREM ArtifactStaysPinned == Spec => []PinnedWhileNeeded
BY InvHolds, PTL DEF Inv

----------------------------------------------------------------------------
\* What EndedStays and OnlyTheDeadFail ask of one step.
StatusKept == \A j \in Jobs : status[j] \in Ended =>
                status'[j] = status[j] \/ (sub[j] = "record" /\ status[j] = "cancelled")
DeadWhenFailed == \A j \in Jobs : hand = j /\ hand' = Nobody /\ status'[j] # status[j]
                                  => wrk[j] = "dead"

\* A transition takes no job out of a status it ended with.
LEMMA TransitionKeeps ==
    ASSUME TypeOK, NEW j \in Jobs, NEW from \in {"queued", "waiting_for_memory", "running"},
           NEW to, Transition(j, from, to)
    PROVE  StatusKept
BY DEF Transition, TypeOK, StatusKept

LEMMA TerminalizeKeeps ==
    ASSUME TypeOK, NEW j \in Jobs, Terminalize(j)
    PROVE  StatusKept
BY DEF Terminalize, TypeOK, StatusKept

\* The submitter and the user overwrite the status of an ended job by a launch error alone.
LEMMA SubmissionKeepsStatus ==
    ASSUME Inv, NEW j \in Jobs, Pin(j) \/ Submit(j) \/ Cancel(j) \/ CrashSubmitter(j)
    PROVE  StatusKept /\ UNCHANGED hand
<1> USE DEF Inv, TypeOK, Coherent, SubmitterAgrees, StatusKept, records, server
<1>1. CASE Create(j)
  BY <1>1 DEF Create
<1>2. CASE RecordLaunchError(j)
  BY <1>2 DEF RecordLaunchError
<1>3. CASE Cancel(j)
  BY <1>3 DEF Cancel
<1>4. CASE Pin(j) \/ Launch(j) \/ SubmitFails(j) \/ Unpin(j) \/ CrashSubmitter(j)
  BY <1>4 DEF Pin, Launch, SubmitFails, Unpin, CrashSubmitter
<1>5. QED
  BY <1>1, <1>2, <1>3, <1>4 DEF Submit

\* A worker changes no status its job ended with.
LEMMA WorkerKeepsStatus ==
    ASSUME Inv, NEW j \in Jobs, Acquire(j) \/ WaitFails(j) \/ Work(j) \/ CrashWorker(j)
    PROVE  StatusKept /\ UNCHANGED hand
<1>1. UNCHANGED hand
  BY DEF Acquire, WaitFails, Work, CrashWorker, Claim, ClaimRefused, SeeCancelled, CancelledInside,
         Stage, StartFails, StartRun, RunFails, RunSucceeds, PublishFails, Publish, Complete,
         CompleteFails, CleanUp, ReleasePin, server
<1>2. CASE Claim(j) \/ StartRun(j) \/ Complete(j)
  BY <1>1, <1>2, TransitionKeeps DEF Claim, StartRun, Complete, Inv
<1>3. CASE WaitFails(j) \/ StartFails(j) \/ RunFails(j) \/ PublishFails(j) \/ CompleteFails(j)
  BY <1>1, <1>3, TerminalizeKeeps
     DEF WaitFails, StartFails, RunFails, PublishFails, CompleteFails, Inv
<1>4. CASE \/ Acquire(j) \/ ClaimRefused(j) \/ SeeCancelled(j) \/ CancelledInside(j) \/ Stage(j)
           \/ RunSucceeds(j) \/ Publish(j) \/ CleanUp(j) \/ ReleasePin(j) \/ CrashWorker(j)
  BY <1>1, <1>4 DEF Acquire, ClaimRefused, SeeCancelled, CancelledInside, Stage, RunSucceeds,
                    Publish, CleanUp, ReleasePin, CrashWorker, records, StatusKept
<1>5. QED
  BY <1>2, <1>3, <1>4 DEF Work

\* The startup pass fails nothing but an active job whose worker is dead.
LEMMA ServerKeepsStatus ==
    ASSUME Inv, StopServer \/ Startup
    PROVE  StatusKept /\ DeadWhenFailed
<1> USE DEF StatusKept, DeadWhenFailed
<1>1. CASE FailAbsent
  <2>1. hand \in Jobs /\ view \in {"running", "waiting_for_memory"}
    BY <1>1 DEF FailAbsent, Inv, TypeOK, Coherent, HandAgrees
  <2>2. StatusKept
    BY <1>1, <2>1, TransitionKeeps DEF FailAbsent, Inv
  <2>3. wrk[hand] = "dead"
    BY <1>1, <2>1 DEF FailAbsent, Absent, Transition, Inv, Coherent, WorkerAgrees
  <2>4. QED
    BY <2>2, <2>3
<1>2. ASSUME NEW j \in Jobs, NEW s \in {"complete", "failed"},
             Recover(j, s) \/ RecoverUnclean(j, s)
      PROVE  StatusKept /\ DeadWhenFailed
  BY <1>2, LifecycleAssumption DEF Recover, RecoverUnclean, Inv, TypeOK
<1>3. CASE UNCHANGED status
  BY <1>3
<1>4. QED
  BY <1>1, <1>2, <1>3 DEF Startup, StopServer, StartServer, StartWithoutRecovery, EndRecovery,
                         PutDown, EndReconcile, SkipJournal, Refuse, LeaveAlone, ReleaseEnded, LookAt, records

LEMMA StepKeepsStatus ==
    ASSUME Inv, [Next]_vars
    PROVE  StatusKept /\ DeadWhenFailed
<1>1. CASE UNCHANGED vars
  BY <1>1 DEF vars, records, StatusKept, DeadWhenFailed
<1>2. CASE StatusKept /\ UNCHANGED hand
  BY <1>2, LifecycleAssumption DEF DeadWhenFailed
<1>3. QED
  BY <1>1, <1>2, SubmissionKeepsStatus, WorkerKeepsStatus, ServerKeepsStatus DEF Next, Quiet

\* An ended job keeps its status; a launch error alone overwrites a cancellation.
THEOREM EndedJobsStayEnded == Spec => EndedStays
<1>1. Inv /\ [Next]_vars => [StatusKept]_vars
  BY StepKeepsStatus
<1>2. QED
  BY <1>1, InvHolds, PTL DEF Spec, EndedStays, StatusKept

\* The startup pass fails a job only when its worker died before ending it.
THEOREM StartupFailsOnlyTheDead == Spec => OnlyTheDeadFail
<1>1. Inv /\ [Next]_vars => [DeadWhenFailed]_vars
  BY StepKeepsStatus
<1>2. QED
  BY <1>1, InvHolds, PTL DEF Spec, OnlyTheDeadFail, DeadWhenFailed

----------------------------------------------------------------------------
(* Pins that are left behind.                                              *)

\* Every pin is somebody's: of a submission under way or of a submitter that died, of a
\* worker under way or of one that died (for the next startup), or of a job that was cancelled
\* before its worker claimed it.  The last is the one way in which a process that lives leaves
\* a pin: a refused claim leaves execute_job past its finally clause.  (What
\* EndedWorkerLeavesNoPin misses, and all that it misses.)
PinsAccounted == \A j \in Jobs : pin[j] =>
    \/ sub[j] \in {"pinned", "created", "unpin", "gone"}
    \/ wrk[j] \notin {"none", "exited"}
    \/ wrk[j] = "exited" /\ status[j] = "cancelled"

\* The submitter's and the user's steps account for the pins.
LEMMA SubmissionAccounts ==
    ASSUME Inv, PinsAccounted, NEW j \in Jobs, Pin(j) \/ Submit(j) \/ Cancel(j) \/ CrashSubmitter(j)
    PROVE  PinsAccounted'
<1> USE DEF Inv, TypeOK, Coherent, SubmitterAgrees, PinsAccounted, Goto, records, actors, server
<1>1. CASE Pin(j) \/ CrashSubmitter(j)
  BY <1>1 DEF Pin, CrashSubmitter
<1>2. CASE Create(j) \/ Launch(j) \/ SubmitFails(j)
  BY <1>2 DEF Create, Launch, SubmitFails
<1>3. CASE Unpin(j) \/ RecordLaunchError(j)
  BY <1>3 DEF Unpin, RecordLaunchError
<1>4. CASE Cancel(j)
  BY <1>4 DEF Cancel
<1> QED
  BY <1>1, <1>2, <1>3, <1>4 DEF Submit

\* So do the worker's: it leaves by the finally clause or by a refused claim.
LEMMA WorkerAccounts ==
    ASSUME Inv, PinsAccounted, NEW j \in Jobs, Acquire(j) \/ WaitFails(j) \/ Work(j) \/ CrashWorker(j)
    PROVE  PinsAccounted'
<1> USE DEF Inv, TypeOK, Coherent, WorkerAgrees, PinsAccounted, Goto, records, actors, server
<1>1. ASSUME NEW k \in Jobs, k # j
      PROVE  /\ wrk'[k] = wrk[k] /\ pin'[k] = pin[k] /\ status'[k] = status[k]
             /\ sub'[k] = sub[k]
  BY <1>1 DEF Acquire, WaitFails, Work, CrashWorker, Claim, ClaimRefused, SeeCancelled,
     CancelledInside, Stage, StartFails, StartRun, RunFails, RunSucceeds, PublishFails, Publish,
     Complete, CompleteFails, CleanUp, ReleasePin, Transition, Terminalize, LeaveLock, LetGo
<1>2. CASE ClaimRefused(j)
  BY <1>2 DEF ClaimRefused
<1>3. CASE ReleasePin(j)
  BY <1>1, <1>3 DEF ReleasePin
<1>4. CASE ~ClaimRefused(j) /\ ~ReleasePin(j)
  <2>1. wrk'[j] \notin {"none", "exited"}
    BY <1>4 DEF Acquire, WaitFails, Work, CrashWorker, Claim, SeeCancelled, CancelledInside, Stage,
       StartFails, StartRun, RunFails, RunSucceeds, PublishFails, Publish, Complete, CompleteFails,
       CleanUp, LeaveLock
  <2> QED
    BY <1>1, <2>1
<1> QED
  BY <1>2, <1>3, <1>4

\* So does the startup, which releases pins and leaves cancelled jobs alone.
LEMMA ServerAccounts ==
    ASSUME Inv, PinsAccounted, StopServer \/ Startup
    PROVE  PinsAccounted'
<1> USE DEF Inv, TypeOK, Coherent, SubmitterAgrees, PinsAccounted, records, actors, server
<1>1. UNCHANGED <<wrk, sub>>
  BY DEF StopServer, Startup, StartServer, StartWithoutRecovery, EndRecovery, PutDown, FailAbsent,
     EndReconcile, SkipJournal, Refuse, Recover, RecoverUnclean, LeaveAlone, ReleaseEnded, LookAt
<1>2. \A j \in Jobs : pin'[j] => pin[j]
  BY DEF StopServer, Startup, StartServer, StartWithoutRecovery, EndRecovery, PutDown, FailAbsent,
     EndReconcile, SkipJournal, Refuse, Recover, RecoverUnclean, LeaveAlone, ReleaseEnded, LookAt
<1>3. StatusKept
  BY ServerKeepsStatus
<1>4. \A j \in Jobs : wrk[j] = "exited" => sub[j] # "record"
  OBVIOUS
<1> QED
  BY <1>1, <1>2, <1>3, <1>4 DEF StatusKept

\* No living process but a refused worker leaves a pin behind, for any number of jobs and
\* deaths.
THEOREM PinsAreAccountedFor == Spec => []PinsAccounted
<1>1. Init => PinsAccounted
  BY DEF Init, PinsAccounted
<1>2. Inv /\ PinsAccounted /\ [Next]_vars => PinsAccounted'
  <2>1. PinsAccounted /\ UNCHANGED vars => PinsAccounted'
    BY DEF PinsAccounted, vars, records, actors
  <2> QED
    BY <2>1, SubmissionAccounts, WorkerAccounts, ServerAccounts DEF Next, Quiet
<1> QED
  BY <1>1, <1>2, InvHolds, PTL DEF Spec

----------------------------------------------------------------------------
(* The startup pass passes over no dead job.                               *)

\* What a dead worker may leave: an active job, or the pin of an ended one.  Nothing is left
\* of a job that is cancelled, or that recovery has set aside for the operator.
Unsettled(j) ==
    /\ j \notin blocked
    /\ \/ status[j] \in {"running", "waiting_for_memory"}
       \/ status[j] \in {"complete", "failed"} /\ pin[j]
Settled(j) ==
    \/ j \in blocked \/ status[j] = "cancelled"
    \/ status[j] \in {"complete", "failed"} /\ ~pin[j]

\* The pass has yet to come to the job, or has it in hand as it is.
Ahead(j) ==
    \/ srv = "recovering"
    \/ srv = "reconciling" /\ (j \in todo \/ (hand = j /\ view = status[j]))

Owed(j) == wrk[j] = "dead" /\ Unsettled(j) /\ Ahead(j)

\* A job that was dead when the startup began is dealt with in this pass: whatever the other
\* workers, submitters and users do meanwhile, it stays before the pass until it is settled
\* or the server stops again.  (The safety half of StartupResolves: when the server serves,
\* nothing is before the pass any more.)
NoneOverlooked == [][\A j \in Jobs : Owed(j) => Owed(j)' \/ Settled(j)' \/ srv' = "down"]_vars

\* The workers, the submitters and the users leave a dead job before the pass, or cancel it.
LEMMA OthersOverlookNone ==
    ASSUME Inv, NEW k \in Jobs, NEW j \in Jobs, Owed(j),
           \/ Pin(k) \/ Submit(k) \/ Cancel(k) \/ CrashSubmitter(k)
           \/ Acquire(k) \/ WaitFails(k) \/ Work(k) \/ CrashWorker(k)
    PROVE  Owed(j)' \/ Settled(j)'
<1> USE DEF Inv, TypeOK, Coherent, SubmitterAgrees, Owed, Goto, records, actors, server
<1>1. UNCHANGED server
  BY DEF Pin, Submit, Create, Launch, SubmitFails, Unpin, RecordLaunchError, Cancel,
     CrashSubmitter, Acquire, WaitFails, Work, CrashWorker, Claim, ClaimRefused, SeeCancelled,
     CancelledInside, Stage, StartFails, StartRun, RunFails, RunSucceeds, PublishFails, Publish,
     Complete, CompleteFails, CleanUp, ReleasePin
<1>2. sub[j] = "done" /\ wrk[j] = "dead"
  OBVIOUS
<1>3. CASE Cancel(k) /\ k = j
  BY <1>1, <1>3 DEF Cancel, Settled
<1>4. CASE ~(Cancel(k) /\ k = j)
  <2>1. wrk'[j] = "dead" /\ status'[j] = status[j] /\ pin'[j] = pin[j]
    <3>1. CASE Pin(k) \/ Submit(k) \/ Cancel(k) \/ CrashSubmitter(k)
      BY <1>2, <1>4, <3>1 DEF Pin, Submit, Create, Launch, SubmitFails, Unpin, RecordLaunchError,
         Cancel, CrashSubmitter
    <3>2. CASE Acquire(k) \/ WaitFails(k) \/ Work(k) \/ CrashWorker(k)
      <4>1. k # j
        BY <1>2, <3>2 DEF Acquire, WaitFails, Work, CrashWorker, Claim, ClaimRefused, SeeCancelled,
           CancelledInside, Stage, StartFails, StartRun, RunFails, RunSucceeds, PublishFails,
           Publish, Complete, CompleteFails, CleanUp, ReleasePin
      <4> QED
        BY <1>2, <3>2, <4>1 DEF Acquire, WaitFails, Work, CrashWorker, Claim, ClaimRefused,
           SeeCancelled, CancelledInside, Stage, StartFails, StartRun, RunFails, RunSucceeds,
           PublishFails, Publish, Complete, CompleteFails, CleanUp, ReleasePin, Transition,
           Terminalize, LeaveLock, LetGo
    <3> QED
      BY <3>1, <3>2
  <2> QED
    BY <1>1, <2>1 DEF Unsettled, Ahead
<1> QED
  BY <1>3, <1>4

\* The startup pass drops a dead job only when it is settled.
LEMMA PassOverlooksNone ==
    ASSUME Inv, NEW j \in Jobs, Owed(j), StopServer \/ Startup
    PROVE  Owed(j)' \/ Settled(j)' \/ srv' = "down"
<1> USE LifecycleAssumption
    DEF Inv, TypeOK, Owed, Unsettled, Settled, Ahead, records, actors, server
<1>1. CASE StopServer \/ StartServer \/ StartWithoutRecovery \/ EndReconcile
  BY <1>1 DEF StopServer, StartServer, StartWithoutRecovery, EndReconcile
<1>2. CASE EndRecovery
  BY <1>2 DEF EndRecovery
<1>3. CASE PutDown
  BY <1>3 DEF PutDown, Absent
<1>4. CASE FailAbsent
  BY <1>4 DEF FailAbsent, Transition
<1>5. ASSUME NEW k \in Jobs, \/ SkipJournal(k) \/ Refuse(k) \/ LeaveAlone(k) \/ ReleaseEnded(k)
      PROVE  Owed(j)' \/ Settled(j)'
  BY <1>5 DEF SkipJournal, Refuse, LeaveAlone, ReleaseEnded
<1>6. ASSUME NEW k \in Jobs, NEW s \in {"complete", "failed"},
             Recover(k, s) \/ RecoverUnclean(k, s)
      PROVE  Owed(j)' \/ Settled(j)'
  BY <1>6 DEF Recover, RecoverUnclean
<1>7. ASSUME NEW k \in Jobs, LookAt(k) PROVE Owed(j)' \/ Settled(j)'
  BY <1>7 DEF LookAt
<1> QED
  BY <1>1, <1>2, <1>3, <1>4, <1>5, <1>6, <1>7 DEF Startup

\* The startup pass deals with every job whose worker it finds dead, for any number of jobs
\* and deaths.
THEOREM StartupOverlooksNone == Spec => NoneOverlooked
<1>1. Inv /\ [Next]_vars =>
          [\A j \in Jobs : Owed(j) => Owed(j)' \/ Settled(j)' \/ srv' = "down"]_vars
  BY OthersOverlookNone, PassOverlooksNone DEF Next, Quiet
<1> QED
  BY <1>1, InvHolds, PTL DEF Spec, NoneOverlooked

----------------------------------------------------------------------------
(* The records as everybody else knows them.                               *)

Records == INSTANCE JobRecord

\* Whoever writes the record of a job (the submitter and its launch error, the worker, the
\* user, recovery or the startup pass), its status goes along VALID_TRANSITIONS, one job at
\* a time; a launch error comes over a job that never ran.
RecordsFollow == Records!Spec

\* What a step does to the records.
RecordStep == UNCHANGED status \/ Records!Next

\* A valid move of one record is a step of JobRecord.
LEMMA MoveFollows ==
    ASSUME NEW j \in Jobs, NEW s \in Records!ValidTransitions[status[j]],
           status' = [status EXCEPT ![j] = s]
    PROVE  Records!Next
BY DEF Records!Next, Records!Move, Records!Write

\* A transition is a valid move.
LEMMA TransitionFollows ==
    ASSUME NEW j \in Jobs, NEW from \in {"queued", "waiting_for_memory", "running"}, NEW to,
           Transition(j, from, to)
    PROVE  Records!Next
<1>1. Records!ValidTransitions[from] = ValidTransitions[from]
  BY DEF Records!ValidTransitions, ValidTransitions
<1> QED
  BY <1>1, MoveFollows DEF Transition

\* A record that is active may be failed.
LEMMA FailureFollows ==
    ASSUME NEW j \in Jobs, status[j] \in {"running", "waiting_for_memory"},
           status' = [status EXCEPT ![j] = "failed"]
    PROVE  Records!Next
<1>1. "failed" \in Records!ValidTransitions[status[j]]
  BY DEF Records!ValidTransitions
<1> QED
  BY <1>1, MoveFollows

\* The submitter and the user keep to the transitions.
LEMMA SubmissionFollows ==
    ASSUME Inv, NEW j \in Jobs, Pin(j) \/ Submit(j) \/ Cancel(j) \/ CrashSubmitter(j)
    PROVE  RecordStep
<1> USE DEF RecordStep
<1>1. CASE Create(j)
  BY <1>1 DEF Create, Inv, Coherent, SubmitterAgrees, Records!Next, Records!Create, Records!Write
<1>2. CASE RecordLaunchError(j)
  BY <1>2 DEF RecordLaunchError, Inv, Coherent, SubmitterAgrees, Records!Next,
              Records!LaunchError, Records!Write
<1>3. CASE Cancel(j)
  <2>1. "cancelled" \in Records!ValidTransitions[status[j]]
    BY <1>3 DEF Cancel, Records!ValidTransitions
  <2> QED
    BY <1>3, <2>1, MoveFollows DEF Cancel
<1>4. CASE Pin(j) \/ Launch(j) \/ SubmitFails(j) \/ Unpin(j) \/ CrashSubmitter(j)
  BY <1>4 DEF Pin, Launch, SubmitFails, Unpin, CrashSubmitter, records
<1> QED
  BY <1>1, <1>2, <1>3, <1>4 DEF Submit

\* So does the worker, whatever happened to the record meanwhile.
LEMMA WorkerFollows ==
    ASSUME Inv, NEW j \in Jobs, Acquire(j) \/ WaitFails(j) \/ Work(j) \/ CrashWorker(j)
    PROVE  RecordStep
<1> USE DEF RecordStep
<1>1. CASE Claim(j) \/ StartRun(j) \/ Complete(j)
  BY <1>1, TransitionFollows DEF Claim, StartRun, Complete
<1>2. CASE WaitFails(j) \/ StartFails(j) \/ RunFails(j) \/ PublishFails(j) \/ CompleteFails(j)
  BY <1>2, FailureFollows
     DEF WaitFails, StartFails, RunFails, PublishFails, CompleteFails, Terminalize
<1>3. CASE \/ Acquire(j) \/ ClaimRefused(j) \/ SeeCancelled(j) \/ CancelledInside(j) \/ Stage(j)
           \/ RunSucceeds(j) \/ Publish(j) \/ CleanUp(j) \/ ReleasePin(j) \/ CrashWorker(j)
  BY <1>3 DEF Acquire, ClaimRefused, SeeCancelled, CancelledInside, Stage, RunSucceeds, Publish,
              CleanUp, ReleasePin, CrashWorker, records
<1> QED
  BY <1>1, <1>2, <1>3 DEF Work

\* So does the startup of the server.
LEMMA ServerFollows ==
    ASSUME Inv, StopServer \/ Startup
    PROVE  RecordStep
<1> USE DEF RecordStep
<1>1. CASE FailAbsent
  BY <1>1, TransitionFollows DEF FailAbsent, Inv, TypeOK, Coherent, HandAgrees
<1>2. ASSUME NEW j \in Jobs, NEW s \in {"complete", "failed"},
             Recover(j, s) \/ RecoverUnclean(j, s)
      PROVE  RecordStep
  <2>1. CASE status[j] = "running"
    <3>1. s \in Records!ValidTransitions[status[j]]
      BY <2>1 DEF Records!ValidTransitions
    <3> QED
      BY <1>2, <3>1, MoveFollows DEF Recover, RecoverUnclean
  <2>2. CASE status[j] = s
    BY <1>2, <2>2 DEF Recover, RecoverUnclean, Inv, TypeOK
  <2> QED
    BY <1>2, <2>1, <2>2 DEF Recover, RecoverUnclean
<1>3. CASE UNCHANGED status
  BY <1>3
<1> QED
  BY <1>1, <1>2, <1>3 DEF Startup, StopServer, StartServer, StartWithoutRecovery, EndRecovery,
                         PutDown, EndReconcile, SkipJournal, Refuse, LeaveAlone, ReleaseEnded, LookAt, records

\* The life of the jobs, with all its processes and deaths, is a life of their records.
THEOREM LivesFollowTheRecords == Spec => RecordsFollow
<1>1. Init => Records!Init
  BY DEF Init, Records!Init
<1>2. Inv /\ [Next]_vars => [Records!Next]_status
  <2>1. UNCHANGED vars => UNCHANGED status
    BY DEF vars, records
  <2> QED
    BY <2>1, SubmissionFollows, WorkerFollows, ServerFollows DEF Next, Quiet, RecordStep
<1> QED
  BY <1>1, <1>2, InvHolds, PTL DEF Spec, RecordsFollow, Records!Spec
=============================================================================
