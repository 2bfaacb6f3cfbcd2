----------------------- MODULE MemoryRefinementProofs -----------------------
(***************************************************************************)
(* MemoryPublication implements AtomicMemory as long as no process dies and *)
(* one file operation fails at most.                                        *)
(***************************************************************************)
EXTENDS MemoryPublicationProofs

\* No more deaths and faults happen than the bounds allow.
WithinBounds == crashes <= MaxCrashes /\ faults <= MaxFaults

\* Every step stays within the bounds.
LEMMA BoundsStep ==
    ASSUME Inv, WithinBounds, [Next]_vars
    PROVE  WithinBounds'
<1> USE BoundsAssumption DEF WithinBounds, bounds
<1>1. crashes \in Nat /\ faults \in Nat
  BY DEF Inv, TypeOK
<1>2. CASE Transaction \/ Startup
  BY <1>1, <1>2
     DEF Transaction, WriteJournal, PublishUnchanged, MakeBackup, BackupFile, MarkBackedUp, Evacuate,
         BeginInstall, Install, EndReplace, MarkPublished, Finalize, RolledBack, RemoveJournal,
         RemoveBackup, RemoveStage, Startup, StartServer, EndRecovery, EndReconcile, SkipJournal,
         RecoverNew, RecoverOld, Refuse, Reconcile
<1>3. CASE Failure
  BY <1>1, <1>3
     DEF Failure, PublishFault, RestoreFault, RecordFault, CleanupFault, CrashHolder, StopServer,
         CrashWaiting, RecoveryFailure, RecoveryCleanupFault, StartWithoutRecovery, RecoveryFault
<1>4. CASE ~(Transaction \/ Startup \/ Failure)
  BY <1>1, <1>4
     DEF Next, Quiet, JobStep, StartJob, FailRun, FinishRun, Show, RefuseSave, BeginSave, vars
<1>5. QED
  BY <1>2, <1>3, <1>4

----------------------------------------------------------------------------
(* What the users see of a step.                                           *)

\* Outcomes are functions of the records and the replies.
LEMMA OutcomeStays ==
    ASSUME UNCHANGED <<status, reply>>
    PROVE  MemOutcome' = MemOutcome
BY DEF MemOutcome, Outcome

\* A new status of one job changes its outcome alone.
LEMMA JobReports ==
    ASSUME Inv, NEW j \in Jobs, NEW s \in {"complete", "failed", "running"},
           status' = [status EXCEPT ![j] = s], UNCHANGED reply
    PROVE  MemOutcome' = [MemOutcome EXCEPT ![j] =
                IF s = "complete" THEN "done" ELSE IF s = "failed" THEN "failed" ELSE "none"]
<1>1. \A o \in Ops : Outcome(o)' = IF o = j
        THEN IF s = "complete" THEN "done" ELSE IF s = "failed" THEN "failed" ELSE "none"
        ELSE Outcome(o)
  BY ActorsAssumption DEF Outcome, Ops, Inv, TypeOK
<1>2. QED
  BY <1>1 DEF MemOutcome

\* A new reply to one user changes that outcome alone.
LEMMA UserIsTold ==
    ASSUME Inv, NEW u \in Saves, NEW r \in {"looking", "saving", "saved", "error", "raised", "conflict"},
           reply' = [reply EXCEPT ![u] = r], UNCHANGED status
    PROVE  MemOutcome' = [MemOutcome EXCEPT ![u] =
                CASE r = "saved" -> "done" [] r = "error" -> "failed"
                  [] r = "raised" -> "raised" [] r = "conflict" -> "refused" [] OTHER -> "none"]
<1>1. \A o \in Ops : Outcome(o)' = IF o = u
        THEN CASE r = "saved" -> "done" [] r = "error" -> "failed"
               [] r = "raised" -> "raised" [] r = "conflict" -> "refused" [] OTHER -> "none"
        ELSE Outcome(o)
  BY ActorsAssumption DEF Outcome, Ops, Inv, TypeOK
<1>2. QED
  BY <1>1 DEF MemOutcome

\* An operation that waits or is at work has reported nothing.
LEMMA NothingReported ==
    ASSUME Inv
    PROVE  /\ \A j \in Jobs : status[j] \in Running => MemOutcome[j] = "none"
           /\ \A u \in Saves : reply[u] \in {"none", "looking", "saving"} => MemOutcome[u] = "none"
BY ActorsAssumption DEF MemOutcome, Outcome, Ops, Running

\* Writing the value a function has changes nothing.
LEMMA SameValue ==
    ASSUME NEW S, NEW T, NEW f \in [S -> T], NEW x \in S
    PROVE  [f EXCEPT ![x] = f[x]] = f
OBVIOUS

\* Outcomes stay when an operation starts.
LEMMA StartReportsNothing ==
    ASSUME Inv,
           \/ \E j \in Jobs : /\ status[j] \in Running /\ UNCHANGED reply
                              /\ status' = [status EXCEPT ![j] = "running"]
           \/ \E u \in Saves : /\ reply[u] \in {"none", "looking"} /\ UNCHANGED status
                               /\ \E r \in {"looking", "saving"} : reply' = [reply EXCEPT ![u] = r]
    PROVE  MemOutcome' = MemOutcome
<1>1. ASSUME NEW j \in Jobs, status[j] \in Running, UNCHANGED reply,
             status' = [status EXCEPT ![j] = "running"]
      PROVE  MemOutcome' = MemOutcome
  <2>1. \A o \in Ops : Outcome(o)' = Outcome(o)
    BY <1>1 DEF Outcome, Ops, Inv, TypeOK, Running
  <2>2. QED
    BY <2>1 DEF MemOutcome
<1>2. ASSUME NEW u \in Saves, reply[u] \in {"none", "looking"}, UNCHANGED status,
             NEW r \in {"looking", "saving"}, reply' = [reply EXCEPT ![u] = r]
      PROVE  MemOutcome' = MemOutcome
  <2>1. \A o \in Ops : Outcome(o)' = Outcome(o)
    BY <1>2 DEF Outcome, Ops, Inv, TypeOK
  <2>2. QED
    BY <2>1 DEF MemOutcome
<1>3. QED
  BY <1>1, <1>2

----------------------------------------------------------------------------
(* Every step is one of the memory's, or none its users see.               *)

\* The contents of AtomicMemory are those of MemoryPublication.
LEMMA SameContents ==
    /\ Memory!Empty = Empty /\ Memory!Content = Content
    /\ \A c : Memory!Ensured(c) = Ensured(c)
BY DEF Memory!Empty, Memory!Content, Memory!Ensured, Memory!Blank, Empty, Content, Ensured, Blank

\* A worker's steps outside of a transaction.
LEMMA JobImplements ==
    ASSUME Inv, NEW j \in Jobs, JobStep(j)
    PROVE  Memory!Next \/ UNCHANGED Memory!vars
<1> USE SameContents
<1>i. TypeOK /\ HolderAgrees /\ TxnAgrees /\ EndAgrees
  BY DEF Inv
<1> USE <1>i DEF HolderAgrees, TxnAgrees, TypeOK, Ops, disk, records, txn, clients, server, bounds,
            Running, Cleanup
<1>1. CASE StartJob(j)
  <2>1. MemOutcome' = MemOutcome /\ MemOutcome[j] = "none"
    BY <1>1, StartReportsNothing, NothingReported DEF StartJob, Inv
  <2>2. /\ MemContent = canonical /\ MemContent' = Ensured(canonical)
        /\ MemBase' = Ensured(canonical) /\ MemCommitted = FALSE /\ MemCommitted' = FALSE
    BY <1>1, ActorsAssumption DEF StartJob, Take, MemContent, MemBase, MemCommitted
  <2>3. holder = Nobody /\ holder' = j /\ seen' = seen /\ j \notin Saves
    BY <1>1, ActorsAssumption DEF StartJob, Take
  <2>4. Memory!Begin(j)
    BY <2>1, <2>2, <2>3 DEF Memory!Begin
  <2>5. QED
    BY <2>4 DEF Memory!Next
<1>2. CASE FailRun(j)
  <2>1. MemOutcome' = [MemOutcome EXCEPT ![j] = "failed"] /\ MemOutcome[j] = "none"
    BY <1>2, JobReports, NothingReported DEF FailRun
  <2>2. MemContent' = MemContent /\ MemBase' = Empty /\ MemCommitted = FALSE /\ MemCommitted' = FALSE
    BY <1>2 DEF FailRun, LetGo, MemContent, MemBase, MemCommitted
  <2>3. holder = j /\ j # Nobody /\ holder' = Nobody /\ seen' = seen
    BY <1>2, ActorsAssumption DEF FailRun, LetGo
  <2>4. Memory!Report("failed")
    BY <2>1, <2>2, <2>3 DEF Memory!Report, Memory!EndTurn
  <2>5. QED
    BY <2>4 DEF Memory!Next
<1>3. CASE FinishRun(j)
  BY <1>3, OutcomeStays
     DEF FinishRun, MemContent, MemBase, MemCommitted, Memory!vars
<1>4. QED
  BY <1>1, <1>2, <1>3 DEF JobStep

\* A saving user's steps outside of a transaction.
LEMMA SaveImplements ==
    ASSUME Inv, NEW u \in Saves, Show(u) \/ RefuseSave(u) \/ BeginSave(u)
    PROVE  Memory!Next \/ UNCHANGED Memory!vars
<1> USE SameContents
<1>i. TypeOK /\ HolderAgrees /\ TxnAgrees /\ EndAgrees
  BY DEF Inv
<1> USE <1>i DEF HolderAgrees, TxnAgrees, TypeOK, Ops, disk, records, txn, clients, server, bounds,
            Cleanup
<1>1. holder = Nobody /\ MemContent = canonical /\ MemCommitted = FALSE /\ MemOutcome[u] = "none"
  BY NothingReported DEF Show, RefuseSave, BeginSave, Take, MemContent, MemCommitted
<1>2. CASE Show(u)
  <2>1. MemOutcome' = MemOutcome
    BY <1>2, StartReportsNothing DEF Show
  <2>2. MemContent' = MemContent /\ MemBase' = MemBase /\ MemCommitted' = MemCommitted
    BY <1>2 DEF Show, MemContent, MemBase, MemCommitted
  <2>3. Memory!Look(u)
    BY <1>1, <1>2, <2>1, <2>2 DEF Show, Memory!Look
  <2>4. QED
    BY <2>3 DEF Memory!Next
<1>3. CASE RefuseSave(u)
  <2>1. MemOutcome' = [MemOutcome EXCEPT ![u] = "refused"]
    BY <1>3, UserIsTold DEF RefuseSave
  <2>2. MemContent' = Ensured(canonical) /\ MemBase' = MemBase /\ MemCommitted' = MemCommitted
    BY <1>1, <1>3 DEF RefuseSave, MemContent, MemBase, MemCommitted
  <2>3. Memory!Refuse(u)
    BY <1>1, <1>3, <2>1, <2>2 DEF RefuseSave, Memory!Refuse
  <2>4. QED
    BY <2>3 DEF Memory!Next
<1>4. CASE BeginSave(u)
  <2>1. MemOutcome' = MemOutcome
    BY <1>4, StartReportsNothing DEF BeginSave
  <2>2. /\ MemContent' = Ensured(canonical) /\ MemBase' = Ensured(canonical) /\ MemCommitted' = FALSE
        /\ holder' = u /\ u # Nobody
    BY <1>4, ActorsAssumption DEF BeginSave, Take, MemContent, MemBase, MemCommitted
  <2>3. Memory!Begin(u)
    BY <1>1, <1>4, <2>1, <2>2 DEF BeginSave, Memory!Begin
  <2>4. QED
    BY <2>3 DEF Memory!Next
<1>5. QED
  BY <1>2, <1>3, <1>4

\* The transaction: it commits when the journal says published.
LEMMA TransactionImplements ==
    ASSUME Inv, holder # Server, Transaction
    PROVE  Memory!Next \/ UNCHANGED Memory!vars
<1> USE SameContents
<1>i. TypeOK /\ HolderAgrees /\ TxnAgrees /\ EndAgrees
  BY DEF Inv
<1> USE <1>i DEF HolderAgrees, TxnAgrees, EndAgrees, TypeOK, Ops, disk, records, txn, clients, server,
            bounds, Cleanup
<1>0. holder \in Ops /\ op = holder /\ holder # Nobody
  BY ActorsAssumption
     DEF Transaction, WriteJournal, PublishUnchanged, MakeBackup, BackupFile, MarkBackedUp, Evacuate,
         BeginInstall, Install, EndReplace, MarkPublished, Finalize, RolledBack, RemoveJournal,
         RemoveBackup, RemoveStage, Working
<1>1. CASE WriteJournal \/ MakeBackup \/ BackupFile \/ MarkBackedUp
  BY <1>1, OutcomeStays
     DEF WriteJournal, MakeBackup, BackupFile, MarkBackedUp, MemContent, MemBase, MemCommitted,
         Memory!vars
<1>2. CASE Evacuate \/ BeginInstall \/ Install \/ EndReplace
  BY <1>2, OutcomeStays
     DEF Evacuate, BeginInstall, Install, EndReplace, Target, MemContent, MemBase, MemCommitted,
         Memory!vars
<1>3. CASE PublishUnchanged \/ MarkPublished
  <2>1. MemOutcome' = MemOutcome /\ MemOutcome[holder] = "none"
    BY <1>0, <1>3, OutcomeStays, NothingReported DEF PublishUnchanged, MarkPublished, Running
  <2>2. /\ MemContent = MemBase /\ MemContent' \in Content /\ MemBase' = MemBase
        /\ MemCommitted = FALSE /\ MemCommitted' = TRUE
    BY <1>0, <1>3 DEF PublishUnchanged, MarkPublished, MemContent, MemBase, MemCommitted
  <2>3. Memory!Commit
    BY <1>0, <1>3, <2>1, <2>2 DEF PublishUnchanged, MarkPublished, Memory!Commit
  <2>4. QED
    BY <2>3 DEF Memory!Next
<1>4. CASE Finalize \/ RolledBack
  <2>1. MemContent' = MemContent /\ MemBase' = MemBase /\ UNCHANGED <<holder, seen, reply>>
    BY <1>4 DEF Finalize, RolledBack, MemContent, MemBase
  <2>2. CASE op \in Saves
    <3>1. MemOutcome' = MemOutcome /\ MemCommitted' = MemCommitted
      BY <1>4, <2>1, <2>2, ActorsAssumption, OutcomeStays
         DEF Finalize, RolledBack, SetStatus, MemCommitted
    <3>2. QED
      BY <2>1, <3>1 DEF Memory!vars
  <2>3. CASE op \in Jobs
    <3>1. MemOutcome[op] = "none"
      BY <1>0, <1>4, <2>3, NothingReported DEF Finalize, RolledBack, Running
    <3>2. CASE Finalize
      <4>1. MemOutcome' = [MemOutcome EXCEPT ![op] = "done"]
        BY <2>1, <2>3, <3>2, JobReports DEF Finalize, SetStatus
      <4>2. MemCommitted = TRUE /\ MemCommitted' = TRUE
        BY <3>2 DEF Finalize, MemCommitted
      <4>3. Memory!Report("done")
        BY <1>0, <2>1, <3>1, <4>1, <4>2 DEF Memory!Report
      <4>4. QED
        BY <4>3 DEF Memory!Next
    <3>3. CASE RolledBack
      <4>1. MemOutcome' = [MemOutcome EXCEPT ![op] = "failed"]
        BY <2>1, <2>3, <3>3, JobReports DEF RolledBack, SetStatus
      <4>2. MemCommitted = FALSE /\ MemCommitted' = FALSE
        BY <3>3 DEF RolledBack, MemCommitted
      <4>3. Memory!Report("failed")
        BY <1>0, <2>1, <3>1, <4>1, <4>2 DEF Memory!Report
      <4>4. QED
        BY <4>3 DEF Memory!Next
    <3>4. QED
      BY <1>4, <3>2, <3>3
  <2>4. QED
    BY <1>0, <2>2, <2>3
<1>5. CASE RemoveJournal \/ RemoveBackup
  BY <1>5, OutcomeStays
     DEF RemoveJournal, RemoveBackup, MemContent, MemBase, MemCommitted, Memory!vars
<1>6. CASE RemoveStage
  <2>1. /\ MemContent' = MemContent /\ MemBase' = Empty /\ MemCommitted' = FALSE /\ UNCHANGED seen
        /\ holder' = Nobody /\ UNCHANGED status
        /\ MemCommitted <=> mode = "publish"
    BY <1>6 DEF RemoveStage, LetGo, MemContent, MemBase, MemCommitted
  <2>2. CASE holder \in Jobs
    <3>1. MemOutcome' = MemOutcome
      BY <1>6, <2>1, <2>2, ActorsAssumption, OutcomeStays DEF RemoveStage
    <3>2. MemOutcome[holder] # "none"
      BY <1>6, <2>2 DEF RemoveStage, Terminal, MemOutcome, Outcome
    <3>3. Memory!Leave
      BY <1>0, <2>1, <3>1, <3>2 DEF Memory!Leave, Memory!EndTurn
    <3>4. QED
      BY <3>3 DEF Memory!Next
  <2>3. CASE holder \in Saves
    <3> DEFINE r == IF mode = "publish" THEN "done" ELSE "failed"
    <3>1. MemOutcome' = [MemOutcome EXCEPT ![holder] = r]
      BY <1>0, <1>6, <2>1, <2>3, UserIsTold DEF RemoveStage
    <3>2. MemOutcome[holder] = "none"
      BY <2>3, NothingReported
    <3>3. Memory!Report(r)
      BY <1>0, <2>1, <3>1, <3>2 DEF Memory!Report, Memory!EndTurn
    <3>4. QED
      BY <3>3 DEF Memory!Next
  <2>4. QED
    BY <1>0, <2>2, <2>3
<1>7. QED
  BY <1>1, <1>2, <1>3, <1>4, <1>5, <1>6 DEF Transaction

\* The one fault that may happen.
LEMMA FaultImplements ==
    ASSUME Inv, PublishFault \/ RecordFault \/ CleanupFault
    PROVE  Memory!Next \/ UNCHANGED Memory!vars
<1> USE SameContents
<1>i. TypeOK /\ HolderAgrees /\ TxnAgrees /\ EndAgrees
  BY DEF Inv
<1> USE <1>i DEF HolderAgrees, TxnAgrees, TypeOK, Ops, disk, records, txn, clients, server, bounds,
            Cleanup
<1>1. CASE PublishFault
  BY <1>1, OutcomeStays DEF PublishFault, MemContent, MemBase, MemCommitted, Memory!vars
<1>2. CASE RecordFault
  <2>1. MemOutcome' = [MemOutcome EXCEPT ![holder] = "failed"] /\ MemOutcome[holder] = "none"
    <3>1. holder \in Jobs /\ UNCHANGED reply
      BY <1>2 DEF RecordFault
    <3>2. status' = [status EXCEPT ![holder] = "failed"]
      BY <1>2 DEF RecordFault, SetStatus
    <3>3. MemOutcome' = [MemOutcome EXCEPT ![holder] = "failed"]
      BY <3>1, <3>2, JobReports
    <3>4. MemOutcome[holder] = "none"
      <4>1. status[holder] \in Running
        BY <1>2 DEF RecordFault, Running
      <4> QED
        BY <3>1, <4>1, NothingReported
    <3> QED
      BY <3>3, <3>4
  <2>2. MemContent' = MemContent /\ MemBase' = Empty /\ MemCommitted' = FALSE
    BY <1>2 DEF RecordFault, LetGo, MemContent, MemBase, MemCommitted
  <2>3. holder \in Jobs /\ holder # Nobody /\ holder' = Nobody /\ seen' = seen
    BY <1>2, ActorsAssumption DEF RecordFault, LetGo
  <2>4. Memory!Report("failed")
    BY <2>1, <2>2, <2>3 DEF Memory!Report, Memory!EndTurn
  <2>5. QED
    BY <2>4 DEF Memory!Next
<1>3. CASE CleanupFault
  <2>1. /\ MemContent' = MemContent /\ MemBase' = Empty /\ MemCommitted' = FALSE
        /\ holder \in Ops /\ op = holder /\ pc \in Cleanup
        /\ holder # Nobody /\ holder' = Nobody /\ UNCHANGED <<seen, status>>
    BY <1>3, ActorsAssumption
       DEF CleanupFault, Working, Removing, LetGo, MemContent, MemBase, MemCommitted
  <2>2. CASE holder \in Jobs
    <3>1. MemOutcome' = MemOutcome
      BY <1>3, <2>1, <2>2, ActorsAssumption, OutcomeStays DEF CleanupFault, Fail
    <3>2. MemOutcome[holder] # "none"
      BY <2>1, <2>2 DEF Terminal, MemOutcome, Outcome
    <3>3. Memory!Leave
      BY <2>1, <3>1, <3>2 DEF Memory!Leave, Memory!EndTurn
    <3>4. QED
      BY <3>3 DEF Memory!Next
  <2>3. CASE holder \in Saves
    <3>1. MemOutcome' = [MemOutcome EXCEPT ![holder] = "raised"]
      BY <1>3, <2>1, <2>3, UserIsTold DEF CleanupFault, Fail
    <3>2. MemOutcome[holder] = "none"
      BY <2>3, NothingReported
    <3>3. Memory!Report("raised")
      BY <2>1, <2>3, <3>1, <3>2 DEF Memory!Report, Memory!EndTurn
    <3>4. QED
      BY <3>3 DEF Memory!Next
  <2>4. QED
    BY <2>1, <2>2, <2>3
<1>4. QED
  BY <1>1, <1>2, <1>3

\* Without deaths and with one fault at most, every step is one of AtomicMemory or changes
\* nothing of it.
LEMMA StepImplements ==
    ASSUME Inv, IntactInv, WithinBounds, WithinBounds', MaxCrashes = 0, MaxFaults <= 1, [Next]_vars
    PROVE  [Memory!Next]_(Memory!vars)
<1>0. crashes = 0 /\ faults <= 1 /\ srv = "serving" /\ holder # Server /\ faults \in Nat
  BY BoundsAssumption DEF WithinBounds, Inv, TypeOK, IntactInv
<1>1. ASSUME NEW j \in Jobs, JobStep(j)
      PROVE  Memory!Next \/ UNCHANGED Memory!vars
  BY <1>1, JobImplements
<1>2. ASSUME NEW u \in Saves, Show(u) \/ RefuseSave(u) \/ BeginSave(u)
      PROVE  Memory!Next \/ UNCHANGED Memory!vars
  BY <1>2, SaveImplements
<1>3. CASE Transaction
  BY <1>0, <1>3, TransactionImplements
<1>4. ~Startup
  BY <1>0 DEF Startup, StartServer, EndRecovery, EndReconcile, SkipJournal, RecoverNew, RecoverOld,
              Refuse, Reconcile, Recovering
<1>5. CASE Failure
  <2>1. ~RestoreFault
    <3>1. RestoreFault => faults # 0 /\ faults' > faults /\ faults' \in Nat /\ faults' <= MaxFaults
      BY UndoContent DEF RestoreFault, Inv, EndAgrees
    <3>2. QED
      BY <1>0, <3>1, BoundsAssumption
  <2>2. ~CrashHolder /\ ~StopServer /\ \A j \in Jobs : ~CrashWaiting(j)
    BY <1>0 DEF CrashHolder, StopServer, CrashWaiting
  <2>3. ~RecoveryFailure
    BY <1>0 DEF RecoveryFailure, RecoveryCleanupFault, StartWithoutRecovery, RecoveryFault,
                Recovering
  <2>4. QED
    BY <1>5, <2>1, <2>2, <2>3, FaultImplements DEF Failure
<1>6. CASE UNCHANGED vars
  BY <1>6, OutcomeStays
     DEF vars, disk, records, txn, clients, bounds, MemContent, MemBase, MemCommitted, Memory!vars
<1>7. QED
  BY <1>1, <1>2, <1>3, <1>4, <1>5, <1>6 DEF Next, Quiet

\* A memory whose processes live and of whose file operations one fails at most is atomic.
THEOREM MemoryIsAtomic == MaxCrashes = 0 /\ MaxFaults <= 1 => (Spec => IsAtomic)
<1> SUFFICES ASSUME MaxCrashes = 0, MaxFaults <= 1
             PROVE  Spec => IsAtomic
  OBVIOUS
<1>1. Init => WithinBounds /\ IntactInv /\ Memory!Init
  <2>1. Init => WithinBounds
    BY BoundsAssumption DEF Init, WithinBounds
  <2>2. Init => IntactInv
    BY ActorsAssumption DEF Init, IntactInv
  <2>3. Init => MemContent = Initial /\ MemBase = Empty /\ MemCommitted = FALSE
    BY DEF Init, MemContent, MemBase, MemCommitted
  <2>4. Init => MemOutcome = [o \in Ops |-> "none"]
    BY ActorsAssumption DEF Init, MemOutcome, Outcome, Ops
  <2>5. Init => Memory!Init
    BY <2>3, <2>4, SameContents DEF Init, Memory!Init, Ops
  <2>6. QED
    BY <2>1, <2>2, <2>5
<1>2. Inv /\ WithinBounds /\ [Next]_vars => WithinBounds'
  BY BoundsStep
<1>3. Inv /\ IntactInv /\ WithinBounds /\ WithinBounds' /\ [Next]_vars => [Memory!Next]_(Memory!vars)
  BY StepImplements
<1>4. QED
  BY <1>1, <1>2, <1>3, IntactStep, InvHolds, PTL DEF Spec, IsAtomic, Memory!Spec
=============================================================================
