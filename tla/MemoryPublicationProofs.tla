---------------------- MODULE MemoryPublicationProofs ----------------------
(***************************************************************************)
(* Proofs about MemoryPublication, for any files and contents, any jobs and *)
(* saves, and any number of deaths and faults.                              *)
(*                                                                         *)
(* Inv says where a transaction stands at each step of the process that     *)
(* holds the memory lock.  It is inductive; the properties follow from it.  *)
(***************************************************************************)
EXTENDS MemoryPublication, TLAPS

Cleanup == {"rm_journal", "rm_backup", "rm_stage"}

\* Who holds the lock, for which operation, and what the others know of it.
HolderAgrees ==
    /\ holder = Nobody <=> pc = "idle"
    /\ holder = Nobody => mode = "publish"
    /\ holder \in Ops => op = holder
    /\ holder = Server => op \in Ops /\ pc \in Cleanup
    /\ holder \in Jobs => /\ alive[holder]
                          /\ status[holder] # "waiting_for_memory"
                          /\ pc \notin Cleanup => status[holder] = "running"
                          /\ pc \in Cleanup => status[holder] \in Terminal
    /\ holder \in Saves => pc # "run" /\ reply[holder] = "saving"

\* An operation that has yet to win the lock has no journal.
Unclaimed ==
    /\ \A j \in Jobs : status[j] = "waiting_for_memory" => journal[j].phase = "none"
    /\ \A s \in Saves : reply[s] \in {"none", "looking"} => journal[s].phase = "none"

\* The transaction up to the record of its outcome.
TxnAgrees ==
    /\ pc \in {"run", "begin", "prepared", "backup"} => canonical = old /\ mode = "publish"
    /\ pc \in {"run", "begin"} => journal[op].phase = "none"
    /\ pc \in {"begin", "prepared", "backup", "evacuate", "install", "installed", "published"}
         /\ mode = "publish" => stage[op] = new
    /\ pc \in {"prepared", "backup"} => journal[op].phase = "prepared"
    /\ pc = "backup" => old # new /\ backup[op] # NoDir
    /\ pc \in {"evacuate", "install", "installed"} /\ mode = "publish" =>
         /\ journal[op] = [phase |-> "backed_up", old |-> old, new |-> new]
         /\ backup[op] = old
    /\ pc \in {"installed", "published"} =>
         mode = "publish" /\ canonical = new /\ new \in history
    /\ pc = "rolled_back" => mode = "restore"

\* The end of the transaction.
EndAgrees ==
    /\ mode = "restore" => faults # 0
    /\ mode = "restore" /\ pc \in Cleanup \cup {"rolled_back"} => canonical = old
    /\ pc \in {"rm_backup", "rm_stage"} => journal[op].phase = "none"

Inv ==
    /\ TypeOK
    /\ HolderAgrees /\ Unclaimed /\ TxnAgrees /\ EndAgrees
    /\ JournalBacked /\ CompleteMeansPublished

----------------------------------------------------------------------------
(* What the operators on contents return.                                  *)

\* The fixed contents are contents.
LEMMA FixedContents == Empty \in Content /\ Blank \in Content
BY ContentsAssumption DEF Empty, Blank, Content

\* Ensuring a content gives a content.
LEMMA EnsuredContent ==
    ASSUME NEW c \in Content
    PROVE  Ensured(c) \in Content
BY FixedContents DEF Ensured

\* Changing one file gives a content.
LEMMA ChangedContent ==
    ASSUME NEW c \in Content, NEW f \in Files, NEW d \in Data \cup {Absent}
    PROVE  [c EXCEPT ![f] = d] \in Content
BY DEF Content

\* A content maps a file to a payload or to Absent.
LEMMA FileOfContent ==
    ASSUME NEW c \in Content, NEW f \in Files
    PROVE  c[f] \in Data \cup {Absent}
BY DEF Content

\* Putting files of one content over another, or keeping some, gives a content.
LEMMA MixedContent ==
    ASSUME NEW c \in Content, NEW d \in Content, NEW S
    PROVE  Overlay(c, d, S) \in Content /\ Only(c, S) \in Content
BY DEF Content, Overlay, Only

\* NoDir is no content.
LEMMA NoDirIsNoContent == NoDir \notin Content
BY ResultsAssumption

----------------------------------------------------------------------------
\* The initial states satisfy the invariant.
LEMMA InitInv == Init => Inv
BY ActorsAssumption, ResultsAssumption, FixedContents
   DEF Init, Inv, TypeOK, HolderAgrees, Unclaimed, TxnAgrees, EndAgrees, JournalBacked,
       CompleteMeansPublished, Ops, Running, Terminal, Phases, NoJournal, Cleanup

\* Starting, failing and finishing a run keep the invariant.
LEMMA JobInv ==
    ASSUME Inv, NEW j \in Jobs, JobStep(j)
    PROVE  Inv'
<1> USE ActorsAssumption, FixedContents, EnsuredContent, NoDirIsNoContent
    DEF Inv, TypeOK, HolderAgrees, Unclaimed, TxnAgrees, EndAgrees, JournalBacked,
        CompleteMeansPublished, Ops, Running, Terminal, Phases, Cleanup,
        disk, records, txn, clients, server, bounds
<1>1. CASE StartJob(j)
  BY <1>1 DEF StartJob, Take
<1>2. CASE FailRun(j)
  BY <1>2 DEF FailRun, LetGo
<1>3. CASE FinishRun(j)
  BY <1>3, ResultsAssumption DEF FinishRun
<1>4. QED
  BY <1>1, <1>2, <1>3 DEF JobStep

\* So do the requests of a saving user.
LEMMA SaveInv ==
    ASSUME Inv, NEW s \in Saves, Show(s) \/ RefuseSave(s) \/ BeginSave(s)
    PROVE  Inv'
<1> USE ActorsAssumption, FixedContents, EnsuredContent, NoDirIsNoContent
    DEF Inv, TypeOK, HolderAgrees, Unclaimed, TxnAgrees, EndAgrees, JournalBacked,
        CompleteMeansPublished, Ops, Running, Terminal, Phases, NoJournal, Cleanup,
        disk, records, txn, clients, server, bounds
<1>1. CASE Show(s)
  BY <1>1 DEF Show
<1>2. CASE RefuseSave(s)
  BY <1>2 DEF RefuseSave
<1>3. CASE BeginSave(s)
  <2>1. PICK f \in Files, d \in Data :
          /\ new' = [Ensured(canonical) EXCEPT ![f] = d]
          /\ stage' = [stage EXCEPT ![s] = [Ensured(canonical) EXCEPT ![f] = d]]
    BY <1>3 DEF BeginSave
  <2>2. new' \in Content
    BY <2>1, ChangedContent
  <2>3. stage' = [stage EXCEPT ![s] = new']
    BY <2>1
  <2>4. QED
    BY <1>3, <2>2, <2>3 DEF BeginSave, Take
<1>4. QED
  BY <1>1, <1>2, <1>3

\* So does every step of a transaction that meets no failure.
LEMMA TransactionInv == Inv /\ Transaction => Inv'
<1> SUFFICES ASSUME Inv, Transaction
             PROVE  Inv'
  OBVIOUS
<1> USE ActorsAssumption, FixedContents, EnsuredContent, NoDirIsNoContent
    DEF Inv, TypeOK, HolderAgrees, Unclaimed, TxnAgrees, EndAgrees, JournalBacked,
        CompleteMeansPublished, Ops, Running, Terminal, Phases, NoJournal, Cleanup,
        disk, records, txn, clients, server, bounds
<1>1. CASE WriteJournal
  BY <1>1 DEF WriteJournal, Working, SetPhase
<1>2. CASE PublishUnchanged
  BY <1>2 DEF PublishUnchanged, Working, SetPhase
<1>3. CASE MakeBackup
  BY <1>3 DEF MakeBackup, Working
<1>4. CASE BackupFile
  <2>1. op \in Ops /\ backup[op] \in Content
    BY <1>4 DEF BackupFile, Working
  <2>2. PICK f \in Files : backup' = [backup EXCEPT ![op] = Overlay(backup[op], old, {f})]
    BY <1>4 DEF BackupFile, Present
  <2>3. Overlay(backup[op], old, {f}) \in Content
    BY <2>1, MixedContent
  <2>4. QED
    BY <1>4, <2>1, <2>2, <2>3 DEF BackupFile, Working
<1>5. CASE MarkBackedUp
  BY <1>5 DEF MarkBackedUp, Working, SetPhase
<1>6. CASE Evacuate
  <2>1. PICK f \in Files : /\ canonical' = [canonical EXCEPT ![f] = Absent]
                           /\ evac' = [evac EXCEPT ![f] = canonical[f]]
    BY <1>6 DEF Evacuate, Present
  <2>2. canonical' \in Content
    BY <2>1, ChangedContent
  <2>3. evac' \in Content
    BY <2>1, ChangedContent, FileOfContent
  <2>4. QED
    BY <1>6, <2>2, <2>3 DEF Evacuate, Working
<1>7. CASE BeginInstall
  BY <1>7 DEF BeginInstall, Working
<1>8. CASE Install
  <2>1. Target \in Content
    BY DEF Target
  <2>2. PICK f \in Files : canonical' = [canonical EXCEPT ![f] = Target[f]]
    BY <1>8 DEF Install, Present
  <2>3. canonical' \in Content
    BY <2>1, <2>2, ChangedContent, FileOfContent
  <2>4. QED
    BY <1>8, <2>3 DEF Install, Working
<1>9. CASE EndReplace
  BY <1>9 DEF EndReplace, Working, Target
<1>10. CASE MarkPublished
  BY <1>10 DEF MarkPublished, Working, SetPhase
<1>11. CASE Finalize
  BY <1>11 DEF Finalize, Working, SetStatus
<1>12. CASE RolledBack
  BY <1>12 DEF RolledBack, Working, SetStatus
<1>13. CASE RemoveJournal
  BY <1>13 DEF RemoveJournal
<1>14. CASE RemoveBackup
  BY <1>14 DEF RemoveBackup
<1>15. CASE RemoveStage
  BY <1>15 DEF RemoveStage, LetGo
<1>16. QED
  BY <1>1, <1>2, <1>3, <1>4, <1>5, <1>6, <1>7, <1>8, <1>9, <1>10, <1>11, <1>12, <1>13, <1>14, <1>15 DEF Transaction

\* A failing replacement leaves a content and counts as a fault.
LEMMA UndoContent ==
    ASSUME Inv, UndoReplace
    PROVE  canonical' \in Content /\ faults' \in Nat /\ faults' > faults
<1> USE MixedContent DEF Inv, TypeOK
<1>1. Undone \in Content /\ HalfUndone \subseteq Content
  BY DEF Undone, HalfUndone
<1>2. QED
  BY <1>1 DEF UndoReplace

\* So does every failing file operation and every death.
LEMMA FailureInv == Inv /\ Failure => Inv'
<1> SUFFICES ASSUME Inv, Failure
             PROVE  Inv'
  OBVIOUS
<1> USE ActorsAssumption, FixedContents, EnsuredContent, NoDirIsNoContent
    DEF Inv, TypeOK, HolderAgrees, Unclaimed, TxnAgrees, EndAgrees, JournalBacked,
        CompleteMeansPublished, Ops, Running, Terminal, Phases, NoJournal, Cleanup,
        disk, records, txn, clients, server, bounds
<1>1. CASE PublishFault
  <2>1. canonical' \in Content /\ faults' \in Nat /\ faults' # 0
    BY <1>1, UndoContent DEF PublishFault
  <2>2. QED
    BY <1>1, <2>1 DEF PublishFault, Working
<1>2. CASE RestoreFault
  <2>1. canonical' \in Content /\ faults' \in Nat
    BY <1>2, UndoContent DEF RestoreFault
  <2>2. QED
    BY <1>2, <2>1 DEF RestoreFault, Working, SetStatus, Fail, LetGo
<1>3. CASE RecordFault
  BY <1>3 DEF RecordFault, SetStatus, LetGo
<1>4. CASE CrashHolder
  BY <1>4 DEF CrashHolder, Working, LetGo
<1>5. CASE StopServer
  BY <1>5 DEF StopServer, LetGo
<1>6. ASSUME NEW j \in Jobs, CrashWaiting(j)
      PROVE  Inv'
  BY <1>6 DEF CrashWaiting
<1>7. CASE CleanupFault
  BY <1>7 DEF CleanupFault, Working, Removing, Fail, LetGo
<1>8. CASE RecoveryFailure
  <2>1. CASE RecoveryCleanupFault
    BY <2>1 DEF RecoveryCleanupFault, LetGo
  <2>2. CASE StartWithoutRecovery
    BY <2>2 DEF StartWithoutRecovery
  <2>3. ASSUME NEW o \in Ops, RecoveryFault(o)
        PROVE  Inv'
    BY <2>3 DEF RecoveryFault, Recovering
  <2> QED
    BY <1>8, <2>1, <2>2, <2>3 DEF RecoveryFailure
<1>9. QED
  BY <1>1, <1>2, <1>3, <1>4, <1>5, <1>6, <1>7, <1>8 DEF Failure

\* So does the startup of the server.
LEMMA StartupInv == Inv /\ Startup => Inv'
<1> SUFFICES ASSUME Inv, Startup
             PROVE  Inv'
  OBVIOUS
<1> USE ActorsAssumption, FixedContents, EnsuredContent, NoDirIsNoContent
    DEF Inv, TypeOK, HolderAgrees, Unclaimed, TxnAgrees, EndAgrees, JournalBacked,
        CompleteMeansPublished, Ops, Running, Terminal, Phases, NoJournal, Cleanup,
        disk, records, txn, clients, server, bounds
<1>1. CASE StartServer
  BY <1>1 DEF StartServer, Journals
<1>2. CASE EndRecovery
  BY <1>2 DEF EndRecovery
<1>3. CASE EndReconcile
  BY <1>3 DEF EndReconcile
<1>4. ASSUME NEW o \in Ops, SkipJournal(o)
      PROVE  Inv'
  BY <1>4 DEF SkipJournal, Recovering
<1>5. ASSUME NEW o \in Ops, RecoverNew(o)
      PROVE  Inv'
  <2>1. CASE o \in Jobs /\ status[o] = "running"
    <3>1. /\ status' = [status EXCEPT ![o] = "complete"]
          /\ receipt' = [receipt EXCEPT ![o] = canonical]
          /\ history' = history \cup {canonical}
      BY <1>5, <2>1 DEF RecoverNew, FoundNew
    <3>2. QED
      BY <1>5, <2>1, <3>1 DEF RecoverNew, Recovering, Take
  <2>2. CASE ~(o \in Jobs /\ status[o] = "running")
    BY <1>5, <2>2 DEF RecoverNew, Recovering, Take
  <2>3. QED
    BY <2>1, <2>2
<1>6. ASSUME NEW o \in Ops, RecoverOld(o)
      PROVE  Inv'
  BY <1>6 DEF RecoverOld, Recovering, Take, MayMark
<1>7. ASSUME NEW o \in Ops, Refuse(o)
      PROVE  Inv'
  BY <1>7 DEF Refuse, Recovering
<1>8. ASSUME NEW j \in Jobs, Reconcile(j)
      PROVE  Inv'
  BY <1>8 DEF Reconcile
<1>9. QED
  BY <1>1, <1>2, <1>3, <1>4, <1>5, <1>6, <1>7, <1>8 DEF Startup

\* Every reachable state satisfies the invariant.
THEOREM InvHolds == Spec => []Inv
<1>1. Init => Inv
  BY InitInv
<1>2. Inv /\ [Next]_vars => Inv'
  <2>1. Inv /\ UNCHANGED vars => Inv'
    BY DEF vars, disk, records, txn, clients, server, bounds, Inv, TypeOK, HolderAgrees, Unclaimed,
           TxnAgrees, EndAgrees, JournalBacked, CompleteMeansPublished
  <2>2. QED
    BY <2>1, JobInv, SaveInv, TransactionInv, FailureInv, StartupInv DEF Next, Quiet
<1>3. QED
  BY <1>1, <1>2, PTL DEF Spec

----------------------------------------------------------------------------
\* The variables have their types, in every reachable state.
THEOREM TypeCorrect == Spec => []TypeOK
BY InvHolds, PTL DEF Inv

\* No transaction runs on a stale base.
THEOREM BaseStaysCurrent == Spec => []BaseIsCurrent
<1>1. Inv => BaseIsCurrent
  BY DEF Inv, TxnAgrees, BaseIsCurrent
<1>2. QED
  BY <1>1, InvHolds, PTL

\* A journal never claims more than its stage and its backup bear out.
THEOREM JournalsAreBacked == Spec => []JournalBacked
BY InvHolds, PTL DEF Inv

\* What a record calls complete was wholly in the memory.
THEOREM CompletedWasPublished == Spec => []CompleteMeansPublished
BY InvHolds, PTL DEF Inv

----------------------------------------------------------------------------
(* A memory that is no published content.                                  *)

\* A journal whose backup is a published content.
Witness == \E o \in Ops : journal[o].phase = "backed_up" /\ backup[o] \in history

\* As long as nothing failed: while files are replaced, and as long as the memory is no
\* published content, there is a witness; and no witness is removed before the memory is.
TornInv ==
    faults = 0 =>
        /\ canonical \notin history => Witness
        /\ pc \in {"evacuate", "install"} => Witness
        /\ pc \in Cleanup => \/ canonical \in history
                             \/ holder = Server /\ backup[op] \in {NoDir, canonical}

\* A step that changes neither the journals nor the backups, and forgets no published
\* content, keeps a witness.
LEMMA WitnessStays ==
    ASSUME Witness, UNCHANGED <<journal, backup>>, history \subseteq history'
    PROVE  Witness'
BY DEF Witness

\* A step on the operation op, of which no witness is made, keeps a witness.
LEMMA OtherWitnessStays ==
    ASSUME Inv, Witness, op \in Ops, journal[op].phase # "backed_up" \/ backup[op] \notin history,
           NEW J, NEW b,
           journal' = [journal EXCEPT ![op] = J] \/ UNCHANGED journal,
           backup' = [backup EXCEPT ![op] = b] \/ UNCHANGED backup,
           history \subseteq history'
    PROVE  Witness'
BY DEF Inv, TypeOK, Witness

\* Transactions keep TornInv.
LEMMA TransactionTorn == Inv /\ TornInv /\ Transaction => TornInv'
<1> SUFFICES ASSUME Inv, TornInv, Transaction, faults = 0, faults' = 0
             PROVE  TornInv'
  BY DEF TornInv, Transaction, WriteJournal, PublishUnchanged, MakeBackup, BackupFile, MarkBackedUp,
         Evacuate, BeginInstall, Install, EndReplace, MarkPublished, Finalize, RolledBack,
         RemoveJournal, RemoveBackup, RemoveStage, bounds
<1> USE ActorsAssumption, NoDirIsNoContent
    DEF TornInv, Cleanup, disk, records, txn, clients, server, bounds
<1>0. mode = "publish"
  BY DEF Inv, TypeOK, EndAgrees
<1>1. CASE WriteJournal \/ PublishUnchanged \/ MakeBackup \/ BackupFile
  <2>1. op \in Ops /\ journal[op].phase # "backed_up" /\ canonical = old
    BY <1>1 DEF WriteJournal, PublishUnchanged, MakeBackup, BackupFile, Working, Inv, HolderAgrees, TxnAgrees
  <2>2. Witness => Witness'
    BY <1>1, <2>1, OtherWitnessStays
       DEF WriteJournal, PublishUnchanged, MakeBackup, BackupFile, SetPhase
  <2>3. QED
    BY <1>1, <2>2 DEF WriteJournal, PublishUnchanged, MakeBackup, BackupFile
<1>2. CASE MarkBackedUp
  <2>1. /\ op \in Ops /\ journal[op].phase = "prepared" /\ canonical = old
        /\ journal' = [journal EXCEPT ![op] = [phase |-> "backed_up", old |-> old, new |-> new]]
        /\ UNCHANGED <<backup, history, canonical>> /\ backup[op] = old /\ pc' = "evacuate"
    BY <1>2 DEF MarkBackedUp, Working, SetPhase, Inv, HolderAgrees, TxnAgrees
  <2>2. CASE old \in history
    <3>1. journal'[op].phase = "backed_up" /\ backup'[op] \in history'
      BY <2>1, <2>2 DEF Inv, TypeOK
    <3>2. QED
      BY <2>1, <3>1 DEF Witness
  <2>3. CASE old \notin history
    <3>1. Witness'
      BY <2>1, <2>3, OtherWitnessStays
    <3>2. QED
      BY <2>1, <3>1
  <2>4. QED
    BY <2>2, <2>3
<1>3. CASE Evacuate \/ BeginInstall \/ Install
  <2>1. Witness'
    BY <1>3, WitnessStays DEF Evacuate, BeginInstall, Install
  <2>2. QED
    BY <1>3, <2>1 DEF Evacuate, BeginInstall, Install
<1>4. CASE EndReplace
  BY <1>0, <1>4 DEF EndReplace
<1>5. CASE MarkPublished \/ Finalize
  BY <1>5 DEF MarkPublished, Finalize, Inv, TxnAgrees
<1>6. CASE RolledBack
  BY <1>0, <1>6 DEF RolledBack, Inv, TxnAgrees
<1>7. CASE RemoveJournal \/ RemoveBackup \/ RemoveStage
  <2>1. /\ op \in Ops
        /\ canonical \in history \/ backup[op] \in {NoDir, canonical}
        /\ UNCHANGED <<canonical, history>>
        /\ pc' \notin {"evacuate", "install"}
    BY <1>7 DEF RemoveJournal, RemoveBackup, RemoveStage, LetGo, Inv, TypeOK, HolderAgrees
  <2>2. canonical \notin history => Witness'
    <3> SUFFICES ASSUME canonical \notin history
                 PROVE  Witness'
      OBVIOUS
    <3>1. backup[op] \notin history
      BY <2>1 DEF Inv, TypeOK
    <3>2. QED
      BY <1>7, <2>1, <3>1, OtherWitnessStays DEF RemoveJournal, RemoveBackup, RemoveStage
  <2>3. canonical \in history \/ (pc' \in Cleanup => holder' = Server /\ backup'[op'] \in {NoDir, canonical'})
    BY <1>7, <2>1 DEF RemoveJournal, RemoveBackup, RemoveStage, LetGo, Inv, TypeOK
  <2>4. QED
    BY <2>1, <2>2, <2>3
<1>8. QED
  BY <1>1, <1>2, <1>3, <1>4, <1>5, <1>6, <1>7 DEF Transaction

\* So do the steps outside of a transaction.
LEMMA OutsideTorn ==
    Inv /\ TornInv /\ (Failure \/ Startup \/ (\E j \in Jobs : JobStep(j))
                       \/ (\E s \in Saves : Show(s) \/ RefuseSave(s) \/ BeginSave(s))) => TornInv'
<1> SUFFICES ASSUME Inv, TornInv, faults' = 0,
                    \/ Failure \/ Startup \/ \E j \in Jobs : JobStep(j)
                    \/ \E s \in Saves : Show(s) \/ RefuseSave(s) \/ BeginSave(s)
             PROVE  TornInv'
  BY DEF TornInv
<1> USE ActorsAssumption
    DEF TornInv, Cleanup, disk, records, txn, clients, server, bounds
<1>1. ASSUME NEW j \in Jobs, JobStep(j)
      PROVE  TornInv'
  <2>1. Witness => Witness'
    BY <1>1, WitnessStays DEF JobStep, StartJob, FailRun, FinishRun
  <2>2. CASE StartJob(j)
    BY <2>1, <2>2 DEF StartJob, Take, Ensured
  <2>3. CASE FailRun(j) \/ FinishRun(j)
    BY <2>1, <2>3 DEF FailRun, FinishRun, LetGo
  <2>4. QED
    BY <1>1, <2>2, <2>3 DEF JobStep
<1>2. ASSUME NEW s \in Saves, Show(s) \/ RefuseSave(s) \/ BeginSave(s)
      PROVE  TornInv'
  <2>1. Witness => Witness'
    BY <1>2, WitnessStays DEF Show, RefuseSave, BeginSave
  <2>2. CASE Show(s)
    BY <2>1, <2>2 DEF Show
  <2>3. CASE RefuseSave(s)
    BY <2>1, <2>3 DEF RefuseSave, Ensured, Inv, HolderAgrees
  <2>4. CASE BeginSave(s)
    BY <2>1, <2>4 DEF BeginSave, Take, Ensured
  <2>5. QED
    BY <1>2, <2>2, <2>3, <2>4
<1>3. CASE Failure
  <2>1. ~PublishFault /\ ~RestoreFault /\ ~RecordFault /\ ~CleanupFault /\ ~RecoveryFailure
    BY UndoContent
       DEF PublishFault, RestoreFault, RecordFault, CleanupFault, RecoveryFailure,
           RecoveryCleanupFault, StartWithoutRecovery, RecoveryFault, Inv, TypeOK
  <2>2. UNCHANGED <<canonical, backup, journal, history, faults>>
    BY <1>3, <2>1 DEF Failure, CrashHolder, StopServer, CrashWaiting
  <2>3. pc' = "idle" \/ UNCHANGED <<pc, holder, op>>
    BY <1>3, <2>1 DEF Failure, CrashHolder, StopServer, CrashWaiting, LetGo
  <2>4. Witness => Witness'
    BY <2>2, WitnessStays
  <2>5. QED
    BY <2>2, <2>3, <2>4
<1>4. CASE Startup
  <2>1. Witness => Witness'
    BY <1>4, WitnessStays DEF Startup, StartServer, EndRecovery, EndReconcile, SkipJournal,
                              RecoverNew, RecoverOld, Refuse, Reconcile
  <2>2. ASSUME NEW o \in Ops, RecoverNew(o)
        PROVE  TornInv'
    BY <2>1, <2>2 DEF RecoverNew, Take
  <2>3. ASSUME NEW o \in Ops, RecoverOld(o)
        PROVE  TornInv'
    <3>1. backup[o] \in {NoDir, canonical}
      BY <2>3 DEF RecoverOld, FoundOld, FoundNew, Consistent
    <3>2. QED
      BY <2>1, <2>3, <3>1 DEF RecoverOld, Take
  <2>4. CASE UNCHANGED <<canonical, history, holder, op, pc, backup, faults>>
    BY <2>1, <2>4
  <2>5. QED
    BY <1>4, <2>2, <2>3, <2>4 DEF Startup, StartServer, EndRecovery, EndReconcile, SkipJournal,
                                  Refuse, Reconcile
<1>5. QED
  BY <1>1, <1>2, <1>3, <1>4

\* As long as no file operation failed, a torn memory is recoverable.
THEOREM TornStaysRecoverable == Spec => []TornIsRecoverable
<1>1. Init => TornInv
  BY ResultsAssumption DEF Init, TornInv, Cleanup
<1>2. Inv /\ TornInv /\ [Next]_vars => TornInv'
  <2>1. TornInv /\ UNCHANGED vars => TornInv'
    BY DEF TornInv, Witness, vars, disk, records, txn, clients, server, bounds
  <2>2. QED
    BY <2>1, TransactionTorn, OutsideTorn DEF Next, Quiet
<1>3. TornInv => TornIsRecoverable
  BY DEF TornInv, Witness, TornIsRecoverable
<1>4. QED
  BY <1>1, <1>2, <1>3, InvHolds, PTL DEF Spec

----------------------------------------------------------------------------
(* A process that lives.                                                   *)

\* Without a death and with one failure at most, what the memory held before the
\* transaction is a published content, and so is the memory outside of the replacement.
IntactInv ==
    crashes = 0 /\ faults <= 1 =>
        /\ srv = "serving" /\ holder # Server
        /\ pc \in {"evacuate", "install", "installed"} => old \in history
        /\ pc \notin {"evacuate", "install"} => canonical \in history

\* Deaths and faults are only counted up.
LEMMA BoundsGrow ==
    ASSUME Inv, [Next]_vars
    PROVE  /\ crashes' \in Nat /\ faults' \in Nat
           /\ crashes <= crashes' /\ faults <= faults'
<1> USE DEF bounds
<1>1. crashes \in Nat /\ faults \in Nat
  BY DEF Inv, TypeOK
<1>2. CASE Transaction \/ Startup
  BY <1>1, <1>2
     DEF Transaction, WriteJournal, PublishUnchanged, MakeBackup, BackupFile, MarkBackedUp, Evacuate,
         BeginInstall, Install, EndReplace, MarkPublished, Finalize, RolledBack, RemoveJournal,
         RemoveBackup, RemoveStage, Startup, StartServer, EndRecovery, EndReconcile, SkipJournal,
         RecoverNew, RecoverOld, Refuse, Reconcile
<1>3. CASE Failure
  BY <1>1, <1>3, UndoContent
     DEF Failure, PublishFault, RestoreFault, RecordFault, CleanupFault, CrashHolder, StopServer,
         CrashWaiting, RecoveryFailure, RecoveryCleanupFault, StartWithoutRecovery, RecoveryFault
<1>4. CASE ~(Transaction \/ Startup \/ Failure)
  BY <1>1, <1>4
     DEF Next, Quiet, JobStep, StartJob, FailRun, FinishRun, Show, RefuseSave, BeginSave, vars
<1>5. QED
  BY <1>2, <1>3, <1>4

\* Every step keeps IntactInv.
LEMMA IntactStep == Inv /\ IntactInv /\ [Next]_vars => IntactInv'
<1> SUFFICES ASSUME Inv, IntactInv, [Next]_vars, crashes' = 0, faults' <= 1
             PROVE  IntactInv'
  BY DEF IntactInv
<1>0. crashes = 0 /\ faults <= 1
  <2>1. crashes \in Nat /\ faults \in Nat
    BY DEF Inv, TypeOK
  <2>2. QED
    BY <2>1, BoundsGrow
<1> USE ActorsAssumption
    DEF IntactInv, Cleanup, Inv, TypeOK, TxnAgrees, EndAgrees, HolderAgrees,
        disk, records, txn, clients, server, bounds
<1>1. ASSUME NEW j \in Jobs, JobStep(j)
      PROVE  IntactInv'
  <2>1. CASE StartJob(j)
    <3>1. canonical \in history /\ srv = "serving"
      BY <1>0, <2>1 DEF StartJob, Take
    <3>2. canonical' = Ensured(canonical) /\ history' = history \cup {Ensured(canonical)}
      BY <2>1, <3>1 DEF StartJob
    <3>3. pc' = "run" /\ holder' = j /\ srv' = srv
      BY <2>1 DEF StartJob, Take
    <3>4. QED
      BY <3>1, <3>2, <3>3 DEF Ops
  <2>2. CASE FailRun(j) \/ FinishRun(j)
    BY <1>0, <2>2 DEF FailRun, FinishRun, LetGo
  <2>3. QED
    BY <1>1, <2>1, <2>2 DEF JobStep
<1>2. ASSUME NEW s \in Saves, Show(s) \/ RefuseSave(s) \/ BeginSave(s)
      PROVE  IntactInv'
  <2>1. CASE Show(s)
    BY <1>0, <2>1 DEF Show
  <2>2. CASE RefuseSave(s)
    BY <1>0, <2>2 DEF RefuseSave
  <2>3. CASE BeginSave(s)
    BY <1>0, <2>3 DEF BeginSave, Take, Ops
  <2>4. QED
    BY <1>2, <2>1, <2>2, <2>3
<1>3. CASE Transaction
  <2>1. CASE WriteJournal \/ PublishUnchanged \/ MakeBackup \/ BackupFile \/ MarkBackedUp
    BY <2>1 DEF WriteJournal, PublishUnchanged, MakeBackup, BackupFile, MarkBackedUp
  <2>2. CASE Evacuate \/ BeginInstall \/ Install \/ EndReplace
    BY <2>2 DEF Evacuate, BeginInstall, Install, EndReplace, Target
  <2>3. CASE MarkPublished \/ Finalize \/ RolledBack
    BY <2>3 DEF MarkPublished, Finalize, RolledBack
  <2>4. CASE RemoveJournal \/ RemoveBackup \/ RemoveStage
    BY <2>4 DEF RemoveJournal, RemoveBackup, RemoveStage, LetGo
  <2>5. QED
    BY <1>3, <2>1, <2>2, <2>3, <2>4 DEF Transaction
<1>4. CASE Failure
  <2>1. CASE PublishFault
    <3>1. old \in history
      BY <1>0, <2>1 DEF PublishFault
    <3>2. pc' = "evacuate" /\ UNCHANGED <<old, history, srv, holder>>
      BY <2>1 DEF PublishFault
    <3>3. QED
      BY <1>0, <3>1, <3>2
  <2>2. ~RestoreFault
    BY UndoContent DEF RestoreFault
  <2>3. CASE RecordFault
    BY <2>3 DEF RecordFault, LetGo
  <2>4. CASE CleanupFault
    BY <1>0, <2>4 DEF CleanupFault, Removing, LetGo
  <2>5. ~CrashHolder /\ ~StopServer /\ \A j \in Jobs : ~CrashWaiting(j)
    BY DEF CrashHolder, StopServer, CrashWaiting
  <2>6. ~RecoveryFailure
    BY <1>0 DEF RecoveryFailure, RecoveryCleanupFault, StartWithoutRecovery, RecoveryFault,
                Recovering
  <2>7. QED
    BY <1>4, <2>1, <2>2, <2>3, <2>4, <2>5, <2>6 DEF Failure
<1>5. ~Startup
  BY <1>0 DEF Startup, StartServer, EndRecovery, EndReconcile, SkipJournal, RecoverNew, RecoverOld,
              Refuse, Reconcile, Recovering
<1>6. CASE UNCHANGED vars
  BY <1>6 DEF vars
<1>7. QED
  BY <1>1, <1>2, <1>3, <1>4, <1>5, <1>6 DEF Next, Quiet

\* A failing file operation alone tears no memory.
THEOREM LivingProcessesTearNothing == Spec => []NoTornWithoutCrash
<1>1. Init => IntactInv
  BY ActorsAssumption DEF Init, IntactInv
<1>2. Inv /\ IntactInv => NoTornWithoutCrash
  BY DEF Inv, HolderAgrees, IntactInv, NoTornWithoutCrash
<1>3. QED
  BY <1>1, <1>2, IntactStep, InvHolds, PTL DEF Spec

\* What RollbackRestores asks of one step.
Restored == Working /\ mode = "restore" /\ holder' = Nobody /\ faults' <= 1 /\ crashes' = crashes
              => canonical' = old

\* A rollback that meets no second failure puts the old files back.
THEOREM RollbacksRestore == Spec => RollbackRestores
<1>1. Inv /\ [Next]_vars => [Restored]_vars
  <2> SUFFICES ASSUME Inv, Next, Working, mode = "restore", holder' = Nobody,
                      faults' <= 1, crashes' = crashes
               PROVE  canonical' = old
    BY DEF Restored
  <2>1. holder # Nobody /\ faults \in Nat /\ faults # 0 /\ crashes \in Nat
    BY ActorsAssumption DEF Working, Inv, TypeOK, EndAgrees, Ops
  <2>2. ~RestoreFault
    BY <2>1, UndoContent DEF RestoreFault
  <2>3. ~CrashHolder
    BY <2>1 DEF CrashHolder
  <2>4. CASE RemoveStage \/ RecordFault \/ CleanupFault
    BY <2>1, <2>4
       DEF RemoveStage, RecordFault, CleanupFault, Removing, disk, Inv, EndAgrees, TxnAgrees, Cleanup
  <2>5. ASSUME NEW j \in Jobs, FailRun(j)
        PROVE  FALSE
    BY <2>5 DEF FailRun, Inv, TxnAgrees
  <2>6. CASE StopServer
    BY <2>1, <2>6 DEF StopServer
  <2>7. CASE UNCHANGED holder
    BY <2>1, <2>7
  <2>8. ~RecoveryCleanupFault
    BY ActorsAssumption DEF RecoveryCleanupFault, Working
  <2>9. QED
    BY <2>2, <2>3, <2>4, <2>5, <2>6, <2>7, <2>8, <2>1
       DEF Next, Quiet, JobStep, StartJob, FinishRun, Show, RefuseSave, BeginSave, Take,
           Transaction, WriteJournal, PublishUnchanged, MakeBackup, BackupFile, MarkBackedUp, Evacuate,
           BeginInstall, Install, EndReplace, MarkPublished, Finalize, RolledBack, RemoveJournal,
           RemoveBackup, Startup, StartServer, EndRecovery, EndReconcile, SkipJournal,
           RecoverNew, RecoverOld, Refuse, Reconcile, Recovering, Failure, PublishFault, CrashWaiting,
           RecoveryFailure, StartWithoutRecovery, RecoveryFault, vars
<1>2. QED
  BY <1>1, InvHolds, PTL DEF Spec, RollbackRestores, Restored


----------------------------------------------------------------------------
(* The records of the jobs.                                                *)

\* A valid move of one record is a step of JobRecord.
LEMMA MoveFollows ==
    ASSUME NEW j \in Jobs, NEW s \in Records!ValidTransitions[status[j]],
           status' = [status EXCEPT ![j] = s]
    PROVE  Records!Next
BY DEF Records!Next, Records!Move, Records!Write

\* What a step does to the records.
RecordStep == UNCHANGED status \/ Records!Next

\* An active record may be failed, a running one may be completed, and writing what a
\* record says already changes nothing.
LEMMA EndFollows ==
    ASSUME TypeOK, NEW j \in Jobs, NEW s \in Terminal, status' = [status EXCEPT ![j] = s],
           status[j] \in {"running", s} \/ (s = "failed" /\ status[j] \in Running)
    PROVE  RecordStep
<1>1. CASE status[j] = s
  BY <1>1 DEF TypeOK, RecordStep
<1>2. CASE status[j] # s
  <2>1. s \in Records!ValidTransitions[status[j]]
    BY <1>2 DEF Terminal, Running, Records!ValidTransitions
  <2> QED
    BY <2>1, MoveFollows DEF RecordStep
<1> QED
  BY <1>1, <1>2

\* The worker's and the transaction's steps write a record that is not ended, or say what
\* it says.
LEMMA HolderFollows ==
    ASSUME Inv, holder \in Ops, pc \notin Cleanup, NEW s \in Terminal, SetStatus(s)
    PROVE  RecordStep
<1>1. op = holder /\ (op \in Jobs => status[op] = "running") /\ TypeOK
  BY DEF Inv, HolderAgrees
<1>2. CASE op \in Jobs
  BY <1>1, <1>2, EndFollows DEF SetStatus
<1>3. CASE op \notin Jobs
  BY <1>3 DEF SetStatus, RecordStep
<1> QED
  BY <1>2, <1>3

\* The job records go along the transitions, for any jobs, deaths and faults.
THEOREM RecordsFollowTheTransitions == Spec => RecordsFollow
<1>1. Init => Records!Init
  BY DEF Init, Records!Init
<1>2. Inv /\ Next => RecordStep
  <2> SUFFICES ASSUME Inv, Next
               PROVE  RecordStep
    OBVIOUS
  <2> USE DEF records
  <2>1. ASSUME NEW j \in Jobs, StartJob(j)
        PROVE  RecordStep
    <3>1. "running" \in Records!ValidTransitions[status[j]]
      BY <2>1 DEF StartJob, Records!ValidTransitions
    <3> QED
      BY <2>1, <3>1, MoveFollows DEF StartJob, RecordStep
  <2>2. ASSUME NEW j \in Jobs, FailRun(j)
        PROVE  RecordStep
    <3>1. status[j] = "running" /\ TypeOK
      BY <2>2 DEF FailRun, Inv, HolderAgrees, Cleanup
    <3> QED
      BY <2>2, <3>1, EndFollows DEF FailRun, Terminal
  <2>3. CASE Finalize \/ RolledBack \/ RestoreFault \/ RecordFault
    BY <2>3, HolderFollows
       DEF Finalize, RolledBack, RestoreFault, RecordFault, Working, Cleanup, Ops, Terminal
  <2>4. ASSUME NEW o \in Ops, RecoverNew(o)
        PROVE  RecordStep
    <3>1. CASE o \in Jobs /\ status[o] = "running"
      <4>1. TypeOK /\ "complete" \in Terminal
        BY DEF Inv, Terminal
      <4> QED
        BY <2>4, <3>1, <4>1, EndFollows DEF RecoverNew
    <3>2. CASE ~(o \in Jobs /\ status[o] = "running")
      BY <2>4, <3>2 DEF RecoverNew, RecordStep
    <3> QED
      BY <3>1, <3>2
  <2>5. ASSUME NEW o \in Ops, RecoverOld(o)
        PROVE  RecordStep
    <3>1. TypeOK /\ "failed" \in Terminal
      BY DEF Inv, Terminal
    <3>2. CASE o \in Jobs
      BY <2>5, <3>1, <3>2, EndFollows DEF RecoverOld, MayMark
    <3>3. CASE o \notin Jobs
      BY <2>5, <3>3 DEF RecoverOld, RecordStep
    <3> QED
      BY <3>2, <3>3
  <2>6. ASSUME NEW j \in Jobs, Reconcile(j)
        PROVE  RecordStep
    <3>1. TypeOK /\ "failed" \in Terminal
      BY DEF Inv, Terminal
    <3>2. CASE status[j] \in Running /\ status' = [status EXCEPT ![j] = "failed"]
      BY <3>1, <3>2, EndFollows
    <3>3. CASE UNCHANGED status
      BY <3>3 DEF RecordStep
    <3> QED
      BY <2>6, <3>2, <3>3 DEF Reconcile
  <2>7. CASE UNCHANGED status
    BY <2>7 DEF RecordStep
  <2> QED
    BY <2>1, <2>2, <2>3, <2>4, <2>5, <2>6, <2>7
       DEF Next, Quiet, JobStep, FinishRun, Show, RefuseSave, BeginSave, Transaction, WriteJournal,
           PublishUnchanged, MakeBackup, BackupFile, MarkBackedUp, Evacuate, BeginInstall, Install,
           EndReplace, MarkPublished, RemoveJournal, RemoveBackup, RemoveStage, Startup, StartServer,
           EndRecovery, EndReconcile, SkipJournal, Refuse, Failure, PublishFault, CrashHolder,
           StopServer, CrashWaiting, CleanupFault, RecoveryFailure, RecoveryCleanupFault,
           StartWithoutRecovery, RecoveryFault, vars
<1>3. Inv /\ [Next]_vars => [Records!Next]_status
  BY <1>2 DEF RecordStep, vars, records
<1> QED
  BY <1>1, <1>3, InvHolds, PTL DEF Spec, RecordsFollow, Records!Spec

----------------------------------------------------------------------------
(* The startup of the server.                                              *)

\* The server works on journals it has taken off its list and has not set aside.
StartupAgrees ==
    /\ holder = Server => srv = "recovering" /\ op \notin todo \cup blocked
    /\ srv = "recovering" => todo \cap blocked = {}
    /\ srv = "down" => blocked = {}

\* Every step keeps it.
LEMMA StartupAgreesStep == Inv /\ StartupAgrees /\ [Next]_vars => StartupAgrees'
<1> SUFFICES ASSUME Inv, StartupAgrees, [Next]_vars
             PROVE  StartupAgrees'
  OBVIOUS
<1> USE ActorsAssumption
    DEF StartupAgrees, Inv, TypeOK, HolderAgrees, Unclaimed, Ops, Working,
        disk, records, txn, clients, server, bounds
<1>1. ASSUME NEW j \in Jobs, JobStep(j)
      PROVE  StartupAgrees'
  BY <1>1 DEF JobStep, StartJob, FailRun, FinishRun, Take, LetGo
<1>2. ASSUME NEW s \in Saves, Show(s) \/ RefuseSave(s) \/ BeginSave(s)
      PROVE  StartupAgrees'
  BY <1>2 DEF Show, RefuseSave, BeginSave, Take
<1>3. CASE Transaction
  <2>1. CASE RemoveStage
    BY <2>1 DEF RemoveStage, LetGo
  <2>2. CASE ~RemoveStage
    <3>1. UNCHANGED <<holder, op, server>>
      BY <1>3, <2>2
         DEF Transaction, WriteJournal, PublishUnchanged, MakeBackup, BackupFile, MarkBackedUp,
             Evacuate, BeginInstall, Install, EndReplace, MarkPublished, Finalize, RolledBack,
             RemoveJournal, RemoveBackup
    <3> QED
      BY <3>1
  <2> QED
    BY <2>1, <2>2
<1>4. CASE Failure
  BY <1>4 DEF Failure, PublishFault, RestoreFault, RecordFault, CleanupFault, CrashHolder,
              StopServer, CrashWaiting, RecoveryFailure, RecoveryCleanupFault,
              StartWithoutRecovery, RecoveryFault, Recovering, LetGo
<1>5. CASE Startup
  <2>1. CASE StartServer \/ EndRecovery \/ EndReconcile
    BY <2>1 DEF StartServer, EndRecovery, EndReconcile
  <2>2. ASSUME NEW o \in Ops, SkipJournal(o) \/ Refuse(o)
        PROVE  StartupAgrees'
    BY <2>2 DEF SkipJournal, Refuse, Recovering
  <2>3. ASSUME NEW o \in Ops, RecoverNew(o) \/ RecoverOld(o)
        PROVE  StartupAgrees'
    BY <2>3 DEF RecoverNew, RecoverOld, Recovering, Take
  <2>4. ASSUME NEW j \in Jobs, Reconcile(j)
        PROVE  StartupAgrees'
    BY <2>4 DEF Reconcile
  <2> QED
    BY <1>5, <2>1, <2>2, <2>3, <2>4 DEF Startup
<1>6. CASE UNCHANGED vars
  BY <1>6 DEF vars
<1> QED
  BY <1>1, <1>2, <1>3, <1>4, <1>5, <1>6 DEF Next, Quiet

\* The startup keeps its lists, in every behaviour.
LEMMA StartupHolds == Spec => []StartupAgrees
<1>1. Init => StartupAgrees
  BY ActorsAssumption DEF Init, StartupAgrees
<1> QED
  BY <1>1, InvHolds, StartupAgreesStep, PTL DEF Spec

\* The startup pass has yet to deal with an active job whose worker is gone.
Ahead(j) == srv = "recovering" \/ (srv = "reconciling" /\ j \in todo)
Owed(j) == ~alive[j] /\ status[j] \in Running /\ j \notin blocked /\ Ahead(j)

\* A job that is dead when the startup comes to it is dealt with in this pass: it ends, or
\* recovery has set it aside, or the server stops again.  (The safety half of
\* DeadJobsResolved: when the server serves, nothing is before the pass any more.)
NoneOverlooked ==
    [][\A j \in Jobs : Owed(j) =>
         Owed(j)' \/ status'[j] \in Terminal \/ j \in blocked' \/ srv' = "down"]_vars

\* Recovery has yet to deal with the journal of a running job whose worker is gone, or has
\* set it aside.
Journalled(j) ==
    /\ ~alive[j] /\ status[j] = "running" /\ journal[j].phase # "none"
    /\ j \in blocked \/ (srv = "recovering" /\ j \in todo)

\* The memory decides: a dead job whose journal the startup has found is completed only while
\* the memory holds its new content, and failed only while it holds its old one, also by the
\* pass over the job records that follows.  (What PublishedIsNotFailed asks for, and what the
\* code keeps for the journals on recovery's list.)
MemoryDecides ==
    [][\A j \in Jobs : Journalled(j) =>
         \/ Journalled(j)' \/ srv' = "down"
         \/ status'[j] = "complete" /\ canonical = journal[j].new
         \/ status'[j] = "failed" /\ canonical = journal[j].old
                                  /\ canonical # journal[j].new]_vars

\* Nobody but the starting server touches the record, the journal or the place in the pass of
\* a job whose worker is gone.
LEMMA DeadAreLeftAlone ==
    ASSUME Inv, StartupAgrees, NEW j \in Jobs, ~alive[j], [Next]_vars, ~Startup, ~StopServer,
           ~RecoveryFailure
    PROVE  /\ ~alive'[j] /\ status'[j] = status[j] /\ UNCHANGED server
           /\ (srv = "recovering" /\ j \in todo) \/ j \in blocked =>
                (journal[j].phase # "none" => journal'[j].phase # "none")
<1> USE ActorsAssumption
    DEF Inv, TypeOK, HolderAgrees, StartupAgrees, Ops, Working, disk, records, txn, clients, server,
        bounds
<1>1. ASSUME NEW k \in Jobs, JobStep(k)
      PROVE  /\ ~alive'[j] /\ status'[j] = status[j] /\ UNCHANGED <<server, journal>>
  BY <1>1 DEF JobStep, StartJob, FailRun, FinishRun
<1>2. ASSUME NEW s \in Saves, Show(s) \/ RefuseSave(s) \/ BeginSave(s)
      PROVE  /\ ~alive'[j] /\ status'[j] = status[j] /\ UNCHANGED <<server, journal>>
  BY <1>2 DEF Show, RefuseSave, BeginSave
<1>3. CASE Transaction
  <2>1. UNCHANGED <<alive, server>>
    BY <1>3
       DEF Transaction, WriteJournal, PublishUnchanged, MakeBackup, BackupFile, MarkBackedUp,
           Evacuate, BeginInstall, Install, EndReplace, MarkPublished, Finalize, RolledBack,
           RemoveJournal, RemoveBackup, RemoveStage
  <2>2. status'[j] = status[j]
    BY <1>3
       DEF Transaction, WriteJournal, PublishUnchanged, MakeBackup, BackupFile, MarkBackedUp,
           Evacuate, BeginInstall, Install, EndReplace, MarkPublished, Finalize, RolledBack,
           RemoveJournal, RemoveBackup, RemoveStage, SetStatus
  <2>3. CASE RemoveJournal
    <3>1. op \in Ops /\ (op = j => j \notin todo \cup blocked)
      BY <2>3 DEF RemoveJournal
    <3> QED
      BY <2>1, <2>2, <2>3, <3>1 DEF RemoveJournal
  <2>4. CASE ~RemoveJournal
    <3>1. CASE WriteJournal \/ PublishUnchanged \/ MarkBackedUp \/ MarkPublished
      <4>1. journal'[op].phase # "none" /\ (j # op => journal'[j] = journal[j])
        BY <3>1 DEF WriteJournal, PublishUnchanged, MarkBackedUp, MarkPublished, SetPhase
      <4> QED
        BY <2>1, <2>2, <4>1
    <3>2. CASE UNCHANGED journal
      BY <2>1, <2>2, <3>2
    <3> QED
      BY <1>3, <2>4, <3>1, <3>2
         DEF Transaction, MakeBackup, BackupFile, Evacuate, BeginInstall, Install, EndReplace,
             Finalize, RolledBack, RemoveBackup, RemoveStage
  <2> QED
    BY <2>3, <2>4
<1>4. CASE Failure
  <2>1. ~alive'[j] /\ status'[j] = status[j] /\ UNCHANGED <<server, journal>>
    BY <1>4 DEF Failure, PublishFault, RestoreFault, RecordFault, CleanupFault, CrashHolder,
                CrashWaiting, SetStatus
  <2> QED
    BY <2>1
<1>5. CASE UNCHANGED vars
  BY <1>5 DEF vars
<1> QED
  BY <1>1, <1>2, <1>3, <1>4, <1>5 DEF Next, Quiet

\* The startup pass overlooks no dead job, for any jobs and any number of deaths and faults.
THEOREM StartupOverlooksNone == Spec => NoneOverlooked
<1>1. ASSUME Inv, StartupAgrees, [Next]_vars, NEW j \in Jobs, Owed(j)
      PROVE  Owed(j)' \/ status'[j] \in Terminal \/ j \in blocked' \/ srv' = "down"
  <2> USE DEF Owed, Ahead, server
  <2>1. CASE ~Startup /\ ~StopServer /\ ~RecoveryFailure
    BY <1>1, <2>1, DeadAreLeftAlone
  <2>2. CASE StopServer \/ StartServer \/ EndRecovery \/ EndReconcile
    BY <1>1, <2>2 DEF StopServer, StartServer, EndRecovery, EndReconcile, records
  <2>3. ASSUME NEW o \in Ops, SkipJournal(o) \/ Refuse(o)
        PROVE  Owed(j)' \/ j \in blocked'
    BY <1>1, <2>3 DEF SkipJournal, Refuse, Recovering, records
  <2>4. ASSUME NEW o \in Ops, RecoverNew(o) \/ RecoverOld(o)
        PROVE  Owed(j)' \/ status'[j] \in Terminal
    BY <1>1, <2>4 DEF RecoverNew, RecoverOld, Recovering, records, Inv, TypeOK, Terminal
  <2>5. ASSUME NEW k \in Jobs, Reconcile(k)
        PROVE  Owed(j)' \/ status'[j] \in Terminal
    BY <1>1, <2>5 DEF Reconcile, Inv, TypeOK, Terminal
  <2>6. CASE RecoveryFailure
    <3>1. CASE RecoveryCleanupFault
      BY <1>1, <3>1 DEF RecoveryCleanupFault, records
    <3>2. CASE StartWithoutRecovery
      BY <1>1, <3>2 DEF StartWithoutRecovery
    <3>3. ASSUME NEW o \in Ops, RecoveryFault(o)
          PROVE  Owed(j)' \/ j \in blocked'
      BY <1>1, <3>3 DEF RecoveryFault, Recovering, records
    <3> QED
      BY <2>6, <3>1, <3>2, <3>3 DEF RecoveryFailure
  <2> QED
    BY <2>1, <2>2, <2>3, <2>4, <2>5, <2>6 DEF Startup
<1>2. Inv /\ StartupAgrees /\ [Next]_vars =>
          [\A j \in Jobs : Owed(j) =>
             Owed(j)' \/ status'[j] \in Terminal \/ j \in blocked' \/ srv' = "down"]_vars
  BY <1>1
<1> QED
  BY <1>2, InvHolds, StartupHolds, PTL DEF Spec, NoneOverlooked

\* What the memory holds decides how a dead job that recovery has found ends, for any jobs,
\* contents, deaths and faults.
THEOREM RecoveryGoesByTheMemory == Spec => MemoryDecides
<1> DEFINE Decided(j) ==
      \/ status'[j] = "complete" /\ canonical = journal[j].new
      \/ status'[j] = "failed" /\ canonical = journal[j].old /\ canonical # journal[j].new
<1>1. ASSUME Inv, StartupAgrees, [Next]_vars, NEW j \in Jobs, Journalled(j)
      PROVE  Journalled(j)' \/ srv' = "down" \/ Decided(j)
  <2> USE DEF Journalled, server
  <2>1. CASE ~Startup /\ ~StopServer /\ ~RecoveryFailure
    BY <1>1, <2>1, DeadAreLeftAlone
  <2>2. CASE StopServer \/ StartServer \/ EndRecovery \/ EndReconcile
    BY <1>1, <2>2
       DEF StopServer, StartServer, EndRecovery, EndReconcile, StartupAgrees, records, disk
  <2>3. ASSUME NEW o \in Ops, SkipJournal(o) \/ Refuse(o)
        PROVE  Journalled(j)'
    BY <1>1, <2>3 DEF SkipJournal, Refuse, Recovering, records, disk
  <2>4. ASSUME NEW o \in Ops, RecoverNew(o)
        PROVE  Journalled(j)' \/ Decided(j)
    BY <1>1, <2>4 DEF RecoverNew, Recovering, FoundNew, records, disk, Inv, TypeOK
  <2>5. ASSUME NEW o \in Ops, RecoverOld(o)
        PROVE  Journalled(j)' \/ Decided(j)
    <3>1. CASE o = j
      <4>1. canonical = journal[j].old /\ status'[j] = "failed" /\ Consistent(j) /\ ~FoundNew(j)
        BY <1>1, <2>5, <3>1 DEF RecoverOld, FoundOld, Inv, TypeOK
      <4>2. canonical # journal[j].new
        <5>1. journal[j].phase \in {"prepared", "backed_up", "published"}
          BY <1>1 DEF Inv, TypeOK, Phases, Ops
        <5> QED
          BY <4>1, <5>1 DEF FoundNew, Consistent
      <4> QED
        BY <4>1, <4>2
    <3>2. CASE o # j
      BY <1>1, <2>5, <3>2 DEF RecoverOld, Recovering, records, disk, Inv, TypeOK
    <3> QED
      BY <3>1, <3>2
  <2>6. ASSUME NEW k \in Jobs, Reconcile(k)
        PROVE  Journalled(j)'
    BY <1>1, <2>6 DEF Reconcile, disk, StartupAgrees
  <2>7. CASE RecoveryFailure
    <3>1. CASE RecoveryCleanupFault
      BY <1>1, <3>1 DEF RecoveryCleanupFault, records, disk
    <3>2. CASE StartWithoutRecovery
      BY <1>1, <3>2 DEF StartWithoutRecovery, StartupAgrees
    <3>3. ASSUME NEW o \in Ops, RecoveryFault(o)
          PROVE  Journalled(j)'
      BY <1>1, <3>3 DEF RecoveryFault, Recovering, records, disk
    <3> QED
      BY <2>7, <3>1, <3>2, <3>3 DEF RecoveryFailure
  <2> QED
    BY <2>1, <2>2, <2>3, <2>4, <2>5, <2>6, <2>7 DEF Startup
<1>2. Inv /\ StartupAgrees /\ [Next]_vars =>
          [\A j \in Jobs : Journalled(j) =>
             \/ Journalled(j)' \/ srv' = "down"
             \/ status'[j] = "complete" /\ canonical = journal[j].new
             \/ status'[j] = "failed" /\ canonical = journal[j].old
                                      /\ canonical # journal[j].new]_vars
  BY <1>1
<1> QED
  BY <1>2, InvHolds, StartupHolds, PTL DEF Spec, MemoryDecides

\* What recovery has set aside is left to the operator as it is: while nobody works on it, the
\* journal of such a job and its record stay, whatever other jobs, saves and the pass over the
\* records do, and also when the server stops.
RefusedStay ==
    [][\A j \in Jobs : j \in blocked /\ holder # j /\ journal[j].phase # "none"
                       => journal'[j] = journal[j] /\ status'[j] = status[j]]_vars

\* Nobody resolves a refused journal behind the operator's back, for any jobs, saves, deaths
\* and faults.
THEOREM RefusedJournalsStay == Spec => RefusedStay
<1>1. ASSUME Inv, StartupAgrees, [Next]_vars,
             NEW j \in Jobs, j \in blocked, holder # j, journal[j].phase # "none"
      PROVE  journal'[j] = journal[j] /\ status'[j] = status[j]
  <2> USE ActorsAssumption, <1>1
      DEF Inv, TypeOK, HolderAgrees, Unclaimed, StartupAgrees, Ops, Working, disk, records
  <2>1. ASSUME NEW k \in Jobs, JobStep(k)
        PROVE  UNCHANGED <<journal, status[j]>>
    BY <2>1 DEF JobStep, StartJob, FailRun, FinishRun
  <2>2. ASSUME NEW s \in Saves, Show(s) \/ RefuseSave(s) \/ BeginSave(s)
        PROVE  UNCHANGED <<journal, status>>
    BY <2>2 DEF Show, RefuseSave, BeginSave
  <2>3. CASE Transaction
    <3>1. op # j
      BY <2>3
         DEF Transaction, WriteJournal, PublishUnchanged, MakeBackup, BackupFile, MarkBackedUp,
             Evacuate, BeginInstall, Install, EndReplace, MarkPublished, Finalize, RolledBack,
             RemoveJournal, RemoveBackup, RemoveStage
    <3> QED
      BY <2>3, <3>1
         DEF Transaction, WriteJournal, PublishUnchanged, MakeBackup, BackupFile, MarkBackedUp,
             Evacuate, BeginInstall, Install, EndReplace, MarkPublished, Finalize, RolledBack,
             RemoveJournal, RemoveBackup, RemoveStage, SetPhase, SetStatus
  <2>4. CASE Failure
    BY <2>4 DEF Failure, PublishFault, RestoreFault, RecordFault, CleanupFault, CrashHolder,
                StopServer, CrashWaiting, RecoveryFailure, RecoveryCleanupFault,
                StartWithoutRecovery, RecoveryFault, SetStatus
  <2>5. CASE Startup
    <3>1. ASSUME NEW o \in Ops, RecoverNew(o) \/ RecoverOld(o)
          PROVE  UNCHANGED <<journal, status[j]>>
      BY <3>1 DEF RecoverNew, RecoverOld, Recovering
    <3>2. ASSUME NEW k \in Jobs, Reconcile(k)
          PROVE  UNCHANGED <<journal, status[j]>>
      BY <3>2 DEF Reconcile
    <3>3. CASE UNCHANGED <<journal, status>>
      BY <3>3
    <3> QED
      BY <2>5, <3>1, <3>2, <3>3
         DEF Startup, StartServer, EndRecovery, EndReconcile, SkipJournal, Refuse
  <2>6. CASE UNCHANGED vars
    BY <2>6 DEF vars
  <2> QED
    BY <2>1, <2>2, <2>3, <2>4, <2>5, <2>6 DEF Next, Quiet
<1>2. Inv /\ StartupAgrees /\ [Next]_vars =>
          [\A j \in Jobs : j \in blocked /\ holder # j /\ journal[j].phase # "none"
                           => journal'[j] = journal[j] /\ status'[j] = status[j]]_vars
  BY <1>1
<1> QED
  BY <1>2, InvHolds, StartupHolds, PTL DEF Spec, RefusedStay

----------------------------------------------------------------------------
(* What a user who saves is told.                                          *)

\* A content that differs from another in what one file holds.
OneFileOf(c, d) == \E f \in Files, x \in Data : d = [c EXCEPT ![f] = x]

\* The transaction of a save works on what its user has looked at.
SaveAgrees ==
    holder \in Saves =>
        /\ old = seen[holder]
        /\ mode = "publish" => OneFileOf(old, new)
        /\ mode = "publish" /\ pc \in Cleanup => canonical = new

\* Every step keeps it.
LEMMA SaveAgreesStep == Inv /\ SaveAgrees /\ [Next]_vars => SaveAgrees'
<1> SUFFICES ASSUME Inv, SaveAgrees, [Next]_vars
             PROVE  SaveAgrees'
  OBVIOUS
<1> USE ActorsAssumption
    DEF SaveAgrees, Inv, TypeOK, HolderAgrees, Cleanup, Ops, Working,
        disk, records, txn, clients, server, bounds
<1>1. ASSUME NEW j \in Jobs, JobStep(j)
      PROVE  SaveAgrees'
  BY <1>1 DEF JobStep, StartJob, FailRun, FinishRun, Take, LetGo
<1>2. ASSUME NEW s \in Saves, Show(s) \/ RefuseSave(s)
      PROVE  SaveAgrees'
  BY <1>2 DEF Show, RefuseSave
<1>3. ASSUME NEW s \in Saves, BeginSave(s)
      PROVE  SaveAgrees'
  <2>1. /\ holder' = s /\ pc' = "begin" /\ old' = Ensured(canonical)
        /\ seen[s] = Ensured(canonical) /\ UNCHANGED seen
    BY <1>3 DEF BeginSave, Take
  <2>2. OneFileOf(old', new')
    BY <1>3, <2>1 DEF BeginSave, OneFileOf
  <2>3. SaveAgrees' <=> (holder' \in Saves =>
              /\ old' = seen'[holder']
              /\ mode' = "publish" => OneFileOf(old', new')
              /\ mode' = "publish" /\ pc' \in Cleanup => canonical' = new')
    BY DEF OneFileOf
  <2> QED
    BY <2>1, <2>2, <2>3
<1>4. CASE Transaction
  <2>1. CASE RemoveStage
    BY <2>1 DEF RemoveStage, LetGo
  <2>2. CASE Finalize
    BY <2>2 DEF Finalize, TxnAgrees, OneFileOf
  <2>3. CASE ~RemoveStage /\ ~Finalize
    <3>1. UNCHANGED <<holder, old, new, mode, seen>>
      BY <1>4, <2>3
         DEF Transaction, WriteJournal, PublishUnchanged, MakeBackup, BackupFile, MarkBackedUp,
             Evacuate, BeginInstall, Install, EndReplace, MarkPublished, RolledBack,
             RemoveJournal, RemoveBackup
    <3>2. mode = "publish" /\ holder \in Saves /\ pc' \in Cleanup =>
            pc \in Cleanup /\ canonical' = canonical
      BY <1>4, <2>3
         DEF Transaction, WriteJournal, PublishUnchanged, MakeBackup, BackupFile, MarkBackedUp,
             Evacuate, BeginInstall, Install, EndReplace, MarkPublished, RolledBack,
             RemoveJournal, RemoveBackup, TxnAgrees
    <3> QED
      BY <3>1, <3>2 DEF OneFileOf
  <2> QED
    BY <2>1, <2>2, <2>3
<1>5. CASE Failure
  <2>1. CASE PublishFault
    BY <2>1 DEF PublishFault
  <2>2. CASE RestoreFault \/ RecordFault \/ CleanupFault \/ CrashHolder \/ RecoveryCleanupFault
    BY <2>2 DEF RestoreFault, RecordFault, CleanupFault, CrashHolder, RecoveryCleanupFault, LetGo
  <2>3. CASE StopServer
    BY <2>3 DEF StopServer, LetGo, OneFileOf
  <2>4. ASSUME NEW j \in Jobs, CrashWaiting(j)
        PROVE  SaveAgrees'
    BY <2>4 DEF CrashWaiting, OneFileOf
  <2>5. ASSUME StartWithoutRecovery \/ \E o \in Ops : RecoveryFault(o)
        PROVE  SaveAgrees'
    BY <2>5 DEF StartWithoutRecovery, RecoveryFault, OneFileOf
  <2> QED
    BY <1>5, <2>1, <2>2, <2>3, <2>4, <2>5 DEF Failure, RecoveryFailure
<1>6. CASE Startup
  <2>1. ASSUME NEW o \in Ops, RecoverNew(o) \/ RecoverOld(o)
        PROVE  SaveAgrees'
    BY <2>1 DEF RecoverNew, RecoverOld, Take
  <2>2. CASE UNCHANGED <<holder, old, new, mode, seen, pc, canonical>>
    BY <2>2 DEF OneFileOf
  <2> QED
    BY <1>6, <2>1, <2>2 DEF Startup, StartServer, EndRecovery, EndReconcile, SkipJournal, Refuse,
                            Reconcile
<1>7. CASE UNCHANGED vars
  BY <1>7 DEF vars, OneFileOf
<1> QED
  BY <1>1, <1>2, <1>3, <1>4, <1>5, <1>6, <1>7 DEF Next, Quiet

\* A user who is told that the text was saved finds the memory as it was looked at, with that
\* one file changed: no job, no other save and no recovery has come in between unseen, whatever
\* died or failed meanwhile (try_update_memory compares the revisions and publishes under one
\* lock).
SavedOnSeen ==
    [][\A s \in Saves : reply[s] # "saved" /\ reply'[s] = "saved"
                        => OneFileOf(seen[s], canonical')]_vars

\* A save that is confirmed loses nobody's writing, for any saves, jobs, deaths and faults.
THEOREM ConfirmedSavesLoseNothing == Spec => SavedOnSeen
<1>1. Init => SaveAgrees
  BY ActorsAssumption DEF Init, SaveAgrees, Ops
<1>2. Inv /\ SaveAgrees /\ [Next]_vars =>
          [\A s \in Saves : reply[s] # "saved" /\ reply'[s] = "saved"
                            => OneFileOf(seen[s], canonical')]_vars
  <2> SUFFICES ASSUME Inv, SaveAgrees, Next, NEW s \in Saves, reply[s] # "saved", reply'[s] = "saved"
               PROVE  OneFileOf(seen[s], canonical')
    OBVIOUS
  <2> USE DEF Inv, TypeOK, HolderAgrees, Cleanup, Ops, clients
  <2>1. RemoveStage
    <3>1. ~Failure
      BY DEF Failure, PublishFault, RestoreFault, RecordFault, CleanupFault, CrashHolder,
             StopServer, CrashWaiting, RecoveryFailure, RecoveryCleanupFault,
             StartWithoutRecovery, RecoveryFault, Fail
    <3>2. ~Startup
      BY DEF Startup, StartServer, EndRecovery, EndReconcile, SkipJournal, RecoverNew, RecoverOld,
             Refuse, Reconcile
    <3>3. \A u \in Saves : ~Show(u) /\ ~RefuseSave(u) /\ ~BeginSave(u)
      BY DEF Show, RefuseSave, BeginSave
    <3>4. \A j \in Jobs : ~JobStep(j)
      BY DEF JobStep, StartJob, FailRun, FinishRun
    <3>5. Transaction
      BY <3>1, <3>2, <3>3, <3>4 DEF Next, Quiet, vars
    <3> QED
      BY <3>5
         DEF Transaction, WriteJournal, PublishUnchanged, MakeBackup, BackupFile, MarkBackedUp,
             Evacuate, BeginInstall, Install, EndReplace, MarkPublished, Finalize, RolledBack,
             RemoveJournal, RemoveBackup
  <2>2. holder = s /\ mode = "publish" /\ pc \in Cleanup /\ canonical' = canonical
    BY <2>1 DEF RemoveStage
  <2> QED
    BY <2>2 DEF SaveAgrees
<1> QED
  BY <1>1, <1>2, InvHolds, SaveAgreesStep, PTL DEF Spec, SavedOnSeen
=============================================================================
