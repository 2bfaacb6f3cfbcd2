-------------------------- MODULE CompilationProofs --------------------------
(***************************************************************************)
(* The library, the launch views and the pins, for any requests of the page,  *)
(* any jobs, any tree, and any number of hands, faults and crashes.           *)
(***************************************************************************)
EXTENDS Compilation, TLAPS

LEMMA Constants ==
    /\ NumFiles \in Nat \ {0} /\ 1 \in Files /\ Attempts \in Nat \ {0}
    /\ Initial \in Trees /\ Valid(Initial) /\ NoTree \notin Trees
    /\ Nobody \notin Scanners /\ Editors \cap Jobs = {}
    /\ Budgets \subseteq [Kinds -> Nat]
BY CompilationAssumption DEF Files, Trees

LEMMA GotoType ==
    ASSUME TypeOK, NEW p \in Scanners, NEW state \in EditorStates \cup JobStates, Goto(p, state)
    PROVE  pc' \in [Scanners -> EditorStates \cup JobStates]
BY DEF TypeOK, Goto

LEMMA SpendType ==
    ASSUME left \in [Kinds -> Nat], NEW kind \in Kinds, Spend(kind) PROVE left' \in [Kinds -> Nat]
BY DEF Spend

LEMMA InitType == Init => TypeOK
<1> SUFFICES ASSUME Init PROVE TypeOK
  OBVIOUS
<1> USE Constants DEF Init
<1>1. /\ root \in Trees \cup {NoTree} /\ lock \in Editors \cup {Nobody} /\ abandoned \subseteq Trees
      /\ handed \subseteq Files /\ last \in Trees \cup {NoTree} /\ unrestored \in BOOLEAN
      /\ left \in [Kinds -> Nat]
  OBVIOUS
<1>2. /\ shown \in [Editors -> Trees \cup {NoTree}] /\ stage \in [Editors -> Trees \cup {NoTree}]
      /\ backup \in [Editors -> Trees \cup {NoTree}] /\ want \in [Editors -> Files \X Contents]
  BY DEF Trees
<1>3. pc \in [Scanners -> EditorStates \cup JobStates]
  BY DEF EditorStates, JobStates
<1>4. /\ at \in [Scanners -> 1 .. NumFiles] /\ tries \in [Scanners -> 0 .. Attempts]
      /\ snap \in [Scanners -> Trees] /\ touched \in [Scanners -> SUBSET Files]
  BY DEF Files
<1>5. /\ entry \in [Trees -> [Files -> Contents \cup {Damaged}] \cup {NoTree}]
      /\ builder \in [Trees -> Jobs \cup {Nobody}]
      /\ pins \in [Trees -> SUBSET Jobs] /\ pinsDir \in [Trees -> BOOLEAN]
  OBVIOUS
<1>6. /\ view \in [Jobs -> [Files -> Contents \cup {Missing, Damaged}]]
      /\ late \in [Jobs -> BOOLEAN]
  OBVIOUS
<1> QED BY <1>1, <1>2, <1>3, <1>4, <1>5, <1>6 DEF TypeOK

LEMMA StepType == TypeOK /\ Next => TypeOK'
<1> SUFFICES ASSUME TypeOK, Next PROVE TypeOK'
  OBVIOUS
<1> USE Constants DEF TypeOK
<1>1. ASSUME NEW p \in Scanners, Scan(p) PROVE TypeOK'
  <2>1. CASE FirstScan(p)
    BY <2>1 DEF FirstScan, Begin, Goto, library, history, reading, cache, pinning, launching,
        Scanners, Trees, Files, EditorStates, JobStates
  <2>2. CASE StatFile(p)
    BY <2>2 DEF StatFile, Goto, library, history, reading, cache, pinning, launching, Scanners,
        Trees, Files, EditorStates, JobStates
  <2>3. CASE Rescan(p)
    <3>1. tries' \in [Scanners -> 0 .. Attempts]
      BY <2>3 DEF Rescan
    <3> QED BY <2>3, <3>1 DEF Rescan, Goto, library, history, reading, cache, pinning, launching,
        Scanners, Trees, Files, EditorStates, JobStates
  <2>4. CASE ReadFile(p)
    <3>1. snap' \in [Scanners -> Trees]
      <4>1. root \in Trees
        BY <2>4 DEF ReadFile
      <4>2. [snap[p] EXCEPT ![at[p]] = root[at[p]]] \in Trees
        BY <4>1 DEF Trees, Files
      <4> QED BY <2>4, <4>2 DEF ReadFile
    <3>2. at' \in [Scanners -> 1 .. NumFiles]
      BY <2>4 DEF ReadFile
    <3>3. pc' \in [Scanners -> EditorStates \cup JobStates]
      BY <2>4 DEF ReadFile, Goto, EditorStates, JobStates
    <3> QED BY <2>4, <3>1, <3>2, <3>3 DEF ReadFile, library, history, cache, pinning, launching
  <2>5. CASE ScanFails(p)
    BY <2>5 DEF ScanFails, Refuse, Goto, library, history, reading, cache, pinning, launching,
        Scanners, Trees, Files, EditorStates, JobStates
  <2> QED BY <1>1, <2>1, <2>2, <2>3, <2>4, <2>5 DEF Scan
<1>2. ASSUME NEW e \in Editors, Page(e) PROVE TypeOK'
  <2>1. CASE Show(e)
    BY <2>1 DEF Show, Goto, library, history, reading, cache, pinning, launching, Scanners,
        Trees, Files, EditorStates, JobStates
  <2>2. ASSUME NEW f \in Files, NEW c \in Contents, Save(e, f, c) PROVE TypeOK'
    <3>1. left' \in [Kinds -> Nat]
      BY <2>2, SpendType DEF Save, Kinds
    <3>2. want' \in [Editors -> Files \X Contents] 
      <4>1. <<f, c>> \in Files \X Contents
        OBVIOUS
      <4> QED BY <2>2, <4>1 DEF Save
    <3>4. tries' \in [Scanners -> 0 .. Attempts]
      BY <2>2 DEF Save, Scanners
    <3>3. pc' \in [Scanners -> EditorStates \cup JobStates]
      BY <2>2 DEF Save, Goto, EditorStates, JobStates, Scanners
    <3> QED BY <2>2, <3>1, <3>2, <3>3, <3>4 DEF Save, library, history, reading, cache, pinning, launching
  <2>3. CASE Stage(e)
    BY <2>3 DEF Stage, Edited, Publishable, Goto, library, history, reading, cache, pinning,
        launching, Scanners, Trees, Files, EditorStates, JobStates
  <2>4. CASE RefuseSave(e)
    BY <2>4 DEF RefuseSave, Refuse, Goto, library, history, reading, cache, pinning, launching,
        Scanners, Trees, Files, EditorStates, JobStates
  <2>5. CASE MoveAway(e)
    BY <2>5 DEF MoveAway, Goto, library, history, reading, cache, pinning, launching, Scanners,
        Trees, Files, EditorStates, JobStates
  <2>6. CASE MoveIn(e)
    BY <2>6 DEF MoveIn, Touched, Goto, library, history, reading, cache, pinning, launching,
        Scanners, Trees, Files, EditorStates, JobStates
  <2>7. CASE Fault(e)
    <3>1. left' \in [Kinds -> Nat]
      BY <2>7, SpendType DEF Fault, Kinds
    <3> QED BY <2>7, <3>1 DEF Fault, Goto, library, history, reading, cache, pinning, launching,
        Scanners, Trees, Files, EditorStates, JobStates
  <2>8. CASE Restore(e)
    BY <2>8 DEF Restore, Goto, library, history, reading, cache, pinning, launching, Scanners,
        Trees, Files, EditorStates, JobStates
  <2>9. CASE Finish(e)
    BY <2>9 DEF Finish, Goto, library, history, reading, cache, pinning, launching, Scanners,
        Trees, Files, EditorStates, JobStates
  <2>10. CASE Crash(e)
    <3>1. left' \in [Kinds -> Nat]
      BY <2>10, SpendType DEF Crash, Kinds
    <3> QED BY <2>10, <3>1 DEF Crash, Goto, library, history, reading, cache, pinning, launching,
        Scanners, Trees, Files, EditorStates, JobStates
  <2> QED BY <1>2, <2>1, <2>2, <2>3, <2>4, <2>5, <2>6, <2>7, <2>8, <2>9, <2>10 DEF Page
<1>3. ASSUME NEW j \in Jobs, Submission(j) PROVE TypeOK'
  <2>1. CASE Submit(j)
    <3>1. left' \in [Kinds -> Nat]
      BY <2>1, SpendType DEF Submit, Kinds
    <3> QED BY <2>1, <3>1 DEF Submit, Goto, library, history, reading, cache, pinning, launching,
        Scanners, Trees, Files, EditorStates, JobStates
  <2>2. CASE Inspect(j)
    BY <2>2 DEF Inspect, Goto, library, history, reading, cache, pinning, launching, Scanners,
        Trees, Files, EditorStates, JobStates
  <2>3. CASE Check(j)
    BY <2>3 DEF Check, Goto, library, history, reading, cache, pinning, launching, Scanners,
        Trees, Files, EditorStates, JobStates
  <2>4. CASE Compare(j)
    <3>1. pc' \in [Scanners -> EditorStates \cup JobStates]
      BY <2>4 DEF Compare, Goto, EditorStates, JobStates, Scanners
    <3> QED BY <2>4, <3>1 DEF Compare, library, history, reading, cache, pinning, launching
  <2>5. CASE Lock(j)
    BY <2>5 DEF Lock, Goto, library, history, reading, cache, pinning, launching, Scanners,
        Trees, Files, EditorStates, JobStates
  <2>6. CASE Revalidate(j)
    BY <2>6 DEF Revalidate, Intact, Unlocked, Goto, library, history, reading, cache, pinning,
        launching, Scanners, Trees, Files, EditorStates, JobStates
  <2>7. CASE Quarantine(j)
    BY <2>7 DEF Quarantine, Intact, Goto, library, history, reading, cache, pinning, launching,
        Scanners, Trees, Files, EditorStates, JobStates
  <2>8. CASE Build(j)
    <3>1. entry' \in [Trees -> [Files -> Contents \cup {Damaged}] \cup {NoTree}]
      <4>1. snap[j] \in [Files -> Contents \cup {Damaged}]
        BY DEF Trees, Scanners
      <4> QED BY <2>8, <4>1 DEF Build
    <3>2. builder' \in [Trees -> Jobs \cup {Nobody}]
      BY <2>8 DEF Build, Unlocked
    <3>3. pc' \in [Scanners -> EditorStates \cup JobStates]
      BY <2>8 DEF Build, Goto, EditorStates, JobStates, Scanners
    <3> QED BY <2>8, <3>1, <3>2, <3>3 DEF Build, library, history, reading, pinning, launching
  <2>9. CASE BuildFails(j)
    <3>1. left' \in [Kinds -> Nat]
      BY <2>9, SpendType DEF BuildFails, Kinds
    <3> QED BY <2>9, <3>1 DEF BuildFails, Unlocked, Goto, library, history, reading, cache, pinning,
        launching, Scanners, Trees, Files, EditorStates, JobStates
  <2>10. CASE Validate(j)
    BY <2>10 DEF Validate, Intact, Goto, library, history, reading, cache, pinning, launching,
        Scanners, Trees, Files, EditorStates, JobStates
  <2>11. CASE MakePinsDir(j)
    BY <2>11 DEF MakePinsDir, Goto, library, history, reading, cache, pinning, launching,
        Scanners, Trees, Files, EditorStates, JobStates
  <2>12. CASE Pin(j)
    <3>1. pins' \in [Trees -> SUBSET Jobs]
      <4>1. snap[j] \in Trees /\ pins[snap[j]] \cup {j} \in SUBSET Jobs
        BY DEF Scanners
      <4>2. \/ pins' = pins
            \/ pins' = [pins EXCEPT ![snap[j]] = pins[snap[j]] \cup {j}]
        BY <2>12, <4>1 DEF Pin
      <4> DEFINE more == pins[snap[j]] \cup {j}
      <4>3. more \in SUBSET Jobs
        BY <4>1
      <4>4. pins' = pins \/ pins' = [pins EXCEPT ![snap[j]] = more]
        BY <4>2
      <4> HIDE DEF more
      <4> QED BY <4>3, <4>4
    <3>2. pc' \in [Scanners -> EditorStates \cup JobStates]
      <4>1. Goto(j, "pinned") \/ Goto(j, "ended")
        BY <2>12 DEF Pin
      <4>2. {"pinned", "ended"} \subseteq EditorStates \cup JobStates /\ j \in Scanners
        BY DEF JobStates, Scanners
      <4> QED BY <4>1, <4>2, GotoType
    <3> QED BY <2>12, <3>1, <3>2 DEF Pin, library, history, reading, cache, launching
  <2>13. CASE Launch(j)
    BY <2>13 DEF Launch, Goto, library, history, reading, cache, pinning, launching, Scanners,
        Trees, Files, EditorStates, JobStates
  <2>14. CASE LaunchFails(j)
    <3>1. left' \in [Kinds -> Nat]
      BY <2>14, SpendType DEF LaunchFails, Kinds
    <3> QED BY <2>14, <3>1 DEF LaunchFails, Goto, library, history, reading, cache, pinning,
        launching, Scanners, Trees, Files, EditorStates, JobStates
  <2> QED BY <1>3, <2>1, <2>2, <2>3, <2>4, <2>5, <2>6, <2>7, <2>8, <2>9, <2>10, <2>11, <2>12,
      <2>13, <2>14 DEF Submission
<1>4. ASSUME NEW j \in Jobs, Worker(j) PROVE TypeOK'
  <2>1. CASE CancelWaiting(j)
    BY <2>1 DEF CancelWaiting, Goto, library, history, reading, cache, pinning, launching,
        Scanners, Trees, Files, EditorStates, JobStates
  <2>2. CASE StartView(j)
    BY <2>2 DEF StartView, Goto, library, history, reading, cache, pinning, launching, Scanners,
        Trees, Files, EditorStates, JobStates
  <2>3. CASE CopyFile(j)
    <3>1. view' \in [Jobs -> [Files -> Contents \cup {Missing, Damaged}]]
      <4>1. at[j] \in Files /\ snap[j] \in Trees
        BY DEF Files, Scanners
      <4>2. (IF entry[snap[j]] = NoTree THEN Missing ELSE entry[snap[j]][at[j]])
              \in Contents \cup {Missing, Damaged}
        BY <4>1
      <4> DEFINE copied == IF entry[snap[j]] = NoTree THEN Missing ELSE entry[snap[j]][at[j]]
      <4>3. view' = [view EXCEPT ![j][at[j]] = copied]
        BY <2>3 DEF CopyFile
      <4>4. copied \in Contents \cup {Missing, Damaged}
        BY <4>2
      <4> HIDE DEF copied
      <4> QED BY <4>1, <4>3, <4>4
    <3>2. at' \in [Scanners -> 1 .. NumFiles]
      <4>1. CASE at[j] < NumFiles
        <5>1. at[j] \in 1 .. NumFiles
          BY DEF Scanners
        <5>2. at[j] + 1 \in 1 .. NumFiles
          BY <4>1, <5>1
        <5>3. at' = [at EXCEPT ![j] = at[j] + 1]
          BY <2>3, <4>1 DEF CopyFile, Copied
        <5> QED BY <5>2, <5>3
      <4>2. CASE ~(at[j] < NumFiles)
        BY <2>3, <4>2 DEF CopyFile, Copied
      <4> QED BY <4>1, <4>2
    <3>3. pc' \in [Scanners -> EditorStates \cup JobStates]
      <4>1. pc' = pc \/ Goto(j, "running")
        BY <2>3 DEF CopyFile, Copied
      <4>2. "running" \in EditorStates \cup JobStates /\ j \in Scanners
        BY DEF JobStates, Scanners
      <4> QED BY <4>1, <4>2, GotoType
    <3> QED BY <2>3, <3>1, <3>2, <3>3 DEF CopyFile, library, history, cache, pinning
  <2>4. CASE CopyFails(j)
    BY <2>4 DEF CopyFails, Goto, library, history, reading, cache, pinning, launching, Scanners,
        Trees, Files, EditorStates, JobStates
  <2>5. CASE End(j)
    BY <2>5 DEF End, Goto, library, history, reading, cache, pinning, launching, Scanners,
        Trees, Files, EditorStates, JobStates
  <2>6. CASE Unpin(j)
    BY <2>6 DEF Unpin, Goto, library, history, reading, cache, pinning, launching, Scanners,
        Trees, Files, EditorStates, JobStates
  <2>7. CASE RemovePinsDir(j)
    BY <2>7 DEF RemovePinsDir, Goto, library, history, reading, cache, pinning, launching,
        Scanners, Trees, Files, EditorStates, JobStates
  <2>8. CASE Die(j)
    <3>1. left' \in [Kinds -> Nat]
      BY <2>8, SpendType DEF Die, Kinds
    <3> QED BY <2>8, <3>1 DEF Die, Active, Goto, library, history, reading, cache, pinning,
        launching, Scanners, Trees, Files, EditorStates, JobStates
  <2>9. CASE Reconcile(j)
    BY <2>9 DEF Reconcile, Goto, library, history, reading, cache, pinning, launching, Scanners,
        Trees, Files, EditorStates, JobStates
  <2> QED BY <1>4, <2>1, <2>2, <2>3, <2>4, <2>5, <2>6, <2>7, <2>8, <2>9 DEF Worker
<1>5. ASSUME NEW f \in Files, NEW c \in Contents, HandEdit(f, c) PROVE TypeOK'
  <2>1. left' \in [Kinds -> Nat]
    BY <1>5, SpendType DEF HandEdit, Kinds
  <2>2. root' \in Trees /\ touched' \in [Scanners -> SUBSET Files]
    BY <1>5 DEF HandEdit, Touched, Trees
  <2> QED BY <1>5, <2>1, <2>2 DEF HandEdit, Goto, library, history, reading, cache, pinning,
      launching, Scanners, Trees, Files, EditorStates, JobStates
<1>6. ASSUME NEW t \in Trees, Discard(t) PROVE TypeOK'
  <2>1. left' \in [Kinds -> Nat]
    BY <1>6, SpendType DEF Discard, Harm, Kinds
  <2>3. late' \in [Jobs -> BOOLEAN]
    BY <1>6 DEF Discard, Harm
  <2> QED BY <1>6, <2>1, <2>3 DEF Discard, Goto, library, history, reading, cache, pinning,
      launching, Scanners, Trees, Files, EditorStates, JobStates
<1>7. ASSUME NEW t \in Trees, NEW f \in Files, Damage(t, f) PROVE TypeOK'
  <2>1. left' \in [Kinds -> Nat]
    BY <1>7, SpendType DEF Damage, Harm, Kinds
  <2>2. entry' \in [Trees -> [Files -> Contents \cup {Damaged}] \cup {NoTree}]
    <3>1. [entry[t] EXCEPT ![f] = Damaged] \in [Files -> Contents \cup {Damaged}]
      BY <1>7 DEF Damage
    <3> QED BY <1>7, <3>1 DEF Damage
  <2>3. late' \in [Jobs -> BOOLEAN]
    BY <1>7 DEF Damage, Harm
  <2> QED BY <1>7, <2>1, <2>2, <2>3 DEF Damage, Goto, library, history, reading, cache, pinning,
      launching, Scanners, Trees, Files, EditorStates, JobStates
<1> QED BY <1>1, <1>2, <1>3, <1>4, <1>5, <1>6, <1>7 DEF Next

----------------------------------------------------------------------------
(* Pins.                                                                    *)

LEMMA StepPins == TypeOK /\ PinsHeld /\ Next => PinsHeld'
<1> SUFFICES ASSUME TypeOK, PinsHeld, Next PROVE PinsHeld'
  OBVIOUS
<1> USE Constants DEF TypeOK, PinsHeld
<1>1. ASSUME NEW p \in Scanners, Scan(p) PROVE PinsHeld'
  <2>1. CASE FirstScan(p)
    BY <2>1 DEF FirstScan, Begin, Goto, library, history, reading, cache, pinning, launching,
        Scanners
  <2>2. CASE StatFile(p)
    BY <2>2 DEF StatFile, Goto, library, history, reading, cache, pinning, launching, Scanners
  <2>3. CASE Rescan(p)
    BY <2>3 DEF Rescan, Goto, library, history, reading, cache, pinning, launching, Scanners
  <2>4. CASE ReadFile(p)
    BY <2>4 DEF ReadFile, Goto, library, history, reading, cache, pinning, launching, Scanners
  <2>5. CASE ScanFails(p)
    BY <2>5 DEF ScanFails, Refuse, Goto, library, history, reading, cache, pinning, launching,
        Scanners
  <2> QED BY <1>1, <2>1, <2>2, <2>3, <2>4, <2>5 DEF Scan
<1>2. ASSUME NEW e \in Editors, Page(e) PROVE PinsHeld'
  <2>1. CASE Show(e)
    BY <2>1 DEF Show, Goto, library, history, reading, cache, pinning, launching, Scanners
  <2>2. ASSUME NEW f \in Files, NEW c \in Contents, Save(e, f, c) PROVE PinsHeld'
    BY <2>2 DEF Save, Spend, Goto, library, history, reading, cache, pinning, launching,
        Scanners
  <2>3. CASE Stage(e)
    BY <2>3 DEF Stage, Edited, Publishable, Goto, library, history, reading, cache, pinning,
        launching, Scanners
  <2>4. CASE RefuseSave(e)
    BY <2>4 DEF RefuseSave, Refuse, Goto, library, history, reading, cache, pinning, launching,
        Scanners
  <2>5. CASE MoveAway(e)
    BY <2>5 DEF MoveAway, Goto, library, history, reading, cache, pinning, launching, Scanners
  <2>6. CASE MoveIn(e)
    BY <2>6 DEF MoveIn, Touched, Goto, library, history, reading, cache, pinning, launching,
        Scanners
  <2>7. CASE Fault(e)
    BY <2>7 DEF Fault, Spend, Goto, library, history, reading, cache, pinning, launching,
        Scanners
  <2>8. CASE Restore(e)
    BY <2>8 DEF Restore, Goto, library, history, reading, cache, pinning, launching, Scanners
  <2>9. CASE Finish(e)
    BY <2>9 DEF Finish, Goto, library, history, reading, cache, pinning, launching, Scanners
  <2>10. CASE Crash(e)
    BY <2>10 DEF Crash, Spend, Goto, library, history, reading, cache, pinning, launching,
        Scanners
  <2> QED BY <1>2, <2>1, <2>2, <2>3, <2>4, <2>5, <2>6, <2>7, <2>8, <2>9, <2>10 DEF Page
<1>3. ASSUME NEW j \in Jobs, Submission(j) PROVE PinsHeld'
  <2>1. CASE Submit(j)
    BY <2>1 DEF Submit, Spend, Goto, library, history, reading, cache, pinning, launching,
        Scanners
  <2>2. CASE Inspect(j)
    BY <2>2 DEF Inspect, Goto, library, history, reading, cache, pinning, launching, Scanners
  <2>3. CASE Check(j)
    BY <2>3 DEF Check, Goto, library, history, reading, cache, pinning, launching, Scanners
  <2>4. CASE Compare(j)
    BY <2>4 DEF Compare, Intact, Goto, library, history, reading, cache, pinning, launching,
        Scanners
  <2>5. CASE Lock(j)
    BY <2>5 DEF Lock, Goto, library, history, reading, cache, pinning, launching, Scanners
  <2>6. CASE Revalidate(j)
    BY <2>6 DEF Revalidate, Intact, Unlocked, Goto, library, history, reading, cache, pinning,
        launching, Scanners
  <2>7. CASE Quarantine(j)
    BY <2>7 DEF Quarantine, Intact, Goto, library, history, reading, cache, pinning, launching,
        Scanners
  <2>8. CASE Build(j)
    BY <2>8 DEF Build, Unlocked, Goto, library, history, reading, cache, pinning, launching,
        Scanners
  <2>9. CASE BuildFails(j)
    BY <2>9 DEF BuildFails, Unlocked, Spend, Goto, library, history, reading, cache, pinning,
        launching, Scanners
  <2>10. CASE Validate(j)
    BY <2>10 DEF Validate, Intact, Goto, library, history, reading, cache, pinning, launching,
        Scanners
  <2>11. CASE MakePinsDir(j)
    BY <2>11 DEF MakePinsDir, Goto, library, history, reading, cache, pinning, launching,
        Scanners
  <2>12. CASE Pin(j)
    <3>1. CASE pinsDir[snap[j]]
      <4>1. snap[j] \in Trees /\ snap' = snap
        BY <2>12 DEF Pin, Scanners, reading
      <4>2. pins' = [pins EXCEPT ![snap[j]] = pins[snap[j]] \cup {j}]
        BY <2>12, <3>1 DEF Pin
      <4>3. j \in pins'[snap[j]] /\ \A k \in Jobs, t \in Trees : k \in pins[t] => k \in pins'[t]
        BY <4>1, <4>2
      <4>4. \A k \in Jobs : k # j => pc'[k] = pc[k]
        BY <2>12, <3>1 DEF Pin, Goto, Scanners
      <4> QED BY <4>1, <4>3, <4>4 DEF Scanners
    <3>2. CASE ~pinsDir[snap[j]]
      BY <2>12, <3>2 DEF Pin, Goto, reading, Scanners
    <3> QED BY <3>1, <3>2
  <2>13. CASE Launch(j)
    BY <2>13 DEF Launch, Goto, library, history, reading, cache, pinning, launching, Scanners
  <2>14. CASE LaunchFails(j)
    BY <2>14 DEF LaunchFails, Spend, Goto, library, history, reading, cache, pinning, launching,
        Scanners
  <2> QED BY <1>3, <2>1, <2>2, <2>3, <2>4, <2>5, <2>6, <2>7, <2>8, <2>9, <2>10, <2>11, <2>12,
      <2>13, <2>14 DEF Submission
<1>4. ASSUME NEW j \in Jobs, Worker(j) PROVE PinsHeld'
  <2>1. CASE CancelWaiting(j)
    BY <2>1 DEF CancelWaiting, Goto, library, history, reading, cache, pinning, launching,
        Scanners
  <2>2. CASE StartView(j)
    BY <2>2 DEF StartView, Goto, library, history, reading, cache, pinning, launching, Scanners
  <2>3. CASE CopyFile(j)
    BY <2>3 DEF CopyFile, Copied, Goto, library, history, reading, cache, pinning, launching,
        Scanners
  <2>4. CASE CopyFails(j)
    BY <2>4 DEF CopyFails, Goto, library, history, reading, cache, pinning, launching, Scanners
  <2>5. CASE End(j)
    BY <2>5 DEF End, Goto, library, history, reading, cache, pinning, launching, Scanners
  <2>6. CASE Unpin(j)
    BY <2>6 DEF Unpin, Goto, library, history, reading, cache, pinning, launching, Scanners
  <2>7. CASE RemovePinsDir(j)
    BY <2>7 DEF RemovePinsDir, Goto, library, history, reading, cache, pinning, launching,
        Scanners
  <2>8. CASE Die(j)
    BY <2>8 DEF Die, Spend, Active, Goto, library, history, reading, cache, pinning, launching,
        Scanners
  <2>9. CASE Reconcile(j)
    BY <2>9 DEF Reconcile, Goto, library, history, reading, cache, pinning, launching, Scanners
  <2> QED BY <1>4, <2>1, <2>2, <2>3, <2>4, <2>5, <2>6, <2>7, <2>8, <2>9 DEF Worker
<1>5. ASSUME NEW f \in Files, NEW c \in Contents, HandEdit(f, c) PROVE PinsHeld'
  BY <1>5 DEF HandEdit, Touched, Spend, Goto, library, history, reading, cache, pinning,
      launching, Scanners
<1>6. ASSUME NEW t \in Trees, Discard(t) PROVE PinsHeld'
  BY <1>6 DEF Discard, Harm, Spend, Goto, library, history, reading, cache, pinning, launching,
      Scanners
<1>7. ASSUME NEW t \in Trees, NEW f \in Files, Damage(t, f) PROVE PinsHeld'
  BY <1>7 DEF Damage, Harm, Spend, Goto, library, history, reading, cache, pinning, launching,
      Scanners
<1> QED BY <1>1, <1>2, <1>3, <1>4, <1>5, <1>6, <1>7 DEF Next

----------------------------------------------------------------------------
(* Launch views.                                                            *)

\* What a job has found intact stays so, and what it has copied is of that.
ViewsMatch == \A j \in Jobs : ~late[j] =>
    /\ pc[j] \in Validated => Intact(j)
    /\ pc[j] = "copy" => \A f \in Files : f < at[j] => view[j][f] = snap[j][f]
    /\ pc[j] = "running" => view[j] = snap[j]

LEMMA StepViews == TypeOK /\ ViewsMatch /\ Next => ViewsMatch'
<1> SUFFICES ASSUME TypeOK, ViewsMatch, Next PROVE ViewsMatch'
  OBVIOUS
<1> USE Constants DEF TypeOK, ViewsMatch, Validated, Intact
<1>1. ASSUME NEW p \in Scanners, Scan(p) PROVE ViewsMatch'
  <2>1. CASE FirstScan(p)
    BY <2>1 DEF FirstScan, Begin, Goto, library, history, reading, cache, pinning, launching,
        Scanners
  <2>2. CASE StatFile(p)
    BY <2>2 DEF StatFile, Goto, library, history, reading, cache, pinning, launching, Scanners
  <2>3. CASE Rescan(p)
    BY <2>3 DEF Rescan, Goto, library, history, reading, cache, pinning, launching, Scanners
  <2>4. CASE ReadFile(p)
    BY <2>4 DEF ReadFile, Goto, library, history, reading, cache, pinning, launching, Scanners
  <2>5. CASE ScanFails(p)
    BY <2>5 DEF ScanFails, Refuse, Goto, library, history, reading, cache, pinning, launching,
        Scanners
  <2> QED BY <1>1, <2>1, <2>2, <2>3, <2>4, <2>5 DEF Scan
<1>2. ASSUME NEW e \in Editors, Page(e) PROVE ViewsMatch'
  <2>1. CASE Show(e)
    BY <2>1 DEF Show, Goto, library, history, reading, cache, pinning, launching, Scanners
  <2>2. ASSUME NEW f \in Files, NEW c \in Contents, Save(e, f, c) PROVE ViewsMatch'
    BY <2>2 DEF Save, Spend, Goto, library, history, reading, cache, pinning, launching,
        Scanners
  <2>3. CASE Stage(e)
    BY <2>3 DEF Stage, Edited, Publishable, Goto, library, history, reading, cache, pinning,
        launching, Scanners
  <2>4. CASE RefuseSave(e)
    BY <2>4 DEF RefuseSave, Refuse, Goto, library, history, reading, cache, pinning, launching,
        Scanners
  <2>5. CASE MoveAway(e)
    BY <2>5 DEF MoveAway, Goto, library, history, reading, cache, pinning, launching, Scanners
  <2>6. CASE MoveIn(e)
    BY <2>6 DEF MoveIn, Touched, Goto, library, history, reading, cache, pinning, launching,
        Scanners
  <2>7. CASE Fault(e)
    BY <2>7 DEF Fault, Spend, Goto, library, history, reading, cache, pinning, launching,
        Scanners
  <2>8. CASE Restore(e)
    BY <2>8 DEF Restore, Goto, library, history, reading, cache, pinning, launching, Scanners
  <2>9. CASE Finish(e)
    BY <2>9 DEF Finish, Goto, library, history, reading, cache, pinning, launching, Scanners
  <2>10. CASE Crash(e)
    BY <2>10 DEF Crash, Spend, Goto, library, history, reading, cache, pinning, launching,
        Scanners
  <2> QED BY <1>2, <2>1, <2>2, <2>3, <2>4, <2>5, <2>6, <2>7, <2>8, <2>9, <2>10 DEF Page
<1>3. ASSUME NEW j \in Jobs, Submission(j) PROVE ViewsMatch'
  <2>1. CASE Submit(j)
    BY <2>1 DEF Submit, Spend, Goto, library, history, reading, cache, pinning, launching,
        Scanners
  <2>2. CASE Inspect(j)
    BY <2>2 DEF Inspect, Goto, library, history, reading, cache, pinning, launching, Scanners
  <2>3. CASE Check(j)
    BY <2>3 DEF Check, Goto, library, history, reading, cache, pinning, launching, Scanners
  <2>4. CASE Compare(j)
    BY <2>4 DEF Compare, Intact, Goto, library, history, reading, cache, pinning, launching,
        Scanners
  <2>5. CASE Lock(j)
    BY <2>5 DEF Lock, Goto, library, history, reading, cache, pinning, launching, Scanners
  <2>6. CASE Revalidate(j)
    BY <2>6 DEF Revalidate, Intact, Unlocked, Goto, library, history, reading, cache, pinning,
        launching, Scanners
  <2>7. CASE Quarantine(j)
    BY <2>7 DEF Quarantine, Intact, Goto, library, history, reading, cache, pinning, launching,
        Scanners
  <2>8. CASE Build(j)
    BY <2>8 DEF Build, Unlocked, Goto, library, history, reading, cache, pinning, launching,
        Scanners
  <2>9. CASE BuildFails(j)
    BY <2>9 DEF BuildFails, Unlocked, Spend, Goto, library, history, reading, cache, pinning,
        launching, Scanners
  <2>10. CASE Validate(j)
    BY <2>10 DEF Validate, Intact, Goto, library, history, reading, cache, pinning, launching,
        Scanners
  <2>11. CASE MakePinsDir(j)
    BY <2>11 DEF MakePinsDir, Goto, library, history, reading, cache, pinning, launching,
        Scanners
  <2>12. CASE Pin(j)
    BY <2>12 DEF Pin, Goto, library, history, reading, cache, pinning, launching, Scanners
  <2>13. CASE Launch(j)
    BY <2>13 DEF Launch, Goto, library, history, reading, cache, pinning, launching, Scanners
  <2>14. CASE LaunchFails(j)
    BY <2>14 DEF LaunchFails, Spend, Goto, library, history, reading, cache, pinning, launching,
        Scanners
  <2> QED BY <1>3, <2>1, <2>2, <2>3, <2>4, <2>5, <2>6, <2>7, <2>8, <2>9, <2>10, <2>11, <2>12,
      <2>13, <2>14 DEF Submission
<1>4. ASSUME NEW j \in Jobs, Worker(j) PROVE ViewsMatch'
  <2>1. CASE CancelWaiting(j)
    BY <2>1 DEF CancelWaiting, Goto, library, history, reading, cache, pinning, launching,
        Scanners
  <2>2. CASE StartView(j)
    <3>1. \A k \in Jobs : k # j => pc'[k] = pc[k] /\ at'[k] = at[k] /\ view'[k] = view[k]
      BY <2>2 DEF StartView, Goto, Scanners
    <3>2. pc'[j] = "copy" /\ at'[j] = 1 /\ \A f \in Files : ~(f < 1)
      BY <2>2 DEF StartView, Goto, Scanners, Files
    <3>3. UNCHANGED <<snap, entry, late>> /\ pc[j] = "queued"
      BY <2>2 DEF StartView, cache
    <3> QED BY <3>1, <3>2, <3>3
  <2>3. CASE CopyFile(j)
    <3>1. \A k \in Jobs : k # j => pc'[k] = pc[k] /\ at'[k] = at[k] /\ view'[k] = view[k]
      BY <2>3 DEF CopyFile, Copied, Goto, Scanners
    <3>2. UNCHANGED <<snap, entry, late>> /\ pc[j] = "copy" /\ at[j] \in Files /\ snap[j] \in Trees
      BY <2>3 DEF CopyFile, cache, Scanners, Files
    <3>3. \A k \in Jobs : k # j /\ ~late'[k] =>
            /\ pc'[k] \in Validated => entry'[snap'[k]] = snap'[k]
            /\ pc'[k] = "copy" => \A f \in Files : f < at'[k] => view'[k][f] = snap'[k][f]
            /\ pc'[k] = "running" => view'[k] = snap'[k]
      BY <3>1, <3>2
    <3>4. SUFFICES ASSUME ~late[j]
                   PROVE  /\ entry[snap[j]] = snap[j]
                          /\ pc'[j] = "copy" => \A f \in Files : f < at'[j] => view'[j][f] = snap[j][f]
                          /\ pc'[j] = "running" => view'[j] = snap[j]
      BY <3>2, <3>3, <2>3 DEF CopyFile, Copied, Goto, Scanners
    <3>5. entry[snap[j]] = snap[j] /\ snap[j] # NoTree
      BY <3>2, <3>4
    <3>6. view'[j] = [view[j] EXCEPT ![at[j]] = snap[j][at[j]]]
      BY <2>3, <3>2, <3>5 DEF CopyFile
    <3>7. \A f \in Files : f <= at[j] => view'[j][f] = snap[j][f]
      <4>1. \A f \in Files : f <= at[j] => f < at[j] \/ f = at[j]
        BY <3>2 DEF Files
      <4>2. view[j] \in [Files -> Contents \cup {Missing, Damaged}]
        OBVIOUS
      <4>3. \A f \in Files : f < at[j] => view[j][f] = snap[j][f]
        BY <3>2, <3>4
      <4> QED BY <3>2, <3>6, <4>1, <4>2, <4>3
    <3>8. CASE at[j] < NumFiles
      <4>1. at'[j] = at[j] + 1 /\ pc'[j] = "copy"
        BY <2>3, <3>8 DEF CopyFile, Copied, Scanners
      <4> QED BY <3>2, <3>5, <3>7, <4>1 DEF Files
    <3>9. CASE ~(at[j] < NumFiles)
      <4>1. pc'[j] = "running"
        BY <2>3, <3>9 DEF CopyFile, Copied, Goto, Scanners
      <4>2. \A f \in Files : view'[j][f] = snap[j][f]
        BY <3>2, <3>7, <3>9 DEF Files
      <4>3. view'[j] = snap[j]
        <5>1. view[j] \in [Files -> Contents \cup {Missing, Damaged}]
          OBVIOUS
        <5>2. view'[j] = [f \in Files |-> view'[j][f]] /\ snap[j] = [f \in Files |-> snap[j][f]]
          BY <3>2, <3>6, <5>1 DEF Trees
        <5> QED BY <4>2, <5>2
      <4> QED BY <3>5, <4>1, <4>3
    <3> QED BY <3>8, <3>9
  <2>4. CASE CopyFails(j)
    BY <2>4 DEF CopyFails, Goto, library, history, reading, cache, pinning, launching, Scanners
  <2>5. CASE End(j)
    BY <2>5 DEF End, Goto, library, history, reading, cache, pinning, launching, Scanners
  <2>6. CASE Unpin(j)
    BY <2>6 DEF Unpin, Goto, library, history, reading, cache, pinning, launching, Scanners
  <2>7. CASE RemovePinsDir(j)
    BY <2>7 DEF RemovePinsDir, Goto, library, history, reading, cache, pinning, launching,
        Scanners
  <2>8. CASE Die(j)
    BY <2>8 DEF Die, Spend, Active, Goto, library, history, reading, cache, pinning, launching,
        Scanners
  <2>9. CASE Reconcile(j)
    BY <2>9 DEF Reconcile, Goto, library, history, reading, cache, pinning, launching, Scanners
  <2> QED BY <1>4, <2>1, <2>2, <2>3, <2>4, <2>5, <2>6, <2>7, <2>8, <2>9 DEF Worker
<1>5. ASSUME NEW f \in Files, NEW c \in Contents, HandEdit(f, c) PROVE ViewsMatch'
  BY <1>5 DEF HandEdit, Touched, Spend, Goto, library, history, reading, cache, pinning,
      launching, Scanners
<1>6. ASSUME NEW t \in Trees, Discard(t) PROVE ViewsMatch'
  BY <1>6 DEF Discard, Harm, Spend, Goto, library, history, reading, cache, pinning, launching,
      Scanners
<1>7. ASSUME NEW t \in Trees, NEW f \in Files, Damage(t, f) PROVE ViewsMatch'
  BY <1>7 DEF Damage, Harm, Spend, Goto, library, history, reading, cache, pinning, launching,
      Scanners
<1> QED BY <1>1, <1>2, <1>3, <1>4, <1>5, <1>6, <1>7 DEF Next

----------------------------------------------------------------------------
(* The library.                                                             *)

\* Who is busy with the page holds its lock.
LockHeld == \A e \in Editors : pc[e] # "idle" => lock = e

\* Where the directory is while a save replaces it.
Replacing == \A e \in Editors :
    /\ pc[e] = "away" => root # NoTree
    /\ pc[e] \in {"away", "in"} => stage[e] # NoTree
    /\ pc[e] \in {"in", "restore"} => root = NoTree /\ backup[e] = last /\ last # NoTree
    /\ pc[e] = "finish" /\ root = NoTree => unrestored

\* The files a save has read are those of the directory, then those its form showed.
FreshAt(e, f) ==
    /\ pc[e] \in {"stat", "read"} /\ root # NoTree /\ f < at[e] => snap[e][f] = root[f]
    /\ pc[e] = "scanned" /\ root # NoTree => snap[e][f] = root[f]
    /\ pc[e] = "away" => root[f] = shown[e][f]
    /\ pc[e] = "in" => backup[e][f] = shown[e][f]
    /\ pc[e] \in {"away", "in"} =>
          shown[e] \in Trees /\ stage[e] = [shown[e] EXCEPT ![want[e][1]] = want[e][2]]

Fresh == \A e \in Editors : \A f \in Files \ handed : FreshAt(e, f)

LEMMA StepLock == TypeOK /\ LockHeld /\ Next => LockHeld'
<1> SUFFICES ASSUME TypeOK, LockHeld, Next PROVE LockHeld'
  OBVIOUS
<1> USE Constants DEF TypeOK, LockHeld
<1>1. ASSUME NEW p \in Scanners, Scan(p) PROVE LockHeld'
  <2>1. CASE FirstScan(p)
    BY <2>1 DEF FirstScan, Begin, Goto, library, history, reading, cache, pinning, launching,
        Scanners
  <2>2. CASE StatFile(p)
    BY <2>2 DEF StatFile, Goto, library, history, reading, cache, pinning, launching, Scanners
  <2>3. CASE Rescan(p)
    BY <2>3 DEF Rescan, Goto, library, history, reading, cache, pinning, launching, Scanners
  <2>4. CASE ReadFile(p)
    BY <2>4 DEF ReadFile, Goto, library, history, reading, cache, pinning, launching, Scanners
  <2>5. CASE ScanFails(p)
    BY <2>5 DEF ScanFails, Refuse, Goto, library, history, reading, cache, pinning, launching,
        Scanners
  <2> QED BY <1>1, <2>1, <2>2, <2>3, <2>4, <2>5 DEF Scan
<1>2. ASSUME NEW e \in Editors, Page(e) PROVE LockHeld'
  <2>1. CASE Show(e)
    BY <2>1 DEF Show, Goto, library, history, reading, cache, pinning, launching, Scanners
  <2>2. ASSUME NEW f \in Files, NEW c \in Contents, Save(e, f, c) PROVE LockHeld'
    BY <2>2 DEF Save, Spend, Goto, library, history, reading, cache, pinning, launching,
        Scanners
  <2>3. CASE Stage(e)
    BY <2>3 DEF Stage, Edited, Publishable, Goto, library, history, reading, cache, pinning,
        launching, Scanners
  <2>4. CASE RefuseSave(e)
    BY <2>4 DEF RefuseSave, Refuse, Goto, library, history, reading, cache, pinning, launching,
        Scanners
  <2>5. CASE MoveAway(e)
    BY <2>5 DEF MoveAway, Goto, library, history, reading, cache, pinning, launching, Scanners
  <2>6. CASE MoveIn(e)
    BY <2>6 DEF MoveIn, Touched, Goto, library, history, reading, cache, pinning, launching,
        Scanners
  <2>7. CASE Fault(e)
    BY <2>7 DEF Fault, Spend, Goto, library, history, reading, cache, pinning, launching,
        Scanners
  <2>8. CASE Restore(e)
    BY <2>8 DEF Restore, Goto, library, history, reading, cache, pinning, launching, Scanners
  <2>9. CASE Finish(e)
    BY <2>9 DEF Finish, Goto, library, history, reading, cache, pinning, launching, Scanners
  <2>10. CASE Crash(e)
    BY <2>10 DEF Crash, Spend, Goto, library, history, reading, cache, pinning, launching,
        Scanners
  <2> QED BY <1>2, <2>1, <2>2, <2>3, <2>4, <2>5, <2>6, <2>7, <2>8, <2>9, <2>10 DEF Page
<1>3. ASSUME NEW j \in Jobs, Submission(j) PROVE LockHeld'
  <2>1. CASE Submit(j)
    BY <2>1 DEF Submit, Spend, Goto, library, history, reading, cache, pinning, launching,
        Scanners
  <2>2. CASE Inspect(j)
    BY <2>2 DEF Inspect, Goto, library, history, reading, cache, pinning, launching, Scanners
  <2>3. CASE Check(j)
    BY <2>3 DEF Check, Goto, library, history, reading, cache, pinning, launching, Scanners
  <2>4. CASE Compare(j)
    BY <2>4 DEF Compare, Intact, Goto, library, history, reading, cache, pinning, launching,
        Scanners
  <2>5. CASE Lock(j)
    BY <2>5 DEF Lock, Goto, library, history, reading, cache, pinning, launching, Scanners
  <2>6. CASE Revalidate(j)
    BY <2>6 DEF Revalidate, Intact, Unlocked, Goto, library, history, reading, cache, pinning,
        launching, Scanners
  <2>7. CASE Quarantine(j)
    BY <2>7 DEF Quarantine, Intact, Goto, library, history, reading, cache, pinning, launching,
        Scanners
  <2>8. CASE Build(j)
    BY <2>8 DEF Build, Unlocked, Goto, library, history, reading, cache, pinning, launching,
        Scanners
  <2>9. CASE BuildFails(j)
    BY <2>9 DEF BuildFails, Unlocked, Spend, Goto, library, history, reading, cache, pinning,
        launching, Scanners
  <2>10. CASE Validate(j)
    BY <2>10 DEF Validate, Intact, Goto, library, history, reading, cache, pinning, launching,
        Scanners
  <2>11. CASE MakePinsDir(j)
    BY <2>11 DEF MakePinsDir, Goto, library, history, reading, cache, pinning, launching,
        Scanners
  <2>12. CASE Pin(j)
    BY <2>12 DEF Pin, Goto, library, history, reading, cache, pinning, launching, Scanners
  <2>13. CASE Launch(j)
    BY <2>13 DEF Launch, Goto, library, history, reading, cache, pinning, launching, Scanners
  <2>14. CASE LaunchFails(j)
    BY <2>14 DEF LaunchFails, Spend, Goto, library, history, reading, cache, pinning, launching,
        Scanners
  <2> QED BY <1>3, <2>1, <2>2, <2>3, <2>4, <2>5, <2>6, <2>7, <2>8, <2>9, <2>10, <2>11, <2>12,
      <2>13, <2>14 DEF Submission
<1>4. ASSUME NEW j \in Jobs, Worker(j) PROVE LockHeld'
  <2>1. CASE CancelWaiting(j)
    BY <2>1 DEF CancelWaiting, Goto, library, history, reading, cache, pinning, launching,
        Scanners
  <2>2. CASE StartView(j)
    BY <2>2 DEF StartView, Goto, library, history, reading, cache, pinning, launching, Scanners
  <2>3. CASE CopyFile(j)
    BY <2>3 DEF CopyFile, Copied, Goto, library, history, reading, cache, pinning, launching,
        Scanners
  <2>4. CASE CopyFails(j)
    BY <2>4 DEF CopyFails, Goto, library, history, reading, cache, pinning, launching, Scanners
  <2>5. CASE End(j)
    BY <2>5 DEF End, Goto, library, history, reading, cache, pinning, launching, Scanners
  <2>6. CASE Unpin(j)
    BY <2>6 DEF Unpin, Goto, library, history, reading, cache, pinning, launching, Scanners
  <2>7. CASE RemovePinsDir(j)
    BY <2>7 DEF RemovePinsDir, Goto, library, history, reading, cache, pinning, launching,
        Scanners
  <2>8. CASE Die(j)
    BY <2>8 DEF Die, Spend, Active, Goto, library, history, reading, cache, pinning, launching,
        Scanners
  <2>9. CASE Reconcile(j)
    BY <2>9 DEF Reconcile, Goto, library, history, reading, cache, pinning, launching, Scanners
  <2> QED BY <1>4, <2>1, <2>2, <2>3, <2>4, <2>5, <2>6, <2>7, <2>8, <2>9 DEF Worker
<1>5. ASSUME NEW f \in Files, NEW c \in Contents, HandEdit(f, c) PROVE LockHeld'
  BY <1>5 DEF HandEdit, Touched, Spend, Goto, library, history, reading, cache, pinning,
      launching, Scanners
<1>6. ASSUME NEW t \in Trees, Discard(t) PROVE LockHeld'
  BY <1>6 DEF Discard, Harm, Spend, Goto, library, history, reading, cache, pinning, launching,
      Scanners
<1>7. ASSUME NEW t \in Trees, NEW f \in Files, Damage(t, f) PROVE LockHeld'
  BY <1>7 DEF Damage, Harm, Spend, Goto, library, history, reading, cache, pinning, launching,
      Scanners
<1> QED BY <1>1, <1>2, <1>3, <1>4, <1>5, <1>6, <1>7 DEF Next

LEMMA StepReplacing == TypeOK /\ LockHeld /\ Replacing /\ Next => Replacing'
<1> SUFFICES ASSUME TypeOK, LockHeld, Replacing, Next PROVE Replacing'
  OBVIOUS
<1> USE Constants DEF TypeOK, LockHeld, Replacing
<1>1. ASSUME NEW p \in Scanners, Scan(p) PROVE Replacing'
  <2>1. CASE FirstScan(p)
    BY <2>1 DEF FirstScan, Begin, Goto, library, history, reading, cache, pinning, launching,
        Scanners, Valid
  <2>2. CASE StatFile(p)
    BY <2>2 DEF StatFile, Goto, library, history, reading, cache, pinning, launching, Scanners,
        Valid
  <2>3. CASE Rescan(p)
    BY <2>3 DEF Rescan, Goto, library, history, reading, cache, pinning, launching, Scanners,
        Valid
  <2>4. CASE ReadFile(p)
    BY <2>4 DEF ReadFile, Goto, library, history, reading, cache, pinning, launching, Scanners,
        Valid
  <2>5. CASE ScanFails(p)
    BY <2>5 DEF ScanFails, Refuse, Goto, library, history, reading, cache, pinning, launching,
        Scanners, Valid
  <2> QED BY <1>1, <2>1, <2>2, <2>3, <2>4, <2>5 DEF Scan
<1>2. ASSUME NEW e \in Editors, Page(e) PROVE Replacing'
  <2>1. CASE Show(e)
    BY <2>1 DEF Show, Goto, library, history, reading, cache, pinning, launching, Scanners,
        Valid
  <2>2. ASSUME NEW f \in Files, NEW c \in Contents, Save(e, f, c) PROVE Replacing'
    BY <2>2 DEF Save, Spend, Goto, library, history, reading, cache, pinning, launching,
        Scanners, Valid
  <2>3. CASE Stage(e)
    BY <2>3 DEF Stage, Edited, Publishable, Goto, library, history, reading, cache, pinning,
        launching, Scanners, Valid
  <2>4. CASE RefuseSave(e)
    BY <2>4 DEF RefuseSave, Refuse, Goto, library, history, reading, cache, pinning, launching,
        Scanners, Valid
  <2>5. CASE MoveAway(e)
    BY <2>5 DEF MoveAway, Goto, library, history, reading, cache, pinning, launching, Scanners,
        Valid
  <2>6. CASE MoveIn(e)
    BY <2>6 DEF MoveIn, Touched, Goto, library, history, reading, cache, pinning, launching,
        Scanners, Valid
  <2>7. CASE Fault(e)
    BY <2>7 DEF Fault, Spend, Goto, library, history, reading, cache, pinning, launching,
        Scanners, Valid
  <2>8. CASE Restore(e)
    BY <2>8 DEF Restore, Goto, library, history, reading, cache, pinning, launching, Scanners,
        Valid
  <2>9. CASE Finish(e)
    BY <2>9 DEF Finish, Goto, library, history, reading, cache, pinning, launching, Scanners,
        Valid
  <2>10. CASE Crash(e)
    BY <2>10 DEF Crash, Spend, Goto, library, history, reading, cache, pinning, launching,
        Scanners, Valid
  <2> QED BY <1>2, <2>1, <2>2, <2>3, <2>4, <2>5, <2>6, <2>7, <2>8, <2>9, <2>10 DEF Page
<1>3. ASSUME NEW j \in Jobs, Submission(j) PROVE Replacing'
  <2>1. CASE Submit(j)
    BY <2>1 DEF Submit, Spend, Goto, library, history, reading, cache, pinning, launching,
        Scanners, Valid
  <2>2. CASE Inspect(j)
    BY <2>2 DEF Inspect, Goto, library, history, reading, cache, pinning, launching, Scanners,
        Valid
  <2>3. CASE Check(j)
    BY <2>3 DEF Check, Goto, library, history, reading, cache, pinning, launching, Scanners,
        Valid
  <2>4. CASE Compare(j)
    BY <2>4 DEF Compare, Intact, Goto, library, history, reading, cache, pinning, launching,
        Scanners, Valid
  <2>5. CASE Lock(j)
    BY <2>5 DEF Lock, Goto, library, history, reading, cache, pinning, launching, Scanners,
        Valid
  <2>6. CASE Revalidate(j)
    BY <2>6 DEF Revalidate, Intact, Unlocked, Goto, library, history, reading, cache, pinning,
        launching, Scanners, Valid
  <2>7. CASE Quarantine(j)
    BY <2>7 DEF Quarantine, Intact, Goto, library, history, reading, cache, pinning, launching,
        Scanners, Valid
  <2>8. CASE Build(j)
    BY <2>8 DEF Build, Unlocked, Goto, library, history, reading, cache, pinning, launching,
        Scanners, Valid
  <2>9. CASE BuildFails(j)
    BY <2>9 DEF BuildFails, Unlocked, Spend, Goto, library, history, reading, cache, pinning,
        launching, Scanners, Valid
  <2>10. CASE Validate(j)
    BY <2>10 DEF Validate, Intact, Goto, library, history, reading, cache, pinning, launching,
        Scanners, Valid
  <2>11. CASE MakePinsDir(j)
    BY <2>11 DEF MakePinsDir, Goto, library, history, reading, cache, pinning, launching,
        Scanners, Valid
  <2>12. CASE Pin(j)
    BY <2>12 DEF Pin, Goto, library, history, reading, cache, pinning, launching, Scanners,
        Valid
  <2>13. CASE Launch(j)
    BY <2>13 DEF Launch, Goto, library, history, reading, cache, pinning, launching, Scanners,
        Valid
  <2>14. CASE LaunchFails(j)
    BY <2>14 DEF LaunchFails, Spend, Goto, library, history, reading, cache, pinning, launching,
        Scanners, Valid
  <2> QED BY <1>3, <2>1, <2>2, <2>3, <2>4, <2>5, <2>6, <2>7, <2>8, <2>9, <2>10, <2>11, <2>12,
      <2>13, <2>14 DEF Submission
<1>4. ASSUME NEW j \in Jobs, Worker(j) PROVE Replacing'
  <2>1. CASE CancelWaiting(j)
    BY <2>1 DEF CancelWaiting, Goto, library, history, reading, cache, pinning, launching,
        Scanners, Valid
  <2>2. CASE StartView(j)
    BY <2>2 DEF StartView, Goto, library, history, reading, cache, pinning, launching, Scanners,
        Valid
  <2>3. CASE CopyFile(j)
    BY <2>3 DEF CopyFile, Copied, Goto, library, history, reading, cache, pinning, launching,
        Scanners, Valid
  <2>4. CASE CopyFails(j)
    BY <2>4 DEF CopyFails, Goto, library, history, reading, cache, pinning, launching, Scanners,
        Valid
  <2>5. CASE End(j)
    BY <2>5 DEF End, Goto, library, history, reading, cache, pinning, launching, Scanners, Valid
  <2>6. CASE Unpin(j)
    BY <2>6 DEF Unpin, Goto, library, history, reading, cache, pinning, launching, Scanners,
        Valid
  <2>7. CASE RemovePinsDir(j)
    BY <2>7 DEF RemovePinsDir, Goto, library, history, reading, cache, pinning, launching,
        Scanners, Valid
  <2>8. CASE Die(j)
    BY <2>8 DEF Die, Spend, Active, Goto, library, history, reading, cache, pinning, launching,
        Scanners, Valid
  <2>9. CASE Reconcile(j)
    BY <2>9 DEF Reconcile, Goto, library, history, reading, cache, pinning, launching, Scanners,
        Valid
  <2> QED BY <1>4, <2>1, <2>2, <2>3, <2>4, <2>5, <2>6, <2>7, <2>8, <2>9 DEF Worker
<1>5. ASSUME NEW f \in Files, NEW c \in Contents, HandEdit(f, c) PROVE Replacing'
  <2>1. root \in Trees /\ root' \in Trees
    BY <1>5 DEF HandEdit, Trees
  <2> QED BY <1>5, <2>1 DEF HandEdit, cache, reading, pinning, launching
<1>6. ASSUME NEW t \in Trees, Discard(t) PROVE Replacing'
  BY <1>6 DEF Discard, Harm, Spend, Goto, library, history, reading, cache, pinning, launching,
      Scanners, Valid
<1>7. ASSUME NEW t \in Trees, NEW f \in Files, Damage(t, f) PROVE Replacing'
  BY <1>7 DEF Damage, Harm, Spend, Goto, library, history, reading, cache, pinning, launching,
      Scanners, Valid
<1> QED BY <1>1, <1>2, <1>3, <1>4, <1>5, <1>6, <1>7 DEF Next

LEMMA StepKept == TypeOK /\ LockHeld /\ Replacing /\ LibraryKept /\ Next => LibraryKept'
<1> SUFFICES ASSUME TypeOK, LockHeld, Replacing, LibraryKept, Next PROVE LibraryKept'
  OBVIOUS
<1> USE Constants DEF TypeOK, LockHeld, Replacing, LibraryKept
<1>1. ASSUME NEW p \in Scanners, Scan(p) PROVE LibraryKept'
  <2>1. CASE FirstScan(p)
    BY <2>1 DEF FirstScan, Begin, Goto, library, history, reading, cache, pinning, launching,
        Scanners
  <2>2. CASE StatFile(p)
    BY <2>2 DEF StatFile, Goto, library, history, reading, cache, pinning, launching, Scanners
  <2>3. CASE Rescan(p)
    BY <2>3 DEF Rescan, Goto, library, history, reading, cache, pinning, launching, Scanners
  <2>4. CASE ReadFile(p)
    BY <2>4 DEF ReadFile, Goto, library, history, reading, cache, pinning, launching, Scanners
  <2>5. CASE ScanFails(p)
    BY <2>5 DEF ScanFails, Refuse, Goto, library, history, reading, cache, pinning, launching,
        Scanners
  <2> QED BY <1>1, <2>1, <2>2, <2>3, <2>4, <2>5 DEF Scan
<1>2. ASSUME NEW e \in Editors, Page(e) PROVE LibraryKept'
  <2>1. CASE Show(e)
    BY <2>1 DEF Show, Goto, library, history, reading, cache, pinning, launching, Scanners
  <2>2. ASSUME NEW f \in Files, NEW c \in Contents, Save(e, f, c) PROVE LibraryKept'
    BY <2>2 DEF Save, Spend, Goto, library, history, reading, cache, pinning, launching,
        Scanners
  <2>3. CASE Stage(e)
    BY <2>3 DEF Stage, Edited, Publishable, Goto, library, history, reading, cache, pinning,
        launching, Scanners
  <2>4. CASE RefuseSave(e)
    BY <2>4 DEF RefuseSave, Refuse, Goto, library, history, reading, cache, pinning, launching,
        Scanners
  <2>5. CASE MoveAway(e)
    BY <2>5 DEF MoveAway, Goto, library, history, reading, cache, pinning, launching, Scanners
  <2>6. CASE MoveIn(e)
    BY <2>6 DEF MoveIn, Touched, Goto, library, history, reading, cache, pinning, launching,
        Scanners
  <2>7. CASE Fault(e)
    BY <2>7 DEF Fault, Spend, Goto, library, history, reading, cache, pinning, launching,
        Scanners
  <2>8. CASE Restore(e)
    BY <2>8 DEF Restore, Goto, library, history, reading, cache, pinning, launching, Scanners
  <2>9. CASE Finish(e)
    BY <2>9 DEF Finish, Goto, library, history, reading, cache, pinning, launching, Scanners
  <2>10. CASE Crash(e)
    BY <2>10 DEF Crash, Spend, Goto, library, history, reading, cache, pinning, launching,
        Scanners
  <2> QED BY <1>2, <2>1, <2>2, <2>3, <2>4, <2>5, <2>6, <2>7, <2>8, <2>9, <2>10 DEF Page
<1>3. ASSUME NEW j \in Jobs, Submission(j) PROVE LibraryKept'
  <2>1. CASE Submit(j)
    BY <2>1 DEF Submit, Spend, Goto, library, history, reading, cache, pinning, launching,
        Scanners
  <2>2. CASE Inspect(j)
    BY <2>2 DEF Inspect, Goto, library, history, reading, cache, pinning, launching, Scanners
  <2>3. CASE Check(j)
    BY <2>3 DEF Check, Goto, library, history, reading, cache, pinning, launching, Scanners
  <2>4. CASE Compare(j)
    BY <2>4 DEF Compare, Intact, Goto, library, history, reading, cache, pinning, launching,
        Scanners
  <2>5. CASE Lock(j)
    BY <2>5 DEF Lock, Goto, library, history, reading, cache, pinning, launching, Scanners
  <2>6. CASE Revalidate(j)
    BY <2>6 DEF Revalidate, Intact, Unlocked, Goto, library, history, reading, cache, pinning,
        launching, Scanners
  <2>7. CASE Quarantine(j)
    BY <2>7 DEF Quarantine, Intact, Goto, library, history, reading, cache, pinning, launching,
        Scanners
  <2>8. CASE Build(j)
    BY <2>8 DEF Build, Unlocked, Goto, library, history, reading, cache, pinning, launching,
        Scanners
  <2>9. CASE BuildFails(j)
    BY <2>9 DEF BuildFails, Unlocked, Spend, Goto, library, history, reading, cache, pinning,
        launching, Scanners
  <2>10. CASE Validate(j)
    BY <2>10 DEF Validate, Intact, Goto, library, history, reading, cache, pinning, launching,
        Scanners
  <2>11. CASE MakePinsDir(j)
    BY <2>11 DEF MakePinsDir, Goto, library, history, reading, cache, pinning, launching,
        Scanners
  <2>12. CASE Pin(j)
    BY <2>12 DEF Pin, Goto, library, history, reading, cache, pinning, launching, Scanners
  <2>13. CASE Launch(j)
    BY <2>13 DEF Launch, Goto, library, history, reading, cache, pinning, launching, Scanners
  <2>14. CASE LaunchFails(j)
    BY <2>14 DEF LaunchFails, Spend, Goto, library, history, reading, cache, pinning, launching,
        Scanners
  <2> QED BY <1>3, <2>1, <2>2, <2>3, <2>4, <2>5, <2>6, <2>7, <2>8, <2>9, <2>10, <2>11, <2>12,
      <2>13, <2>14 DEF Submission
<1>4. ASSUME NEW j \in Jobs, Worker(j) PROVE LibraryKept'
  <2>1. CASE CancelWaiting(j)
    BY <2>1 DEF CancelWaiting, Goto, library, history, reading, cache, pinning, launching,
        Scanners
  <2>2. CASE StartView(j)
    BY <2>2 DEF StartView, Goto, library, history, reading, cache, pinning, launching, Scanners
  <2>3. CASE CopyFile(j)
    BY <2>3 DEF CopyFile, Copied, Goto, library, history, reading, cache, pinning, launching,
        Scanners
  <2>4. CASE CopyFails(j)
    BY <2>4 DEF CopyFails, Goto, library, history, reading, cache, pinning, launching, Scanners
  <2>5. CASE End(j)
    BY <2>5 DEF End, Goto, library, history, reading, cache, pinning, launching, Scanners
  <2>6. CASE Unpin(j)
    BY <2>6 DEF Unpin, Goto, library, history, reading, cache, pinning, launching, Scanners
  <2>7. CASE RemovePinsDir(j)
    BY <2>7 DEF RemovePinsDir, Goto, library, history, reading, cache, pinning, launching,
        Scanners
  <2>8. CASE Die(j)
    BY <2>8 DEF Die, Spend, Active, Goto, library, history, reading, cache, pinning, launching,
        Scanners
  <2>9. CASE Reconcile(j)
    BY <2>9 DEF Reconcile, Goto, library, history, reading, cache, pinning, launching, Scanners
  <2> QED BY <1>4, <2>1, <2>2, <2>3, <2>4, <2>5, <2>6, <2>7, <2>8, <2>9 DEF Worker
<1>5. ASSUME NEW f \in Files, NEW c \in Contents, HandEdit(f, c) PROVE LibraryKept'
  <2>1. root \in Trees /\ root' \in Trees
    BY <1>5 DEF HandEdit, Trees
  <2> QED BY <1>5, <2>1 DEF HandEdit, cache, reading, pinning, launching
<1>6. ASSUME NEW t \in Trees, Discard(t) PROVE LibraryKept'
  BY <1>6 DEF Discard, Harm, Spend, Goto, library, history, reading, cache, pinning, launching,
      Scanners
<1>7. ASSUME NEW t \in Trees, NEW f \in Files, Damage(t, f) PROVE LibraryKept'
  BY <1>7 DEF Damage, Harm, Spend, Goto, library, history, reading, cache, pinning, launching,
      Scanners
<1> QED BY <1>1, <1>2, <1>3, <1>4, <1>5, <1>6, <1>7 DEF Next

LEMMA StepFresh == TypeOK /\ LockHeld /\ Replacing /\ Fresh /\ Next => Fresh'
<1> SUFFICES ASSUME TypeOK, LockHeld, Replacing, Fresh, Next PROVE Fresh'
  OBVIOUS
<1> USE Constants DEF TypeOK, LockHeld, Replacing, Fresh, FreshAt
<1>1. ASSUME NEW p \in Scanners, Scan(p) PROVE Fresh'
  <2>1. CASE FirstScan(p)
    <3>1. \A f \in Files : ~(f < 1)
      BY DEF Files
    <3> QED BY <2>1, <3>1 DEF FirstScan, Begin, Goto, library, history, Scanners
  <2>2. CASE StatFile(p)
    BY <2>2 DEF StatFile, Goto, library, history, reading, cache, pinning, launching, Scanners,
        Trees, Valid
  <2>3. CASE Rescan(p)
    BY <2>3 DEF Rescan, Goto, library, history, reading, cache, pinning, launching, Scanners,
        Trees, Valid
  <2>4. CASE ReadFile(p)
    <3>1. at[p] \in Files /\ root \in Trees
      BY <2>4 DEF ReadFile, Files
    <3>2. \A e \in Editors : e # p => pc'[e] = pc[e] /\ at'[e] = at[e] /\ snap'[e] = snap[e]
      BY <2>4 DEF ReadFile, Goto, Scanners
    <3>3. snap'[p] = [snap[p] EXCEPT ![at[p]] = root[at[p]]]
      BY <2>4 DEF ReadFile
    <3>4. UNCHANGED <<root, shown, want, stage, backup, handed>> /\ pc[p] = "read" /\ root # NoTree
      BY <2>4 DEF ReadFile, library, history
    <3>5. CASE p \in Editors
      <4>1. \A f \in Files \ handed : f <= at[p] => snap'[p][f] = root[f]
        BY <3>1, <3>3, <3>4, <3>5 DEF Files, Trees
      <4>2. CASE at[p] < NumFiles
        <5>1. at'[p] = at[p] + 1 /\ pc'[p] = "stat"
          BY <2>4, <4>2 DEF ReadFile, Goto
        <5>2. \A f \in Files \ handed : f < at'[p] => snap'[p][f] = root[f]
          BY <3>1, <4>1, <5>1 DEF Files
        <5>3. ASSUME NEW e \in Editors, NEW f \in Files \ handed, e # p PROVE FreshAt(e, f)'
          BY <3>2, <3>4, <5>3
        <5>4. ASSUME NEW f \in Files \ handed PROVE FreshAt(p, f)'
          BY <3>4, <5>1, <5>2
        <5> QED BY <3>4, <5>3, <5>4
      <4>3. CASE ~(at[p] < NumFiles)
        <5>1. pc'[p] = "scanned"
          BY <2>4, <4>3 DEF ReadFile, Goto
        <5>2. \A f \in Files \ handed : snap'[p][f] = root[f]
          <6>1. \A f \in Files : f <= at[p]
            BY <3>1, <4>3 DEF Files
          <6> QED BY <4>1, <6>1
        <5>3. ASSUME NEW e \in Editors, NEW f \in Files \ handed, e # p PROVE FreshAt(e, f)'
          BY <3>2, <3>4, <5>3
        <5>4. ASSUME NEW f \in Files \ handed PROVE FreshAt(p, f)'
          BY <3>4, <5>1, <5>2
        <5> QED BY <3>4, <5>3, <5>4
      <4> QED BY <4>2, <4>3
    <3>6. CASE p \notin Editors
      BY <3>2, <3>4, <3>6
    <3> QED BY <3>5, <3>6
  <2>5. CASE ScanFails(p)
    BY <2>5 DEF ScanFails, Refuse, Goto, library, history, reading, cache, pinning, launching,
        Scanners, Trees, Valid
  <2> QED BY <1>1, <2>1, <2>2, <2>3, <2>4, <2>5 DEF Scan
<1>2. ASSUME NEW e \in Editors, Page(e) PROVE Fresh'
  <2>1. CASE Show(e)
    BY <2>1 DEF Show, Goto, library, history, reading, cache, pinning, launching, Scanners,
        Trees, Valid
  <2>2. ASSUME NEW f \in Files, NEW c \in Contents, Save(e, f, c) PROVE Fresh'
    BY <2>2 DEF Save, Spend, Goto, library, history, reading, cache, pinning, launching,
        Scanners, Trees, Valid
  <2>3. CASE Stage(e)
    <3>1. \A d \in Editors : d # e => pc'[d] = pc[d] /\ stage'[d] = stage[d]
      BY <2>3 DEF Stage, Goto, Scanners
    <3>2. UNCHANGED <<root, shown, want, backup, handed, snap, at>> /\ pc[e] = "scanned" /\ pc'[e] = "away"
      BY <2>3 DEF Stage, Goto, history, reading, Scanners
    <3>3. root # NoTree /\ shown[e] \in Trees /\ snap[e] = shown[e] /\ stage'[e] = [shown[e] EXCEPT ![want[e][1]] = want[e][2]]
      BY <2>3 DEF Stage, Publishable, Valid, Edited, Scanners
    <3>4. \A f \in Files \ handed : root[f] = shown[e][f]
      BY <3>2, <3>3
    <3>5. ASSUME NEW d \in Editors, NEW f \in Files \ handed, d # e PROVE FreshAt(d, f)'
      BY <3>1, <3>2, <3>5
    <3>6. ASSUME NEW f \in Files \ handed PROVE FreshAt(e, f)'
      BY <3>2, <3>3, <3>4
    <3> HIDE DEF FreshAt
    <3> QED BY <3>2, <3>5, <3>6
  <2>4. CASE RefuseSave(e)
    BY <2>4 DEF RefuseSave, Refuse, Goto, library, history, reading, cache, pinning, launching,
        Scanners, Trees, Valid
  <2>5. CASE MoveAway(e)
    <3>1. \A d \in Editors : d # e => pc'[d] = pc[d] /\ backup'[d] = backup[d] /\ pc[d] = "idle"
      <4>1. \A d \in Editors : d # e => pc[d] = "idle"
        BY <2>5 DEF MoveAway
      <4> QED BY <2>5, <4>1 DEF MoveAway, Goto, Scanners
    <3>2. UNCHANGED <<shown, want, stage, handed, snap, at>> /\ pc[e] = "away" /\ pc'[e] = "in" /\ backup'[e] = root
      BY <2>5 DEF MoveAway, Goto, reading, Scanners
    <3> QED BY <3>1, <3>2
  <2>6. CASE MoveIn(e)
    BY <2>6 DEF MoveIn, Touched, Goto, library, history, reading, cache, pinning, launching,
        Scanners, Trees, Valid
  <2>7. CASE Fault(e)
    BY <2>7 DEF Fault, Spend, Goto, library, history, reading, cache, pinning, launching,
        Scanners, Trees, Valid
  <2>8. CASE Restore(e)
    BY <2>8 DEF Restore, Goto, library, history, reading, cache, pinning, launching, Scanners,
        Trees, Valid
  <2>9. CASE Finish(e)
    BY <2>9 DEF Finish, Goto, library, history, reading, cache, pinning, launching, Scanners,
        Trees, Valid
  <2>10. CASE Crash(e)
    BY <2>10 DEF Crash, Spend, Goto, library, history, reading, cache, pinning, launching,
        Scanners, Trees, Valid
  <2> QED BY <1>2, <2>1, <2>2, <2>3, <2>4, <2>5, <2>6, <2>7, <2>8, <2>9, <2>10 DEF Page
<1>3. ASSUME NEW j \in Jobs, Submission(j) PROVE Fresh'
  <2>1. CASE Submit(j)
    BY <2>1 DEF Submit, Spend, Goto, library, history, reading, cache, pinning, launching,
        Scanners, Trees, Valid
  <2>2. CASE Inspect(j)
    BY <2>2 DEF Inspect, Goto, library, history, reading, cache, pinning, launching, Scanners,
        Trees, Valid
  <2>3. CASE Check(j)
    BY <2>3 DEF Check, Goto, library, history, reading, cache, pinning, launching, Scanners,
        Trees, Valid
  <2>4. CASE Compare(j)
    BY <2>4 DEF Compare, Intact, Goto, library, history, reading, cache, pinning, launching,
        Scanners, Trees, Valid
  <2>5. CASE Lock(j)
    BY <2>5 DEF Lock, Goto, library, history, reading, cache, pinning, launching, Scanners,
        Trees, Valid
  <2>6. CASE Revalidate(j)
    BY <2>6 DEF Revalidate, Intact, Unlocked, Goto, library, history, reading, cache, pinning,
        launching, Scanners, Trees, Valid
  <2>7. CASE Quarantine(j)
    BY <2>7 DEF Quarantine, Intact, Goto, library, history, reading, cache, pinning, launching,
        Scanners, Trees, Valid
  <2>8. CASE Build(j)
    BY <2>8 DEF Build, Unlocked, Goto, library, history, reading, cache, pinning, launching,
        Scanners, Trees, Valid
  <2>9. CASE BuildFails(j)
    BY <2>9 DEF BuildFails, Unlocked, Spend, Goto, library, history, reading, cache, pinning,
        launching, Scanners, Trees, Valid
  <2>10. CASE Validate(j)
    BY <2>10 DEF Validate, Intact, Goto, library, history, reading, cache, pinning, launching,
        Scanners, Trees, Valid
  <2>11. CASE MakePinsDir(j)
    BY <2>11 DEF MakePinsDir, Goto, library, history, reading, cache, pinning, launching,
        Scanners, Trees, Valid
  <2>12. CASE Pin(j)
    BY <2>12 DEF Pin, Goto, library, history, reading, cache, pinning, launching, Scanners,
        Trees, Valid
  <2>13. CASE Launch(j)
    BY <2>13 DEF Launch, Goto, library, history, reading, cache, pinning, launching, Scanners,
        Trees, Valid
  <2>14. CASE LaunchFails(j)
    BY <2>14 DEF LaunchFails, Spend, Goto, library, history, reading, cache, pinning, launching,
        Scanners, Trees, Valid
  <2> QED BY <1>3, <2>1, <2>2, <2>3, <2>4, <2>5, <2>6, <2>7, <2>8, <2>9, <2>10, <2>11, <2>12,
      <2>13, <2>14 DEF Submission
<1>4. ASSUME NEW j \in Jobs, Worker(j) PROVE Fresh'
  <2>1. CASE CancelWaiting(j)
    BY <2>1 DEF CancelWaiting, Goto, library, history, reading, cache, pinning, launching,
        Scanners, Trees, Valid
  <2>2. CASE StartView(j)
    BY <2>2 DEF StartView, Goto, library, history, reading, cache, pinning, launching, Scanners,
        Trees, Valid
  <2>3. CASE CopyFile(j)
    <3>1. \A e \in Editors : pc'[e] = pc[e] /\ at'[e] = at[e]
      BY <2>3 DEF CopyFile, Copied, Goto, Scanners
    <3>2. UNCHANGED <<root, shown, want, stage, backup, handed, snap>>
      BY <2>3 DEF CopyFile, library, history
    <3> QED BY <3>1, <3>2
  <2>4. CASE CopyFails(j)
    BY <2>4 DEF CopyFails, Goto, library, history, reading, cache, pinning, launching, Scanners,
        Trees, Valid
  <2>5. CASE End(j)
    BY <2>5 DEF End, Goto, library, history, reading, cache, pinning, launching, Scanners,
        Trees, Valid
  <2>6. CASE Unpin(j)
    BY <2>6 DEF Unpin, Goto, library, history, reading, cache, pinning, launching, Scanners,
        Trees, Valid
  <2>7. CASE RemovePinsDir(j)
    BY <2>7 DEF RemovePinsDir, Goto, library, history, reading, cache, pinning, launching,
        Scanners, Trees, Valid
  <2>8. CASE Die(j)
    BY <2>8 DEF Die, Spend, Active, Goto, library, history, reading, cache, pinning, launching,
        Scanners, Trees, Valid
  <2>9. CASE Reconcile(j)
    BY <2>9 DEF Reconcile, Goto, library, history, reading, cache, pinning, launching, Scanners,
        Trees, Valid
  <2> QED BY <1>4, <2>1, <2>2, <2>3, <2>4, <2>5, <2>6, <2>7, <2>8, <2>9 DEF Worker
<1>5. ASSUME NEW f \in Files, NEW c \in Contents, HandEdit(f, c) PROVE Fresh'
  BY <1>5 DEF HandEdit, Touched, Spend, Goto, library, history, reading, cache, pinning,
      launching, Scanners, Trees, Valid
<1>6. ASSUME NEW t \in Trees, Discard(t) PROVE Fresh'
  BY <1>6 DEF Discard, Harm, Spend, Goto, library, history, reading, cache, pinning, launching,
      Scanners, Trees, Valid
<1>7. ASSUME NEW t \in Trees, NEW f \in Files, Damage(t, f) PROVE Fresh'
  BY <1>7 DEF Damage, Harm, Spend, Goto, library, history, reading, cache, pinning, launching,
      Scanners, Trees, Valid
<1> QED BY <1>1, <1>2, <1>3, <1>4, <1>5, <1>6, <1>7 DEF Next

----------------------------------------------------------------------------
Inv == TypeOK /\ PinsHeld /\ ViewsMatch /\ LockHeld /\ Replacing /\ LibraryKept /\ Fresh

LEMMA Stutter == Inv /\ UNCHANGED vars => Inv'
<1> SUFFICES ASSUME Inv, UNCHANGED vars PROVE Inv'
  OBVIOUS
<1> USE DEF vars, library, history, reading, cache, pinning, launching, Inv
<1>1. TypeOK'
  BY DEF TypeOK
<1>2. PinsHeld' /\ ViewsMatch'
  BY DEF PinsHeld, ViewsMatch, Intact
<1>3. LockHeld' /\ Replacing' /\ LibraryKept'
  BY DEF LockHeld, Replacing, LibraryKept
<1>4. Fresh'
  BY DEF Fresh, FreshAt
<1> QED BY <1>1, <1>2, <1>3, <1>4

LEMMA Invariance == Spec => []Inv
<1>1. Init => Inv
  <2> SUFFICES ASSUME Init PROVE Inv
    OBVIOUS
  <2>1. TypeOK
    BY InitType
  <2>2. PinsHeld /\ ViewsMatch
    BY Constants DEF Init, PinsHeld, ViewsMatch, Validated, Scanners
  <2>3. LockHeld /\ Replacing /\ LibraryKept /\ Fresh
    BY Constants DEF Init, LockHeld, Replacing, LibraryKept, Fresh, FreshAt, Scanners
  <2> QED BY <2>1, <2>2, <2>3 DEF Inv
<1>2. Inv /\ [Next]_vars => Inv'
  BY StepType, StepPins, StepViews, StepLock, StepReplacing, StepKept, StepFresh, Stutter DEF Inv
<1> QED BY <1>1, <1>2, PTL DEF Spec

\* The type invariant: what every reader, request and job of the blueprint may hold.
THEOREM TypeCorrect == Spec => []TypeOK
BY Invariance, PTL DEF Inv

\* LibraryKept: one failure of a save, or a crash at any moment, loses no tree.
THEOREM TheLibraryIsKept == Spec => []LibraryKept
BY Invariance, PTL DEF Inv

\* PinsHeld: a job holds its pin until it has ended, whoever removes their directory.
THEOREM PinsAreHeld == Spec => []PinsHeld
BY Invariance, PTL DEF Inv

\* LaunchMatchesDigest: quarantine and rebuilding do not reach a job that found its artifact
\* intact.
THEOREM LaunchesMatch == Spec => []LaunchMatchesDigest
<1>1. Inv => LaunchMatchesDigest
  BY DEF Inv, ViewsMatch, LaunchMatchesDigest
<1> QED BY <1>1, Invariance, PTL

LEMMA SaveStep ==
    Inv /\ [Next]_vars =>
       \A e \in Editors : pc[e] = "in" /\ root' # root =>
          \A f \in Files \ handed :
             /\ backup[e][f] = shown[e][f]
             /\ f # want[e][1] => root'[f] = backup[e][f]
<1> SUFFICES ASSUME Inv, [Next]_vars, NEW e \in Editors, pc[e] = "in", root' # root,
                    NEW f \in Files \ handed
             PROVE  /\ backup[e][f] = shown[e][f]
                    /\ f # want[e][1] => root'[f] = backup[e][f]
  OBVIOUS
<1> USE Constants DEF Inv
<1>1. root = NoTree /\ lock = e /\ \A d \in Editors : d # e => pc[d] = "idle"
  BY DEF Replacing, LockHeld
<1>2. root' = stage[e]
  <2>1. Next
    BY DEF vars, library
  <2>2. \A p \in Scanners : ~Scan(p)
    BY <1>1 DEF Scan, FirstScan, StatFile, Rescan, ReadFile, ScanFails, library
  <2>3. \A d \in Editors : Page(d) => d = e /\ root' = stage[e]
    BY <1>1 DEF Page, Show, Save, Stage, RefuseSave, MoveAway, MoveIn, Fault, Restore, Finish,
       Crash, Valid, library
  <2>4. \A j \in Jobs : ~Submission(j)
    BY DEF Submission, Submit, Inspect, Check, Compare, Lock, Revalidate, Quarantine, Build,
       BuildFails, Validate, MakePinsDir, Pin, Launch, LaunchFails, library
  <2>5. \A j \in Jobs : ~Worker(j)
    BY DEF Worker, CancelWaiting, StartView, CopyFile, CopyFails, End, Unpin, RemovePinsDir, Die,
       Reconcile, library
  <2>6. \A g \in Files, c \in Contents : ~HandEdit(g, c)
    BY <1>1 DEF HandEdit
  <2>7. \A t \in Trees : ~Discard(t) /\ \A g \in Files : ~Damage(t, g)
    BY DEF Discard, Damage, library
  <2> QED BY <2>1, <2>2, <2>3, <2>4, <2>5, <2>6, <2>7 DEF Next
<1>3. FreshAt(e, f)
  BY DEF Fresh
<1>4. shown[e] \in Trees
  BY <1>3 DEF FreshAt
<1>5. stage[e] = [shown[e] EXCEPT ![want[e][1]] = want[e][2]] /\ backup[e][f] = shown[e][f]
  BY <1>3 DEF FreshAt
<1>6. f # want[e][1] => stage[e][f] = shown[e][f]
  BY <1>4, <1>5 DEF Trees
<1> QED BY <1>2, <1>5, <1>6

\* SavesBuildOnEachOther: a save replaces what its user saw, and only the file it is about.
THEOREM SavesBuild == Spec => SavesBuildOnEachOther
<1>1. Inv /\ [Next]_vars =>
        [\A e \in Editors : pc[e] = "in" /\ root' # root =>
            \A f \in Files \ handed :
               /\ backup[e][f] = shown[e][f]
               /\ f # want[e][1] => root'[f] = backup[e][f]]_vars
  BY SaveStep
<1> QED BY <1>1, Invariance, PTL DEF Spec, SavesBuildOnEachOther
=============================================================================
