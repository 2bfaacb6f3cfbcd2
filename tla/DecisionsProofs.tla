-------------------------- MODULE DecisionsProofs --------------------------
(***************************************************************************)
(* What a decision says about the end of a run is true of the job it names, *)
(* and what the requests, the workers and the startup pass leave in the     *)
(* file as long as none of them writes from an outdated reading: for any    *)
(* number of requests, deaths and stops.                                    *)
(***************************************************************************)
EXTENDS Decisions, TLAPS

\* A content that may be written to the file at any time, however late: the job it names
\* ended as it says.  Ended jobs do not change, so it stays true while somebody holds it.
Truthful(d) == d # NoFile /\ d.status \in Ended => d.job \in Jobs /\ job[d.job] = d.status

Held ==
    /\ Truthful(file)
    /\ \A r \in Requests : Truthful(seen[r])
    /\ \A a \in Jobs \cup {Server} : Truthful(copy[a])

\* A job exists from its submission on, and its record agrees with its worker's step.
JobAgrees == \A r \in Jobs :
    /\ step[r] \notin {"mark", "cli_mark", "done"} => job[r] = "none" /\ worker[r] = "none"
    /\ worker[r] = "launched" => job[r] \in {"queued", "cancelled"}
    /\ worker[r] = "waiting" => job[r] \in {"waiting", "cancelled"}
    /\ worker[r] \in {"started", "show_run", "run"} => job[r] = "running"
    /\ worker[r] \in {"ended", "show_end"} => job[r] \in Ended
    /\ worker[r] \in {"show_run", "show_end"} => Names(copy[r], r)

\* What the startup pass is about to show has ended.
HandAgrees ==
    /\ srv # "starting" => hand = Nobody
    /\ hand # Nobody => job[hand] \in {"complete", "failed"}
    /\ copy[Server] # NoFile => hand # Nobody /\ copy[Server].job = hand

\* Who retries or verifies has read a decision.
SeenAgrees == \A r \in Requests :
    step[r] \in {"retry", "verify", "submit_again"} => seen[r] # NoFile

Inv == TypeOK /\ Held /\ JobAgrees /\ HandAgrees /\ SeenAgrees

----------------------------------------------------------------------------
LEMMA InitInv == Init => Inv
<1> SUFFICES ASSUME Init PROVE Inv
  OBVIOUS
<1> USE DecisionsAssumption DEF Init
<1>1. TypeOK
  BY DEF TypeOK, Steps, JobStatus
<1>2. Held
  BY DEF Held, Truthful
<1>3. JobAgrees
  BY DEF JobAgrees, Requests
<1>4. HandAgrees /\ SeenAgrees
  BY DEF HandAgrees, SeenAgrees
<1> QED
  BY <1>1, <1>2, <1>3, <1>4 DEF Inv

----------------------------------------------------------------------------
(* Requests.                                                               *)

\* Beginning a request changes no job.
LEMMA OpenInv ==
    ASSUME Inv, NEW r \in Requests,
           ShowForm(r) \/ AskAtTerminal(r) \/ AskRetry(r) \/ AskVerify(r)
    PROVE  Inv'
<1> USE DEF Inv
<1>1. PICK kind \in {"decide", "cli_decide", "retry", "verify"}, again \in BOOLEAN :
        /\ Open(r, kind, again)
        /\ \/ UNCHANGED seen /\ kind \in {"decide", "cli_decide"}
           \/ ReadFirst(r)
  <2>1. CASE ShowForm(r)
    BY <2>1 DEF ShowForm
  <2>2. CASE AskAtTerminal(r)
    BY <2>2 DEF AskAtTerminal
  <2>3. CASE AskRetry(r)
    BY <2>3 DEF AskRetry
  <2>4. CASE AskVerify(r)
    BY <2>4 DEF AskVerify
  <2> QED
    BY <2>1, <2>2, <2>3, <2>4
<1> USE <1>1 DEF Open
<1>2. TypeOK'
  BY DEF TypeOK, ReadFirst, Steps, startup, bounds, UnderWay
<1>3. Held'
  BY DEF TypeOK, Held, Truthful, ReadFirst
<1>4. JobAgrees'
  BY DEF TypeOK, JobAgrees, Names, Requests
<1>5. HandAgrees' /\ SeenAgrees'
  BY DEF TypeOK, HandAgrees, SeenAgrees, ReadFirst, startup
<1> QED
  BY <1>2, <1>3, <1>4, <1>5

\* The steps that leave the jobs, the workers and the projections alone, and write only
\* what is true.
LEMMA WriteKeepsInv ==
    ASSUME Inv, TypeOK', Truthful(file)',
           UNCHANGED <<job, worker, copy, hand, srv>>,
           \A r \in Requests : seen'[r] \in {seen[r], NoFile},
           \A r \in Jobs : step'[r] \notin {"mark", "cli_mark", "done"} =>
                               step[r] \notin {"mark", "cli_mark", "done"},
           \A r \in Jobs : step'[r] = step[r] \/ job[r] = "none" \/ step'[r] = "done",
           \A r \in Requests : step'[r] \in {"retry", "verify", "submit_again"} =>
                                   seen'[r] # NoFile
    PROVE  Inv'
<1>1. Held'
  BY DEF Inv, Held, Truthful
<1>2. JobAgrees'
  BY DEF Inv, JobAgrees
<1>3. HandAgrees' /\ SeenAgrees'
  BY DEF Inv, HandAgrees, SeenAgrees
<1> QED
  BY <1>1, <1>2, <1>3 DEF Inv

LEMMA DecideInv ==
    ASSUME Inv, NEW r \in Jobs, Decide(r) \/ DecideAtTerminal(r)
    PROVE  Inv'
<1>1. PICK submit \in {"submit_new", "cli_submit"}, mark \in {"mark", "cli_mark"} :
          /\ WriteNew(r, submit, mark)
          /\ step[r] \in {"decide", "cli_decide"}
          /\ loop' \in {r, loop}
  BY DEF Decide, DecideAtTerminal
<1> USE <1>1 DEF WriteNew
<1> DEFINE d == file'
<1>a. d \in Decision /\ d.status \in {"pending", "skipped"}
  BY DEF WriteFrom, NewDecision, Decision, Shown
<1> HIDE DEF d
<1>2. TypeOK'
  <2>1. /\ step' \in [Requests -> Steps]
        /\ loop' \in Requests \cup {Nobody}
        /\ overtaken' \in BOOLEAN
    BY DEF Inv, TypeOK, WriteFrom, Steps, Requests
  <2> QED
    BY <1>a, <2>1 DEF Inv, TypeOK, startup, bounds, d
<1>3. Truthful(file)'
  BY <1>a DEF Truthful, Ended, d
<1> QED
  BY <1>2, <1>3, WriteKeepsInv DEF Inv, TypeOK, JobAgrees, SeenAgrees, Requests, startup

LEMMA RetryInv ==
    ASSUME Inv, NEW r \in Jobs, Retry(r)
    PROVE  Inv'
<1> USE DEF Retry
<1>1. seen[r] \in Decision
  BY DEF Inv, TypeOK, SeenAgrees, Requests
<1>2. Retried(seen[r], r) \in Decision /\ Retried(seen[r], r).status = "pending"
  BY <1>1 DEF Retried, Decision, Shown
<1>3. TypeOK'
  BY <1>2 DEF Inv, TypeOK, WriteFrom, Steps, Requests, startup, bounds
<1>4. Truthful(file)'
  BY <1>2 DEF WriteFrom, Truthful, Ended
<1> QED
  BY <1>1, <1>3, <1>4, WriteKeepsInv DEF Inv, TypeOK, JobAgrees, SeenAgrees, Requests, startup

LEMMA VerifyInv ==
    ASSUME Inv, NEW r \in Verdicts, Verify(r)
    PROVE  Inv'
<1>1. PICK v \in {"verified", "follow_up"} :
          WriteFrom(seen[r], [seen[r] EXCEPT !.verdict = v])
  BY DEF Verify
<1>2. seen[r] \in Decision /\ seen[r] # NoFile /\ Truthful(seen[r])
  BY DEF Inv, TypeOK, Held, SeenAgrees, Verify, Requests
<1> DEFINE d == [seen[r] EXCEPT !.verdict = v]
<1>3. d \in Decision /\ d.status = seen[r].status /\ d.job = seen[r].job
  BY <1>2 DEF Decision
<1> HIDE DEF d
<1>4. file' = d
  BY <1>1 DEF WriteFrom, d
<1>5. TypeOK'
  BY <1>1, <1>3, <1>4 DEF Inv, TypeOK, Verify, WriteFrom, Return, Steps, Requests, startup, bounds
<1>6. Truthful(file)'
  <2>1. job' = job
    BY DEF Verify
  <2> QED
    BY <1>2, <1>3, <1>4, <2>1 DEF Truthful
<1> QED
  BY <1>5, <1>6, WriteKeepsInv
     DEF Inv, TypeOK, JobAgrees, SeenAgrees, Verify, Return, Requests, startup

\* A submission.
LEMMA SubmitInv ==
    ASSUME Inv, NEW r \in Jobs, SubmitSucceeds(r) \/ SubmitFails(r) \/ SubmitRaises(r)
    PROVE  Inv'
<1>1. Submitting(r) /\ step[r] \notin {"mark", "cli_mark", "done"}
  BY DEF SubmitSucceeds, SubmitFails, SubmitRaises, Submitting
<1>2. job[r] = "none" /\ worker[r] = "none"
  BY <1>1 DEF Inv, JobAgrees
<1>3. PICK j \in {"queued", "failed", "none"}, w \in {"launched", "none"},
           t \in {"mark", "cli_mark", "done"} :
          /\ job' = [job EXCEPT ![r] = j] /\ worker' = [worker EXCEPT ![r] = w]
          /\ w = "launched" => j = "queued"
          /\ step' = [step EXCEPT ![r] = t]
          /\ seen' \in {seen, [seen EXCEPT ![r] = NoFile]}
          /\ loop' \in {loop, Nobody}
          /\ overtaken' \in BOOLEAN /\ raised' \in BOOLEAN
  <2>1. CASE SubmitSucceeds(r)
    BY <2>1 DEF SubmitSucceeds, Return, Inv, TypeOK, history
  <2>2. CASE SubmitFails(r)
    <3>1. [worker EXCEPT ![r] = "none"] = worker
      BY <1>2 DEF Inv, TypeOK
    <3> QED
      BY <2>2, <3>1 DEF SubmitFails, Return, WriteFrom, Inv, TypeOK
  <2>3. CASE SubmitRaises(r)
    <3>1. [worker EXCEPT ![r] = "none"] = worker /\ [job EXCEPT ![r] = "none"] = job
      BY <1>2 DEF Inv, TypeOK
    <3> QED
      BY <2>3, <3>1 DEF SubmitRaises, Return, Inv, TypeOK
  <2> QED
    BY <2>1, <2>2, <2>3
<1>4. file' \in {file, NoFile, seen[r]}
  BY DEF SubmitSucceeds, SubmitFails, SubmitRaises, WriteFrom, history
<1>5. UNCHANGED <<proposal, copy, srv, todo, hand, blocked, deaths, stops, overlapped, owed>>
  BY DEF SubmitSucceeds, SubmitFails, SubmitRaises, startup, bounds, history
<1>6. TypeOK'
  BY <1>3, <1>4, <1>5 DEF Inv, TypeOK, JobStatus, Busy, Steps, Requests
<1>7. \A q \in Jobs : job[q] \in Ended => job'[q] = job[q]
  BY <1>2, <1>3 DEF Inv, TypeOK, Ended
<1>8. \A d : Truthful(d) => Truthful(d)'
  BY <1>7 DEF Truthful
<1>9. Held'
  BY <1>3, <1>4, <1>5, <1>8 DEF Inv, TypeOK, Held, Truthful, Requests
<1>10. JobAgrees'
  BY <1>3, <1>5 DEF Inv, TypeOK, JobAgrees, Names, Requests
<1>11. HandAgrees'
  BY <1>2, <1>3, <1>5 DEF Inv, TypeOK, HandAgrees
<1>12. SeenAgrees'
  BY <1>3 DEF Inv, TypeOK, SeenAgrees, Requests
<1> QED
  BY <1>6, <1>9, <1>10, <1>11, <1>12 DEF Inv

\* The other steps that end a request, the server's included.
LEMMA EndInv ==
    ASSUME Inv, NEW r \in Requests, MarkDecided(r) \/ Interrupt(r) \/ RefuseForm(r)
    PROVE  Inv'
<1>1. /\ step' = [step EXCEPT ![r] = "done"] /\ seen' = [seen EXCEPT ![r] = NoFile]
      /\ loop' \in {loop, Nobody} /\ proposal' \in {proposal, "decided"}
      /\ deaths' \in {deaths, deaths + 1}
  BY DEF MarkDecided, Interrupt, RefuseForm, Return, bounds
<1>2. /\ UNCHANGED <<file, job, worker, copy, srv, todo, hand, blocked, stops>>
      /\ UNCHANGED <<overtaken, overlapped, owed, raised>>
  BY DEF MarkDecided, Interrupt, RefuseForm, startup, bounds, history
<1>3. TypeOK'
  BY <1>1, <1>2 DEF Inv, TypeOK, Steps, Requests
<1>4. Truthful(file)'
  BY <1>2 DEF Inv, Held, Truthful
<1> QED
  BY <1>1, <1>2, <1>3, <1>4, WriteKeepsInv DEF Inv, TypeOK, SeenAgrees, Requests

LEMMA ShowProposalInv ==
    ASSUME Inv, ShowProposal
    PROVE  Inv'
<1> USE DEF ShowProposal, request, startup, bounds
<1>1. TypeOK'
  BY DEF Inv, TypeOK, UnderWay
<1>2. Truthful(file)'
  BY DEF Inv, Held, Truthful
<1> QED
  BY <1>1, <1>2, WriteKeepsInv DEF Inv, TypeOK, SeenAgrees

----------------------------------------------------------------------------
(* Workers.                                                                *)

\* A step of a worker that touches no file.
LEMMA WorkInv ==
    ASSUME Inv, NEW r \in Jobs,
           \/ Claim(r) \/ ClaimRefused(r) \/ SeeCancelled(r) \/ Begin(r) \/ FailEarly(r)
           \/ EndRun(r) \/ Cancel(r) \/ Die(r)
    PROVE  Inv'
<1>1. PICK j \in JobStatus, w \in Busy \cup {"none", "gone", "dead"} :
          /\ job' = [job EXCEPT ![r] = j] /\ worker' = [worker EXCEPT ![r] = w]
          /\ job[r] \in Ended => j = job[r]
          /\ job[r] \in {"complete", "failed"} => j = job[r]
          /\ w = "launched" => j \in {"queued", "cancelled"}
          /\ w = "waiting" => j \in {"waiting", "cancelled"}
          /\ w \in {"started", "show_run", "run"} => j = "running"
          /\ w \in {"ended", "show_end"} => j \in Ended
          /\ w \notin {"show_run", "show_end"}
          /\ ~(job[r] = "none" /\ worker[r] = "none")
  <2> USE DEF Inv, TypeOK, JobAgrees, JobStatus, Busy, Ended, Work
  <2>1. CASE Claim(r)
    BY <2>1 DEF Claim
  <2>2. CASE ClaimRefused(r)
    <3>1. job[r] = "cancelled" /\ job' = [job EXCEPT ![r] = "cancelled"]
      BY <2>2 DEF ClaimRefused
    <3> QED
      BY <2>2, <3>1 DEF ClaimRefused
  <2>3. CASE SeeCancelled(r)
    BY <2>3 DEF SeeCancelled
  <2>4. CASE Begin(r)
    BY <2>4 DEF Begin
  <2>5. CASE FailEarly(r)
    <3>1. CASE job[r] = "waiting"
      BY <2>5, <3>1 DEF FailEarly
    <3>2. CASE job[r] = "cancelled"
      BY <2>5, <3>2 DEF FailEarly
    <3> QED
      BY <2>5, <3>1, <3>2 DEF FailEarly
  <2>6. CASE EndRun(r)
    <3>1. PICK j \in {"complete", "failed"} : Work(r, "run", j, "ended")
      BY <2>6 DEF EndRun
    <3>2. /\ worker[r] = "run" /\ job[r] = "running"
          /\ job' = [job EXCEPT ![r] = j] /\ worker' = [worker EXCEPT ![r] = "ended"]
      BY <3>1
    <3>3. CASE j = "complete"
      BY <3>2, <3>3
    <3>4. CASE j = "failed"
      BY <3>2, <3>4
    <3> QED
      BY <3>1, <3>3, <3>4
  <2>7. CASE Cancel(r)
    BY <2>7 DEF Cancel
  <2>8. CASE Die(r)
    BY <2>8 DEF Die
  <2> QED
    BY <2>1, <2>2, <2>3, <2>4, <2>5, <2>6, <2>7, <2>8
<1>2. UNCHANGED <<file, proposal, step, seen, loop, srv, todo, hand, blocked, stops>>
      /\ UNCHANGED <<overtaken, overlapped, owed, raised>>
      /\ deaths' \in Nat
  BY DEF Inv, TypeOK, Claim, ClaimRefused, SeeCancelled, Begin, FailEarly, EndRun, Cancel,
         Die, Work, request, startup, bounds, history
<1>3. copy' \in {copy, [copy EXCEPT ![r] = NoFile]}
  BY DEF Claim, ClaimRefused, SeeCancelled, Begin, FailEarly, EndRun, Cancel, Die, Work
<1>4. TypeOK'
  BY <1>1, <1>2, <1>3 DEF Inv, TypeOK
<1>5. \A d : Truthful(d) => Truthful(d)'
  BY <1>1 DEF Inv, TypeOK, Truthful
<1>6. Held'
  BY <1>2, <1>3, <1>5 DEF Inv, TypeOK, Held, Truthful
<1>7. JobAgrees'
  BY <1>1, <1>2, <1>3 DEF Inv, TypeOK, JobAgrees, Names
<1>8. HandAgrees'
  BY <1>1, <1>2, <1>3, DecisionsAssumption DEF Inv, TypeOK, HandAgrees, Requests
<1>9. SeenAgrees'
  BY <1>2 DEF Inv, SeenAgrees
<1> QED
  BY <1>4, <1>6, <1>7, <1>8, <1>9 DEF Inv

\* A projection by a worker.
LEMMA ProjectInv ==
    ASSUME Inv, NEW r \in Jobs, ReadAtStart(r) \/ ShowRun(r) \/ ReadAtEnd(r) \/ ShowEnd(r)
    PROVE  Inv'
<1>1. r # Server
  BY DecisionsAssumption DEF Requests
<1>2. CASE ReadAtStart(r) \/ ReadAtEnd(r)
  <2>1. /\ UNCHANGED <<file, proposal, step, seen, loop, job, srv, todo, hand, blocked, deaths,
                       stops>>
        /\ UNCHANGED <<overtaken, overlapped, owed, raised>>
    BY <1>2 DEF ReadAtStart, ReadAtEnd, ReadDecision, request, startup, bounds, history
  <2>2. \/ /\ Names(file, r) /\ copy' = [copy EXCEPT ![r] = file]
           /\ \/ worker[r] = "started" /\ worker' = [worker EXCEPT ![r] = "show_run"]
              \/ worker[r] = "ended" /\ worker' = [worker EXCEPT ![r] = "show_end"]
        \/ /\ copy' = copy
           /\ \/ worker[r] = "started" /\ worker' = [worker EXCEPT ![r] = "run"]
              \/ worker[r] = "ended" /\ worker' = [worker EXCEPT ![r] = "gone"]
    BY <1>2 DEF ReadAtStart, ReadAtEnd, ReadDecision
  <2>3. TypeOK'
    BY <2>1, <2>2 DEF Inv, TypeOK, Busy
  <2>4. Held'
    BY <2>1, <2>2 DEF Inv, TypeOK, Held, Truthful
  <2>5. JobAgrees'
    BY <2>1, <2>2 DEF Inv, TypeOK, JobAgrees, Names
  <2>6. HandAgrees' /\ SeenAgrees'
    BY <1>1, <2>1, <2>2 DEF Inv, TypeOK, HandAgrees, SeenAgrees
  <2> QED
    BY <2>3, <2>4, <2>5, <2>6 DEF Inv
<1>3. CASE ShowRun(r) \/ ShowEnd(r)
  <2>1. /\ UNCHANGED <<proposal, step, seen, loop, job, srv, todo, hand, blocked, deaths,
                       stops>>
        /\ UNCHANGED <<overlapped, owed, raised>>
        /\ overtaken' \in BOOLEAN
        /\ copy' = [copy EXCEPT ![r] = NoFile]
        /\ file' = Projected(copy[r], job[r])
    BY <1>3 DEF ShowRun, ShowEnd, WriteDecision, WriteFrom, Inv, TypeOK, request, startup,
                bounds
  <2>2. \/ worker[r] = "show_run" /\ worker' = [worker EXCEPT ![r] = "run"]
        \/ worker[r] = "show_end" /\ worker' = [worker EXCEPT ![r] = "gone"]
    BY <1>3 DEF ShowRun, ShowEnd, WriteDecision
  <2>3. copy[r] \in Decision /\ copy[r].job = r /\ job[r] \in {"running"} \cup Ended
    BY <2>2 DEF Inv, TypeOK, JobAgrees, Names
  <2>4. file' \in Decision /\ file'.job = r /\ file'.status = job[r]
    BY <2>1, <2>3 DEF Projected, Decision, Shown, Ended
  <2>5. TypeOK'
    BY <2>1, <2>2, <2>4 DEF Inv, TypeOK, Busy
  <2>6. Held'
    BY <2>1, <2>4 DEF Inv, TypeOK, Held, Truthful
  <2>7. JobAgrees'
    BY <2>1, <2>2 DEF Inv, TypeOK, JobAgrees, Names
  <2>8. HandAgrees' /\ SeenAgrees'
    BY <1>1, <2>1 DEF Inv, TypeOK, HandAgrees, SeenAgrees
  <2> QED
    BY <2>5, <2>6, <2>7, <2>8 DEF Inv
<1> QED
  BY <1>2, <1>3

----------------------------------------------------------------------------
(* The server.                                                             *)

LEMMA StopInv ==
    ASSUME Inv, Stop
    PROVE  Inv'
<1>1. TypeOK'
  BY DEF Inv, TypeOK, Stop, Steps, history
<1>2. Held'
  BY DEF Inv, TypeOK, Held, Truthful, Stop
<1>3. JobAgrees'
  BY DecisionsAssumption DEF Inv, TypeOK, JobAgrees, Names, Stop, Requests, AtTerminal
<1>4. HandAgrees' /\ SeenAgrees'
  BY DEF Inv, TypeOK, HandAgrees, SeenAgrees, Stop, AtTerminal
<1> QED
  BY <1>1, <1>2, <1>3, <1>4 DEF Inv

LEMMA StartupInv ==
    ASSUME Inv,
           \/ Start \/ BeginPass \/ ReadAtStartup \/ ShowAtStartup \/ Serve
           \/ \E r \in Jobs : Recover(r) \/ LookAt(r)
    PROVE  Inv'
<1>1. CASE Start \/ BeginPass \/ Serve
  <2>1. TypeOK'
    BY <1>1 DEF Inv, TypeOK, Start, BeginPass, Serve, MayBeSetAside, request, bounds, history
  <2>2. /\ UNCHANGED <<file, seen, copy, job, worker, step>> /\ hand' = hand
        /\ srv' # "starting" => hand' = Nobody
    BY <1>1 DEF Start, BeginPass, Serve, request, Inv, HandAgrees
  <2> QED
    BY <2>1, <2>2 DEF Inv, Held, Truthful, JobAgrees, HandAgrees, SeenAgrees, Names
<1>r. ASSUME NEW r \in Jobs, Recover(r) PROVE Inv'
  <2>1. /\ UNCHANGED <<file, proposal, step, seen, loop, worker, copy, startup, deaths, stops>>
        /\ UNCHANGED <<overtaken, overlapped, owed, raised>>
        /\ srv = "recovering" /\ job[r] = "running" /\ worker[r] = "dead"
    BY <1>r DEF Recover, request, bounds, history
  <2>2. PICK s \in {"complete", "failed"} : job' = [job EXCEPT ![r] = s]
    BY <1>r DEF Recover
  <2>3. hand = Nobody /\ copy[Server] = NoFile
    BY <2>1 DEF Inv, HandAgrees
  <2>4. TypeOK'
    BY <2>1, <2>2 DEF Inv, TypeOK, JobStatus, startup
  <2>5. \A d : Truthful(d) => Truthful(d)'
    BY <2>1, <2>2 DEF Inv, TypeOK, Truthful, Ended
  <2>6. Held'
    BY <2>1, <2>5 DEF Inv, Held
  <2>7. JobAgrees'
    BY <2>1, <2>2 DEF Inv, TypeOK, JobAgrees, Names
  <2>8. HandAgrees' /\ SeenAgrees'
    BY <2>1, <2>2, <2>3 DEF Inv, TypeOK, HandAgrees, SeenAgrees, startup
  <2> QED
    BY <2>4, <2>6, <2>7, <2>8 DEF Inv
<1>2. ASSUME NEW r \in Jobs, LookAt(r) PROVE Inv'
  <2>1. /\ UNCHANGED <<file, proposal, step, seen, loop, worker, copy, srv, blocked, deaths, stops>>
        /\ UNCHANGED <<overtaken, overlapped, owed, raised>>
        /\ todo' \subseteq Jobs /\ hand = Nobody /\ hand' \in {hand, r} /\ srv = "starting"
    BY <1>2 DEF LookAt, Inv, TypeOK, request, bounds, history
  <2>2. \/ job' = job /\ (hand' = r => job[r] \in {"complete", "failed"})
        \/ /\ job' = [job EXCEPT ![r] = "failed"] /\ hand' = r
           /\ worker[r] = "dead" /\ job[r] \in {"waiting", "running"}
    BY <1>2, <2>1, DecisionsAssumption DEF LookAt, Requests
  <2>3. copy[Server] = NoFile
    BY <2>1 DEF Inv, HandAgrees
  <2>4. TypeOK'
    BY <2>1, <2>2 DEF Inv, TypeOK, JobStatus
  <2>5. \A d : Truthful(d) => Truthful(d)'
    BY <2>2 DEF Inv, TypeOK, Truthful, Ended
  <2>6. Held'
    BY <2>1, <2>5 DEF Inv, Held
  <2>7. JobAgrees'
    BY <2>1, <2>2 DEF Inv, TypeOK, JobAgrees, Names
  <2>8. HandAgrees' /\ SeenAgrees'
    BY <2>1, <2>2, <2>3 DEF Inv, TypeOK, HandAgrees, SeenAgrees
  <2> QED
    BY <2>4, <2>6, <2>7, <2>8 DEF Inv
<1>3. CASE ReadAtStartup
  <2>1. /\ UNCHANGED <<file, proposal, step, seen, loop, job, worker, srv, todo, blocked, deaths,
                       stops>>
        /\ UNCHANGED <<overtaken, overlapped, owed, raised>>
        /\ hand \in Jobs /\ srv = "starting" /\ copy[Server] = NoFile
    BY <1>3 DEF ReadAtStartup, Inv, TypeOK, request, bounds, history
  <2>2. \/ Names(file, hand) /\ copy' = [copy EXCEPT ![Server] = file] /\ hand' = hand
        \/ copy' = copy /\ hand' = Nobody
    BY <1>3 DEF ReadAtStartup
  <2>3. TypeOK'
    BY <2>1, <2>2 DEF Inv, TypeOK
  <2>4. Held'
    BY <2>1, <2>2 DEF Inv, TypeOK, Held, Truthful
  <2>5. JobAgrees'
    BY <2>1, <2>2, DecisionsAssumption DEF Inv, TypeOK, JobAgrees, Names, Requests
  <2>6. HandAgrees'
    <3>1. CASE copy' = copy /\ hand' = Nobody
      BY <2>1, <3>1 DEF HandAgrees
    <3>2. CASE Names(file, hand) /\ copy' = [copy EXCEPT ![Server] = file] /\ hand' = hand
      <4>1. copy'[Server] = file /\ file.job = hand /\ hand # Nobody
        BY <1>3, <3>2 DEF Inv, TypeOK, Names, ReadAtStartup
      <4> QED
        BY <2>1, <3>2, <4>1 DEF Inv, HandAgrees
    <3> QED
      BY <2>2, <3>1, <3>2
  <2>7. SeenAgrees'
    BY <2>1 DEF Inv, SeenAgrees
  <2> QED
    BY <2>3, <2>4, <2>5, <2>6, <2>7 DEF Inv
<1>4. CASE ShowAtStartup
  <2>1. /\ UNCHANGED <<proposal, step, seen, loop, job, worker, srv, todo, blocked, deaths,
                       stops>>
        /\ UNCHANGED <<overlapped, owed, raised>>
        /\ overtaken' \in BOOLEAN /\ hand \in Jobs /\ hand' = Nobody
        /\ copy' = [copy EXCEPT ![Server] = NoFile]
        /\ file' = Projected(copy[Server], job[hand])
    BY <1>4 DEF ShowAtStartup, WriteFrom, Inv, TypeOK, request, bounds
  <2>2. /\ copy[Server] \in Decision /\ copy[Server].job = hand
        /\ job[hand] \in {"complete", "failed"}
    BY <1>4 DEF ShowAtStartup, Inv, TypeOK, HandAgrees
  <2>3. file' \in Decision /\ file'.job = hand /\ file'.status = job[hand]
    BY <2>1, <2>2 DEF Projected, Decision, Shown
  <2>4. TypeOK'
    BY <2>1, <2>3 DEF Inv, TypeOK
  <2>5. Held'
    BY <2>1, <2>3 DEF Inv, TypeOK, Held, Truthful
  <2>6. JobAgrees'
    BY <2>1, DecisionsAssumption DEF Inv, TypeOK, JobAgrees, Names, Requests
  <2>7. HandAgrees' /\ SeenAgrees'
    BY <2>1 DEF Inv, TypeOK, HandAgrees, SeenAgrees
  <2> QED
    BY <2>4, <2>5, <2>6, <2>7 DEF Inv
<1> QED
  BY <1>1, <1>r, <1>2, <1>3, <1>4

----------------------------------------------------------------------------
\* The invariant holds in every reachable state.
THEOREM InvHolds == Spec => []Inv
<1>1. Inv /\ [Next]_vars => Inv'
  <2>1. ASSUME Inv, UNCHANGED vars PROVE Inv'
    BY <2>1 DEF Inv, TypeOK, Held, Truthful, JobAgrees, HandAgrees, SeenAgrees, Names, vars,
                request, startup, bounds, history
  <2>2. ASSUME Inv, Next PROVE Inv'
    <3>1. ASSUME NEW r \in Jobs,
                 ShowForm(r) \/ AskAtTerminal(r) \/ AskRetry(r)
          PROVE  Inv'
      BY <2>2, <3>1, OpenInv DEF Requests
    <3>2. ASSUME NEW r \in Jobs, Handle(r) \/ Interrupt(r) PROVE Inv'
      BY <2>2, <3>2, DecideInv, RetryInv, SubmitInv, EndInv DEF Handle, Requests
    <3>3. ASSUME NEW r \in Jobs, Run(r) \/ Cancel(r) \/ Die(r) PROVE Inv'
      BY <2>2, <3>3, WorkInv, ProjectInv DEF Run
    <3>4. ASSUME NEW r \in Verdicts, AskVerify(r) \/ Verify(r) PROVE Inv'
      BY <2>2, <3>4, OpenInv, VerifyInv DEF Requests
    <3>5. ASSUME NEW r \in Requests, RefuseForm(r) PROVE Inv'
      BY <2>2, <3>5, EndInv
    <3>6. CASE ShowProposal \/ Stop \/ Startup
      BY <2>2, <3>6, ShowProposalInv, StopInv, StartupInv DEF Startup
    <3>7. CASE Quiet
      BY <2>1, <2>2, <3>7 DEF Quiet
    <3> QED
      BY <2>2, <3>1, <3>2, <3>3, <3>4, <3>5, <3>6, <3>7 DEF Next
  <2> QED
    BY <2>1, <2>2
<1> QED
  BY InitInv, <1>1, PTL DEF Spec

\* The variables have their types.
THEOREM TypeCorrect == Spec => []TypeOK
BY InvHolds, PTL DEF Inv

\* A decision never shows an end that its job has not had, whoever wrote it last.
THEOREM DecisionsTellTheTruth == Spec => []ShownIsTrue
<1>1. Inv => ShownIsTrue
  BY DEF Inv, Held, Truthful, ShownIsTrue
<1> QED
  BY <1>1, InvHolds, PTL

----------------------------------------------------------------------------
(* As long as nobody has written from an outdated reading.                  *)

RetryAgrees == \A r \in Requests :
    step[r] \in {"retry", "submit_again"} => seen[r] # NoFile /\ CanRetry(seen[r])

\* the decision names every job that was launched, as the current one if it is under way
\* or about to be submitted
Named ==
    /\ \A r \in Jobs : worker[r] # "none" =>
          job[r] # "none" /\ file # NoFile /\ (file.job = r \/ r \in file.history)
    /\ \A r \in Jobs : job[r] \in Active => file # NoFile /\ file.job = r
    /\ \A r \in Jobs : Submitting(r) => file # NoFile /\ file.job = r /\ file.status = "pending"

\* the run of r is over, and the decision shows it if it names r
Settled(r) == job[r] \in {"complete", "failed"} /\ (Names(file, r) => file.status = job[r])

EndsSettled == \A r \in Jobs :
    worker[r] = "gone" /\ job[r] \in {"complete", "failed"} => Settled(r)

OwedSettled == srv \in {"starting", "serving"} =>
    \A r \in owed \ blocked :
        \/ /\ srv = "starting" /\ r \in todo
           /\ worker[r] = "dead" /\ job[r] \notin {"none", "queued", "cancelled"}
        \/ srv = "starting" /\ hand = r
        \/ Settled(r)

\* a pending run is about to be submitted or was launched
Backed == ~raised /\ stops = 0 /\ deaths = 0 /\ file # NoFile /\ file.status = "pending" =>
    file.job \in Jobs /\ (Submitting(file.job) \/ worker[file.job] # "none")

Current == Named /\ EndsSettled /\ OwedSettled /\ Backed

\* One request after the other.
OneByOne == \A q, r \in Requests :
    step[q] \notin {"idle", "done"} /\ step[r] \notin {"idle", "done"} => q = r

Marked ==
    /\ proposal = "decided" => file # NoFile
    /\ \A r \in Jobs : step[r] \in {"mark", "cli_mark"} => file # NoFile
    /\ \A r \in Jobs : step[r] \in {"submit_new", "cli_submit"} => proposal = "proposed"

\* Whoever will write knows the file as it is.
KnowsFile ==
    /\ srv = "serving" /\ copy[Server] = NoFile
    /\ \A r \in Requests :
          /\ step[r] \in {"decide", "cli_decide"} => file = NoFile
          /\ step[r] \in {"retry", "verify"} => seen[r] = file
          /\ step[r] \in {"submit_new", "cli_submit"} => file = NewDecision("pending", r)
          /\ step[r] = "submit_again" => file = Retried(seen[r], r)
          /\ step[r] \notin {"idle", "done", "mark", "cli_mark"} =>
                 \A q \in Jobs : worker[q] \notin Busy
    /\ \A q \in Jobs : worker[q] \in Busy => file # NoFile /\ file.job = q /\ file.status \notin Ended
    /\ \A q \in Jobs : worker[q] \in {"show_run", "show_end"} => copy[q] = file

HistoryInv ==
    /\ RetryAgrees
    /\ ~overtaken => Current
    /\ ~overlapped => OneByOne
    /\ ~overtaken /\ ~overlapped => Marked
    /\ ~overlapped /\ stops = 0 => ~overtaken /\ KnowsFile

\* Nothing has been written, launched or marked at first.
LEMMA HistoryStarts == Init => HistoryInv
<1> SUFFICES ASSUME Init PROVE HistoryInv
  OBVIOUS
<1> USE DecisionsAssumption DEF Init
<1>1. RetryAgrees /\ OneByOne
  BY DEF RetryAgrees, OneByOne
<1>2. Current
  BY DEF Current, Named, EndsSettled, OwedSettled, Backed, Submitting, Active, Requests
<1>3. Marked /\ KnowsFile /\ ~overtaken
  BY DEF Marked, KnowsFile, Busy, Requests
<1> QED BY <1>1, <1>2, <1>3 DEF HistoryInv

\* A write from a current reading overtakes nobody.
LEMMA Overtakes ==
    ASSUME NEW from, NEW d, WriteFrom(from, d), overtaken \in BOOLEAN
    PROVE  /\ file' = d /\ (~overtaken' => ~overtaken /\ file = from)
           /\ ~overtaken /\ file = from => ~overtaken'
<1>1. CASE overtaken
  BY <1>1 DEF WriteFrom
<1>2. CASE ~overtaken
  BY <1>2 DEF WriteFrom
<1> QED BY <1>1, <1>2

\* What leaves the file, the jobs and the startup pass alone keeps what is current.
LEMMA CurrentKept ==
    ASSUME Current, UNCHANGED <<file, job, worker, srv, todo, hand, blocked, owed>>,
           \A r \in Jobs : Submitting(r)' => Submitting(r),
           ~raised' /\ stops' = 0 /\ deaths' = 0 =>
              /\ ~raised /\ stops = 0 /\ deaths = 0
              /\ \A r \in Jobs : Submitting(r) => Submitting(r)'
    PROVE  Current'
<1>1. Named' /\ EndsSettled' /\ OwedSettled'
  BY DEF Current, Named, EndsSettled, OwedSettled, Settled, Names
<1>2. Backed'
  BY DEF Current, Backed
<1> QED BY <1>1, <1>2 DEF Current

\* A request begins with what it has read, and is recorded when it overlaps.
LEMMA OpenHistory ==
    ASSUME Inv, HistoryInv, NEW r \in Requests,
           ShowForm(r) \/ AskAtTerminal(r) \/ AskRetry(r) \/ AskVerify(r)
    PROVE  HistoryInv'
<1>1. PICK kind \in {"decide", "cli_decide", "retry", "verify"}, again \in BOOLEAN :
        /\ Open(r, kind, again)
        /\ \/ UNCHANGED seen /\ kind \in {"decide", "cli_decide"} /\ (~again => file = NoFile)
           \/ ReadFirst(r) /\ kind = "retry" /\ CanRetry(file)
           \/ ReadFirst(r) /\ kind = "verify" /\ (~again => \A q \in Jobs : worker[q] \notin Busy)
  <2>1. CASE ShowForm(r)
    BY <2>1 DEF ShowForm, Free
  <2>2. CASE AskAtTerminal(r)
    BY <2>2 DEF AskAtTerminal
  <2>3. CASE AskRetry(r)
    BY <2>3 DEF AskRetry
  <2>4. CASE AskVerify(r)
    <3>1. PICK again \in BOOLEAN : again = (\E q \in Jobs : worker[q] \in Busy)
      OBVIOUS
    <3> QED BY <2>4, <3>1 DEF AskVerify
  <2> QED BY <2>1, <2>2, <2>3, <2>4
<1>2. /\ UNCHANGED <<file, proposal, loop, job, worker, copy, srv, todo, hand, blocked, deaths, stops>>
      /\ UNCHANGED <<overtaken, owed, raised>>
      /\ step[r] = "idle" /\ step' = [step EXCEPT ![r] = kind]
  BY <1>1 DEF Open, startup, bounds
<1>3. ~overlapped' => ~overlapped /\ ~again /\ ~UnderWay
  <2>1. overlapped' = (overlapped \/ again \/ UnderWay)
    BY <1>1 DEF Open
  <2> QED BY <2>1
<1>4. /\ kind \in {"decide", "cli_decide"} => seen' = seen /\ (~again => file = NoFile)
      /\ kind \in {"retry", "verify"} => file # NoFile /\ seen' = [seen EXCEPT ![r] = file]
      /\ kind = "retry" => CanRetry(file)
      /\ kind = "verify" /\ ~again => \A q \in Jobs : worker[q] \notin Busy
  BY <1>1 DEF ReadFirst
<1>t. step \in [Requests -> Steps] /\ seen \in [Requests -> Decision \cup {NoFile}] /\ Jobs \subseteq Requests
  BY DEF Inv, TypeOK, Requests
<1>5. RetryAgrees'
  BY <1>2, <1>4, <1>t DEF HistoryInv, RetryAgrees, CanRetry
<1>6. ~overtaken' => Current'
  <2>1. \A q \in Jobs : Submitting(q)' <=> Submitting(q)
    BY <1>2, <1>t DEF Submitting
  <2> QED BY <1>2, <2>1, CurrentKept DEF HistoryInv
<1>7. ~overlapped' => OneByOne'
  BY <1>2, <1>3, <1>t DEF HistoryInv, OneByOne, UnderWay
<1>8. ~overtaken' /\ ~overlapped' => Marked'
  BY <1>2, <1>3, <1>t DEF HistoryInv, Marked
<1>9. ASSUME ~overlapped', stops' = 0 PROVE ~overtaken' /\ KnowsFile'
  <2>1. ~overtaken /\ KnowsFile /\ ~again /\ ~UnderWay
    BY <1>2, <1>3, <1>9 DEF HistoryInv
  <2>2. \A q \in Requests : q # r => step'[q] \in {"idle", "done"} /\ seen'[q] = seen[q]
    BY <1>2, <1>4, <1>t, <2>1 DEF UnderWay
  <2>3. \A q \in Jobs : worker[q] \notin Busy
    BY <1>4, <2>1 DEF KnowsFile, CanRetry, Ended
  <2> QED BY <1>2, <1>4, <1>t, <2>1, <2>2, <2>3 DEF KnowsFile
<1> QED BY <1>5, <1>6, <1>7, <1>8, <1>9 DEF HistoryInv

\* decide: the first decision, with a pending run or with none.
LEMMA DecideHistory ==
    ASSUME Inv, HistoryInv, NEW r \in Jobs, Decide(r) \/ DecideAtTerminal(r)
    PROVE  HistoryInv'
<1>1. PICK submit \in {"submit_new", "cli_submit"}, mark \in {"mark", "cli_mark"} :
          WriteNew(r, submit, mark) /\ step[r] \in {"decide", "cli_decide"}
  BY DEF Decide, DecideAtTerminal
<1>2. /\ UNCHANGED <<proposal, seen, job, worker, copy, srv, todo, hand, blocked, deaths, stops,
                     overlapped, owed, raised>>
      /\ \/ file' = NewDecision("pending", r) /\ step' = [step EXCEPT ![r] = submit]
         \/ file' = NewDecision("skipped", NoJob) /\ step' = [step EXCEPT ![r] = mark]
      /\ ~overtaken' => ~overtaken /\ file = NoFile
      /\ ~overtaken /\ file = NoFile => ~overtaken'
  BY <1>1, Overtakes DEF WriteNew, startup, bounds, Inv, TypeOK
<1>t. step \in [Requests -> Steps] /\ r \in Requests /\ NoJob \notin Jobs /\ Jobs \subseteq Requests
  BY DecisionsAssumption DEF Inv, TypeOK, Requests
<1>j. job[r] = "none" /\ worker[r] = "none"
  BY <1>1 DEF Inv, JobAgrees
<1>d. file' # NoFile /\ file'.status \in {"pending", "skipped"}
  BY <1>2, NoFileAssumption DEF NewDecision, Decision, Shown
<1>5. RetryAgrees'
  BY <1>2, <1>t DEF HistoryInv, RetryAgrees
<1>6. ASSUME ~overtaken' PROVE Current'
  <2>1. Current /\ file = NoFile
    BY <1>2, <1>6 DEF HistoryInv
  <2>2. \A q \in Jobs : worker[q] = "none" /\ job[q] \notin Active /\ ~Submitting(q)
    BY <2>1 DEF Current, Named
  <2>3. \A q \in Jobs : Submitting(q)' => q = r /\ file' = NewDecision("pending", r)
    BY <1>2, <1>t, <2>2 DEF Submitting
  <2>4. Named'
    BY <1>2, <1>d, <2>2, <2>3 DEF Named, NewDecision
  <2>5. \A q \in Jobs : Settled(q) => Settled(q)'
    BY <1>2, <1>j, <1>t DEF Settled, Names, NewDecision
  <2>6. EndsSettled' /\ OwedSettled'
    BY <1>2, <2>1, <2>5 DEF Current, EndsSettled, OwedSettled, Inv, TypeOK
  <2>7. Backed'
    BY <1>2, <1>t DEF Backed, NewDecision, Submitting
  <2> QED BY <2>4, <2>6, <2>7 DEF Current
<1>7. ~overlapped' => OneByOne'
  BY <1>1, <1>2, <1>t DEF HistoryInv, OneByOne
<1>8. ASSUME ~overtaken', ~overlapped' PROVE Marked'
  <2>1. Marked /\ OneByOne /\ file = NoFile
    BY <1>2, <1>8 DEF HistoryInv
  <2>2. proposal' = "proposed"
    BY <1>2, <2>1 DEF Marked, Inv, TypeOK
  <2> QED BY <1>d, <2>2 DEF Marked
<1>9. ASSUME ~overlapped', stops' = 0 PROVE ~overtaken' /\ KnowsFile'
  <2>1. ~overtaken /\ KnowsFile /\ OneByOne /\ file = NoFile
    BY <1>1, <1>2, <1>9, <1>t DEF HistoryInv, KnowsFile
  <2>2. \A q \in Jobs : worker[q] \notin Busy
    BY <2>1 DEF KnowsFile
  <2>3. \A q \in Requests : q # r => step'[q] \in {"idle", "done"}
    BY <1>1, <1>2, <1>t, <2>1 DEF OneByOne
  <2>4. ~overtaken'
    BY <1>2, <2>1
  <2> QED BY <1>2, <1>t, <2>1, <2>2, <2>3, <2>4 DEF KnowsFile, Busy
<1> QED BY <1>5, <1>6, <1>7, <1>8, <1>9 DEF HistoryInv

\* a decision that may be retried: nobody is about to submit, and no run goes on
LEMMA RetryableIsOver ==
    ASSUME Inv, Current, file # NoFile, CanRetry(file)
    PROVE  \A q \in Jobs : job[q] \notin Active /\ ~Submitting(q)
<1>1. file.status \in Ended /\ file.job \in Jobs /\ job[file.job] = file.status
  BY DEF Inv, Held, Truthful, CanRetry, Ended
<1> QED BY <1>1 DEF Current, Named, Active, Ended, CanRetry

\* retry: the replaced job stays in the history of the decision.
LEMMA RetryHistory ==
    ASSUME Inv, HistoryInv, NEW r \in Jobs, Retry(r)
    PROVE  HistoryInv'
<1> DEFINE d == Retried(seen[r], r)
<1>1. /\ UNCHANGED <<proposal, seen, job, worker, copy, srv, todo, hand, blocked, deaths, stops,
                     overlapped, owed, raised>>
      /\ step[r] = "retry" /\ step' = [step EXCEPT ![r] = "submit_again"] /\ file' = d
      /\ ~overtaken' => ~overtaken /\ file = seen[r]
      /\ ~overtaken /\ file = seen[r] => ~overtaken'
  BY Overtakes DEF Retry, startup, bounds, Inv, TypeOK
<1>t. step \in [Requests -> Steps] /\ r \in Requests /\ NoJob \notin Jobs /\ Jobs \subseteq Requests
  BY DecisionsAssumption DEF Inv, TypeOK, Requests
<1>j. job[r] = "none" /\ worker[r] = "none"
  BY <1>1 DEF Inv, JobAgrees
<1>s. seen[r] \in Decision /\ seen[r] # NoFile /\ CanRetry(seen[r])
  BY <1>1, <1>t DEF HistoryInv, RetryAgrees, Inv, TypeOK
<1>d. /\ d.status = "pending" /\ d.job = r /\ d.history = seen[r].history \cup ({seen[r].job} \ {NoJob})
      /\ d \in Decision
  BY <1>s DEF Retried, Decision, Shown
<1> HIDE DEF d
<1>n. file' # NoFile
  BY <1>1, <1>d, NoFileAssumption
<1>5. RetryAgrees'
  BY <1>1, <1>t, <1>s DEF HistoryInv, RetryAgrees
<1>6. ASSUME ~overtaken' PROVE Current'
  <2>1. Current /\ file = seen[r]
    BY <1>1, <1>6 DEF HistoryInv
  <2>2. \A q \in Jobs : job[q] \notin Active /\ ~Submitting(q)
    BY <1>s, <2>1, RetryableIsOver
  <2>3. \A q \in Jobs : Submitting(q)' => q = r
    BY <1>1, <1>t, <2>2 DEF Submitting
  <2>4. Named'
    BY <1>1, <1>d, <1>n, <1>t, <2>1, <2>2, <2>3 DEF Current, Named
  <2>5. \A q \in Jobs : Settled(q) => Settled(q)'
    BY <1>1, <1>j, <1>d DEF Settled, Names
  <2>6. EndsSettled' /\ OwedSettled'
    BY <1>1, <2>1, <2>5 DEF Current, EndsSettled, OwedSettled, Inv, TypeOK
  <2>7. Backed'
    BY <1>1, <1>t, <1>d DEF Backed, Submitting
  <2> QED BY <2>4, <2>6, <2>7 DEF Current
<1>7. ~overlapped' => OneByOne'
  BY <1>1, <1>t DEF HistoryInv, OneByOne
<1>8. ASSUME ~overtaken', ~overlapped' PROVE Marked'
  <2>1. Marked
    BY <1>1, <1>8 DEF HistoryInv
  <2> QED BY <1>1, <1>t, <1>n, <2>1 DEF Marked
<1>9. ASSUME ~overlapped', stops' = 0 PROVE ~overtaken' /\ KnowsFile'
  <2>1. ~overtaken /\ KnowsFile /\ OneByOne /\ file = seen[r]
    BY <1>1, <1>9, <1>t DEF HistoryInv, KnowsFile
  <2>2. \A q \in Jobs : worker[q] \notin Busy
    BY <1>1, <1>t, <2>1 DEF KnowsFile
  <2>3. \A q \in Requests : q # r => step'[q] \in {"idle", "done"}
    BY <1>1, <1>t, <2>1 DEF OneByOne
  <2>4. ~overtaken' /\ file' = Retried(seen[r], r)
    BY <1>1, <2>1 DEF d
  <2> QED BY <1>1, <1>t, <2>1, <2>2, <2>3, <2>4 DEF KnowsFile, Busy
<1> QED BY <1>5, <1>6, <1>7, <1>8, <1>9 DEF HistoryInv

\* verify: the verdict changes neither the job nor the status.
LEMMA VerifyHistory ==
    ASSUME Inv, HistoryInv, NEW r \in Verdicts, Verify(r)
    PROVE  HistoryInv'
<1>1. PICK v \in {"verified", "follow_up"} : WriteFrom(seen[r], [seen[r] EXCEPT !.verdict = v])
  BY DEF Verify
<1>2. /\ UNCHANGED <<proposal, job, worker, copy, srv, todo, hand, blocked, deaths, stops, overlapped,
                     owed, raised>>
      /\ step[r] = "verify" /\ step' = [step EXCEPT ![r] = "done"] /\ seen' = [seen EXCEPT ![r] = NoFile]
      /\ file' = [seen[r] EXCEPT !.verdict = v]
      /\ ~overtaken' => ~overtaken /\ file = seen[r]
      /\ ~overtaken /\ file = seen[r] => ~overtaken'
  BY <1>1, Overtakes DEF Verify, Return, startup, bounds, Inv, TypeOK
<1>t. /\ step \in [Requests -> Steps] /\ r \in Requests /\ r \notin Jobs /\ Jobs \subseteq Requests
      /\ seen \in [Requests -> Decision \cup {NoFile}]
  BY DecisionsAssumption DEF Inv, TypeOK, Requests
<1>s. seen[r] # NoFile /\ seen[r] \in Decision
  BY <1>2, <1>t DEF Inv, SeenAgrees
<1>d. /\ file'.status = seen[r].status /\ file'.job = seen[r].job /\ file'.history = seen[r].history
      /\ file' # NoFile
  <2>1. file' \in Decision
    BY <1>2, <1>s DEF Decision
  <2> QED BY <1>2, <1>s, <2>1, NoFileAssumption DEF Decision
<1>5. RetryAgrees'
  BY <1>2, <1>t DEF HistoryInv, RetryAgrees
<1>6. ASSUME ~overtaken' PROVE Current'
  <2>1. Current /\ file = seen[r]
    BY <1>2, <1>6 DEF HistoryInv
  <2>2. \A q \in Jobs : Submitting(q)' <=> Submitting(q)
    BY <1>2, <1>t DEF Submitting
  <2>3. Named'
    BY <1>2, <1>d, <2>1, <2>2 DEF Current, Named
  <2>5. \A q \in Jobs : Settled(q) => Settled(q)'
    BY <1>2, <1>d, <1>s, <2>1 DEF Settled, Names
  <2>6. EndsSettled' /\ OwedSettled'
    BY <1>2, <2>1, <2>5 DEF Current, EndsSettled, OwedSettled, Inv, TypeOK
  <2>7. Backed'
    BY <1>2, <1>d, <1>s, <2>1, <2>2 DEF Current, Backed
  <2> QED BY <2>3, <2>6, <2>7 DEF Current
<1>7. ~overlapped' => OneByOne'
  BY <1>2, <1>t DEF HistoryInv, OneByOne
<1>8. ASSUME ~overtaken', ~overlapped' PROVE Marked'
  <2>1. Marked
    BY <1>2, <1>8 DEF HistoryInv
  <2> QED BY <1>2, <1>t, <1>d, <2>1 DEF Marked
<1>9. ASSUME ~overlapped', stops' = 0 PROVE ~overtaken' /\ KnowsFile'
  <2>1. ~overtaken /\ KnowsFile /\ OneByOne /\ file = seen[r]
    BY <1>2, <1>9, <1>t DEF HistoryInv, KnowsFile
  <2>2. \A q \in Jobs : worker[q] \notin Busy
    BY <1>2, <1>t, <2>1 DEF KnowsFile
  <2>3. \A q \in Requests : step'[q] \in {"idle", "done"}
    BY <1>2, <1>t, <2>1 DEF OneByOne
  <2>4. ~overtaken'
    BY <1>2, <2>1
  <2> QED BY <1>2, <1>t, <2>1, <2>2, <2>3, <2>4 DEF KnowsFile, Busy
<1> QED BY <1>5, <1>6, <1>7, <1>8, <1>9 DEF HistoryInv

\* A submission launches the job that the decision names already.
LEMMA SubmitSucceedsHistory ==
    ASSUME Inv, HistoryInv, NEW r \in Jobs, SubmitSucceeds(r)
    PROVE  HistoryInv'
<1>1. /\ UNCHANGED <<file, proposal, copy, srv, todo, hand, blocked, deaths, stops, overtaken,
                     overlapped, owed, raised>>
      /\ Submitting(r) /\ job' = [job EXCEPT ![r] = "queued"] /\ worker' = [worker EXCEPT ![r] = "launched"]
      /\ \/ seen' = seen /\ \E mark \in {"mark", "cli_mark"} : step' = [step EXCEPT ![r] = mark]
         \/ seen' = [seen EXCEPT ![r] = NoFile] /\ step' = [step EXCEPT ![r] = "done"]
  BY DEF SubmitSucceeds, Return, startup, bounds, history
<1>t. /\ step \in [Requests -> Steps] /\ r \in Requests /\ Jobs \subseteq Requests
      /\ job \in [Jobs -> JobStatus] /\ worker \in [Jobs -> Busy \cup {"none", "gone", "dead"}]
      /\ seen \in [Requests -> Decision \cup {NoFile}]
  BY DEF Inv, TypeOK, Requests
<1>j. job[r] = "none" /\ worker[r] = "none"
  BY <1>1 DEF Inv, JobAgrees, Submitting
<1>s. /\ step'[r] \in {"mark", "cli_mark", "done"}
      /\ \A q \in Requests : q # r => step'[q] = step[q] /\ seen'[q] = seen[q]
  BY <1>1, <1>t
<1>5. RetryAgrees'
  BY <1>s DEF HistoryInv, RetryAgrees
<1>6. ASSUME ~overtaken' PROVE Current'
  <2>1. Current
    BY <1>1, <1>6 DEF HistoryInv
  <2>2. file # NoFile /\ file.job = r
    BY <1>1, <2>1 DEF Current, Named
  <2>3. \A q \in Jobs : Submitting(q)' => Submitting(q) /\ q # r
    BY <1>s, <1>t DEF Submitting
  <2>4. Named'
    BY <1>1, <1>t, <2>1, <2>2, <2>3 DEF Current, Named
  <2>5. \A q \in Jobs : Settled(q) => Settled(q)'
    BY <1>1, <1>j, <1>t DEF Settled, Names
  <2>6. EndsSettled'
    BY <1>1, <1>t, <2>1, <2>5 DEF Current, EndsSettled
  <2>7. OwedSettled'
    BY <1>1, <1>t, <1>j, <2>1, <2>5 DEF Current, OwedSettled, Inv, TypeOK
  <2>8. Backed'
    BY <1>1, <1>t, <2>2 DEF Backed
  <2> QED BY <2>4, <2>6, <2>7, <2>8 DEF Current
<1>7. ~overlapped' => OneByOne'
  BY <1>1, <1>s DEF HistoryInv, OneByOne, Submitting
<1>8. ASSUME ~overtaken', ~overlapped' PROVE Marked'
  <2>1. Marked /\ Current /\ file # NoFile
    BY <1>1, <1>8 DEF HistoryInv, Current, Named
  <2> QED BY <1>1, <1>s, <1>t, <2>1 DEF Marked
<1>9. ASSUME ~overlapped', stops' = 0 PROVE ~overtaken' /\ KnowsFile'
  <2>1. ~overtaken' /\ ~overtaken /\ KnowsFile /\ OneByOne /\ Current
    BY <1>1, <1>9 DEF HistoryInv
  <2>2. \A q \in Jobs : worker[q] \notin Busy
    BY <1>1, <1>t, <2>1 DEF KnowsFile, Submitting
  <2>3. \A q \in Requests : step'[q] \in {"idle", "done", "mark", "cli_mark"}
    BY <1>1, <1>s, <1>t, <2>1 DEF OneByOne, Submitting
  <2>4. file # NoFile /\ file.job = r /\ file.status = "pending"
    BY <1>1, <2>1 DEF Current, Named
  <2>5. \A q \in Jobs : worker'[q] \in Busy => q = r /\ worker'[q] = "launched"
    BY <1>1, <1>t, <2>2
  <2> QED BY <1>1, <2>1, <2>3, <2>4, <2>5 DEF KnowsFile, Ended
<1> QED BY <1>5, <1>6, <1>7, <1>8, <1>9 DEF HistoryInv

\* A failed submission takes back what the request has written.
LEMMA SubmitFailsHistory ==
    ASSUME Inv, HistoryInv, NEW r \in Jobs, SubmitFails(r)
    PROVE  HistoryInv'
<1>1. /\ UNCHANGED <<proposal, worker, copy, srv, todo, hand, blocked, deaths, stops, overlapped, owed,
                     raised>>
      /\ Submitting(r) /\ job' = [job EXCEPT ![r] = "failed"]
      /\ step' = [step EXCEPT ![r] = "done"] /\ seen' = [seen EXCEPT ![r] = NoFile]
  BY DEF SubmitFails, Return, startup, bounds
<1>2. \/ /\ step[r] \in {"submit_new", "cli_submit"} /\ file' = NoFile
         /\ ~overtaken' => ~overtaken /\ file = NewDecision("pending", r)
         /\ ~overtaken /\ file = NewDecision("pending", r) => ~overtaken'
      \/ /\ step[r] = "submit_again" /\ file' = seen[r]
         /\ ~overtaken' => ~overtaken /\ file = Retried(seen[r], r)
         /\ ~overtaken /\ file = Retried(seen[r], r) => ~overtaken'
  BY Overtakes DEF SubmitFails, Inv, TypeOK
<1>t. /\ step \in [Requests -> Steps] /\ r \in Requests /\ Jobs \subseteq Requests
      /\ job \in [Jobs -> JobStatus] /\ worker \in [Jobs -> Busy \cup {"none", "gone", "dead"}]
      /\ seen \in [Requests -> Decision \cup {NoFile}]
  BY DEF Inv, TypeOK, Requests
<1>j. job[r] = "none" /\ worker[r] = "none"
  BY <1>1 DEF Inv, JobAgrees, Submitting
<1>s. step'[r] = "done" /\ \A q \in Requests : q # r => step'[q] = step[q] /\ seen'[q] = seen[q]
  BY <1>1, <1>t
<1>r. step[r] = "submit_again" =>
         /\ seen[r] # NoFile /\ seen[r] \in Decision /\ CanRetry(seen[r])
         /\ seen[r].job \in Jobs /\ job[seen[r].job] = seen[r].status
         /\ Retried(seen[r], r).history = seen[r].history \cup ({seen[r].job} \ {NoJob})
  <2> SUFFICES ASSUME step[r] = "submit_again"
               PROVE  /\ seen[r] # NoFile /\ seen[r] \in Decision /\ CanRetry(seen[r])
                      /\ seen[r].job \in Jobs /\ job[seen[r].job] = seen[r].status
                      /\ Retried(seen[r], r).history =
                             seen[r].history \cup ({seen[r].job} \ {NoJob})
    OBVIOUS
  <2>1. seen[r] # NoFile /\ seen[r] \in Decision /\ CanRetry(seen[r])
    BY <1>t DEF HistoryInv, RetryAgrees
  <2>2. seen[r].job \in Jobs /\ job[seen[r].job] = seen[r].status
    BY <1>t, <2>1 DEF Inv, Held, Truthful, CanRetry, Ended
  <2> QED BY <2>1, <2>2 DEF Retried, Decision
<1>5. RetryAgrees'
  BY <1>s DEF HistoryInv, RetryAgrees
<1>6. ASSUME ~overtaken' PROVE Current'
  <2>1. Current
    BY <1>2, <1>6 DEF HistoryInv
  <2>2. file # NoFile /\ file.job = r
    BY <1>1, <2>1 DEF Current, Named
  <2>3. \A q \in Jobs : ~Submitting(q)'
    BY <1>s, <1>t, <2>1, <2>2 DEF Submitting, Current, Named
  <2>4. \A q \in Jobs : worker[q] # "none" => q \in file.history /\ job[q] # "none"
    BY <1>j, <2>1, <2>2 DEF Current, Named
  <2>5. \A q \in Jobs : job'[q] \notin Active
    BY <1>1, <1>t, <2>1, <2>2 DEF Current, Named, Active
  <2>6. CASE step[r] \in {"submit_new", "cli_submit"}
    <3>1. file' = NoFile /\ file.history = {}
      BY <1>2, <1>6, <2>6 DEF NewDecision
    <3>2. Named'
      BY <1>1, <2>3, <2>4, <2>5, <3>1 DEF Named
    <3>3. \A q \in Jobs : Settled(q) => Settled(q)'
      BY <1>1, <1>j, <1>t, <3>1 DEF Settled, Names
    <3>4. EndsSettled' /\ OwedSettled'
      BY <1>1, <1>j, <1>t, <2>1, <3>3 DEF Current, EndsSettled, OwedSettled, Inv, TypeOK
    <3> QED BY <3>1, <3>2, <3>4 DEF Current, Backed
  <2>7. CASE step[r] = "submit_again"
    <3>1. file' = seen[r] /\ file.history = seen[r].history \cup ({seen[r].job} \ {NoJob})
      BY <1>2, <1>6, <1>r, <2>7
    <3>2. \A q \in Jobs : worker'[q] # "none" => job'[q] # "none"
      BY <1>1, <1>j, <1>t, <2>4
    <3>3. Named'
      BY <1>1, <1>r, <2>3, <2>4, <2>5, <2>7, <3>1, <3>2 DEF Named
    <3>4. \A q \in Jobs : Settled(q) => Settled(q)'
      BY <1>1, <1>j, <1>t, <1>r, <2>7, <3>1 DEF Settled, Names
    <3>5. EndsSettled' /\ OwedSettled'
      BY <1>1, <1>j, <1>t, <2>1, <3>4 DEF Current, EndsSettled, OwedSettled, Inv, TypeOK
    <3>6. Backed'
      BY <1>r, <2>7, <3>1 DEF Backed, CanRetry
    <3> QED BY <3>3, <3>5, <3>6 DEF Current
  <2> QED BY <1>2, <2>6, <2>7
<1>7. ~overlapped' => OneByOne'
  BY <1>1, <1>s DEF HistoryInv, OneByOne, Submitting
<1>8. ASSUME ~overtaken', ~overlapped' PROVE Marked'
  <2>1. Marked /\ OneByOne
    BY <1>1, <1>2, <1>8 DEF HistoryInv
  <2>2. \A q \in Requests : step'[q] \in {"idle", "done"}
    BY <1>1, <1>s, <2>1, <1>t DEF OneByOne, Submitting
  <2>3. proposal' = "decided" => file' # NoFile
    BY <1>1, <1>2, <1>r, <2>1 DEF Marked
  <2> QED BY <1>t, <2>2, <2>3 DEF Marked
<1>9. ASSUME ~overlapped', stops' = 0 PROVE ~overtaken' /\ KnowsFile'
  <2>1. ~overtaken /\ KnowsFile /\ OneByOne
    BY <1>1, <1>9 DEF HistoryInv
  <2>2. \A q \in Jobs : worker[q] \notin Busy
    BY <1>1, <1>t, <2>1 DEF KnowsFile, Submitting
  <2>3. \A q \in Requests : step'[q] \in {"idle", "done"}
    BY <1>1, <1>s, <1>t, <2>1 DEF OneByOne, Submitting
  <2>4. ~overtaken'
    BY <1>2, <1>t, <2>1 DEF KnowsFile
  <2> QED BY <1>1, <2>1, <2>2, <2>3, <2>4 DEF KnowsFile, Busy
<1> QED BY <1>5, <1>6, <1>7, <1>8, <1>9 DEF HistoryInv

\* The other ends of a request.
LEMMA EndHistory ==
    ASSUME Inv, HistoryInv, NEW r \in Requests,
           (r \in Jobs /\ (SubmitRaises(r) \/ MarkDecided(r) \/ Interrupt(r))) \/ RefuseForm(r)
    PROVE  HistoryInv'
<1>1. /\ UNCHANGED <<file, job, worker, copy, srv, todo, hand, blocked, stops, overtaken, overlapped,
                     owed>>
      /\ step[r] # "idle" /\ step' = [step EXCEPT ![r] = "done"] /\ seen' = [seen EXCEPT ![r] = NoFile]
  BY DEF SubmitRaises, MarkDecided, Interrupt, RefuseForm, Return, Submitting, startup, bounds,
         history
<1>2. /\ \/ proposal' = proposal
         \/ proposal' = "decided" /\ r \in Jobs /\ step[r] \in {"mark", "cli_mark"}
      /\ ~raised' /\ deaths' = 0 => ~raised /\ deaths = 0 /\ ~Submitting(r)
  BY DEF SubmitRaises, MarkDecided, Interrupt, RefuseForm, Submitting, bounds, history, Inv,
         TypeOK
<1>t. /\ step \in [Requests -> Steps] /\ Jobs \subseteq Requests
      /\ seen \in [Requests -> Decision \cup {NoFile}]
  BY DEF Inv, TypeOK, Requests
<1>s. step'[r] = "done" /\ \A q \in Requests : q # r => step'[q] = step[q] /\ seen'[q] = seen[q]
  BY <1>1, <1>t
<1>5. RetryAgrees'
  BY <1>s DEF HistoryInv, RetryAgrees
<1>6. ASSUME ~overtaken' PROVE Current'
  <2>1. \A q \in Jobs : Submitting(q)' => Submitting(q)
    BY <1>s, <1>t DEF Submitting
  <2>2. \A q \in Jobs : Submitting(q) /\ ~Submitting(r) => Submitting(q)'
    BY <1>s, <1>t DEF Submitting
  <2> QED BY <1>1, <1>2, <1>6, <2>1, <2>2, CurrentKept DEF HistoryInv
<1>7. ~overlapped' => OneByOne'
  BY <1>1, <1>s DEF HistoryInv, OneByOne
<1>8. ASSUME ~overtaken', ~overlapped' PROVE Marked'
  <2>1. Marked /\ OneByOne
    BY <1>1, <1>8 DEF HistoryInv
  <2>2. \A q \in Jobs : step'[q] \in {"submit_new", "cli_submit"} => proposal' = proposal
    BY <1>2, <1>s, <1>t, <2>1 DEF OneByOne
  <2> QED BY <1>1, <1>2, <1>s, <1>t, <2>1, <2>2 DEF Marked
<1>9. ASSUME ~overlapped', stops' = 0 PROVE ~overtaken' /\ KnowsFile'
  <2>1. ~overtaken /\ KnowsFile
    BY <1>1, <1>9 DEF HistoryInv
  <2> QED BY <1>1, <1>s, <2>1 DEF KnowsFile
<1> QED BY <1>5, <1>6, <1>7, <1>8, <1>9 DEF HistoryInv

\* Looking at a decided proposal marks it.
LEMMA ShowProposalHistory ==
    ASSUME Inv, HistoryInv, ShowProposal
    PROVE  HistoryInv'
<1>1. /\ UNCHANGED <<file, job, worker, copy, srv, todo, hand, blocked, stops, deaths, overtaken, owed,
                     raised, step, seen>>
      /\ file # NoFile
  BY DEF ShowProposal, request, startup, bounds
<1>2. ~overlapped' => ~overlapped /\ ~UnderWay
  <2>1. overlapped' = (overlapped \/ UnderWay)
    BY DEF ShowProposal
  <2> QED BY <2>1
<1>3. ~overtaken' => Current'
  BY <1>1, CurrentKept DEF HistoryInv, Submitting
<1>4. ASSUME ~overtaken', ~overlapped' PROVE Marked'
  <2>1. \A q \in Jobs : step'[q] \in {"idle", "done"}
    BY <1>1, <1>2, <1>4 DEF UnderWay, Requests
  <2> QED BY <1>1, <2>1 DEF Marked
<1>5. ~overlapped' => OneByOne'
  BY <1>1, <1>2 DEF HistoryInv, OneByOne
<1>6. ~overlapped' /\ stops' = 0 => ~overtaken' /\ KnowsFile'
  BY <1>1, <1>2 DEF HistoryInv, KnowsFile
<1> QED BY <1>1, <1>3, <1>4, <1>5, <1>6 DEF HistoryInv, RetryAgrees

\* The steps of a worker that touch no file.
LEMMA WorkHistory ==
    ASSUME Inv, HistoryInv, NEW r \in Jobs,
           \/ Claim(r) \/ ClaimRefused(r) \/ SeeCancelled(r) \/ Begin(r) \/ FailEarly(r)
           \/ EndRun(r) \/ Cancel(r) \/ Die(r)
    PROVE  HistoryInv'
<1>t. /\ job \in [Jobs -> JobStatus] /\ worker \in [Jobs -> Busy \cup {"none", "gone", "dead"}]
      /\ deaths \in Nat /\ r # Server
  BY DecisionsAssumption DEF Inv, TypeOK, Requests
<1>1. /\ UNCHANGED <<file, proposal, step, seen, srv, todo, hand, blocked, stops, overtaken, overlapped,
                     owed, raised>>
      /\ copy' \in {copy, [copy EXCEPT ![r] = NoFile]} /\ deaths' \in {deaths, deaths + 1}
  BY DEF Claim, ClaimRefused, SeeCancelled, Begin, FailEarly, EndRun, Cancel, Die, Work, request,
         startup, bounds, history
<1>2. \A q \in Jobs : q # r => job'[q] = job[q] /\ worker'[q] = worker[q]
  BY <1>t DEF Claim, ClaimRefused, SeeCancelled, Begin, FailEarly, EndRun, Cancel, Die, Work
<1>3. /\ job[r] \in {"complete", "failed"} => job'[r] = job[r]
      /\ job'[r] \in Active => job[r] \in Active
      /\ job[r] # "none" => job'[r] # "none"
      /\ (worker'[r] = "none") <=> (worker[r] = "none")
      /\ worker'[r] \in Busy => worker[r] \in Busy
      /\ worker'[r] \notin {"show_run", "show_end"}
      /\ worker'[r] = "gone" /\ job'[r] \in {"complete", "failed"} =>
             worker[r] = "gone" /\ job'[r] = job[r]
      /\ worker[r] = "dead" => worker'[r] = "dead" /\ srv = "serving"
  <2> USE <1>t DEF Inv, JobAgrees, Busy, Ended, Active, Work
  <2>1. CASE Claim(r)
    BY <2>1 DEF Claim
  <2>2. CASE ClaimRefused(r)
    BY <2>2 DEF ClaimRefused
  <2>3. CASE SeeCancelled(r)
    BY <2>3 DEF SeeCancelled
  <2>4. CASE Begin(r)
    BY <2>4 DEF Begin
  <2>5. CASE FailEarly(r)
    BY <2>5 DEF FailEarly
  <2>6. CASE EndRun(r)
    BY <2>6 DEF EndRun
  <2>7. CASE Cancel(r)
    BY <2>7 DEF Cancel
  <2>8. CASE Die(r)
    <3>1. worker[r] \in Busy /\ worker'[r] = "dead" /\ job' = job
      BY <2>8 DEF Die
    <3> QED BY <3>1
  <2> QED BY <2>1, <2>2, <2>3, <2>4, <2>5, <2>6, <2>7, <2>8
<1>6. ASSUME ~overtaken' PROVE Current'
  <2>1. Current
    BY <1>1, <1>6 DEF HistoryInv
  <2>2. \A q \in Jobs : Submitting(q)' <=> Submitting(q)
    BY <1>1 DEF Submitting
  <2>3. Named'
    BY <1>1, <1>2, <1>3, <2>1, <2>2 DEF Current, Named
  <2>4. \A q \in Jobs : Settled(q) => Settled(q)'
    BY <1>1, <1>2, <1>3 DEF Settled, Names
  <2>5. EndsSettled'
    BY <1>1, <1>2, <1>3, <2>1, <2>4 DEF Current, EndsSettled
  <2>6. OwedSettled'
    BY <1>1, <1>2, <1>3, <2>1, <2>4 DEF Current, OwedSettled, Inv, TypeOK
  <2>7. Backed'
    BY <1>1, <1>2, <1>3, <1>t, <2>1, <2>2 DEF Current, Backed
  <2> QED BY <2>3, <2>5, <2>6, <2>7 DEF Current
<1>7. ~overlapped' => OneByOne'
  BY <1>1 DEF HistoryInv, OneByOne
<1>8. ~overtaken' /\ ~overlapped' => Marked'
  BY <1>1 DEF HistoryInv, Marked
<1>9. ASSUME ~overlapped', stops' = 0 PROVE ~overtaken' /\ KnowsFile'
  <2>1. ~overtaken /\ KnowsFile
    BY <1>1, <1>9 DEF HistoryInv
  <2>2. \A q \in Jobs : worker'[q] \in Busy => worker[q] \in Busy
    BY <1>2, <1>3
  <2>3. \A q \in Jobs : worker'[q] \in {"show_run", "show_end"} => q # r /\ copy'[q] = copy[q]
    BY <1>1, <1>3 DEF Inv, TypeOK
  <2>4. copy'[Server] = copy[Server]
    BY <1>1, <1>t DEF Inv, TypeOK
  <2> QED BY <1>1, <1>2, <2>1, <2>2, <2>3, <2>4 DEF KnowsFile
<1> QED BY <1>1, <1>6, <1>7, <1>8, <1>9 DEF HistoryInv, RetryAgrees

\* A projection reads, or finds another job named.
LEMMA ReadHistory ==
    ASSUME Inv, HistoryInv, NEW r \in Jobs, ReadAtStart(r) \/ ReadAtEnd(r)
    PROVE  HistoryInv'
<1>t. /\ worker \in [Jobs -> Busy \cup {"none", "gone", "dead"}]
      /\ copy \in [Jobs \cup {Server} -> Decision \cup {NoFile}] /\ r # Server
  BY DecisionsAssumption DEF Inv, TypeOK, Requests
<1>1. /\ UNCHANGED <<file, proposal, step, seen, job, srv, todo, hand, blocked, deaths, stops>>
      /\ UNCHANGED <<overtaken, overlapped, owed, raised>>
  BY DEF ReadAtStart, ReadAtEnd, ReadDecision, request, startup, bounds, history
<1>2. /\ worker[r] \in {"started", "ended"}
      /\ \/ /\ Names(file, r) /\ copy' = [copy EXCEPT ![r] = file]
            /\ \E w \in {"show_run", "show_end"} : worker' = [worker EXCEPT ![r] = w]
         \/ /\ ~Names(file, r) /\ copy' = copy
            /\ \E w \in {"run", "gone"} : worker' = [worker EXCEPT ![r] = w]
  BY DEF ReadAtStart, ReadAtEnd, ReadDecision
<1>3. \A q \in Jobs : q # r => worker'[q] = worker[q] /\ copy'[q] = copy[q]
  BY <1>t, <1>2
<1>4. /\ worker'[r] \in {"show_run", "show_end", "run", "gone"}
      /\ worker'[r] = "gone" => ~Names(file, r)
      /\ worker'[r] \in {"show_run", "show_end"} => copy'[r] = file
      /\ copy'[Server] = copy[Server]
  BY <1>t, <1>2
<1>6. ASSUME ~overtaken' PROVE Current'
  <2>1. Current
    BY <1>1, <1>6 DEF HistoryInv
  <2>2. \A q \in Jobs : Submitting(q)' <=> Submitting(q)
    BY <1>1 DEF Submitting
  <2>3. Named'
    BY <1>1, <1>2, <1>3, <2>1, <2>2 DEF Current, Named
  <2>4. \A q \in Jobs : Settled(q)' <=> Settled(q)
    BY <1>1 DEF Settled, Names
  <2>5. EndsSettled'
    BY <1>1, <1>3, <1>4, <2>1, <2>4 DEF Current, EndsSettled, Settled
  <2>6. OwedSettled'
    BY <1>1, <1>2, <1>3, <2>1, <2>4 DEF Current, OwedSettled, Inv, TypeOK
  <2>7. Backed'
    BY <1>1, <1>3, <1>4, <2>1, <2>2 DEF Current, Backed
  <2> QED BY <2>3, <2>5, <2>6, <2>7 DEF Current
<1>7. ~overlapped' => OneByOne'
  BY <1>1 DEF HistoryInv, OneByOne
<1>8. ~overtaken' /\ ~overlapped' => Marked'
  BY <1>1 DEF HistoryInv, Marked
<1>9. ASSUME ~overlapped', stops' = 0 PROVE ~overtaken' /\ KnowsFile'
  <2>1. ~overtaken /\ KnowsFile
    BY <1>1, <1>9 DEF HistoryInv
  <2>2. worker[r] \in Busy
    BY <1>2 DEF Busy
  <2>3. \A q \in Jobs : worker'[q] \in Busy => worker[q] \in Busy
    BY <1>3, <2>2
  <2> QED BY <1>1, <1>3, <1>4, <2>1, <2>3 DEF KnowsFile
<1> QED BY <1>1, <1>6, <1>7, <1>8, <1>9 DEF HistoryInv, RetryAgrees

\* A projection that names the job it is about settles every job that was settled.
LEMMA ProjectionSettles ==
    ASSUME NEW r \in Jobs, file' \in Decision, file'.job = r, file'.status = job[r], job' = job
    PROVE  /\ \A q \in Jobs : Settled(q) => Settled(q)'
           /\ job[r] \in {"complete", "failed"} => Settled(r)'
BY DEF Settled, Names

\* A projection writes: if its reading was current, the job has ended as it says.
LEMMA WriteHistory ==
    ASSUME Inv, HistoryInv, NEW r \in Jobs, ShowRun(r) \/ ShowEnd(r)
    PROVE  HistoryInv'
<1>t. /\ worker \in [Jobs -> Busy \cup {"none", "gone", "dead"}] /\ Jobs \subseteq Requests
      /\ copy \in [Jobs \cup {Server} -> Decision \cup {NoFile}] /\ r # Server
  BY DecisionsAssumption DEF Inv, TypeOK, Requests
<1>1. /\ UNCHANGED <<proposal, step, seen, job, srv, todo, hand, blocked, deaths, stops, overlapped,
                     owed, raised>>
      /\ copy' = [copy EXCEPT ![r] = NoFile] /\ file' = Projected(copy[r], job[r])
      /\ ~overtaken' => ~overtaken /\ file = copy[r]
      /\ ~overtaken /\ file = copy[r] => ~overtaken'
  BY Overtakes DEF ShowRun, ShowEnd, WriteDecision, request, startup, bounds, Inv, TypeOK
<1>2. \/ worker[r] = "show_run" /\ worker' = [worker EXCEPT ![r] = "run"] /\ job[r] = "running"
      \/ worker[r] = "show_end" /\ worker' = [worker EXCEPT ![r] = "gone"] /\ job[r] \in Ended
  BY DEF ShowRun, ShowEnd, WriteDecision, Inv, JobAgrees
<1>3. copy[r] \in Decision /\ copy[r] # NoFile /\ copy[r].job = r
  BY <1>t, <1>2 DEF Inv, JobAgrees, Names
<1>4. /\ file' \in Decision /\ file' # NoFile /\ file'.job = r /\ file'.status = job[r]
      /\ file'.history = copy[r].history
  BY <1>1, <1>2, <1>3, NoFileAssumption DEF Projected, Decision, Shown, Ended
<1>5. \A q \in Jobs : q # r => worker'[q] = worker[q] /\ copy'[q] = copy[q]
  BY <1>t, <1>1, <1>2
<1>w. worker'[r] \in {"run", "gone"} /\ worker[r] \in Busy
  BY <1>t, <1>2 DEF Busy
<1>6. ASSUME ~overtaken' PROVE Current'
  <2>1. Current /\ file = copy[r]
    BY <1>1, <1>6 DEF HistoryInv
  <2>2. \A q \in Jobs : ~Submitting(q)'
    BY <1>1, <1>2, <1>3, <2>1 DEF Submitting, Current, Named, Inv, JobAgrees
  <2>3. Named'
    BY <1>1, <1>2, <1>3, <1>4, <1>5, <2>1, <2>2 DEF Current, Named
  <2>4. \A q \in Jobs : Settled(q) => Settled(q)'
    BY <1>1, <1>4, ProjectionSettles
  <2>5. job[r] \in {"complete", "failed"} => Settled(r)'
    BY <1>1, <1>4, ProjectionSettles
  <2>6. EndsSettled'
    BY <1>1, <1>5, <2>1, <2>4, <2>5 DEF Current, EndsSettled
  <2>7. OwedSettled'
    BY <1>1, <1>2, <1>5, <2>1, <2>4 DEF Current, OwedSettled, Inv, TypeOK
  <2>8. Backed'
    BY <1>2, <1>4 DEF Backed, Ended
  <2> QED BY <2>3, <2>6, <2>7, <2>8 DEF Current
<1>7. ~overlapped' => OneByOne'
  BY <1>1 DEF HistoryInv, OneByOne
<1>8. ~overtaken' /\ ~overlapped' => Marked'
  BY <1>1, <1>4 DEF HistoryInv, Marked
<1>9. ASSUME ~overlapped', stops' = 0 PROVE ~overtaken' /\ KnowsFile'
  <2>1. ~overtaken /\ KnowsFile /\ file = copy[r]
    BY <1>1, <1>2, <1>9 DEF HistoryInv, KnowsFile
  <2>2. \A q \in Requests : step'[q] \in {"idle", "done", "mark", "cli_mark"}
    BY <1>1, <1>w, <2>1 DEF KnowsFile
  <2>3. \A q \in Jobs : q # r => worker'[q] \notin Busy
    BY <1>3, <1>5, <2>1 DEF KnowsFile
  <2>4. worker'[r] \in Busy => file'.status \notin Ended
    BY <1>t, <1>2, <1>4 DEF Busy, Ended
  <2>5. copy'[Server] = copy[Server] /\ ~overtaken'
    BY <1>1, <1>t, <2>1
  <2> QED BY <1>1, <1>4, <1>w, <2>1, <2>2, <2>3, <2>4, <2>5 DEF KnowsFile, Busy
<1> QED BY <1>1, <1>6, <1>7, <1>8, <1>9 DEF HistoryInv, RetryAgrees

\* A stop ends the requests of the server's handlers.
LEMMA StopHistory ==
    ASSUME Inv, HistoryInv, Stop
    PROVE  HistoryInv'
<1>1. /\ UNCHANGED <<file, proposal, job, worker, deaths, overtaken, overlapped, owed, raised>>
      /\ srv' = "down" /\ stops' # 0
      /\ \A q \in Requests : (step'[q] = step[q] /\ step[q] \in AtTerminal) \/ step'[q] = "done"
  BY DEF Stop, history, Inv, TypeOK
<1>t. Jobs \subseteq Requests
  BY DEF Requests
<1>2. RetryAgrees'
  BY <1>1 DEF RetryAgrees, AtTerminal
<1>3. ASSUME ~overtaken' PROVE Current'
  <2>1. Current
    BY <1>1, <1>3 DEF HistoryInv
  <2>2. \A q \in Jobs : Submitting(q)' => Submitting(q)
    BY <1>1, <1>t DEF Submitting
  <2> QED BY <1>1, <2>1, <2>2 DEF Current, Named, EndsSettled, OwedSettled, Backed, Settled, Names
<1>4. ~overlapped' => OneByOne'
  BY <1>1 DEF HistoryInv, OneByOne
<1>5. ~overtaken' /\ ~overlapped' => Marked'
  BY <1>1, <1>t DEF HistoryInv, Marked
<1> QED BY <1>1, <1>2, <1>3, <1>4, <1>5 DEF HistoryInv

\* A server that starts has been stopped before, and no request begins or ends while it does.
LEMMA StartupHistory ==
    ASSUME Inv, HistoryInv,
           \/ Start \/ BeginPass \/ ReadAtStartup \/ ShowAtStartup \/ Serve
           \/ \E r \in Jobs : Recover(r) \/ LookAt(r)
    PROVE  HistoryInv'
<1>t. /\ job \in [Jobs -> JobStatus] /\ Jobs \subseteq Requests /\ Nobody \notin Jobs
      /\ copy \in [Jobs \cup {Server} -> Decision \cup {NoFile}] /\ Server \notin Jobs
      /\ hand \in Jobs \cup {Nobody} /\ todo \subseteq Jobs /\ owed \subseteq Jobs
  BY DecisionsAssumption DEF Inv, TypeOK, Requests
<1>1. /\ UNCHANGED <<proposal, step, seen, worker, deaths, stops, overlapped, raised>>
      /\ srv # "serving"
  BY DEF Start, Recover, BeginPass, LookAt, ReadAtStartup, ShowAtStartup, Serve, request, bounds,
         history
<1>2. ~(~overlapped' /\ stops' = 0)
  BY <1>1 DEF HistoryInv, KnowsFile
<1>3. RetryAgrees' /\ (~overlapped' => OneByOne')
  BY <1>1 DEF HistoryInv, RetryAgrees, OneByOne
<1>4. \A q \in Jobs : Submitting(q)' <=> Submitting(q)
  BY <1>1 DEF Submitting
<1>5. CASE Start \/ BeginPass \/ ReadAtStartup \/ Serve
  <2>1. UNCHANGED <<file, job, overtaken>>
    BY <1>5 DEF Start, BeginPass, ReadAtStartup, Serve, history
  <2>2. \A q \in Jobs : Settled(q)' <=> Settled(q)
    BY <2>1 DEF Settled, Names
  <2>3. ASSUME Current PROVE OwedSettled'
    <3>s. CASE Start
      BY <3>s DEF Start, OwedSettled
    <3>1. CASE BeginPass
      <4>1. /\ srv' = "starting" /\ todo' = {r \in Jobs : job[r] # "none"}
            /\ owed' = {r \in Jobs : worker[r] = "dead" /\ job[r] \notin {"queued", "cancelled"}}
        BY <3>1 DEF BeginPass
      <4>2. \A r \in Jobs : worker[r] = "dead" => job[r] # "none"
        BY <2>3 DEF Current, Named
      <4> QED BY <1>1, <2>1, <4>1, <4>2 DEF OwedSettled
    <3>2. CASE ReadAtStartup
      <4>1. /\ srv = "starting" /\ hand \in Jobs /\ UNCHANGED <<srv, todo, blocked, owed>>
            /\ hand' = hand \/ (hand' = Nobody /\ ~Names(file, hand))
        BY <1>t, <3>2 DEF ReadAtStartup, history
      <4>2. ~Names(file, hand) => Settled(hand)
        BY <1>t, <4>1 DEF Inv, HandAgrees, Settled
      <4>3. ASSUME NEW q \in owed, hand = q
            PROVE  hand' = q \/ Settled(q)
        BY <4>1, <4>2, <4>3
      <4>4. srv = "starting" /\ srv' = srv /\ todo' = todo /\ owed' = owed /\ blocked' = blocked
        BY <4>1
      <4>5. OwedSettled
        BY <2>3 DEF Current
      <4>6. \A q \in Jobs : job'[q] = job[q] /\ worker'[q] = worker[q]
        BY <1>1, <2>1
      <4> QED BY <1>t, <2>2, <4>3, <4>4, <4>5, <4>6 DEF OwedSettled
    <3>3. CASE Serve
      <4>1. /\ srv = "starting" /\ srv' = "serving" /\ todo = {} /\ hand = Nobody
            /\ UNCHANGED <<owed, blocked>>
        BY <3>3 DEF Serve, history
      <4> QED BY <1>t, <2>2, <2>3, <4>1 DEF Current, OwedSettled
    <3> QED BY <1>5, <3>s, <3>1, <3>2, <3>3
  <2>4. Current => Named' /\ EndsSettled' /\ Backed'
    BY <1>1, <1>4, <2>1, <2>2 DEF Current, Named, EndsSettled, Backed
  <2>5. ~overtaken' /\ ~overlapped' => Marked'
    BY <1>1, <2>1 DEF HistoryInv, Marked
  <2> QED BY <1>2, <1>3, <2>1, <2>3, <2>4, <2>5 DEF HistoryInv, Current
<1>6. ASSUME NEW r \in Jobs, LookAt(r) PROVE HistoryInv'
  <2>1. /\ UNCHANGED <<file, srv, overtaken, owed, blocked>> /\ srv = "starting" /\ hand = Nobody
        /\ todo' = todo \ {r} /\ hand' \in {hand, r}
    BY <1>6 DEF LookAt, history
  <2>2. /\ \A q \in Jobs : q # r => job'[q] = job[q]
        /\ \/ job'[r] = job[r]
           \/ job'[r] = "failed" /\ worker[r] = "dead" /\ job[r] \in {"waiting", "running"}
        /\ r \notin blocked /\ job[r] \notin {"none", "queued", "cancelled"} /\ worker[r] = "dead"
             => hand' = r
        /\ r \notin blocked /\ job[r] \in {"complete", "failed"} => hand' = r
    BY <1>t, <1>6 DEF LookAt, JobStatus, Ended
  <2>3. \A q \in Jobs : Settled(q) => Settled(q)'
    BY <2>1, <2>2 DEF Settled, Names
  <2>4. ASSUME Current PROVE Current'
    <3>1. Named'
      BY <1>1, <1>4, <2>1, <2>2, <2>4 DEF Current, Named, Active
    <3>2. EndsSettled'
      BY <1>1, <2>2, <2>3, <2>4 DEF Current, EndsSettled
    <3>3. ASSUME NEW q \in owed \ blocked, q # r
          PROVE  \/ /\ q \in todo' /\ worker'[q] = "dead"
                    /\ job'[q] \notin {"none", "queued", "cancelled"}
                 \/ Settled(q)'
      BY <1>1, <1>t, <2>1, <2>2, <2>3, <2>4, <3>3 DEF Current, OwedSettled
    <3>4. r \in owed \ blocked => hand' = r
      BY <1>t, <2>1, <2>2, <2>4 DEF Current, OwedSettled, Settled
    <3>5. OwedSettled'
      BY <2>1, <3>3, <3>4 DEF OwedSettled
    <3>6. Backed'
      BY <1>1, <1>4, <2>1, <2>4 DEF Current, Backed
    <3> QED BY <3>1, <3>2, <3>5, <3>6 DEF Current
  <2>5. ~overtaken' /\ ~overlapped' => Marked'
    BY <1>1, <2>1 DEF HistoryInv, Marked
  <2> QED BY <1>2, <1>3, <2>1, <2>4, <2>5 DEF HistoryInv
<1>7. CASE ShowAtStartup
  <2>1. /\ UNCHANGED <<job, srv, todo, owed, blocked>> /\ hand \in Jobs /\ hand' = Nobody
        /\ file' = Projected(copy[Server], job[hand])
        /\ ~overtaken' => ~overtaken /\ file = copy[Server]
    BY <1>t, <1>7, Overtakes DEF ShowAtStartup, Inv, TypeOK
  <2>2. /\ copy[Server] \in Decision /\ copy[Server] # NoFile /\ copy[Server].job = hand
        /\ job[hand] \in {"complete", "failed"}
    BY <1>t, <1>7, <2>1 DEF ShowAtStartup, Inv, HandAgrees
  <2>3. /\ file' \in Decision /\ file' # NoFile /\ file'.job = hand /\ file'.status = job[hand]
        /\ file'.history = copy[Server].history
    BY <2>1, <2>2, NoFileAssumption DEF Projected, Decision, Shown
  <2>h. PICK h \in Jobs : h = hand
    BY <2>1
  <2>4. ASSUME Current, file = copy[Server] PROVE Current'
    <3>1. \A q \in Jobs : ~Submitting(q)'
      BY <1>t, <1>4, <2>2, <2>4 DEF Submitting, Current, Named, Inv, JobAgrees
    <3>2. Named'
      BY <1>1, <2>1, <2>2, <2>3, <2>4, <3>1 DEF Current, Named
    <3>3. (\A q \in Jobs : Settled(q) => Settled(q)') /\ Settled(h)'
      BY <2>1, <2>2, <2>3, <2>h, ProjectionSettles
    <3>4. EndsSettled' /\ OwedSettled'
      BY <1>1, <1>t, <2>1, <2>4, <2>h, <3>3 DEF Current, EndsSettled, OwedSettled
    <3>5. Backed'
      BY <2>2, <2>3 DEF Backed
    <3> QED BY <3>2, <3>4, <3>5 DEF Current
  <2>5. ~overtaken' /\ ~overlapped' => Marked'
    BY <1>1, <2>1, <2>3 DEF HistoryInv, Marked
  <2> QED BY <1>2, <1>3, <2>1, <2>4, <2>5 DEF HistoryInv
<1>8. ASSUME NEW r \in Jobs, Recover(r) PROVE HistoryInv'
  <2>1. /\ UNCHANGED <<file, srv, overtaken>> /\ srv = "recovering"
        /\ job[r] = "running" /\ worker[r] = "dead"
    BY <1>8 DEF Recover, startup, history
  <2>2. \A q \in Jobs : job'[q] = job[q] \/ (q = r /\ job'[q] \in {"complete", "failed"})
    BY <1>t, <1>8 DEF Recover
  <2>3. ASSUME Current PROVE Current'
    <3>1. Named'
      BY <1>1, <1>4, <2>1, <2>2, <2>3 DEF Current, Named, Active
    <3>2. EndsSettled'
      BY <1>1, <2>1, <2>2, <2>3 DEF Current, EndsSettled, Settled, Names
    <3>3. OwedSettled' /\ Backed'
      BY <1>1, <1>4, <2>1, <2>3 DEF Current, OwedSettled, Backed
    <3> QED BY <3>1, <3>2, <3>3 DEF Current
  <2>4. ~overtaken' /\ ~overlapped' => Marked'
    BY <1>1, <2>1 DEF HistoryInv, Marked
  <2> QED BY <1>2, <1>3, <2>1, <2>3, <2>4 DEF HistoryInv
<1> QED BY <1>5, <1>6, <1>7, <1>8

----------------------------------------------------------------------------
\* The strengthening holds in every reachable state.
THEOREM HistoryHolds == Spec => [](Inv /\ HistoryInv)
<1>1. Inv /\ HistoryInv /\ [Next]_vars => HistoryInv'
  <2>1. ASSUME Inv, HistoryInv, UNCHANGED vars PROVE HistoryInv'
    <3>1. RetryAgrees' /\ (~overlapped' => OneByOne')
      BY <2>1 DEF HistoryInv, RetryAgrees, OneByOne, vars, request, history
    <3>2. ~overtaken' => Current'
      BY <2>1, CurrentKept DEF HistoryInv, Submitting, vars, request, startup, bounds, history
    <3>3. ~overtaken' /\ ~overlapped' => Marked'
      BY <2>1 DEF HistoryInv, Marked, vars, request, history
    <3>4. ~overlapped' /\ stops' = 0 => ~overtaken' /\ KnowsFile'
      BY <2>1 DEF HistoryInv, KnowsFile, vars, request, startup, bounds, history
    <3> QED
      BY <3>1, <3>2, <3>3, <3>4 DEF HistoryInv
  <2>2. ASSUME Inv, HistoryInv, Next PROVE HistoryInv'
    <3>1. ASSUME NEW r \in Jobs,
                 ShowForm(r) \/ AskAtTerminal(r) \/ AskRetry(r)
          PROVE  HistoryInv'
      BY <2>2, <3>1, OpenHistory DEF Requests
    <3>2. ASSUME NEW r \in Jobs, Handle(r) \/ Interrupt(r) PROVE HistoryInv'
      BY <2>2, <3>2, DecideHistory, RetryHistory, SubmitSucceedsHistory, SubmitFailsHistory,
         EndHistory DEF Handle, Requests
    <3>3. ASSUME NEW r \in Jobs, Run(r) \/ Cancel(r) \/ Die(r) PROVE HistoryInv'
      BY <2>2, <3>3, WorkHistory, ReadHistory, WriteHistory DEF Run
    <3>4. ASSUME NEW r \in Verdicts, AskVerify(r) \/ Verify(r) PROVE HistoryInv'
      BY <2>2, <3>4, OpenHistory, VerifyHistory DEF Requests
    <3>5. ASSUME NEW r \in Requests, RefuseForm(r) PROVE HistoryInv'
      BY <2>2, <3>5, EndHistory
    <3>6. CASE ShowProposal \/ Stop \/ Startup
      BY <2>2, <3>6, ShowProposalHistory, StopHistory, StartupHistory DEF Startup
    <3>7. CASE Quiet
      BY <2>1, <2>2, <3>7 DEF Quiet
    <3> QED
      BY <2>2, <3>1, <3>2, <3>3, <3>4, <3>5, <3>6, <3>7 DEF Next
  <2> QED
    BY <2>1, <2>2
<1>2. Init => Inv /\ HistoryInv
  BY InitInv, HistoryStarts
<1> QED
  BY InvHolds, <1>1, <1>2, PTL DEF Spec

\* One user who waits for each answer, decides once and verifies only what has ended
\* overwrites nothing with his requests, the workers and the command, as long as the
\* server is not stopped.
THEOREM OverwritesNeedOverlap == Spec => []LostOnlyByOverlap
<1>1. Inv /\ HistoryInv => LostOnlyByOverlap
  BY DEF Inv, TypeOK, HistoryInv, LostOnlyByOverlap
<1> QED
  BY <1>1, HistoryHolds, PTL

\* Retry starts no second run of a decision beside one that is under way.
THEOREM OneRunAtATime == Spec => []OneActive
<1>1. HistoryInv => OneActive
  <2> SUFFICES ASSUME HistoryInv, ~overtaken, NEW q \in Jobs, NEW r \in Jobs,
                      job[q] \in Active, job[r] \in Active
               PROVE  q = r
    BY DEF OneActive
  <2> QED
    BY DEF HistoryInv, Current, Named
<1> QED
  BY <1>1, HistoryHolds, PTL

\* Decide, retry, verify and the projections lose the name of no job that was launched.
THEOREM JobsAreRemembered == Spec => []NoJobForgotten
<1>1. HistoryInv => NoJobForgotten
  BY DEF HistoryInv, Current, Named, NoJobForgotten
<1> QED
  BY <1>1, HistoryHolds, PTL

\* Decide marks the proposal after the submission, when the decision will stay.
THEOREM MarkedIsDecided == Spec => []DecidedHasDecision
<1>1. HistoryInv => DecidedHasDecision
  BY DEF HistoryInv, Marked, DecidedHasDecision
<1> QED
  BY <1>1, HistoryHolds, PTL

\* What decide and retry do when a submission fails leaves no decision with a run that
\* was never launched.
THEOREM FailuresAreUndone == Spec => []FailedSubmissionIsUndone
<1>1. Inv /\ HistoryInv => FailedSubmissionIsUndone
  <2> SUFFICES ASSUME Inv, HistoryInv, ~raised, ~overtaken, ~UnderWay, stops = 0, deaths = 0,
                      file # NoFile, file.status = "pending"
               PROVE  worker[file.job] # "none"
    BY DEF FailedSubmissionIsUndone, NoPhantomRun, ClaimIsBacked
  <2>1. file.job \in Jobs /\ (Submitting(file.job) \/ worker[file.job] # "none")
    BY DEF HistoryInv, Current, Backed
  <2>2. ~Submitting(file.job)
    BY <2>1 DEF UnderWay, Submitting, Requests
  <2> QED
    BY <2>1, <2>2
<1> QED
  BY <1>1, HistoryHolds, PTL

\* A worker's last projection leaves the end of its run in the decision that names it.
THEOREM EndsAreShown == Spec => []EndIsShown
<1>1. HistoryInv => EndIsShown
  BY DEF HistoryInv, Current, EndsSettled, Settled, EndIsShown, Shows
<1> QED
  BY <1>1, HistoryHolds, PTL

\* A startup pass shows the end of every run that a dead worker left unshown, unless recovery
\* has set its job aside.
THEOREM StartupShowsEnds == Spec => []StartupShows
<1>1. Inv /\ HistoryInv => StartupShows
  <2> SUFFICES ASSUME Inv, HistoryInv, srv = "serving", ~overtaken,
                      NEW r \in owed \ blocked
               PROVE  Names(file, r) => file.status = job[r]
    BY DEF StartupShows, Shows
  <2> QED
    BY DEF HistoryInv, Current, OwedSettled, Settled
<1> QED
  BY <1>1, HistoryHolds, PTL

----------------------------------------------------------------------------
(* The jobs of the decisions are those of the records: what this module     *)
(* keeps of a record goes along the same transitions as the record that     *)
(* JobLifecycle and MemoryPublication write.                                *)

StatusOf(s) == CASE s = "none" -> "absent" [] s = "waiting" -> "waiting_for_memory" [] OTHER -> s
RecordStatus == [r \in Jobs |-> StatusOf(job[r])]

Records == INSTANCE JobRecord WITH status <- RecordStatus

\* Submissions, their failures, workers, cancellations and the startup pass move the record
\* of one job at a time along VALID_TRANSITIONS.
RecordsFollow == Records!Spec

\* A step that gives one job another status gives its record the name of it.
LEMMA StatusWritten ==
    ASSUME NEW r \in Jobs, NEW s, TypeOK, job' = [job EXCEPT ![r] = s]
    PROVE  /\ RecordStatus' = [RecordStatus EXCEPT ![r] = StatusOf(s)]
           /\ s = job[r] => RecordStatus' = RecordStatus
BY DEF TypeOK, RecordStatus

\* What a step does to the records.
RecordStep == UNCHANGED RecordStatus \/ Records!Next

\* The moves that the steps make.
Moves ==
    {<<"queued", "waiting">>, <<"queued", "cancelled">>, <<"waiting", "cancelled">>,
     <<"waiting", "running">>, <<"waiting", "failed">>, <<"running", "complete">>,
     <<"running", "failed">>}

\* Each is a valid one.
LEMMA MoveFollows ==
    ASSUME TypeOK, NEW r \in Jobs, NEW s, job' = [job EXCEPT ![r] = s],
           s = job[r] \/ <<job[r], s>> \in Moves
    PROVE  RecordStep
<1>1. CASE s = job[r]
  BY <1>1, StatusWritten DEF RecordStep
<1>2. CASE <<job[r], s>> \in Moves
  <2>1. StatusOf(s) \in Records!ValidTransitions[StatusOf(job[r])]
    BY <1>2 DEF Moves, StatusOf, Records!ValidTransitions
  <2>2. RecordStatus[r] = StatusOf(job[r])
    BY DEF RecordStatus
  <2>3. Records!Move(r)
    BY <2>1, <2>2, StatusWritten DEF Records!Move, Records!Write
  <2> QED
    BY <2>3 DEF Records!Next, RecordStep
<1> QED
  BY <1>1, <1>2

\* A submission makes the record of its job, as queued or as failed.
LEMMA SubmissionFollows ==
    ASSUME Inv, NEW r \in Jobs, SubmitSucceeds(r) \/ SubmitFails(r)
    PROVE  RecordStep
<1>1. job[r] = "none" /\ TypeOK
  BY DEF Inv, JobAgrees, SubmitSucceeds, SubmitFails, Submitting
<1>2. RecordStatus[r] = "absent"
  BY <1>1 DEF RecordStatus, StatusOf
<1>3. PICK s \in {"queued", "failed"} : job' = [job EXCEPT ![r] = s]
  BY DEF SubmitSucceeds, SubmitFails
<1>4. RecordStatus' = [RecordStatus EXCEPT ![r] = s]
  BY <1>1, <1>3, StatusWritten DEF StatusOf
<1>5. Records!Create(r) \/ Records!LaunchError(r)
  BY <1>2, <1>4 DEF Records!Create, Records!LaunchError, Records!Write
<1> QED
  BY <1>5 DEF Records!Next, RecordStep

\* A worker and a user keep to the moves.
LEMMA WorkFollows ==
    ASSUME Inv, NEW r \in Jobs,
           Claim(r) \/ ClaimRefused(r) \/ SeeCancelled(r) \/ Begin(r) \/ FailEarly(r)
             \/ EndRun(r) \/ Cancel(r)
    PROVE  RecordStep
<1>1. TypeOK /\ (worker[r] = "run" => job[r] = "running")
  BY DEF Inv, JobAgrees
<1>2. PICK s \in JobStatus : /\ job' = [job EXCEPT ![r] = s]
                             /\ s = job[r] \/ <<job[r], s>> \in Moves
  <2> USE <1>1 DEF TypeOK, JobStatus, Moves, Work
  <2>1. CASE Claim(r) \/ ClaimRefused(r) \/ SeeCancelled(r)
    BY <2>1 DEF Claim, ClaimRefused, SeeCancelled
  <2>2. CASE Begin(r) \/ FailEarly(r)
    BY <2>2 DEF Begin, FailEarly
  <2>3. CASE EndRun(r) \/ Cancel(r)
    BY <2>3 DEF EndRun, Cancel
  <2> QED
    BY <2>1, <2>2, <2>3
<1> QED
  BY <1>1, <1>2, MoveFollows

\* Recovery ends a job that ran and the startup pass fails a claimed one; the rest of a start
\* changes no record.
LEMMA StartupFollows ==
    ASSUME Inv, Startup
    PROVE  RecordStep
<1>1. TypeOK
  BY DEF Inv
<1>2. ASSUME NEW r \in Jobs, LookAt(r), job' # job
      PROVE  RecordStep
  <2>1. job' = [job EXCEPT ![r] = "failed"] /\ <<job[r], "failed">> \in Moves
    BY <1>2 DEF LookAt, Moves
  <2> QED
    BY <1>1, <2>1, MoveFollows
<1>3. ASSUME NEW r \in Jobs, Recover(r)
      PROVE  RecordStep
  <2>1. PICK s \in {"complete", "failed"} : job' = [job EXCEPT ![r] = s]
    BY <1>3 DEF Recover
  <2>2. <<job[r], s>> \in Moves
    BY <1>3 DEF Recover, Moves
  <2> QED
    BY <1>1, <2>1, <2>2, MoveFollows
<1>4. CASE UNCHANGED job
  BY <1>4 DEF RecordStep, RecordStatus
<1> QED
  BY <1>2, <1>3, <1>4 DEF Startup, Start, BeginPass, ReadAtStartup, ShowAtStartup, Serve

\* What the decisions see of the jobs is a life of their records.
THEOREM DecisionsFollowTheRecords == Spec => RecordsFollow
<1>1. Init => Records!Init
  BY DEF Init, Records!Init, RecordStatus, StatusOf
<1>2. Inv /\ [Next]_vars => [Records!Next]_RecordStatus
  <2> SUFFICES ASSUME Inv, [Next]_vars
               PROVE  RecordStep
    BY DEF RecordStep
  <2>1. CASE UNCHANGED job
    BY <2>1 DEF RecordStep, RecordStatus
  <2>2. ASSUME NEW r \in Jobs, Handle(r) \/ Run(r) \/ Cancel(r), job' # job
        PROVE  RecordStep
    <3>1. CASE SubmitSucceeds(r) \/ SubmitFails(r)
      BY <3>1, SubmissionFollows
    <3>2. CASE \/ Claim(r) \/ ClaimRefused(r) \/ SeeCancelled(r) \/ Begin(r) \/ FailEarly(r)
               \/ EndRun(r) \/ Cancel(r)
      BY <3>2, WorkFollows
    <3> QED
      BY <2>2, <3>1, <3>2
         DEF Handle, Run, Decide, DecideAtTerminal, WriteNew, Retry, SubmitRaises, MarkDecided,
             ReadAtStart, ShowRun, ReadAtEnd, ShowEnd, ReadDecision, WriteDecision
  <2>3. CASE Startup
    BY <2>3, StartupFollows
  <2> QED
    BY <2>1, <2>2, <2>3
       DEF Next, Quiet, vars, ShowForm, AskAtTerminal, AskRetry, Open, Die, Interrupt, AskVerify,
           Verify, RefuseForm, ShowProposal, Stop
<1> QED
  BY <1>1, <1>2, InvHolds, PTL DEF Spec, RecordsFollow, Records!Spec
=============================================================================
