----------------------------- MODULE Decisions -----------------------------
(***************************************************************************)
(* One decision: the markdown file that records what was decided on a       *)
(* proposal and how its execution went.  Four writers share the file and no *)
(* lock protects it: the web handlers decide, retry and verify (app.py) and *)
(* the command decide (cli.py), the workers of its jobs and the startup     *)
(* pass (project_decision).  Each writes the whole file, from what it has   *)
(* read of it earlier or from nothing.                                      *)
(*                                                                         *)
(* The handlers are coroutines on one event loop: they can be overtaken     *)
(* where they await the form, and nowhere else; workers and commands are    *)
(* processes of their own and can be overtaken anywhere.  A request that    *)
(* submits a job makes the job's id, so a job is named by its request.  Of  *)
(* a job this module keeps the status of its record and where its worker is.*)
(***************************************************************************)
EXTENDS Naturals, FiniteSets

CONSTANTS
    Jobs,        \* the requests to decide or retry, each with the job it submits
    Verdicts,    \* the requests to verify
    Nobody, NoFile, NoJob, Server,
    MaxDeaths,   \* bound on deaths of workers and commands
    MaxStops     \* bound on stops of the server

Requests == Jobs \cup Verdicts

ASSUME DecisionsAssumption ==
    /\ Jobs \cap Verdicts = {}
    /\ {Nobody, NoJob, Server} \cap Requests = {}
    /\ MaxDeaths \in Nat /\ MaxStops \in Nat

VARIABLES
    file,        \* the decision file
    proposal,    \* status of the proposal
    step, seen,  \* next step of a request's handler; the file as it read it
    loop,        \* the handler in the middle of a blocking section, or Nobody
    job,         \* status in a job's record
    worker,      \* next step of a job's worker
    copy,        \* the file as a projection has read it
    srv, todo, hand,  \* startup pass: its state, records to look at, record to project
    blocked,     \* jobs that recovery has set aside: the pass skips them
    deaths, stops,
    overtaken,   \* history: somebody wrote from a reading that was no longer current
    overlapped,  \* history: a request was made while another one or a run was under way
    owed,        \* history: what the startup pass found without a worker when it began
    raised       \* history: a submission raised something else than JobSubmissionError

request == <<step, seen, loop>>
startup == <<srv, todo, hand, blocked>>
bounds == <<deaths, stops>>
history == <<overtaken, overlapped, owed, raised>>
vars == <<file, proposal, request, job, worker, copy, startup, bounds, history>>

----------------------------------------------------------------------------
Shown == {"pending", "skipped", "running", "complete", "failed", "cancelled"}
Decision == [status : Shown, job : Jobs \cup {NoJob}, history : SUBSET Jobs,
             verdict : {"none", "verified", "follow_up"}]

ASSUME NoFileAssumption == NoFile \notin Decision

JobStatus == {"none", "queued", "waiting", "running", "complete", "failed", "cancelled"}
Active == {"queued", "waiting", "running"}
Ended == {"complete", "failed", "cancelled"}
Steps == {"idle", "decide", "retry", "verify", "submit_new", "submit_again", "mark",
          "cli_decide", "cli_submit", "cli_mark", "done"}
Busy == {"launched", "waiting", "started", "show_run", "run", "ended", "show_end"}

TypeOK ==
    /\ file \in Decision \cup {NoFile}
    /\ proposal \in {"proposed", "decided"}
    /\ step \in [Requests -> Steps] /\ seen \in [Requests -> Decision \cup {NoFile}]
    /\ loop \in Requests \cup {Nobody}
    /\ job \in [Jobs -> JobStatus]
    /\ worker \in [Jobs -> Busy \cup {"none", "gone", "dead"}]
    /\ copy \in [Jobs \cup {Server} -> Decision \cup {NoFile}]
    /\ srv \in {"serving", "down", "recovering", "starting"}
    /\ todo \subseteq Jobs /\ hand \in Jobs \cup {Nobody} /\ blocked \subseteq Jobs
    /\ deaths \in Nat /\ stops \in Nat
    /\ overtaken \in BOOLEAN /\ overlapped \in BOOLEAN /\ raised \in BOOLEAN
    /\ owed \subseteq Jobs

Init ==
    /\ file = NoFile /\ proposal = "proposed"
    /\ step = [r \in Requests |-> "idle"] /\ seen = [r \in Requests |-> NoFile]
    /\ loop = Nobody
    /\ job = [r \in Jobs |-> "none"] /\ worker = [r \in Jobs |-> "none"]
    /\ copy = [a \in Jobs \cup {Server} |-> NoFile]
    /\ srv = "serving" /\ todo = {} /\ hand = Nobody /\ blocked = {}
    /\ deaths = 0 /\ stops = 0
    /\ overtaken = FALSE /\ overlapped = FALSE /\ owed = {} /\ raised = FALSE

\* A write of d by somebody who takes the file to be as in from.
WriteFrom(from, d) ==
    /\ file' = d
    /\ overtaken' = (overtaken \/ file # from)

----------------------------------------------------------------------------
(* Requests.                                                               *)

Free == srv = "serving" /\ loop = Nobody

UnderWay == \E r \in Requests : step[r] \notin {"idle", "done"}

\* A request begins.  A user who verifies a run that goes on, decides again what is decided
\* or does not wait for the answer to an earlier request is recorded in overlapped.
Open(r, kind, again) ==
    /\ step[r] = "idle"
    /\ step' = [step EXCEPT ![r] = kind]
    /\ overlapped' = (overlapped \/ again \/ UnderWay)
    /\ UNCHANGED <<file, proposal, loop, job, worker, copy, startup, bounds, overtaken, owed,
                   raised>>

\* retry and verify read the file before they await the form.
ReadFirst(r) == Free /\ file # NoFile /\ seen' = [seen EXCEPT ![r] = file]

\* The page of a proposal offers the form to decide as long as there is no decision.
ShowForm(r) == Free /\ file = NoFile /\ Open(r, "decide", FALSE) /\ UNCHANGED seen

\* The command decide asks its questions whether there is a decision or not.
AskAtTerminal(r) == Open(r, "cli_decide", file # NoFile) /\ UNCHANGED seen

\* Looking at a proposal with a decision marks it decided.
ShowProposal ==
    /\ Free /\ file # NoFile /\ proposal = "proposed"
    /\ proposal' = "decided" /\ overlapped' = (overlapped \/ UnderWay)
    /\ UNCHANGED <<file, request, job, worker, copy, startup, bounds, overtaken, owed, raised>>

\* Mutant: any decision that is not complete may be retried.
CanRetryUnlessComplete(d) == d.status # "complete"

CanRetry(d) == d.status \in {"failed", "cancelled"}

AskRetry(r) == ReadFirst(r) /\ CanRetry(file) /\ Open(r, "retry", FALSE)

AskVerify(r) ==
    ReadFirst(r) /\ Open(r, "verify", \E q \in Jobs : worker[q] \in Busy)

\* The decision that decide writes for a job (or none, when the answers ask for no
\* execution), and the one that retry writes over the decision it has read.
NewDecision(status, j) ==
    [status |-> status, job |-> j, history |-> {}, verdict |-> "none"]

\* Mutant: the job that is replaced is not kept.
RetriedForgetting(d, r) == [d EXCEPT !.status = "pending", !.job = r]

Retried(d, r) ==
    [d EXCEPT !.status = "pending", !.job = r, !.history = @ \cup ({d.job} \ {NoJob})]

\* Mutant: the proposal is marked before the submission.
WriteNewAndMark(r, submit, mark) ==
    /\ \/ /\ WriteFrom(NoFile, NewDecision("pending", r))
          /\ step' = [step EXCEPT ![r] = submit]
       \/ /\ WriteFrom(NoFile, NewDecision("skipped", NoJob))
          /\ step' = [step EXCEPT ![r] = mark]
    /\ proposal' = "decided"
    /\ UNCHANGED <<seen, job, worker, copy, startup, bounds, overlapped, owed, raised>>

\* decide writes without a look at the file.
WriteNew(r, submit, mark) ==
    /\ \/ /\ WriteFrom(NoFile, NewDecision("pending", r))
          /\ step' = [step EXCEPT ![r] = submit]
       \/ /\ WriteFrom(NoFile, NewDecision("skipped", NoJob))
          /\ step' = [step EXCEPT ![r] = mark]
    /\ UNCHANGED <<proposal, seen, job, worker, copy, startup, bounds, overlapped, owed,
                   raised>>

Decide(r) ==
    Free /\ step[r] = "decide" /\ WriteNew(r, "submit_new", "mark") /\ loop' = r
DecideAtTerminal(r) ==
    step[r] = "cli_decide" /\ WriteNew(r, "cli_submit", "cli_mark") /\ UNCHANGED loop

\* A request ends; a handler gives the event loop back.
Return(r) ==
    /\ step' = [step EXCEPT ![r] = "done"] /\ seen' = [seen EXCEPT ![r] = NoFile]
    /\ loop' = IF loop = r THEN Nobody ELSE loop

\* A form with invalid answers or an executor that may not write changes nothing.
RefuseForm(r) ==
    /\ \/ Free /\ step[r] \in {"decide", "retry", "verify"}
       \/ step[r] = "cli_decide"
    /\ Return(r)
    /\ UNCHANGED <<file, proposal, job, worker, copy, startup, bounds, history>>

Retry(r) ==
    /\ Free /\ step[r] = "retry"
    /\ WriteFrom(seen[r], Retried(seen[r], r))
    /\ step' = [step EXCEPT ![r] = "submit_again"]
    /\ loop' = r
    /\ UNCHANGED <<proposal, seen, job, worker, copy, startup, bounds, overlapped, owed,
                   raised>>

\* verify writes its verdict into the decision it has read, whatever its status.
Verify(r) ==
    /\ Free /\ step[r] = "verify"
    /\ \E v \in {"verified", "follow_up"} :
           WriteFrom(seen[r], [seen[r] EXCEPT !.verdict = v])
    /\ Return(r)
    /\ UNCHANGED <<proposal, job, worker, copy, startup, bounds, overlapped, owed, raised>>

Submitting(r) == step[r] \in {"submit_new", "submit_again", "cli_submit"}

SubmitSucceeds(r) ==
    /\ Submitting(r)
    /\ job' = [job EXCEPT ![r] = "queued"] /\ worker' = [worker EXCEPT ![r] = "launched"]
    /\ \/ /\ step[r] = "submit_new" /\ step' = [step EXCEPT ![r] = "mark"]
          /\ UNCHANGED <<seen, loop>>
       \/ /\ step[r] = "cli_submit" /\ step' = [step EXCEPT ![r] = "cli_mark"]
          /\ UNCHANGED <<seen, loop>>
       \/ step[r] = "submit_again" /\ Return(r)
    /\ UNCHANGED <<file, proposal, copy, startup, bounds, history>>

\* Mutant: retry leaves its decision behind.
SubmitFailsLeaving(r) ==
    /\ Submitting(r)
    /\ job' = [job EXCEPT ![r] = "failed"]
    /\ \/ /\ step[r] \in {"submit_new", "cli_submit"}
          /\ WriteFrom(NewDecision("pending", r), NoFile)
       \/ step[r] = "submit_again" /\ UNCHANGED <<file, overtaken>>
    /\ Return(r)
    /\ UNCHANGED <<proposal, worker, copy, startup, bounds, overlapped, owed, raised>>

\* A JobSubmissionError leaves a failed record; decide removes its decision, retry puts
\* back the text it has read.
SubmitFails(r) ==
    /\ Submitting(r)
    /\ job' = [job EXCEPT ![r] = "failed"]
    /\ \/ /\ step[r] \in {"submit_new", "cli_submit"}
          /\ WriteFrom(NewDecision("pending", r), NoFile)
       \/ /\ step[r] = "submit_again"
          /\ WriteFrom(Retried(seen[r], r), seen[r])
    /\ Return(r)
    /\ UNCHANGED <<proposal, worker, copy, startup, bounds, overlapped, owed, raised>>

\* Any other exception (a configuration conflict, a validation or a compilation error)
\* passes through the handler.
SubmitRaises(r) ==
    /\ Submitting(r)
    /\ Return(r)
    /\ raised' = TRUE
    /\ UNCHANGED <<file, proposal, job, worker, copy, startup, bounds, overtaken, overlapped,
                   owed>>

MarkDecided(r) ==
    /\ step[r] \in {"mark", "cli_mark"}
    /\ proposal' = "decided"
    /\ Return(r)
    /\ UNCHANGED <<file, job, worker, copy, startup, bounds, history>>

----------------------------------------------------------------------------
(* Jobs and their workers.                                                 *)

\* The part of a worker's step that concerns the record and the worker alone.
Work(r, from, status, to) ==
    /\ worker[r] = from
    /\ job' = [job EXCEPT ![r] = status] /\ worker' = [worker EXCEPT ![r] = to]
    /\ UNCHANGED <<file, proposal, request, copy, startup, bounds, history>>

Cancel(r) ==
    /\ srv = "serving" /\ job[r] \in {"queued", "waiting"}
    /\ job' = [job EXCEPT ![r] = "cancelled"]
    /\ UNCHANGED <<file, proposal, request, worker, copy, startup, bounds, history>>

Claim(r) == job[r] = "queued" /\ Work(r, "launched", "waiting", "waiting")

\* A worker that finds its job cancelled leaves without a projection.
ClaimRefused(r) == job[r] # "queued" /\ Work(r, "launched", job[r], "gone")
SeeCancelled(r) == job[r] = "cancelled" /\ Work(r, "waiting", job[r], "gone")

Begin(r) == job[r] = "waiting" /\ Work(r, "waiting", "running", "started")

\* An exception before the run: a cancellation that came first stays.
FailEarly(r) ==
    Work(r, "waiting", IF job[r] = "waiting" THEN "failed" ELSE job[r], "ended")

\* Mutant: a run that fails returns at once.
EndRunReturning(r) == Work(r, "run", "complete", "ended") \/ Work(r, "run", "failed", "gone")

EndRun(r) == \E s \in {"complete", "failed"} : Work(r, "run", s, "ended")

\* Mutant: the job's id is not compared.
NamesAnything(d, r) == d # NoFile

Names(d, r) == d # NoFile /\ d.job = r

Projected(d, status) == [d EXCEPT !.status = status]

\* project_decision reads the file and goes on only if it names the job.
ReadDecision(r, from, found, otherwise) ==
    /\ worker[r] = from
    /\ IF Names(file, r)
       THEN copy' = [copy EXCEPT ![r] = file] /\ worker' = [worker EXCEPT ![r] = found]
       ELSE worker' = [worker EXCEPT ![r] = otherwise] /\ UNCHANGED copy
    /\ UNCHANGED <<file, proposal, request, job, startup, bounds, history>>

WriteDecision(r, from, to) ==
    /\ worker[r] = from
    /\ WriteFrom(copy[r], Projected(copy[r], job[r]))
    /\ copy' = [copy EXCEPT ![r] = NoFile]
    /\ worker' = [worker EXCEPT ![r] = to]
    /\ UNCHANGED <<proposal, request, job, startup, bounds, overlapped, owed, raised>>

ReadAtStart(r) == ReadDecision(r, "started", "show_run", "run")
ShowRun(r) == WriteDecision(r, "show_run", "run")
ReadAtEnd(r) == ReadDecision(r, "ended", "show_end", "gone")
ShowEnd(r) == WriteDecision(r, "show_end", "gone")

Die(r) ==
    /\ worker[r] \in Busy /\ deaths < MaxDeaths
    /\ worker' = [worker EXCEPT ![r] = "dead"] /\ copy' = [copy EXCEPT ![r] = NoFile]
    /\ deaths' = deaths + 1
    /\ UNCHANGED <<file, proposal, request, job, startup, stops, history>>

----------------------------------------------------------------------------
(* Stop and start of the server.                                           *)

\* The user interrupts the command decide.
Interrupt(r) ==
    /\ step[r] \in {"cli_decide", "cli_submit", "cli_mark"} /\ deaths < MaxDeaths
    /\ Return(r)
    /\ deaths' = deaths + 1
    /\ UNCHANGED <<file, proposal, job, worker, copy, startup, stops, history>>

AtTerminal == {"idle", "cli_decide", "cli_submit", "cli_mark"}

\* The requests of the moment are lost, wherever their handlers are.
Stop ==
    /\ srv # "down" /\ stops < MaxStops
    /\ srv' = "down" /\ stops' = stops + 1
    /\ step' = [r \in Requests |-> IF step[r] \in AtTerminal THEN step[r] ELSE "done"]
    /\ loop' = Nobody /\ todo' = {} /\ hand' = Nobody /\ blocked' = {}
    /\ seen' = [r \in Requests |-> NoFile] /\ copy' = [copy EXCEPT ![Server] = NoFile]
    /\ UNCHANGED <<file, proposal, job, worker, deaths, history>>

Start ==
    /\ srv = "down" /\ srv' = "recovering"
    /\ UNCHANGED <<file, proposal, request, job, worker, copy, todo, hand, blocked, bounds,
                   history>>

\* Recovery ends a job whose worker died while it published (one of the deaths of a run)
\* and shows nothing.
Recover(r) ==
    /\ srv = "recovering" /\ job[r] = "running" /\ worker[r] = "dead"
    /\ \E s \in {"complete", "failed"} : job' = [job EXCEPT ![r] = s]
    /\ UNCHANGED <<file, proposal, request, worker, copy, startup, bounds, history>>

\* Jobs that ran may have left a journal, also when their record has ended.
MayBeSetAside == {r \in Jobs : job[r] \in {"running", "complete", "failed"}}

\* After recovery the records are listed.  Recovery has set aside jobs whose journals it
\* refused or failed on, or could not run at all, and then the pass skips every job.
BeginPass ==
    /\ srv = "recovering" /\ srv' = "starting"
    /\ todo' = {r \in Jobs : job[r] # "none"}
    /\ blocked' \in (SUBSET MayBeSetAside) \cup {Jobs}
    /\ owed' = {r \in Jobs : worker[r] = "dead" /\ job[r] \notin {"queued", "cancelled"}}
    /\ UNCHANGED <<file, proposal, request, job, worker, copy, hand, bounds, overtaken,
                   overlapped, raised>>

\* Mutant: the pass projects only the jobs it fails itself.
LookAtDeadOnly(r) ==
    /\ srv = "starting" /\ hand = Nobody /\ r \in todo
    /\ todo' = todo \ {r}
    /\ \/ /\ r \notin blocked /\ job[r] \in {"waiting", "running"} /\ worker[r] = "dead"
          /\ job' = [job EXCEPT ![r] = "failed"] /\ hand' = r
       \/ /\ \/ r \in blocked \/ job[r] \in {"queued"} \cup Ended
             \/ job[r] \in {"waiting", "running"} /\ worker[r] # "dead"
          /\ UNCHANGED <<job, hand>>
    /\ UNCHANGED <<file, proposal, request, worker, copy, srv, blocked, bounds, history>>

\* The startup pass projects the jobs that ended well or badly, fails the claimed jobs of
\* dead workers and projects those too, and passes over queued and cancelled jobs and, before
\* any of that, over those that recovery has set aside, ended ones included.
LookAt(r) ==
    /\ srv = "starting" /\ hand = Nobody /\ r \in todo
    /\ todo' = todo \ {r}
    /\ \/ /\ r \notin blocked /\ job[r] \in {"complete", "failed"}
          /\ hand' = r /\ UNCHANGED job
       \/ /\ r \notin blocked /\ job[r] \in {"waiting", "running"} /\ worker[r] = "dead"
          /\ job' = [job EXCEPT ![r] = "failed"] /\ hand' = r
       \/ /\ \/ r \in blocked \/ job[r] \in {"queued", "cancelled"}
             \/ job[r] \in {"waiting", "running"} /\ worker[r] # "dead"
          /\ UNCHANGED <<job, hand>>
    /\ UNCHANGED <<file, proposal, request, worker, copy, srv, blocked, bounds, history>>

ReadAtStartup ==
    /\ srv = "starting" /\ hand # Nobody /\ copy[Server] = NoFile
    /\ IF Names(file, hand)
       THEN copy' = [copy EXCEPT ![Server] = file] /\ UNCHANGED hand
       ELSE hand' = Nobody /\ UNCHANGED copy
    /\ UNCHANGED <<file, proposal, request, job, worker, srv, todo, blocked, bounds, history>>

ShowAtStartup ==
    /\ srv = "starting" /\ hand # Nobody /\ copy[Server] # NoFile
    /\ WriteFrom(copy[Server], Projected(copy[Server], job[hand]))
    /\ copy' = [copy EXCEPT ![Server] = NoFile] /\ hand' = Nobody
    /\ UNCHANGED <<proposal, request, job, worker, srv, todo, blocked, bounds, overlapped,
                   owed, raised>>

Serve ==
    /\ srv = "starting" /\ hand = Nobody /\ todo = {}
    /\ srv' = "serving"
    /\ UNCHANGED <<file, proposal, request, job, worker, copy, todo, hand, blocked, bounds,
                   history>>

----------------------------------------------------------------------------
Handle(r) ==
    \/ Decide(r) \/ DecideAtTerminal(r) \/ Retry(r)
    \/ SubmitSucceeds(r) \/ SubmitFails(r) \/ SubmitRaises(r) \/ MarkDecided(r)

Run(r) ==
    \/ Claim(r) \/ ClaimRefused(r) \/ SeeCancelled(r) \/ Begin(r) \/ FailEarly(r)
    \/ ReadAtStart(r) \/ ShowRun(r) \/ EndRun(r) \/ ReadAtEnd(r) \/ ShowEnd(r)

Startup ==
    \/ Start \/ BeginPass \/ ReadAtStartup \/ ShowAtStartup \/ Serve
    \/ \E r \in Jobs : Recover(r) \/ LookAt(r)

\* Nothing is left to do: every request has been answered and every worker is gone.
Quiet ==
    /\ srv = "serving" /\ loop = Nobody
    /\ ~UnderWay /\ \A r \in Jobs : worker[r] \notin Busy
    /\ UNCHANGED vars

Next ==
    \/ \E r \in Jobs :
           \/ ShowForm(r) \/ AskAtTerminal(r) \/ AskRetry(r)
           \/ Handle(r) \/ Run(r) \/ Cancel(r) \/ Die(r) \/ Interrupt(r)
    \/ \E r \in Verdicts : AskVerify(r) \/ Verify(r)
    \/ \E r \in Requests : RefuseForm(r)
    \/ ShowProposal \/ Stop \/ Startup \/ Quiet

Spec == Init /\ [][Next]_vars

----------------------------------------------------------------------------
(* Properties.                                                             *)

\* What the decision says about an end is true of the job it names: no writer, however
\* outdated its reading, attributes the end of one job to another one (the check of the
\* job's id in project_decision is what a late worker of an earlier job relies on).
ShownIsTrue ==
    file # NoFile /\ file.status \in Ended => job[file.job] = file.status

\* The requests of one user who waits for each answer, decides once and verifies only
\* what has ended overwrite nothing although they take no lock: before a decision may be
\* retried its worker has written for the last time.  Only a second request at the same
\* time or a startup pass next to a worker that lives makes somebody write from an old
\* reading.
LostOnlyByOverlap == overtaken => overlapped \/ stops > 0

\* As long as no reading was outdated, one decision has one job under way: retry's look
\* at the status keeps a second agent from implementing it at the same time.
OneActive ==
    ~overtaken => \A q, r \in Jobs : job[q] \in Active /\ job[r] \in Active => q = r

\* As long as no reading was outdated, every job that was started for the decision is
\* named in it, as the current one or in the history that retry keeps.
NoJobForgotten ==
    ~overtaken => \A r \in Jobs :
        worker[r] # "none" => file # NoFile /\ (file.job = r \/ r \in file.history)

\* As long as no reading was outdated and nobody looks at the page in between, a proposal
\* marked decided has its decision: a failing submission takes the decision back before
\* anybody marks the proposal.
DecidedHasDecision ==
    overtaken \/ overlapped \/ (proposal = "decided" => file # NoFile)

\* A decision that claims a pending run has a job whose worker was launched.
ClaimIsBacked == file # NoFile /\ file.status = "pending" => worker[file.job] # "none"

\* Durable submission: when every request has been answered and nothing was killed, no
\* decision claims a run that was never launched.
NoPhantomRun == ~UnderWay /\ stops = 0 /\ deaths = 0 => ClaimIsBacked

\* The undoing of a failed submission (decide removes its decision, retry puts the old one
\* back) suffices for that, whatever runs in between, unless an exception it does not
\* catch or an outdated writer gets in its way.
FailedSubmissionIsUndone == raised \/ overtaken \/ NoPhantomRun

Shows(r) == overtaken \/ ~Names(file, r) \/ file.status = job[r]

\* A worker that leaves after its run has shown the end of it, unless the decision names
\* another job by then or an outdated writer interferes.
EndIsShown == \A r \in Jobs :
    worker[r] = "gone" /\ job[r] \in {"complete", "failed"} => Shows(r)

\* What a dead worker could not show is shown once the server has started: for the jobs
\* recovery ends, for those the pass fails and for those that had ended, unless recovery has
\* set the job aside (its journal is refused or its clean-up failed, or recovery could not
\* run).  Then the decision goes on saying what the dead worker left in it.
StartupShows == srv = "serving" => \A r \in owed \ blocked : Shows(r)
=============================================================================
