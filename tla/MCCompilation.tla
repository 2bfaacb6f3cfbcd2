--------------------------- MODULE MCCompilation ---------------------------
(* A blueprint of two files, two requests of its page and two jobs.            *)
EXTENDS Compilation, TLC

CONSTANTS e1, e2, j1, j2, old, new

MCInitial == [f \in Files |-> old]

Budget(saves, submissions, hands, harms, faults, crashes) ==
    [saves |-> saves, submissions |-> submissions, hands |-> hands, harms |-> harms,
     faults |-> faults, crashes |-> crashes]

\* Pages alone, and with a hand; two jobs, and harm to their artifact; a page and two jobs;
\* a job, and two hands under its scan.
MCBudgets == { Budget(3, 0, 0, 0, 2, 1), Budget(2, 0, 1, 0, 2, 1), Budget(0, 2, 0, 2, 1, 1),
               Budget(1, 2, 0, 0, 0, 0), Budget(0, 1, 2, 1, 0, 0) }

\* The editors are alike, and so are the jobs.
MCSymmetry == Permutations(Editors) \cup Permutations(Jobs)
=============================================================================
