---------------------------- MODULE AtomicMemory ----------------------------
(***************************************************************************)
(* What a memory promises as long as no process dies: operations take turns *)
(* and each replaces the whole content at once, on the base it has read, or *)
(* leaves it alone and says so, or says that it does not know.  A save      *)
(* starts only from the content its user has looked at.                     *)
(***************************************************************************)
EXTENDS MemoryContents

CONSTANTS Jobs, Saves, Nobody, NoDir, Initial

VARIABLES
    content,    \* what the memory holds
    seen,       \* what the user of a save looked at
    turn,       \* the operation whose turn it is, or Nobody
    base,       \* the content its turn began with
    committed,  \* whether it has replaced the content
    outcome     \* what an operation has reported

vars == <<content, seen, turn, base, committed, outcome>>

Init ==
    /\ content = Initial
    /\ seen = [s \in Saves |-> NoDir]
    /\ turn = Nobody /\ base = Empty /\ committed = FALSE
    /\ outcome = [o \in Jobs \cup Saves |-> "none"]

Look(s) ==
    /\ turn = Nobody /\ outcome[s] = "none"
    /\ seen' = [seen EXCEPT ![s] = content]
    /\ UNCHANGED <<content, turn, base, committed, outcome>>

\* A reader may have created the memory.md of an empty memory since the look.
Begin(o) ==
    /\ turn = Nobody /\ outcome[o] = "none"
    /\ o \in Saves => seen[o] = Ensured(content)
    /\ turn' = o
    /\ content' = Ensured(content) /\ base' = Ensured(content)
    /\ UNCHANGED <<seen, committed, outcome>>

Refuse(s) ==
    /\ turn = Nobody /\ outcome[s] = "none" /\ seen[s] # Ensured(content)
    /\ content' = Ensured(content)
    /\ outcome' = [outcome EXCEPT ![s] = "refused"]
    /\ UNCHANGED <<seen, turn, base, committed>>

Commit ==
    /\ turn # Nobody /\ ~committed /\ content = base /\ outcome[turn] = "none"
    /\ content' \in Content
    /\ committed' = TRUE
    /\ UNCHANGED <<seen, turn, base, outcome>>

EndTurn == turn' = Nobody /\ base' = Empty /\ committed' = FALSE

\* Who reports success has committed; who reports failure has not, unless it is a job whose
\* record could not be written at first.  A save that raises says neither.
Report(r) ==
    /\ turn # Nobody /\ outcome[turn] = "none"
    /\ r = "done" => committed
    /\ r = "failed" => ~committed \/ turn \in Jobs
    /\ r = "raised" => turn \in Saves
    /\ outcome' = [outcome EXCEPT ![turn] = r]
    /\ EndTurn \/ UNCHANGED <<turn, base, committed>>
    /\ UNCHANGED <<content, seen>>

Leave ==
    /\ turn # Nobody /\ outcome[turn] # "none"
    /\ EndTurn
    /\ UNCHANGED <<content, seen, outcome>>

Next ==
    \/ \E s \in Saves : Look(s) \/ Refuse(s)
    \/ \E o \in Jobs \cup Saves : Begin(o)
    \/ Commit \/ Leave
    \/ \E r \in {"done", "failed", "raised"} : Report(r)

Spec == Init /\ [][Next]_vars
=============================================================================
