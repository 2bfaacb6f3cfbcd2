------------------------------ MODULE JobRecord ------------------------------
(***************************************************************************)
(* The records of the jobs as everybody who reads them knows them: the      *)
(* pages, the command line, the limits, the decisions.  A record goes       *)
(* forward along the transitions of jobs/store.py, whoever writes it, and   *)
(* ends once; the launch error of a submission is the one thing that may    *)
(* come over a cancellation.                                               *)
(***************************************************************************)
CONSTANT Jobs

VARIABLE status   \* of each record; "absent" before it is created

\* VALID_TRANSITIONS
ValidTransitions ==
    [ absent             |-> {},
      queued             |-> {"waiting_for_memory", "running", "failed", "cancelled"},
      waiting_for_memory |-> {"running", "failed", "cancelled", "complete"},
      running            |-> {"complete", "failed"},
      complete           |-> {},
      failed             |-> {},
      cancelled          |-> {} ]

\* No job has run yet: the records are those of jobs that wait, or there are none.
Init == status \in [Jobs -> {"absent", "queued", "waiting_for_memory"}]

Write(j, s) == status' = [status EXCEPT ![j] = s]

\* A submission makes the record...
Create(j) == status[j] = "absent" /\ Write(j, "queued")

\* ...or a failed one, over what is there, when the worker cannot be started.
LaunchError(j) == status[j] \in {"absent", "queued", "cancelled"} /\ Write(j, "failed")

\* Everybody else moves it forward.
Move(j) == \E s \in ValidTransitions[status[j]] : Write(j, s)

Next == \E j \in Jobs : Create(j) \/ LaunchError(j) \/ Move(j)

Spec == Init /\ [][Next]_status
=============================================================================
