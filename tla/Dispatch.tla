------------------------------ MODULE Dispatch ------------------------------
(***************************************************************************)
(* The dispatch cycle (dispatch/run.py): a timer starts a process every      *)
(* Interval, which goes through the routines of a group and submits those    *)
(* that are due.  What it did it notes in marker files: one per day for a    *)
(* routine that runs at a time of day, one whose age counts for a routine    *)
(* that runs every so often.  A user may start a cycle by hand at any time.  *)
(*                                                                         *)
(* Time passes in ticks, within a cycle as well.  Days are counted from      *)
(* today: 0 is today, 1 yesterday, -1 tomorrow.                              *)
(***************************************************************************)
EXTENDS Integers, Sequences

CONSTANTS
    Order,       \* the routines of the group as configured
    Target,      \* time of day of each "at" routine
    Period,      \* period of each "every" routine
    Timer, Manual,
    Day,         \* ticks of a day
    Interval,    \* ticks between two starts by the timer
    Slack,       \* what check_at_rule adds to Interval; bound on a cycle of the timer
    Zone,        \* ticks that local time is ahead of UTC
    Limit        \* daily limit of the group

AtRoutines == DOMAIN Target
EveryRoutines == DOMAIN Period
Routines == AtRoutines \cup EveryRoutines
Cycles == {Timer, Manual}
Window == Interval + Slack

ASSUME DispatchAssumption ==
    /\ AtRoutines \cap EveryRoutines = {} /\ Timer # Manual
    /\ Order \in Seq(Routines) /\ Routines = {Order[i] : i \in 1 .. Len(Order)}
    /\ Day \in Nat /\ Target \in [AtRoutines -> 0 .. Day - 1]
    /\ Period \in [EveryRoutines -> Nat \ {0}]
    /\ Interval \in Nat \ {0} /\ Slack \in Nat /\ Interval + Slack < Day
    /\ Zone \in Int /\ -Day < Zone /\ Zone < Day
    /\ Limit \in Nat \ {0}

VARIABLES
    time,        \* of the day
    wait,        \* since the timer started its last cycle
    marked,      \* days (0, 1) for which an "at" routine has its marker
    age,         \* of an "every" marker; Period stands for older ones and for none
    outs,        \* .out files in the directory of a day, counted up to Limit
    pc, pos,     \* a cycle: its next step, the place in Order it has come to
    day,         \* the day whose directory a cycle uses
    ran, since,  \* history: submissions today (up to 2), time since the last submission
    unmarked,    \* history: routines whose last submission has no marker (yet)
    late,        \* history: routines whose last marker is of another day
    clash,       \* history: two cycles run at the same time, or did until one has ended
    ended,       \* history: cycles during whose submission a run has ended
    hindered     \* history: routines a cycle did not get to, could not submit or marked late

files == <<marked, age, outs>>
cycle == <<pc, pos, day>>
history == <<ran, since, unmarked, late, clash, ended, hindered>>
vars == <<time, wait, files, cycle, history>>

----------------------------------------------------------------------------
Least(m, n) == IF m < n THEN m ELSE n
Days == {-1, 0, 1}
SinceMax(r) == Period[r] + Interval + 2 * Slack + 1

TypeOK ==
    /\ time \in 0 .. Day - 1 /\ wait \in 0 .. Interval
    /\ marked \in [AtRoutines -> SUBSET {0, 1}]
    /\ age \in [EveryRoutines -> Nat] /\ \A r \in EveryRoutines : age[r] <= Period[r]
    /\ outs \in [Days -> 0 .. Limit]
    /\ pc \in [Cycles -> {"off", "enter", "look", "submit", "touch"}]
    /\ pos \in [Cycles -> 1 .. Len(Order) + 1] /\ day \in [Cycles -> {0, 1}]
    /\ \A c \in Cycles : pc[c] \in {"submit", "touch"} => pos[c] <= Len(Order)
    /\ ran \in [AtRoutines -> 0 .. 2] /\ since \in [EveryRoutines -> Nat]
    /\ unmarked \subseteq Routines /\ late \subseteq AtRoutines
    /\ clash \in BOOLEAN /\ ended \subseteq Cycles /\ hindered \subseteq Routines

Init ==
    /\ time = 0 /\ wait = 0
    /\ marked = [r \in AtRoutines |-> {}] /\ age = [r \in EveryRoutines |-> Period[r]]
    /\ outs = [d \in Days |-> 0]
    /\ pc = [c \in Cycles |-> "off"] /\ pos = [c \in Cycles |-> 1]
    /\ day = [c \in Cycles |-> 0]
    /\ ran = [r \in AtRoutines |-> 0] /\ since = [r \in EveryRoutines |-> Period[r]]
    /\ unmarked = {} /\ late = {} /\ clash = FALSE /\ ended = {}
    /\ hindered = AtRoutines   \* the first day is not a whole one

----------------------------------------------------------------------------
(* Time.  The timer starts its cycle in time, a cycle of it takes Slack at   *)
(* most and is over when the next is due; a cycle by hand is over before the  *)
(* second midnight.                                                        *)

Running(c) == pc[c] # "off"

MayPass == wait < IF Running(Timer) THEN Least(Slack, Interval) ELSE Interval

GrowOlder ==
    /\ wait' = wait + 1
    /\ age' = [r \in EveryRoutines |-> Least(age[r] + 1, Period[r])]
    /\ since' = [r \in EveryRoutines |-> Least(since[r] + 1, SinceMax(r))]
    /\ UNCHANGED <<pc, pos, unmarked, clash, ended>>

Tick ==
    /\ MayPass /\ time < Day - 1
    /\ time' = time + 1
    /\ GrowOlder
    /\ UNCHANGED <<marked, outs, day, ran, late, hindered>>

Midnight ==
    /\ MayPass /\ time = Day - 1
    /\ \A c \in Cycles : Running(c) => day[c] = 0
    /\ time' = 0
    /\ GrowOlder
    /\ marked' = [r \in AtRoutines |-> {d + 1 : d \in marked[r] \cap {0}}]
    /\ outs' = [d \in Days |-> IF d = -1 THEN 0 ELSE outs[d - 1]]
    /\ day' = [c \in Cycles |-> IF pc[c] \in {"look", "submit", "touch"} THEN 1 ELSE 0]
    /\ ran' = [r \in AtRoutines |-> 0]
    /\ late' = {} /\ hindered' = hindered \ AtRoutines

----------------------------------------------------------------------------
(* A cycle.                                                                *)

Begin(c) ==
    /\ ~Running(c) /\ (c = Timer => wait = Interval)
    /\ pc' = [pc EXCEPT ![c] = "enter"]
    /\ wait' = IF c = Timer THEN 0 ELSE wait
    /\ clash' = \E b \in Cycles : Running(b)
    /\ UNCHANGED <<time, files, pos, day, ran, since, unmarked, late, ended, hindered>>

\* The rest of the cycle does not take place.
Leave(c) ==
    pc' = [pc EXCEPT ![c] = "off"] /\ pos' = [pos EXCEPT ![c] = 1] /\ day' = [day EXCEPT ![c] = 0]

Full(d) == outs[d] >= Limit

\* The group is skipped when its limit has been reached.
Enter(c) ==
    /\ pc[c] = "enter"
    /\ IF Full(0)
       THEN Leave(c) /\ hindered' = Routines
       ELSE pc' = [pc EXCEPT ![c] = "look"] /\ UNCHANGED <<pos, day, hindered>>
    /\ UNCHANGED <<time, wait, files, ran, since, unmarked, late, clash, ended>>

\* Mutant: the window ends with the interval.
InWindowExactly(r) == Target[r] <= time /\ time < Target[r] + Interval

\* check_at_rule: the target is the one of the present date.
InWindow(r) == Target[r] <= time /\ time < Target[r] + Window

\* Mutant: the marker of an "at" routine is not looked for.
DueUnlooked(r, d) ==
    \/ r \in AtRoutines /\ InWindow(r)
    \/ r \in EveryRoutines /\ age[r] >= Period[r]

\* Mutant: an "every" routine runs when the cycle after this one would be too late.
DueSoon(r, d) ==
    \/ r \in AtRoutines /\ d \notin marked[r] /\ InWindow(r)
    \/ r \in EveryRoutines /\ age[r] + Interval > Period[r]

\* Mutant: an "every" routine runs when its marker is older than the period.
DueOlder(r, d) ==
    \/ r \in AtRoutines /\ d \notin marked[r] /\ InWindow(r)
    \/ r \in EveryRoutines /\ age[r] > Period[r]

\* What the markers and the schedule rules say.  Every routine is taken to have a marker of
\* its own: the code joins the names of agent and routine (after _marker_safe) by a hyphen, so
\* that "a-b" of agent "c" and "b" of agent "c-a" would share one.
Due(r, d) ==
    \/ r \in AtRoutines /\ d \notin marked[r] /\ InWindow(r)
    \/ r \in EveryRoutines /\ age[r] >= Period[r]

Proceed(c) == pc' = [pc EXCEPT ![c] = "look"] /\ pos' = [pos EXCEPT ![c] = @ + 1]

EndCycle(c) ==
    /\ pc[c] = "look" /\ pos[c] > Len(Order)
    /\ Leave(c)
    /\ UNCHANGED <<time, wait, files, history>>

\* A cycle looks at its routine: whether the limit has been reached since, and whether the
\* routine is due.  (The code leaves the loop over an agent's routines when the limit has
\* been reached; it stays reached for the routines it does not look at.)
Looking(c) == pc[c] = "look" /\ pos[c] <= Len(Order)

SkipFull(c) ==
    /\ Looking(c) /\ Full(day[c])
    /\ Proceed(c) /\ hindered' = hindered \cup {Order[pos[c]]}
    /\ UNCHANGED <<time, wait, files, day, ran, since, unmarked, late, clash, ended>>

SkipNotDue(c) ==
    /\ Looking(c) /\ ~Full(day[c]) /\ ~Due(Order[pos[c]], day[c])
    /\ Proceed(c)
    /\ UNCHANGED <<time, wait, files, day, history>>

\* Mutant: the limit is looked at once per cycle.
ChooseUnlimited(c) ==
    /\ Looking(c) /\ Due(Order[pos[c]], day[c])
    /\ pc' = [pc EXCEPT ![c] = "submit"]
    /\ UNCHANGED <<time, wait, files, pos, day, history>>

Choose(c) ==
    /\ Looking(c) /\ ~Full(day[c]) /\ Due(Order[pos[c]], day[c])
    /\ pc' = [pc EXCEPT ![c] = "submit"]
    /\ UNCHANGED <<time, wait, files, pos, day, history>>

SubmitSucceeds(c) ==
    LET r == Order[pos[c]]
    IN  /\ pc[c] = "submit"
        /\ pc' = [pc EXCEPT ![c] = "touch"]
        /\ unmarked' = unmarked \cup {r}
        /\ ran' = [q \in AtRoutines |-> IF q = r THEN Least(ran[q] + 1, 2) ELSE ran[q]]
        /\ since' = [q \in EveryRoutines |-> IF q = r THEN 0 ELSE since[q]]
        /\ hindered' = hindered \ ({r} \cap EveryRoutines)
        /\ ended' = ended \ {c}
        /\ UNCHANGED <<time, wait, files, pos, day, late, clash>>

\* The exceptions the cycle expects leave the routine unmarked for the next cycle.
SubmitFails(c) ==
    /\ pc[c] = "submit"
    /\ Proceed(c) /\ hindered' = hindered \cup {Order[pos[c]]} /\ ended' = ended \ {c}
    /\ UNCHANGED <<time, wait, files, day, ran, since, unmarked, late, clash>>

\* The marker of this routine, and (with names as at Due) of no other.
Touch(c) ==
    LET r == Order[pos[c]]
    IN  /\ pc[c] = "touch"
        /\ IF r \in AtRoutines
           THEN /\ marked' = [marked EXCEPT ![r] = @ \cup {day[c]}]
                /\ late' = IF day[c] = 0 THEN late \ {r} ELSE late \cup {r}
                /\ UNCHANGED age
           ELSE age' = [age EXCEPT ![r] = 0] /\ UNCHANGED <<marked, late>>
        /\ unmarked' = unmarked \ {r}
        /\ Proceed(c)
        /\ hindered' = hindered \cup {q \in EveryRoutines \cap {r} : since[q] > Slack}
        /\ UNCHANGED <<time, wait, outs, day, ran, since, clash, ended>>

\* A configuration conflict, a failing touch or the end of the process: the cycle is over.
Abort(c) ==
    /\ Running(c)
    /\ Leave(c) /\ hindered' = Routines /\ ended' = ended \ {c}
    /\ UNCHANGED <<time, wait, files, ran, since, unmarked, late, clash>>

----------------------------------------------------------------------------
(* Runs, those the cycle has submitted and others.  A run writes its output  *)
(* into the directory of the UTC date of its start, the cycle counts those   *)
(* of its local date.                                                       *)

UtcDay == IF time < Zone THEN 1 ELSE IF time - Zone >= Day THEN -1 ELSE 0

\* A run that has started today or yesterday leaves its output.
WriteOutput(d) ==
    /\ d \in {UtcDay, UtcDay + 1}
    /\ outs' = [outs EXCEPT ![d] = Least(@ + 1, Limit)]
    /\ ended' = {c \in Cycles : pc[c] = "submit"}
    /\ UNCHANGED <<time, wait, marked, age, cycle, ran, since, unmarked, late, clash, hindered>>

----------------------------------------------------------------------------
Next ==
    \/ Tick \/ Midnight \/ (\E d \in Days : WriteOutput(d))
    \/ \E c \in Cycles :
           \/ Begin(c) \/ Enter(c) \/ EndCycle(c) \/ SkipFull(c) \/ SkipNotDue(c) \/ Choose(c)
           \/ SubmitSucceeds(c) \/ SubmitFails(c) \/ Touch(c) \/ Abort(c)

Spec == Init /\ [][Next]_vars

----------------------------------------------------------------------------
(* Properties.                                                             *)

Submits(c, r) == pc[c] = "submit" /\ Order[pos[c]] = r /\ pc'[c] = "touch"

\* An "at" routine is submitted once a day.  The exceptions are two cycles at the same
\* time, a cycle that ended between a submission and its marker, and a cycle that went on
\* over midnight, whose marker is that of the day it began.
AtOncePerDay == [][
    \A c \in Cycles, r \in AtRoutines :
        Submits(c, r) /\ ran[r] > 0 => clash \/ r \in unmarked \/ r \in late]_vars

\* Two submissions of an "every" routine are a period apart, with the first two exceptions.
EverySpaced == [][
    \A c \in Cycles, r \in EveryRoutines :
        Submits(c, r) => since[r] >= Period[r] \/ clash \/ r \in unmarked]_vars

\* An "at" routine is submitted every day, unless a cycle was hindered, if the window of
\* its target ends before midnight: the window is wide enough for the timer to hit it.
\* (The window of a later target is cut off at midnight, and the timer may miss it.)
Fits(r) == Target[r] + Window <= Day

AtRunsDaily == [][
    time' < time => \A r \in AtRoutines : Fits(r) /\ r \notin hindered => ran[r] > 0]_vars

\* An "every" routine is submitted an Interval and twice the Slack after its period at the
\* latest: a cycle may take Slack from a submission to its marker, whose age counts, and a
\* later one Slack to find the marker old enough.
EveryInTime == \A r \in EveryRoutines :
    since[r] > Period[r] + Interval + 2 * Slack => r \in hindered

\* Once the files of a day have reached the limit no cycle of the day submits any more,
\* but for a submission it had begun before.
LimitStops == [][
    \A c \in Cycles, r \in Routines :
        Submits(c, r) /\ Full(day[c]) => c \in ended]_vars
=============================================================================
