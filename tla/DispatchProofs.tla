--------------------------- MODULE DispatchProofs ---------------------------
(***************************************************************************)
(* The markers do their work, for any routines, any length of the day and    *)
(* any limit: a routine is submitted once a day, or once a period, and not   *)
(* much later unless a cycle was hindered.                                  *)
(***************************************************************************)
EXTENDS Dispatch, TLAPS

Routine(c) == Order[pos[c]]

\* Two cycles at the same time are recorded in clash.
OneCycle == ~clash => ~(Running(Timer) /\ Running(Manual))

\* A cycle begins with the directory of the present day.
AtRest == \A c \in Cycles : pc[c] = "off" => day[c] = 0

\* A marked routine was marked after its last submission: the age of its marker is not more
\* than the time since, and its marker of today is there unless that was of another day.
Marked ==
    /\ \A r \in EveryRoutines : r \notin unmarked => age[r] <= since[r]
    /\ \A r \in AtRoutines :
           ran[r] > 0 /\ r \notin unmarked \cup late => 0 \in marked[r]

\* What made a cycle choose its routine is still so when it submits it alone.
StillDue == ~clash => \A c \in Cycles : pc[c] = "submit" =>
    /\ Routine(c) \in AtRoutines => day[c] \notin marked[Routine(c)]
    /\ Routine(c) \in EveryRoutines => age[Routine(c)] >= Period[Routine(c)]

\* What a cycle that runs over midnight, alone, has submitted today has no marker of today.
OverMidnight == ~clash => \A c \in Cycles : Running(c) /\ day[c] = 1 =>
    \A r \in AtRoutines : ran[r] > 0 => r \in unmarked \cup late

Inv == TypeOK /\ OneCycle /\ AtRest /\ Marked /\ StillDue /\ OverMidnight

----------------------------------------------------------------------------
LEMMA Constants ==
    /\ Day \in Nat /\ Interval \in Nat \ {0} /\ Slack \in Nat /\ Limit \in Nat \ {0} /\ Zone \in Int
    /\ Interval + Slack < Day /\ Len(Order) \in Nat /\ Timer # Manual
    /\ AtRoutines \cap EveryRoutines = {}
    /\ \A r \in EveryRoutines : Period[r] \in Nat \ {0} /\ SinceMax(r) \in Nat /\ Period[r] < SinceMax(r)
    /\ \A i \in 1 .. Len(Order) : Order[i] \in Routines
    /\ \A r \in Routines : \E i \in 1 .. Len(Order) : Order[i] = r
<1>1. \A r \in EveryRoutines : Period[r] \in Nat \ {0}
  BY DispatchAssumption DEF EveryRoutines
<1>2. Len(Order) \in Nat /\ \A i \in 1 .. Len(Order) : Order[i] \in Routines
  BY DispatchAssumption
<1>3. \A r \in Routines : \E i \in 1 .. Len(Order) : Order[i] = r
  BY DispatchAssumption
<1> QED
  BY <1>1, <1>2, <1>3, DispatchAssumption DEF SinceMax

LEMMA LeastIs == ASSUME NEW m \in Nat, NEW n \in Nat
                 PROVE  /\ Least(m, n) \in Nat /\ Least(m, n) <= m /\ Least(m, n) <= n
                        /\ Least(m, n) \in {m, n}
BY DEF Least

LEMMA InitInv == Init => Inv
<1> SUFFICES ASSUME Init PROVE Inv
  OBVIOUS
<1> USE Constants DEF Init
<1>1. TypeOK
  <2>1. time \in 0 .. Day - 1 /\ wait \in 0 .. Interval
    OBVIOUS
  <2>2. /\ age \in [EveryRoutines -> Nat] /\ since \in [EveryRoutines -> Nat]
        /\ \A r \in EveryRoutines : age[r] <= Period[r]
    OBVIOUS
  <2>3. pos \in [Cycles -> 1 .. Len(Order) + 1] /\ outs \in [Days -> 0 .. Limit]
    OBVIOUS
  <2>4. pc \in [Cycles -> {"off", "enter", "look", "submit", "touch"}] /\ day \in [Cycles -> {0, 1}]
    OBVIOUS
  <2>5. marked \in [AtRoutines -> SUBSET {0, 1}] /\ ran \in [AtRoutines -> 0 .. 2]
    OBVIOUS
  <2>6. /\ unmarked \subseteq Routines /\ late \subseteq AtRoutines
        /\ ended \subseteq Cycles /\ hindered \subseteq Routines
    BY DEF Routines
  <2>7. clash \in BOOLEAN
    OBVIOUS
  <2>8. \A c \in Cycles : pc[c] = "off"
    OBVIOUS
  <2> QED
    BY <2>1, <2>2, <2>3, <2>4, <2>5, <2>6, <2>7, <2>8 DEF TypeOK
<1>2. OneCycle /\ AtRest /\ StillDue /\ OverMidnight
  BY DEF OneCycle, AtRest, StillDue, OverMidnight, Cycles, Running
<1>3. Marked
  BY DEF Marked
<1> QED
  BY <1>1, <1>2, <1>3 DEF Inv

----------------------------------------------------------------------------
\* A tick ages the markers and the submissions alike.
LEMMA OlderInv ==
    ASSUME Inv, GrowOlder
    PROVE  /\ age' \in [EveryRoutines -> Nat] /\ since' \in [EveryRoutines -> Nat]
           /\ \A r \in EveryRoutines :
                  /\ age'[r] <= Period[r]
                  /\ age[r] >= Period[r] => age'[r] >= Period[r]
                  /\ age[r] <= since[r] => age'[r] <= since'[r]
<1> SUFFICES ASSUME NEW r \in EveryRoutines
             PROVE  /\ age'[r] \in Nat /\ since'[r] \in Nat /\ age'[r] <= Period[r]
                    /\ age[r] >= Period[r] => age'[r] >= Period[r]
                    /\ age[r] <= since[r] => age'[r] <= since'[r]
  BY DEF GrowOlder
<1>1. /\ age[r] \in Nat /\ since[r] \in Nat /\ Period[r] \in Nat /\ SinceMax(r) \in Nat
      /\ Period[r] < SinceMax(r)
  BY Constants DEF Inv, TypeOK
<1>2. age'[r] = Least(age[r] + 1, Period[r]) /\ since'[r] = Least(since[r] + 1, SinceMax(r))
  BY DEF GrowOlder
<1> QED
  BY <1>1, <1>2 DEF Least

LEMMA TickInv ==
    ASSUME Inv, Tick
    PROVE  Inv'
<1>1. TypeOK'
  <2>1. time' \in 0 .. Day - 1 /\ wait' \in 0 .. Interval
    BY Constants DEF Inv, TypeOK, Tick, MayPass, GrowOlder, Least
  <2> QED
    BY <2>1, OlderInv DEF Inv, TypeOK, Tick, GrowOlder
<1>2. OneCycle' /\ AtRest' /\ OverMidnight'
  BY DEF Inv, OneCycle, AtRest, OverMidnight, Running, Tick, GrowOlder
<1>3. Marked'
  BY OlderInv DEF Inv, Marked, Tick, GrowOlder
<1>4. StillDue'
  BY OlderInv DEF Inv, StillDue, Routine, Tick, GrowOlder
<1> QED
  BY <1>1, <1>2, <1>3, <1>4 DEF Inv

LEMMA MidnightInv ==
    ASSUME Inv, Midnight
    PROVE  Inv'
<1>1. TypeOK'
  <2>1. outs' \in [Days -> 0 .. Limit]
    BY Constants DEF Inv, TypeOK, Midnight, Days
  <2>2. marked' \in [AtRoutines -> SUBSET {0, 1}]
    BY DEF Inv, TypeOK, Midnight
  <2>3. time' \in 0 .. Day - 1 /\ wait' \in 0 .. Interval
    BY Constants DEF Inv, TypeOK, Midnight, MayPass, GrowOlder, Least
  <2> QED
    BY <2>1, <2>2, <2>3, OlderInv DEF Inv, TypeOK, Midnight, GrowOlder
<1>2. OneCycle' /\ AtRest'
  BY DEF Inv, TypeOK, OneCycle, AtRest, Running, Midnight, GrowOlder
<1>3. Marked'
  BY OlderInv DEF Inv, Marked, Midnight, GrowOlder
<1>4. StillDue'
  <2> SUFFICES ASSUME ~clash, NEW c \in Cycles, pc[c] = "submit"
               PROVE  /\ Routine(c) \in AtRoutines => day'[c] \notin marked'[Routine(c)]
                      /\ Routine(c) \in EveryRoutines => age'[Routine(c)] >= Period[Routine(c)]
    BY DEF StillDue, Routine, Midnight, GrowOlder
  <2>1. day[c] = 0 /\ day'[c] = 1
    BY DEF Midnight, Running
  <2>2. ASSUME Routine(c) \in AtRoutines PROVE 1 \notin marked'[Routine(c)]
    BY <2>1, <2>2 DEF Inv, StillDue, Midnight
  <2>3. ASSUME Routine(c) \in EveryRoutines PROVE age'[Routine(c)] >= Period[Routine(c)]
    BY <2>3, OlderInv DEF Inv, StillDue, Midnight
  <2> QED
    BY <2>1, <2>2, <2>3
<1>5. OverMidnight'
  BY DEF Inv, OverMidnight, Midnight
<1> QED
  BY <1>1, <1>2, <1>3, <1>4, <1>5 DEF Inv

----------------------------------------------------------------------------
(* The steps of a cycle.                                                   *)

LEMMA BeginInv ==
    ASSUME Inv, NEW c \in Cycles, Begin(c)
    PROVE  Inv'
<1>1. TypeOK'
  BY Constants DEF Inv, TypeOK, Begin, Cycles, files
<1>2. OneCycle' /\ AtRest'
  BY Constants DEF Inv, TypeOK, OneCycle, AtRest, Begin, Running, Cycles
<1>3. Marked'
  BY DEF Inv, Marked, Begin, files
<1>4. clash' \/ \A b \in Cycles : pc[b] = "off"
  BY DEF Begin, Running
<1>5. StillDue'
  BY <1>4 DEF Inv, TypeOK, StillDue, Routine, Begin
<1>6. OverMidnight'
  <2>1. day[c] = 0 /\ day' = day
    BY DEF Inv, AtRest, Begin, Running
  <2>2. ~clash' => \A b \in Cycles : Running(b)' => b = c
    BY <1>4 DEF Begin, Running, Inv, TypeOK
  <2> QED
    BY <2>1, <2>2 DEF OverMidnight
<1> QED
  BY <1>1, <1>2, <1>3, <1>5, <1>6 DEF Inv

\* A cycle that takes its first step, ends or goes on to the next routine changes no file.
LEMMA LeaveInv ==
    ASSUME Inv, NEW c \in Cycles, Leave(c),
           UNCHANGED <<time, wait, files, ran, since, unmarked, late, clash>>,
           hindered' \subseteq Routines, ended' \subseteq Cycles
    PROVE  Inv'
<1>1. TypeOK'
  BY Constants DEF Inv, TypeOK, Leave, files
<1>2. /\ pc'[c] = "off" /\ day'[c] = 0
      /\ \A b \in Cycles \ {c} : pc'[b] = pc[b] /\ day'[b] = day[b] /\ pos'[b] = pos[b]
  BY DEF Inv, TypeOK, Leave
<1>3. OneCycle' /\ AtRest'
  BY <1>2 DEF Inv, OneCycle, AtRest, Running, Cycles
<1>4. Marked'
  BY DEF Inv, Marked, files
<1>5. StillDue' /\ OverMidnight'
  BY <1>2 DEF Inv, StillDue, OverMidnight, Routine, Running, files
<1> QED
  BY <1>1, <1>3, <1>4, <1>5 DEF Inv

LEMMA MoveInv ==
    ASSUME Inv, NEW c \in Cycles, pc[c] # "off", NEW step \in {"look", "submit"},
           pc' = [pc EXCEPT ![c] = step],
           pos' \in [Cycles -> 1 .. Len(Order) + 1],
           \A b \in Cycles \ {c} : pos'[b] = pos[b],
           step = "submit" => /\ Looking(c) /\ pos'[c] = pos[c]
                              /\ Due(Routine(c), day[c]),
           UNCHANGED <<time, wait, files, day, ran, since, unmarked, late, clash>>,
           hindered' \subseteq Routines, ended' \subseteq Cycles
    PROVE  Inv'
<1>1. /\ pc'[c] = step
      /\ \A b \in Cycles \ {c} : pc'[b] = pc[b] /\ pos'[b] = pos[b]
      /\ day' = day
  BY DEF Inv, TypeOK
<1>2. TypeOK'
  BY <1>1, Constants DEF Inv, TypeOK, Looking, files
<1>3. OneCycle' /\ AtRest' /\ OverMidnight'
  BY <1>1 DEF Inv, OneCycle, AtRest, OverMidnight, Running, Cycles
<1>4. Marked'
  BY DEF Inv, Marked, files
<1>5. StillDue'
  <2> SUFFICES ASSUME ~clash, NEW b \in Cycles, pc'[b] = "submit"
               PROVE  /\ Routine(b)' \in AtRoutines => day[b] \notin marked[Routine(b)']
                      /\ Routine(b)' \in EveryRoutines => age[Routine(b)'] >= Period[Routine(b)']
    BY DEF StillDue, files
  <2>1. Routine(b)' = Routine(b)
    BY <1>1 DEF Routine
  <2>2. CASE b = c
    BY <1>1, <2>1, <2>2, Constants DEF Due
  <2>3. CASE b # c
    BY <1>1, <2>1, <2>3 DEF Inv, StillDue
  <2> QED
    BY <2>2, <2>3
<1> QED
  BY <1>2, <1>3, <1>4, <1>5 DEF Inv

LEMMA LookInv ==
    ASSUME Inv, NEW c \in Cycles,
           Enter(c) \/ EndCycle(c) \/ SkipFull(c) \/ SkipNotDue(c) \/ Choose(c)
                    \/ SubmitFails(c) \/ Abort(c)
    PROVE  Inv'
<1>1. hindered \subseteq Routines /\ ended \subseteq Cycles
  BY DEF Inv, TypeOK
<1>2. Looking(c) \/ pc[c] = "submit" => Routine(c) \in Routines
  BY Constants DEF Inv, TypeOK, Looking, Routine
<1>3. Looking(c) \/ pc[c] = "submit" => pos[c] + 1 \in 1 .. Len(Order) + 1
  BY Constants DEF Inv, TypeOK, Looking
<1>4. CASE Enter(c)
  <2>1. CASE Full(0)
    BY <1>1, <1>4, <2>1, LeaveInv DEF Enter
  <2>2. CASE ~Full(0)
    <3>1. /\ pc[c] # "off" /\ pc' = [pc EXCEPT ![c] = "look"] /\ pos' = pos
          /\ hindered' = hindered /\ ended' = ended
          /\ UNCHANGED <<time, wait, files, day, ran, since, unmarked, late, clash>>
      BY <1>4, <2>2 DEF Enter
    <3> QED
      BY <1>1, <3>1, MoveInv DEF Inv, TypeOK
  <2> QED
    BY <2>1, <2>2
<1>5. CASE EndCycle(c)
  BY <1>1, <1>5, LeaveInv DEF EndCycle, history
<1>6. CASE Abort(c)
  BY <1>1, <1>6, LeaveInv DEF Abort
<1>7. CASE SkipFull(c) \/ SkipNotDue(c) \/ SubmitFails(c)
  <2>1. /\ pc[c] # "off" /\ (Looking(c) \/ pc[c] = "submit") /\ Proceed(c)
        /\ UNCHANGED <<time, wait, files, day, ran, since, unmarked, late, clash>>
        /\ hindered' \subseteq Routines /\ ended' \subseteq Cycles
    BY <1>1, <1>2, <1>7 DEF SkipFull, SkipNotDue, SubmitFails, Looking, Routine, history
  <2>2. /\ pos' \in [Cycles -> 1 .. Len(Order) + 1]
        /\ \A b \in Cycles \ {c} : pos'[b] = pos[b]
    BY <1>3, <2>1 DEF Inv, TypeOK, Proceed
  <2> QED
    BY <2>1, <2>2, MoveInv DEF Proceed
<1>8. CASE Choose(c)
  <2>1. /\ pc[c] # "off" /\ Looking(c) /\ Due(Routine(c), day[c])
        /\ pc' = [pc EXCEPT ![c] = "submit"] /\ pos' = pos
        /\ UNCHANGED <<time, wait, files, day, ran, since, unmarked, late, clash>>
        /\ hindered' = hindered /\ ended' = ended
    BY <1>8 DEF Choose, Looking, Routine, history
  <2> QED
    BY <1>1, <2>1, MoveInv DEF Inv, TypeOK
<1> QED
  BY <1>4, <1>5, <1>6, <1>7, <1>8

LEMMA SubmitInv ==
    ASSUME Inv, NEW c \in Cycles, SubmitSucceeds(c)
    PROVE  Inv'
<1>1. pc[c] = "submit" /\ pos[c] \in 1 .. Len(Order) /\ Routine(c) \in Routines
  BY Constants DEF Inv, TypeOK, SubmitSucceeds, Routine
<1>2. /\ unmarked' = unmarked \cup {Routine(c)} /\ pos' = pos /\ day' = day /\ clash' = clash
      /\ late' = late /\ files' = files
      /\ \A q \in AtRoutines \ {Routine(c)} : ran'[q] = ran[q]
      /\ \A q \in EveryRoutines \ {Routine(c)} : since'[q] = since[q]
      /\ pc'[c] = "touch" /\ \A b \in Cycles \ {c} : pc'[b] = pc[b]
  BY DEF Inv, TypeOK, SubmitSucceeds, Routine
<1>3. TypeOK'
  <2>1. ran' \in [AtRoutines -> 0 .. 2] /\ since' \in [EveryRoutines -> Nat]
    BY DEF Inv, TypeOK, SubmitSucceeds, Least
  <2> QED
    BY <1>1, <1>2, <2>1 DEF Inv, TypeOK, SubmitSucceeds, files
<1>4. OneCycle' /\ AtRest'
  BY <1>1, <1>2 DEF Inv, OneCycle, AtRest, Running, Cycles
<1>5. Marked'
  BY <1>1, <1>2, Constants DEF Inv, Marked, files
<1>6. StillDue'
  BY <1>2 DEF Inv, StillDue, Routine, files
<1>7. OverMidnight'
  BY <1>1, <1>2 DEF Inv, OverMidnight, Running, files
<1> QED
  BY <1>3, <1>4, <1>5, <1>6, <1>7 DEF Inv

LEMMA TouchInv ==
    ASSUME Inv, NEW c \in Cycles, Touch(c)
    PROVE  Inv'
<1>1. /\ pc[c] = "touch" /\ pos[c] \in 1 .. Len(Order) /\ Routine(c) \in Routines
      /\ day[c] \in {0, 1}
  BY Constants DEF Inv, TypeOK, Touch, Routine
<1>2. /\ unmarked' = unmarked \ {Routine(c)} /\ day' = day /\ clash' = clash
      /\ ran' = ran /\ since' = since
      /\ pc'[c] = "look" /\ \A b \in Cycles \ {c} : pc'[b] = pc[b] /\ pos'[b] = pos[b]
  BY DEF Inv, TypeOK, Touch, Routine, Proceed
<1>3. CASE Routine(c) \in AtRoutines
  <2>1. /\ marked' = [marked EXCEPT ![Routine(c)] = @ \cup {day[c]}] /\ age' = age
        /\ late' = IF day[c] = 0 THEN late \ {Routine(c)} ELSE late \cup {Routine(c)}
    BY <1>3 DEF Touch, Routine
  <2>2. /\ marked'[Routine(c)] = marked[Routine(c)] \cup {day[c]}
        /\ \A q \in AtRoutines \ {Routine(c)} : marked'[q] = marked[q]
    BY <1>3, <2>1 DEF Inv, TypeOK
  <2>3. TypeOK'
    BY <1>1, <1>2, <1>3, <2>1, Constants DEF Inv, TypeOK, Touch, Proceed
  <2>4. Marked'
    BY <1>1, <1>2, <1>3, <2>1, <2>2, Constants DEF Inv, TypeOK, Marked
  <2>5. OneCycle' /\ AtRest'
    BY <1>1, <1>2 DEF Inv, OneCycle, AtRest, Running, Cycles
  <2>6. ~clash => \A b \in Cycles \ {c} : pc[b] = "off"
    BY <1>1 DEF Inv, OneCycle, Running, Cycles
  <2>7. StillDue'
    BY <1>2, <2>6 DEF StillDue
  <2>8. OverMidnight'
    BY <1>1, <1>2, <1>3, <2>1, <2>6 DEF Inv, OverMidnight, Running
  <2> QED
    BY <2>3, <2>4, <2>5, <2>7, <2>8 DEF Inv
<1>4. CASE Routine(c) \in EveryRoutines
  <2>1. /\ age' = [age EXCEPT ![Routine(c)] = 0] /\ marked' = marked /\ late' = late
    BY <1>4, Constants DEF Touch, Routine
  <2>2. /\ age'[Routine(c)] = 0
        /\ \A q \in EveryRoutines \ {Routine(c)} : age'[q] = age[q]
    BY <1>4, <2>1 DEF Inv, TypeOK
  <2>3. TypeOK'
    BY <1>1, <1>2, <1>4, <2>1, <2>2, Constants DEF Inv, TypeOK, Touch, Proceed
  <2>4. Marked'
    BY <1>1, <1>2, <1>4, <2>1, <2>2, Constants DEF Inv, TypeOK, Marked
  <2>5. OneCycle' /\ AtRest'
    BY <1>1, <1>2 DEF Inv, OneCycle, AtRest, Running, Cycles
  <2>6. ~clash => \A b \in Cycles \ {c} : pc[b] = "off"
    BY <1>1 DEF Inv, OneCycle, Running, Cycles
  <2>7. StillDue'
    BY <1>2, <2>6 DEF StillDue
  <2>8. OverMidnight'
    BY <1>1, <1>2, <1>4, <2>1, <2>6, Constants DEF Inv, OverMidnight, Running
  <2> QED
    BY <2>3, <2>4, <2>5, <2>7, <2>8 DEF Inv
<1> QED
  BY <1>1, <1>3, <1>4 DEF Routines

LEMMA OutputInv ==
    ASSUME Inv, NEW d \in Days, WriteOutput(d)
    PROVE  Inv'
<1>1. outs' \in [Days -> 0 .. Limit]
  BY Constants DEF Inv, TypeOK, WriteOutput, Least
<1>2. TypeOK'
  BY <1>1 DEF Inv, TypeOK, WriteOutput, cycle
<1>3. OneCycle' /\ AtRest' /\ Marked' /\ StillDue' /\ OverMidnight'
  BY DEF Inv, OneCycle, AtRest, Marked, StillDue, OverMidnight, Routine, Running, WriteOutput, cycle
<1> QED
  BY <1>2, <1>3 DEF Inv

----------------------------------------------------------------------------
LEMMA StepInv == Inv /\ [Next]_vars => Inv'
<1> SUFFICES ASSUME Inv, [Next]_vars PROVE Inv'
  OBVIOUS
<1>1. CASE UNCHANGED vars
  BY <1>1 DEF vars, files, cycle, history, Inv, TypeOK, OneCycle, AtRest, Marked, StillDue,
              OverMidnight, Routine, Running
<1>2. CASE Tick \/ Midnight
  BY <1>2, TickInv, MidnightInv
<1>3. ASSUME NEW d \in Days, WriteOutput(d) PROVE Inv'
  BY <1>3, OutputInv
<1>4. ASSUME NEW c \in Cycles,
             Begin(c) \/ Enter(c) \/ EndCycle(c) \/ SkipFull(c) \/ SkipNotDue(c) \/ Choose(c)
                      \/ SubmitSucceeds(c) \/ SubmitFails(c) \/ Touch(c) \/ Abort(c)
      PROVE  Inv'
  BY <1>4, BeginInv, LookInv, SubmitInv, TouchInv
<1> QED
  BY <1>1, <1>2, <1>3, <1>4 DEF Next

THEOREM InvHolds == Spec => []Inv
<1> QED
  BY InitInv, StepInv, PTL DEF Spec

\* Every variable keeps its type: no cycle points beyond its routines and no directory is
\* used but those of today and yesterday.
THEOREM TypeCorrect == Spec => []TypeOK
<1>1. Inv => TypeOK
  BY DEF Inv
<1> QED
  BY <1>1, InvHolds, PTL

\* A routine with a time of day is submitted once a day, whatever the routines, the length
\* of the interval and the limit, with the exceptions AtOncePerDay names.
THEOREM AtOnce == Spec => AtOncePerDay
<1>1. ASSUME Inv, NEW c \in Cycles, NEW r \in AtRoutines, Submits(c, r), ran[r] > 0
      PROVE  clash \/ r \in unmarked \/ r \in late
  <2> SUFFICES ASSUME ~clash, r \notin unmarked \cup late PROVE FALSE
    OBVIOUS
  <2>1. pc[c] = "submit" /\ Routine(c) = r
    BY <1>1 DEF Submits, Routine
  <2>2. 0 \in marked[r]
    BY <1>1 DEF Inv, Marked
  <2>3. day[c] \notin marked[r]
    BY <1>1, <2>1 DEF Inv, StillDue
  <2>4. day[c] = 1
    BY <1>1, <2>2, <2>3 DEF Inv, TypeOK
  <2> QED
    BY <1>1, <2>1, <2>4 DEF Inv, OverMidnight, Running
<1>2. Inv => \A c \in Cycles, r \in AtRoutines :
               Submits(c, r) /\ ran[r] > 0 => clash \/ r \in unmarked \/ r \in late
  BY <1>1
<1> QED
  BY <1>2, InvHolds, PTL DEF AtOncePerDay

\* Two submissions of a routine with a period are the period apart, whatever the routines
\* and the periods, with the exceptions EverySpaced names.
THEOREM EverySpacing == Spec => EverySpaced
<1>1. ASSUME Inv, NEW c \in Cycles, NEW r \in EveryRoutines, Submits(c, r)
      PROVE  since[r] >= Period[r] \/ clash \/ r \in unmarked
  <2> SUFFICES ASSUME ~clash, r \notin unmarked PROVE since[r] >= Period[r]
    OBVIOUS
  <2>1. pc[c] = "submit" /\ Routine(c) = r
    BY <1>1 DEF Submits, Routine
  <2>2. age[r] >= Period[r]
    BY <1>1, <2>1 DEF Inv, StillDue
  <2>3. age[r] <= since[r]
    BY <1>1 DEF Inv, Marked
  <2> QED
    BY <1>1, <2>2, <2>3, Constants DEF Inv, TypeOK
<1>2. Inv => \A c \in Cycles, r \in EveryRoutines :
               Submits(c, r) => since[r] >= Period[r] \/ clash \/ r \in unmarked
  BY <1>1
<1> QED
  BY <1>2, InvHolds, PTL DEF EverySpaced

----------------------------------------------------------------------------
(* Promptness: how long a routine may have been waiting.                    *)

\* A submission of a day whose limit has been reached was begun before.
BegunBefore == \A c \in Cycles : pc[c] = "submit" /\ Full(day[c]) => c \in ended

\* The timer's last cycle has come past r.
Passed(r) == pc[Timer] = "off" \/ \E i \in 1 .. Len(Order) : i < pos[Timer] /\ Order[i] = r

\* Time since the timer began the last cycle that has come past r.
Lag(r) == wait + IF Passed(r) THEN 0 ELSE Interval

TimerAgrees ==
    /\ Running(Timer) => wait <= Slack
    /\ day[Timer] = 1 => time < wait
    /\ \A c \in Cycles : pc[c] = "off" => pos[c] = 1

\* The marker is at most Slack younger than the submission, and had not reached the period
\* when the timer's cycle came past.
EveryAgrees == \A r \in EveryRoutines \ hindered :
    /\ age[r] = Period[r] \/ since[r] <= age[r] + Slack
    /\ since[r] <= Period[r] + Slack + Lag(r)

\* The timer's cycle that came past a routine not submitted today began before its target.
AtAgrees ==
    /\ \A r \in AtRoutines : 0 \in marked[r] => ran[r] > 0
    /\ \A c \in Cycles : pc[c] = "touch" /\ day[c] = 0 /\ Routine(c) \in AtRoutines =>
           ran[Routine(c)] > 0
    /\ \A r \in AtRoutines \ hindered : ran[r] = 0 => time < Target[r] + Lag(r)

PromptInv == BegunBefore /\ TimerAgrees /\ EveryAgrees /\ AtAgrees

\* The sizes the sums below are made of.
LEMMA Sizes == Interval \in Nat /\ Slack \in Nat /\ \A r \in EveryRoutines : Period[r] \in Nat
BY Constants

\* What the timer still has to do before it comes past a routine takes no more than the
\* interval and the slack of one cycle.
LEMMA LagBounds ==
    ASSUME Inv, TimerAgrees, NEW r
    PROVE  /\ Lag(r) \in Nat /\ wait \in Nat
           /\ wait <= Lag(r) /\ Lag(r) <= wait + Interval
           /\ Lag(r) <= Interval + Slack
<1>1. wait \in 0 .. Interval
  BY DEF Inv, TypeOK
<1>2. Lag(r) = wait \/ Lag(r) = wait + Interval
  BY <1>1, Sizes DEF Lag
<1>3. wait <= Slack \/ Lag(r) = wait
  <2>1. CASE Running(Timer)
    BY <2>1 DEF TimerAgrees
  <2>2. CASE ~Running(Timer)
    <3>1. Passed(r)
      BY <2>2 DEF Passed, Running
    <3> QED
      BY <1>1, <3>1, Sizes DEF Lag
  <2> QED
    BY <2>1, <2>2
<1> QED
  BY <1>1, <1>2, <1>3, Sizes

\* The timer has just been started, and every marker is taken to be old.
LEMMA PromptStarts == Init => PromptInv
<1> SUFFICES ASSUME Init PROVE PromptInv
  OBVIOUS
<1> USE Constants DEF Init
<1>1. BegunBefore
  BY DEF BegunBefore
<1>2. TimerAgrees
  BY DEF TimerAgrees, Running, Cycles
<1>3. EveryAgrees
  BY DEF EveryAgrees, Lag, Passed, Cycles
<1>4. AtAgrees
  BY DEF AtAgrees
<1> QED
  BY <1>1, <1>2, <1>3, <1>4 DEF PromptInv

\* Time passes for the timer and the routines alike.
LEMMA TimePrompt ==
    ASSUME Inv, PromptInv, Tick \/ Midnight
    PROVE  PromptInv'
<1>t. /\ time \in 0 .. Day - 1 /\ wait \in 0 .. Interval
      /\ Timer \in Cycles /\ pc[Timer] \in {"off", "enter", "look", "submit", "touch"}
      /\ day \in [Cycles -> {0, 1}] /\ outs \in [Days -> 0 .. Limit]
  BY DEF Inv, TypeOK, Cycles
<1>1. /\ wait' = wait + 1 /\ pc' = pc /\ pos' = pos /\ ended' = ended /\ MayPass
      /\ \A r \in EveryRoutines : r \notin hindered' => r \notin hindered
  BY Constants DEF Tick, Midnight, GrowOlder
<1>2. /\ wait < Interval
      /\ Running(Timer) => wait < Slack
  BY <1>1, <1>t, Constants DEF MayPass, Least
<1>3. \A r : Passed(r)' <=> Passed(r)
  BY <1>1 DEF Passed
<1>4. BegunBefore'
  <2>1. CASE Tick
    BY <1>1, <2>1 DEF PromptInv, BegunBefore, Full, Tick
  <2>2. CASE Midnight
    <3>1. \A c \in Cycles : pc[c] = "submit" => day[c] = 0 /\ day'[c] = 1
      BY <1>1, <2>2 DEF Midnight, Running
    <3>2. outs'[1] = outs[0]
      BY <2>2 DEF Midnight, Days
    <3> QED
      BY <1>1, <3>1, <3>2 DEF PromptInv, BegunBefore, Full
  <2> QED
    BY <2>1, <2>2
<1>5. TimerAgrees'
  <2>1. day'[Timer] = 1 => time' < wait'
    <3>1. CASE Tick
      BY <1>t, <1>1, <3>1 DEF PromptInv, TimerAgrees, Tick
    <3>2. CASE Midnight
      BY <1>t, <1>1, <3>2 DEF Midnight
    <3> QED
      BY <3>1, <3>2
  <2>2. Running(Timer)' => wait' <= Slack
    BY <1>t, <1>1, <1>2, Constants DEF Running
  <2> QED
    BY <1>1, <2>1, <2>2 DEF PromptInv, TimerAgrees
<1>6. EveryAgrees'
  <2> SUFFICES ASSUME NEW r \in EveryRoutines, r \notin hindered'
               PROVE  /\ age'[r] = Period[r] \/ since'[r] <= age'[r] + Slack
                      /\ since'[r] <= Period[r] + Slack + Lag(r)'
    BY DEF EveryAgrees
  <2>1. /\ age[r] \in Nat /\ since[r] \in Nat /\ Period[r] \in Nat /\ SinceMax(r) \in Nat
        /\ age[r] <= Period[r]
    BY Constants DEF Inv, TypeOK
  <2>2. age'[r] = Least(age[r] + 1, Period[r]) /\ since'[r] = Least(since[r] + 1, SinceMax(r))
    BY DEF Tick, Midnight, GrowOlder
  <2>3. since'[r] <= since[r] + 1 /\ (age'[r] = Period[r] \/ age'[r] = age[r] + 1)
        /\ since'[r] \in Nat
    BY <2>1, <2>2 DEF Least
  <2>4. age[r] = Period[r] => age'[r] = Period[r]
    BY <2>1, <2>2 DEF Least
  <2>5. /\ age[r] = Period[r] \/ since[r] <= age[r] + Slack
        /\ since[r] <= Period[r] + Slack + Lag(r)
    BY <1>1 DEF PromptInv, EveryAgrees
  <2>6. Lag(r)' = Lag(r) + 1 /\ Lag(r) \in Int
    BY <1>t, <1>1, <1>3, Constants DEF Lag
  <2>7. age'[r] = Period[r] \/ since'[r] <= age'[r] + Slack
    BY <2>1, <2>3, <2>4, <2>5, Sizes
  <2>8. since'[r] <= Period[r] + Slack + Lag(r)'
    BY <2>1, <2>3, <2>5, <2>6, Sizes
  <2> QED
    BY <2>7, <2>8
<1>7. AtAgrees'
  <2>1. \A r : Lag(r)' = Lag(r) + 1 /\ Lag(r) \in Int /\ Lag(r) >= 0
    BY <1>t, <1>1, <1>3, Constants DEF Lag
  <2>2. \A r \in AtRoutines : Target[r] \in Nat
    BY DispatchAssumption DEF AtRoutines
  <2>3. CASE Tick
    BY <1>t, <1>1, <2>1, <2>2, <2>3 DEF PromptInv, AtAgrees, Routine, Tick
  <2>4. CASE Midnight
    <3>1. /\ \A r \in AtRoutines : 0 \notin marked'[r]
          /\ \A c \in Cycles : pc[c] = "touch" => day'[c] = 1
          /\ time' = 0
      BY <2>4 DEF Midnight
    <3> QED
      BY <1>1, <2>1, <2>2, <3>1 DEF AtAgrees
  <2> QED
    BY <2>3, <2>4
<1> QED
  BY <1>4, <1>5, <1>6, <1>7 DEF PromptInv

\* The timer starts a cycle when Interval has passed: what came past all, comes past none.
LEMMA BeginPrompt ==
    ASSUME Inv, PromptInv, NEW c \in Cycles, Begin(c)
    PROVE  PromptInv'
<1>t. /\ pc \in [Cycles -> {"off", "enter", "look", "submit", "touch"}]
      /\ wait \in 0 .. Interval /\ Timer \in Cycles
  BY DEF Inv, TypeOK, Cycles
<1>1. /\ UNCHANGED <<time, marked, age, outs, pos, day, ran, since, ended, hindered>>
      /\ pc[c] = "off" /\ pc'[c] = "enter" /\ \A b \in Cycles \ {c} : pc'[b] = pc[b]
      /\ c = Timer => wait = Interval /\ wait' = 0
      /\ c # Timer => wait' = wait
  BY <1>t DEF Begin, Running, files
<1>2. BegunBefore'
  BY <1>1 DEF PromptInv, BegunBefore, Full
<1>3. TimerAgrees'
  <2>1. pos[c] = 1 /\ day[c] = 0
    BY <1>1 DEF PromptInv, TimerAgrees, Inv, AtRest
  <2>2. CASE c = Timer
    BY <1>1, <2>1, <2>2, Constants DEF PromptInv, TimerAgrees, Running
  <2>3. CASE c # Timer
    BY <1>1, <1>t, <2>3 DEF PromptInv, TimerAgrees, Running
  <2> QED
    BY <2>2, <2>3
<1>4. \A r : Lag(r)' = Lag(r)
  <2> TAKE r
  <2>1. CASE c = Timer
    <3>1. Passed(r) /\ ~Passed(r)'
      BY <1>1, <2>1, Constants DEF PromptInv, TimerAgrees, Passed
    <3> QED
      BY <1>1, <2>1, <3>1, Constants DEF Lag
  <2>2. CASE c # Timer
    <3>1. Passed(r)' <=> Passed(r)
      BY <1>1, <1>t, <2>2 DEF Passed
    <3> QED
      BY <1>1, <2>2, <3>1 DEF Lag
  <2> QED
    BY <2>1, <2>2
<1>5. EveryAgrees'
  BY <1>1, <1>4 DEF PromptInv, EveryAgrees
<1>6. AtAgrees'
  BY <1>1, <1>4 DEF PromptInv, AtAgrees, Routine
<1> QED
  BY <1>2, <1>3, <1>5, <1>6 DEF PromptInv

\* A cycle that ends has come past every routine, or hinders them all.
LEMMA LeavePrompt ==
    ASSUME Inv, PromptInv, NEW c \in Cycles, Leave(c),
           UNCHANGED <<time, wait, files, ran, since>>,
           \A b \in Cycles \ {c} : b \in ended => b \in ended',
           hindered' = Routines \/ (hindered' = hindered /\ pos[c] > Len(Order))
    PROVE  PromptInv'
<1>1. /\ pc'[c] = "off" /\ pos'[c] = 1 /\ day'[c] = 0
      /\ \A b \in Cycles \ {c} : pc'[b] = pc[b] /\ pos'[b] = pos[b] /\ day'[b] = day[b]
      /\ UNCHANGED <<marked, age, outs>> /\ Timer \in Cycles
  BY DEF Inv, TypeOK, Leave, files, Cycles
<1>2. BegunBefore'
  BY <1>1 DEF PromptInv, BegunBefore, Full
<1>3. TimerAgrees'
  BY <1>1 DEF PromptInv, TimerAgrees, Running
<1>4. \A r \in Routines : r \notin hindered' => r \notin hindered /\ Lag(r)' = Lag(r)
  <2> SUFFICES ASSUME NEW r \in Routines, r \notin hindered'
               PROVE  r \notin hindered /\ Lag(r)' = Lag(r)
    OBVIOUS
  <2>1. hindered' = hindered /\ pos[c] > Len(Order)
    OBVIOUS
  <2>2. Passed(r)' <=> Passed(r)
    <3>1. CASE c = Timer
      <4>1. PICK i \in 1 .. Len(Order) : Order[i] = r
        BY Constants
      <4>2. i < pos[Timer]
        BY <2>1, <3>1, <4>1, Constants DEF Inv, TypeOK
      <4> QED
        BY <1>1, <3>1, <4>1, <4>2 DEF Passed
    <3>2. CASE c # Timer
      BY <1>1, <3>2 DEF Passed
    <3> QED
      BY <3>1, <3>2
  <2> QED
    BY <2>1, <2>2 DEF Lag
<1>5. EveryAgrees'
  BY <1>1, <1>4 DEF PromptInv, EveryAgrees, Routines
<1>6. AtAgrees'
  <2>1. \A b \in Cycles : pc'[b] = "touch" =>
            pc[b] = "touch" /\ Routine(b)' = Routine(b) /\ day'[b] = day[b]
    BY <1>1 DEF Routine
  <2> QED
    BY <1>1, <1>4, <2>1 DEF PromptInv, AtAgrees, Routines
<1> QED
  BY <1>2, <1>3, <1>5, <1>6 DEF PromptInv

\* A cycle that stays at its routine.
LEMMA StayPrompt ==
    ASSUME Inv, PromptInv, NEW c \in Cycles,
           (Enter(c) /\ ~Full(0)) \/ Choose(c) \/ SubmitSucceeds(c)
    PROVE  PromptInv'
<1>1. PICK step \in {"look", "submit", "touch"} :
          /\ pc[c] # "off" /\ pc' = [pc EXCEPT ![c] = step]
          /\ step = "submit" => ~Full(day[c])
          /\ step = "touch" => SubmitSucceeds(c)
          /\ step # "touch" => UNCHANGED <<ran, since, hindered, ended>>
  BY DEF Enter, Choose, SubmitSucceeds, Looking, history
<1>2. /\ UNCHANGED <<time, wait, marked, age, outs, pos, day>>
      /\ pc'[c] = step /\ \A b \in Cycles \ {c} : pc'[b] = pc[b]
      /\ Timer \in Cycles
  BY <1>1 DEF Enter, Choose, SubmitSucceeds, Inv, TypeOK, files, Cycles
<1>3. BegunBefore'
  <2>1. \A b \in Cycles \ {c} : b \in ended => b \in ended'
    BY <1>1 DEF SubmitSucceeds
  <2> QED
    BY <1>1, <1>2, <2>1 DEF PromptInv, BegunBefore, Full
<1>4. TimerAgrees'
  BY <1>1, <1>2 DEF PromptInv, TimerAgrees, Running
<1>5. \A r : Lag(r)' = Lag(r)
  BY <1>1, <1>2 DEF Lag, Passed
<1>6. CASE step # "touch"
  <2>1. EveryAgrees'
    BY <1>1, <1>2, <1>5, <1>6 DEF PromptInv, EveryAgrees
  <2>2. AtAgrees'
    BY <1>1, <1>2, <1>5, <1>6 DEF PromptInv, AtAgrees, Routine
  <2> QED
    BY <1>3, <1>4, <2>1, <2>2 DEF PromptInv
<1>7. CASE SubmitSucceeds(c)
  <2>1. /\ \A q \in EveryRoutines : q # Routine(c) => since'[q] = since[q]
        /\ Routine(c) \in EveryRoutines => since'[Routine(c)] = 0
        /\ \A q \in AtRoutines : ran'[q] # 0 \/ (ran'[q] = ran[q] /\ q # Routine(c))
        /\ hindered' = hindered \ ({Routine(c)} \cap EveryRoutines)
    <3>1. \A q \in AtRoutines : Least(ran[q] + 1, 2) # 0
      <4>1. \A q \in AtRoutines : ran[q] \in 0 .. 2
        BY DEF Inv, TypeOK
      <4> QED
        BY <4>1 DEF Least
    <3> QED
      BY <1>7, <3>1 DEF SubmitSucceeds, Routine
  <2>2. EveryAgrees'
    <3>1. \A q \in EveryRoutines : age[q] \in Nat /\ Period[q] \in Nat /\ Lag(q) \in Nat
      BY Constants DEF Inv, TypeOK, Lag
    <3> QED
      BY <1>2, <1>5, <2>1, <3>1, Constants DEF PromptInv, EveryAgrees
  <2>3. AtAgrees'
    <3>1. \A q \in AtRoutines : ran'[q] \in 0 .. 2 /\ ran[q] \in 0 .. 2
      <4>1. \A q \in AtRoutines : ran[q] \in 0 .. 2
        BY DEF Inv, TypeOK
      <4>2. \A q \in AtRoutines : Least(ran[q] + 1, 2) \in 0 .. 2
        BY <4>1 DEF Least
      <4> QED
        BY <1>7, <4>1, <4>2 DEF SubmitSucceeds
    <3>2. \A q \in AtRoutines : ran[q] > 0 => ran'[q] > 0
      BY <2>1, <3>1
    <3>3. \A q \in AtRoutines : ran'[q] = 0 => ran[q] = 0
      BY <2>1
    <3>4. \A q \in AtRoutines : q \notin hindered' => q \notin hindered
      BY <2>1, Constants
    <3>5. \A b \in Cycles : Routine(b)' = Routine(b)
      BY <1>2 DEF Routine
    <3>6. Routine(c) \in AtRoutines => ran'[Routine(c)] > 0
      BY <2>1, <3>1
    <3>7. \A b \in Cycles : pc'[b] = "touch" => b = c \/ pc[b] = "touch"
      BY <1>2
    <3> QED
      BY <1>2, <1>5, <3>2, <3>3, <3>4, <3>5, <3>6, <3>7 DEF PromptInv, AtAgrees
  <2> QED
    BY <1>3, <1>4, <2>2, <2>3 DEF PromptInv
<1> QED
  BY <1>1, <1>6, <1>7

\* A cycle goes on to its next routine.
LEMMA ProceedPrompt ==
    ASSUME Inv, PromptInv, NEW c \in Cycles,
           SkipFull(c) \/ SkipNotDue(c) \/ SubmitFails(c) \/ Touch(c)
    PROVE  PromptInv'
<1> DEFINE q == Routine(c)
<1>t. /\ time \in 0 .. Day - 1 /\ wait \in Nat /\ Timer \in Cycles
      /\ day[c] \in {0, 1} /\ pos[c] \in 1 .. Len(Order)
      /\ \A r \in EveryRoutines : age[r] \in Nat /\ since[r] \in Nat /\ Period[r] \in Nat
                                  /\ age[r] <= Period[r]
      /\ \A r \in AtRoutines : Target[r] \in Nat /\ ran[r] \in 0 .. 2
  <2>1. \A r \in AtRoutines : Target[r] \in Nat
    BY DispatchAssumption DEF AtRoutines
  <2> QED
    BY <2>1, Constants DEF Inv, TypeOK, Cycles, SkipFull, SkipNotDue, SubmitFails, Touch, Looking
<1>1. /\ UNCHANGED <<time, wait, outs, day, ran, since>>
      /\ pc[c] \in {"look", "submit", "touch"} /\ pc'[c] = "look" /\ pos'[c] = pos[c] + 1
      /\ \A b \in Cycles \ {c} : pc'[b] = pc[b] /\ pos'[b] = pos[b]
      /\ \A b \in Cycles \ {c} : b \in ended => b \in ended'
      /\ hindered \subseteq hindered'
  BY DEF SkipFull, SkipNotDue, SubmitFails, Touch, Proceed, Looking, Inv, TypeOK, files, history
<1>2. \/ q \in hindered'
      \/ SkipNotDue(c) /\ UNCHANGED <<marked, age>> /\ ~Due(q, day[c])
      \/ Touch(c) /\ (q \in EveryRoutines => since[q] <= Slack)
  <2>1. CASE SkipFull(c) \/ SubmitFails(c)
    BY <2>1 DEF SkipFull, SubmitFails, Routine
  <2>2. CASE SkipNotDue(c)
    BY <2>2 DEF SkipNotDue, Routine, files
  <2>3. CASE Touch(c)
    <3>1. hindered' = hindered \cup {r \in EveryRoutines \cap {q} : since[r] > Slack}
      BY <2>3 DEF Touch, Routine
    <3>2. q \in EveryRoutines => q \in hindered' \/ since[q] <= Slack
      BY <1>t, <3>1, Constants
    <3> QED
      BY <2>3, <3>2
  <2> QED
    BY <2>1, <2>2, <2>3
<1>3. /\ \A r \in EveryRoutines : age'[r] = age[r] \/ (Touch(c) /\ r = q /\ age'[r] = 0)
      /\ \A r \in AtRoutines :
             marked'[r] = marked[r] \/ (Touch(c) /\ r = q /\ marked'[r] = marked[r] \cup {day[c]})
  <2>1. CASE SkipFull(c) \/ SubmitFails(c) \/ SkipNotDue(c)
    BY <2>1 DEF SkipFull, SubmitFails, SkipNotDue, files
  <2>2. CASE Touch(c)
    BY <2>2 DEF Touch, Routine, Inv, TypeOK
  <2> QED
    BY <2>1, <2>2
<1>q. q = Order[pos[c]] /\ q \in Routines
  BY <1>t, Constants DEF Routine
<1>h. Touch(c) => pc[c] = "touch"
  BY DEF Touch
<1> HIDE DEF q
<1>4. BegunBefore'
  BY <1>1 DEF PromptInv, BegunBefore, Full
<1>5. TimerAgrees'
  BY <1>1, <1>t DEF PromptInv, TimerAgrees, Running
<1>6. \A r \in Routines : Lag(r)' = Lag(r) \/ (c = Timer /\ r = q /\ Lag(r)' = wait)
  <2> SUFFICES ASSUME NEW r \in Routines
               PROVE  (Passed(r)' <=> Passed(r)) \/ (c = Timer /\ r = q /\ Passed(r)')
    BY <1>1, <1>t DEF Lag
  <2>1. CASE c = Timer
    <3>1. pc[Timer] # "off" /\ pc'[Timer] # "off" /\ pos'[Timer] = pos[Timer] + 1
      BY <1>1, <2>1
    <3>2. \A i \in 1 .. Len(Order) : i < pos'[Timer] <=> i < pos[Timer] \/ i = pos[Timer]
      BY <1>t, <2>1, <3>1
    <3> QED
      BY <1>q, <1>t, <2>1, <3>1, <3>2 DEF Passed
  <2>2. CASE c # Timer
    BY <1>1, <1>t, <2>2 DEF Passed
  <2> QED
    BY <2>1, <2>2
<1>7. \A r : wait <= Lag(r) /\ Lag(r) <= wait + Interval /\ Lag(r) \in Nat
  BY LagBounds DEF PromptInv
<1>8. EveryAgrees'
  <2> SUFFICES ASSUME NEW r \in EveryRoutines, r \notin hindered'
               PROVE  /\ age'[r] = Period[r] \/ since[r] <= age'[r] + Slack
                      /\ since[r] <= Period[r] + Slack + Lag(r)'
    BY <1>1 DEF EveryAgrees
  <2>1. /\ age[r] = Period[r] \/ since[r] <= age[r] + Slack
        /\ since[r] <= Period[r] + Slack + Lag(r)
    BY <1>1 DEF PromptInv, EveryAgrees
  <2>2. Lag(r)' = Lag(r) \/ (c = Timer /\ r = q /\ Lag(r)' = wait)
    BY <1>6 DEF Routines
  <2>3. CASE r # q
    BY <1>3, <2>1, <2>2, <2>3
  <2>4. CASE r = q /\ Touch(c)
    <3>1. since[r] <= Slack /\ (age'[r] = age[r] \/ age'[r] = 0)
      BY <1>2, <1>3, <2>4 DEF Touch, SkipNotDue, Looking
    <3> QED
      BY <1>t, <1>7, <2>1, <2>2, <3>1, Sizes
  <2>5. CASE r = q /\ SkipNotDue(c)
    <3>1. age[r] < Period[r] /\ age'[r] = age[r]
      BY <1>2, <1>h, <1>t, <2>5 DEF Due, SkipNotDue, Looking
    <3>2. age[r] \in Nat /\ since[r] \in Nat /\ Period[r] \in Nat
      BY Sizes DEF Inv, TypeOK
    <3>3. since[r] <= age'[r] + Slack
      BY <2>1, <3>1, <3>2
    <3>4. since[r] < Period[r] + Slack
      BY <3>1, <3>2, <3>3, Sizes
    <3>5. Lag(r)' \in Nat
      <4>1. Lag(r) \in Nat /\ wait \in Nat
        BY LagBounds DEF PromptInv
      <4> QED
        BY <2>2, <4>1
    <3> QED
      BY <3>2, <3>3, <3>4, <3>5, Sizes
  <2> QED
    BY <1>2, <2>3, <2>4, <2>5
<1>9. AtAgrees'
  <2>1. ASSUME NEW r \in AtRoutines, 0 \in marked'[r] PROVE ran'[r] > 0
    <3>1. CASE marked'[r] = marked[r]
      BY <1>1, <2>1, <3>1 DEF PromptInv, AtAgrees
    <3>2. CASE Touch(c) /\ r = q /\ marked'[r] = marked[r] \cup {day[c]}
      BY <1>1, <1>h, <2>1, <3>2 DEF PromptInv, AtAgrees, q
    <3> QED
      BY <1>3, <3>1, <3>2
  <2>2. \A b \in Cycles : pc'[b] = "touch" =>
            pc[b] = "touch" /\ Routine(b)' = Routine(b) /\ day'[b] = day[b]
    BY <1>1 DEF Routine
  <2>3. ASSUME NEW r \in AtRoutines, r \notin hindered', ran'[r] = 0
        PROVE  time' < Target[r] + Lag(r)'
    <3>1. time < Target[r] + Lag(r) /\ ran[r] = 0 /\ time' = time
      BY <1>1, <2>3 DEF PromptInv, AtAgrees
    <3>2. Lag(r)' = Lag(r) \/ (c = Timer /\ r = q /\ Lag(r)' = wait)
      BY <1>6 DEF Routines
    <3>3. ASSUME c = Timer, r = q PROVE time < Target[r] + wait
      <4>1. CASE day[c] = 1
        BY <1>t, <3>3, <4>1 DEF PromptInv, TimerAgrees
      <4>2. CASE day[c] = 0
        <5>1. 0 \notin marked[r]
          BY <1>t, <3>1 DEF PromptInv, AtAgrees
        <5>2. ~Touch(c)
          BY <1>h, <1>t, <3>1, <3>3, <4>2 DEF PromptInv, AtAgrees, q
        <5>3. ~InWindow(r)
          BY <1>2, <2>3, <3>3, <4>2, <5>1, <5>2 DEF Due
        <5>4. wait <= Slack
          BY <1>1, <3>3 DEF PromptInv, TimerAgrees, Running
        <5> QED
          BY <1>t, <1>7, <3>1, <5>3, <5>4, Constants DEF InWindow, Window
      <4> QED
        BY <1>t, <4>1, <4>2
    <3> QED
      BY <3>1, <3>2, <3>3
  <2> QED
    BY <1>1, <2>1, <2>2, <2>3 DEF PromptInv, AtAgrees
<1> QED
  BY <1>4, <1>5, <1>8, <1>9 DEF PromptInv

\* Runs write outputs, whatever the cycles do.
LEMMA OutputPrompt ==
    ASSUME Inv, PromptInv, NEW d \in Days, WriteOutput(d)
    PROVE  PromptInv'
<1>1. /\ UNCHANGED <<time, wait, marked, age, pc, pos, day, ran, since, hindered>>
      /\ ended' = {c \in Cycles : pc[c] = "submit"}
  BY DEF WriteOutput, cycle
<1>2. BegunBefore'
  BY <1>1 DEF BegunBefore
<1>3. TimerAgrees'
  BY <1>1 DEF PromptInv, TimerAgrees, Running
<1>4. EveryAgrees' /\ AtAgrees'
  BY <1>1 DEF PromptInv, EveryAgrees, AtAgrees, Lag, Passed, Routine
<1> QED
  BY <1>2, <1>3, <1>4 DEF PromptInv

\* Every step keeps the routines prompt.
LEMMA StepPrompt == Inv /\ PromptInv /\ [Next]_vars => PromptInv'
<1> SUFFICES ASSUME Inv, PromptInv, [Next]_vars PROVE PromptInv'
  OBVIOUS
<1>1. CASE UNCHANGED vars
  BY <1>1 DEF vars, files, cycle, history, PromptInv, BegunBefore, TimerAgrees, EveryAgrees,
              AtAgrees, Lag, Passed, Routine, Running, Full
<1>2. CASE Tick \/ Midnight
  BY <1>2, TimePrompt
<1>3. ASSUME NEW d \in Days, WriteOutput(d) PROVE PromptInv'
  BY <1>3, OutputPrompt
<1>4. ASSUME NEW c \in Cycles, Begin(c) PROVE PromptInv'
  BY <1>4, BeginPrompt
<1>5. ASSUME NEW c \in Cycles, EndCycle(c) \/ Abort(c) \/ Enter(c) PROVE PromptInv'
  <2>1. CASE EndCycle(c)
    BY <2>1, LeavePrompt DEF EndCycle, history
  <2>2. CASE Abort(c)
    BY <2>2, LeavePrompt DEF Abort
  <2>3. CASE Enter(c) /\ Full(0)
    BY <2>3, LeavePrompt DEF Enter
  <2>4. CASE Enter(c) /\ ~Full(0)
    BY <2>4, StayPrompt
  <2> QED
    BY <1>5, <2>1, <2>2, <2>3, <2>4
<1>6. ASSUME NEW c \in Cycles, Choose(c) \/ SubmitSucceeds(c) PROVE PromptInv'
  BY <1>6, StayPrompt
<1>7. ASSUME NEW c \in Cycles, SkipFull(c) \/ SkipNotDue(c) \/ SubmitFails(c) \/ Touch(c)
      PROVE  PromptInv'
  BY <1>7, ProceedPrompt
<1> QED
  BY <1>1, <1>2, <1>3, <1>4, <1>5, <1>6, <1>7 DEF Next

\* How long a routine may have been waiting, in every reachable state.
THEOREM PromptHolds == Spec => [](Inv /\ PromptInv)
<1> QED
  BY InitInv, StepInv, PromptStarts, StepPrompt, PTL DEF Spec

\* No cycle submits a routine on a day whose limit has been reached, but for a submission it
\* had begun before: the limit is looked at before every choice.
THEOREM LimitIsKept == Spec => LimitStops
<1>1. PromptInv => \A c \in Cycles, r \in Routines :
                       Submits(c, r) /\ Full(day[c]) => c \in ended
  BY DEF PromptInv, BegunBefore, Submits
<1> QED
  BY <1>1, PromptHolds, PTL DEF LimitStops

\* A routine with a period is submitted in time, whatever the periods and the interval of
\* the timer, unless a cycle was hindered.
THEOREM EverySubmitted == Spec => []EveryInTime
<1>1. ASSUME Inv, PromptInv, NEW r \in EveryRoutines, r \notin hindered
      PROVE  since[r] <= Period[r] + Interval + 2 * Slack
  <2>1. since[r] \in Nat /\ Period[r] \in Nat
    BY <1>1, Constants DEF Inv, TypeOK
  <2>2. since[r] <= Period[r] + Slack + Lag(r)
    BY <1>1 DEF PromptInv, EveryAgrees
  <2>3. Lag(r) \in Nat /\ Lag(r) <= Interval + Slack
    BY <1>1, LagBounds DEF PromptInv
  <2> QED
    BY <2>1, <2>2, <2>3, Sizes
<1>2. Inv /\ PromptInv => EveryInTime
  <2> SUFFICES ASSUME Inv, PromptInv, NEW r \in EveryRoutines,
                      since[r] > Period[r] + Interval + 2 * Slack, r \notin hindered
               PROVE  FALSE
    BY DEF EveryInTime
  <2>1. since[r] \in Nat /\ Period[r] \in Nat
    BY Constants DEF Inv, TypeOK
  <2> QED
    BY <1>1, <2>1, Sizes
<1> QED
  BY <1>2, PromptHolds, PTL

\* A routine with a time of day whose window ends before midnight is submitted every day,
\* whatever the targets and the interval of the timer, unless a cycle was hindered.
THEOREM AtRuns == Spec => AtRunsDaily
<1>1. ASSUME Inv, PromptInv, [Next]_vars, time' < time,
             NEW r \in AtRoutines, Fits(r), r \notin hindered
      PROVE  ran[r] > 0
  <2>1. /\ time \in 0 .. Day - 1 /\ wait \in 0 .. Interval /\ Target[r] \in Nat
        /\ ran[r] \in 0 .. 2
    <3>1. Target[r] \in Nat
      BY DispatchAssumption DEF AtRoutines
    <3> QED
      BY <1>1, <3>1 DEF Inv, TypeOK
  <2>2. Midnight
    <3>1. time' # time
      BY <1>1, <2>1
    <3>2. CASE Tick
      BY <1>1, <2>1, <3>2 DEF Tick
    <3> QED
      BY <1>1, <3>1, <3>2 DEF Next, vars, Begin, Enter, EndCycle, SkipFull, SkipNotDue, Choose,
         SubmitSucceeds, SubmitFails, Touch, Abort, WriteOutput
  <2>3. time = Day - 1 /\ wait < Interval /\ (Running(Timer) => wait < Slack)
    BY <2>1, <2>2, Constants DEF Midnight, MayPass, Least
  <2>4. SUFFICES ASSUME ran[r] = 0 PROVE FALSE
    BY <2>1
  <2>5. time < Target[r] + Lag(r)
    BY <1>1, <2>4 DEF PromptInv, AtAgrees
  <2>6. Lag(r) < Window
    <3>1. CASE Running(Timer)
      BY <2>1, <2>3, <3>1, Constants DEF Lag, Window
    <3>2. CASE ~Running(Timer)
      BY <2>1, <2>3, <3>2, Constants DEF Lag, Window, Passed, Running
    <3> QED
      BY <3>1, <3>2
  <2>7. Lag(r) \in Int /\ Window \in Int /\ Target[r] + Window <= Day
    BY <1>1, <2>1, Constants DEF Lag, Window, Fits
  <2> QED
    BY <2>1, <2>3, <2>5, <2>6, <2>7, Constants
<1>2. Inv /\ PromptInv /\ [Next]_vars =>
          (time' < time => \A r \in AtRoutines : Fits(r) /\ r \notin hindered => ran[r] > 0)
  BY <1>1
<1> QED
  BY <1>2, PromptHolds, PTL DEF AtRunsDaily, Spec
=============================================================================
