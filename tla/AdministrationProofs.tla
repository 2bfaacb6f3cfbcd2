------------------------ MODULE AdministrationProofs ------------------------
(***************************************************************************)
(* The operations on the configuration, for any groups, agents, channels,     *)
(* paths, processes and jobs, and any number of operations and faults.        *)
(***************************************************************************)
EXTENDS Administration, FiniteSetTheorems, TLAPS

Homes == Groups \X Agents \X Own
Uses == UNION {[P -> SUBSET (Own \cup Channels)] : P \in SUBSET (Groups \X Agents)}
PathMaps == UNION {[G -> Paths] : G \in SUBSET Groups}

LEMMA Constants ==
    /\ \A l \in Locks : Order[l] \in Nat
    /\ \A l, m \in Locks : l # m => Order[l] # Order[m]
    /\ \A l \in Paths, m \in Memories : Order[l] < Order[m]
    /\ Nobody \notin Procs /\ Nobody \notin Jobs /\ \A p \in Procs : p \notin Jobs
    /\ \A m \in Homes : m \notin Channels
    /\ MaxOps \in Nat /\ MaxFaults \in Nat
    /\ Initial \subseteq Configs
BY AdministrationAssumption, InitialAssumption DEF Homes

LEMMA PartialWith ==
    ASSUME NEW D, NEW R, NEW f \in UNION {[G -> R] : G \in SUBSET D}, NEW x \in D, NEW y \in R
    PROVE  With(f, x, y) \in UNION {[G -> R] : G \in SUBSET D}
<1>1. PICK G \in SUBSET D : f \in [G -> R]
  OBVIOUS
<1>2. With(f, x, y) \in [G \cup {x} -> R]
  BY <1>1 DEF With
<1>3. G \cup {x} \in SUBSET D
  BY <1>1
<1> QED BY <1>2, <1>3

LEMMA PartialKeep ==
    ASSUME NEW D, NEW R, NEW f \in UNION {[G -> R] : G \in SUBSET D}, NEW S
    PROVE  Keep(f, S) \in UNION {[G -> R] : G \in SUBSET D}
<1>1. PICK G \in SUBSET D : f \in [G -> R]
  OBVIOUS
<1>2. Keep(f, S) \in [G \cap S -> R]
  BY <1>1 DEF Keep
<1>3. G \cap S \in SUBSET D
  BY <1>1
<1> QED BY <1>2, <1>3

LEMMA RequestTyped ==
    ASSUME NEW r \in Requests
    PROVE  /\ r.kind \in {"submit", "move", "createAgent", "removeAgent", "createGroup", "saveGroup",
                          "deleteGroup", "select", "createChannel", "deleteChannel", "rekeyChannel"}
           /\ r.kind \in {"submit", "move", "createAgent", "removeAgent", "select"} =>
                r.group \in Groups /\ r.agent \in Agents
           /\ r.kind \in {"submit", "select"} => r.object \in Own \cup Channels
           /\ r.kind = "move" => r.object \in Groups /\ r.extra \in Modes
           /\ r.kind \in {"createGroup", "saveGroup"} => r.group \in Groups /\ r.object \in Paths
           /\ r.kind = "deleteGroup" => r.group \in Groups
           /\ r.kind \in {"createChannel", "deleteChannel", "rekeyChannel"} => r.object \in Channels
           /\ r.kind = "rekeyChannel" => r.extra \in Channels
BY DEF Requests, Request

LEMMA ConfigTyped ==
    ASSUME NEW c
    PROVE  c \in Configs <=>
             /\ c = [path |-> c.path, uses |-> c.uses, channels |-> c.channels]
             /\ c.path \in PathMaps /\ c.uses \in Uses /\ c.channels \in SUBSET Channels
BY DEF Configs, PathMaps, Uses

LEMMA UsesKeep == ASSUME NEW f \in Uses, NEW S PROVE Keep(f, S) \in Uses
<1> DEFINE D == Groups \X Agents
           R == SUBSET (Own \cup Channels)
<1>1. f \in UNION {[G -> R] : G \in SUBSET D}
  BY DEF Uses
<1> HIDE DEF D, R
<1>2. Keep(f, S) \in UNION {[G -> R] : G \in SUBSET D}
  BY <1>1, PartialKeep
<1> QED BY <1>2 DEF Uses, D, R

LEMMA PatchedType ==
    ASSUME NEW c \in Configs, NEW r \in Requests, Possible(c, r) \/ r.kind = "deleteChannel"
    PROVE  Patched(c, r) \in Configs
<1> DEFINE here == <<r.group, r.agent>>
           there == <<r.object, r.agent>>
           Others(P) == {p \in Groups \X Agents : p \notin P}
<1>1. c.path \in PathMaps /\ c.uses \in Uses /\ c.channels \in SUBSET Channels
  BY ConfigTyped
<1>2. CASE r.kind = "submit"
  BY <1>2 DEF Patched
<1>3. CASE r.kind = "createAgent"
  <2>1. here \in Groups \X Agents /\ {} \in SUBSET (Own \cup Channels)
    BY <1>3, RequestTyped
  <2>2. With(c.uses, here, {}) \in Uses
    BY <1>1, <2>1, PartialWith DEF Uses
  <2>3. Patched(c, r) = [c EXCEPT !.uses = With(c.uses, here, {})]
    BY <1>3 DEF Patched
  <2> QED BY <1>1, <2>2, <2>3 DEF Configs, Uses, PathMaps
<1>4. CASE r.kind = "removeAgent"
  <2>1. Keep(c.uses, Others({here})) \in Uses
    BY <1>1, UsesKeep
  <2>2. Patched(c, r) = [c EXCEPT !.uses = Keep(c.uses, Others({here}))]
    BY <1>4 DEF Patched
  <2> QED BY <1>1, <2>1, <2>2 DEF Configs, Uses, PathMaps
<1>5. CASE r.kind = "move"
  <2>1. there \in Groups \X Agents /\ here \in DOMAIN c.uses
    BY <1>5, RequestTyped DEF Possible
  <2>2. c.uses[here] \in SUBSET (Own \cup Channels)
    BY <1>1, <2>1 DEF Uses
  <2> DEFINE kept == Keep(c.uses, Others({here}))
             mine == c.uses[here]
  <2>3. kept \in Uses
    BY <1>1, UsesKeep
  <2>4. With(kept, there, mine) \in Uses
    <3> HIDE DEF kept, mine, there
    <3>1. mine \in SUBSET (Own \cup Channels)
      BY <2>2 DEF mine
    <3> QED BY <2>1, <2>3, <3>1, PartialWith DEF Uses
  <2>5. Patched(c, r) = [c EXCEPT !.uses = With(kept, there, mine)]
    BY <1>5 DEF Patched
  <2> QED BY <1>1, <2>4, <2>5 DEF Configs, Uses, PathMaps
<1>6. CASE r.kind \in {"createGroup", "saveGroup"}
  <2>1. With(c.path, r.group, r.object) \in PathMaps
    BY <1>1, <1>6, RequestTyped, PartialWith DEF PathMaps
  <2>2. Patched(c, r) = [c EXCEPT !.path = With(c.path, r.group, r.object)]
    BY <1>6 DEF Patched
  <2> QED BY <1>1, <2>1, <2>2 DEF Configs, Uses, PathMaps
<1>7. CASE r.kind = "deleteGroup"
  <2>1. Keep(c.path, Groups \ {r.group}) \in PathMaps
    BY <1>1, PartialKeep DEF PathMaps
  <2>2. Keep(c.uses, Others({r.group} \X Agents)) \in Uses
    BY <1>1, UsesKeep
  <2>3. Patched(c, r) = [c EXCEPT !.path = Keep(c.path, Groups \ {r.group}),
                                  !.uses = Keep(c.uses, Others({r.group} \X Agents))]
    BY <1>7 DEF Patched
  <2> QED BY <1>1, <2>1, <2>2, <2>3 DEF Configs, Uses, PathMaps
<1>8. CASE r.kind = "select"
  <2>1. r.object \in Own \cup Channels /\ here \in DOMAIN c.uses
    BY <1>8, RequestTyped DEF Possible
  <2>2. PICK P \in SUBSET (Groups \X Agents) : c.uses \in [P -> SUBSET (Own \cup Channels)]
    BY <1>1 DEF Uses
  <2> DEFINE new == IF r.object \in c.uses[here] THEN c.uses[here] \ {r.object}
                                                 ELSE c.uses[here] \cup {r.object}
             uses == [c.uses EXCEPT ![here] = new]
  <2>3. new \in SUBSET (Own \cup Channels)
    BY <2>1, <2>2
  <2>4. uses \in Uses
    <3> HIDE DEF new
    <3>1. uses \in [P -> SUBSET (Own \cup Channels)]
      BY <2>2, <2>3
    <3> QED BY <3>1 DEF Uses
  <2>5. Patched(c, r) = [c EXCEPT !.uses = uses]
    BY <1>8 DEF Patched, Configs
  <2> HIDE DEF uses
  <2> QED BY <1>1, <2>4, <2>5 DEF Configs, Uses, PathMaps
<1>9. CASE r.kind = "createChannel"
  BY <1>1, <1>9, RequestTyped DEF Patched, Configs, Uses, PathMaps
<1>10. CASE r.kind = "rekeyChannel"
  BY <1>1, <1>10, RequestTyped DEF Patched, Configs, Uses, PathMaps
<1>11. CASE r.kind = "deleteChannel"
  BY <1>1, <1>11, RequestTyped DEF Patched, Configs, Uses, PathMaps
<1> QED BY <1>2, <1>3, <1>4, <1>5, <1>6, <1>7, <1>8, <1>9, <1>10, <1>11, RequestTyped

LEMMA LocksTyped ==
    ASSUME NEW c \in Configs, NEW r \in Requests, GroupsNamed(c, r) \subseteq DOMAIN c.path
    PROVE  GroupLocks(c, r) \subseteq Paths
<1>1. c.path \in PathMaps
  BY ConfigTyped
<1>2. \A g \in DOMAIN c.path : c.path[g] \in Paths
  BY <1>1 DEF PathMaps
<1> QED BY <1>2, RequestTyped DEF GroupLocks

LEMMA MemoryLocksTyped ==
    ASSUME NEW r \in Requests, r.kind = "move" PROVE MemoryLocks(r) \subseteq Homes
BY RequestTyped DEF MemoryLocks, Owned, Homes

LEMMA JobTyped ==
    ASSUME NEW r \in Requests, r.kind = "submit" PROVE JobOf(r) \in JobRecords
BY RequestTyped DEF JobOf, JobRecords, Memories

----------------------------------------------------------------------------
(* What is so of an operation alone, at each of its steps.                   *)

Waiting == {"idle", "asked", "confirmed"}

RequestAgrees(o) ==
    /\ o.pc # "idle" => o.req \in Requests
    /\ o.pc \in {"confirmed", "blocking", "moving", "rollback"} => o.req.kind = "move"
    /\ o.pc \in {"archiving", "archived", "restoring"} => o.req.kind = "deleteChannel"
    /\ o.pc = "locked" => o.req.kind # "move"
    /\ o.pc = "loaded" /\ o.req.kind \in Unlocked => o.snap \in Configs
    /\ o.pc \in {"archived", "restoring"} => o.seen \in Values

NeedAgrees(o) ==
    /\ o.pc \notin {"loaded", "blocking"} => o.need = {}
    /\ o.pc = "loaded" => o.need \subseteq Paths
    /\ o.pc = "blocking" => o.need \subseteq Homes

    \* a move: the file of its form has the agent, and it knows what it has created
MoveAgrees(o) ==
    /\ o.pc \in {"asked", "loaded", "blocking", "moving", "rollback"} /\ o.req.kind = "move" =>
          o.form \in Configs /\ Possible(o.form, o.req)
    /\ o.pc \in {"blocking", "moving", "rollback"} => o.req.group # o.req.object
    /\ o.pc \in {"confirmed", "asked", "loaded", "blocking"} => o.made = {}
    /\ o.made \subseteq Own

Agrees(o) == o \in Operations /\ RequestAgrees(o) /\ NeedAgrees(o) /\ MoveAgrees(o)
OperationsAgree == \A p \in Procs : Agrees(proc[p])

    \* the steps of an operation change its own record, and of the locks its own
Frame(p) ==
    /\ \A q \in Procs : q # p => proc'[q] = proc[q]
    /\ DOMAIN proc' = Procs /\ proc' = [q \in Procs |-> proc'[q]]

LEMMA IdleAgrees == Agrees(Idle)
<1>1. Idle \in Operations
  BY DEF Idle, Operations, States, Values
<1> QED BY <1>1 DEF Idle, Agrees, RequestAgrees, NeedAgrees, MoveAgrees

LEMMA FinishAgrees ==
    ASSUME TypeOK, OperationsAgree, NEW p \in Procs, Finish(p)
    PROVE  Frame(p) /\ Agrees(proc'[p]) /\ proc'[p] = Idle
BY IdleAgrees DEF TypeOK, OperationsAgree, Finish, Frame

Became(p, new) == proc' = [proc EXCEPT ![p] = new]

LEMMA BecomesAgrees ==
    ASSUME TypeOK, NEW p \in Procs, NEW new, Agrees(new), Became(p, new)
    PROVE  Frame(p) /\ Agrees(proc'[p]) /\ proc'[p] = new
BY DEF TypeOK, Frame, Became

LEMMA SeenTyped ==
    ASSUME TypeOK, NEW r \in Requests, r.kind = "move" PROVE Seen(r) \in [Own -> Values]
<1>1. \A k \in Own : <<r.group, r.agent, k>> \in Memories
  BY RequestTyped DEF Memories
<1> QED BY <1>1 DEF TypeOK, Seen

Step(p) == Show(p) \/ Operation(p) \/ Die(p)

LEMMA StepAgrees ==
    ASSUME TypeOK, OperationsAgree, NEW p \in Procs, Step(p)
    PROVE  Frame(p) /\ Agrees(proc'[p])
<1> DEFINE o == proc[p]
           r == o.req
<1>o. Agrees(o) /\ o \in Operations
  BY DEF OperationsAgree, Agrees
<1>t. proc \in [Procs -> Operations]
  BY DEF TypeOK
<1>1. CASE Show(p)
  <2>1. PICK q \in Requests :
          proc' = [proc EXCEPT ![p] = [Idle EXCEPT !.pc = IF q.kind = "move" THEN "confirmed" ELSE "asked",
                                                   !.req = q, !.form = IF q.kind = "submit" THEN Absent ELSE cfg]]
    BY <1>1 DEF Show
  <2> DEFINE new == [Idle EXCEPT !.pc = IF q.kind = "move" THEN "confirmed" ELSE "asked",
                                 !.req = q, !.form = IF q.kind = "submit" THEN Absent ELSE cfg]
  <2>2. new \in Operations
    BY IdleAgrees DEF Agrees, Operations, States, TypeOK
  <2>3. /\ new.pc = IF q.kind = "move" THEN "confirmed" ELSE "asked"
        /\ new.req = q /\ new.need = {} /\ new.made = {}
    BY DEF Idle
  <2>4. Became(p, new)
    BY <2>1 DEF Became
  <2>5. Agrees(new)
    <3> HIDE DEF new
    <3> QED BY <2>2, <2>3 DEF Agrees, RequestAgrees, NeedAgrees, MoveAgrees
  <2> HIDE DEF new
  <2> QED BY <2>4, <2>5, BecomesAgrees
<1>2. CASE Load(p)
  <2>1. CASE r.kind \in Unlocked \/ GroupsNamed(cfg, r) \subseteq DOMAIN cfg.path
    <3> DEFINE snap == IF r.kind \in Bound \cup Unlocked THEN cfg ELSE Absent
               need == IF r.kind \in Unlocked THEN {} ELSE GroupLocks(cfg, r)
               new == [o EXCEPT !.pc = "loaded", !.snap = snap, !.need = need]
    <3>1. r \in Requests /\ o.pc = "asked"
      BY <1>2, <1>o DEF Load, Agrees, RequestAgrees
    <3>2. need \in SUBSET Paths /\ snap \in Configs \cup {Absent}
      BY <2>1, <3>1, LocksTyped DEF TypeOK
    <3>3. r.kind \in Unlocked => snap = cfg /\ cfg \in Configs
      BY DEF TypeOK
    <3>4. Became(p, new)
      BY <1>2, <2>1, <1>t DEF Load, Became
    <3>5. Agrees(new)
      <4> HIDE DEF snap, need
      <4>1. new \in Operations
        BY <1>o, <3>2 DEF Operations, States, Locks
      <4>2. /\ new.pc = "loaded" /\ new.req = r /\ new.snap = snap /\ new.need = need
            /\ new.form = o.form /\ new.made = o.made
        BY <1>o DEF Operations
      <4> HIDE DEF new, o
      <4> QED BY <1>o, <3>1, <3>2, <3>3, <4>1, <4>2 DEF Agrees, RequestAgrees, NeedAgrees, MoveAgrees
    <3> HIDE DEF new
    <3> QED BY <3>4, <3>5, BecomesAgrees
  <2>2. CASE ~(r.kind \in Unlocked \/ GroupsNamed(cfg, r) \subseteq DOMAIN cfg.path)
    <3>1. Finish(p)
      BY <1>2, <2>2 DEF Load
    <3> QED BY <3>1, FinishAgrees
  <2> QED BY <2>1, <2>2
<1>3. CASE Preview(p)
  <2>1. CASE Finish(p)
    BY <2>1, FinishAgrees
  <2>2. CASE ~Finish(p)
    <3> DEFINE new == [o EXCEPT !.pc = "asked", !.seen = Seen(r)]
    <3>1. /\ SavePossible(p, cfg) /\ o.pc = "confirmed" /\ r.kind = "move"
          /\ proc' = [proc EXCEPT ![p].pc = "asked", ![p].seen = Seen(r)]
      BY <1>3, <2>2 DEF Preview, At
    <3>2. r \in Requests /\ o.made = {} /\ o.need = {}
      BY <3>1, <1>o DEF Agrees, RequestAgrees, NeedAgrees, MoveAgrees
    <3>3. Seen(r) \in [Own -> Values]
      BY <3>1, <3>2, SeenTyped
    <3>4. Became(p, new)
      BY <3>1, <1>t DEF Became
    <3>5. o.form \in Configs /\ Possible(o.form, r)
      BY <3>1 DEF SavePossible, TypeOK
    <3>6. Agrees(new)
      <4>1. new \in Operations
        BY <1>o, <3>3 DEF Operations, States
      <4>2. /\ new.pc = "asked" /\ new.req = r /\ new.need = o.need
            /\ new.form = o.form /\ new.made = o.made
        BY <1>o DEF Operations
      <4> HIDE DEF new, o
      <4> QED BY <1>o, <3>1, <3>2, <3>5, <4>1, <4>2 DEF Agrees, RequestAgrees, NeedAgrees, MoveAgrees
    <3> HIDE DEF new
    <3> QED BY <3>4, <3>6, BecomesAgrees
  <2> QED BY <2>1, <2>2
<1>4. CASE SaveUnlocked(p)
  BY <1>4, FinishAgrees DEF SaveUnlocked
<1>5. CASE Acquire(p)
  <2>1. PICK l \in NextLock(p) : proc' = [proc EXCEPT ![p].need = @ \ {l}]
    BY <1>5 DEF Acquire
  <2> DEFINE need == o.need \ {l}
             new == [o EXCEPT !.need = need]
  <2>2. Became(p, new)
    BY <2>1, <1>t DEF Became
  <2>3. need \in SUBSET o.need /\ o.need \in SUBSET Locks
    BY <1>o DEF Operations
  <2>4. Agrees(new)
    <3> HIDE DEF need
    <3>1. new \in Operations
      BY <1>o, <2>3 DEF Operations
    <3>2. /\ new.pc = o.pc /\ new.req = r /\ new.need = need /\ new.snap = o.snap
          /\ new.seen = o.seen /\ new.form = o.form /\ new.made = o.made
      BY <1>o DEF Operations
    <3> HIDE DEF new, o
    <3> QED BY <1>o, <2>3, <3>1, <3>2 DEF Agrees, RequestAgrees, NeedAgrees, MoveAgrees
  <2> HIDE DEF new
  <2> QED BY <2>2, <2>4, BecomesAgrees
<1>6. CASE Conflict(p)
  <2>1. CASE Finish(p)
    BY <2>1, FinishAgrees
  <2>2. CASE ~Finish(p)
    <3> DEFINE new == [o EXCEPT !.pc = "asked", !.tries = o.tries + 1, !.snap = Absent]
    <3>1. /\ r.kind = "submit" /\ o.tries < 2 /\ o.pc = "loaded" /\ o.need = {}
          /\ proc' = [proc EXCEPT ![p].pc = "asked", ![p].tries = @ + 1, ![p].snap = Absent]
      BY <1>6, <2>2 DEF Conflict, At
    <3>2. Became(p, new)
      BY <3>1, <1>t DEF Became
    <3>3. Agrees(new)
      <4>1. o.tries + 1 \in 0 .. 2
        BY <1>o, <3>1 DEF Operations
      <4>2. new \in Operations
        BY <1>o, <4>1 DEF Operations, States
      <4>3. /\ new.pc = "asked" /\ new.req = r /\ new.need = o.need
            /\ new.form = o.form /\ new.made = o.made
        BY <1>o DEF Operations
      <4> HIDE DEF new, o
      <4> QED BY <1>o, <3>1, <4>2, <4>3 DEF Agrees, RequestAgrees, NeedAgrees, MoveAgrees
    <3> HIDE DEF new
    <3> QED BY <3>2, <3>3, BecomesAgrees
  <2> QED BY <2>1, <2>2
<1>7. CASE Reload(p)
  <2>1. CASE Finish(p)
    BY <2>1, FinishAgrees
  <2>2. CASE ~Finish(p) /\ r.kind = "move"
    <3> DEFINE need == MemoryLocks(r)
               new == [o EXCEPT !.pc = "blocking", !.need = need]
    <3>1. /\ ~Blocked(cfg, r) /\ o.pc = "loaded" /\ cfg = o.form
          /\ proc' = [proc EXCEPT ![p].pc = "blocking", ![p].need = MemoryLocks(r)]
      BY <1>7, <2>2 DEF Reload, At, Unchanged
    <3>2. /\ r \in Requests /\ o.made = {} /\ o.form \in Configs /\ Possible(o.form, r)
      BY <2>2, <3>1, <1>o DEF Agrees, RequestAgrees, MoveAgrees
    <3>3. need \in SUBSET Homes /\ need \in SUBSET Locks
      BY <2>2, <3>2, MemoryLocksTyped DEF Locks, Memories, Homes
    <3>4. r.group # r.object
      BY <2>2, <3>1, <3>2 DEF Blocked, Possible
    <3>5. Became(p, new)
      BY <3>1, <1>t DEF Became
    <3>6. Agrees(new)
      <4> HIDE DEF need
      <4>1. new \in Operations
        BY <1>o, <3>3 DEF Operations, States
      <4>2. /\ new.pc = "blocking" /\ new.req = r /\ new.need = need
            /\ new.form = o.form /\ new.made = o.made
        BY <1>o DEF Operations
      <4> HIDE DEF new, o
      <4> QED BY <1>o, <2>2, <3>2, <3>3, <3>4, <4>1, <4>2
              DEF Agrees, RequestAgrees, NeedAgrees, MoveAgrees
    <3> HIDE DEF new
    <3> QED BY <3>5, <3>6, BecomesAgrees
  <2>3. CASE ~Finish(p) /\ r.kind # "move"
    <3> DEFINE new == [o EXCEPT !.pc = "locked"]
    <3>1. o.pc = "loaded" /\ o.need = {} /\ proc' = [proc EXCEPT ![p].pc = "locked"]
      BY <1>7, <2>3 DEF Reload, At
    <3>2. Became(p, new)
      BY <3>1, <1>t DEF Became
    <3>3. Agrees(new)
      <4>1. new \in Operations
        BY <1>o DEF Operations, States
      <4>2. new.pc = "locked" /\ new.req = r /\ new.need = o.need /\ new.made = o.made
        BY <1>o DEF Operations
      <4> HIDE DEF new, o
      <4> QED BY <1>o, <2>3, <3>1, <4>1, <4>2 DEF Agrees, RequestAgrees, NeedAgrees, MoveAgrees
    <3> HIDE DEF new
    <3> QED BY <3>2, <3>3, BecomesAgrees
  <2> QED BY <2>1, <2>2, <2>3
<1>8. CASE CreateJob(p)
  BY <1>8, FinishAgrees DEF CreateJob
<1>9. CASE Patch(p)
  BY <1>9, FinishAgrees DEF Patch
<1>10. CASE CheckMove(p)
  <2>1. CASE Finish(p)
    BY <2>1, FinishAgrees
  <2>2. CASE ~Finish(p)
    <3> DEFINE new == [o EXCEPT !.pc = "moving", !.seen = Absent]
    <3>1. /\ o.pc = "blocking" /\ o.need = {}
          /\ proc' = [proc EXCEPT ![p].pc = "moving", ![p].seen = Absent]
      BY <1>10, <2>2 DEF CheckMove, At
    <3>2. Became(p, new)
      BY <3>1, <1>t DEF Became
    <3>3. Agrees(new)
      <4>1. new \in Operations
        BY <1>o DEF Operations, States, Values
      <4>2. /\ new.pc = "moving" /\ new.req = r /\ new.need = o.need
            /\ new.form = o.form /\ new.made = o.made
        BY <1>o DEF Operations
      <4> HIDE DEF new, o
      <4> QED BY <1>o, <3>1, <4>1, <4>2 DEF Agrees, RequestAgrees, NeedAgrees, MoveAgrees
    <3> HIDE DEF new
    <3> QED BY <3>2, <3>3, BecomesAgrees
  <2> QED BY <2>1, <2>2
<1>11. CASE CreateDestination(p)
  <2>1. PICK k \in Moved(p) :
          \/ proc' = [proc EXCEPT ![p].made = @ \cup {k}]
          \/ proc' = [proc EXCEPT ![p].pc = "rollback", ![p].made = @ \cup {k}]
    BY <1>11 DEF CreateDestination
  <2> DEFINE made == o.made \cup {k}
             pc == IF proc' = [proc EXCEPT ![p].made = @ \cup {k}] THEN o.pc ELSE "rollback"
             new == [o EXCEPT !.pc = pc, !.made = made]
  <2>2. o.pc = "moving" /\ k \in Own
    BY <1>11 DEF CreateDestination, At, Moved, Owned
  <2>3. Became(p, new)
    <3>1. CASE proc' = [proc EXCEPT ![p].made = @ \cup {k}]
      BY <3>1, <1>o, <1>t DEF Became, Operations
    <3>2. CASE proc' # [proc EXCEPT ![p].made = @ \cup {k}]
      BY <2>1, <3>2, <1>t DEF Became
    <3> QED BY <3>1, <3>2
  <2>4. Agrees(new)
    <3>1. pc \in {"moving", "rollback"} /\ made \in SUBSET Own
      BY <2>2, <1>o DEF Operations
    <3> HIDE DEF pc, made
    <3>2. new \in Operations
      BY <1>o, <3>1 DEF Operations, States
    <3>3. /\ new.pc = pc /\ new.req = r /\ new.need = o.need
          /\ new.form = o.form /\ new.made = made
      BY <1>o DEF Operations
    <3> HIDE DEF new, o
    <3> QED BY <1>o, <2>2, <3>1, <3>2, <3>3 DEF Agrees, RequestAgrees, NeedAgrees, MoveAgrees
  <2> HIDE DEF new
  <2> QED BY <2>3, <2>4, BecomesAgrees
<1>12. CASE CommitMove(p)
  <2>1. CASE Finish(p)
    BY <2>1, FinishAgrees
  <2>2. CASE ~Finish(p)
    <3> DEFINE new == [o EXCEPT !.pc = "rollback"]
    <3>1. o.pc = "moving" /\ proc' = [proc EXCEPT ![p].pc = "rollback"]
      BY <1>12, <2>2 DEF CommitMove, At
    <3>2. Became(p, new)
      BY <3>1, <1>t DEF Became
    <3>3. Agrees(new)
      <4>1. new \in Operations
        BY <1>o DEF Operations, States
      <4>2. /\ new.pc = "rollback" /\ new.req = r /\ new.need = o.need
            /\ new.form = o.form /\ new.made = o.made
        BY <1>o DEF Operations
      <4> HIDE DEF new, o
      <4> QED BY <1>o, <3>1, <4>1, <4>2 DEF Agrees, RequestAgrees, NeedAgrees, MoveAgrees
    <3> HIDE DEF new
    <3> QED BY <3>2, <3>3, BecomesAgrees
  <2> QED BY <2>1, <2>2
<1>13. CASE Rollback(p)
  <2>1. CASE Finish(p)
    BY <2>1, FinishAgrees
  <2>2. CASE ~Finish(p)
    <3>1. PICK k \in o.made : proc' = [proc EXCEPT ![p].made = @ \ {k}]
      BY <1>13, <2>2 DEF Rollback
    <3> DEFINE made == o.made \ {k}
               new == [o EXCEPT !.made = made]
    <3>2. o.pc = "rollback"
      BY <1>13 DEF Rollback, At
    <3>3. Became(p, new)
      BY <3>1, <1>t DEF Became
    <3>4. Agrees(new)
      <4>1. made \in SUBSET Own
        BY <1>o DEF Operations
      <4> HIDE DEF made
      <4>2. new \in Operations
        BY <1>o, <4>1 DEF Operations
      <4>3. /\ new.pc = o.pc /\ new.req = r /\ new.need = o.need
            /\ new.form = o.form /\ new.made = made
        BY <1>o DEF Operations
      <4> HIDE DEF new, o
      <4> QED BY <1>o, <3>2, <4>1, <4>2, <4>3 DEF Agrees, RequestAgrees, NeedAgrees, MoveAgrees
    <3> HIDE DEF new
    <3> QED BY <3>3, <3>4, BecomesAgrees
  <2> QED BY <2>1, <2>2
<1>14. CASE TryChannel(p)
  <2>1. CASE Finish(p)
    BY <2>1, FinishAgrees
  <2>2. CASE ~Finish(p)
    <3> DEFINE new == [o EXCEPT !.pc = "archiving"]
    <3>1. /\ o.pc = "locked" /\ r.kind = "deleteChannel"
          /\ proc' = [proc EXCEPT ![p].pc = "archiving"]
      BY <1>14, <2>2 DEF TryChannel, At
    <3>2. Became(p, new)
      BY <3>1, <1>t DEF Became
    <3>3. Agrees(new)
      <4>1. new \in Operations
        BY <1>o DEF Operations, States
      <4>2. new.pc = "archiving" /\ new.req = r /\ new.need = o.need /\ new.made = o.made
        BY <1>o DEF Operations
      <4> HIDE DEF new, o
      <4> QED BY <1>o, <3>1, <4>1, <4>2 DEF Agrees, RequestAgrees, NeedAgrees, MoveAgrees
    <3> HIDE DEF new
    <3> QED BY <3>2, <3>3, BecomesAgrees
  <2> QED BY <2>1, <2>2
<1>15. CASE ArchiveChannel(p)
  <2> DEFINE seen == mem[r.object]
             new == [o EXCEPT !.pc = "archived", !.seen = seen]
  <2>1. /\ o.pc = "archiving" /\ r.kind = "deleteChannel"
        /\ proc' = [proc EXCEPT ![p].pc = "archived", ![p].seen = mem[r.object]]
    BY <1>15 DEF ArchiveChannel, At
  <2>2. seen \in Values
    <3>1. r \in Requests
      BY <2>1, <1>o DEF Agrees, RequestAgrees
    <3>2. r.object \in Memories
      BY <2>1, <3>1, RequestTyped DEF Memories
    <3> QED BY <3>2 DEF TypeOK
  <2>3. Became(p, new)
    BY <2>1, <1>t DEF Became
  <2>4. Agrees(new)
    <3> HIDE DEF seen
    <3>1. new \in Operations
      BY <1>o, <2>2 DEF Operations, States
    <3>2. /\ new.pc = "archived" /\ new.req = r /\ new.need = o.need
          /\ new.made = o.made /\ new.seen = seen
      BY <1>o DEF Operations
    <3> HIDE DEF new, o
    <3> QED BY <1>o, <2>1, <2>2, <3>1, <3>2 DEF Agrees, RequestAgrees, NeedAgrees, MoveAgrees
  <2> HIDE DEF new
  <2> QED BY <2>3, <2>4, BecomesAgrees
<1>16. CASE SaveWithoutChannel(p)
  <2>1. CASE Finish(p)
    BY <2>1, FinishAgrees
  <2>2. CASE ~Finish(p)
    <3> DEFINE new == [o EXCEPT !.pc = "restoring"]
    <3>1. /\ o.pc = "archived" /\ r.kind = "deleteChannel"
          /\ proc' = [proc EXCEPT ![p].pc = "restoring"]
      BY <1>16, <2>2 DEF SaveWithoutChannel, At
    <3>2. Became(p, new)
      BY <3>1, <1>t DEF Became
    <3>3. Agrees(new)
      <4>1. new \in Operations
        BY <1>o DEF Operations, States
      <4>2. /\ new.pc = "restoring" /\ new.req = r /\ new.need = o.need
            /\ new.made = o.made /\ new.seen = o.seen
        BY <1>o DEF Operations
      <4> HIDE DEF new, o
      <4> QED BY <1>o, <3>1, <4>1, <4>2 DEF Agrees, RequestAgrees, NeedAgrees, MoveAgrees
    <3> HIDE DEF new
    <3> QED BY <3>2, <3>3, BecomesAgrees
  <2> QED BY <2>1, <2>2
<1>17. CASE RestoreChannel(p)
  BY <1>17, FinishAgrees DEF RestoreChannel
<1>18. CASE Die(p)
  BY <1>18, FinishAgrees DEF Die
<1> QED BY <1>1, <1>2, <1>3, <1>4, <1>5, <1>6, <1>7, <1>8, <1>9, <1>10, <1>11, <1>12, <1>13, <1>14,
           <1>15, <1>16, <1>17, <1>18 DEF Step, Operation

    \* every lock stays, is taken by p when free, or let go by p
LocksOf(p) ==
    /\ owner' \in [Locks -> Procs \cup Jobs \cup {Nobody}]
    /\ \A l \in Locks : \/ owner'[l] = owner[l]
                        \/ owner[l] = p /\ owner'[l] = Nobody
                        \/ owner[l] = Nobody /\ owner'[l] = p

LEMMA ReleasedLocks ==
    ASSUME TypeOK, NEW p, owner' = Released(p) PROVE LocksOf(p) /\ (p # Nobody => Held(p)' = {})
BY DEF TypeOK, Released, LocksOf, Held

    \* what a process holds at each step of its operation
LocksAgree(p) ==
    /\ proc[p].pc \in Waiting => Held(p) = {}
    /\ proc[p].pc = "loaded" => Held(p) \subseteq Paths
    /\ proc[p].pc \in {"archiving", "archived"} => owner[proc[p].req.object] = p
    /\ \A l \in Held(p), m \in proc[p].need : Order[l] < Order[m]

HoldersAgree == \A p \in Procs : LocksAgree(p)

LEMMA StepLocks ==
    ASSUME TypeOK, OperationsAgree, HoldersAgree, NEW p \in Procs, Step(p) PROVE LocksOf(p)
<1>t. owner \in [Locks -> Procs \cup Jobs \cup {Nobody}]
  BY DEF TypeOK
<1>1. CASE owner' = owner
  BY <1>1, <1>t DEF LocksOf
<1>2. CASE Finish(p)
  BY <1>2, ReleasedLocks DEF Finish
<1>3. CASE owner' = Released(p)
  BY <1>3, ReleasedLocks
<1>4. CASE Acquire(p)
  <2>1. PICK l \in NextLock(p) : owner[l] = Nobody /\ owner' = [owner EXCEPT ![l] = p]
    BY <1>4 DEF Acquire
  <2>2. l \in Locks
    BY DEF NextLock, TypeOK, Operations
  <2> QED BY <1>t, <2>1, <2>2 DEF LocksOf
<1>5. CASE TryChannel(p)
  <2>1. CASE Finish(p)
    BY <2>1, ReleasedLocks DEF Finish
  <2>2. CASE ~Finish(p)
    <3>1. LET c == proc[p].req.object IN owner[c] = Nobody /\ owner' = [owner EXCEPT ![c] = p]
      BY <1>5, <2>2 DEF TryChannel
    <3> QED BY <1>t, <3>1 DEF LocksOf
  <2> QED BY <2>1, <2>2
<1>6. CASE SaveWithoutChannel(p)
  <2>1. CASE Finish(p)
    BY <2>1, ReleasedLocks DEF Finish
  <2>2. CASE ~Finish(p)
    <3>1. /\ owner' = [owner EXCEPT ![proc[p].req.object] = Nobody]
          /\ owner[proc[p].req.object] = p
      BY <1>6, <2>2 DEF SaveWithoutChannel, HoldersAgree, LocksAgree, At
    <3> QED BY <1>t, <3>1 DEF LocksOf
  <2> QED BY <2>1, <2>2
<1>7. CASE Show(p) \/ Load(p) \/ SaveUnlocked(p) \/ Preview(p) \/ Conflict(p) \/ Reload(p)
  BY <1>1, <1>2, <1>3, <1>7 DEF Show, Load, SaveUnlocked, Preview, Conflict, Reload
<1>8. CASE CreateJob(p) \/ Patch(p) \/ CheckMove(p) \/ CreateDestination(p) \/ CommitMove(p)
             \/ Rollback(p) \/ ArchiveChannel(p) \/ RestoreChannel(p) \/ Die(p)
  BY <1>1, <1>2, <1>8 DEF CreateJob, Patch, CheckMove, CreateDestination, CommitMove, Rollback,
     ArchiveChannel, RestoreChannel, Die
<1> QED BY <1>4, <1>5, <1>6, <1>7, <1>8 DEF Step, Operation

LEMMA LocksOfOthers ==
    ASSUME TypeOK, OperationsAgree, NEW p, NEW q \in Procs, p # q, LocksOf(p), proc'[q] = proc[q],
           LocksAgree(q)
    PROVE  LocksAgree(q)' /\ Held(q)' = Held(q)
<1>1. \A l \in Locks : owner'[l] = q <=> owner[l] = q
  BY Constants DEF LocksOf
<1>2. Held(q)' = Held(q)
  BY <1>1 DEF Held
<1>3. ASSUME proc[q].pc \in {"archiving", "archived"} PROVE owner'[proc[q].req.object] = q
  <2>1. owner[proc[q].req.object] = q
    BY <1>3 DEF LocksAgree
  <2>2. proc[q].req.object \in Locks
    BY <1>3, RequestTyped DEF OperationsAgree, Agrees, RequestAgrees, Locks, Memories
  <2> QED BY <2>1, <2>2, <1>1
<1> QED BY <1>2, <1>3 DEF LocksAgree

    \* who has nothing to wait for and no lock that its step depends on
LEMMA IdleLocks ==
    ASSUME TypeOK, NEW p \in Procs, Finish(p) PROVE LocksAgree(p)'
<1>1. proc'[p] = Idle /\ Held(p)' = {}
  BY Constants, ReleasedLocks DEF Finish, TypeOK
<1> QED BY <1>1 DEF LocksAgree, Idle

LEMMA StepLocksAgree ==
    ASSUME TypeOK, OperationsAgree, HoldersAgree, NEW p \in Procs, Step(p) PROVE HoldersAgree'
<1> DEFINE o == proc[p]
           n == proc'[p]
<1>f. Frame(p) /\ Agrees(n) /\ LocksOf(p) /\ Agrees(o) /\ LocksAgree(p)
  BY StepAgrees, StepLocks DEF OperationsAgree, HoldersAgree
<1>t. proc \in [Procs -> Operations] /\ owner \in [Locks -> Procs \cup Jobs \cup {Nobody}]
  BY DEF TypeOK
<1> SUFFICES LocksAgree(p)'
  BY <1>f, LocksOfOthers DEF HoldersAgree, Frame
<1>1. CASE Finish(p)
  BY <1>1, IdleLocks
<1>2. CASE owner' = owner /\ n.need = {} /\ n.pc \notin {"idle", "asked", "confirmed", "loaded", "archiving", "archived"}
  BY <1>2 DEF LocksAgree, Waiting
<1>3. CASE Show(p)
  <2>1. /\ o.pc = "idle" /\ owner' = owner
        /\ \E q \in Requests :
             n = [Idle EXCEPT !.pc = IF q.kind = "move" THEN "confirmed" ELSE "asked",
                              !.req = q, !.form = IF q.kind = "submit" THEN Absent ELSE cfg]
    BY <1>3, <1>t DEF Show
  <2>2. Held(p)' = {} /\ n.need = {} /\ n.pc \in {"confirmed", "asked"}
    BY <2>1, <1>f DEF LocksAgree, Waiting, Idle, Held
  <2> QED BY <2>2 DEF LocksAgree, Waiting
<1>4. CASE Load(p) /\ ~Finish(p)
  <2>1. o.pc = "asked" /\ owner' = owner /\ n.pc = "loaded"
    BY <1>4, <1>t DEF Load, Operations
  <2>2. Held(p)' = {}
    BY <2>1, <1>f DEF LocksAgree, Waiting, Held
  <2> QED BY <2>1, <2>2 DEF LocksAgree, Waiting
<1>5. CASE Preview(p) /\ ~Finish(p)
  <2>1. o.pc = "confirmed" /\ owner' = owner /\ n.pc = "asked" /\ n.need = o.need
    BY <1>5, <1>t DEF Preview, At, Operations
  <2>2. Held(p)' = {} /\ n.need = {}
    BY <2>1, <1>f DEF LocksAgree, Waiting, Held, Agrees, NeedAgrees
  <2> QED BY <2>1, <2>2 DEF LocksAgree, Waiting
<1>6. CASE Acquire(p)
  <2>1. PICK l \in NextLock(p) : /\ owner[l] = Nobody /\ owner' = [owner EXCEPT ![l] = p]
                                 /\ proc' = [proc EXCEPT ![p].need = @ \ {l}]
    BY <1>6 DEF Acquire
  <2>2. o.need \subseteq Locks /\ l \in o.need /\ \A m \in o.need : Order[l] <= Order[m]
    BY <1>f DEF NextLock, Agrees, Operations
  <2>3. n = [o EXCEPT !.need = o.need \ {l}]
    BY <2>1, <1>t
  <2>4. /\ n.need = o.need \ {l} /\ n.pc = o.pc /\ n.req = o.req
    BY <2>3, <1>f DEF Agrees, Operations
  <2>5. Held(p)' = Held(p) \cup {l}
    BY <2>1, <2>2, <1>t, Constants DEF Held
  <2>6. o.pc \in {"loaded", "blocking"}
    BY <1>f, <2>2 DEF Agrees, NeedAgrees
  <2>7. o.pc = "loaded" => Held(p)' \subseteq Paths
    BY <1>f, <2>2, <2>5 DEF LocksAgree, Agrees, NeedAgrees
  <2>8. ASSUME NEW m \in o.need \ {l} PROVE Order[l] < Order[m]
    BY <2>2, Constants
  <2>9. \A h \in Held(p)', m \in n.need : Order[h] < Order[m]
    BY <1>f, <2>4, <2>5, <2>8 DEF LocksAgree
  <2> QED BY <2>4, <2>6, <2>7, <2>9 DEF LocksAgree, Waiting
<1>7. CASE Conflict(p) /\ ~Finish(p)
  <2>1. n.pc = "asked" /\ n.need = o.need /\ o.pc = "loaded" /\ o.need = {} /\ owner' = Released(p)
    BY <1>7, <1>t DEF Conflict, At, Operations
  <2>2. Held(p)' = {}
    BY <2>1, ReleasedLocks, Constants
  <2> QED BY <2>1, <2>2 DEF LocksAgree, Waiting
<1>8. CASE Reload(p) /\ ~Finish(p)
  <2>1. /\ owner' = owner /\ n.pc \in {"blocking", "locked"} /\ o.pc = "loaded"
    BY <1>8, <1>t DEF Reload, At, Operations
  <2>2. Held(p)' \subseteq Paths
    BY <2>1, <1>f DEF LocksAgree, Held
  <2>3. n.need \subseteq Homes /\ Homes \subseteq Memories
    BY <1>f, <2>1 DEF Agrees, NeedAgrees, Homes, Memories
  <2>4. \A h \in Held(p)', m \in n.need : Order[h] < Order[m]
    BY <2>2, <2>3, Constants
  <2> QED BY <2>1, <2>4 DEF LocksAgree, Waiting
<1>9. CASE CheckMove(p) /\ ~Finish(p)
  <2>1. owner' = owner /\ n.pc = "moving"
    BY <1>9, <1>t DEF CheckMove, Operations
  <2> QED BY <1>2, <2>1, <1>f DEF Agrees, NeedAgrees
<1>10. CASE CreateDestination(p)
  <2>1. owner' = owner /\ n.pc \in {"moving", "rollback"}
    BY <1>10, <1>t DEF CreateDestination, At, Operations
  <2> QED BY <1>2, <2>1, <1>f DEF Agrees, NeedAgrees
<1>11. CASE CommitMove(p) /\ ~Finish(p)
  <2>1. owner' = owner /\ n.pc = "rollback"
    BY <1>11, <1>t DEF CommitMove, At, Operations
  <2> QED BY <1>2, <2>1, <1>f DEF Agrees, NeedAgrees
<1>12. CASE Rollback(p) /\ ~Finish(p)
  <2>1. owner' = owner /\ n.pc = "rollback"
    BY <1>12, <1>t DEF Rollback, At, Operations
  <2> QED BY <1>2, <2>1, <1>f DEF Agrees, NeedAgrees
<1>13. CASE TryChannel(p) /\ ~Finish(p)
  <2> DEFINE c == o.req.object
  <2>1. /\ o.pc = "locked" /\ o.req.kind = "deleteChannel" /\ owner' = [owner EXCEPT ![c] = p]
        /\ proc' = [proc EXCEPT ![p].pc = "archiving"]
    BY <1>13 DEF TryChannel, At
  <2>2. n.pc = "archiving" /\ n.req = o.req /\ n.need = {}
    BY <2>1, <1>t, <1>f DEF Operations, Agrees, NeedAgrees
  <2>3. c \in Locks
    BY <2>1, <1>f, RequestTyped DEF Agrees, RequestAgrees, Locks, Memories
  <2> QED BY <2>1, <2>2, <2>3, <1>t DEF LocksAgree, Waiting
<1>14. CASE ArchiveChannel(p)
  <2>1. owner' = owner /\ o.pc = "archiving" /\ n.pc = "archived" /\ n.req = o.req /\ n.need = {}
    BY <1>14, <1>t, <1>f DEF ArchiveChannel, At, Operations, Agrees, NeedAgrees
  <2> QED BY <2>1, <1>f DEF LocksAgree, Waiting
<1>15. CASE SaveWithoutChannel(p) /\ ~Finish(p)
  <2>1. n.pc = "restoring" /\ n.need = {}
    BY <1>15, <1>t, <1>f DEF SaveWithoutChannel, Operations, Agrees, NeedAgrees
  <2> QED BY <2>1 DEF LocksAgree, Waiting
<1>16. CASE Conflict(p) \/ Reload(p) \/ Load(p) \/ Preview(p)
  BY <1>1, <1>4, <1>5, <1>7, <1>8, <1>16
<1>17. CASE SaveUnlocked(p) \/ CreateJob(p) \/ Patch(p) \/ RestoreChannel(p) \/ Die(p)
  BY <1>1, <1>17 DEF SaveUnlocked, CreateJob, Patch, RestoreChannel, Die
<1> QED BY <1>1, <1>3, <1>6, <1>9, <1>10, <1>11, <1>12, <1>13, <1>14, <1>15, <1>16, <1>17
        DEF Step, Operation

----------------------------------------------------------------------------
(* The types of what the operations share.                                   *)

LEMMA StepTypes ==
    ASSUME TypeOK, OperationsAgree, HoldersAgree, NEW p \in Procs, Step(p) PROVE TypeOK'
<1> DEFINE o == proc[p]
           r == o.req
<1>o. Agrees(o) /\ o \in Operations /\ (o.pc # "idle" => r \in Requests)
  BY DEF OperationsAgree, Agrees, RequestAgrees
<1>1. owner' \in [Locks -> Procs \cup Jobs \cup {Nobody}]
  BY StepLocks DEF LocksOf
<1>2. proc' \in [Procs -> Operations]
  <2>1. Frame(p) /\ Agrees(proc'[p])
    BY StepAgrees
  <2> QED BY <2>1 DEF Frame, Agrees, TypeOK
<1>3. cfg' \in Configs
  <2>1. CASE UNCHANGED cfg
    BY <2>1 DEF TypeOK
  <2>2. CASE o.pc # "idle" /\ Possible(cfg, r) /\ cfg' = Patched(cfg, r)
    BY <2>2, <1>o, PatchedType DEF TypeOK
  <2>3. CASE SaveUnlocked(p)
    <3>1. o.pc = "loaded" /\ r.kind \in Unlocked
      BY <2>3 DEF SaveUnlocked, At
    <3>2. o.snap \in Configs
      BY <3>1, <1>o DEF Agrees, RequestAgrees
    <3> QED BY <2>1, <2>3, <3>1, <3>2, <1>o, PatchedType DEF SaveUnlocked, SavePossible
  <2>4. CASE Patch(p)
    <3>1. o.pc = "locked"
      BY <2>4 DEF Patch, At
    <3> QED BY <2>1, <2>2, <2>4, <3>1 DEF Patch, SavePossible
  <2>5. CASE CommitMove(p)
    <3>1. o.pc = "moving"
      BY <2>5 DEF CommitMove, At
    <3>2. cfg' = cfg \/ (Possible(cfg, r) /\ cfg' = Patched(cfg, r))
      BY <2>5 DEF CommitMove, SavePossible
    <3> QED BY <2>1, <2>2, <3>1, <3>2
  <2>6. CASE SaveWithoutChannel(p)
    <3>1. o.pc = "archived" /\ r.kind = "deleteChannel"
      BY <2>6 DEF SaveWithoutChannel, At
    <3>2. Patched(cfg, r) \in Configs
      BY <3>1, <1>o, PatchedType DEF TypeOK
    <3> QED BY <2>1, <2>6, <3>2 DEF SaveWithoutChannel
  <2>7. CASE Show(p) \/ Load(p) \/ Preview(p) \/ Acquire(p) \/ Conflict(p) \/ Reload(p) \/ CreateJob(p)
    BY <2>1, <2>7 DEF config, Show, Load, Preview, Acquire, Conflict, Reload, CreateJob
  <2>8. CASE CheckMove(p) \/ CreateDestination(p) \/ Rollback(p) \/ TryChannel(p)
             \/ ArchiveChannel(p) \/ RestoreChannel(p) \/ Die(p)
    BY <2>1, <2>8 DEF config, CheckMove, CreateDestination, Rollback, TryChannel, ArchiveChannel,
       RestoreChannel, Die
  <2> QED BY <2>3, <2>4, <2>5, <2>6, <2>7, <2>8 DEF Step, Operation
<1>4. job' \in [Jobs -> JobRecords \cup {Absent}]
  <2>1. CASE CreateJob(p)
    <3>1. o.pc = "locked" /\ r.kind = "submit"
      BY <2>1 DEF CreateJob, At
    <3>2. JobOf(r) \in JobRecords
      BY <3>1, <1>o, JobTyped
    <3> QED BY <2>1, <3>2 DEF CreateJob, TypeOK
  <2>2. CASE ~CreateJob(p)
    <3>1. job' = job
      BY <2>2 DEF Step, Operation, Show, Load, SaveUnlocked, Preview, Acquire, Conflict, Reload, Patch,
         CheckMove, CreateDestination, CommitMove, Rollback, TryChannel, ArchiveChannel,
         SaveWithoutChannel, RestoreChannel, Die
    <3> QED BY <3>1 DEF TypeOK
  <2> QED BY <2>1, <2>2
<1>5. ops' \in 0 .. MaxOps /\ faults' \in 0 .. MaxFaults
  <2>1. ops' = ops \/ (ops < MaxOps /\ ops' = ops + 1)
    BY DEF bounds, Step, Operation, Show, Load, SaveUnlocked, Preview, Acquire, Conflict, Reload,
       CreateJob, Patch, CheckMove, CreateDestination, CommitMove, Rollback, TryChannel,
       ArchiveChannel, SaveWithoutChannel, RestoreChannel, Die
  <2>2. faults' = faults \/ (faults < MaxFaults /\ faults' = faults + 1)
    BY DEF bounds, Fault, NoFault, Step, Operation, Show, Load, SaveUnlocked, Preview, Acquire,
       Conflict, Reload, CreateJob, Patch, CheckMove, CreateDestination, CommitMove, Rollback,
       TryChannel, ArchiveChannel, SaveWithoutChannel, RestoreChannel, Die
  <2>3. ops \in 0 .. MaxOps /\ faults \in 0 .. MaxFaults
    BY DEF TypeOK
  <2> QED BY <2>1, <2>2, <2>3, Constants
<1>6. last' = last
  BY DEF memories, Step, Operation, Show, Load, SaveUnlocked, Preview,
     Acquire, Conflict, Reload, CreateJob, Patch, CheckMove, CreateDestination, CommitMove, Rollback,
     TryChannel, ArchiveChannel, SaveWithoutChannel, RestoreChannel, Die
<1>7. mem' \in [Memories -> Values] /\ archive' \in [Channels -> SUBSET Values]
  <2>1. CASE UNCHANGED <<mem, archive>>
    BY <2>1 DEF TypeOK
  <2>2. CASE CreateDestination(p)
    <3>1. PICK k \in Moved(p) :
            \E v \in {Absent, Blank, Copied(p, k)} : mem' = [mem EXCEPT ![Destination(p, k)] = v]
      BY <2>2 DEF CreateDestination
    <3>2. o.pc = "moving" /\ r.kind = "move" /\ archive' = archive /\ r \in Requests
      BY <2>2, <1>o DEF CreateDestination, At
    <3>3. k \in Own /\ Source(p, k) \in Memories
      BY <3>2, RequestTyped DEF Moved, Owned, Source, Memories
    <3>4. {Absent, Blank, Copied(p, k)} \subseteq Values
      BY <3>3 DEF Copied, TypeOK, Values
    <3>5. PICK v \in Values : mem' = [mem EXCEPT ![Destination(p, k)] = v]
      BY <3>1, <3>4
    <3> QED BY <3>2, <3>5 DEF TypeOK
  <2>3. CASE Rollback(p)
    <3>1. /\ archive' = archive
          /\ \/ mem' = mem
             \/ \E k \in o.made : mem' = [mem EXCEPT ![Destination(p, k)] = Absent]
      BY <2>3 DEF Rollback
    <3> QED BY <3>1 DEF TypeOK, Values
  <2>4. CASE ArchiveChannel(p)
    <3> DEFINE c == r.object
    <3>1. /\ mem' = [mem EXCEPT ![c] = Absent]
          /\ archive' = [archive EXCEPT ![c] = archive[c] \cup ({mem[c]} \ {Absent})]
          /\ c \in Channels
      BY <2>4, <1>o, RequestTyped DEF ArchiveChannel, At, TypeOK
    <3>2. mem[c] \in Values /\ archive[c] \subseteq Values
      BY <3>1 DEF TypeOK, Memories
    <3> DEFINE more == archive[c] \cup ({mem[c]} \ {Absent})
    <3>3. more \in SUBSET Values
      BY <3>2
    <3> HIDE DEF more
    <3>4. archive' = [archive EXCEPT ![c] = more]
      BY <3>1 DEF more
    <3> HIDE DEF c
    <3> QED BY <3>1, <3>3, <3>4 DEF TypeOK, Values
  <2>5. CASE RestoreChannel(p)
    <3> DEFINE c == r.object
               back == o.seen # Absent /\ mem[c] = Absent
               content == IF back THEN o.seen ELSE mem[c]
               left == IF back THEN archive[c] \ {o.seen} ELSE archive[c]
    <3>1. o.pc = "restoring" /\ r.kind = "deleteChannel" /\ c \in Channels
      BY <2>5, <1>o, RequestTyped DEF RestoreChannel, At
    <3>2. content \in Values /\ left \in SUBSET Values
      BY <3>1, <1>o DEF TypeOK, Memories, Agrees, RequestAgrees
    <3>3. mem' = [mem EXCEPT ![c] = content] /\ archive' = [archive EXCEPT ![c] = left]
      BY <2>5 DEF RestoreChannel
    <3> HIDE DEF content, left, c
    <3> QED BY <3>2, <3>3 DEF TypeOK
  <2>6. CASE ~(CreateDestination(p) \/ Rollback(p) \/ ArchiveChannel(p) \/ RestoreChannel(p))
    BY <2>1, <2>6 DEF memories, Step, Operation, Show, Load, SaveUnlocked, Preview, Acquire, Conflict,
       Reload, CreateJob, Patch, CheckMove, CommitMove, TryChannel, SaveWithoutChannel, Die
  <2> QED BY <2>2, <2>3, <2>4, <2>5, <2>6
<1>8. reverted' \in BOOLEAN
  <2>1. Note \/ reverted' = reverted
    BY DEF config, Step, Operation, Show, Load, SaveUnlocked, Preview,
       Acquire, Conflict, Reload, CreateJob, Patch, CheckMove, CreateDestination, CommitMove, Rollback,
       TryChannel, ArchiveChannel, SaveWithoutChannel, RestoreChannel, Die
  <2> QED BY <2>1, Zenon DEF TypeOK, Note
<1> QED BY <1>1, <1>2, <1>3, <1>4, <1>5, <1>6, <1>7, <1>8 DEF TypeOK

----------------------------------------------------------------------------
(* What a move knows of the memories it has locked.                          *)

LockedHomes(p) == \A k \in Moved(p) : owner[Source(p, k)] = p /\ owner[Destination(p, k)] = p

MovesAgree(p) ==
    /\ proc[p].pc = "blocking" =>
          \A k \in Moved(p) : {Source(p, k), Destination(p, k)} \subseteq proc[p].need \cup Held(p)
    /\ proc[p].pc \in {"moving", "rollback"} =>
          /\ LockedHomes(p) /\ proc[p].made \subseteq Moved(p)
          /\ \A k \in Moved(p) : last[Destination(p, k)] = Absent
    /\ proc[p].pc = "moving" => \A k \in proc[p].made : mem[Destination(p, k)] = Copied(p, k)

LEMMA HomesTyped ==
    ASSUME TypeOK, OperationsAgree, NEW p \in Procs, proc[p].pc \in {"blocking", "moving", "rollback"}
    PROVE  /\ Moved(p) \subseteq Own
           /\ \A k \in Own : /\ Source(p, k) \in Homes /\ Destination(p, k) \in Homes
           /\ \A k, l \in Own : /\ Source(p, k) # Destination(p, l)
                                /\ k # l => Destination(p, k) # Destination(p, l)
<1> DEFINE r == proc[p].req
<1>1. r \in Requests /\ r.kind = "move" /\ r.group # r.object
  BY DEF OperationsAgree, Agrees, RequestAgrees, MoveAgrees
<1>2. r.group \in Groups /\ r.agent \in Agents /\ r.object \in Groups
  BY <1>1, RequestTyped
<1> QED BY <1>1, <1>2 DEF Moved, Owned, Source, Destination, Homes

    \* nobody else touches what is locked
Untouched(q) == \A h \in Homes : owner[h] = q => mem'[h] = mem[h] /\ last'[h] = last[h]

LEMMA MovesOfOthers ==
    ASSUME TypeOK, OperationsAgree, NEW p, NEW q \in Procs, p # q, LocksOf(p), proc'[q] = proc[q],
           MovesAgree(q), Untouched(q)
    PROVE  MovesAgree(q)'
<1>1. \A l \in Locks : owner'[l] = q <=> owner[l] = q
  BY Constants DEF LocksOf
<1>2. Held(q)' = Held(q)
  BY <1>1 DEF Held
<1>3. Moved(q)' = Moved(q)
  BY DEF Moved
<1>4. \A k : Source(q, k)' = Source(q, k) /\ Destination(q, k)' = Destination(q, k)
  BY DEF Source, Destination
<1>5. CASE proc[q].pc = "blocking"
  BY <1>2, <1>3, <1>4, <1>5 DEF MovesAgree
<1>6. CASE proc[q].pc \in {"moving", "rollback"}
  <2>1. \A k \in Moved(q) : /\ Source(q, k) \in Homes /\ Destination(q, k) \in Homes
                            /\ owner[Source(q, k)] = q /\ owner[Destination(q, k)] = q
    BY <1>6, HomesTyped DEF MovesAgree, LockedHomes
  <2>2. \A h \in Homes : h \in Locks
    BY DEF Homes, Locks, Memories
  <2>3. LockedHomes(q)'
    BY <1>1, <1>3, <1>4, <2>1, <2>2 DEF LockedHomes
  <2>4. \A k \in Moved(q) : /\ mem'[Source(q, k)] = mem[Source(q, k)]
                            /\ mem'[Destination(q, k)] = mem[Destination(q, k)]
                            /\ last'[Destination(q, k)] = last[Destination(q, k)]
    BY <2>1 DEF Untouched
  <2>5. \A k \in Moved(q) : Copied(q, k)' = Copied(q, k)
    BY <1>4, <2>4 DEF Copied
  <2>6. proc[q].made \subseteq Moved(q)
    BY <1>6 DEF MovesAgree
  <2>7. \A k \in Moved(q) : last'[Destination(q, k)] = Absent
    BY <1>6, <2>4 DEF MovesAgree
  <2>8. proc[q].pc = "moving" => \A k \in proc[q].made : mem'[Destination(q, k)] = Copied(q, k)'
    BY <1>6, <2>4, <2>5, <2>6 DEF MovesAgree
  <2> QED BY <1>3, <1>4, <1>6, <2>3, <2>6, <2>7, <2>8 DEF MovesAgree
<1>7. CASE proc[q].pc \notin {"blocking", "moving", "rollback"}
  BY <1>7 DEF MovesAgree
<1> QED BY <1>5, <1>6, <1>7

LEMMA StepLast ==
    ASSUME NEW p, Step(p) PROVE last' = last
BY DEF memories, Step, Operation, Show, Load, SaveUnlocked, Preview,
   Acquire, Conflict, Reload, CreateJob, Patch, CheckMove, CreateDestination, CommitMove, Rollback,
   TryChannel, ArchiveChannel, SaveWithoutChannel, RestoreChannel, Die

    \* a step changes a memory that a move of its own creates or removes, or that of a channel
LEMMA StepMemory ==
    ASSUME TypeOK, OperationsAgree, NEW p \in Procs, MovesAgree(p), Step(p)
    PROVE  \A h \in Homes : \/ mem'[h] = mem[h]
                            \/ /\ proc[p].pc \in {"moving", "rollback"} /\ owner[h] = p
                               /\ \E k \in Moved(p) : h = Destination(p, k)
<1> DEFINE o == proc[p]
<1>m. mem \in [Memories -> Values]
  BY DEF TypeOK
<1>1. CASE CreateDestination(p)
  <2>1. PICK k \in Moved(p) : \E v : mem' = [mem EXCEPT ![Destination(p, k)] = v]
    BY <1>1 DEF CreateDestination
  <2>2. o.pc = "moving"
    BY <1>1 DEF CreateDestination, At
  <2> QED BY <2>1, <2>2, <1>m DEF MovesAgree, LockedHomes, Homes, Memories
<1>2. CASE Rollback(p)
  <2>1. \/ mem' = mem
        \/ \E k \in o.made : mem' = [mem EXCEPT ![Destination(p, k)] = Absent]
    BY <1>2 DEF Rollback
  <2>2. o.pc = "rollback"
    BY <1>2 DEF Rollback, At
  <2> QED BY <2>1, <2>2, <1>m DEF MovesAgree, LockedHomes, Homes, Memories
<1>3. CASE ArchiveChannel(p) \/ RestoreChannel(p)
  <2>1. o.pc \in {"archiving", "restoring"} /\ \E v : mem' = [mem EXCEPT ![o.req.object] = v]
    BY <1>3 DEF ArchiveChannel, RestoreChannel, At
  <2>2. o.req.object \in Channels
    BY <2>1, RequestTyped DEF OperationsAgree, Agrees, RequestAgrees
  <2> QED BY <2>1, <2>2, <1>m, Constants DEF Homes, Memories
<1>4. CASE ~(CreateDestination(p) \/ Rollback(p) \/ ArchiveChannel(p) \/ RestoreChannel(p))
  <2>1. mem' = mem
    BY <1>4 DEF memories, Step, Operation, Show, Load, SaveUnlocked, Preview, Acquire, Conflict,
       Reload, CreateJob, Patch, CheckMove, CommitMove, TryChannel, SaveWithoutChannel, Die
  <2> QED BY <2>1
<1> QED BY <1>1, <1>2, <1>3, <1>4

LEMMA OwnMoves ==
    ASSUME TypeOK, OperationsAgree, HoldersAgree, MemoryKept, NEW p \in Procs, MovesAgree(p), Step(p)
    PROVE  MovesAgree(p)'
<1> DEFINE o == proc[p]
           n == proc'[p]
<1>f. Agrees(n) /\ LocksOf(p) /\ Agrees(o) /\ o \in Operations
  BY StepAgrees, StepLocks DEF OperationsAgree, Agrees
<1>t. proc \in [Procs -> Operations] /\ mem \in [Memories -> Values]
  BY DEF TypeOK
<1>l. last' = last
  BY StepLast
<1>1. CASE Finish(p)
  <2>1. n.pc = "idle"
    BY <1>1, <1>t DEF Finish, Idle
  <2> QED BY <2>1 DEF MovesAgree
<1>2. CASE n.pc \notin {"blocking", "moving", "rollback"}
  BY <1>2 DEF MovesAgree
<1>3. CASE Acquire(p) /\ o.pc = "blocking"
  <2>1. PICK l \in NextLock(p) : /\ owner[l] = Nobody /\ owner' = [owner EXCEPT ![l] = p]
                                 /\ proc' = [proc EXCEPT ![p].need = @ \ {l}]
    BY <1>3 DEF Acquire
  <2>2. /\ n.need = o.need \ {l} /\ n.pc = "blocking" /\ n.req = o.req /\ n.form = o.form
        /\ l \in o.need
    BY <1>3, <1>f, <1>t, <2>1 DEF Operations, NextLock
  <2>3. Held(p) \cup {l} \subseteq Held(p)'
    BY <2>1, <2>2, <1>f DEF Held, TypeOK, Operations
  <2>4. /\ \A k : Source(p, k)' = Source(p, k) /\ Destination(p, k)' = Destination(p, k)
        /\ Moved(p)' = Moved(p)
    BY <2>2 DEF Source, Destination, Moved
  <2> QED BY <1>3, <2>2, <2>3, <2>4 DEF MovesAgree
<1>4. CASE Reload(p) /\ ~Finish(p) /\ o.req.kind = "move"
  <2>1. /\ proc' = [proc EXCEPT ![p].pc = "blocking", ![p].need = MemoryLocks(o.req)]
        /\ cfg = o.form
    BY <1>4 DEF Reload, Unchanged
  <2>2. n.pc = "blocking" /\ n.need = MemoryLocks(o.req) /\ n.req = o.req /\ n.form = cfg
    BY <1>f, <1>t, <2>1 DEF Operations
  <2>3. Moved(p)' = Owned(cfg, o.req.group, o.req.agent)
    BY <2>2 DEF Moved, Owned
  <2>4. \A k \in Moved(p)' : {Source(p, k)', Destination(p, k)'} \subseteq n.need
    BY <2>2, <2>3 DEF Source, Destination, MemoryLocks
  <2> QED BY <2>2, <2>4 DEF MovesAgree
<1>5. CASE CheckMove(p) /\ ~Finish(p)
  <2>1. /\ ReadyToMove(p) /\ o.pc = "blocking" /\ o.need = {} /\ owner' = owner
        /\ proc' = [proc EXCEPT ![p].pc = "moving", ![p].seen = Absent]
    BY <1>5 DEF CheckMove, At
  <2>2. n.pc = "moving" /\ n.req = o.req /\ n.form = o.form /\ n.made = {}
    BY <1>f, <1>t, <2>1 DEF Operations, Agrees, MoveAgrees
  <2>3. /\ \A k : Source(p, k)' = Source(p, k) /\ Destination(p, k)' = Destination(p, k)
        /\ Moved(p)' = Moved(p)
    BY <2>2 DEF Source, Destination, Moved
  <2>4. LockedHomes(p)
    BY <2>1 DEF MovesAgree, LockedHomes, Held
  <2>5. LockedHomes(p)'
    BY <2>1, <2>3, <2>4 DEF LockedHomes
  <2>6. \A k \in Moved(p) : last[Destination(p, k)] = Absent
    <3> SUFFICES ASSUME NEW k \in Moved(p), last[Destination(p, k)] # Absent PROVE FALSE
      OBVIOUS
    <3>1. Destination(p, k) \in Homes
      BY <2>1, HomesTyped
    <3>2. mem[Destination(p, k)] = Absent
      BY <2>1 DEF ReadyToMove
    <3> QED BY <3>1, <3>2, Constants DEF MemoryKept, Homes, Memories
  <2> QED BY <1>l, <2>2, <2>3, <2>5, <2>6 DEF MovesAgree
<1>6. CASE CreateDestination(p)
  <2>1. PICK k \in Moved(p) \ o.made :
          \/ /\ mem' = [mem EXCEPT ![Destination(p, k)] = Copied(p, k)]
             /\ proc' = [proc EXCEPT ![p].made = @ \cup {k}]
          \/ proc' = [proc EXCEPT ![p].pc = "rollback", ![p].made = @ \cup {k}]
    BY <1>6 DEF CreateDestination
  <2>2. o.pc = "moving" /\ owner' = owner
    BY <1>6 DEF CreateDestination, At
  <2>3. /\ n.pc \in {"moving", "rollback"} /\ n.req = o.req /\ n.form = o.form
        /\ n.made = o.made \cup {k}
        /\ n.pc = "moving" => mem' = [mem EXCEPT ![Destination(p, k)] = Copied(p, k)]
    BY <1>f, <1>t, <2>1, <2>2 DEF Operations
  <2>4. /\ \A l : Source(p, l)' = Source(p, l) /\ Destination(p, l)' = Destination(p, l)
        /\ Moved(p)' = Moved(p)
    BY <2>3 DEF Source, Destination, Moved
  <2>5. /\ LockedHomes(p)' /\ n.made \subseteq Moved(p)
        /\ \A l \in Moved(p) : last'[Destination(p, l)] = Absent
    BY <1>l, <2>2, <2>3, <2>4 DEF MovesAgree, LockedHomes
  <2>6. ASSUME n.pc = "moving", NEW l \in n.made PROVE mem'[Destination(p, l)] = Copied(p, l)'
    <3>1. l \in Own /\ k \in Own /\ l \in o.made \cup {k}
      BY <2>2, <2>3, <2>5, <2>6, HomesTyped
    <3>2. /\ Source(p, l) \in Memories /\ Destination(p, l) \in Memories
          /\ Destination(p, k) \in Memories /\ Source(p, l) # Destination(p, k)
          /\ l # k => Destination(p, l) # Destination(p, k)
      BY <2>2, <3>1, HomesTyped DEF Homes, Memories
    <3>3. mem' = [mem EXCEPT ![Destination(p, k)] = Copied(p, k)]
      BY <2>3, <2>6
    <3>4. mem'[Source(p, l)] = mem[Source(p, l)]
      BY <1>t, <3>2, <3>3
    <3>5. Copied(p, l)' = Copied(p, l)
      BY <2>3, <2>4, <3>4 DEF Copied
    <3>6. CASE l = k
      BY <1>t, <3>2, <3>3, <3>5, <3>6
    <3>7. CASE l # k
      BY <1>t, <2>2, <3>1, <3>2, <3>3, <3>5, <3>7 DEF MovesAgree
    <3> QED BY <3>6, <3>7
  <2> QED BY <2>3, <2>4, <2>5, <2>6 DEF MovesAgree
<1>7. CASE CommitMove(p) /\ ~Finish(p)
  <2>1. /\ o.pc = "moving" /\ owner' = owner
        /\ proc' = [proc EXCEPT ![p].pc = "rollback"]
    BY <1>7 DEF CommitMove, At
  <2>2. n.pc = "rollback" /\ n.req = o.req /\ n.form = o.form /\ n.made = o.made
    BY <1>f, <1>t, <2>1 DEF Operations
  <2>3. /\ \A l : Source(p, l)' = Source(p, l) /\ Destination(p, l)' = Destination(p, l)
        /\ Moved(p)' = Moved(p)
    BY <2>2 DEF Source, Destination, Moved
  <2> QED BY <1>l, <2>1, <2>2, <2>3 DEF MovesAgree, LockedHomes
<1>8. CASE Rollback(p) /\ ~Finish(p)
  <2>1. /\ o.pc = "rollback" /\ owner' = owner
        /\ \E k \in o.made : proc' = [proc EXCEPT ![p].made = @ \ {k}]
    BY <1>8 DEF Rollback, At
  <2>2. n.pc = "rollback" /\ n.req = o.req /\ n.form = o.form /\ n.made \subseteq o.made
    BY <1>f, <1>t, <2>1 DEF Operations
  <2>3. /\ \A l : Source(p, l)' = Source(p, l) /\ Destination(p, l)' = Destination(p, l)
        /\ Moved(p)' = Moved(p)
    BY <2>2 DEF Source, Destination, Moved
  <2> QED BY <1>l, <2>1, <2>2, <2>3 DEF MovesAgree, LockedHomes
<1>9. CASE Show(p) \/ Load(p) \/ Preview(p) \/ Conflict(p) \/ TryChannel(p) \/ ArchiveChannel(p)
  <2>1. CASE Show(p)
    <3>1. \E q : n.pc = "asked" \/ n.pc = "confirmed"
      BY <2>1, <1>t DEF Show, Idle
    <3> QED BY <1>2, <3>1
  <2>2. CASE (Load(p) \/ Preview(p)) /\ ~Finish(p)
    <3>1. n.pc \in {"loaded", "asked"}
      BY <2>2, <1>t DEF Load, Preview, Operations
    <3> QED BY <1>2, <3>1
  <2>3. CASE (Conflict(p) \/ TryChannel(p) \/ ArchiveChannel(p)) /\ ~Finish(p)
    <3>1. n.pc \in {"asked", "archiving", "archived"}
      BY <2>3, <1>t DEF Conflict, TryChannel, ArchiveChannel, Operations
    <3> QED BY <1>2, <3>1
  <2> QED BY <1>1, <1>9, <2>1, <2>2, <2>3
<1>10. CASE (Reload(p) /\ o.req.kind # "move") \/ SaveWithoutChannel(p)
  <2>1. CASE ~Finish(p)
    <3>1. n.pc \in {"locked", "restoring"}
      BY <1>10, <2>1, <1>t DEF Reload, SaveWithoutChannel, Operations
    <3> QED BY <1>2, <3>1
  <2> QED BY <1>1, <2>1
<1>11. CASE Acquire(p) /\ o.pc # "blocking"
  <2>1. n.pc = o.pc
    BY <1>11, <1>t DEF Acquire, Operations
  <2>2. o.need # {}
    BY <1>11 DEF Acquire, NextLock
  <2> QED BY <1>2, <1>11, <1>f, <2>1, <2>2 DEF Agrees, NeedAgrees
<1>12. CASE SaveUnlocked(p) \/ CreateJob(p) \/ Patch(p) \/ RestoreChannel(p) \/ Die(p)
  BY <1>1, <1>12 DEF SaveUnlocked, CreateJob, Patch, RestoreChannel, Die
<1> QED BY <1>1, <1>3, <1>4, <1>5, <1>6, <1>7, <1>8, <1>9, <1>10, <1>11, <1>12 DEF Step, Operation

LEMMA StepMovesAgree ==
    ASSUME TypeOK, OperationsAgree, HoldersAgree, MemoryKept, \A q \in Procs : MovesAgree(q),
           NEW p \in Procs, Step(p)
    PROVE  \A q \in Procs : MovesAgree(q)'
<1> SUFFICES ASSUME NEW q \in Procs, q # p PROVE MovesAgree(q)'
  BY OwnMoves
<1>1. LocksOf(p) /\ proc'[q] = proc[q]
  BY StepLocks, StepAgrees DEF Frame
<1>2. Untouched(q)
  BY StepLast, StepMemory DEF Untouched
<1> QED BY <1>1, <1>2, MovesOfOthers

LEMMA StepKeepsMemory ==
    ASSUME TypeOK, OperationsAgree, MemoryKept, NEW p \in Procs, MovesAgree(p), Step(p)
    PROVE  MemoryKept'
<1> DEFINE o == proc[p]
           c == o.req.object
<1>t. mem \in [Memories -> Values] /\ archive \in [Channels -> SUBSET Values]
  BY DEF TypeOK
<1>l. last' = last
  BY StepLast
<1> SUFFICES ASSUME NEW m \in Memories, last[m] # Absent
             PROVE  mem'[m] = last[m] \/ (m \in Channels /\ last[m] \in archive'[m])
  BY <1>l DEF MemoryKept
<1>k. mem[m] = last[m] \/ (m \in Channels /\ last[m] \in archive[m])
  BY DEF MemoryKept
<1>1. CASE ArchiveChannel(p)
  <2>1. /\ mem' = [mem EXCEPT ![c] = Absent]
        /\ archive' = [archive EXCEPT ![c] = @ \cup ({mem[c]} \ {Absent})]
    BY <1>1 DEF ArchiveChannel
  <2>2. c \in Channels
    BY <1>1, RequestTyped DEF ArchiveChannel, At, OperationsAgree, Agrees, RequestAgrees
  <2> HIDE DEF c
  <2> QED BY <1>t, <1>k, <2>1, <2>2
<1>2. CASE RestoreChannel(p)
  <2> DEFINE back == o.seen # Absent /\ mem[c] = Absent
  <2>1. /\ mem' = [mem EXCEPT ![c] = IF back THEN o.seen ELSE @]
        /\ archive' = [archive EXCEPT ![c] = IF back THEN @ \ {o.seen} ELSE @]
    BY <1>2 DEF RestoreChannel
  <2>2. c \in Channels
    BY <1>2, RequestTyped DEF RestoreChannel, At, OperationsAgree, Agrees, RequestAgrees
  <2>3. CASE back
    <3>1. mem' = [mem EXCEPT ![c] = o.seen] /\ archive' = [archive EXCEPT ![c] = @ \ {o.seen}]
          /\ mem[c] = Absent
      BY <2>1, <2>3
    <3> HIDE DEF c, back, o
    <3> QED BY <1>t, <1>k, <2>2, <3>1
  <2>4. CASE ~back
    <3>1. mem' = [mem EXCEPT ![c] = mem[c]] /\ archive' = [archive EXCEPT ![c] = archive[c]]
      BY <2>1, <2>4
    <3> HIDE DEF c, back
    <3> QED BY <1>t, <1>k, <3>1
  <2> QED BY <2>3, <2>4
<1>3. CASE m \in Homes /\ archive' = archive
  <2>1. m \notin Channels
    BY <1>3, Constants
  <2>2. mem'[m] = mem[m]
    BY <1>3, StepMemory DEF MovesAgree
  <2> QED BY <1>k, <2>1, <2>2
<1>4. CASE m \notin Homes /\ ~ArchiveChannel(p) /\ ~RestoreChannel(p)
  <2>1. CASE mem' = mem /\ archive' = archive
    BY <1>k, <2>1
  <2>2. CASE CreateDestination(p) \/ Rollback(p)
    <3>1. o.pc \in {"moving", "rollback"} /\ archive' = archive
      BY <2>2 DEF CreateDestination, Rollback, At
    <3>2. mem' = mem \/ \E k \in Own : \E v : mem' = [mem EXCEPT ![Destination(p, k)] = v]
      BY <2>2, <3>1, HomesTyped DEF CreateDestination, Rollback, MovesAgree
    <3>3. \A k \in Own : Destination(p, k) # m
      BY <1>4, <3>1, HomesTyped
    <3>4. mem'[m] = mem[m]
      BY <1>t, <3>2, <3>3
    <3> QED BY <1>k, <3>1, <3>4
  <2>3. CASE ~(CreateDestination(p) \/ Rollback(p))
    BY <1>4, <2>1, <2>3 DEF memories, Step, Operation, Show, Load, SaveUnlocked, Preview, Acquire,
       Conflict, Reload, CreateJob, Patch, CheckMove, CommitMove, TryChannel, SaveWithoutChannel, Die
  <2> QED BY <2>2, <2>3
<1>5. ~ArchiveChannel(p) /\ ~RestoreChannel(p) => archive' = archive
  BY DEF memories, Step, Operation, Show, Load, SaveUnlocked, Preview, Acquire, Conflict, Reload,
     CreateJob, Patch, CheckMove, CreateDestination, CommitMove, Rollback, TryChannel,
     SaveWithoutChannel, Die
<1> QED BY <1>1, <1>2, <1>3, <1>4, <1>5

----------------------------------------------------------------------------
(* Jobs and users.                                                          *)

Besides ==
    \/ \E m \in Memories : ViewMemory(m) \/ WriteMemory(m)
    \/ \E j \in Jobs : StartJob(j) \/ Publish(j) \/ EndJob(j)

Inv ==
    /\ TypeOK /\ OperationsAgree /\ HoldersAgree /\ MemoryKept
    /\ \A p \in Procs : MovesAgree(p)

LEMMA BesidesTypes ==
    ASSUME TypeOK, Besides
    PROVE  TypeOK' /\ proc' = proc /\ \E x : x \notin Procs /\ LocksOf(x)
<1>t. /\ mem \in [Memories -> Values] /\ last \in [Memories -> Values]
      /\ owner \in [Locks -> Procs \cup Jobs \cup {Nobody}] /\ job \in [Jobs -> JobRecords \cup {Absent}]
  BY DEF TypeOK
<1>n. Nobody \notin Procs /\ \A j \in Jobs : j \notin Procs /\ j # Nobody
  BY Constants
<1>1. CASE \E m \in Memories : ViewMemory(m) \/ WriteMemory(m)
  <2>1. PICK m \in Memories : ViewMemory(m) \/ WriteMemory(m)
    BY <1>1
  <2>2. /\ UNCHANGED <<config, archive, job, owner, proc, bounds>>
        /\ \/ mem' = [mem EXCEPT ![m] = Blank] /\ last' = last
           \/ \E v \in Texts : mem' = [mem EXCEPT ![m] = v] /\ last' = [last EXCEPT ![m] = v]
    BY <2>1 DEF ViewMemory, WriteMemory
  <2>3. mem' \in [Memories -> Values] /\ last' \in [Memories -> Values]
    BY <1>t, <2>2 DEF Values
  <2>4. LocksOf(Nobody)
    BY <1>t, <2>2 DEF LocksOf
  <2> QED BY <1>n, <2>2, <2>3, <2>4 DEF TypeOK, bounds, config
<1>2. CASE \E j \in Jobs : StartJob(j)
  <2>1. PICK j \in Jobs : StartJob(j)
    BY <1>2
  <2>2. job[j] \in JobRecords /\ job[j].memory \in Memories
    BY <1>t, <2>1 DEF StartJob, JobRecords
  <2> DEFINE m == job[j].memory
             v == IF mem[m] = Absent THEN Blank ELSE mem[m]
  <2>3. v \in Values
    BY <1>t, <2>2 DEF Values
  <2>4. /\ UNCHANGED <<config, archive, job, proc, bounds, last>>
        /\ owner[m] = Nobody /\ owner' = [owner EXCEPT ![m] = j] /\ mem' = [mem EXCEPT ![m] = v]
    BY <1>t, <2>1, <2>2 DEF StartJob
  <2>5. m \in Locks
    BY <2>2 DEF Locks
  <2> HIDE DEF m, v
  <2>6. LocksOf(j)
    BY <1>t, <2>4, <2>5 DEF LocksOf
  <2>7. mem' \in [Memories -> Values] /\ owner' \in [Locks -> Procs \cup Jobs \cup {Nobody}]
    BY <1>t, <2>3, <2>4
  <2> QED BY <1>n, <2>4, <2>6, <2>7 DEF TypeOK, bounds, config
<1>3. CASE \E j \in Jobs : Publish(j)
  <2>1. PICK j \in Jobs : Publish(j)
    BY <1>3
  <2>2. /\ UNCHANGED <<config, archive, job, owner, proc, bounds>>
        /\ \E v \in Texts : /\ mem' = [mem EXCEPT ![job[j].memory] = v]
                            /\ last' = [last EXCEPT ![job[j].memory] = v]
    BY <2>1 DEF Publish
  <2>3. mem' \in [Memories -> Values] /\ last' \in [Memories -> Values]
    BY <1>t, <2>2 DEF Values
  <2>4. LocksOf(Nobody)
    BY <1>t, <2>2 DEF LocksOf
  <2> QED BY <1>n, <2>2, <2>3, <2>4 DEF TypeOK, bounds, config
<1>4. CASE \E j \in Jobs : EndJob(j)
  <2>1. PICK j \in Jobs : EndJob(j)
    BY <1>4
  <2>2. /\ UNCHANGED <<config, memories, proc, bounds>> /\ job[j] # Absent
        /\ job' = [job EXCEPT ![j].active = FALSE] /\ owner' = Released(j)
    BY <2>1 DEF EndJob
  <2>3. job' \in [Jobs -> JobRecords \cup {Absent}]
    BY <1>t, <2>2 DEF JobRecords
  <2>4. LocksOf(j)
    BY <2>2, ReleasedLocks
  <2> QED BY <1>n, <2>2, <2>3, <2>4 DEF TypeOK, bounds, config, memories, LocksOf
<1> QED BY <1>1, <1>2, <1>3, <1>4 DEF Besides

LEMMA BesidesUntouched ==
    ASSUME Inv, Besides, NEW q \in Procs PROVE Untouched(q)
<1>t. mem \in [Memories -> Values] /\ last \in [Memories -> Values]
      /\ job \in [Jobs -> JobRecords \cup {Absent}]
  BY DEF Inv, TypeOK
<1>n. q # Nobody /\ \A j \in Jobs : j # q
  BY Constants
<1>1. CASE \E m \in Memories : ViewMemory(m) \/ WriteMemory(m)
  <2>1. PICK m \in Memories : ViewMemory(m) \/ WriteMemory(m)
    BY <1>1
  <2>2. /\ owner[m] = Nobody
        /\ \A h \in Memories \ {m} : mem'[h] = mem[h] /\ last'[h] = last[h]
    BY <1>t, <2>1 DEF ViewMemory, WriteMemory
  <2> QED BY <1>n, <2>2 DEF Untouched, Homes, Memories
<1>2. CASE \E j \in Jobs : StartJob(j) \/ Publish(j)
  <2>1. PICK j \in Jobs : StartJob(j) \/ Publish(j)
    BY <1>2
  <2>2. /\ owner[job[j].memory] \in {Nobody, j}
        /\ \A h \in Memories : h # job[j].memory => mem'[h] = mem[h] /\ last'[h] = last[h]
    BY <1>t, <2>1 DEF StartJob, Publish
  <2> QED BY <1>n, <2>2 DEF Untouched, Homes, Memories
<1>3. CASE \E j \in Jobs : EndJob(j)
  BY <1>3 DEF EndJob, memories, Untouched
<1> QED BY <1>1, <1>2, <1>3 DEF Besides

LEMMA BesidesKeeps ==
    ASSUME Inv, Besides PROVE MemoryKept'
<1>t. /\ mem \in [Memories -> Values] /\ last \in [Memories -> Values]
      /\ job \in [Jobs -> JobRecords \cup {Absent}]
  BY DEF Inv, TypeOK
<1>k. MemoryKept
  BY DEF Inv
<1>1. CASE \E m \in Memories : ViewMemory(m) \/ WriteMemory(m)
  <2>1. PICK m \in Memories : ViewMemory(m) \/ WriteMemory(m)
    BY <1>1
  <2> QED BY <1>t, <1>k, <2>1 DEF ViewMemory, WriteMemory, MemoryKept
<1>2. CASE \E j \in Jobs : StartJob(j)
  <2>1. PICK j \in Jobs : StartJob(j)
    BY <1>2
  <2>2. job[j].memory \in Memories
    BY <1>t, <2>1 DEF StartJob, JobRecords
  <2>3. /\ archive' = archive /\ last' = last
        /\ mem' = [mem EXCEPT ![job[j].memory] = IF @ = Absent THEN Blank ELSE @]
    BY <2>1 DEF StartJob
  <2> QED BY <1>t, <1>k, <2>2, <2>3 DEF MemoryKept
<1>3. CASE \E j \in Jobs : Publish(j)
  <2>1. PICK j \in Jobs : Publish(j)
    BY <1>3
  <2> QED BY <1>t, <1>k, <2>1 DEF Publish, MemoryKept
<1>4. CASE \E j \in Jobs : EndJob(j)
  BY <1>k, <1>4 DEF EndJob, memories, MemoryKept
<1> QED BY <1>1, <1>2, <1>3, <1>4 DEF Besides

----------------------------------------------------------------------------
LEMMA Initially == Init => Inv
<1> SUFFICES ASSUME Init PROVE Inv
  OBVIOUS
<1>1. Agrees(Idle) /\ Idle \in Operations /\ \A p \in Procs : proc[p] = Idle
  BY IdleAgrees DEF Init, Agrees
<1>2. TypeOK
  <2>1. job \in [Jobs -> JobRecords \cup {Absent}]
    <3>1. Submitted(cfg) \subseteq JobRecords
      BY JobTyped DEF Submitted
    <3> QED BY <3>1 DEF Init
  <2>2. /\ mem \in [Memories -> Values] /\ last \in [Memories -> Values]
        /\ archive \in [Channels -> SUBSET Values] /\ owner \in [Locks -> Procs \cup Jobs \cup {Nobody}]
    BY DEF Init, Values
  <2>3. cfg \in Configs /\ proc \in [Procs -> Operations]
    BY <1>1, Constants DEF Init
  <2>4. ops \in 0 .. MaxOps /\ faults \in 0 .. MaxFaults
    BY Constants DEF Init
  <2>5. reverted \in BOOLEAN
    BY DEF Init
  <2> QED BY <2>1, <2>2, <2>3, <2>4, <2>5 DEF TypeOK
<1>3. OperationsAgree
  BY <1>1 DEF OperationsAgree
<1>4. HoldersAgree
  <2>1. \A p \in Procs : Held(p) = {}
    BY Constants DEF Init, Held
  <2> QED BY <1>1, <2>1 DEF HoldersAgree, LocksAgree, Idle
<1>5. MemoryKept /\ \A p \in Procs : MovesAgree(p)
  BY <1>1 DEF Init, MemoryKept, MovesAgree, Idle
<1> QED BY <1>2, <1>3, <1>4, <1>5 DEF Inv

LEMMA Inductive == Inv /\ [Next]_vars => Inv'
<1> SUFFICES ASSUME Inv, [Next]_vars PROVE Inv'
  OBVIOUS
<1>i. /\ TypeOK /\ OperationsAgree /\ HoldersAgree /\ MemoryKept
      /\ \A p \in Procs : MovesAgree(p)
  BY DEF Inv
<1>1. ASSUME NEW p \in Procs, Step(p) PROVE Inv'
  <2>1. TypeOK' /\ HoldersAgree' /\ MemoryKept' /\ \A q \in Procs : MovesAgree(q)'
    BY <1>i, <1>1, StepTypes, StepLocksAgree, StepKeepsMemory, StepMovesAgree
  <2>2. OperationsAgree'
    BY <1>i, <1>1, StepAgrees DEF OperationsAgree, Frame
  <2> QED BY <2>1, <2>2 DEF Inv
<1>2. CASE Besides
  <2>1. TypeOK' /\ proc' = proc /\ \E x : x \notin Procs /\ LocksOf(x)
    BY <1>i, <1>2, BesidesTypes
  <2>2. PICK x : x \notin Procs /\ LocksOf(x)
    BY <2>1
  <2>3. HoldersAgree'
    BY <1>i, <2>1, <2>2, LocksOfOthers DEF HoldersAgree
  <2>4. \A q \in Procs : MovesAgree(q)'
    BY <1>i, <1>2, <2>1, <2>2, MovesOfOthers, BesidesUntouched
  <2>5. OperationsAgree'
    BY <1>i, <2>1 DEF OperationsAgree
  <2> QED BY <1>2, <2>1, <2>3, <2>4, <2>5, BesidesKeeps DEF Inv
<1>3. CASE UNCHANGED vars
  <2>1. /\ TypeOK' /\ OperationsAgree' /\ MemoryKept'
    BY <1>i, <1>3 DEF vars, TypeOK, OperationsAgree, MemoryKept
  <2>2. HoldersAgree'
    BY <1>i, <1>3 DEF vars, HoldersAgree, LocksAgree, Held
  <2>3. ASSUME NEW p \in Procs PROVE MovesAgree(p)'
    <3>1. LocksOf(Nobody) /\ Nobody \notin Procs
      BY <1>i, <1>3, Constants DEF vars, LocksOf, TypeOK
    <3>2. proc'[p] = proc[p] /\ Untouched(p)
      BY <1>3 DEF vars, Untouched
    <3> QED BY <1>i, <3>1, <3>2, MovesOfOthers
  <2> QED BY <2>1, <2>2, <2>3 DEF Inv
<1> QED BY <1>1, <1>2, <1>3 DEF Next, Step, Besides

LEMMA Invariance == Spec => []Inv
BY Initially, Inductive, PTL DEF Spec

(* The records of operations, locks and memories keep their shapes, for any     *)
(* number of operations, jobs and faults.                                       *)
THEOREM TypeCorrect == Spec => []TypeOK
<1>1. Inv => TypeOK
  BY DEF Inv
<1> QED BY <1>1, Invariance, PTL

(* Who waits for a lock holds earlier locks only, so that nobody waits in a     *)
(* circle: group roots come before memories, and each of them in one order      *)
(* (canonical_group_operation_lock_paths, move_instance).                       *)
THEOREM LocksInOrder == Spec => []OrderedLocks
<1>1. Inv => OrderedLocks
  BY DEF Inv, HoldersAgree, LocksAgree, OrderedLocks
<1> QED BY <1>1, Invariance, PTL

    \* each of W waits for a lock that another of W, or it itself, holds
Deadlocked(W) == \A p \in W : \E l \in NextLock(p) : owner[l] \in W

(* No operations wait for each other's locks: among any that wait, one waits for   *)
(* a lock that is free or held by something that waits for none of theirs.       *)
NoDeadlock == \A W \in SUBSET Procs : IsFiniteSet(W) /\ W # {} => ~Deadlocked(W)

    \* those of W that wait for a later lock than p does
Later(W, p) == {q \in W : \E l \in NextLock(p), m \in NextLock(q) : Order[l] < Order[m]}

(* The lock that p waits for is one of its needs, and its only next one.          *)
LEMMA NextLockTyped ==
    ASSUME TypeOK, NEW p \in Procs, NEW l \in NextLock(p)
    PROVE  l \in proc[p].need /\ l \in Locks /\ Order[l] \in Nat
           /\ \A m \in NextLock(p) : m = l
<1>1. proc[p].need \subseteq Locks
  BY DEF TypeOK, Operations
<1>2. l \in proc[p].need /\ l \in Locks /\ Order[l] \in Nat
  BY <1>1, Constants DEF NextLock
<1>3. ASSUME NEW m \in NextLock(p) PROVE m = l
  <2>1. m \in Locks /\ Order[m] \in Nat /\ Order[l] <= Order[m] /\ Order[m] <= Order[l]
    BY <1>1, <1>2, <1>3, Constants DEF NextLock
  <2> QED BY <1>2, <2>1, Constants
<1> QED BY <1>2, <1>3

(* Who holds the lock that p waits for waits for a later one, and so do less      *)
(* of W than of those that p waits before.                                       *)
LEMMA LaterShrinks ==
    ASSUME Inv, NEW W \in SUBSET Procs, Deadlocked(W), NEW p \in W
    PROVE  \E q \in W : Later(W, q) \subseteq Later(W, p) /\ Later(W, q) # Later(W, p)
<1>i. TypeOK /\ HoldersAgree
  BY DEF Inv
<1>1. PICK l \in NextLock(p) : owner[l] \in W
  BY DEF Deadlocked
<1> DEFINE q == owner[l]
<1>2. PICK m \in NextLock(q) : TRUE
  BY <1>1 DEF Deadlocked
<1> HIDE DEF q
<1>3. q \in W /\ q \in Procs /\ p \in Procs
  BY <1>1 DEF q
<1>4. l \in Locks /\ Order[l] \in Nat /\ m \in proc[q].need /\ Order[m] \in Nat
      /\ (\A k \in NextLock(p) : k = l) /\ \A k \in NextLock(q) : k = m
  BY <1>i, <1>1, <1>2, <1>3, NextLockTyped
<1>5. Order[l] < Order[m]
  BY <1>i, <1>3, <1>4 DEF HoldersAgree, LocksAgree, Held, q
<1>6. Later(W, q) \subseteq Later(W, p)
  <2> SUFFICES ASSUME NEW r \in W, NEW k \in NextLock(r), Order[m] < Order[k]
               PROVE  r \in Later(W, p)
    BY <1>4 DEF Later
  <2>1. Order[k] \in Nat
    BY <1>i, NextLockTyped
  <2> QED BY <1>1, <1>4, <1>5, <2>1 DEF Later
<1>7. q \in Later(W, p)
  BY <1>1, <1>2, <1>3, <1>5 DEF Later
<1>8. q \notin Later(W, q)
  BY <1>4 DEF Later
<1> QED BY <1>3, <1>6, <1>7, <1>8

(* Whatever operations are under way, they do not deadlock on the group locks and  *)
(* the memory locks, for any groups, memories and number of processes: the order   *)
(* in which each takes its locks is enough, also over the reload in between.       *)
THEOREM OperationsDoNotDeadlock == Spec => []NoDeadlock
<1>1. ASSUME Inv, NEW W \in SUBSET Procs, IsFiniteSet(W), W # {}, Deadlocked(W)
      PROVE  FALSE
  <2> DEFINE T == {Later(W, p) : p \in W}
             R == StrictSubsetOrdering(W)
  <2>1. T \subseteq SUBSET W /\ T # {}
    <3>1. PICK p \in W : TRUE
      BY <1>1
    <3>2. Later(W, p) \in T /\ \A q \in W : Later(W, q) \subseteq W
      BY <3>1 DEF Later
    <3> QED BY <3>2
  <2>2. IsWellFoundedOn(R, SUBSET W)
    BY <1>1, FS_FiniteSubsetsOfFinite, FS_StrictSubsetOrderingWellFounded
  <2> HIDE DEF R
  <2>3. PICK x \in T : \A y \in T : ~ (<<y, x>> \in R)
    <3> HIDE DEF T
    <3> QED BY <2>1, <2>2, WFMin
  <2>4. PICK p \in W : x = Later(W, p)
    BY <2>3
  <2>5. PICK q \in W : Later(W, q) \subseteq Later(W, p) /\ Later(W, q) # Later(W, p)
    BY <1>1, <2>4, LaterShrinks
  <2>6. Later(W, q) \in T /\ <<Later(W, q), x>> \in R
    BY <2>1, <2>4, <2>5 DEF R, StrictSubsetOrdering
  <2> QED BY <2>3, <2>6
<1>2. Inv => NoDeadlock
  BY <1>1 DEF NoDeadlock
<1> QED BY <1>2, Invariance, PTL

(* What a job or a user wrote last is in the memory or in the archive of its    *)
(* channel: a rollback removes only what its own move has made, at places where *)
(* nobody has written (move_instance, _delete_channel).                         *)
THEOREM WritesAreKept == Spec => []MemoryKept
<1>1. Inv => MemoryKept
  BY DEF Inv
<1> QED BY <1>1, Invariance, PTL

    \* the memories of p's move are at the destination as its mode has it
MovedWhole(p) ==
    \A k \in Moved(p) : mem'[Destination(p, k)] = IF proc[p].req.extra = "copy" /\ mem'[Source(p, k)] # Absent
                                                  THEN mem'[Source(p, k)] ELSE Blank

LEMMA CommitsWhole == ASSUME Inv, NEW p \in Procs, CommitMove(p) PROVE MovedWhole(p)
<1>1. mem' = mem /\ proc[p].pc = "moving" /\ proc[p].made = Moved(p)
  BY DEF CommitMove, At, memories
<1>2. \A k \in Moved(p) : mem[Destination(p, k)] = Copied(p, k)
  BY <1>1 DEF Inv, MovesAgree
<1> QED BY <1>1, <1>2 DEF MovedWhole, Copied

(* The step of a move that writes the configuration finds at the destinations   *)
(* what is at the sources then, though jobs and users may have written since    *)
(* the preview and the copies were made one by one (move_instance).             *)
THEOREM CommittedMoves == Spec => [][\A p \in Procs : CommitMove(p) => MovedWhole(p)]_vars
<1>1. Inv => \A p \in Procs : CommitMove(p) => MovedWhole(p)
  BY CommitsWhole
<1> QED BY <1>1, Invariance, PTL DEF Spec

----------------------------------------------------------------------------
(* What a change of the file leaves as it was.                               *)

LEMMA PatchedPaths ==
    ASSUME NEW c \in Configs, NEW r \in Requests, Possible(c, r) \/ r.kind = "deleteChannel",
           NEW g \in DOMAIN c.path
    PROVE  \/ g \in DOMAIN Patched(c, r).path /\ Patched(c, r).path[g] = c.path[g]
           \/ r.kind \in {"saveGroup", "deleteGroup"} /\ g = r.group
<1>1. c.path \in PathMaps /\ g \in Groups
  BY ConfigTyped DEF PathMaps
<1>2. CASE r.kind \in {"createGroup", "saveGroup"}
  <2>1. Patched(c, r).path = With(c.path, r.group, r.object)
    BY <1>2 DEF Patched, Configs
  <2>2. r.kind = "createGroup" => g # r.group
    BY DEF Possible
  <2> QED BY <1>2, <2>1, <2>2 DEF With
<1>3. CASE r.kind = "deleteGroup"
  <2>1. Patched(c, r).path = Keep(c.path, Groups \ {r.group})
    BY <1>3 DEF Patched, Configs
  <2> QED BY <1>1, <1>3, <2>1 DEF Keep
<1>4. CASE r.kind \notin {"createGroup", "saveGroup", "deleteGroup"}
  <2>1. Patched(c, r).path = c.path
    BY <1>4, RequestTyped DEF Patched, Configs
  <2> QED BY <2>1
<1> QED BY <1>2, <1>3, <1>4

LEMMA PatchedUses ==
    ASSUME NEW c \in Configs, NEW r \in Requests, Possible(c, r) \/ r.kind = "deleteChannel"
    PROVE  /\ \A x \in DOMAIN c.uses :
                 \/ x \in DOMAIN Patched(c, r).uses
                 \/ r.kind \in {"removeAgent", "move"} /\ x = <<r.group, r.agent>>
                 \/ r.kind = "deleteGroup" /\ x[1] = r.group
           /\ \A x \in DOMAIN Patched(c, r).uses :
                 \/ x \in DOMAIN c.uses
                 \/ r.kind = "createAgent"
                 \/ r.kind = "move" /\ x = <<r.object, r.agent>>
           /\ r.kind = "createAgent" => DOMAIN c.uses \subseteq DOMAIN Patched(c, r).uses
<1> DEFINE here == <<r.group, r.agent>>
           there == <<r.object, r.agent>>
           Others(P) == {p \in Groups \X Agents : p \notin P}
<1>1. c.uses \in Uses /\ \A x \in DOMAIN c.uses : x \in Groups \X Agents
  BY ConfigTyped DEF Uses
<1>2. CASE r.kind = "createAgent"
  <2>1. Patched(c, r).uses = With(c.uses, here, {})
    BY <1>2 DEF Patched, Configs
  <2> QED BY <1>2, <2>1 DEF With
<1>3. CASE r.kind = "removeAgent"
  <2>1. Patched(c, r).uses = Keep(c.uses, Others({here}))
    BY <1>3 DEF Patched, Configs
  <2>2. DOMAIN Patched(c, r).uses = DOMAIN c.uses \cap Others({here})
    BY <2>1 DEF Keep
  <2> QED BY <1>1, <1>3, <2>2
<1>4. CASE r.kind = "move"
  <2>1. Patched(c, r).uses = With(Keep(c.uses, Others({here})), there, c.uses[here])
    BY <1>4 DEF Patched, Configs
  <2>2. DOMAIN Patched(c, r).uses = (DOMAIN c.uses \cap Others({here})) \cup {there}
    BY <2>1 DEF Keep, With
  <2> QED BY <1>1, <1>4, <2>2
<1>5. CASE r.kind = "deleteGroup"
  <2>1. Patched(c, r).uses = Keep(c.uses, Others({r.group} \X Agents))
    BY <1>5 DEF Patched, Configs
  <2>2. DOMAIN Patched(c, r).uses = DOMAIN c.uses \cap Others({r.group} \X Agents)
    BY <2>1 DEF Keep
  <2> QED BY <1>1, <1>5, <2>2
<1>6. CASE r.kind = "select"
  <2>1. DOMAIN Patched(c, r).uses = DOMAIN c.uses
    BY <1>6 DEF Patched, Configs
  <2> QED BY <2>1, <1>6
<1>7. CASE r.kind \in {"submit", "createGroup", "saveGroup", "createChannel", "rekeyChannel", "deleteChannel"}
  <2>1. Patched(c, r).uses = c.uses
    BY <1>7 DEF Patched, Configs
  <2> QED BY <2>1, <1>7
<1> QED BY <1>2, <1>3, <1>4, <1>5, <1>6, <1>7, RequestTyped

----------------------------------------------------------------------------
(* As long as the file has not returned to what an operation has read, an     *)
(* operation past its second load holds the locks of its groups as they are.  *)

Guarding == {"locked", "blocking", "moving", "archiving"}
Kept(p) == GroupsNamed(proc[p].snap, proc[p].req)
Guarded(p) == \A g \in Kept(p) : g \in DOMAIN cfg.path /\ owner[cfg.path[g]] = p

FilesAgree(p) ==
    LET o == proc[p]
        r == o.req
    IN  /\ o.pc = "loaded" /\ r.kind \in Unlocked /\ cfg = o.form => o.snap = cfg
        /\ o.pc = "loaded" /\ r.kind \notin Unlocked /\ Unchanged(p) =>
              GroupsNamed(cfg, r) \subseteq DOMAIN cfg.path /\ GroupLocks(cfg, r) \subseteq o.need \cup Held(p)
        /\ o.pc \in Guarding => Guarded(p)
        /\ o.pc = "locked" /\ r.kind = "submit" => <<r.group, r.agent>> \in DOMAIN cfg.uses
        /\ o.pc \in {"blocking", "moving"} => ~Active(r.group, r.agent) /\ ~Active(r.object, r.agent)
        /\ o.pc = "archiving" \/ (o.pc = "locked" /\ r.kind = "deleteChannel") =>
              ~ActiveOnChannel(o.snap, r.object)

FilesInv == ~reverted => \A p \in Procs : FilesAgree(p)

LEMMA Noted ==
    ASSUME reverted \in BOOLEAN, NEW p \in Procs, Step(p), ~reverted'
    PROVE  ~reverted /\ (cfg' = cfg \/ \A q \in Procs : cfg' # proc[q].form /\ cfg' # proc[q].snap)
<1>1. (cfg' = cfg /\ reverted' = reverted) \/ Note
  BY DEF config, Step, Operation, Show, Load, SaveUnlocked, Preview, Acquire, Conflict, Reload,
     CreateJob, Patch, CheckMove, CreateDestination, CommitMove, Rollback, TryChannel, ArchiveChannel,
     SaveWithoutChannel, RestoreChannel, Die
<1>2. CASE cfg' = cfg /\ reverted' = reverted
  BY <1>2
<1>3. CASE Note
  <2>1. reverted' = (reverted \/ (cfg' # cfg /\ \E q \in Procs : cfg' \in {proc[q].form, proc[q].snap}))
    BY <1>3 DEF Note
  <2>2. ~reverted /\ ~(cfg' # cfg /\ \E q \in Procs : cfg' \in {proc[q].form, proc[q].snap})
    BY <2>1
  <2> QED BY <2>2
<1> QED BY <1>1, <1>2, <1>3

LEMMA FileSteps ==
    ASSUME Inv, NEW p \in Procs, FilesAgree(p), Step(p), cfg' # cfg
    PROVE  /\ proc[p].req \in Requests /\ cfg \in Configs
           /\ cfg' = Patched(cfg, proc[p].req)
           /\ Possible(cfg, proc[p].req) \/ proc[p].req.kind = "deleteChannel"
           /\ \/ proc[p].pc = "locked"
              \/ proc[p].pc = "moving" /\ CommitMove(p) /\ proc[p].req.kind = "move"
              \/ proc[p].req.kind \in Unlocked \cup {"deleteChannel"}
<1> DEFINE o == proc[p]
           r == o.req
<1>o. cfg \in Configs /\ (o.pc # "idle" => r \in Requests)
  BY DEF Inv, TypeOK, OperationsAgree, Agrees, RequestAgrees
<1>1. CASE SaveUnlocked(p)
  <2>1. o.pc = "loaded" /\ r.kind \in Unlocked /\ cfg = o.form
        /\ Possible(o.snap, r) /\ cfg' = Patched(o.snap, r)
    BY <1>1 DEF SaveUnlocked, At, SavePossible
  <2>2. o.snap = cfg
    BY <2>1 DEF FilesAgree
  <2> QED BY <1>o, <2>1, <2>2
<1>2. CASE Patch(p)
  <2>1. o.pc = "locked" /\ Possible(cfg, r) /\ cfg' = Patched(cfg, r)
    BY <1>2 DEF Patch, At, SavePossible
  <2> QED BY <1>o, <2>1
<1>3. CASE CommitMove(p)
  <2>1. o.pc = "moving" /\ r.kind = "move"
    BY <1>3 DEF CommitMove, At
  <2>2. Possible(cfg, r) /\ cfg' = Patched(cfg, r)
    BY <1>3 DEF CommitMove, SavePossible
  <2> QED BY <1>o, <1>3, <2>1, <2>2
<1>4. CASE SaveWithoutChannel(p)
  <2>1. o.pc = "archived" /\ r.kind = "deleteChannel" /\ cfg' = Patched(cfg, r)
    BY <1>4 DEF SaveWithoutChannel, At
  <2> QED BY <1>o, <2>1
<1> QED BY <1>1, <1>2, <1>3, <1>4 DEF config, Step, Operation, Show, Load, Preview, Acquire, Conflict,
        Reload, CreateJob, CheckMove, CreateDestination, Rollback, TryChannel, ArchiveChannel,
        RestoreChannel, Die

LEMMA OneGuard ==
    ASSUME NEW p, NEW q, p # q, Guarded(p), Guarded(q), NEW g, g \in Kept(p) PROVE g \notin Kept(q)
BY DEF Guarded

    \* the one group of an operation other than a move and a deletion of a channel
LEMMA KeptGroup ==
    ASSUME NEW p, proc[p].req \in Requests, proc[p].req.kind \notin {"deleteChannel", "createGroup"}
    PROVE  /\ proc[p].req.group \in Kept(p)
           /\ proc[p].req.kind = "move" => proc[p].req.object \in Kept(p)
           /\ proc[p].req.kind # "move" => Kept(p) = {proc[p].req.group}
BY DEF Kept, GroupsNamed

LEMMA KeepsGuard ==
    ASSUME Inv, NEW p \in Procs, Step(p), FilesAgree(p), NEW q \in Procs, q # p, Guarded(q)
    PROVE  \A g \in Kept(q) : g \in DOMAIN cfg'.path /\ owner'[cfg'.path[g]] = q
<1> SUFFICES ASSUME NEW g \in Kept(q)
             PROVE  g \in DOMAIN cfg'.path /\ owner'[cfg'.path[g]] = q
  OBVIOUS
<1>1. cfg \in Configs /\ g \in DOMAIN cfg.path /\ owner[cfg.path[g]] = q
  BY DEF Inv, TypeOK, Guarded
<1>2. cfg.path[g] \in Locks
  BY <1>1, ConfigTyped DEF PathMaps, Locks
<1>3. owner'[cfg.path[g]] = q
  <2>1. LocksOf(p)
    BY StepLocks DEF Inv
  <2> QED BY <1>1, <1>2, <2>1, Constants DEF LocksOf
<1>4. CASE cfg' = cfg
  BY <1>1, <1>3, <1>4
<1>5. CASE cfg' # cfg
  <2> DEFINE r == proc[p].req
  <2>1. /\ r \in Requests /\ cfg' = Patched(cfg, r)
        /\ Possible(cfg, r) \/ r.kind = "deleteChannel"
        /\ r.kind \in {"saveGroup", "deleteGroup"} => proc[p].pc = "locked"
    BY <1>5, FileSteps DEF Unlocked
  <2>2. \/ g \in DOMAIN cfg'.path /\ cfg'.path[g] = cfg.path[g]
        \/ r.kind \in {"saveGroup", "deleteGroup"} /\ g = r.group
    BY <1>1, <2>1, PatchedPaths
  <2>3. ASSUME r.kind \in {"saveGroup", "deleteGroup"}, g = r.group PROVE FALSE
    <3>1. Guarded(p)
      BY <2>1, <2>3 DEF FilesAgree, Guarding
    <3>2. g \in Kept(p)
      BY <2>1, <2>3, KeptGroup
    <3> QED BY <3>1, <3>2, OneGuard
  <2> QED BY <1>3, <2>2, <2>3
<1> QED BY <1>4, <1>5

    \* the agent of a submission stays
LEMMA KeepsHome ==
    ASSUME Inv, NEW p \in Procs, Step(p), FilesAgree(p), NEW q \in Procs, q # p, Guarded(q),
           proc[q].req \in Requests, proc[q].req.kind = "submit",
           NEW x, x = <<proc[q].req.group, proc[q].req.agent>>, x \in DOMAIN cfg.uses
    PROVE  x \in DOMAIN cfg'.uses
<1>1. CASE cfg' = cfg
  BY <1>1
<1>2. CASE cfg' # cfg
  <2> DEFINE r == proc[p].req
  <2>1. /\ r \in Requests /\ cfg \in Configs /\ cfg' = Patched(cfg, r)
        /\ Possible(cfg, r) \/ r.kind = "deleteChannel"
        /\ r.kind \in {"removeAgent", "move", "deleteGroup"} => proc[p].pc \in {"locked", "moving"}
    BY <1>2, FileSteps DEF Unlocked
  <2>2. \/ x \in DOMAIN cfg'.uses
        \/ r.kind \in {"removeAgent", "move", "deleteGroup"} /\ x[1] = r.group
    BY <2>1, PatchedUses
  <2>3. ASSUME r.kind \in {"removeAgent", "move", "deleteGroup"}, x[1] = r.group PROVE FALSE
    <3>1. Guarded(p)
      BY <2>1, <2>3 DEF FilesAgree, Guarding
    <3>2. x[1] \in Kept(p)
      BY <2>1, <2>3, KeptGroup
    <3>3. x[1] \in Kept(q)
      BY KeptGroup
    <3> QED BY <3>1, <3>2, <3>3, OneGuard
  <2> QED BY <2>2, <2>3
<1> QED BY <1>1, <1>2

    \* a job that begins is of a group whose lock its submission holds
LEMMA NewJobs ==
    ASSUME Inv, NEW p \in Procs, Step(p), FilesAgree(p), NEW j \in Jobs, job'[j] # job[j]
    PROVE  /\ job[j] = Absent /\ job'[j] = JobOf(proc[p].req) /\ Guarded(p) /\ job'[j].group \in Kept(p)
           /\ <<job'[j].group, job'[j].agent>> \in DOMAIN cfg.uses
<1>1. CreateJob(p)
  BY DEF Step, Operation, memories, Show, Load, SaveUnlocked, Preview, Acquire, Conflict, Reload,
     Patch, CheckMove, CreateDestination, CommitMove, Rollback, TryChannel, ArchiveChannel,
     SaveWithoutChannel, RestoreChannel, Die
<1>2. PICK i \in Jobs : job[i] = Absent /\ job' = [job EXCEPT ![i] = JobOf(proc[p].req)]
  BY <1>1 DEF CreateJob
<1>3. job \in [Jobs -> JobRecords \cup {Absent}]
  BY DEF Inv, TypeOK
<1>4. job[j] = Absent /\ job'[j] = JobOf(proc[p].req)
  BY <1>2, <1>3
<1>5. proc[p].pc = "locked" /\ proc[p].req.kind = "submit" /\ proc[p].req \in Requests
  BY <1>1 DEF CreateJob, At, Inv, OperationsAgree, Agrees, RequestAgrees
<1>6. Guarded(p) /\ <<proc[p].req.group, proc[p].req.agent>> \in DOMAIN cfg.uses
  BY <1>5 DEF FilesAgree, Guarding
<1>7. proc[p].req.group \in Kept(p)
  BY <1>5, KeptGroup
<1> QED BY <1>4, <1>6, <1>7 DEF JobOf

LEMMA FilesOfOthers ==
    ASSUME Inv, NEW p \in Procs, Step(p), ~reverted', FilesAgree(p),
           NEW q \in Procs, q # p, FilesAgree(q)
    PROVE  FilesAgree(q)'
<1> DEFINE o == proc[q]
           r == o.req
<1>1. proc'[q] = o /\ Held(q)' = Held(q)
  <2>1. LocksOf(p) /\ proc'[q] = proc[q] /\ TypeOK /\ OperationsAgree /\ LocksAgree(q)
    BY StepLocks, StepAgrees DEF Inv, Frame, HoldersAgree
  <2> QED BY <2>1, LocksOfOthers
<1>2. cfg' = cfg \/ (cfg' # o.form /\ cfg' # o.snap)
  BY Noted DEF Inv, TypeOK
<1>3. Agrees(o)
  BY DEF Inv, OperationsAgree
<1>4. o.pc \in Guarding => Guarded(q) /\ r \in Requests
  BY <1>3 DEF FilesAgree, Agrees, RequestAgrees, Guarding
<1>5. ASSUME o.pc = "loaded", r.kind \in Unlocked, cfg' = o.form PROVE o.snap = cfg'
  BY <1>2, <1>5 DEF FilesAgree
<1>6. ASSUME o.pc = "loaded", r.kind \notin Unlocked, Unchanged(q)'
      PROVE  /\ GroupsNamed(cfg', r) \subseteq DOMAIN cfg'.path
             /\ GroupLocks(cfg', r) \subseteq o.need \cup Held(q)
  <2>1. /\ r.kind \in Bound => cfg' = o.snap
        /\ r.kind # "submit" => cfg' = o.form
    BY <1>1, <1>6 DEF Unchanged
  <2>2. cfg' = cfg
    BY <1>2, <2>1 DEF Bound
  <2>3. Unchanged(q)
    BY <2>1, <2>2 DEF Unchanged
  <2> QED BY <1>6, <2>2, <2>3 DEF FilesAgree
<1>7. ASSUME o.pc \in Guarding PROVE Guarded(q)'
  <2>1. \A g \in Kept(q) : g \in DOMAIN cfg'.path /\ owner'[cfg'.path[g]] = q
    BY <1>4, <1>7, KeepsGuard
  <2>2. Kept(q)' = Kept(q)
    BY <1>1 DEF Kept
  <2> QED BY <2>1, <2>2 DEF Guarded
<1>8. ASSUME o.pc = "locked", r.kind = "submit" PROVE <<r.group, r.agent>> \in DOMAIN cfg'.uses
  <2>1. <<r.group, r.agent>> \in DOMAIN cfg.uses
    BY <1>8 DEF FilesAgree
  <2> QED BY <1>4, <1>8, <2>1, KeepsHome DEF Guarding
    \* the jobs that begin are of groups that q does not keep
<1>9. ASSUME o.pc \in Guarding, NEW j \in Jobs, job'[j] # job[j] PROVE job'[j].group \notin Kept(q)
  BY <1>4, <1>9, NewJobs, OneGuard
<1>10. ASSUME o.pc \in {"blocking", "moving"} PROVE ~Active(r.group, r.agent)' /\ ~Active(r.object, r.agent)'
  <2>1. r.group \in Kept(q) /\ r.object \in Kept(q)
    BY <1>3, <1>4, <1>10, KeptGroup DEF Guarding, Agrees, RequestAgrees
  <2>2. ~Active(r.group, r.agent) /\ ~Active(r.object, r.agent)
    BY <1>10 DEF FilesAgree
  <2> QED BY <1>1, <1>9, <1>10, <2>1, <2>2 DEF Active, Guarding
<1>11. ASSUME o.pc = "archiving" \/ (o.pc = "locked" /\ r.kind = "deleteChannel")
       PROVE  ~ActiveOnChannel(o.snap, r.object)'
  <2>1. ~ActiveOnChannel(o.snap, r.object)
    BY <1>11 DEF FilesAgree
  <2>2. r.kind = "deleteChannel"
    BY <1>3, <1>11 DEF Agrees, RequestAgrees
  <2>3. Kept(q) = DOMAIN o.snap.path
    BY <2>2 DEF Kept, GroupsNamed
  <2> QED BY <1>1, <1>9, <1>11, <2>1, <2>3 DEF ActiveOnChannel, Guarding
<1> QED BY <1>1, <1>5, <1>6, <1>7, <1>8, <1>10, <1>11 DEF FilesAgree

LEMMA KeptOfLoaded ==
    ASSUME NEW p \in Procs, Inv, proc[p].pc = "loaded", proc[p].req.kind \in Locking, proc[p].need = {},
           Unchanged(p), FilesAgree(p)
    PROVE  Kept(p) = GroupsNamed(cfg, proc[p].req) /\ Guarded(p)
<1> DEFINE o == proc[p]
           r == o.req
<1>1. GroupsNamed(cfg, r) \subseteq DOMAIN cfg.path /\ GroupLocks(cfg, r) \subseteq Held(p)
  BY DEF FilesAgree, Locking
<1>2. Kept(p) = GroupsNamed(cfg, r)
  <2>1. CASE r.kind \in Bound
    BY <2>1 DEF Kept, Unchanged
  <2>2. CASE r.kind # "deleteChannel"
    BY <2>2 DEF Kept, GroupsNamed
  <2> QED BY <2>1, <2>2 DEF Bound
<1>3. \A g \in GroupsNamed(cfg, r) : cfg.path[g] \in Held(p)
  BY <1>1 DEF GroupLocks
<1> QED BY <1>1, <1>2, <1>3 DEF Guarded, Held

LEMMA FilesOfOwn ==
    ASSUME Inv, NEW p \in Procs, Step(p), FilesAgree(p)
    PROVE  FilesAgree(p)'
<1> DEFINE o == proc[p]
           r == o.req
           n == proc'[p]
<1>o. Agrees(o) /\ o \in Operations /\ Agrees(n) /\ proc \in [Procs -> Operations]
  BY StepAgrees DEF Inv, OperationsAgree, Agrees, TypeOK
<1>w. owner \in [Locks -> Procs \cup Jobs \cup {Nobody}] /\ p # Nobody
  BY Constants DEF Inv, TypeOK
<1>q. CASE n.pc \notin {"loaded"} \cup Guarding
  BY <1>q DEF FilesAgree, Guarding
<1>f. CASE Finish(p)
  <2>1. n.pc = "idle"
    BY <1>f, <1>o DEF Finish, Idle
  <2> QED BY <1>q, <2>1 DEF Guarding
<1>1. CASE Show(p)
  <2>1. n.pc \in {"confirmed", "asked"}
    BY <1>1, <1>o DEF Show, Idle
  <2> QED BY <1>q, <2>1 DEF Guarding
<1>2. CASE Load(p) /\ ~Finish(p)
  <2>1. /\ n.pc = "loaded" /\ n.req = r /\ cfg' = cfg
        /\ r.kind \in Unlocked => n.snap = cfg
        /\ r.kind \notin Unlocked => n.need = GroupLocks(cfg, r) /\ GroupsNamed(cfg, r) \subseteq DOMAIN cfg.path
    BY <1>2, <1>o DEF Load, Operations, config
  <2> QED BY <2>1 DEF FilesAgree, Guarding
<1>3. CASE (Preview(p) \/ Conflict(p)) /\ ~Finish(p)
  <2>1. n.pc = "asked"
    BY <1>3, <1>o DEF Preview, Conflict, Operations
  <2> QED BY <1>q, <2>1 DEF Guarding
<1>4. CASE Acquire(p)
  <2>1. PICK l \in NextLock(p) : /\ owner[l] = Nobody /\ owner' = [owner EXCEPT ![l] = p]
                                 /\ proc' = [proc EXCEPT ![p].need = @ \ {l}]
    BY <1>4 DEF Acquire
  <2>2. o.need \subseteq Locks /\ l \in o.need
    BY <1>o DEF NextLock, Operations
  <2>3. /\ n.need = o.need \ {l} /\ n.pc = o.pc /\ n.req = r /\ n.snap = o.snap /\ n.form = o.form
        /\ cfg' = cfg /\ job' = job
    BY <1>4, <1>o, <2>1 DEF Operations, Acquire, config
  <2>4. Held(p)' = Held(p) \cup {l} /\ \A m : owner[m] = p => owner'[m] = p
    BY <1>w, <2>1, <2>2 DEF Held
  <2>5. o.pc \in {"loaded", "blocking"}
    BY <1>o, <2>2 DEF Agrees, NeedAgrees
  <2>6. CASE o.pc = "loaded"
    <3>1. Unchanged(p)' <=> Unchanged(p)
      BY <2>3 DEF Unchanged
    <3> QED BY <2>3, <2>4, <2>6, <3>1 DEF FilesAgree, Guarding
  <2>7. CASE o.pc = "blocking"
    <3>1. Guarded(p)'
      BY <2>3, <2>4, <2>7 DEF FilesAgree, Guarding, Guarded, Kept
    <3>2. ~Active(r.group, r.agent)' /\ ~Active(r.object, r.agent)'
      BY <2>3, <2>7 DEF FilesAgree, Active
    <3> QED BY <2>3, <2>7, <3>1, <3>2 DEF FilesAgree
  <2> QED BY <2>5, <2>6, <2>7
<1>5. CASE Reload(p) /\ ~Finish(p)
  <2>1. /\ o.pc = "loaded" /\ r.kind \in Locking /\ o.need = {} /\ Unchanged(p)
        /\ owner' = owner /\ cfg' = cfg /\ job' = job
        /\ n.req = r /\ n.snap = o.snap
    BY <1>5, <1>o DEF Reload, At, config, Operations
  <2>2. Guarded(p)'
    BY <2>1, KeptOfLoaded DEF Guarded, Kept
  <2>3. CASE r.kind = "move"
    <3>1. n.pc = "blocking" /\ ~Blocked(cfg, r)
      BY <1>5, <2>3, <1>o DEF Reload, Operations
    <3>2. ~Active(r.group, r.agent)' /\ ~Active(r.object, r.agent)'
      BY <2>1, <3>1 DEF Blocked, Active
    <3> QED BY <2>1, <2>2, <3>1, <3>2 DEF FilesAgree
  <2>4. CASE r.kind # "move"
    <3>1. /\ n.pc = "locked"
          /\ r.kind = "submit" => Possible(o.snap, r)
          /\ r.kind = "deleteChannel" => ~ActiveOnChannel(cfg, r.object)
      BY <1>5, <2>4, <1>o DEF Reload, Operations
    <3>2. r.kind \in {"submit", "deleteChannel"} => o.snap = cfg
      BY <2>1 DEF Unchanged, Bound
    <3>3. r.kind = "submit" => <<r.group, r.agent>> \in DOMAIN cfg.uses
      BY <3>1, <3>2 DEF Possible
    <3>4. r.kind = "deleteChannel" => ~ActiveOnChannel(o.snap, r.object)'
      BY <2>1, <3>1, <3>2 DEF ActiveOnChannel
    <3> QED BY <2>1, <2>2, <3>1, <3>3, <3>4 DEF FilesAgree
  <2> QED BY <2>3, <2>4
<1>6. CASE CheckMove(p) /\ ~Finish(p)
  <2>1. /\ o.pc = "blocking" /\ n.pc = "moving" /\ n.req = r /\ n.snap = o.snap
        /\ owner' = owner /\ cfg' = cfg /\ job' = job
    BY <1>6, <1>o DEF CheckMove, At, config, Operations
  <2>2. Guarded(p)'
    BY <2>1 DEF FilesAgree, Guarding, Guarded, Kept
  <2>3. ~Active(r.group, r.agent)' /\ ~Active(r.object, r.agent)'
    BY <2>1 DEF FilesAgree, Active
  <2> QED BY <2>1, <2>2, <2>3 DEF FilesAgree
<1>7. CASE CreateDestination(p)
  <2>1. /\ o.pc = "moving" /\ n.pc \in {"moving", "rollback"} /\ n.req = r /\ n.snap = o.snap
        /\ owner' = owner /\ cfg' = cfg /\ job' = job
    BY <1>7, <1>o DEF CreateDestination, At, config, Operations
  <2>2. Guarded(p)'
    BY <2>1 DEF FilesAgree, Guarding, Guarded, Kept
  <2>3. ~Active(r.group, r.agent)' /\ ~Active(r.object, r.agent)'
    BY <2>1 DEF FilesAgree, Active
  <2> QED BY <2>1, <2>2, <2>3 DEF FilesAgree, Guarding
<1>8. CASE (CommitMove(p) \/ Rollback(p) \/ ArchiveChannel(p) \/ SaveWithoutChannel(p)) /\ ~Finish(p)
  <2>1. n.pc \in {"rollback", "archived", "restoring"}
    BY <1>8, <1>o DEF CommitMove, Rollback, ArchiveChannel, SaveWithoutChannel, At, Operations
  <2> QED BY <1>q, <2>1 DEF Guarding
<1>9. CASE TryChannel(p) /\ ~Finish(p)
  <2> DEFINE c == r.object
  <2>1. /\ o.pc = "locked" /\ r.kind = "deleteChannel" /\ n.pc = "archiving" /\ n.req = r /\ n.snap = o.snap
        /\ owner[c] = Nobody /\ owner' = [owner EXCEPT ![c] = p] /\ cfg' = cfg /\ job' = job
    BY <1>9, <1>o DEF TryChannel, At, config, Operations
  <2>2. \A m : owner[m] = p => owner'[m] = p
    BY <2>1, <1>w
  <2>3. Guarded(p)'
    BY <2>1, <2>2 DEF FilesAgree, Guarding, Guarded, Kept
  <2>4. ~ActiveOnChannel(o.snap, r.object)'
    BY <2>1 DEF FilesAgree, ActiveOnChannel
  <2> QED BY <2>1, <2>3, <2>4 DEF FilesAgree
<1>10. CASE SaveUnlocked(p) \/ CreateJob(p) \/ Patch(p) \/ RestoreChannel(p) \/ Die(p)
  BY <1>f, <1>10 DEF SaveUnlocked, CreateJob, Patch, RestoreChannel, Die
<1> QED BY <1>f, <1>1, <1>2, <1>3, <1>4, <1>5, <1>6, <1>7, <1>8, <1>9, <1>10 DEF Step, Operation

LEMMA BesidesJobs ==
    ASSUME Inv, Besides
    PROVE  /\ cfg' = cfg /\ reverted' = reverted
           /\ \A j \in Jobs : job'[j] = job[j] \/ (job[j] # Absent /\ ~job'[j].active)
<1>t. job \in [Jobs -> JobRecords \cup {Absent}]
  BY DEF Inv, TypeOK
<1>1. CASE job' = job
  BY <1>1 DEF Besides, config, ViewMemory, WriteMemory, StartJob, Publish, EndJob
<1>2. CASE job' # job
  <2>1. PICK j \in Jobs : EndJob(j)
    BY <1>2 DEF Besides, ViewMemory, WriteMemory, StartJob, Publish
  <2>2. job[j] # Absent /\ job' = [job EXCEPT ![j].active = FALSE] /\ UNCHANGED config
    BY <2>1 DEF EndJob
  <2>3. job[j] \in JobRecords
    BY <1>t, <2>2
  <2> QED BY <1>t, <2>2, <2>3 DEF JobRecords, config
<1> QED BY <1>1, <1>2

LEMMA BesidesFiles ==
    ASSUME Inv, Besides, NEW q \in Procs, FilesAgree(q) PROVE FilesAgree(q)'
<1> DEFINE o == proc[q]
           r == o.req
<1>1. /\ cfg' = cfg /\ proc' = proc
      /\ \A j \in Jobs : job'[j] = job[j] \/ (job[j] # Absent /\ ~job'[j].active)
  BY BesidesJobs, BesidesTypes DEF Inv
<1>2. Held(q)' = Held(q) /\ \A l \in Locks : owner'[l] = q <=> owner[l] = q
  <2>1. PICK x : x \notin Procs /\ LocksOf(x)
    BY BesidesTypes DEF Inv
  <2>2. \A l \in Locks : owner'[l] = q <=> owner[l] = q
    BY <2>1, Constants DEF LocksOf
  <2> QED BY <2>2 DEF Held
<1>3. Unchanged(q)' <=> Unchanged(q)
  BY <1>1 DEF Unchanged
<1>4. Guarded(q) => Guarded(q)'
  <2>1. cfg \in Configs
    BY DEF Inv, TypeOK
  <2>2. \A g \in DOMAIN cfg.path : cfg.path[g] \in Locks
    BY <2>1, ConfigTyped DEF PathMaps, Locks
  <2> QED BY <1>1, <1>2, <2>2 DEF Guarded, Kept
<1>5. ~ActiveOnChannel(o.snap, r.object) => ~ActiveOnChannel(o.snap, r.object)'
  BY <1>1 DEF ActiveOnChannel
<1>6. ~Active(r.group, r.agent) => ~Active(r.group, r.agent)'
  BY <1>1 DEF Active
<1>7. ~Active(r.object, r.agent) => ~Active(r.object, r.agent)'
  BY <1>1 DEF Active
<1> QED BY <1>1, <1>2, <1>3, <1>4, <1>5, <1>6, <1>7 DEF FilesAgree

LEMMA FilesInductive == Inv /\ FilesInv /\ [Next]_vars => FilesInv'
<1> SUFFICES ASSUME Inv, FilesInv, [Next]_vars, ~reverted', NEW q \in Procs PROVE FilesAgree(q)'
  BY DEF FilesInv
<1>1. ASSUME NEW p \in Procs, Step(p) PROVE FilesAgree(q)'
  <2>1. \A x \in Procs : FilesAgree(x)
    BY <1>1, Noted DEF FilesInv, Inv, TypeOK
  <2>2. CASE q = p
    BY <1>1, <2>1, <2>2, FilesOfOwn
  <2>3. CASE q # p
    BY <1>1, <2>1, <2>3, FilesOfOthers
  <2> QED BY <2>2, <2>3
<1>2. CASE Besides
  <2>1. ~reverted
    BY <1>2, BesidesJobs
  <2>2. FilesAgree(q)
    BY <2>1 DEF FilesInv
  <2> QED BY <1>2, <2>2, BesidesFiles
<1>3. CASE UNCHANGED vars
  <2>1. FilesAgree(q)
    BY <1>3 DEF vars, FilesInv
  <2> QED BY <1>3, <2>1 DEF vars, FilesAgree, Unchanged, Held, Guarded, Kept, Active, ActiveOnChannel
<1> QED BY <1>1, <1>2, <1>3 DEF Next, Step, Besides

LEMMA FilesInvariance == Spec => [](Inv /\ FilesInv)
<1>1. Init => FilesInv
  BY DEF Init, FilesInv, FilesAgree, Idle, Guarding
<1> QED BY <1>1, Initially, Inductive, FilesInductive, PTL DEF Spec

    \* an agent leaves one group for another only by the save of a move
LEMMA LeavesByMove ==
    ASSUME Inv, FilesInv, ~reverted, [Next]_vars, NEW g \in Groups, NEW h \in Groups, NEW a \in Agents,
           Leaves(g, h, a)
    PROVE  \E p \in Procs : /\ CommitMove(p) /\ proc[p].pc = "moving" /\ FilesAgree(p)
                            /\ proc[p].req \in Requests /\ proc[p].req.kind = "move" /\ cfg = proc[p].form
                            /\ g = proc[p].req.group /\ a = proc[p].req.agent /\ h = proc[p].req.object
<1>1. cfg' # cfg
  BY DEF Leaves
<1>2. PICK p \in Procs : Step(p)
  BY <1>1, BesidesJobs DEF Next, Step, Besides, vars
<1> DEFINE r == proc[p].req
<1>3. FilesAgree(p) /\ Agrees(proc[p])
  BY DEF FilesInv, Inv, OperationsAgree
<1>4. /\ r \in Requests /\ cfg \in Configs /\ cfg' = Patched(cfg, r)
      /\ Possible(cfg, r) \/ r.kind = "deleteChannel"
      /\ \/ proc[p].pc = "locked"
         \/ proc[p].pc = "moving" /\ CommitMove(p) /\ r.kind = "move"
         \/ r.kind \in Unlocked \cup {"deleteChannel"}
  BY <1>1, <1>2, <1>3, FileSteps
<1>5. /\ \/ r.kind \in {"removeAgent", "move"} /\ <<g, a>> = <<r.group, r.agent>>
         \/ r.kind = "deleteGroup"
      /\ r.kind = "createAgent" \/ (r.kind = "move" /\ <<h, a>> = <<r.object, r.agent>>)
  <2>1. /\ <<g, a>> \in DOMAIN cfg.uses /\ <<g, a>> \notin DOMAIN Patched(cfg, r).uses
        /\ <<h, a>> \notin DOMAIN cfg.uses /\ <<h, a>> \in DOMAIN Patched(cfg, r).uses
    BY <1>4 DEF Leaves
  <2> QED BY <1>4, <2>1, PatchedUses
<1>6. r.kind = "move" /\ <<g, a>> = <<r.group, r.agent>> /\ <<h, a>> = <<r.object, r.agent>>
  BY <1>5
<1>7. CommitMove(p) /\ proc[p].pc = "moving"
  BY <1>3, <1>4, <1>6 DEF Agrees, RequestAgrees, Unlocked
<1>8. cfg = proc[p].form
  BY <1>1, <1>7 DEF CommitMove, SavePossible
<1> QED BY <1>3, <1>4, <1>6, <1>7, <1>8

(* When the configuration says that an agent has moved, its memories are at the *)
(* destination, copied or blank, as long as the file has not returned to what   *)
(* an operation under way had read: the save of a page that knew an older file  *)
(* finds another revision, and the locks keep everyone else away from the       *)
(* groups and the memories (move_instance, revision_bound_group_operation).     *)
THEOREM MovesAreWhole == Spec => MoveIsWhole
<1> DEFINE Whole == \A g, h \in Groups, a \in Agents :
                      ~reverted /\ Leaves(g, h, a) =>
                        \E mode \in Modes : \A k \in Owned(cfg, g, a) :
                            mem'[<<h, a, k>>] = IF mode = "copy" /\ mem'[<<g, a, k>>] # Absent
                                                THEN mem'[<<g, a, k>>] ELSE Blank
<1>1. Inv /\ FilesInv /\ [Next]_vars => Whole
  <2> SUFFICES ASSUME Inv, FilesInv, [Next]_vars, NEW g \in Groups, NEW h \in Groups, NEW a \in Agents,
                      ~reverted, Leaves(g, h, a)
               PROVE  \E mode \in Modes : \A k \in Owned(cfg, g, a) :
                        mem'[<<h, a, k>>] = IF mode = "copy" /\ mem'[<<g, a, k>>] # Absent
                                            THEN mem'[<<g, a, k>>] ELSE Blank
    OBVIOUS
  <2>1. PICK p \in Procs : /\ CommitMove(p) /\ proc[p].req \in Requests /\ proc[p].req.kind = "move"
                           /\ cfg = proc[p].form
                           /\ g = proc[p].req.group /\ a = proc[p].req.agent /\ h = proc[p].req.object
    BY LeavesByMove
  <2>2. Moved(p) = Owned(cfg, g, a) /\ proc[p].req.extra \in Modes
    BY <2>1, RequestTyped DEF Moved
  <2>3. \A k : Source(p, k) = <<g, a, k>> /\ Destination(p, k) = <<h, a, k>>
    BY <2>1 DEF Source, Destination
  <2> QED BY <2>1, <2>2, <2>3, CommitsWhole DEF MovedWhole
<1>2. Inv /\ FilesInv /\ [Next]_vars => [Whole]_vars
  BY <1>1
<1> HIDE DEF Whole
<1>3. Spec => [][Whole]_vars
  BY <1>2, FilesInvariance, PTL DEF Spec
<1> QED BY <1>3 DEF MoveIsWhole, Whole

(* A job begins at an agent that is configured, no agent with an active job     *)
(* moves, and no channel is set aside that a job of a group known to the        *)
(* deletion uses, as long as the file has not returned to what an operation     *)
(* under way had read: who creates jobs, moves an agent or deletes a channel    *)
(* holds the locks of the groups, and looks again under them (launch_run,       *)
(* move_instance, _active_channel_jobs).                                        *)
THEOREM JobsKeepTheirHome == Spec => JobsKeepHome
<1> DEFINE Home == ~reverted =>
                     /\ \A j \in Jobs : job[j] = Absent /\ job'[j] # Absent =>
                           <<job'[j].group, job'[j].agent>> \in DOMAIN cfg.uses
                     /\ \A g, h \in Groups, a \in Agents :
                           Leaves(g, h, a) => ~Active(g, a) /\ ~Active(h, a)
                     /\ \A p \in Procs : proc[p].pc = "archiving" /\ proc'[p].pc = "archived" =>
                           ~ActiveOnChannel(proc[p].snap, proc[p].req.object)
<1>1. Inv /\ FilesInv /\ [Next]_vars => Home
  <2> SUFFICES ASSUME Inv, FilesInv, [Next]_vars, ~reverted
               PROVE  /\ \A j \in Jobs : job[j] = Absent /\ job'[j] # Absent =>
                            <<job'[j].group, job'[j].agent>> \in DOMAIN cfg.uses
                      /\ \A g, h \in Groups, a \in Agents :
                            Leaves(g, h, a) => ~Active(g, a) /\ ~Active(h, a)
                      /\ \A p \in Procs : proc[p].pc = "archiving" /\ proc'[p].pc = "archived" =>
                            ~ActiveOnChannel(proc[p].snap, proc[p].req.object)
    OBVIOUS
  <2>1. \A p \in Procs : FilesAgree(p)
    BY DEF FilesInv
  <2>2. ASSUME NEW j \in Jobs, job[j] = Absent, job'[j] # Absent
        PROVE  <<job'[j].group, job'[j].agent>> \in DOMAIN cfg.uses
    <3>1. PICK p \in Procs : Step(p)
      BY <2>2, BesidesJobs DEF Next, Step, Besides, vars
    <3> QED BY <2>1, <2>2, <3>1, NewJobs
  <2>3. ASSUME NEW g \in Groups, NEW h \in Groups, NEW a \in Agents, Leaves(g, h, a)
        PROVE  ~Active(g, a) /\ ~Active(h, a)
    <3>1. PICK p \in Procs : /\ proc[p].pc = "moving" /\ FilesAgree(p)
                             /\ g = proc[p].req.group /\ a = proc[p].req.agent /\ h = proc[p].req.object
      BY <2>3, LeavesByMove
    <3> QED BY <3>1 DEF FilesAgree
  <2>4. ASSUME NEW p \in Procs, proc[p].pc = "archiving"
        PROVE  ~ActiveOnChannel(proc[p].snap, proc[p].req.object)
    BY <2>1, <2>4 DEF FilesAgree
  <2> QED BY <2>2, <2>3, <2>4
<1>2. Inv /\ FilesInv /\ [Next]_vars => [Home]_vars
  BY <1>1
<1> HIDE DEF Home
<1>3. Spec => [][Home]_vars
  BY <1>2, FilesInvariance, PTL DEF Spec
<1> QED BY <1>3 DEF JobsKeepHome, Home
=============================================================================
