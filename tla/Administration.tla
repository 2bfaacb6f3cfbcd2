--------------------------- MODULE Administration ---------------------------
(***************************************************************************)
(* Operations on the configuration that run at the same time: submissions,   *)
(* the pages on agents, groups and memory channels, and the workers of jobs. *)
(*                                                                         *)
(* Three kinds of locks.  The lock of config.yaml is held for one patch or   *)
(* replacement and nothing is waited for under it: here such a save is a     *)
(* step.  The operation lock of a group is a file under the group's root;    *)
(* who needs several takes them in one order, and so for the memories.       *)
(* A revision is the contents of the file: form = cfg is the test of it.     *)
(***************************************************************************)
EXTENDS Naturals, FiniteSets, Functions

CONSTANTS
    Groups, Agents, Channels,
    Own, Personal,     \* what an agent may own: its personal memory, and one per routine
    Paths,             \* group roots
    Texts, Blank, Absent,
    Procs, Jobs, Nobody,
    Order,             \* the order of lock files: the operation locks, then the memories
    Initial,           \* configurations to start from
    MaxOps, MaxFaults  \* bounds on the operations, and on failing file operations and deaths

Memories == (Groups \X Agents \X Own) \cup Channels
Locks == Paths \cup Memories
Values == Texts \cup {Blank, Absent}

ASSUME AdministrationAssumption ==
    /\ \A l \in Locks : Order[l] \in Nat
    /\ \A l, m \in Locks : l # m => Order[l] # Order[m]
    /\ \A l \in Paths, m \in Memories : Order[l] < Order[m]
    /\ Nobody \notin Procs \cup Jobs /\ Procs \cap Jobs = {} /\ Paths \cap Memories = {}
    /\ Channels \cap (Groups \X Agents \X Own) = {} /\ Channels \cap Own = {}
    /\ Absent \notin Groups \cup Agents \cup Paths \cup Channels \cup Texts
    /\ Personal \in Own /\ Blank \notin Texts \cup {Absent}
    /\ MaxOps \in Nat /\ MaxFaults \in Nat

    \* what this module tells apart of config.yaml: the groups' roots, and of each agent
    \* the memories its selectors name
Configs ==
    [path : UNION {[G -> Paths] : G \in SUBSET Groups},
     uses : UNION {[P -> SUBSET (Own \cup Channels)] : P \in SUBSET (Groups \X Agents)},
     channels : SUBSET Channels]

ASSUME InitialAssumption == Initial \subseteq Configs

VARIABLES
    cfg, mem,
    archive,     \* the contents under .deleted, per channel
    job, owner,
    proc,        \* the operations under way
    ops, faults,
    last,        \* history: what a job or a user last wrote to a memory
    reverted     \* history: the file became again what an operation under way had read

vars == <<cfg, mem, archive, job, owner, proc, ops, faults, last, reverted>>
config == <<cfg, reverted>>
memories == <<mem, archive, last>>
bounds == <<ops, faults>>

----------------------------------------------------------------------------
(* The requests.                                                            *)

Request(kind, group, agent, object, extra) ==
    [kind |-> kind, group |-> group, agent |-> agent, object |-> object, extra |-> extra]

Modes == {"copy", "empty"}
Requests ==
    {Request("submit", g, a, m, Absent) : g \in Groups, a \in Agents, m \in Own \cup Channels}
      \cup {Request("move", g, a, h, mode) : g \in Groups, a \in Agents, h \in Groups, mode \in Modes}
      \cup {Request(kind, g, a, Absent, Absent) :
              kind \in {"createAgent", "removeAgent"}, g \in Groups, a \in Agents}
      \cup {Request(kind, g, Absent, d, Absent) :
              kind \in {"createGroup", "saveGroup"}, g \in Groups, d \in Paths}
      \cup {Request("deleteGroup", g, Absent, Absent, Absent) : g \in Groups}
      \cup {Request("select", g, a, m, Absent) : g \in Groups, a \in Agents, m \in Own \cup Channels}
      \cup {Request(kind, Absent, Absent, c, Absent) :
              kind \in {"createChannel", "deleteChannel"}, c \in Channels}
      \cup {Request("rekeyChannel", Absent, Absent, c, d) : c \in Channels, d \in Channels}

    \* these load the file and save, without an operation lock
Unlocked == {"select", "createChannel", "rekeyChannel"}

    \* revision_bound_group_operation; the rest of the locking ones test the form's revision alone
Bound == {"submit", "createGroup", "saveGroup", "deleteGroup", "deleteChannel"}

References(c, channel) == \E p \in DOMAIN c.uses : channel \in c.uses[p]

With(f, x, y) == [z \in DOMAIN f \cup {x} |-> IF z = x THEN y ELSE f[z]]
Keep(f, D) == [z \in DOMAIN f \cap D |-> f[z]]

    \* does the request make sense for this file?
Possible(c, r) ==
    LET here == <<r.group, r.agent>>
    IN  CASE r.kind = "submit" -> here \in DOMAIN c.uses /\ r.object \in c.uses[here]
          [] r.kind = "createAgent" -> r.group \in DOMAIN c.path /\ here \notin DOMAIN c.uses
          [] r.kind = "removeAgent" -> here \in DOMAIN c.uses
          [] r.kind = "move" -> here \in DOMAIN c.uses /\ r.object \in DOMAIN c.path
          [] r.kind = "createGroup" -> r.group \notin DOMAIN c.path /\ r.object \notin Range(c.path)
          [] r.kind = "saveGroup" -> r.group \in DOMAIN c.path /\ r.object \notin Range(c.path)
          [] r.kind = "deleteGroup" -> r.group \in DOMAIN c.path
          [] r.kind = "select" -> here \in DOMAIN c.uses /\ r.object \in Own \cup c.channels
          [] r.kind = "createChannel" -> r.object \notin c.channels
          [] r.kind = "rekeyChannel" ->
                r.object \in c.channels /\ r.extra \notin c.channels /\ ~References(c, r.object)
          [] r.kind = "deleteChannel" -> r.object \in c.channels /\ ~References(c, r.object)

    \* the file as the request changes it
Patched(c, r) ==
    LET here == <<r.group, r.agent>>
        there == <<r.object, r.agent>>
        Others(P) == {p \in Groups \X Agents : p \notin P}
    IN  CASE r.kind = "submit" -> c
          [] r.kind = "createAgent" -> [c EXCEPT !.uses = With(@, here, {})]
          [] r.kind = "removeAgent" -> [c EXCEPT !.uses = Keep(@, Others({here}))]
          [] r.kind = "move" -> [c EXCEPT !.uses = With(Keep(@, Others({here})), there, @[here])]
          [] r.kind \in {"createGroup", "saveGroup"} -> [c EXCEPT !.path = With(@, r.group, r.object)]
          [] r.kind = "deleteGroup" -> [c EXCEPT !.path = Keep(@, Groups \ {r.group}),
                                                 !.uses = Keep(@, Others({r.group} \X Agents))]
          [] r.kind = "select" ->
                [c EXCEPT !.uses[here] = IF r.object \in @ THEN @ \ {r.object} ELSE @ \cup {r.object}]
          [] r.kind = "createChannel" -> [c EXCEPT !.channels = @ \cup {r.object}]
          [] r.kind = "rekeyChannel" -> [c EXCEPT !.channels = (@ \ {r.object}) \cup {r.extra}]
          [] r.kind = "deleteChannel" -> [c EXCEPT !.channels = @ \ {r.object}]

GroupsNamed(c, r) ==
    CASE r.kind = "deleteChannel" -> DOMAIN c.path
      [] r.kind = "createGroup" -> {}
      [] r.kind = "move" -> {r.group, r.object}
      [] OTHER -> {r.group}

    \* the operation locks of the groups as this file has them, and of a proposed root
GroupLocks(c, r) ==
    {c.path[g] : g \in GroupsNamed(c, r)}
      \cup (IF r.kind \in {"createGroup", "saveGroup"} THEN {r.object} ELSE {})

----------------------------------------------------------------------------
(* Operations.  seen holds what a move read of the source memories, or what  *)
(* a deletion archived; made the destinations a move has created.            *)

Idle == [pc |-> "idle", req |-> Absent, form |-> Absent, snap |-> Absent,
         need |-> {}, seen |-> Absent, made |-> {}, tries |-> 0]

JobOf(r) == [group |-> r.group, agent |-> r.agent, active |-> TRUE,
             memory |-> IF r.object \in Channels THEN r.object ELSE <<r.group, r.agent, r.object>>]
Submitted(c) == {JobOf(r) : r \in {s \in Requests : s.kind = "submit" /\ Possible(c, s)}}

Init ==
    /\ cfg \in Initial
    /\ mem = [m \in Memories |-> Absent] /\ archive = [c \in Channels |-> {}]
    /\ last = [m \in Memories |-> Absent] /\ reverted = FALSE
    /\ owner = [l \in Locks |-> Nobody]
    /\ job \in [Jobs -> {Absent} \cup Submitted(cfg)]
    /\ proc = [p \in Procs |-> Idle]
    /\ ops = 0 /\ faults = 0

Active(g, a) == \E j \in Jobs : job[j] # Absent /\ job[j].active /\ job[j].group = g /\ job[j].agent = a
ActiveOnChannel(c, channel) ==
    \E j \in Jobs : job[j] # Absent /\ job[j].active /\ job[j].memory = channel /\ job[j].group \in DOMAIN c.path

Held(p) == {l \in Locks : owner[l] = p}
Released(p) == [l \in Locks |-> IF owner[l] = p THEN Nobody ELSE owner[l]]
Finish(p) == proc' = [proc EXCEPT ![p] = Idle] /\ owner' = Released(p)
At(p, pc, kinds) == proc[p].pc = pc /\ proc[p].req.kind \in kinds
Fault == faults < MaxFaults /\ faults' = faults + 1
NoFault == faults' = faults

Kinds == {r.kind : r \in Requests}
Locking == Kinds \ Unlocked

    \* a page is shown with the revision of the file; a submission has no page
Show(p) ==
    /\ proc[p].pc = "idle" /\ ops < MaxOps /\ ops' = ops + 1
    /\ \E r \in Requests :
         proc' = [proc EXCEPT ![p] = [Idle EXCEPT !.pc = IF r.kind = "move" THEN "confirmed" ELSE "asked",
                                                  !.req = r, !.form = IF r.kind = "submit" THEN Absent ELSE cfg]]
    /\ UNCHANGED <<config, memories, job, owner, faults>>

    \* a revision is the contents: a comparison passes when they have returned
Note == reverted' = (reverted \/ (cfg' # cfg /\ \E p \in Procs : cfg' \in {proc[p].form, proc[p].snap}))

SavePossible(p, c) == cfg = proc[p].form /\ Possible(c, proc[p].req)

    \* channel pages and selectors: the file that was loaded last, changed, replaces the one
    \* that was shown
SaveUnlocked(p) ==
    /\ At(p, "loaded", Unlocked)
    /\ cfg' = IF SavePossible(p, proc[p].snap) THEN Patched(proc[p].snap, proc[p].req) ELSE cfg
    /\ Note /\ Finish(p)
    /\ UNCHANGED <<memories, job, bounds>>

    \* _preview_blocks
Owned(c, g, a) == c.uses[<<g, a>>] \cap Own
Blocked(c, r) ==
    \/ <<r.object, r.agent>> \in DOMAIN c.uses
    \/ Active(r.group, r.agent) \/ Active(r.object, r.agent)
    \/ \E k \in Owned(c, r.group, r.agent) : mem[<<r.object, r.agent, k>>] # Absent

    \* preview_move reads the source memories that are there
Seen(r) == [k \in Own |-> mem[<<r.group, r.agent, k>>]]

    \* move/apply makes the preview again, with the revision of the first
Preview(p) ==
    /\ At(p, "confirmed", {"move"})
    /\ LET r == proc[p].req
       IN  IF SavePossible(p, cfg) /\ ~Blocked(cfg, r)
           THEN /\ proc' = [proc EXCEPT ![p].pc = "asked", ![p].seen = Seen(r)]
                /\ UNCHANGED owner
           ELSE Finish(p)
    /\ UNCHANGED <<config, memories, job, bounds>>

    \* the file is loaded for the paths of the locks; a group that is gone is an error
Load(p) ==
    /\ proc[p].pc = "asked"
    /\ LET r == proc[p].req
       IN  IF r.kind \in Unlocked \/ GroupsNamed(cfg, r) \subseteq DOMAIN cfg.path
           THEN /\ proc' = [proc EXCEPT ![p].pc = "loaded",
                                        ![p].snap = IF r.kind \in Bound \cup Unlocked THEN cfg ELSE Absent,
                                        ![p].need = IF r.kind \in Unlocked THEN {} ELSE GroupLocks(cfg, r)]
                /\ UNCHANGED owner
           ELSE Finish(p)
    /\ UNCHANGED <<config, memories, job, bounds>>

\* Mutant: the locks are taken in any order.
NextLockAny(p) == proc[p].need

NextLock(p) == {l \in proc[p].need : \A m \in proc[p].need : Order[l] <= Order[m]}

Acquire(p) ==
    /\ \E l \in NextLock(p) :
         /\ owner[l] = Nobody /\ owner' = [owner EXCEPT ![l] = p]
         /\ proc' = [proc EXCEPT ![p].need = @ \ {l}]
    /\ UNCHANGED <<config, memories, job, bounds>>

\* Mutant: the file is not loaded again under the locks.
UnchangedSinceShown(p) == proc[p].req.kind # "submit" => cfg = proc[p].form

    \* under the locks: is the file still the one the locks were chosen by, or the form made from?
Unchanged(p) ==
    /\ proc[p].req.kind \in Bound => cfg = proc[p].snap
    /\ proc[p].req.kind # "submit" => cfg = proc[p].form

    \* a submission tries three times
Conflict(p) ==
    /\ At(p, "loaded", Locking) /\ proc[p].need = {} /\ ~Unchanged(p)
    /\ IF proc[p].req.kind = "submit" /\ proc[p].tries < 2
       THEN /\ proc' = [proc EXCEPT ![p].pc = "asked", ![p].tries = @ + 1, ![p].snap = Absent]
            /\ owner' = Released(p)
       ELSE Finish(p)
    /\ UNCHANGED <<config, memories, job, bounds>>

\* Mutant: the memories that are read are not locked.
DestinationLocks(r) == {<<r.object, r.agent, k>> : k \in Owned(cfg, r.group, r.agent)}

    \* the memory locks of a move, those of the sources and of the destinations
MemoryLocks(r) ==
    {<<h, r.agent, k>> : h \in {r.group, r.object}, k \in Owned(cfg, r.group, r.agent)}

Reload(p) ==
    /\ At(p, "loaded", Locking) /\ proc[p].need = {} /\ Unchanged(p)
    /\ LET r == proc[p].req
       IN  IF r.kind = "move"
           THEN IF ~Blocked(cfg, r)
                THEN /\ proc' = [proc EXCEPT ![p].pc = "blocking", ![p].need = MemoryLocks(r)]
                     /\ UNCHANGED owner
                ELSE Finish(p)
           ELSE IF /\ r.kind = "submit" => Possible(proc[p].snap, r)
                   /\ r.kind = "deleteChannel" => Possible(cfg, r) /\ ~ActiveOnChannel(cfg, r.object)
                THEN proc' = [proc EXCEPT ![p].pc = "locked"] /\ UNCHANGED owner
                ELSE Finish(p)
    /\ UNCHANGED <<config, memories, job, bounds>>

    \* the job is of the file that was loaded under the lock
CreateJob(p) ==
    /\ At(p, "locked", {"submit"})
    /\ \E j \in Jobs : job[j] = Absent /\ job' = [job EXCEPT ![j] = JobOf(proc[p].req)]
    /\ Finish(p)
    /\ UNCHANGED <<config, memories, bounds>>

Patch(p) ==
    /\ At(p, "locked", {"createAgent", "removeAgent", "createGroup", "saveGroup", "deleteGroup"})
    /\ cfg' = IF SavePossible(p, cfg) THEN Patched(cfg, proc[p].req) ELSE cfg
    /\ Note /\ Finish(p)
    /\ UNCHANGED <<memories, job, bounds>>

----------------------------------------------------------------------------
(* A move, once it holds the locks of the memories.                          *)

Source(p, k) == <<proc[p].req.group, proc[p].req.agent, k>>
Destination(p, k) == <<proc[p].req.object, proc[p].req.agent, k>>
Moved(p) == Owned(proc[p].form, proc[p].req.group, proc[p].req.agent)

    \* the sources as previewed, the destinations not there
ReadyToMove(p) ==
    \A k \in Moved(p) : mem[Source(p, k)] = proc[p].seen[k] /\ mem[Destination(p, k)] = Absent

CheckMove(p) ==
    /\ At(p, "blocking", {"move"}) /\ proc[p].need = {}
    /\ IF ReadyToMove(p)
       THEN proc' = [proc EXCEPT ![p].pc = "moving", ![p].seen = Absent] /\ UNCHANGED owner
       ELSE Finish(p)
    /\ UNCHANGED <<config, memories, job, bounds>>

Copied(p, k) ==
    IF proc[p].req.extra = "copy" /\ mem[Source(p, k)] # Absent THEN mem[Source(p, k)] ELSE Blank

    \* one destination after the other; one that fails may be there already, blank or not
CreateDestination(p) ==
    /\ At(p, "moving", {"move"})
    /\ \E k \in Moved(p) \ proc[p].made :
         \/ /\ mem' = [mem EXCEPT ![Destination(p, k)] = Copied(p, k)] /\ NoFault
            /\ proc' = [proc EXCEPT ![p].made = @ \cup {k}]
         \/ /\ Fault /\ \E v \in {Absent, Blank, Copied(p, k)} : mem' = [mem EXCEPT ![Destination(p, k)] = v]
            /\ proc' = [proc EXCEPT ![p].pc = "rollback", ![p].made = @ \cup {k}]
    /\ UNCHANGED <<config, archive, job, owner, ops, last>>

    \* the write of the file may fail before it replaced the old one, or after
CommitMove(p) ==
    /\ At(p, "moving", {"move"}) /\ proc[p].made = Moved(p)
    /\ \/ /\ SavePossible(p, cfg) /\ cfg' = Patched(cfg, proc[p].req) /\ NoFault /\ Finish(p)
       \/ /\ SavePossible(p, cfg) /\ cfg' \in {cfg, Patched(cfg, proc[p].req)} /\ Fault
          /\ proc' = [proc EXCEPT ![p].pc = "rollback"] /\ UNCHANGED owner
       \/ /\ ~SavePossible(p, cfg) /\ UNCHANGED <<cfg, owner>> /\ NoFault
          /\ proc' = [proc EXCEPT ![p].pc = "rollback"]
    /\ Note
    /\ UNCHANGED <<memories, job, ops>>

    \* a directory that cannot be removed stays
Rollback(p) ==
    /\ At(p, "rollback", {"move"})
    /\ \/ \E k \in proc[p].made :
            /\ \/ mem' = [mem EXCEPT ![Destination(p, k)] = Absent] /\ NoFault
               \/ UNCHANGED mem /\ Fault
            /\ proc' = [proc EXCEPT ![p].made = @ \ {k}]
            /\ UNCHANGED owner
       \/ proc[p].made = {} /\ Finish(p) /\ NoFault /\ UNCHANGED mem
    /\ UNCHANGED <<config, archive, job, ops, last>>

----------------------------------------------------------------------------
(* The deletion of a channel: its memory is set aside, then the file saved.  *)

    \* the lock of the memory is not waited for
TryChannel(p) ==
    /\ At(p, "locked", {"deleteChannel"})
    /\ LET c == proc[p].req.object
       IN  IF owner[c] = Nobody
           THEN owner' = [owner EXCEPT ![c] = p] /\ proc' = [proc EXCEPT ![p].pc = "archiving"]
           ELSE Finish(p)
    /\ UNCHANGED <<config, memories, job, bounds>>

\* Mutant: the directory is removed.
RemoveChannel(p) ==
    /\ At(p, "archiving", {"deleteChannel"})
    /\ LET c == proc[p].req.object
       IN  /\ proc' = [proc EXCEPT ![p].pc = "archived", ![p].seen = mem[c]]
           /\ mem' = [mem EXCEPT ![c] = Absent] /\ UNCHANGED archive
    /\ UNCHANGED <<config, job, owner, bounds, last>>

ArchiveChannel(p) ==
    /\ At(p, "archiving", {"deleteChannel"})
    /\ LET c == proc[p].req.object
       IN  /\ proc' = [proc EXCEPT ![p].pc = "archived", ![p].seen = mem[c]]
           /\ mem' = [mem EXCEPT ![c] = Absent]
           /\ archive' = [archive EXCEPT ![c] = @ \cup ({mem[c]} \ {Absent})]
    /\ UNCHANGED <<config, job, owner, bounds, last>>

    \* a conflict releases the memory before the archive is put back; another error leaves it
SaveWithoutChannel(p) ==
    /\ At(p, "archived", {"deleteChannel"})
    /\ \/ cfg = proc[p].snap /\ cfg' = Patched(cfg, proc[p].req) /\ Finish(p) /\ NoFault
       \/ /\ cfg # proc[p].snap /\ UNCHANGED cfg /\ NoFault
          /\ proc' = [proc EXCEPT ![p].pc = "restoring"]
          /\ owner' = [owner EXCEPT ![proc[p].req.object] = Nobody]
       \/ cfg = proc[p].snap /\ cfg' \in {cfg, Patched(cfg, proc[p].req)} /\ Finish(p) /\ Fault
    /\ Note
    /\ UNCHANGED <<memories, job, ops>>

    \* a directory does not replace one that holds a file: the archive stays
RestoreChannel(p) ==
    /\ At(p, "restoring", {"deleteChannel"})
    /\ LET c == proc[p].req.object
           back == proc[p].seen # Absent /\ mem[c] = Absent
       IN  /\ mem' = [mem EXCEPT ![c] = IF back THEN proc[p].seen ELSE @]
           /\ archive' = [archive EXCEPT ![c] = IF back THEN @ \ {proc[p].seen} ELSE @]
    /\ Finish(p)
    /\ UNCHANGED <<config, job, bounds, last>>

----------------------------------------------------------------------------
(* What goes on besides.                                                    *)

    \* the process of the pages or of a submission dies: the system frees its locks
Die(p) ==
    /\ proc[p].pc # "idle" /\ Fault /\ Finish(p)
    /\ UNCHANGED <<config, memories, job, ops>>

    \* the memories that have a page
Shown == cfg.channels \cup {<<p[1], p[2], Personal>> : p \in DOMAIN cfg.uses}

    \* a page on a memory makes the directory; the lock is waited for
ViewMemory(m) ==
    /\ m \in Shown /\ owner[m] = Nobody /\ mem[m] = Absent
    /\ mem' = [mem EXCEPT ![m] = Blank]
    /\ UNCHANGED <<config, archive, job, owner, proc, bounds, last>>

    \* a user saves a text over the one that was shown, unless the memory is busy
WriteMemory(m) ==
    /\ m \in Shown /\ owner[m] = Nobody /\ mem[m] # Absent
    /\ \E v \in Texts : mem' = [mem EXCEPT ![m] = v] /\ last' = [last EXCEPT ![m] = v]
    /\ UNCHANGED <<config, archive, job, owner, proc, bounds>>

    \* a worker holds the memory of its job until the job has ended
StartJob(j) ==
    /\ job[j] # Absent /\ job[j].active /\ owner[job[j].memory] = Nobody
    /\ owner' = [owner EXCEPT ![job[j].memory] = j]
    /\ mem' = [mem EXCEPT ![job[j].memory] = IF @ = Absent THEN Blank ELSE @]
    /\ UNCHANGED <<config, archive, job, proc, bounds, last>>

Publish(j) ==
    /\ job[j] # Absent /\ owner[job[j].memory] = j
    /\ \E v \in Texts : /\ mem' = [mem EXCEPT ![job[j].memory] = v]
                        /\ last' = [last EXCEPT ![job[j].memory] = v]
    /\ UNCHANGED <<config, archive, job, owner, proc, bounds>>

    \* it ends, with or without a publication, or is cancelled before
EndJob(j) ==
    /\ job[j] # Absent /\ job[j].active
    /\ job' = [job EXCEPT ![j].active = FALSE] /\ owner' = Released(j)
    /\ UNCHANGED <<config, memories, proc, bounds>>

Operation(p) ==
    \/ Load(p) \/ SaveUnlocked(p) \/ Preview(p) \/ Acquire(p) \/ Conflict(p) \/ Reload(p)
    \/ CreateJob(p) \/ Patch(p)
    \/ CheckMove(p) \/ CreateDestination(p) \/ CommitMove(p) \/ Rollback(p)
    \/ TryChannel(p) \/ ArchiveChannel(p) \/ SaveWithoutChannel(p) \/ RestoreChannel(p)

Next ==
    \/ \E p \in Procs : Show(p) \/ Operation(p) \/ Die(p)
    \/ \E m \in Memories : ViewMemory(m) \/ WriteMemory(m)
    \/ \E j \in Jobs : StartJob(j) \/ Publish(j) \/ EndJob(j)

Spec == Init /\ [][Next]_vars

----------------------------------------------------------------------------
States == {"idle", "confirmed", "asked", "loaded", "locked", "blocking", "moving", "rollback",
           "archiving", "archived", "restoring"}
Operations ==
    [pc : States, req : Requests \cup {Absent}, form : Configs \cup {Absent},
     snap : Configs \cup {Absent}, need : SUBSET Locks, seen : Values \cup [Own -> Values],
     made : SUBSET Own, tries : 0 .. 2]
JobRecords == [group : Groups, agent : Agents, active : BOOLEAN, memory : Memories]

TypeOK ==
    /\ cfg \in Configs /\ mem \in [Memories -> Values] /\ last \in [Memories -> Values]
    /\ archive \in [Channels -> SUBSET Values] /\ owner \in [Locks -> Procs \cup Jobs \cup {Nobody}]
    /\ job \in [Jobs -> JobRecords \cup {Absent}] /\ proc \in [Procs -> Operations]
    /\ ops \in 0 .. MaxOps /\ faults \in 0 .. MaxFaults /\ reverted \in BOOLEAN

(* Nobody waits in a circle, for group locks or for those of memories: who     *)
(* waits for a lock holds earlier ones only (canonical_group_operation_lock_paths *)
(* sorts the paths, move_instance the hashes and takes the memories last).     *)
OrderedLocks ==
    \A p \in Procs : \A l \in Held(p), m \in proc[p].need : Order[l] < Order[m]

Leaves(g, h, a) ==
    /\ <<g, a>> \in DOMAIN cfg.uses /\ <<g, a>> \notin DOMAIN cfg'.uses
    /\ <<h, a>> \notin DOMAIN cfg.uses /\ <<h, a>> \in DOMAIN cfg'.uses

(* When the configuration says that an agent has moved, its memories are at    *)
(* the destination: as they are at the source, whatever jobs and pages wrote   *)
(* since the preview, or blank (move_instance, memory_mode).  No page that     *)
(* saves a file it loaded earlier can undo or repeat a move, unless the file   *)
(* returned to what that page was made from.                                   *)
MoveIsWhole ==
    [][\A g, h \in Groups, a \in Agents :
         ~reverted /\ Leaves(g, h, a) =>
            \E mode \in Modes : \A k \in Owned(cfg, g, a) :
                mem'[<<h, a, k>>] = IF mode = "copy" /\ mem'[<<g, a, k>>] # Absent
                                    THEN mem'[<<g, a, k>>] ELSE Blank]_vars

(* A job begins at an agent that is configured; while it is active its agent   *)
(* does not move out of or into its group, and the directory of its channel    *)
(* is not set aside by a deletion that knew its group.  The group locks with   *)
(* the second load see to it (revision_bound_group_operation, _preview_blocks, *)
(* _active_channel_jobs), as long as the file does not return to what one of   *)
(* them had read.                                                              *)
JobsKeepHome ==
    [][~reverted =>
         /\ \A j \in Jobs : job[j] = Absent /\ job'[j] # Absent =>
               <<job'[j].group, job'[j].agent>> \in DOMAIN cfg.uses
         /\ \A g, h \in Groups, a \in Agents : Leaves(g, h, a) => ~Active(g, a) /\ ~Active(h, a)
         /\ \A p \in Procs : proc[p].pc = "archiving" /\ proc'[p].pc = "archived" =>
               ~ActiveOnChannel(proc[p].snap, proc[p].req.object)]_vars

(* What a job or a user wrote to a memory last is in it, or in the archive of  *)
(* its channel: no rollback and no deletion loses it, whatever fails or dies.  *)
MemoryKept ==
    \A m \in Memories : last[m] # Absent =>
        mem[m] = last[m] \/ (m \in Channels /\ last[m] \in archive[m])
=============================================================================
