---------------------------- MODULE Configuration ----------------------------
(***************************************************************************)
(* The configuration file (configuration/): what is accepted, what a job     *)
(* makes of it, and how the pages change it.                                 *)
(*                                                                         *)
(* The file is the mapping that YAML yields, so a part may be missing or of  *)
(* the wrong kind; only a hand edit writes such a part.  A page loads the    *)
(* file, patches the mapping and replaces the file if it is still the one    *)
(* the form was made from and the result is accepted.  Here a page's save is *)
(* one step from the file it was made from; Administration interleaves them. *)
(*                                                                         *)
(* A directory is the sequence of its names from the root.                   *)
(***************************************************************************)
EXTENDS Naturals, Sequences, Functions, SequencesExt

CONSTANTS
    Groups, Agents, Routines, Channels,
    Workspaces, GroupRoots, ExtraRoots,   \* directories a form may name
    Missing,                              \* those that do not exist and are never made
    HandWritten,                          \* files a user may write
    Absent, Malformed,
    MaxSaves                              \* bound on the saves and edits

ASSUME ConfigurationAssumption ==
    /\ Workspaces \cup GroupRoots \cup ExtraRoots \subseteq Seq(STRING) /\ MaxSaves \in Nat
    /\ Absent \notin Groups \cup Agents \cup Routines \cup Channels

Scopes == {"run", "routine", "agent", "group", "channel"}
Modes == {"restricted", "unrestricted"}
Tools == {"all", "none", "list"}
    \* "list" is an allowlist with names, "blank" one without, "empty" a mapping without a mode
ToolForms == Tools \cup {"blank", "inherit"}
Selectors == [scope : Scopes \cup {"unknown"}, channel : Channels \cup {Absent}]
Dirs == Seq(STRING)
IsMap(f, D) == DOMAIN f \subseteq D /\ f = [x \in DOMAIN f |-> f[x]]

    \* the files whose parts are all of the right kind
IsAgent(x) ==
    /\ x \in [mode : Modes \cup {Absent}, roots : SUBSET Dirs,
              tools : Tools \cup {"blank", "empty", Absent},
              memory : Selectors \cup {Absent}, routines : {x.routines}]
    /\ IsMap(x.routines, Routines)
    /\ \A r \in DOMAIN x.routines : x.routines[r] \in Selectors \cup {Absent}

IsGroup(x) ==
    /\ x \in [workspace : Dirs, path : Dirs, mode : Modes \cup {Absent}, roots : SUBSET Dirs,
              tools : Tools \cup {"blank", "empty", Absent}, agents : {x.agents}]
    /\ IsMap(x.agents, Agents) /\ \A a \in DOMAIN x.agents : IsAgent(x.agents[a])

IsFile(c) ==
    /\ c \in [library : Dirs, cache : Dirs, memory : Dirs, default : Groups \cup {Absent},
              channels : SUBSET Channels, groups : {c.groups}]
    /\ IsMap(c.groups, Groups) /\ \A g \in DOMAIN c.groups : IsGroup(c.groups[g])

VARIABLES
    file,        \* config.yaml
    saves

vars == <<file, saves>>

GroupsOf(c) == DOMAIN c.groups
AgentsOf(c, g) == DOMAIN c.groups[g].agents
Group(c, g) == c.groups[g]
Agent(c, g, a) == c.groups[g].agents[a]
Pairs(c) == {p \in Groups \X Agents : p[1] \in GroupsOf(c) /\ p[2] \in AgentsOf(c, p[1])}

----------------------------------------------------------------------------
(* Is the mapping one that the parser accepts?                              *)

AgentIsShaped(agent) ==
    /\ Malformed \notin {agent.roots, agent.tools, agent.memory, agent.routines}
    /\ \A r \in DOMAIN agent.routines : agent.routines[r] # Malformed

WellShaped(c) ==
    /\ c.channels # Malformed /\ c.groups # Malformed
    /\ \A g \in GroupsOf(c) :
         /\ Malformed \notin {Group(c, g).roots, Group(c, g).tools, Group(c, g).agents}
         /\ \A a \in AgentsOf(c, g) : AgentIsShaped(Agent(c, g, a))

\* Mutant: a channel may be any.
SelectorOfAnyChannel(s, allowRoutine, declared) ==
    /\ s.scope = "routine" => allowRoutine
    /\ s.scope = "channel" => s.channel # Absent
    /\ s.scope # "channel" => s.channel = Absent

SelectorIsValid(s, allowRoutine, declared) ==
    /\ s.scope = "routine" => allowRoutine
    /\ s.scope = "channel" => s.channel \in declared
    /\ s.scope # "channel" => s.channel = Absent

RuntimeIsValid(r) ==
    /\ ~(r.mode = "unrestricted" /\ r.roots # {})
    /\ r.tools # "blank"

AgentIsValid(agent, declared) ==
    /\ RuntimeIsValid(agent)
    /\ agent.memory # Absent => SelectorIsValid(agent.memory, FALSE, declared)
    /\ \A r \in DOMAIN agent.routines :
         agent.routines[r] # Absent => SelectorIsValid(agent.routines[r], TRUE, declared)

DefaultIsValid(c) == c.default \in GroupsOf(c) \cup {Absent}

RawIsValid(c) ==
    /\ DefaultIsValid(c)
    /\ \A g \in GroupsOf(c) :
         /\ RuntimeIsValid(Group(c, g))
         /\ \A a \in AgentsOf(c, g) : AgentIsValid(Agent(c, g, a), c.channels)

    \* what the typed model refuses although the mapping has passed
Typed(c) ==
    \A p \in Pairs(c) :
        LET agent == Agent(c, p[1], p[2])
        IN  \A s \in {agent.memory} \cup Range(agent.routines) : s # Absent => s.scope \in Scopes

Parses(c) == WellShaped(c) /\ RawIsValid(c) /\ Typed(c)

----------------------------------------------------------------------------
(* The directories.  Those that exist are the user's; what has to be made,   *)
(* can be.                                                                   *)

    \* a real directory with the permissions it is needed for
Exists(d) == d \notin Missing

Overlap(d, e) == IsPrefix(d, e) \/ IsPrefix(e, d)

StoreNames == {"library", "cache", "memory"}
StoresOf(c) == {c[s] : s \in StoreNames}

    \* every directory that belongs to the agency or to one group, once per use
Authorities(c) == [u \in ({Absent} \X StoreNames) \cup (GroupsOf(c) \X {"workspace", "path"}) |->
                      IF u[1] = Absent THEN c[u[2]] ELSE Group(c, u[1])[u[2]]]

Mode(mode) == IF mode = Absent THEN "unrestricted" ELSE mode

\* Mutant: the roots of an agent are checked like those of its group.
RootsOfRestricted(c) ==
    LET Restricted == {h \in GroupsOf(c) : Mode(Group(c, h).mode) = "restricted"}
    IN  UNION ({Group(c, g).roots : g \in Restricted}
                 \cup {Agent(c, p[1], p[2]).roots :
                        p \in {q \in Pairs(c) : Agent(c, q[1], q[2]).mode = "restricted"}})

CheckedRoots(c) ==
    UNION ({Group(c, g).roots : g \in {h \in GroupsOf(c) : Mode(Group(c, h).mode) = "restricted"}}
             \cup {Agent(c, p[1], p[2]).roots : p \in Pairs(c)})

PathsAreValid(c) ==
    LET dir == Authorities(c)
        given == {c.library} \cup {Group(c, g).workspace : g \in GroupsOf(c)} \cup CheckedRoots(c)
    IN  /\ \A d \in given : Exists(d)
        /\ \A u, v \in DOMAIN dir : u # v => ~Overlap(dir[u], dir[v])
        /\ \A d \in CheckedRoots(c), s \in StoresOf(c) : ~Overlap(s, d)

Accepted(c) == Parses(c) /\ PathsAreValid(c)

ASSUME HandWrittenAssumption == \A c \in HandWritten : Parses(c) => IsFile(c)

----------------------------------------------------------------------------
(* What a job makes of it.                                                  *)

EffectiveMode(c, g, a) ==
    IF Agent(c, g, a).mode # Absent THEN Agent(c, g, a).mode ELSE Mode(Group(c, g).mode)

PolicyResolves(c, g, a) ==
    EffectiveMode(c, g, a) = "unrestricted" => Agent(c, g, a).roots = {}

    \* the directories a restricted run may write to
SandboxRoots(c, g, a) ==
    {Group(c, g).workspace, Group(c, g).path} \cup Group(c, g).roots \cup Agent(c, g, a).roots

    \* the memory of a job; r is Absent when the job is not of a routine
EffectiveSelector(c, g, a, r) ==
    LET own == Agent(c, g, a).memory
    IN  IF r # Absent /\ Agent(c, g, a).routines[r] # Absent THEN Agent(c, g, a).routines[r]
        ELSE IF own # Absent THEN own ELSE [scope |-> "run", channel |-> Absent]

SelectorResolves(c, s, r) ==
    /\ s.scope \in Scopes
    /\ s.channel # Absent => s.scope = "channel"
    /\ s.scope = "routine" => r # Absent
    /\ s.scope = "channel" => s.channel \in c.channels

    \* do mode and memory let a request for a run become a job?  A routine that is disabled, a
    \* blueprint or an integration may refuse it besides, and a request may name a memory of
    \* its own instead of the configured one: that is left out.
JobResolves(c, g, a, r) ==
    /\ PathsAreValid(c)
    /\ <<g, a>> \in Pairs(c) /\ r \in {Absent} \cup DOMAIN Agent(c, g, a).routines
    /\ PolicyResolves(c, g, a)
    /\ SelectorResolves(c, EffectiveSelector(c, g, a, r), r)

----------------------------------------------------------------------------
Init ==
    /\ file \in {c \in HandWritten : Accepted(c)} /\ saves = 0

TypeOK ==
    /\ Parses(file) => IsFile(file)
    /\ saves \in 0 .. MaxSaves

    \* ConfigStore.patch and replace; a page is made from a file that parses
Save(new) ==
    /\ saves < MaxSaves /\ saves' = saves + 1
    /\ Parses(file) /\ Accepted(new)
    /\ file' = new

HandEdit ==
    /\ saves < MaxSaves /\ saves' = saves + 1
    /\ file' \in HandWritten

With(f, x, y) == [z \in DOMAIN f \cup {x} |-> IF z = x THEN y ELSE f[z]]
Without(f, x) == [z \in DOMAIN f \ {x} |-> f[z]]
WithGroup(g, group) == [file EXCEPT !.groups = With(@, g, group)]
WithAgents(g, agents) == WithGroup(g, [Group(file, g) EXCEPT !.agents = agents])
WithAgent(g, a, agent) == WithAgents(g, With(Group(file, g).agents, a, agent))

RootForms == {{}} \cup {{d} : d \in ExtraRoots}
GroupForms(agents) == [workspace : Workspaces, path : GroupRoots, mode : Modes,
                       roots : RootForms, tools : Tools \cup {"blank"}, agents : {agents}]

SaveGroup(g) ==
    /\ g \in GroupsOf(file)
    /\ \E form \in GroupForms(Group(file, g).agents) : Save(WithGroup(g, form))

    \* the form has no mode: roots make it restricted, as tools make an allowlist
CreateGroup(g) ==
    /\ g \notin GroupsOf(file)
    /\ \E form \in GroupForms(<<>>) :
         /\ form.mode = IF form.roots = {} THEN "unrestricted" ELSE "restricted"
         /\ form.tools \in {"all", "list"}
         /\ Save(WithGroup(g, form))

    \* one of the groups that are left (the first) replaces it as the default
GroupDeleted(g, first) ==
    [file EXCEPT !.groups = Without(@, g), !.default = IF @ = g THEN first ELSE @]

DeleteGroup(g) ==
    /\ g \in GroupsOf(file)
    /\ LET left == GroupsOf(file) \ {g}
       IN  \E first \in IF left = {} THEN {Absent} ELSE left : Save(GroupDeleted(g, first))

SaveSettings ==
    /\ \E default \in Groups \cup {Absent} : Save([file EXCEPT !.default = default])

    \* the typed model of a new instance, dumped with the defaults of all its fields
NewAgent == [mode |-> "unrestricted", roots |-> {}, tools |-> "all",
             memory |-> Absent, routines |-> <<>>]

CreateAgent(g, a) ==
    /\ g \in GroupsOf(file) /\ a \notin AgentsOf(file, g)
    /\ Save(WithAgent(g, a, NewAgent))

RemoveAgent(g, a) ==
    /\ <<g, a>> \in Pairs(file)
    /\ Save(WithAgents(g, Without(Group(file, g).agents, a)))

    \* the entry moves as it is
AgentMoved(g, h, a) == [WithAgents(g, Without(Group(file, g).agents, a)) EXCEPT
                           !.groups[h].agents = With(@, a, Agent(file, g, a))]

MoveAgent(g, h, a) ==
    /\ <<g, a>> \in Pairs(file) /\ h \in GroupsOf(file) /\ a \notin AgentsOf(file, h)
    /\ Save(AgentMoved(g, h, a))

    \* "inherit" takes the keys out of the mapping of tools and leaves the mapping
RuntimePatched(agent, tools, roots) ==
    [agent EXCEPT !.roots = roots, !.tools = IF tools = "inherit" THEN "empty" ELSE tools]

\* Mutant: the runtime page leaves the check to the configuration store.
SaveRuntimeUnresolved(g, a) ==
    /\ <<g, a>> \in Pairs(file)
    /\ \E tools \in ToolForms, roots \in RootForms :
         /\ Save(WithAgent(g, a, RuntimePatched(Agent(file, g, a), tools, roots)))

SaveRuntime(g, a) ==
    /\ <<g, a>> \in Pairs(file)
    /\ \E tools \in ToolForms, roots \in RootForms :
         LET new == WithAgent(g, a, RuntimePatched(Agent(file, g, a), tools, roots))
         IN  /\ PolicyResolves(new, g, a)
             /\ Save(new)

    \* the form keeps a channel with the scope "channel" only
RoutineForms == {s \in Selectors : s.channel # Absent => s.scope = "channel"} \cup {Absent}

SaveRoutines(g, a) ==
    /\ <<g, a>> \in Pairs(file)
    /\ \E ids \in SUBSET Routines : \E routines \in [ids -> RoutineForms] :
            Save(WithAgent(g, a, [Agent(file, g, a) EXCEPT !.routines = routines]))

SelectorForms == {s \in Selectors : s.scope = "channel" => s.channel \in file.channels} \cup {Absent}

SaveSelector(g, a) ==
    /\ <<g, a>> \in Pairs(file)
    /\ \E s \in SelectorForms :
         Save(WithAgent(g, a, [Agent(file, g, a) EXCEPT !.memory = s]))

References(c, channel) ==
    \E p \in Pairs(c) : LET agent == Agent(c, p[1], p[2])
                        IN  \E s \in {agent.memory} \cup Range(agent.routines) :
                                s # Absent /\ s.scope = "channel" /\ s.channel = channel

CreateChannel(c) ==
    /\ c \notin file.channels
    /\ Save([file EXCEPT !.channels = @ \cup {c}])

RekeyChannel(c, new) ==
    /\ c \in file.channels /\ new \notin file.channels /\ ~References(file, c)
    /\ Save([file EXCEPT !.channels = (@ \ {c}) \cup {new}])

DeleteChannel(c) ==
    /\ c \in file.channels /\ ~References(file, c)
    /\ Save([file EXCEPT !.channels = @ \ {c}])

PageSave ==
    \/ SaveSettings
    \/ \E g \in Groups : SaveGroup(g) \/ CreateGroup(g) \/ DeleteGroup(g)
    \/ \E g \in Groups, a \in Agents :
         \/ CreateAgent(g, a) \/ RemoveAgent(g, a) \/ SaveRuntime(g, a)
         \/ SaveRoutines(g, a) \/ SaveSelector(g, a) \/ \E h \in Groups : MoveAgent(g, h, a)
    \/ \E c \in Channels : CreateChannel(c) \/ DeleteChannel(c) \/ \E d \in Channels : RekeyChannel(c, d)

Next == PageSave \/ HandEdit
Spec == Init /\ [][Next]_vars

----------------------------------------------------------------------------
(* No request for a run of a configured agent whose policy resolves is refused  *)
(* for its memory, as long as it takes the one configured: the parser           *)
(* (models.py), which knows where a selector stands, and the resolver           *)
(* (selectors.py), which knows what the job is, agree.  A routine that is       *)
(* disabled, or a blueprint that fails, is another matter.                      *)
AcceptedResolves ==
    Accepted(file) =>
        \A p \in Pairs(file) : \A r \in {Absent} \cup DOMAIN Agent(file, p[1], p[2]).routines :
            PolicyResolves(file, p[1], p[2]) => JobResolves(file, p[1], p[2], r)

(* No directory a restricted run may write to holds a file of a store or lies *)
(* in one (validate_resolved_paths with _resolve_sandbox).  The roots of a     *)
(* group without a mode are left out: nobody checks them, and an agent whose   *)
(* entry says "restricted" writes to them.                                     *)
RunsCannotReachStores ==
    Accepted(file) =>
        \A p \in Pairs(file) :
            EffectiveMode(file, p[1], p[2]) = "restricted" =>
                \A d \in SandboxRoots(file, p[1], p[2]), s \in StoresOf(file) :
                    \/ Group(file, p[1]).mode = Absent /\ d \in Group(file, p[1]).roots
                    \/ \E i \in 1 .. Len(d) : i <= Len(s) /\ d[i] # s[i]

(* A page that leaves the mode of a group alone leaves each of its agents able *)
(* to run: the roots of an agent are refused when they are saved (the runtime  *)
(* page resolves the policy first), not when the next job starts.              *)
SavesKeepAgentsRunnable ==
    [][file' \notin HandWritten => \A p \in Pairs(file) \cap Pairs(file') :
          /\ Mode(Group(file, p[1]).mode) = Mode(Group(file', p[1]).mode)
          /\ PolicyResolves(file, p[1], p[2])
          => PolicyResolves(file', p[1], p[2])]_vars
=============================================================================
