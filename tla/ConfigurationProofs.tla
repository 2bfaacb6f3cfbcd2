------------------------ MODULE ConfigurationProofs ------------------------
(* What Configuration states, for every set of groups, agents, channels and   *)
(* directories and whatever the user writes.                                   *)
EXTENDS Configuration, TLAPS

----------------------------------------------------------------------------
(* The parser and the resolver agree on every mapping, whoever wrote it.      *)

LEMMA ValidSelectorResolves ==
    ASSUME NEW c, NEW s, NEW r, s.scope \in Scopes,
           SelectorIsValid(s, r # Absent, c.channels)
    PROVE  SelectorResolves(c, s, r)
BY DEF SelectorIsValid, SelectorResolves

LEMMA EffectiveSelectorIsValid ==
    ASSUME NEW c, Parses(c), NEW p \in Pairs(c),
           NEW r \in {Absent} \cup DOMAIN Agent(c, p[1], p[2]).routines
    PROVE  SelectorResolves(c, EffectiveSelector(c, p[1], p[2], r), r)
<1> DEFINE agent == Agent(c, p[1], p[2])
           s == EffectiveSelector(c, p[1], p[2], r)
<1>1. AgentIsValid(agent, c.channels)
  BY DEF Parses, RawIsValid, Pairs
<1>2. \A t \in {agent.memory} \cup Range(agent.routines) : t # Absent => t.scope \in Scopes
  BY DEF Parses, Typed
<1>3. CASE r # Absent /\ agent.routines[r] # Absent
  <2>1. s = agent.routines[r] /\ agent.routines[r] \in Range(agent.routines)
    BY <1>3 DEF EffectiveSelector, Range
  <2>2. s.scope \in Scopes
    BY <1>2, <1>3, <2>1
  <2>3. SelectorIsValid(s, TRUE, c.channels)
    BY <1>1, <1>3, <2>1 DEF AgentIsValid
  <2> QED BY <1>3, <2>2, <2>3, ValidSelectorResolves
<1>4. CASE ~(r # Absent /\ agent.routines[r] # Absent) /\ agent.memory # Absent
  <2>1. s = agent.memory
    BY <1>4 DEF EffectiveSelector
  <2>2. s.scope \in Scopes
    BY <1>2, <1>4, <2>1
  <2>3. SelectorIsValid(s, FALSE, c.channels)
    BY <1>1, <1>4, <2>1 DEF AgentIsValid
  <2> QED BY <2>2, <2>3 DEF SelectorIsValid, SelectorResolves
<1>5. CASE ~(r # Absent /\ agent.routines[r] # Absent) /\ agent.memory = Absent
  <2>1. s = [scope |-> "run", channel |-> Absent]
    BY <1>5 DEF EffectiveSelector
  <2> QED BY <2>1 DEF SelectorResolves, Scopes
<1> QED BY <1>3, <1>4, <1>5

(* No request for a run of a configured agent whose policy resolves is refused  *)
(* for its configured memory (resolve_job_request does not refuse a selector    *)
(* that parse_config accepted).                                                *)
THEOREM AcceptedIsResolved == Spec => []AcceptedResolves
<1>1. AcceptedResolves
  <2> SUFFICES ASSUME Accepted(file), NEW p \in Pairs(file),
                      NEW r \in {Absent} \cup DOMAIN Agent(file, p[1], p[2]).routines,
                      PolicyResolves(file, p[1], p[2])
               PROVE  JobResolves(file, p[1], p[2], r)
    BY DEF AcceptedResolves
  <2>1. SelectorResolves(file, EffectiveSelector(file, p[1], p[2], r), r)
    BY EffectiveSelectorIsValid DEF Accepted
  <2>2. p = <<p[1], p[2]>>
    BY DEF Pairs
  <2> QED BY <2>1, <2>2 DEF JobResolves, Accepted
<1> QED BY <1>1, PTL

----------------------------------------------------------------------------
(* The shape of a patched file.                                              *)

LEMMA WithMap ==
    ASSUME NEW f, NEW D, IsMap(f, D), NEW x \in D, NEW y
    PROVE  /\ IsMap(With(f, x, y), D) /\ DOMAIN With(f, x, y) = DOMAIN f \cup {x}
           /\ With(f, x, y)[x] = y
           /\ \A z \in DOMAIN f : z # x => With(f, x, y)[z] = f[z]
BY DEF IsMap, With

LEMMA WithoutMap ==
    ASSUME NEW f, NEW D, IsMap(f, D), NEW x
    PROVE  /\ IsMap(Without(f, x), D) /\ DOMAIN Without(f, x) = DOMAIN f \ {x}
           /\ \A z \in DOMAIN f \ {x} : Without(f, x)[z] = f[z]
BY DEF IsMap, Without

LEMMA GroupOfFile ==
    ASSUME IsFile(file), NEW g \in GroupsOf(file)
    PROVE  g \in Groups /\ IsGroup(Group(file, g)) /\ IsMap(Group(file, g).agents, Agents)
BY DEF IsFile, IsMap, IsGroup, GroupsOf, Group

LEMMA FileWithGroup ==
    ASSUME IsFile(file), NEW g \in Groups, NEW group, IsGroup(group)
    PROVE  LET new == WithGroup(g, group)
           IN  /\ IsFile(new) /\ GroupsOf(new) = GroupsOf(file) \cup {g}
               /\ Group(new, g) = group
               /\ \A h \in GroupsOf(file) : h # g => Group(new, h) = Group(file, h)
<1> DEFINE new == WithGroup(g, group)
<1>1. IsMap(file.groups, Groups)
  BY DEF IsFile
<1>2. /\ IsMap(With(file.groups, g, group), Groups)
      /\ DOMAIN With(file.groups, g, group) = DOMAIN file.groups \cup {g}
      /\ With(file.groups, g, group)[g] = group
      /\ \A z \in DOMAIN file.groups : z # g => With(file.groups, g, group)[z] = file.groups[z]
  BY <1>1, WithMap
<1>3. new.groups = With(file.groups, g, group)
  BY DEF WithGroup, IsFile
<1>4. IsFile(new)
  <2>1. new \in [library : Dirs, cache : Dirs, memory : Dirs, default : Groups \cup {Absent},
                 channels : SUBSET Channels, groups : {new.groups}]
    BY <1>3 DEF WithGroup, IsFile
  <2>2. \A h \in DOMAIN new.groups : IsGroup(new.groups[h])
    BY <1>2, <1>3 DEF IsFile
  <2> QED BY <1>2, <1>3, <2>1, <2>2 DEF IsFile
<1> QED BY <1>2, <1>3, <1>4 DEF GroupsOf, Group

Extended(agents, g, a, agent) ==
    /\ IsMap(agents, Agents) /\ DOMAIN agents = AgentsOf(file, g) \cup {a}
    /\ agents[a] = agent
    /\ \A b \in AgentsOf(file, g) : b # a => agents[b] = Agent(file, g, b)
    /\ \A b \in DOMAIN agents : IsAgent(agents[b])

LEMMA AgentsWith ==
    ASSUME IsFile(file)
    PROVE  \A agent : \A g \in GroupsOf(file), a \in Agents :
             IsAgent(agent) => Extended(With(Group(file, g).agents, a, agent), g, a, agent)
<1> SUFFICES ASSUME NEW agent, NEW g \in GroupsOf(file), NEW a \in Agents, IsAgent(agent)
             PROVE  Extended(With(Group(file, g).agents, a, agent), g, a, agent)
  OBVIOUS
<1> DEFINE old == Group(file, g).agents
           agents == With(old, a, agent)
<1>1. /\ IsMap(old, Agents) /\ AgentsOf(file, g) = DOMAIN old
      /\ \A b \in DOMAIN old : IsAgent(old[b]) /\ Agent(file, g, b) = old[b]
  BY GroupOfFile DEF IsGroup, AgentsOf, Agent, Group
<1> HIDE DEF old
<1>2. /\ IsMap(agents, Agents) /\ DOMAIN agents = DOMAIN old \cup {a} /\ agents[a] = agent
      /\ \A b \in DOMAIN old : b # a => agents[b] = old[b]
  BY <1>1 DEF With, IsMap
<1>3. agents = With(Group(file, g).agents, a, agent)
  BY DEF old
<1> HIDE DEF agents
<1> QED BY <1>1, <1>2, <1>3 DEF Extended

LEMMA AgentsWithout ==
    ASSUME IsFile(file), NEW g \in GroupsOf(file), NEW a
    PROVE  LET agents == Without(Group(file, g).agents, a)
           IN  /\ IsMap(agents, Agents) /\ DOMAIN agents = AgentsOf(file, g) \ {a}
               /\ \A b \in DOMAIN agents : agents[b] = Agent(file, g, b) /\ IsAgent(agents[b])
<1> DEFINE old == Group(file, g).agents
           agents == Without(old, a)
<1>1. /\ IsMap(old, Agents) /\ AgentsOf(file, g) = DOMAIN old
      /\ \A b \in DOMAIN old : IsAgent(old[b]) /\ Agent(file, g, b) = old[b]
  BY GroupOfFile DEF IsGroup, AgentsOf, Agent, Group
<1> HIDE DEF old
<1>2. /\ IsMap(agents, Agents) /\ DOMAIN agents = DOMAIN old \ {a}
      /\ \A b \in DOMAIN old \ {a} : agents[b] = old[b]
  BY <1>1, WithoutMap
<1>3. agents = Without(Group(file, g).agents, a)
  BY DEF old
<1> HIDE DEF agents
<1> QED BY <1>1, <1>2, <1>3

LEMMA FileWithAgents ==
    ASSUME IsFile(file), NEW g \in GroupsOf(file), NEW agents, IsMap(agents, Agents),
           \A a \in DOMAIN agents : IsAgent(agents[a])
    PROVE  LET new == WithAgents(g, agents)
           IN  /\ IsFile(new) /\ GroupsOf(new) = GroupsOf(file)
               /\ Group(new, g) = [Group(file, g) EXCEPT !.agents = agents]
               /\ Group(new, g).agents = agents
               /\ Group(new, g).mode = Group(file, g).mode
               /\ \A h \in GroupsOf(file) : h # g => Group(new, h) = Group(file, h)
<1> DEFINE group == [Group(file, g) EXCEPT !.agents = agents]
<1>1. IsGroup(Group(file, g)) /\ g \in Groups
  BY GroupOfFile
<1>2. group.agents = agents /\ group.mode = Group(file, g).mode
  BY <1>1 DEF IsGroup
<1>3. IsGroup(group)
  <2>1. group \in [workspace : Dirs, path : Dirs, mode : Modes \cup {Absent}, roots : SUBSET Dirs,
                   tools : Tools \cup {"blank", "empty", Absent}, agents : {group.agents}]
    BY <1>1, <1>2 DEF IsGroup
  <2> QED BY <1>2, <2>1 DEF IsGroup
<1>4. WithAgents(g, agents) = WithGroup(g, group)
  BY DEF WithAgents
<1>5. LET new == WithGroup(g, group)
      IN  /\ IsFile(new) /\ GroupsOf(new) = GroupsOf(file) \cup {g} /\ Group(new, g) = group
          /\ \A h \in GroupsOf(file) : h # g => Group(new, h) = Group(file, h)
  BY <1>1, <1>3, FileWithGroup
<1> HIDE DEF group
<1>6. group = [Group(file, g) EXCEPT !.agents = agents]
  BY DEF group
<1> QED BY <1>2, <1>4, <1>5, <1>6

LEMMA FileWithAgent ==
    ASSUME IsFile(file), NEW g \in GroupsOf(file), NEW a \in Agents, NEW agent, IsAgent(agent)
    PROVE  LET new == WithAgent(g, a, agent)
           IN  /\ IsFile(new) /\ GroupsOf(new) = GroupsOf(file)
               /\ Group(new, g).mode = Group(file, g).mode
               /\ AgentsOf(new, g) = AgentsOf(file, g) \cup {a} /\ Agent(new, g, a) = agent
               /\ \A b \in AgentsOf(file, g) : b # a => Agent(new, g, b) = Agent(file, g, b)
               /\ \A h \in GroupsOf(file) : h # g => Group(new, h) = Group(file, h)
<1> DEFINE agents == With(Group(file, g).agents, a, agent)
<1>2. /\ IsMap(agents, Agents) /\ DOMAIN agents = AgentsOf(file, g) \cup {a}
      /\ agents[a] = agent
      /\ \A b \in AgentsOf(file, g) : b # a => agents[b] = Agent(file, g, b)
      /\ \A b \in DOMAIN agents : IsAgent(agents[b])
  BY AgentsWith DEF Extended
<1>4. WithAgent(g, a, agent) = WithAgents(g, agents)
  BY DEF WithAgent
<1> HIDE DEF agents
<1> DEFINE new == WithAgents(g, agents)
<1>5. /\ IsFile(new) /\ GroupsOf(new) = GroupsOf(file) /\ Group(new, g).agents = agents
      /\ Group(new, g).mode = Group(file, g).mode
      /\ \A h \in GroupsOf(file) : h # g => Group(new, h) = Group(file, h)
  BY <1>2, FileWithAgents
<1> HIDE DEF new
<1>6. AgentsOf(new, g) = DOMAIN agents /\ \A b : Agent(new, g, b) = agents[b]
  BY <1>5 DEF AgentsOf, Agent, Group
<1>7. WithAgent(g, a, agent) = new
  BY <1>4 DEF new
<1> QED BY <1>2, <1>5, <1>6, <1>7

----------------------------------------------------------------------------
(* What a save keeps: the kinds of the parts, and the agents that can run.    *)

SameMode(c, d, g) == Mode(Group(c, g).mode) = Mode(Group(d, g).mode)
KeepsRunnable(c, d) ==
    \A p \in Pairs(c) \cap Pairs(d) :
        SameMode(c, d, p[1]) /\ PolicyResolves(c, p[1], p[2]) => PolicyResolves(d, p[1], p[2])

LEMMA SameAgentRuns ==
    ASSUME NEW c, NEW d, NEW g, NEW a, SameMode(c, d, g), PolicyResolves(c, g, a),
           Agent(d, g, a).mode = Agent(c, g, a).mode, Agent(d, g, a).roots = Agent(c, g, a).roots
    PROVE  PolicyResolves(d, g, a)
BY DEF PolicyResolves, EffectiveMode, SameMode

LEMMA SaveGroupKeeps ==
    ASSUME ConfigurationAssumption, IsFile(file), NEW g \in Groups, SaveGroup(g)
    PROVE  IsFile(file') /\ KeepsRunnable(file, file')
<1> USE DEF ConfigurationAssumption
<1>1. g \in GroupsOf(file) /\ IsGroup(Group(file, g))
  BY GroupOfFile DEF SaveGroup
<1>2. PICK form \in GroupForms(Group(file, g).agents) : file' = WithGroup(g, form)
  BY DEF SaveGroup, Save
<1>3. IsGroup(form) /\ form.agents = Group(file, g).agents
  <2>1. form.agents = Group(file, g).agents
    BY <1>2 DEF GroupForms
  <2>2. form \in [workspace : Dirs, path : Dirs, mode : Modes \cup {Absent}, roots : SUBSET Dirs,
                  tools : Tools \cup {"blank", "empty", Absent}, agents : {form.agents}]
    BY <1>2, <2>1 DEF GroupForms, RootForms, Dirs
  <2> QED BY <1>1, <2>1, <2>2 DEF IsGroup
<1>4. /\ IsFile(file') /\ GroupsOf(file') = GroupsOf(file) \cup {g} /\ Group(file', g) = form
      /\ \A h \in GroupsOf(file) : h # g => Group(file', h) = Group(file, h)
  BY <1>2, <1>3, FileWithGroup
<1>5. \A p \in Pairs(file) : Agent(file', p[1], p[2]) = Agent(file, p[1], p[2])
  BY <1>3, <1>4 DEF Pairs, Agent, Group
<1> QED BY <1>4, <1>5, SameAgentRuns DEF KeepsRunnable

LEMMA CreateGroupKeeps ==
    ASSUME ConfigurationAssumption, IsFile(file), NEW g \in Groups, CreateGroup(g)
    PROVE  IsFile(file') /\ KeepsRunnable(file, file')
<1> USE DEF ConfigurationAssumption
<1>1. g \notin GroupsOf(file)
  BY DEF CreateGroup
<1>2. PICK form \in GroupForms(<<>>) : file' = WithGroup(g, form)
  BY DEF CreateGroup, Save
<1>3. IsGroup(form)
  <2>1. form.agents = <<>> /\ DOMAIN form.agents = {}
    BY <1>2 DEF GroupForms
  <2>2. form \in [workspace : Dirs, path : Dirs, mode : Modes \cup {Absent}, roots : SUBSET Dirs,
                  tools : Tools \cup {"blank", "empty", Absent}, agents : {form.agents}]
    BY <1>2, <2>1 DEF GroupForms, RootForms, Dirs
  <2>3. IsMap(<<>>, Agents)
    BY DEF IsMap
  <2> QED BY <2>1, <2>2, <2>3 DEF IsGroup
<1>4. /\ IsFile(file')
      /\ \A h \in GroupsOf(file) : h # g => Group(file', h) = Group(file, h)
  BY <1>2, <1>3, FileWithGroup
<1>5. \A p \in Pairs(file) : Agent(file', p[1], p[2]) = Agent(file, p[1], p[2])
  BY <1>1, <1>4 DEF Pairs, Agent, Group
<1> QED BY <1>4, <1>5, SameAgentRuns DEF KeepsRunnable

    \* the groups are left, or all but one
LEMMA FewerGroups ==
    ASSUME IsFile(file), NEW new, NEW groups, NEW default \in Groups \cup {Absent},
           NEW channels \in SUBSET Channels,
           new = [file EXCEPT !.groups = groups, !.default = default, !.channels = channels],
           IsMap(groups, Groups), DOMAIN groups \subseteq GroupsOf(file),
           \A h \in DOMAIN groups : groups[h] = Group(file, h)
    PROVE  IsFile(new) /\ KeepsRunnable(file, new)
<1>1. /\ new.groups = groups
      /\ new \in [library : Dirs, cache : Dirs, memory : Dirs, default : Groups \cup {Absent},
                  channels : SUBSET Channels, groups : {new.groups}]
  BY DEF IsFile
<1>2. IsFile(new)
  BY <1>1 DEF IsFile, Group, GroupsOf
<1>3. \A p \in Pairs(new) : Agent(new, p[1], p[2]) = Agent(file, p[1], p[2])
  BY <1>1 DEF Pairs, Agent, Group, GroupsOf
<1> QED BY <1>2, <1>3, SameAgentRuns DEF KeepsRunnable

LEMMA DeleteGroupKeeps ==
    ASSUME IsFile(file), NEW g \in Groups, DeleteGroup(g)
    PROVE  IsFile(file') /\ KeepsRunnable(file, file')
<1>1. PICK first \in GroupsOf(file) \cup {Absent} : file' = GroupDeleted(g, first)
  BY DEF DeleteGroup, Save
<1> DEFINE groups == Without(file.groups, g)
           default == IF file.default = g THEN first ELSE file.default
<1>2. /\ IsMap(groups, Groups) /\ DOMAIN groups = GroupsOf(file) \ {g}
      /\ \A h \in DOMAIN groups : groups[h] = Group(file, h)
  <2>1. IsMap(file.groups, Groups)
    BY DEF IsFile
  <2>2. /\ IsMap(groups, Groups) /\ DOMAIN groups = DOMAIN file.groups \ {g}
        /\ \A h \in DOMAIN file.groups \ {g} : groups[h] = file.groups[h]
    BY <2>1, WithoutMap
  <2> QED BY <2>2 DEF GroupsOf, Group
<1>3. default \in Groups \cup {Absent} /\ file.channels \in SUBSET Channels
  BY GroupOfFile DEF IsFile
<1>4. file' = [file EXCEPT !.groups = groups, !.default = default, !.channels = file.channels]
  BY <1>1 DEF GroupDeleted, IsFile
<1> HIDE DEF groups, default
<1> QED BY <1>2, <1>3, <1>4, FewerGroups

LEMMA SettingsOrChannelsKeep ==
    ASSUME IsFile(file), NEW default \in Groups \cup {Absent}, NEW channels \in SUBSET Channels,
           file' = [file EXCEPT !.default = default, !.channels = channels]
    PROVE  IsFile(file') /\ KeepsRunnable(file, file')
<1>1. file' = [file EXCEPT !.groups = file.groups, !.default = default, !.channels = channels]
  BY DEF IsFile
<1>2. IsMap(file.groups, Groups) /\ \A h \in DOMAIN file.groups : file.groups[h] = Group(file, h)
  BY DEF IsFile, Group
<1> QED BY <1>1, <1>2, FewerGroups DEF GroupsOf

    \* one agent's entry is new
LEMMA AgentSavedKeeps ==
    ASSUME IsFile(file), NEW g \in GroupsOf(file), NEW a \in Agents, NEW agent, IsAgent(agent),
           file' = WithAgent(g, a, agent),
           <<g, a>> \in Pairs(file) /\ PolicyResolves(file, g, a) => PolicyResolves(file', g, a)
    PROVE  IsFile(file') /\ KeepsRunnable(file, file')
<1>1. /\ IsFile(file')
      /\ Group(file', g).mode = Group(file, g).mode
      /\ \A b \in AgentsOf(file, g) : b # a => Agent(file', g, b) = Agent(file, g, b)
      /\ \A h \in GroupsOf(file) : h # g => Group(file', h) = Group(file, h)
  BY FileWithAgent
<1>2. ASSUME NEW p \in Pairs(file), SameMode(file, file', p[1]), PolicyResolves(file, p[1], p[2])
      PROVE  PolicyResolves(file', p[1], p[2])
  <2>1. CASE p[1] = g /\ p[2] = a
    BY <1>2, <2>1 DEF Pairs
  <2>2. CASE p[1] # g
    <3>1. Agent(file', p[1], p[2]) = Agent(file, p[1], p[2])
      BY <1>1, <2>2 DEF Pairs, Agent, Group
    <3> QED BY <1>2, <3>1, SameAgentRuns
  <2>3. CASE p[1] = g /\ p[2] # a
    <3>1. Agent(file', p[1], p[2]) = Agent(file, p[1], p[2])
      BY <1>1, <2>3 DEF Pairs
    <3> QED BY <1>2, <3>1, SameAgentRuns
  <2> QED BY <2>1, <2>2, <2>3
<1> QED BY <1>1, <1>2 DEF KeepsRunnable

LEMMA AgentOfFile ==
    ASSUME IsFile(file), NEW g, NEW a, <<g, a>> \in Pairs(file)
    PROVE  /\ g \in GroupsOf(file) /\ a \in AgentsOf(file, g) /\ a \in Agents
           /\ IsAgent(Agent(file, g, a))
BY GroupOfFile DEF Pairs, AgentsOf, Agent, Group, IsGroup, IsMap

\* The runtime page writes roots and tools of the right kind and leaves the rest.
LEMMA RuntimePatchedIsAgent ==
    ASSUME ConfigurationAssumption, NEW agent, IsAgent(agent),
           NEW tools \in ToolForms, NEW roots \in RootForms
    PROVE  IsAgent(RuntimePatched(agent, tools, roots))
<1> DEFINE kept == IF tools = "inherit" THEN "empty" ELSE tools
           new == RuntimePatched(agent, tools, roots)
<1>1. roots \in SUBSET Dirs
  BY DEF RootForms, ConfigurationAssumption, Dirs
<1>2. kept \in Tools \cup {"blank", "empty", Absent}
  BY DEF ToolForms
<1>3. /\ agent \in [mode : Modes \cup {Absent}, roots : SUBSET Dirs,
                    tools : Tools \cup {"blank", "empty", Absent},
                    memory : Selectors \cup {Absent}, routines : {agent.routines}]
      /\ IsMap(agent.routines, Routines)
      /\ \A r \in DOMAIN agent.routines : agent.routines[r] \in Selectors \cup {Absent}
  BY DEF IsAgent
<1>4. new = [agent EXCEPT !.roots = roots, !.tools = kept]
  BY DEF RuntimePatched
<1> HIDE DEF kept, new
<1>5. new.routines = agent.routines
  BY <1>3, <1>4
<1>6. new \in [mode : Modes \cup {Absent}, roots : SUBSET Dirs,
              tools : Tools \cup {"blank", "empty", Absent},
              memory : Selectors \cup {Absent}, routines : {agent.routines}]
  BY <1>1, <1>2, <1>3, <1>4
<1>7. IsAgent(new)
  BY <1>3, <1>5, <1>6 DEF IsAgent
<1> QED
  BY <1>7 DEF new

LEMMA AgentPagesKeep ==
    ASSUME ConfigurationAssumption, IsFile(file), NEW g \in Groups, NEW a \in Agents,
           \/ CreateAgent(g, a) \/ SaveRuntime(g, a) \/ SaveRoutines(g, a) \/ SaveSelector(g, a)
    PROVE  IsFile(file') /\ KeepsRunnable(file, file')
<1> USE DEF ConfigurationAssumption
<1>1. CASE CreateAgent(g, a)
  <2>1. IsAgent(NewAgent)
    BY DEF NewAgent, IsAgent, IsMap, Modes, Tools
  <2>2. <<g, a>> \notin Pairs(file) /\ g \in GroupsOf(file) /\ file' = WithAgent(g, a, NewAgent)
    BY <1>1 DEF CreateAgent, Save, Pairs
  <2> QED BY <2>1, <2>2, AgentSavedKeeps
<1>2. CASE SaveRuntime(g, a)
  <2>1. PICK tools \in ToolForms, roots \in RootForms :
            /\ file' = WithAgent(g, a, RuntimePatched(Agent(file, g, a), tools, roots))
            /\ PolicyResolves(file', g, a)
    BY <1>2 DEF SaveRuntime, Save
  <2>2. g \in GroupsOf(file) /\ IsAgent(Agent(file, g, a))
    BY <1>2, AgentOfFile DEF SaveRuntime
  <2>3. IsAgent(RuntimePatched(Agent(file, g, a), tools, roots))
    BY <2>2, RuntimePatchedIsAgent
  <2> QED BY <2>1, <2>2, <2>3, AgentSavedKeeps
<1>3. CASE SaveRoutines(g, a)
  <2>1. PICK ids \in SUBSET Routines : \E routines \in [ids -> RoutineForms] :
            file' = WithAgent(g, a, [Agent(file, g, a) EXCEPT !.routines = routines])
    BY <1>3 DEF SaveRoutines, Save
  <2>2. PICK routines \in [ids -> RoutineForms] :
            file' = WithAgent(g, a, [Agent(file, g, a) EXCEPT !.routines = routines])
    BY <2>1
  <2> DEFINE agent == [Agent(file, g, a) EXCEPT !.routines = routines]
  <2>3. g \in GroupsOf(file) /\ IsAgent(Agent(file, g, a)) /\ <<g, a>> \in Pairs(file)
    BY <1>3, AgentOfFile DEF SaveRoutines
  <2>4. IsAgent(agent) /\ agent.mode = Agent(file, g, a).mode /\ agent.roots = Agent(file, g, a).roots
    <3>1. /\ agent.routines = routines /\ agent.mode = Agent(file, g, a).mode
          /\ agent.roots = Agent(file, g, a).roots
      BY <2>3 DEF IsAgent
    <3>2. IsMap(routines, Routines) /\ \A r \in DOMAIN routines : routines[r] \in Selectors \cup {Absent}
      BY DEF IsMap, RoutineForms
    <3>3. agent \in [mode : Modes \cup {Absent}, roots : SUBSET Dirs,
                     tools : Tools \cup {"blank", "empty", Absent},
                     memory : Selectors \cup {Absent}, routines : {agent.routines}]
      BY <2>3, <3>1 DEF IsAgent
    <3> QED BY <3>1, <3>2, <3>3 DEF IsAgent
  <2> HIDE DEF agent
  <2>5. PolicyResolves(file, g, a) => PolicyResolves(file', g, a)
    <3>1. Group(file', g).mode = Group(file, g).mode /\ Agent(file', g, a) = agent
      BY <2>2, <2>3, <2>4, FileWithAgent DEF agent
    <3> QED BY <2>4, <3>1, SameAgentRuns DEF SameMode
  <2>6. file' = WithAgent(g, a, agent)
    BY <2>2 DEF agent
  <2> QED BY <2>3, <2>4, <2>5, <2>6, AgentSavedKeeps
<1>4. CASE SaveSelector(g, a)
  <2>1. PICK s \in SelectorForms : file' = WithAgent(g, a, [Agent(file, g, a) EXCEPT !.memory = s])
    BY <1>4 DEF SaveSelector, Save
  <2> DEFINE agent == [Agent(file, g, a) EXCEPT !.memory = s]
  <2>2. g \in GroupsOf(file) /\ IsAgent(Agent(file, g, a)) /\ <<g, a>> \in Pairs(file)
    BY <1>4, AgentOfFile DEF SaveSelector
  <2>3. IsAgent(agent) /\ agent.mode = Agent(file, g, a).mode /\ agent.roots = Agent(file, g, a).roots
    BY <2>2 DEF IsAgent, SelectorForms
  <2> HIDE DEF agent
  <2>4. PolicyResolves(file, g, a) => PolicyResolves(file', g, a)
    <3>1. Group(file', g).mode = Group(file, g).mode /\ Agent(file', g, a) = agent
      BY <2>1, <2>2, <2>3, FileWithAgent DEF agent
    <3> QED BY <2>3, <3>1, SameAgentRuns DEF SameMode
  <2>5. file' = WithAgent(g, a, agent)
    BY <2>1 DEF agent
  <2> QED BY <2>2, <2>3, <2>4, <2>5, AgentSavedKeeps
<1> QED BY <1>1, <1>2, <1>3, <1>4

LEMMA RemoveAgentKeeps ==
    ASSUME IsFile(file), NEW g \in Groups, NEW a \in Agents, RemoveAgent(g, a)
    PROVE  IsFile(file') /\ KeepsRunnable(file, file')
<1> DEFINE agents == Without(Group(file, g).agents, a)
<1>1. g \in GroupsOf(file) /\ IsGroup(Group(file, g)) /\ file' = WithAgents(g, agents)
  BY AgentOfFile, GroupOfFile DEF RemoveAgent, Save
<1>2. /\ IsMap(agents, Agents) /\ DOMAIN agents = AgentsOf(file, g) \ {a}
      /\ \A b \in DOMAIN agents : agents[b] = Agent(file, g, b)
  BY <1>1, AgentsWithout
<1>3. \A b \in DOMAIN agents : IsAgent(agents[b])
  BY <1>1, <1>2 DEF IsGroup, AgentsOf, Agent, Group
<1> HIDE DEF agents
<1>4. /\ IsFile(file') /\ GroupsOf(file') = GroupsOf(file) /\ Group(file', g).agents = agents
      /\ \A h \in GroupsOf(file) : h # g => Group(file', h) = Group(file, h)
  BY <1>1, <1>2, <1>3, FileWithAgents
<1>5. \A p \in Pairs(file) \cap Pairs(file') : Agent(file', p[1], p[2]) = Agent(file, p[1], p[2])
  BY <1>2, <1>4 DEF Pairs, AgentsOf, Agent, Group
<1> QED BY <1>4, <1>5, SameAgentRuns DEF KeepsRunnable

LEMMA MoveAgentKeeps ==
    ASSUME IsFile(file), NEW g \in Groups, NEW h \in Groups, NEW a \in Agents, MoveAgent(g, h, a)
    PROVE  IsFile(file') /\ KeepsRunnable(file, file')
<1> DEFINE left == Without(Group(file, g).agents, a)
           between == WithAgents(g, left)
           there == With(Group(file, h).agents, a, Agent(file, g, a))
<1>1. /\ g \in GroupsOf(file) /\ h \in GroupsOf(file) /\ g # h /\ a \notin AgentsOf(file, h)
      /\ IsGroup(Group(file, g)) /\ IsGroup(Group(file, h)) /\ IsAgent(Agent(file, g, a))
      /\ file' = AgentMoved(g, h, a)
  BY AgentOfFile, GroupOfFile DEF MoveAgent, Save
<1>2. /\ IsMap(left, Agents) /\ DOMAIN left = AgentsOf(file, g) \ {a}
      /\ \A b \in DOMAIN left : left[b] = Agent(file, g, b) /\ IsAgent(left[b])
  BY <1>1, AgentsWithout
<1>3. /\ IsMap(there, Agents) /\ DOMAIN there = AgentsOf(file, h) \cup {a}
      /\ \A b \in AgentsOf(file, h) : there[b] = Agent(file, h, b)
      /\ \A b \in DOMAIN there : IsAgent(there[b])
  <2>1. Extended(With(Group(file, h).agents, a, Agent(file, g, a)), h, a, Agent(file, g, a))
    BY <1>1, AgentsWith
  <2> QED BY <1>1, <2>1 DEF Extended
<1>4. /\ IsFile(between) /\ GroupsOf(between) = GroupsOf(file)
      /\ Group(between, g).agents = left
      /\ \A k \in GroupsOf(file) : k # g => Group(between, k) = Group(file, k)
  BY <1>1, <1>2, FileWithAgents
<1>5. file' = [between EXCEPT !.groups[h].agents = With(@, a, Agent(file, g, a))]
  BY <1>1 DEF AgentMoved
<1>6. between.groups[h].agents = Group(file, h).agents
  BY <1>1, <1>4 DEF Group
<1> HIDE DEF left, between
<1>7. file' = [between EXCEPT !.groups[h].agents = there]
  BY <1>5, <1>6
<1> HIDE DEF there
<1>8. IsMap(between.groups, Groups) /\ \A k \in DOMAIN between.groups : IsGroup(between.groups[k])
  BY <1>4 DEF IsFile
<1> DEFINE groups == [between.groups EXCEPT ![h].agents = there]
<1>9. /\ IsMap(groups, Groups) /\ DOMAIN groups = GroupsOf(file)
      /\ groups[h] = [Group(file, h) EXCEPT !.agents = there]
      /\ \A k \in GroupsOf(file) \ {h} : groups[k] = Group(between, k)
  <2>1. DOMAIN between.groups = GroupsOf(file) /\ h \in GroupsOf(file)
    BY <1>1, <1>4 DEF GroupsOf
  <2>2. between.groups = [k \in GroupsOf(file) |-> between.groups[k]] /\ GroupsOf(file) \subseteq Groups
    BY <1>8, <2>1 DEF IsMap
  <2>3. between.groups[h] = Group(file, h)
    BY <1>1, <1>4 DEF Group
  <2>4. groups = [k \in GroupsOf(file) |->
                    IF k = h THEN [Group(file, h) EXCEPT !.agents = there] ELSE between.groups[k]]
    BY <2>1, <2>2, <2>3
  <2> HIDE DEF groups
  <2> QED BY <2>1, <2>2, <2>4 DEF IsMap, Group
<1>10. IsGroup(groups[h]) /\ groups[h].agents = there
  <2>1. groups[h].agents = there
    BY <1>1, <1>9 DEF IsGroup
  <2>2. groups[h] \in [workspace : Dirs, path : Dirs, mode : Modes \cup {Absent}, roots : SUBSET Dirs,
                       tools : Tools \cup {"blank", "empty", Absent}, agents : {groups[h].agents}]
    BY <1>1, <1>9, <2>1 DEF IsGroup
  <2> QED BY <1>3, <2>1, <2>2 DEF IsGroup
<1>11. file'.groups = groups
  BY <1>4, <1>7 DEF IsFile
<1> HIDE DEF groups
<1>12. IsFile(file')
  <2>1. file' \in [library : Dirs, cache : Dirs, memory : Dirs, default : Groups \cup {Absent},
                   channels : SUBSET Channels, groups : {file'.groups}]
    BY <1>4, <1>7, <1>11 DEF IsFile
  <2>2. \A k \in DOMAIN groups : IsGroup(groups[k])
    BY <1>4, <1>8, <1>9, <1>10 DEF Group, GroupsOf
  <2> QED BY <1>9, <1>11, <2>1, <2>2 DEF IsFile
<1>13. \A p \in Pairs(file) \cap Pairs(file') : Agent(file', p[1], p[2]) = Agent(file, p[1], p[2])
  <2> SUFFICES ASSUME NEW p \in Pairs(file) \cap Pairs(file')
               PROVE  Agent(file', p[1], p[2]) = Agent(file, p[1], p[2])
    OBVIOUS
  <2>1. CASE p[1] = h
    BY <1>3, <1>10, <1>11, <2>1 DEF Pairs, AgentsOf, Agent, Group
  <2>2. CASE p[1] = g
    BY <1>1, <1>2, <1>4, <1>9, <1>11, <2>2 DEF Pairs, AgentsOf, Agent, Group
  <2>3. CASE p[1] \notin {g, h}
    BY <1>4, <1>9, <1>11, <2>3 DEF Pairs, Agent, Group
  <2> QED BY <2>1, <2>2, <2>3
<1> QED BY <1>12, <1>13, SameAgentRuns DEF KeepsRunnable

LEMMA PageSaveKeeps ==
    ASSUME ConfigurationAssumption, IsFile(file), PageSave
    PROVE  IsFile(file') /\ KeepsRunnable(file, file')
<1>1. CASE SaveSettings
  <2>1. PICK default \in Groups \cup {Absent} : file' = [file EXCEPT !.default = default]
    BY <1>1 DEF SaveSettings, Save
  <2>2. file.channels \in SUBSET Channels
        /\ file' = [file EXCEPT !.default = default, !.channels = file.channels]
    BY <2>1 DEF IsFile
  <2> QED BY <2>2, SettingsOrChannelsKeep
<1>2. CASE \E c \in Channels : \/ CreateChannel(c) \/ DeleteChannel(c)
                               \/ \E d \in Channels : RekeyChannel(c, d)
  <2>1. PICK channels \in SUBSET Channels : file' = [file EXCEPT !.channels = channels]
    <3>1. file.channels \in SUBSET Channels
      BY DEF IsFile
    <3> QED BY <1>2, <3>1 DEF CreateChannel, DeleteChannel, RekeyChannel, Save
  <2>2. file.default \in Groups \cup {Absent}
        /\ file' = [file EXCEPT !.default = file.default, !.channels = channels]
    BY <2>1 DEF IsFile
  <2> QED BY <2>2, SettingsOrChannelsKeep
<1>3. CASE \E g \in Groups : SaveGroup(g) \/ CreateGroup(g) \/ DeleteGroup(g)
  BY <1>3, SaveGroupKeeps, CreateGroupKeeps, DeleteGroupKeeps
<1>4. CASE \E g \in Groups, a \in Agents :
               \/ CreateAgent(g, a) \/ RemoveAgent(g, a) \/ SaveRuntime(g, a)
               \/ SaveRoutines(g, a) \/ SaveSelector(g, a) \/ \E h \in Groups : MoveAgent(g, h, a)
  BY <1>4, AgentPagesKeep, RemoveAgentKeeps, MoveAgentKeeps
<1> QED BY <1>1, <1>2, <1>3, <1>4 DEF PageSave

LEMMA PageSaveOfParsed ==
    ASSUME PageSave
    PROVE  Parses(file) /\ Accepted(file') /\ saves < MaxSaves /\ saves' = saves + 1
<1> DEFINE Saved == \E new : Save(new)
<1>1. SaveSettings => Saved
  BY Zenon DEF SaveSettings
<1>2. \A g \in Groups : SaveGroup(g) \/ CreateGroup(g) \/ DeleteGroup(g) => Saved
  BY Zenon DEF SaveGroup, CreateGroup, DeleteGroup
<1>3. \A g \in Groups, a \in Agents :
        CreateAgent(g, a) \/ RemoveAgent(g, a) \/ SaveRuntime(g, a) => Saved
  BY Zenon DEF CreateAgent, RemoveAgent, SaveRuntime
<1>4. \A g \in Groups, a \in Agents : SaveRoutines(g, a) \/ SaveSelector(g, a) => Saved
  BY Zenon DEF SaveRoutines, SaveSelector
<1>5. \A g, h \in Groups, a \in Agents : MoveAgent(g, h, a) => Saved
  BY Zenon DEF MoveAgent
<1>6. \A c, d \in Channels : CreateChannel(c) \/ DeleteChannel(c) \/ RekeyChannel(c, d) => Saved
  BY Zenon DEF CreateChannel, DeleteChannel, RekeyChannel
<1>7. Saved
  <2> HIDE DEF Saved
  <2> QED BY <1>1, <1>2, <1>3, <1>4, <1>5, <1>6 DEF PageSave
<1>8. PICK new : Save(new)
  BY <1>7
<1> QED BY <1>8 DEF Save

----------------------------------------------------------------------------
(* A file that parses has only parts of the right kind.                      *)
THEOREM TypeCorrect == Spec => []TypeOK
<1> USE ConfigurationAssumption, HandWrittenAssumption
<1>1. Init => TypeOK
  BY DEF Init, TypeOK, Accepted, ConfigurationAssumption, HandWrittenAssumption
<1>2. TypeOK /\ [Next]_vars => TypeOK'
  <2> SUFFICES ASSUME TypeOK, [Next]_vars PROVE TypeOK'
    OBVIOUS
  <2>1. CASE PageSave
    <3>1. Parses(file) /\ saves < MaxSaves /\ saves' = saves + 1
      BY <2>1, PageSaveOfParsed
    <3>2. IsFile(file')
      BY <2>1, <3>1, PageSaveKeeps DEF TypeOK
    <3>3. saves' \in 0 .. MaxSaves
      BY <3>1 DEF TypeOK, ConfigurationAssumption
    <3> QED BY <2>1, <3>2, <3>3 DEF TypeOK, Next
  <2>2. CASE HandEdit
    <3>1. Parses(file') => IsFile(file')
      BY <2>2 DEF HandEdit, HandWrittenAssumption
    <3>2. Parses(file)' => IsFile(file)'
      BY <3>1 DEF Parses, WellShaped, RawIsValid, DefaultIsValid, Typed, Pairs, GroupsOf, AgentsOf,
                  Group, Agent, IsFile
    <3>3. saves' \in 0 .. MaxSaves
      BY <2>2 DEF HandEdit, TypeOK, ConfigurationAssumption
    <3> QED BY <2>2, <3>2, <3>3 DEF TypeOK, Next
  <2>3. CASE UNCHANGED vars
    BY <2>3 DEF vars, TypeOK, Parses, WellShaped, RawIsValid, DefaultIsValid, Typed, Pairs, GroupsOf,
                AgentsOf, Group, Agent, IsFile
  <2> QED BY <2>1, <2>2, <2>3 DEF Next
<1> QED BY <1>1, <1>2, PTL DEF Spec

(* A page that leaves the mode of a group alone leaves its agents able to run: *)
(* what the runtime page refuses is all that can stop them.                    *)
THEOREM SavesKeepThemRunnable == Spec => SavesKeepAgentsRunnable
<1>1. TypeOK /\ [Next]_vars =>
        [file' \notin HandWritten => \A p \in Pairs(file) \cap Pairs(file') :
            /\ Mode(Group(file, p[1]).mode) = Mode(Group(file', p[1]).mode)
            /\ PolicyResolves(file, p[1], p[2])
            => PolicyResolves(file', p[1], p[2])]_vars
  <2> SUFFICES ASSUME TypeOK, Next, file' \notin HandWritten
               PROVE  KeepsRunnable(file, file')
    BY DEF KeepsRunnable, SameMode
  <2>1. PageSave
    BY DEF Next, HandEdit
  <2> QED BY <2>1, PageSaveOfParsed, PageSaveKeeps, ConfigurationAssumption DEF TypeOK
<1> QED BY <1>1, TypeCorrect, PTL DEF Spec, SavesKeepAgentsRunnable

----------------------------------------------------------------------------
(* The directories of a run and those of the stores.                         *)

LEMMA ApartOrOverlap ==
    ASSUME NEW d \in Dirs, NEW s \in Dirs, ~Overlap(d, s)
    PROVE  \E i \in 1 .. Len(d) : i <= Len(s) /\ d[i] # s[i]
<1> USE DEF Dirs
<1> SUFFICES ASSUME \A i \in 1 .. Len(d) : i <= Len(s) => d[i] = s[i] PROVE FALSE
  OBVIOUS
<1>1. Len(d) \in Nat /\ Len(s) \in Nat
  OBVIOUS
<1>2. CASE Len(d) <= Len(s)
  <2>1. SubSeq(d, 1, Len(d)) = SubSeq(s, 1, Len(d))
    BY <1>1, <1>2
  <2> QED BY <1>2, <2>1 DEF Overlap, IsPrefix
<1>3. CASE Len(s) <= Len(d)
  <2>1. SubSeq(s, 1, Len(s)) = SubSeq(d, 1, Len(s))
    BY <1>1, <1>3
  <2> QED BY <1>3, <2>1 DEF Overlap, IsPrefix
<1> QED BY <1>1, <1>2, <1>3

LEMMA StoresAreApart ==
    ASSUME IsFile(file), PathsAreValid(file), Absent \notin Groups,
           NEW n \in StoreNames,
           NEW d, \/ d \in CheckedRoots(file)
                  \/ \E g \in GroupsOf(file) : d \in {Group(file, g).workspace, Group(file, g).path}
    PROVE  ~Overlap(d, file[n]) \/ ~Overlap(file[n], d)
<1>1. CASE d \in CheckedRoots(file)
  BY <1>1 DEF PathsAreValid, StoresOf
<1>2. CASE \E g \in GroupsOf(file) : d \in {Group(file, g).workspace, Group(file, g).path}
  <2>1. PICK g \in GroupsOf(file), part \in {"workspace", "path"} : d = Group(file, g)[part]
    BY <1>2
  <2> DEFINE dir == Authorities(file)
  <2>2. <<Absent, n>> \in DOMAIN dir /\ <<g, part>> \in DOMAIN dir
    BY DEF Authorities
  <2>3. g # Absent
    BY GroupOfFile
  <2>4. dir[<<Absent, n>>] = file[n] /\ dir[<<g, part>>] = d
    BY <2>1, <2>3 DEF Authorities
  <2>5. <<Absent, n>> # <<g, part>>
    BY <2>3
  <2> HIDE DEF dir
  <2>6. ~Overlap(dir[<<Absent, n>>], dir[<<g, part>>])
    BY <2>2, <2>5 DEF PathsAreValid, dir
  <2> QED BY <2>4, <2>6
<1> QED BY <1>1, <1>2

(* A restricted run cannot write to a store, whichever directories the user  *)
(* and the pages name.                                                       *)
THEOREM StoresAreOutOfReach == Spec => []RunsCannotReachStores
<1>1. TypeOK => RunsCannotReachStores
  <2> SUFFICES ASSUME TypeOK, Accepted(file), NEW p \in Pairs(file),
                      EffectiveMode(file, p[1], p[2]) = "restricted",
                      NEW d \in SandboxRoots(file, p[1], p[2]), NEW s \in StoresOf(file),
                      ~(Group(file, p[1]).mode = Absent /\ d \in Group(file, p[1]).roots)
               PROVE  \E i \in 1 .. Len(d) : i <= Len(s) /\ d[i] # s[i]
    BY DEF RunsCannotReachStores
  <2>1. IsFile(file) /\ PathsAreValid(file) /\ RawIsValid(file) /\ Absent \notin Groups
    BY ConfigurationAssumption DEF TypeOK, Accepted, Parses, ConfigurationAssumption
  <2>2. /\ p[1] \in GroupsOf(file) /\ p[2] \in AgentsOf(file, p[1])
        /\ IsGroup(Group(file, p[1])) /\ IsAgent(Agent(file, p[1], p[2]))
    BY <2>1, GroupOfFile, AgentOfFile DEF Pairs
  <2>3. PICK n \in StoreNames : s = file[n]
    BY DEF StoresOf
  <2>4. \/ d \in {Group(file, p[1]).workspace, Group(file, p[1]).path}
        \/ d \in CheckedRoots(file)
    <3>1. CASE d \in Agent(file, p[1], p[2]).roots
      BY <3>1 DEF CheckedRoots
    <3>2. CASE d \in Group(file, p[1]).roots
      <4>1. Group(file, p[1]).mode # Absent /\ Group(file, p[1]).mode # "unrestricted"
        BY <2>1, <2>2, <3>2 DEF RawIsValid, RuntimeIsValid
      <4>2. Mode(Group(file, p[1]).mode) = "restricted"
        BY <2>2, <4>1 DEF Mode, IsGroup, Modes
      <4> QED BY <2>2, <3>2, <4>2 DEF CheckedRoots
    <3> QED BY <3>1, <3>2 DEF SandboxRoots
  <2>5. ~Overlap(d, s) \/ ~Overlap(s, d)
    BY <2>1, <2>2, <2>3, <2>4, StoresAreApart
  <2>6. ~Overlap(d, s)
    BY <2>5 DEF Overlap
  <2>7. d \in Dirs /\ s \in Dirs
    <3>1. s \in Dirs
      <4>1. file.library \in Dirs /\ file.cache \in Dirs /\ file.memory \in Dirs
        BY <2>1 DEF IsFile
      <4>2. n = "library" \/ n = "cache" \/ n = "memory"
        BY DEF StoreNames
      <4> QED BY <2>3, <4>1, <4>2
    <3>2. d \in Dirs
      BY <2>2 DEF SandboxRoots, IsGroup, IsAgent
    <3> QED BY <3>1, <3>2
  <2> QED BY <2>6, <2>7, ApartOrOverlap
<1> QED BY <1>1, TypeCorrect, PTL
=============================================================================
