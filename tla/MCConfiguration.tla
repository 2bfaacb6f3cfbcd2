-------------------------- MODULE MCConfiguration --------------------------
(* Two groups, one agent; stores under one directory, a workspace in it and a  *)
(* group root in a workspace; a file with a group alone, one as the setup      *)
(* writes it, one with a group that says little, one misshapen.                 *)
EXTENDS Configuration

CONSTANTS g1, g2, a1, r1, c1, c2

MCWorkspaces == {<<"w1">>, <<"w2">>, <<"gone">>}
MCGroupRoots == {<<"p1">>, <<"p2">>, <<"w1", "p">>}
MCExtraRoots == {<<"r">>, <<"s", "mem", "x">>}
MCMissing == {<<"gone">>}

Plain == [library |-> <<"s", "lib">>, cache |-> <<"s", "cache">>, memory |-> <<"s", "mem">>,
          default |-> g1, channels |-> {c1},
          groups |-> g1 :> [workspace |-> <<"w1">>, path |-> <<"p1">>, mode |-> "restricted",
                            roots |-> {}, tools |-> "list", agents |-> <<>>]]
Settled == [Plain EXCEPT !.groups[g1].agents = a1 :> [mode |-> Absent, roots |-> {},
                           tools |-> Absent, memory |-> Absent, routines |-> r1 :> Absent]]
Terse == [Plain EXCEPT !.default = Absent, !.groups[g1].mode = Absent,
                       !.groups[g1].roots = {<<"s", "mem", "x">>},
                       !.groups[g1].agents = a1 :> [mode |-> "restricted", roots |-> {},
                           tools |-> Absent, memory |-> [scope |-> "channel", channel |-> c1],
                           routines |-> <<>>]]
Broken == [Plain EXCEPT !.groups[g1].tools = Malformed]
MCHandWritten == {Plain, Settled, Terse, Broken}
=============================================================================
