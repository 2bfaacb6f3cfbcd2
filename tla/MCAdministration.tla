-------------------------- MODULE MCAdministration --------------------------
(* An agent of the first of two groups, which owns two memories, or one of a   *)
(* group alone, which uses a channel; or a channel without an agent.           *)
EXTENDS Administration, TLC

CONSTANTS g1, g2, a1, c1, c2, k1, k2, d1, d2, p1, p2, j1, text

\* The processes are alike.
ProcSymmetry == Permutations({p1, p2})
Place(path, uses, channels) == [path |-> path, uses |-> uses, channels |-> channels]
MCInitial ==
    {Place(g1 :> d1 @@ g2 :> d2, <<g1, a1>> :> {k1, k2}, {}),
     Place(g1 :> d1, <<g1, a1>> :> {c1}, {c1}), Place(g1 :> d1, <<>>, {c1})}

MCRank == g1 :> 0 @@ g2 :> 4 @@ k1 :> 1 @@ k2 :> 2
MCOrder ==
    d1 :> 1 @@ d2 :> 2 @@ c1 :> 4 @@ c2 :> 5
      @@ [m \in Groups \X Agents \X Own |-> 5 + MCRank[m[1]] + MCRank[m[3]]]
=============================================================================
