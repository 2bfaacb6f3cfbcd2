----------------------------- MODULE MCDispatch -----------------------------
(* A day of six ticks; one routine of each kind.                              *)
EXTENDS Dispatch, TLC

MCOrder == <<"often", "early">>
MCTarget == "early" :> 1
MCPeriod == "often" :> 2
=============================================================================
