------------------------------- MODULE MCPlanGraph -------------------------------
(***************************************************************************)
(* Plans over three capabilities that compose one another at will.         *)
(***************************************************************************)
EXTENDS PlanGraph

Children == {<<>>, <<2>>, <<3>>, <<2, 3>>, <<3, 2>>}

MCCompositions ==
    {[registry |-> Ids, children |-> [i \in Ids |-> k[i]], conflicts |-> [i \in Ids |-> {}],
      roots |-> r, exclude |-> {}] : k \in [Ids -> Children], r \in {<<1>>, <<1, 3>>, <<>>}}
=============================================================================
