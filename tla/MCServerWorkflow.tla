-------------------------- MODULE MCServerWorkflow --------------------------
(***************************************************************************)
(* ServerWorkflow for TLC: the nodes are interchangeable.                   *)
(***************************************************************************)
EXTENDS ServerWorkflow, TLC

Symmetry == Permutations(Nodes)
=============================================================================
