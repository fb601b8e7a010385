-------------------------- MODULE MCPipelineConfig --------------------------
(* An instance of PipelineConfig for TLC: the second pipeline has the table *)
(* of the first one under an id that stood for another table before.        *)
EXTENDS PipelineConfig, TLC

CONSTANTS a, b, old, new, nat, acl

MCIds ==
  old :> (nat :> <<1, 1>> @@ acl :> <<2, 2>>) @@
  new :> (nat :> <<2, 2>> @@ acl :> <<0, 0>>)

Symmetry == Permutations(Callers)
=============================================================================
