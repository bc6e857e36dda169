--------------------------- MODULE MCCreationTurn ---------------------------
(* An instance of CreationTurn: two messages, two copies, two tool calls. *)
EXTENDS CreationTurn, TLC

Symmetry == Permutations(Messages) \cup Permutations(Drafted) \cup Permutations(ToolCalls)
=============================================================================
