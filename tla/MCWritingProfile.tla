-------------------------- MODULE MCWritingProfile --------------------------
(* An instance of WritingProfile: two versions of a copy, one chosen over the  *)
(* other, and feedback on the chosen one; two niches.                          *)
EXTENDS WritingProfile, TLC

CONSTANTS v1, v2, g1

OnFirst  == [g \in Opinions |-> v1]
OverTwo  == v1 :> {v2} @@ v2 :> {}
Adopting == {<<"adopted">>}

Symmetry == Permutations(Editors)
=============================================================================
