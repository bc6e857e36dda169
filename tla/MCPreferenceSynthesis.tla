----------------------- MODULE MCPreferenceSynthesis -----------------------
(* Instances of PreferenceSynthesis: two schedulers, two or three assets. *)
EXTENDS PreferenceSynthesis, TLC

CONSTANTS a1, a2, a3, c1, c2

\* A copy whose two drafts were bound to two accounts.
TwoScopes == <<a2, 1>> :> c1 @@ <<a2, 2>> :> c2

Symmetry == Permutations(Workers)
=============================================================================
