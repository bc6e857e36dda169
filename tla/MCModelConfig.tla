---------------------------- MODULE MCModelConfig ----------------------------
(* Instances of ModelConfig: two gateways that list one model each. *)
EXTENDS ModelConfig, TLC

CONSTANTS g1, g2, m1, m2, s1

OneEach == g1 :> {m1} @@ g2 :> {m2}
Choices == {{}, {m1}, {m1, m2}}

\* A deployment with everything configured, and one with nothing.
Deployed == {[gateway |-> g1, models |-> {m1, m2}, settings |-> s1],
             [gateway |-> NoGateway, models |-> {}, settings |-> s1]}

\* Move to the other gateway, narrow the whitelist, save a key no pool depends on.
Posted == {[gateway |-> g2], [models |-> {m1}], [settings |-> s1]}
=============================================================================
