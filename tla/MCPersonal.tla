----------------------------- MODULE MCPersonal -----------------------------
(* What the service keeps for one person: the patterns synthesised from the   *)
(* assets, and the skills.  A behaviour is of one part, and fair to it; the   *)
(* other stays as it began.  Two users with one skill each.                   *)
EXTENDS MCPreferenceSynthesis, UserSkill

CONSTANTS s1, s2, o1, o2

VARIABLE part

OneEach == s1 :> o1 @@ s2 :> o2
\* One skill lives long enough to be rolled back and then changed, the other to be drafted.
LongAndShort == s1 :> 6 @@ s2 :> 1
\* The published version, and the newest one on trial.
Picks == {<<s1, 1, "execute">>, <<s1, 2, "test">>}

\* The foreign material is new to the actor, or shared with him before it is imported: then
\* every classification is a trigger and nothing fails.
PersonalInit ==
  /\ part \in {"fresh", "shared", "skill"} /\ Init /\ SkillInit
  /\ granted = IF part = "shared" THEN {a1} ELSE {}
PersonalNext ==
  \/ part = "fresh" /\ Next /\ UNCHANGED <<part, skillVars>>
  \/ part = "shared" /\ Next /\ UNCHANGED <<faults, part, skillVars>>
  \/ part = "skill" /\ SkillNext /\ UNCHANGED <<part, vars>>

\* FairSpec and SkillFairSpec, each of its own part.
PersonalFair ==
  /\ \A w \in Workers : WF_vars(part # "skill" /\ Work(w))
  /\ WF_vars(part # "skill" /\ Lapse)
  /\ \A a \in Assets : WF_vars(part # "skill" /\ Classify(a))
  /\ WF_skillVars(part = "skill" /\ Serve)

PersonalSpec == PersonalInit /\ [][PersonalNext]_<<part, vars, skillVars>> /\ PersonalFair
=============================================================================
