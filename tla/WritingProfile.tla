---------------------------- MODULE WritingProfile ----------------------------
(* What one user's writing preferences are learned from                        *)
(* (PreferenceLearningService.record_exact_event and _rebuild_profile,         *)
(* PreferenceRepository, and their callers): every event of an exact version   *)
(* becomes one fact in the scope of the account and niche the version is bound *)
(* to, and the profile of all the facts and the one of the scope are rebuilt   *)
(* from the facts read, in the transaction of the event.                       *)
(*                                                                             *)
(* The order of a copy's events is GeneratedCopy's; here they come in any      *)
(* order.  A profile stands for the facts it was computed from: its content is *)
(* a function of them.                                                         *)
EXTENDS Naturals, FiniteSets, Functions

CONSTANTS
  Drafts,            \* exact versions of generated copies
  Opinions,          \* feedback resources
  OpinionOn,         \* the version each is about
  Rivals,            \* the other versions of the generation run that last showed one
  Niches, Accounts,  \* xhs_accounts of the user and what they are about
  Steps,             \* the lifecycle events that are looked at
  Editors            \* transactions

Bindings == Accounts \X Niches
Whole == <<"global">>
Scopes == Bindings \cup {Whole}
NoAccount == <<"none">>
Sources == Drafts \cup Opinions
\* event types, and for a comparison the version that lost it.
Binding == {<<"revised">>, <<"adopted">>, <<"finalized">>}
Occasions == Binding \cup {<<"published">>, <<"metric">>, <<"feedback">>} \cup ({"comparison"} \X Drafts)
Facts == [of : Sources, on : Occasions, scope : Scopes]

ASSUME ProfileAssumption ==
  /\ OpinionOn \in [Opinions -> Drafts] /\ Rivals \in [Drafts -> SUBSET Drafts]
  /\ Drafts \cap Opinions = {} /\ Steps \subseteq Binding \cup {<<"published">>}

VARIABLES
  niche,     \* xhs_accounts.niche
  bound,     \* resource_contexts of each version, Whole: none
  learned,   \* preference_observations
  profiles,  \* writing_profile_states: the facts a profile was rebuilt from
  editor     \* the transactions

profileVars == <<niche, bound, learned, profiles, editor>>

NoProfile == [known |-> FALSE, facts |-> {}]
NotEditing == [at |-> "idle", of |-> NoAccount, on |-> <<"revised">>, scope |-> Whole,
               adds |-> {}, reads |-> {}, rebuilds |-> {}]

ProfileTypeOK ==
  /\ niche \in [Accounts -> Niches] /\ bound \in [Sources -> Scopes] /\ learned \subseteq Facts
  /\ profiles \in [Scopes -> [known : BOOLEAN, facts : SUBSET Facts]]
  /\ editor \in [Editors -> [at : {"idle", "writing", "recorded"}, of : Sources \cup {NoAccount},
                             on : Occasions, scope : Scopes, adds : SUBSET Facts,
                             reads : SUBSET Facts, rebuilds : SUBSET Scopes]]

ProfileInit ==
  /\ niche \in [Accounts -> Niches]
  /\ bound = [v \in Sources |-> Whole] /\ learned = {}
  /\ profiles = [c \in Scopes |-> NoProfile] /\ editor = [s \in Editors |-> NotEditing]

-----------------------------------------------------------------------------
(* bind_resource_to_account and attach_resource_context: the context a version *)
(* has is kept with the niche of then, another account for it is a conflict.   *)
Conflicting(v, a) == a # NoAccount /\ bound[v] # Whole /\ bound[v][1] # a
ScopeFor(v, a) == IF bound[v] # Whole \/ a = NoAccount THEN bound[v] ELSE <<a, niche[a]>>

\* The row lock of the copy, of its metric, or of the feedback resource.
SourceFree(v, o) ==
  \A s \in Editors : editor[s].at # "idle" /\ editor[s].of = v
                        => (editor[s].on = <<"metric">> <=> o # <<"metric">>)

Begin(s, v, o, c) ==
  /\ editor[s].at = "idle" /\ SourceFree(v, o)
  /\ editor' = [editor EXCEPT ![s] = [NotEditing EXCEPT !.at = "writing", !.of = v, !.on = o, !.scope = c]]
  /\ UNCHANGED <<niche, bound, learned, profiles>>

\* _event of GeneratedCopyRepository: a lifecycle event happens once, and binds first.
ChangeCopy(s, v, o, a) ==
  /\ o \in Steps /\ (o = <<"published">> => a = NoAccount)
  /\ \A f \in learned : <<f.of, f.on>> # <<v, o>>
  /\ ~Conflicting(v, a) /\ Begin(s, v, o, ScopeFor(v, a))

\* The same request again: the lifecycle is where it would lead, only the binding is made.
RepeatChange(v, a) ==
  /\ \E f \in learned : f.of = v /\ f.on \in {<<"adopted">>, <<"finalized">>}
  /\ SourceFree(v, <<"adopted">>) /\ ~Conflicting(v, a) /\ bound' = [bound EXCEPT ![v] = ScopeFor(v, a)]
  /\ UNCHANGED <<niche, learned, profiles, editor>>

\* save_performance_metric_resource, of one exact metric version; also retried.  It does not
\* lock the copy; the context is read with the snapshot, under the lock of the user.
BackfillMetric(s, v) == Begin(s, v, <<"metric">>, Whole)

\* save_user_feedback_resource: the feedback takes over the context of what it is about.
GiveFeedback(s, g) ==
  LET c == bound[OpinionOn[g]]
  IN  /\ c = Whole \/ bound[g] \in {Whole, c}
      /\ Begin(s, g, <<"feedback">>, IF c = Whole THEN bound[g] ELSE c)

\* assign another niche to an account.
EditAccount(a, n) ==
  /\ niche' = [niche EXCEPT ![a] = n] /\ UNCHANGED <<bound, learned, profiles, editor>>

-----------------------------------------------------------------------------
\* list_observations: of every scope, or of this one and of none.
Listed(facts, c) == {f \in facts : c = Whole \/ f.scope \in {Whole, c}}

\* record_selection: what the adopted version was preferred to.
Lost(e) == IF e.on = <<"adopted">> THEN Rivals[e.of] \ {e.of} ELSE {}
FactsOf(e) == {[of |-> e.of, on |-> o, scope |-> e.scope] : o \in {e.on} \cup ({"comparison"} \X Lost(e))}
\* insert_observation: on conflict (idempotency_key) do nothing.
Fresh(e) == {f \in FactsOf(e) : \A g \in learned : <<g.of, g.on>> # <<f.of, f.on>>}

\* acquire_actor_lock
\* Mutant: the writers of one user do not wait for each other.
ActorFreeAlways(s) == editor[s].at = "writing"
ActorFree(s) == editor[s].at = "writing" /\ \A o \in Editors : editor[o].at # "recorded"

\* record_exact_event: a fact seen before leaves the profile as it is, if there is one.
RecordExactEvent(s) ==
  LET m == editor[s]
      e == IF m.on = <<"metric">> THEN [m EXCEPT !.scope = bound[m.of]] ELSE m
      new == Fresh(e)
  IN  /\ ActorFree(s)
      /\ editor' = [editor EXCEPT ![s].at = "recorded", ![s].scope = e.scope, ![s].adds = new, ![s].reads = learned \cup new,
                      ![s].rebuilds = IF new # {} THEN {Whole, e.scope}
                                      ELSE IF profiles[e.scope].known THEN {} ELSE {e.scope}]
      /\ UNCHANGED <<niche, bound, learned, profiles>>

\* rebuild_preference_profile: weights and samples, a function of the facts listed.
Rebuilt(facts, c) == [known |-> TRUE, facts |-> Listed(facts, c)]
\* _rebuild_profile wrote its profiles; all of it is committed, or nothing.
Commit(s) ==
  LET e == editor[s]
  IN  /\ e.at = "recorded"
      /\ bound' = IF e.on = <<"metric">> THEN bound ELSE [bound EXCEPT ![e.of] = e.scope]
      /\ learned' = learned \cup e.adds
      /\ profiles' = [c \in Scopes |-> IF c \in e.rebuilds THEN Rebuilt(e.reads, c) ELSE profiles[c]]
      /\ editor' = [editor EXCEPT ![s] = NotEditing] /\ UNCHANGED niche
RollBack(s) ==
  /\ editor[s].at # "idle" /\ editor' = [editor EXCEPT ![s] = NotEditing]
  /\ UNCHANGED <<niche, bound, learned, profiles>>

ProfileNext ==
  \/ \E s \in Editors, v \in Drafts, o \in Occasions, a \in Accounts \cup {NoAccount} : ChangeCopy(s, v, o, a)
  \/ \E v \in Drafts, a \in Accounts : RepeatChange(v, a)
  \/ \E s \in Editors, v \in Drafts : BackfillMetric(s, v)
  \/ \E s \in Editors, g \in Opinions : GiveFeedback(s, g)
  \/ \E a \in Accounts, n \in Niches : EditAccount(a, n)
  \/ \E s \in Editors : RecordExactEvent(s) \/ Commit(s) \/ RollBack(s)

ProfileSpec == ProfileInit /\ [][ProfileNext]_profileVars

-----------------------------------------------------------------------------
(* The profile of everything is computed from every fact, and the one of a     *)
(* scope from all the facts of its own and from none of another scope,         *)
(* whichever transactions of the user overlap, roll back or are repeated.      *)
OwnFactsLearned ==
  /\ profiles[Whole].facts = learned
  /\ \A c \in Bindings : /\ {f \in learned : f.scope = c} \subseteq profiles[c].facts
                         /\ profiles[c].facts \subseteq Listed(learned, c)

(* "The whole observation set deterministically rebuilds a private profile":   *)
(* a profile is computed from everything list_observations returns for it.     *)
ProfilesComplete ==
  \A c \in Scopes : profiles[c].known => profiles[c].facts = Listed(learned, c)
=============================================================================
