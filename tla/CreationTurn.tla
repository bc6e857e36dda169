---------------------------- MODULE CreationTurn ----------------------------
(* A conversation thread that writes copy.  Every run starts by loading what   *)
(* the model may rely on (KnowledgeGroundingMiddleware); the save_generated_   *)
(* copy tool then stores a new copy, at most one for a user message, or a      *)
(* revision together with the request that asked for it as feedback.  A run    *)
(* may be repeated for the same message, and the model may call tools in       *)
(* parallel.                                                                   *)
EXTENDS Naturals, FiniteSets

CONSTANTS
  Messages, NoMessage,   \* user messages; their ids are the turn ids
  Drafted,               \* ids for copies
  NoDraft,
  TurnScopes, NoScope,       \* account and niche of a message
  ToolCalls,             \* parallel tool calls of the model
  MaxDraftVersion        \* bound on versions

ASSUME CreationAssumption == MaxDraftVersion \in Nat \ {0}

VARIABLES
  asked,      \* the message the current run answers
  scope,      \* its writing context
  grounding,  \* state knowledge_grounding: status and the turn it was made for
  profile,    \* state writing_profile_grounding: the context it was loaded for
  draft,      \* generated_copy_states: latest version (0: none) and origin_turn_id
  feedback,   \* the stored revision request of a turn: the copy and version it is about
  toolCall,   \* a save of a new copy in its transaction
  verdict     \* what the last revision came to

creationVars == <<asked, scope, grounding, profile, draft, feedback, toolCall, verdict>>

NoTarget == <<NoDraft, 0>>
Targets  == Drafted \X (1 .. MaxDraftVersion)

CreationTypeOK ==
  /\ asked \in Messages \cup {NoMessage} /\ scope \in TurnScopes \cup {NoScope}
  /\ grounding \in [status : {"none", "ready", "error"}, turn : Messages \cup {NoMessage}]
  /\ profile \in TurnScopes \cup {NoScope}
  /\ draft \in [Drafted -> [version : 0 .. MaxDraftVersion, origin : Messages \cup {NoMessage}]]
  /\ feedback \in [Messages -> Targets \cup {NoTarget}]
  /\ toolCall \in [ToolCalls -> {"idle", "looking", "writing"}]
  /\ verdict \in {"none", "saved", "stale", "conflict"}

CreationInit ==
  /\ asked = NoMessage /\ scope = NoScope /\ profile = NoScope
  /\ grounding = [status |-> "none", turn |-> NoMessage]
  /\ draft = [d \in Drafted |-> [version |-> 0, origin |-> NoMessage]]
  /\ feedback = [m \in Messages |-> NoTarget]
  /\ toolCall = [t \in ToolCalls |-> "idle"] /\ verdict = "none"

Stored == UNCHANGED <<draft, feedback>>
Context == UNCHANGED <<asked, scope, grounding, profile>>

-----------------------------------------------------------------------------
\* abefore_agent: both loads within the timeout, or an error that says nothing of the profile.
Load(m, s) ==
  \/ /\ grounding' = [status |-> "ready", turn |-> m] /\ profile' \in {s, NoScope}
  \/ /\ grounding' = [status |-> "error", turn |-> m] /\ profile' \in {s, NoScope}
  \/ /\ grounding' = [status |-> "error", turn |-> m] /\ UNCHANGED profile
Run(m, s) ==
  /\ \A t \in ToolCalls : toolCall[t] = "idle"
  /\ Load(m, s) /\ verdict' = "none" /\ Stored /\ UNCHANGED toolCall
\* A new message of the user, about any account or niche.
Submit(m, s) ==
  /\ m # asked /\ asked' = m /\ scope' = s /\ Run(m, s)
\* handleRegenerate, or the resumption of an interrupted run: the same turn id again.
RunAgain ==
  /\ asked # NoMessage /\ Run(asked, scope) /\ UNCHANGED <<asked, scope>>

\* _validated_grounding_context: ready, and of this turn.
Grounded == grounding.status = "ready" /\ grounding.turn = asked

\* lock_origin: savers of one turn take turns.
\* Mutant: a retried or parallel tool call does not wait for the first.
OriginFreeAlways(t) == TRUE
OriginFree(t) == \A u \in ToolCalls \ {t} : toolCall[u] = "idle"
SaveCopy(t) ==
  /\ toolCall[t] = "idle" /\ Grounded /\ OriginFree(t)
  /\ toolCall' = [toolCall EXCEPT ![t] = "looking"]
  /\ Stored /\ Context /\ UNCHANGED verdict
\* find_by_origin: the copy of this turn is returned as it was first saved.
FindByOrigin(t) ==
  /\ toolCall[t] = "looking"
  /\ toolCall' = [toolCall EXCEPT ![t] =
       IF \E d \in Drafted : draft[d].origin = asked THEN "idle" ELSE "writing"]
  /\ Stored /\ Context /\ UNCHANGED verdict
\* One to three candidates as versions of one resource; the commit.
CreateCopy(t, n) ==
  /\ toolCall[t] = "writing"
  /\ \E d \in Drafted :
       /\ draft[d].version = 0
       /\ draft' = [draft EXCEPT ![d] = [version |-> n, origin |-> asked]]
  /\ toolCall' = [toolCall EXCEPT ![t] = "idle"]
  /\ UNCHANGED <<feedback, verdict>> /\ Context
StopSaving(t) ==
  /\ toolCall[t] # "idle" /\ toolCall' = [toolCall EXCEPT ![t] = "idle"]
  /\ Stored /\ Context /\ UNCHANGED verdict

\* A revision of version v the model knows of: the token must be the latest, and the
\* request is stored as feedback on v under a key of the turn; a key that holds another
\* request refuses the whole.
SameRequest(m, d, v) == feedback[m] \in {NoTarget, <<d, v>>}
Revise(d, v) ==
  LET current == draft[d].version = v
      saved   == current /\ SameRequest(asked, d, v)
  IN  /\ Grounded /\ v \in 1 .. draft[d].version /\ draft[d].version < MaxDraftVersion
      /\ verdict' = IF saved THEN "saved" ELSE IF current THEN "conflict" ELSE "stale"
      /\ IF saved
         THEN /\ draft' = [draft EXCEPT ![d].version = @ + 1]
              /\ feedback' = [feedback EXCEPT ![asked] = <<d, v>>]
         ELSE Stored
      /\ Context /\ UNCHANGED toolCall
\* The studio, or another thread, saves a version of its own.
EditElsewhere(d) ==
  /\ draft[d].version \in 1 .. MaxDraftVersion - 1
  /\ draft' = [draft EXCEPT ![d].version = @ + 1]
  /\ UNCHANGED <<feedback, toolCall, verdict>> /\ Context

CreationNext ==
  \/ RunAgain
  \/ \E m \in Messages, s \in TurnScopes : Submit(m, s)
  \/ \E t \in ToolCalls : \/ SaveCopy(t) \/ FindByOrigin(t) \/ StopSaving(t)
                          \/ \E n \in 1 .. MaxDraftVersion : CreateCopy(t, n)
  \/ \E d \in Drafted : EditElsewhere(d) \/ \E v \in 1 .. MaxDraftVersion : Revise(d, v)

CreationSpec == CreationInit /\ [][CreationNext]_creationVars

-----------------------------------------------------------------------------
(* However often a turn is run, and whatever the model calls in parallel, a    *)
(* user message makes at most one copy.                                        *)
OneCopyPerTurn ==
  \A d, e \in Drafted : draft[d].origin # NoMessage /\ draft[d].origin = draft[e].origin => d = e

(* What save_generated_copy says of its tokens: whoever reads the latest ones  *)
(* and tries again gets the revision saved.                                    *)
FreshTokensSuffice == verdict # "conflict"
=============================================================================
