------------------------------ MODULE UserSkill ------------------------------
(***************************************************************************)
(* Skills users write for themselves: UserSkillRepository keeps them as     *)
(* immutable versions with a publication pointer, an audit trail and one    *)
(* catalogue revision per owner; RevisionAwareSkillsMiddleware loads the    *)
(* catalogue into an agent thread and loads it again when the revision or   *)
(* the user of the thread has changed.                                      *)
(*                                                                          *)
(* A repository operation is one transaction, run without an await on the   *)
(* only event loop, hence one action.  The middleware reads the revision,   *)
(* the names and the documents over three connections, from a thread.       *)
(***************************************************************************)
EXTENDS Naturals, Sequences, FiniteSets, FiniteSetsExt

CONSTANTS
  Owners, NoOwner,
  Skills,
  OwnerOf,      \* OwnerOf[s]: the user who writes skill s
  Selectable,   \* the selections (skill, version, mode) frontends send
  MaxVersions,  \* bound on the versions of a skill
  MaxEvents     \* MaxEvents[s]: bound on the audited operations on skill s

ASSUME UserSkillConstants ==
  /\ NoOwner \notin Owners
  /\ OwnerOf \in [Skills -> Owners]
  /\ Selectable \subseteq Skills \X Nat \X {"execute", "test"}
  /\ MaxVersions \in Nat \ {0} /\ MaxEvents \in [Skills -> Nat]

VARIABLES
  skill,     \* status, published version (0 for null) and latest version
  audit,     \* user_skill_audit_events of each skill, in event_order
  revision,  \* user_skill_revisions
  loaded,    \* the thread's catalogue: documents, revision and scope they were loaded for
  turn,      \* the turn being served: stage, actor, selection and what it has read
  everPublished, alwaysPublished  \* the actor's documents published at some moment of the
                                  \* turn, and at every one (history variables)

database == <<skill, audit, revision>>
history  == <<everPublished, alwaysPublished>>
skillVars     == <<database, loaded, turn, history>>

Versions  == 1..MaxVersions
Documents == Skills \X Versions
None      == MapThenSumSet(LAMBDA s : MaxEvents[s], Skills) + 1   \* a loaded revision of null
Failed    == [revision |-> None, scope |-> NoOwner, documents |-> {}]
NoSelection == <<>>
Selections == {NoSelection} \cup Selectable
NotChanging == [stage |-> "idle", actor |-> NoOwner, selected |-> NoSelection]

\* list_published_documents
Published(table, o) ==
  {d \in Documents : OwnerOf[d[1]] = o /\ table[d[1]].status = "published"
                                       /\ table[d[1]].published = d[2]}

\* resolve_selected_document finds the version and the mode allows it.
Resolvable(s, v, mode, o) ==
  /\ OwnerOf[s] = o /\ v <= skill[s].latest
  /\ IF mode = "execute" THEN <<s, v>> \in Published(skill, o)
                         ELSE skill[s].status # "archived"

\* The events that put a version in the publication pointer.
Pointing == {"published", "rolled_back", "enabled"}
-----------------------------------------------------------------------------
NoSkill == [status |-> "absent", published |-> 0, latest |-> 0]

SkillInit ==
  /\ skill = [s \in Skills |-> NoSkill]
  /\ audit = [s \in Skills |-> <<>>]
  /\ revision = [o \in Owners |-> 0]
  /\ loaded = Failed
  /\ turn = NotChanging
  /\ everPublished = {} /\ alwaysPublished = {}

\* One operation on a skill and its audit event.
Write(s, new, event, version) ==
  /\ Len(audit[s]) < MaxEvents[s]
  /\ skill' = [skill EXCEPT ![s] = new]
  /\ audit' = [audit EXCEPT ![s] = Append(@, [event |-> event, version |-> version])]
  /\ everPublished' = everPublished \cup Published(skill', turn.actor)
  /\ alwaysPublished' = alwaysPublished \cap Published(skill', turn.actor)
  /\ UNCHANGED <<loaded, turn>>

\* _bump_catalog_revision
Bump(s) == revision' = [revision EXCEPT ![OwnerOf[s]] = @ + 1]

Create(s) ==
  /\ skill[s].status = "absent"
  /\ Write(s, [status |-> "draft", published |-> 0, latest |-> 1], "created", 1)
  /\ UNCHANGED revision

\* append_version by an editor who saw version seen; the pointer stays where it is.
AppendVersion(s, seen) ==
  /\ skill[s].status \notin {"absent", "archived"}
  /\ seen = skill[s].latest /\ seen < MaxVersions
  /\ Write(s, [skill[s] EXCEPT !.latest = seen + 1], "version_created", seen + 1)
  /\ UNCHANGED revision

\* publish_version; the enable handler publishes the disabled version again.
PublishVersion(s, v) ==
  /\ skill[s].status \notin {"absent", "archived"}
  /\ v \in 1..skill[s].latest
  /\ ~ (skill[s].status = "published" /\ skill[s].published = v)
  /\ (skill[s].status = "disabled" => skill[s].published = v)
  /\ skill[s].published <= v
  /\ Write(s, [skill[s] EXCEPT !.status = "published", !.published = v],
           IF skill[s].status = "disabled" THEN "enabled" ELSE "published", v)
  /\ Bump(s)

\* Mutant: a rollback puts the skill back into service.
RollbackEnabling(s, v) ==
  /\ skill[s].status \in {"published", "disabled"} /\ skill[s].published # v
  /\ \E i \in DOMAIN audit[s] : audit[s][i].version = v /\ audit[s][i].event \in Pointing
  /\ Write(s, [skill[s] EXCEPT !.status = "published", !.published = v], "rolled_back", v)
  /\ Bump(s)

\* rollback_version to a version the trail says was published; the status is preserved.
Rollback(s, v) ==
  /\ skill[s].status \in {"published", "disabled"} /\ skill[s].published # v
  /\ \E i \in DOMAIN audit[s] : audit[s][i].version = v /\ audit[s][i].event \in Pointing
  /\ Write(s, [skill[s] EXCEPT !.published = v], "rolled_back", v)
  /\ Bump(s)

\* _change_status; a skill never published is archived under its latest version.
ChangeStatus(s, target) ==
  /\ skill[s].status \notin {"absent", "archived", target}
  /\ (target = "disabled" => skill[s].status = "published")
  /\ Write(s, [skill[s] EXCEPT !.status = target], target,
           IF skill[s].published = 0 THEN skill[s].latest ELSE skill[s].published)
  /\ Bump(s)

EditSkill ==
  \E s \in Skills :
    \/ Create(s)
    \/ \E v \in Versions : AppendVersion(s, v) \/ PublishVersion(s, v) \/ Rollback(s, v)
    \/ ChangeStatus(s, "disabled") \/ ChangeStatus(s, "archived")
-----------------------------------------------------------------------------
\* A turn of user o begins, with or without a skill picked in the frontend.
Begin(o, selected) ==
  /\ turn.stage = "idle"
  /\ turn' = [stage |-> "revision", actor |-> o, selected |-> selected]
  /\ everPublished' = Published(skill, o) /\ alwaysPublished' = Published(skill, o)
  /\ UNCHANGED <<database, loaded>>

\* On to resolving the selection, with the catalogue before_agent will return.
Resolving(catalogue) ==
  turn' = [stage |-> "resolve", actor |-> turn.actor, selected |-> turn.selected,
           catalogue |-> catalogue]

\* The thread keeps its catalogue if it was loaded for this user at this revision.
ReadRevision ==
  /\ turn.stage = "revision"
  /\ IF loaded.revision = revision[turn.actor] /\ loaded.scope = turn.actor
       THEN Resolving(loaded)
       ELSE turn' = [stage |-> "names", actor |-> turn.actor, selected |-> turn.selected,
                     revision |-> revision[turn.actor]]
  /\ UNCHANGED <<database, loaded, history>>

\* SkillsMiddleware lists the directories of the virtual file tree ...
ReadNames ==
  /\ turn.stage = "names"
  /\ turn' = [stage |-> "documents", actor |-> turn.actor, selected |-> turn.selected,
              revision |-> turn.revision,
              names |-> {d[1] : d \in Published(skill, turn.actor)}]
  /\ UNCHANGED <<database, loaded, history>>

\* Mutant: the catalogue is labelled with the revision there is by then.
ReadDocumentsAsLatest ==
  /\ turn.stage = "documents"
  /\ Resolving([revision |-> revision[turn.actor], scope |-> turn.actor,
                documents |-> {d \in Published(skill, turn.actor) : d[1] \in turn.names}])
  /\ UNCHANGED <<database, loaded, history>>

\* ... and downloads the files it found; one gone by now is skipped.
ReadDocuments ==
  /\ turn.stage = "documents"
  /\ Resolving([revision |-> turn.revision, scope |-> turn.actor,
                documents |-> {d \in Published(skill, turn.actor) : d[1] \in turn.names}])
  /\ UNCHANGED <<database, loaded, history>>

\* Mutant: the catalogue that could not be loaded counts as loaded.
FailAsLoaded ==
  /\ turn.stage \in {"revision", "names", "documents"}
  /\ Resolving(IF turn.stage = "revision" THEN Failed
               ELSE [revision |-> turn.revision, scope |-> turn.actor, documents |-> {}])
  /\ UNCHANGED <<database, loaded, history>>

\* A read that fails or times out leaves the thread with the system skills alone and no
\* revision, so that the next turn tries again.
Fail ==
  /\ turn.stage \in {"revision", "names", "documents"}
  /\ Resolving(Failed)
  /\ UNCHANGED <<database, loaded, history>>

\* before_agent returns: the catalogue enters the thread's state.
Resolve ==
  /\ turn.stage = "resolve"
  /\ (turn.selected # NoSelection
        => Resolvable(turn.selected[1], turn.selected[2], turn.selected[3], turn.actor))
  /\ loaded' = turn.catalogue
  /\ turn' = [stage |-> "run", actor |-> turn.actor, selected |-> turn.selected]
  /\ UNCHANGED <<database, history>>

\* The selection is not available, now or at a later model call: the turn ends in an error
\* and what before_agent had read is lost.
Refuse ==
  /\ turn.stage \in {"resolve", "run"} /\ turn.selected # NoSelection
  /\ ~ Resolvable(turn.selected[1], turn.selected[2], turn.selected[3], turn.actor)
  /\ turn' = NotChanging
  /\ everPublished' = {} /\ alwaysPublished' = {}
  /\ UNCHANGED <<database, loaded>>

\* after_agent; or the selection could not be read in time.
End ==
  /\ turn.stage = "run" \/ (turn.stage = "resolve" /\ turn.selected # NoSelection)
  /\ turn' = NotChanging
  /\ everPublished' = {} /\ alwaysPublished' = {}
  /\ UNCHANGED <<database, loaded>>

Serve == ReadRevision \/ ReadNames \/ ReadDocuments \/ Resolve \/ Refuse \/ End

SkillNext ==
  \/ EditSkill \/ Serve \/ Fail
  \/ \E o \in Owners, selected \in Selections : Begin(o, selected)

SkillSpec == SkillInit /\ [][SkillNext]_skillVars

\* A turn that has begun is served.
SkillFairSpec == SkillSpec /\ WF_skillVars(Serve)
-----------------------------------------------------------------------------
Catalogues == [revision : 0..None, scope : Owners \cup {NoOwner}, documents : SUBSET Documents]

SkillTypeOK ==
  /\ skill \in [Skills -> [status : {"absent", "draft", "published", "disabled", "archived"},
                           published : 0..MaxVersions, latest : 0..MaxVersions]]
  /\ \A s \in Skills : audit[s] \in Seq([event : STRING, version : Versions])
  /\ revision \in [Owners -> 0..(None - 1)]
  /\ loaded \in Catalogues
  /\ turn.stage \in {"idle", "revision", "names", "documents", "resolve", "run"}
  /\ turn.actor \in Owners \cup {NoOwner} /\ turn.selected \in Selections
  /\ (turn.stage = "documents" => turn.names \subseteq Skills)
  /\ (turn.stage = "resolve" => turn.catalogue \in Catalogues)

\* What an audit event says happened to the skill.
AfterEvent(r, e) ==
  CASE e.event = "created"                   -> [r EXCEPT !.status = "draft", !.latest = 1]
    [] e.event = "version_created"           -> [r EXCEPT !.latest = e.version]
    [] e.event \in {"published", "enabled"}  -> [r EXCEPT !.status = "published", !.published = e.version]
    [] e.event = "rolled_back"               -> [r EXCEPT !.published = e.version]
    [] e.event \in {"disabled", "archived"}  -> [r EXCEPT !.status = e.event]

Replay(trail) ==
  LET r[i \in 0..Len(trail)] == IF i = 0 THEN NoSkill ELSE AfterEvent(r[i - 1], trail[i])
  IN  r[Len(trail)]

\* The events of an owner's skills other than drafts.
Audited == UNION {{s} \X DOMAIN audit[s] : s \in Skills}
Counting(o) ==
  {e \in Audited : /\ OwnerOf[e[1]] = o
                   /\ audit[e[1]][e[2]].event \notin {"created", "version_created"}}

\* The append-only trail explains everything: replayed in event_order it yields each skill's
\* status, published and latest version, and the catalogue revision counts its events other
\* than drafts.
AuditExplains ==
  /\ \A s \in Skills : skill[s] = Replay(audit[s])
  /\ \A o \in Owners : revision[o] = Cardinality(Counting(o))

\* A thread whose catalogue carries its user's present revision holds exactly the documents
\* published now: no change slips in between the revision and the documents it labels.
CatalogCurrent ==
  loaded.scope # NoOwner /\ loaded.revision = revision[loaded.scope]
    => loaded.documents = Published(skill, loaded.scope)

\* The model is offered no document that was not its user's and published at some moment
\* of this very turn, and (unless the catalogue failed to load) every document published
\* throughout it.
TurnCatalog ==
  turn.stage = "run" =>
    /\ loaded.documents \subseteq everPublished
    /\ (loaded.revision # None => alwaysPublished \subseteq loaded.documents)

\* What a turn offers: neither stale against the revision it names nor foreign to the turn.
OffersCurrent == CatalogCurrent /\ TurnCatalog

\* Once users stop editing and reads stop failing, every turn is served with the catalogue
\* its user has published, whatever went wrong in earlier turns.
HotReload ==
  <>[][~ EditSkill /\ ~ Fail]_skillVars
    => <>[](turn.stage = "run" => loaded.documents = Published(skill, turn.actor))
=============================================================================
