------------------------- MODULE RequirementDrafts -------------------------
(***************************************************************************)
(* The documents of one job's requirement: drafts that members edit, and   *)
(* the immutable versions they are confirmed into.  Members write what     *)
(* they have read some time ago; every write names the revision it has     *)
(* read.  Each operation locks the job's row first and is one transaction, *)
(* so that operations are atomic and only reads and writes interleave; a   *)
(* refused one leaves nothing but an audit event.                          *)
(*                                                                         *)
(* A document is where its items are.  Items are told apart by item_id,    *)
(* which is never used for another item.  The life of a parsing task is    *)
(* the matter of RequirementTask; here it is open or not.                  *)
(***************************************************************************)
EXTENDS Naturals, Sequences, FiniteSets

CONSTANTS
    Members,
    Items,
    MaxDrafts,      \* bound of the model: drafts the job ever has
    MaxRevision     \* bound of the model: revisions of one draft

ASSUME DraftConstants ==
    /\ IsFiniteSet(Items)
    /\ MaxDrafts \in Nat \ {0}
    /\ MaxRevision \in Nat \ {0}

VARIABLES
    archived,       \* the job's status
    drafts,         \* job_requirement_drafts, in the order of their creation
    versions,       \* job_requirement_versions, by version_number
    current,        \* current_requirement_version_id, 0: none
    task,           \* the job's nonterminal parsing task
    view            \* view[m]: what the member has on the screen

draftVars == <<archived, drafts, versions, current, task, view>>

\* "odd": a condition on chinese_identity whose value is not in the catalog,
\* which only the first schema admits; "conflict" and "noted": a conflict of
\* sources without and with a resolution.
Places == {"none", "condition", "odd", "unsupported", "removed", "conflict", "noted"}

Documents == [Items -> Places]

DraftStatuses == {"editable", "replaced", "confirmed", "abandoned"}

\* The rows of a draft and of its schema upgrade.  "known" are the items it has
\* ever had, "pending" and "resolved" the lossy_resolutions.
Drafts == [status : DraftStatuses, revision : Nat, schema : {1, 2}, source : Nat,
           doc : Documents, known : SUBSET Items,
           pending : SUBSET Items, resolved : SUBSET Items]

Versions == [draft : Nat, source : Nat, doc : Documents]

\* No draft has number 0.
NoTask == [open |-> FALSE, replaces |-> 0, revision |-> 0]

EmptyDocument == [i \in Items |-> "none"]

NoView == [draft |-> 0, revision |-> 0, doc |-> EmptyDocument, pending |-> {}]

DraftsTypeOK ==
    /\ archived \in BOOLEAN
    /\ drafts \in Seq(Drafts)
    /\ versions \in Seq(Versions)
    /\ current \in 0..Len(versions)
    /\ task \in [open : BOOLEAN, replaces : Nat, revision : Nat]
    /\ view \in [Members -> [draft : Nat, revision : Nat, doc : Documents,
                             pending : SUBSET Items]]

\* A new row of job_requirement_drafts.
NewDraft(schema, source, doc) ==
    [status |-> "editable", revision |-> 1, schema |-> schema, source |-> source,
     doc |-> doc, known |-> {i \in Items : doc[i] # "none"},
     pending |-> {}, resolved |-> {}]

\* A job may have a draft of the first schema from an earlier deployment.
DraftsInit ==
    /\ archived = FALSE
    /\ drafts \in {<<>>} \union
          {<<NewDraft(1, 0, doc)>> : doc \in [Items -> {"none", "condition", "odd"}]}
    /\ versions = <<>>
    /\ current = 0
    /\ task = NoTask
    /\ view = [m \in Members |-> NoView]

-----------------------------------------------------------------------------

Editable == {d \in DOMAIN drafts : drafts[d].status = "editable"}

Fresh == {i \in Items : \A d \in DOMAIN drafts : i \notin drafts[d].known}

\* read_only_reason: the job is archived, the draft is settled, or a task is to
\* replace it.
Mutable(d) ==
    /\ ~archived
    /\ d \in Editable
    /\ task.replaces # d

\* _assert_mutable and _assert_confirmable: the member has read the draft's
\* latest revision.
MayWrite(m) ==
    /\ view[m].draft # 0
    /\ Mutable(view[m].draft)
    /\ drafts[view[m].draft].revision = view[m].revision
    /\ view[m].revision < MaxRevision

\* The draft that m has read becomes d, at the next revision.
Write(m, d) ==
    /\ drafts' = [drafts EXCEPT ![view[m].draft] = [d EXCEPT !.revision = @ + 1]]
    /\ view' = [view EXCEPT ![m] = NoView]

\* load_workspace.
Read(m) ==
    \E d \in Editable :
        /\ view' = [view EXCEPT ![m] = [draft |-> d,
                                        revision |-> drafts[d].revision,
                                        doc |-> drafts[d].doc,
                                        pending |-> drafts[d].pending]]
        /\ UNCHANGED <<archived, drafts, versions, current, task>>

-----------------------------------------------------------------------------
(* Parsing                                                                 *)

\* create_parsing_task replaces the editable draft, if there is one, as it is
\* at this moment.
CreateTask ==
    /\ ~archived
    /\ ~task.open
    /\ task' \in IF Editable = {}
                 THEN {[NoTask EXCEPT !.open = TRUE]}
                 ELSE {[open |-> TRUE, replaces |-> d, revision |-> drafts[d].revision]
                          : d \in Editable}
    /\ UNCHANGED <<archived, drafts, versions, current, view>>

\* Slip: only a task that is to replace a draft looks at the drafts.
ReplaceableUnlessNone ==
    task.replaces # 0 =>
        /\ task.replaces \in Editable
        /\ drafts[task.replaces].revision = task.revision

\* The draft the task was to replace is as it was when the task was created, or
\* there was none and there is none.
Replaceable ==
    IF task.replaces = 0
    THEN Editable = {}
    ELSE /\ task.replaces \in Editable
         /\ drafts[task.replaces].revision = task.revision

\* validate_requirement_result, of an answer in the current schema: no item is
\* odd, and every item gets an id of its own.
ParsedDocuments ==
    {doc \in [Items -> {"none", "condition", "unsupported", "conflict"}] :
        {i \in Items : doc[i] # "none"} \subseteq Fresh}

\* complete_task, for a job that is not archived.
CompleteTask ==
    /\ task.open
    /\ ~archived
    /\ Replaceable
    /\ Len(drafts) < MaxDrafts
    /\ \E doc \in ParsedDocuments :
          LET settled == [d \in DOMAIN drafts |->
                 IF d = task.replaces
                 THEN [drafts[d] EXCEPT !.status = "replaced", !.revision = @ + 1]
                 ELSE drafts[d]]
          IN drafts' = Append(settled, NewDraft(2, 0, doc))
    /\ task' = NoTask
    /\ UNCHANGED <<archived, versions, current, view>>

\* The task fails, also for lack of anything to replace, or is cancelled.
EndTask ==
    /\ task.open
    /\ task' = NoTask
    /\ UNCHANGED <<archived, drafts, versions, current, view>>

-----------------------------------------------------------------------------
(* Editing                                                                 *)

\* merge_editable_requirement_document: items that are not submitted are removed
\* facts from then on, items of the member's own have new ids, no item moves
\* between conditions and unsupported ones, and every conflict stays.
Merged(doc) ==
    {new \in Documents : \A i \in Items :
        \/ doc[i] = "none" /\ new[i] = "none"
        \/ doc[i] = "none" /\ i \in Fresh /\ new[i] \in {"condition", "unsupported"}
        \/ doc[i] = "removed" /\ new[i] = "removed"
        \/ doc[i] \in {"condition", "unsupported"} /\ new[i] \in {doc[i], "removed"}
        \/ doc[i] \in {"conflict", "noted"} /\ new[i] \in {"conflict", "noted"}}

\* The first schema has no editor schema: its drafts are neither edited nor
\* confirmed (manifest.read_requirement_editor_schema raises).
HasEditor(d) == drafts[d].schema = 2

\* update_requirement_draft.
EditDraft(m) ==
    LET d == view[m].draft IN
    /\ MayWrite(m)
    /\ HasEditor(d)
    /\ \E doc \in Merged(drafts[d].doc) :
          Write(m, [drafts[d] EXCEPT !.doc = doc,
                                     !.known = @ \union {i \in Items : doc[i] # "none"}])
    /\ UNCHANGED <<archived, versions, current, task>>

\* abandon_requirement_draft.
AbandonDraft(m) ==
    /\ MayWrite(m)
    /\ Write(m, [drafts[view[m].draft] EXCEPT !.status = "abandoned"])
    /\ UNCHANGED <<archived, versions, current, task>>

-----------------------------------------------------------------------------
(* Schema upgrades                                                         *)

\* What the second schema does not admit (_converts_losslessly) ...
Lossy(doc) == {i \in Items : doc[i] = "odd"}

\* ... is left out by convert_document; the rest is copied.
Converted(doc) == [i \in Items |-> IF i \in Lossy(doc) THEN "none" ELSE doc[i]]

\* Slip: what cannot be converted is left out.
UpgradeSchemaLossily(m) ==
    LET d == drafts[view[m].draft] IN
    /\ MayWrite(m)
    /\ d.schema = 1
    /\ Write(m, [d EXCEPT !.schema = 2,
                          !.doc = Converted(@)])
    /\ UNCHANGED <<archived, versions, current, task>>

\* upgrade_draft_schema: what is left out is pending from then on.
UpgradeSchema(m) ==
    LET d == drafts[view[m].draft] IN
    /\ MayWrite(m)
    /\ d.schema = 1
    /\ Write(m, [d EXCEPT !.schema = 2,
                          !.doc = Converted(@),
                          !.pending = Lossy(d.doc)])
    /\ UNCHANGED <<archived, versions, current, task>>

\* Slip: a resolution leaves the revision as it is.
ResolveInPlace(m) ==
    LET d == drafts[view[m].draft] IN
    /\ MayWrite(m)
    /\ \E dropped \in (SUBSET d.pending) \ {{}} :
          drafts' = [drafts EXCEPT ![view[m].draft] = [d EXCEPT
              !.doc = [i \in Items |-> IF i \in dropped THEN "removed" ELSE @[i]],
              !.pending = @ \ dropped,
              !.resolved = @ \union dropped]]
    /\ view' = [view EXCEPT ![m] = NoView]
    /\ UNCHANGED <<archived, versions, current, task>>

\* resolve_schema_upgrade_lossy_items: a pending item becomes a removed fact, or
\* an unsupported condition with an id of its own.
ResolveLossyItems(m) ==
    LET d == drafts[view[m].draft] IN
    /\ MayWrite(m)
    /\ \E dropped, downgraded \in SUBSET d.pending, added \in SUBSET Fresh :
          /\ dropped \union downgraded # {}
          /\ dropped \intersect downgraded = {}
          /\ Cardinality(added) = Cardinality(downgraded)
          /\ Write(m, [d EXCEPT
                !.doc = [i \in Items |-> IF i \in dropped THEN "removed"
                                         ELSE IF i \in added THEN "unsupported"
                                         ELSE @[i]],
                !.known = @ \union added,
                !.pending = @ \ (dropped \union downgraded),
                !.resolved = @ \union dropped \union downgraded])
    /\ UNCHANGED <<archived, versions, current, task>>

-----------------------------------------------------------------------------
(* Versions                                                                *)

Conflicts(d) == {i \in Items : drafts[d].doc[i] = "conflict"}

\* confirmability_errors and pending_schema_upgrade_items.
Undecided(d) == Conflicts(d) \union drafts[d].pending

\* _assert_confirmable, and what confirm_draft asks of the document.
Confirmable(m) ==
    /\ MayWrite(m)
    /\ HasEditor(view[m].draft)
    /\ Undecided(view[m].draft) = {}

\* _next_version_number: one more than the greatest number of the job.
NextVersionNumber == Len(versions) + 1

\* confirm_draft.
ConfirmDraft(m) ==
    LET d == view[m].draft IN
    /\ Confirmable(m)
    /\ Write(m, [drafts[d] EXCEPT !.status = "confirmed"])
    /\ versions' = Append(versions, [draft |-> d, source |-> drafts[d].source,
                                     doc |-> drafts[d].doc])
    /\ current' = NextVersionNumber
    /\ UNCHANGED <<archived, task>>

\* copy_current_version; an open task does not matter.
CopyVersion ==
    /\ ~archived
    /\ current # 0
    /\ Editable = {}
    /\ Len(drafts) < MaxDrafts
    /\ drafts' = Append(drafts, NewDraft(2, current, versions[current].doc))
    /\ UNCHANGED <<archived, versions, current, task, view>>

\* archive_job; what is open is cancelled by and by.
ArchiveJob ==
    /\ ~archived
    /\ archived' = TRUE
    /\ UNCHANGED <<drafts, versions, current, task, view>>

\* The requests that name a draft and its expected revision.
DraftRequest(m) == EditDraft(m) \/ AbandonDraft(m) \/ ConfirmDraft(m)

UpgradeRequest(m) == UpgradeSchema(m) \/ ResolveLossyItems(m)

DraftsNext ==
    \/ \E m \in Members : Read(m) \/ DraftRequest(m) \/ UpgradeRequest(m)
    \/ CreateTask
    \/ CompleteTask
    \/ EndTask
    \/ CopyVersion
    \/ ArchiveJob

DraftsSpec == DraftsInit /\ [][DraftsNext]_draftVars

-----------------------------------------------------------------------------
(* Invariants                                                              *)

\* uq_requirement_drafts_one_editable.
OneEditable == \A d, e \in Editable : d = e

\* What is not in a draft any more has been left out by an upgrade, and its
\* record knows; the second schema has nothing odd, the first nothing pending.
ItemsKept ==
    \A d \in DOMAIN drafts :
        /\ \A i \in drafts[d].known :
              drafts[d].doc[i] = "none" => i \in drafts[d].pending \union drafts[d].resolved
        /\ drafts[d].schema = 2 => \A i \in Items : drafts[d].doc[i] # "odd"
        /\ drafts[d].schema = 1 => drafts[d].pending = {}

\* A copy that can still be confirmed is one of the current version.
CopiesOfCurrent == \A d \in Editable : drafts[d].source \in {0, current}

\* A version is what its draft was, and the draft is settled.
VersionsOfDrafts ==
    \A n \in DOMAIN versions :
        /\ versions[n].draft \in DOMAIN drafts
        /\ drafts[versions[n].draft].status = "confirmed"
        /\ \A i \in Items : versions[n].doc[i] \notin {"odd", "conflict"}

\* What a member has on the screen is a revision the draft has had: the latest
\* one, or it has an older number.
ViewsOfRevisions ==
    \A m \in Members :
        LET d == view[m].draft IN
        d # 0 =>
            /\ d \in DOMAIN drafts
            /\ view[m].revision <= drafts[d].revision
            /\ view[m].revision = drafts[d].revision =>
                  view[m].doc = drafts[d].doc /\ view[m].pending = drafts[d].pending

-----------------------------------------------------------------------------
(* Properties                                                              *)

\* A member who edits, upgrades, resolves, abandons or confirms decides about
\* the document on the screen: whatever anyone did to the draft in between
\* (_assert_mutable, _assert_confirmable) makes the write fail.
WritesWhatWasRead ==
    [][\A m \in Members, d \in DOMAIN drafts :
          /\ view[m].draft = d
          /\ view'[m] = NoView
          => /\ view[m].doc = drafts[d].doc
             /\ view[m].pending = drafts[d].pending
             /\ drafts[d].status = "editable"]_draftVars

\* No item that a draft has had is missing from the version it became, unless a
\* member has decided so: it is there, among the removed facts, or resolved in
\* the record of the upgrade, and so is every conflict (merge_editable_requirement_document,
\* upgrade_draft_schema, resolve_schema_upgrade_lossy_items, confirm_draft).
EveryItemDecided ==
    \A n \in DOMAIN versions :
        LET d == drafts[versions[n].draft] IN
        \A i \in d.known :
            /\ versions[n].doc[i] = "none" => i \in d.resolved
            /\ versions[n].doc[i] \notin {"odd", "conflict"}

\* No confirmation passes over another one: the current version is the newest,
\* and a version that began as a copy follows the one it was copied from, so
\* that it contains what that one said (copy_current_version, complete_task,
\* uq_requirement_drafts_one_editable).
VersionsBuildOnLatest ==
    /\ current = Len(versions)
    /\ \A n \in DOMAIN versions :
          versions[n].source # 0 => versions[n].source = n - 1

\* The inductive invariant.
DraftsInv ==
    /\ DraftsTypeOK
    /\ OneEditable
    /\ ItemsKept
    /\ CopiesOfCurrent
    /\ VersionsOfDrafts
    /\ ViewsOfRevisions
    /\ EveryItemDecided
    /\ VersionsBuildOnLatest
=============================================================================
