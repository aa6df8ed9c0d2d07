--------------------------- MODULE TalentIdentity ---------------------------
(***************************************************************************)
(* The local talents, shared by all tenants, and the external identifiers  *)
(* that tell one from another.  A search synchronizes the persons of its   *)
(* hits one after the other, each in a transaction of its own: identifiers *)
(* that lead to no talent create one, to one talent refresh it, to several *)
(* merge them into the earliest.  Then it freezes its hits, which cite     *)
(* their talents.                                                          *)
(*                                                                         *)
(* The database runs READ COMMITTED: each statement sees what is committed *)
(* when it starts, and a row changed by an uncommitted transaction makes   *)
(* the next one that changes it wait.  Talents are numbered in the order   *)
(* of their creation.                                                      *)
(***************************************************************************)
EXTENDS Naturals, FiniteSets

CONSTANTS
    Ids,            \* external identifiers: canonical persons and sources
    Searches,       \* searches that synchronize at the same time
    MaxTalents      \* bound of the model: talents that are ever created

ASSUME TalentConstants ==
    /\ IsFiniteSet(Ids)
    /\ IsFiniteSet(Searches)
    /\ MaxTalents \in Nat

Talents == 1..MaxTalents

VARIABLES
    born,           \* how many talents were ever created
    alive,          \* local_talents
    bind,           \* talent_external_ids: bind[x] is x's talent, 0: none
    cited,          \* talents cited by search_hit_snapshots
    sync            \* sync[s]: what the search s is doing

talentVars == <<born, alive, bind, cited, sync>>

NoHit == [step |-> "idle", person |-> {}, found |-> {}, moved |-> {},
          again |-> FALSE, view |-> 0, views |-> {}]

Syncs == [step : {"idle", "looked", "loaded", "redirected", "synced"},
          person : SUBSET Ids,      \* the identifiers of the hit at hand
          found : SUBSET Talents,   \* what _resolve_existing has returned
          moved : SUBSET Ids,       \* mappings its merge has redirected
          again : BOOLEAN,          \* after an IntegrityError
          view : 0..MaxTalents,     \* the talent of the hit at hand
          views : SUBSET Talents]   \* the talents of the hits before it

TalentTypeOK ==
    /\ born \in 0..MaxTalents
    /\ alive \subseteq 1..born
    /\ bind \in [Ids -> 0..born]
    /\ cited \subseteq 1..born
    /\ sync \in [Searches -> Syncs]

TalentInit ==
    /\ born = 0
    /\ alive = {}
    /\ bind = [x \in Ids |-> 0]
    /\ cited = {}
    /\ sync = [s \in Searches |-> NoHit]

-----------------------------------------------------------------------------

Mapped(t) == {x \in Ids : bind[x] = t}

\* Slip: the latest of several talents survives.
Latest(found) == CHOOSE t \in found : \A u \in found : u <= t

\* _pick_survivor.
Survivor(found) == CHOOSE t \in found : \A u \in found : t <= u

Losers(found) == found \ {Survivor(found)}

SetSync(s, step) == sync' = [sync EXCEPT ![s].step = step]

\* An exception that the search does not catch ends it.
Raise(s) == sync' = [sync EXCEPT ![s] = NoHit]

\* An IntegrityError rolls back, and the identifiers are looked up again; the
\* second one is not caught.
Conflict(s) ==
    IF sync[s].again THEN Raise(s)
    ELSE sync' = [sync EXCEPT ![s].step = "looked",
                              ![s].found = {bind[x] : x \in sync[s].person} \ {0},
                              ![s].moved = {},
                              ![s].again = TRUE]

Synced(s, talent) ==
    sync' = [sync EXCEPT ![s].step = "synced", ![s].view = talent,
                         ![s].found = {}, ![s].moved = {}]

-----------------------------------------------------------------------------
(* _upsert_from_person                                                     *)

\* The first statement of _resolve_existing reads the mappings.
LookUp(s, person) ==
    /\ sync[s].step = "idle"
    /\ sync' = [sync EXCEPT ![s].step = "looked",
                            ![s].person = person,
                            ![s].found = {bind[x] : x \in person} \ {0}]
    /\ UNCHANGED <<born, alive, bind, cited>>

\* Its second one loads the talents they lead to.
Load(s) ==
    /\ sync[s].step = "looked"
    /\ sync' = [sync EXCEPT ![s].step = "loaded", ![s].found = @ \intersect alive]
    /\ UNCHANGED <<born, alive, bind, cited>>

\* Slip: an identifier that is taken keeps its talent, and no one is told.
CreateUnchecked(s) ==
    /\ sync[s].step = "loaded"
    /\ sync[s].found = {}
    /\ born < MaxTalents
    /\ born' = born + 1
    /\ alive' = alive \union {born + 1}
    /\ bind' = [x \in Ids |-> IF x \in sync[s].person /\ bind[x] = 0
                              THEN born + 1 ELSE bind[x]]
    /\ Synced(s, born + 1)
    /\ UNCHANGED cited

\* _create: an identifier that was mapped meanwhile is an IntegrityError.
Create(s) ==
    /\ sync[s].step = "loaded"
    /\ sync[s].found = {}
    /\ ~sync[s].again
    /\ born < MaxTalents
    /\ IF \A x \in sync[s].person : bind[x] = 0
       THEN /\ born' = born + 1
            /\ alive' = alive \union {born + 1}
            /\ bind' = [x \in Ids |-> IF x \in sync[s].person
                                      THEN born + 1 ELSE bind[x]]
            /\ Synced(s, born + 1)
       ELSE Conflict(s) /\ UNCHANGED <<born, alive, bind>>
    /\ UNCHANGED cited

\* _refresh: the UPDATE of a talent that is gone is a StaleDataError, and a
\* missing identifier that belongs to another talent an IntegrityError.
Refresh(s) ==
    \E t \in Talents :
       /\ sync[s].step = "loaded"
       /\ sync[s].found = {t}
       /\ ~sync[s].again
       /\ IF t \notin alive THEN Raise(s) /\ UNCHANGED bind
          ELSE IF \E x \in sync[s].person : bind[x] \notin {0, t}
          THEN Conflict(s) /\ UNCHANGED bind
          ELSE /\ bind' = [x \in Ids |-> IF x \in sync[s].person THEN t ELSE bind[x]]
               /\ Synced(s, t)
       /\ UNCHANGED <<born, alive, cited>>

\* After an IntegrityError: nothing is created, and one talent is the answer as
\* it is, with no refresh and no mapping added.
SettleForExisting(s) ==
    /\ sync[s].step = "loaded"
    /\ sync[s].again
    /\ \/ sync[s].found = {} /\ Raise(s)
       \/ \E t \in Talents : sync[s].found = {t} /\ Synced(s, t)
    /\ UNCHANGED <<born, alive, bind, cited>>

-----------------------------------------------------------------------------
(* _merge                                                                  *)

\* Mappings that an uncommitted merge of another search has changed.
LockedIds(s) == UNION {sync[o].moved : o \in Searches \ {s}}

\* Talents to which an uncommitted merge of another search has moved mappings:
\* their foreign keys hold a share of the rows.
LockedTalents(s) ==
    {Survivor(sync[o].found) :
        o \in {o \in Searches \ {s} : sync[o].step = "redirected" /\ sync[o].moved # {}}}

\* The UPDATEs of the losers' mappings.  A survivor that is gone breaks their
\* foreign key.
Redirect(s) ==
    LET found == sync[s].found
        moved == UNION {Mapped(t) : t \in Losers(found)}
    IN
    /\ sync[s].step = "loaded"
    /\ Cardinality(found) > 1
    /\ moved \intersect LockedIds(s) = {}
    /\ IF moved # {} /\ Survivor(found) \notin alive
       THEN Conflict(s)
       ELSE sync' = [sync EXCEPT ![s].step = "redirected", ![s].moved = moved]
    /\ UNCHANGED <<born, alive, bind, cited>>

\* What the merge leaves of the mappings: those it has moved, and those of the
\* person that are free once the losers are deleted, are the survivor's; the
\* losers' others go with their talent (ON DELETE CASCADE).
MergedBinding(s) ==
    LET found == sync[s].found IN
    [x \in Ids |-> IF x \in sync[s].moved \union sync[s].person
                   THEN Survivor(found)
                   ELSE IF bind[x] \in Losers(found) THEN 0
                   ELSE bind[x]]

\* Slip: the losers stay, without their identifiers.
KeepLosers(s) ==
    LET found == sync[s].found IN
    /\ sync[s].step = "redirected"
    /\ bind' = MergedBinding(s)
    /\ Synced(s, Survivor(found))
    /\ UNCHANGED <<born, alive, cited>>

\* Slip: what cites a loser goes with it.
MergeCited(s) ==
    LET found == sync[s].found IN
    /\ sync[s].step = "redirected"
    /\ alive' = alive \ Losers(found)
    /\ bind' = MergedBinding(s)
    /\ Synced(s, Survivor(found))
    /\ UNCHANGED <<born, cited>>

\* The flush and the commit: the survivor is updated, the losers are deleted,
\* the identifiers of the person that are missing are added.  A survivor that
\* is gone is a StaleDataError; a loser that a snapshot cites, or an identifier
\* that belongs to yet another talent, is an IntegrityError.
CommitMerge(s) ==
    LET found == sync[s].found
        survivor == Survivor(found)
        losers == Losers(found)
        left == (UNION {Mapped(t) : t \in losers}) \ sync[s].moved
    IN
    /\ sync[s].step = "redirected"
    /\ losers \intersect LockedTalents(s) = {}
    /\ left \intersect LockedIds(s) = {}
    /\ IF survivor \notin alive
       THEN Raise(s) /\ UNCHANGED <<alive, bind>>
       ELSE IF \/ losers \intersect alive \intersect cited # {}
               \/ \E x \in sync[s].person \ sync[s].moved :
                     bind[x] \notin {0} \union found
       THEN Conflict(s) /\ UNCHANGED <<alive, bind>>
       ELSE /\ alive' = alive \ losers
            /\ bind' = MergedBinding(s)
            /\ Synced(s, survivor)
    /\ UNCHANGED <<born, cited>>

-----------------------------------------------------------------------------
(* The search                                                              *)

\* _sync_local_talents goes on to the next hit.
NextHit(s) ==
    /\ sync[s].step = "synced"
    /\ sync' = [sync EXCEPT ![s] = [NoHit EXCEPT !.views = sync[s].views \union {sync[s].view}]]
    /\ UNCHANGED <<born, alive, bind, cited>>

\* _finalize_success: the snapshots cite the talents of the hits, all of which
\* must still exist.
FreezeHits(s) ==
    /\ sync[s].step = "idle"
    /\ sync[s].views # {}
    /\ cited' = IF sync[s].views \subseteq alive
                THEN cited \union sync[s].views ELSE cited
    /\ sync' = [sync EXCEPT ![s] = NoHit]
    /\ UNCHANGED <<born, alive, bind>>

\* The transaction is chosen to break a deadlock, the connection is lost, the
\* process dies.
Abort(s) ==
    /\ sync[s].step # "idle" \/ sync[s].views # {}
    /\ Raise(s)
    /\ UNCHANGED <<born, alive, bind, cited>>

SyncStep(s) ==
    \/ \E person \in (SUBSET Ids) \ {{}} : LookUp(s, person)
    \/ Load(s)
    \/ Create(s)
    \/ Refresh(s)
    \/ SettleForExisting(s)
    \/ Redirect(s)
    \/ CommitMerge(s)
    \/ NextHit(s)
    \/ FreezeHits(s)

TalentNext == \E s \in Searches : SyncStep(s) \/ Abort(s)

TalentSpec == TalentInit /\ [][TalentNext]_talentVars

\* Nothing fails from outside.
UndisturbedSpec ==
    TalentInit /\ [][\E s \in Searches : SyncStep(s)]_talentVars

-----------------------------------------------------------------------------
(* Invariants                                                              *)

\* An identifier leads to a talent that exists.
MappingsLead == \A x \in Ids : bind[x] # 0 => bind[x] \in alive

\* The talents a search has frozen hits of stay: the hits can be opened
\* (search_hit_snapshots, get_talent).
CitedTalentsStay == cited \subseteq alive

\* What a search knows of the hit at hand: talents of the table, now or before,
\* which as long as they exist one of the hit's identifiers leads to; and what
\* its merge has redirected belonged to a loser, and does so still.
HitInOrder(s) ==
    LET hit == sync[s]
        Led(t) == \E x \in hit.person : bind[x] = t
    IN
    /\ hit.found \union hit.views \subseteq 1..born
    /\ hit.step # "idle" => hit.person # {}
    /\ hit.step = "redirected" => hit.found # {}
    /\ hit.step # "redirected" => hit.moved = {}
    /\ \A t \in hit.found \intersect alive : Led(t)
    /\ hit.step = "synced" => hit.view \in 1..born
    /\ hit.step = "synced" /\ hit.view \in alive => Led(hit.view)
    /\ \A x \in hit.moved : bind[x] \in Losers(hit.found)

\* No two merges have redirected the same mapping.
MovedApart ==
    \A s, o \in Searches : s # o => sync[s].moved \intersect sync[o].moved = {}

-----------------------------------------------------------------------------
(* Properties                                                              *)

\* A talent that exists can be found: it has an identifier, although merges
\* that overlap move and delete each other's (_merge, _create).
NoOrphanTalent == \A t \in alive : Mapped(t) # {}

\* The inductive invariant.
TalentInv ==
    /\ TalentTypeOK
    /\ MappingsLead
    /\ CitedTalentsStay
    /\ NoOrphanTalent
    /\ MovedApart
    /\ \A s \in Searches : HitInOrder(s)

\* The talent a search was given for a hit is the hit's: as long as it exists,
\* one of the hit's identifiers leads to it (_upsert_from_person).
AnsweredByOwnTalent ==
    \A s \in Searches :
        sync[s].step = "synced" /\ sync[s].view \in alive =>
            \E x \in sync[s].person : bind[x] = sync[s].view

\* Identities only move to an earlier talent (_pick_survivor), so references
\* to the first local talent of a person are good for ever.
IdentityMovesToElder ==
    [][\A x \in Ids : bind[x] # 0 /\ bind'[x] # 0 => bind'[x] <= bind[x]]_talentVars

\* No identifier is ever forgotten (ADR 0026: a merge unites all of them).
MappingsKept ==
    [][\A x \in Ids : bind[x] # 0 => bind'[x] # 0]_talentVars

\* No other search is about to write identifiers while one merges.
MergesAlone ==
    \A s, o \in Searches :
        sync[s].step = "redirected" /\ sync[o].step \in {"loaded", "redirected"}
            => s = o

\* A merge has redirected whatever the losers have.
MergesWhole ==
    \A s \in Searches :
        sync[s].step = "redirected" =>
            \A x \in Ids : bind[x] \in Losers(sync[s].found) => x \in sync[s].moved

\* Searches that find a person's identifiers on several talents make them one
\* (ADR 0026: a merge redirects all references and unites all identifiers).
MergeNotRefused ==
    [][\A s \in Searches :
          sync[s].step = "redirected" /\ sync'[s].step # "redirected" =>
             sync'[s].step = "synced"]_talentVars
=============================================================================
