------------------------ MODULE TalentIdentityProofs ------------------------
(***************************************************************************)
(* Proofs about TalentIdentity, for any identifiers, any number of         *)
(* searches that overlap, and any bound on the talents.  Every step leaves *)
(* an identifier with its talent as long as that talent is there; all of   *)
(* the invariant follows from this and from the rows that are locked.      *)
(***************************************************************************)
EXTENDS TalentIdentity, WellFoundedInduction, FiniteSetTheorems, TLAPS

\* A well-founded relation has a minimum in every set of its domain.
LEMMA MinimumExists ==
    ASSUME NEW less, NEW S, IsWellFoundedOn(less, S), NEW T, T \subseteq S, T # {}
    PROVE  \E x \in T : \A y \in T : ~(<<y, x>> \in less)
BY WFMin, Zenon

\* A set of talents that is not empty has an earliest one.
LEMMA SurvivorIsEarliest ==
    ASSUME NEW found, found \subseteq Nat, found # {}
    PROVE  /\ Survivor(found) \in found
           /\ \A u \in found : Survivor(found) <= u
<1>1. \E less : /\ IsWellFoundedOn(less, Nat)
                /\ \A u, t \in Nat : u < t => <<u, t>> \in less
  <2>1. \A u, t \in Nat : u < t => <<u, t>> \in OpToRel(<, Nat)
    BY DEF OpToRel
  <2> QED
    BY <2>1, NatLessThanWellFounded
<1>2. PICK less : /\ IsWellFoundedOn(less, Nat)
                  /\ \A u, t \in Nat : u < t => <<u, t>> \in less
  BY <1>1
<1>3. PICK t \in found : \A u \in found : ~(<<u, t>> \in less)
  <2>1. IsWellFoundedOn(less, Nat) /\ found \subseteq Nat /\ found # {}
    BY <1>2
  <2>2. \E t \in found : \A u \in found : ~(<<u, t>> \in less)
    BY <2>1, MinimumExists
  <2> QED
    BY <2>2
<1>4. \A u \in found : t <= u
  <2> SUFFICES ASSUME NEW u \in found
               PROVE  t <= u
    OBVIOUS
  <2>1. u \in Nat /\ t \in Nat
    OBVIOUS
  <2>2. ~(u < t)
    BY <1>2, <1>3, <2>1, Zenon
  <2> QED
    BY <2>1, <2>2
<1> QED
  BY <1>4 DEF Survivor

-----------------------------------------------------------------------------
(* What every step keeps                                                   *)

LEMMA TalentInitInv ==
    ASSUME TalentConstants, TalentInit
    PROVE  TalentInv
<1>1. TalentTypeOK
  BY DEF TalentConstants, TalentInit, TalentTypeOK, NoHit, Syncs, Talents
<1>2. \A s \in Searches : HitInOrder(s)
  BY DEF TalentInit, NoHit, HitInOrder
<1> QED
  BY <1>1, <1>2 DEF TalentInit, TalentInv, MappingsLead, CitedTalentsStay,
                    NoOrphanTalent, MovedApart, NoHit

\* No step moves an identifier away from a talent that stays, or brings a
\* talent back.
IdentityKept ==
    /\ born' \in Nat /\ born <= born'
    /\ alive' \intersect (1..born) \subseteq alive
    /\ \A x \in Ids : bind[x] # 0 /\ bind[x] \in alive' => bind'[x] = bind[x]

\* What the other searches know stays true, when what their merges have
\* redirected is left alone.
LEMMA OthersInOrder ==
    ASSUME TalentConstants, TalentInv, IdentityKept, NEW o \in Searches,
           sync'[o] = sync[o], \A x \in sync[o].moved : bind'[x] = bind[x]
    PROVE  HitInOrder(o)'
<1>1. /\ born \in Nat
      /\ sync[o] \in Syncs
  BY DEF TalentInv, TalentTypeOK, TalentConstants
<1>2. sync[o].person \subseteq Ids
  BY <1>1 DEF Syncs
<1>3. HitInOrder(o)
  BY DEF TalentInv
<1>4. 0 \notin 1..born /\ 1..born \subseteq 1..born'
  BY <1>1 DEF IdentityKept
<1>5. ASSUME NEW t \in 1..born, t \in alive',
             t \in alive => \E x \in sync[o].person : bind[x] = t
      PROVE  \E x \in sync[o].person : bind'[x] = t
  BY <1>2, <1>4, <1>5 DEF IdentityKept
<1>6. \A t \in sync[o].found \intersect alive' : \E x \in sync[o].person : bind'[x] = t
  BY <1>3, <1>5 DEF HitInOrder
<1>7. sync[o].step = "synced" /\ sync[o].view \in alive' =>
         \E x \in sync[o].person : bind'[x] = sync[o].view
  BY <1>3, <1>5 DEF HitInOrder
<1> QED
  BY <1>3, <1>4, <1>6, <1>7 DEF HitInOrder

\* A step that changes no row changes only what its search knows.
LEMMA RowsKept ==
    ASSUME TalentConstants, TalentInv, UNCHANGED <<born, alive, bind>>,
           NEW s \in Searches, NEW hit \in Syncs, sync' = [sync EXCEPT ![s] = hit],
           cited' \subseteq alive,
           hit.moved = {} \/ \A o \in Searches \ {s} : hit.moved \intersect sync[o].moved = {},
           HitInOrder(s)'
    PROVE  TalentInv'
<1>1. /\ sync \in [Searches -> Syncs]
      /\ born \in 0..MaxTalents
      /\ alive \subseteq 1..born
      /\ bind \in [Ids -> 0..born]
  BY DEF TalentInv, TalentTypeOK
<1>2. sync' \in [Searches -> Syncs] /\ sync'[s] = hit
      /\ \A o \in Searches \ {s} : sync'[o] = sync[o]
  BY <1>1
<1>3. TalentTypeOK'
  BY <1>1, <1>2 DEF TalentTypeOK
<1>4. MappingsLead' /\ CitedTalentsStay' /\ NoOrphanTalent'
  BY DEF TalentInv, MappingsLead, CitedTalentsStay, NoOrphanTalent, Mapped
<1>5. MovedApart'
  BY <1>2 DEF TalentInv, MovedApart
<1>6. IdentityKept
  BY <1>1 DEF IdentityKept, TalentConstants
<1>7. \A o \in Searches : HitInOrder(o)'
  <2> TAKE o \in Searches
  <2>1. CASE o = s
    BY <2>1
  <2>2. CASE o # s
    BY <1>2, <1>6, <2>2, OthersInOrder
  <2> QED
    BY <2>1, <2>2
<1> QED
  BY <1>3, <1>4, <1>5, <1>7 DEF TalentInv

LEMMA HitTypes ==
    ASSUME TalentConstants, TalentInv, NEW s \in Searches
    PROVE  /\ sync[s] \in Syncs
           /\ sync \in [Searches -> Syncs]
           /\ born \in 0..MaxTalents
           /\ alive \subseteq 1..born /\ cited \subseteq alive
           /\ bind \in [Ids -> 0..born]
           /\ \A x \in Ids : bind[x] # 0 => bind[x] \in alive
           /\ sync[s].found \subseteq Nat
BY DEF TalentConstants, TalentInv, TalentTypeOK, CitedTalentsStay, MappingsLead,
       Syncs, Talents

\* A search that has failed knows nothing any more.
LEMMA RaiseInv ==
    ASSUME TalentConstants, TalentInv, NEW s \in Searches, Raise(s),
           UNCHANGED <<born, alive, bind>>, cited' \subseteq alive
    PROVE  TalentInv'
<1>1. NoHit \in Syncs /\ NoHit.moved = {}
  BY DEF NoHit, Syncs, TalentConstants
<1>2. sync' = [sync EXCEPT ![s] = NoHit]
  BY DEF Raise
<1>3. sync'[s] = NoHit
  BY <1>2, HitTypes
<1>4. HitInOrder(s)'
  BY <1>3 DEF HitInOrder, NoHit
<1> QED
  BY <1>1, <1>2, <1>4, RowsKept

\* What is looked up leads to the talents that are found.
LEMMA FoundByLookUp ==
    ASSUME TalentConstants, TalentInv, NEW person, person \subseteq Ids
    PROVE  LET found == {bind[x] : x \in person} \ {0} IN
           /\ found \subseteq Talents /\ found \subseteq 1..born
           /\ \A t \in found : \E x \in person : bind[x] = t
<1>1. bind \in [Ids -> 0..born] /\ born \in 0..MaxTalents
  BY DEF TalentInv, TalentTypeOK
<1>2. \A x \in person : bind[x] # 0 => bind[x] \in 1..born /\ bind[x] \in Talents
  BY <1>1 DEF Talents, TalentConstants
<1> QED
  BY <1>2

\* A search that meets a conflict for the first time looks again.
LEMMA ConflictInv ==
    ASSUME TalentConstants, TalentInv, NEW s \in Searches, Conflict(s),
           sync[s].step # "idle", UNCHANGED <<born, alive, bind, cited>>
    PROVE  TalentInv'
<1>1. cited' \subseteq alive
  BY DEF TalentInv, CitedTalentsStay
<1>2. CASE Raise(s)
  BY <1>1, <1>2, RaiseInv
<1>3. CASE ~sync[s].again
  <2> DEFINE found == {bind[x] : x \in sync[s].person} \ {0}
             hit == [sync[s] EXCEPT !.step = "looked", !.found = found,
                                    !.moved = {}, !.again = TRUE]
  <2>1. /\ sync[s] \in Syncs
        /\ sync \in [Searches -> Syncs]
    BY HitTypes
  <2>2. sync' = [sync EXCEPT ![s] = hit]
    BY <1>3, <2>1 DEF Conflict
  <2>3. sync[s].person \subseteq Ids
    BY <2>1 DEF Syncs
  <2>4. /\ found \subseteq Talents /\ found \subseteq 1..born
        /\ \A t \in found : \E x \in sync[s].person : bind[x] = t
    BY <2>3, FoundByLookUp
  <2> HIDE DEF found
  <2>5. hit \in Syncs
    BY <2>1, <2>4 DEF Syncs
  <2>6. /\ hit.step = "looked" /\ hit.found = found /\ hit.moved = {}
        /\ hit.person = sync[s].person /\ hit.views = sync[s].views
    BY <2>1 DEF Syncs
  <2> HIDE DEF hit
  <2>7. sync'[s] = hit
    BY <2>1, <2>2
  <2>8. HitInOrder(s)
    BY DEF TalentInv
  <2>9. HitInOrder(s)'
    BY <2>4, <2>6, <2>7, <2>8 DEF HitInOrder
  <2> QED
    BY <1>1, <2>2, <2>5, <2>6, <2>9, RowsKept
<1> QED
  BY <1>2, <1>3 DEF Conflict

-----------------------------------------------------------------------------
(* The steps that change no row                                            *)

LEMMA LookUpInv ==
    ASSUME TalentConstants, TalentInv, NEW s \in Searches,
           NEW person \in (SUBSET Ids) \ {{}}, LookUp(s, person)
    PROVE  TalentInv'
<1> DEFINE found == {bind[x] : x \in person} \ {0}
           hit == [sync[s] EXCEPT !.step = "looked", !.person = person, !.found = found]
<1>1. /\ sync[s] \in Syncs
      /\ sync \in [Searches -> Syncs]
      /\ cited \subseteq alive
  BY HitTypes
<1>2. /\ sync[s].step = "idle"
      /\ sync' = [sync EXCEPT ![s] = hit]
      /\ UNCHANGED <<born, alive, bind, cited>>
  BY <1>1 DEF LookUp
<1>3. /\ found \subseteq Talents /\ found \subseteq 1..born
      /\ \A t \in found : \E x \in person : bind[x] = t
  BY FoundByLookUp
<1> HIDE DEF found
<1>4. hit \in Syncs
  BY <1>1, <1>3 DEF Syncs
<1>5. /\ hit.step = "looked" /\ hit.found = found /\ hit.moved = sync[s].moved
      /\ hit.person = person /\ hit.views = sync[s].views
  BY <1>1 DEF Syncs
<1> HIDE DEF hit
<1>6. sync'[s] = hit
  BY <1>1, <1>2
<1>7. HitInOrder(s)
  BY DEF TalentInv
<1>8. HitInOrder(s)' /\ hit.moved = {}
  BY <1>2, <1>3, <1>5, <1>6, <1>7 DEF HitInOrder
<1> QED
  BY <1>1, <1>2, <1>4, <1>8, RowsKept

LEMMA LoadInv ==
    ASSUME TalentConstants, TalentInv, NEW s \in Searches, Load(s)
    PROVE  TalentInv'
<1> DEFINE hit == [sync[s] EXCEPT !.step = "loaded", !.found = @ \intersect alive]
<1>1. /\ sync[s] \in Syncs
      /\ sync \in [Searches -> Syncs]
      /\ cited \subseteq alive
  BY HitTypes
<1>2. /\ sync[s].step = "looked"
      /\ sync' = [sync EXCEPT ![s] = hit]
      /\ UNCHANGED <<born, alive, bind, cited>>
  BY <1>1 DEF Load
<1>3. hit \in Syncs
  BY <1>1 DEF Syncs
<1>4. /\ hit.step = "loaded" /\ hit.found = sync[s].found \intersect alive
      /\ hit.moved = sync[s].moved
      /\ hit.person = sync[s].person /\ hit.views = sync[s].views
  BY <1>1 DEF Syncs
<1> HIDE DEF hit
<1>5. sync'[s] = hit
  BY <1>1, <1>2
<1>6. HitInOrder(s)
  BY DEF TalentInv
<1>7. HitInOrder(s)' /\ hit.moved = {}
  BY <1>2, <1>4, <1>5, <1>6 DEF HitInOrder
<1> QED
  BY <1>1, <1>2, <1>3, <1>7, RowsKept

LEMMA SettleInv ==
    ASSUME TalentConstants, TalentInv, NEW s \in Searches, SettleForExisting(s)
    PROVE  TalentInv'
<1>1. /\ sync[s] \in Syncs
      /\ sync \in [Searches -> Syncs]
      /\ cited \subseteq alive
  BY HitTypes
<1>2. /\ sync[s].step = "loaded"
      /\ UNCHANGED <<born, alive, bind, cited>>
      /\ Raise(s) \/ \E t \in Talents : sync[s].found = {t} /\ Synced(s, t)
  BY DEF SettleForExisting
<1>3. CASE Raise(s)
  BY <1>1, <1>2, <1>3, RaiseInv
<1>4. ASSUME NEW t \in Talents, sync[s].found = {t}, Synced(s, t)
      PROVE  TalentInv'
  <2> DEFINE hit == [sync[s] EXCEPT !.step = "synced", !.view = t,
                                    !.found = {}, !.moved = {}]
  <2>1. sync' = [sync EXCEPT ![s] = hit]
    BY <1>1, <1>4 DEF Synced
  <2>2. hit \in Syncs
    <3>1. t \in 0..MaxTalents
      BY DEF Talents, TalentConstants
    <3> QED
      BY <1>1, <3>1 DEF Syncs
  <2>3. /\ hit.step = "synced" /\ hit.view = t /\ hit.found = {} /\ hit.moved = {}
        /\ hit.person = sync[s].person /\ hit.views = sync[s].views
    BY <1>1 DEF Syncs
  <2> HIDE DEF hit
  <2>4. sync'[s] = hit
    BY <1>1, <2>1
  <2>5. HitInOrder(s)
    BY DEF TalentInv
  <2>6. HitInOrder(s)'
    BY <1>2, <1>4, <2>3, <2>4, <2>5 DEF HitInOrder
  <2> QED
    BY <1>1, <1>2, <2>1, <2>2, <2>3, <2>6, RowsKept
<1> QED
  BY <1>2, <1>3, <1>4

\* A merge redirects what no other merge has redirected.
LEMMA RedirectInv ==
    ASSUME TalentConstants, TalentInv, NEW s \in Searches, Redirect(s)
    PROVE  TalentInv'
<1> DEFINE moved == UNION {Mapped(t) : t \in Losers(sync[s].found)}
           hit == [sync[s] EXCEPT !.step = "redirected", !.moved = moved]
<1>1. /\ sync[s] \in Syncs
      /\ sync \in [Searches -> Syncs]
      /\ cited \subseteq alive
  BY HitTypes
<1>2. /\ sync[s].step = "loaded"
      /\ Cardinality(sync[s].found) > 1
      /\ moved \intersect LockedIds(s) = {}
      /\ Conflict(s) \/ sync' = [sync EXCEPT ![s] = hit]
      /\ UNCHANGED <<born, alive, bind, cited>>
  BY <1>1 DEF Redirect
<1>3. CASE Conflict(s)
  BY <1>2, <1>3, ConflictInv
<1>4. CASE sync' = [sync EXCEPT ![s] = hit]
  <2>1. /\ moved \subseteq Ids
        /\ \A x \in moved : bind[x] \in Losers(sync[s].found)
    BY DEF Mapped
  <2>2. \A o \in Searches \ {s} : moved \intersect sync[o].moved = {}
    BY <1>2 DEF LockedIds
  <2>3. sync[s].found # {}
    BY <1>2, FS_EmptySet
  <2> HIDE DEF moved
  <2>4. hit \in Syncs
    BY <1>1, <2>1 DEF Syncs
  <2>5. /\ hit.step = "redirected" /\ hit.found = sync[s].found /\ hit.moved = moved
        /\ hit.person = sync[s].person /\ hit.views = sync[s].views
    BY <1>1 DEF Syncs
  <2> HIDE DEF hit
  <2>6. sync'[s] = hit
    BY <1>1, <1>4
  <2>7. HitInOrder(s)
    BY DEF TalentInv
  <2>8. HitInOrder(s)'
    BY <1>2, <2>1, <2>3, <2>5, <2>6, <2>7 DEF HitInOrder
  <2> QED
    BY <1>1, <1>2, <1>4, <2>2, <2>4, <2>5, <2>8, RowsKept
<1> QED
  BY <1>2, <1>3, <1>4

LEMMA NextHitInv ==
    ASSUME TalentConstants, TalentInv, NEW s \in Searches, NextHit(s)
    PROVE  TalentInv'
<1> DEFINE hit == [NoHit EXCEPT !.views = sync[s].views \union {sync[s].view}]
<1>1. /\ sync[s] \in Syncs
      /\ sync \in [Searches -> Syncs]
      /\ cited \subseteq alive
      /\ born \in 0..MaxTalents
  BY HitTypes
<1>2. /\ sync[s].step = "synced"
      /\ sync' = [sync EXCEPT ![s] = hit]
      /\ UNCHANGED <<born, alive, bind, cited>>
  BY DEF NextHit
<1>3. HitInOrder(s)
  BY DEF TalentInv
<1>4. sync[s].view \in 1..born /\ sync[s].views \subseteq 1..born
  BY <1>2, <1>3 DEF HitInOrder
<1>5. sync[s].views \union {sync[s].view} \in SUBSET Talents
  BY <1>1, <1>4 DEF Talents, TalentConstants
<1>6. hit \in Syncs
  <2>1. 0 \in 0..MaxTalents
    BY DEF TalentConstants
  <2> QED
    BY <1>5, <2>1 DEF Syncs, NoHit
<1>7. /\ hit.step = "idle" /\ hit.found = {} /\ hit.moved = {}
      /\ hit.views = sync[s].views \union {sync[s].view}
  BY DEF NoHit
<1> HIDE DEF hit
<1>8. sync'[s] = hit
  BY <1>1, <1>2
<1>9. HitInOrder(s)'
  BY <1>2, <1>4, <1>7, <1>8 DEF HitInOrder
<1> QED
  BY <1>1, <1>2, <1>6, <1>7, <1>9, RowsKept

\* What is cited is there when it is cited; the talents of the snapshots keep
\* their foreign key.
LEMMA FreezeInv ==
    ASSUME TalentConstants, TalentInv, NEW s \in Searches, FreezeHits(s) \/ Abort(s)
    PROVE  TalentInv'
<1>1. cited \subseteq alive
  BY HitTypes
<1>2. cited' \subseteq alive /\ UNCHANGED <<born, alive, bind>>
  BY <1>1 DEF FreezeHits, Abort
<1>3. Raise(s)
  BY DEF FreezeHits, Abort, Raise
<1> QED
  BY <1>2, <1>3, RaiseInv

-----------------------------------------------------------------------------
(* The steps that change talents and mappings                              *)

\* A hit that is answered with a talent one of its identifiers leads to.
LEMMA AnsweredInv ==
    ASSUME TalentConstants, TalentInv, IdentityKept, NEW s \in Searches,
           NEW t \in Talents, Synced(s, t), sync[s].step # "idle",
           born' \in 0..MaxTalents, alive' \subseteq 1..born',
           bind' \in [Ids -> 0..born'], t \in alive',
           MappingsLead', NoOrphanTalent', cited' = cited, cited \subseteq alive',
           \A x \in sync[s].person : bind'[x] = t,
           \A o \in Searches \ {s} : \A x \in sync[o].moved : bind'[x] = bind[x]
    PROVE  TalentInv'
<1> DEFINE hit == [sync[s] EXCEPT !.step = "synced", !.view = t,
                                  !.found = {}, !.moved = {}]
<1>1. /\ sync[s] \in Syncs
      /\ sync \in [Searches -> Syncs]
  BY HitTypes
<1>2. sync' = [sync EXCEPT ![s] = hit]
  BY <1>1 DEF Synced
<1>3. hit \in Syncs
  <2>1. t \in 0..MaxTalents
    BY DEF Talents, TalentConstants
  <2> QED
    BY <1>1, <2>1 DEF Syncs
<1>4. /\ hit.step = "synced" /\ hit.view = t /\ hit.found = {} /\ hit.moved = {}
      /\ hit.person = sync[s].person /\ hit.views = sync[s].views
  BY <1>1 DEF Syncs
<1> HIDE DEF hit
<1>5. /\ sync' \in [Searches -> Syncs] /\ sync'[s] = hit
      /\ \A o \in Searches \ {s} : sync'[o] = sync[o]
  BY <1>1, <1>2, <1>3
<1>6. TalentTypeOK'
  BY <1>5 DEF TalentTypeOK
<1>7. CitedTalentsStay'
  BY DEF CitedTalentsStay
<1>8. MovedApart'
  BY <1>4, <1>5 DEF TalentInv, MovedApart
<1>9. HitInOrder(s)'
  <2>1. HitInOrder(s) /\ born \in Nat
    BY DEF TalentInv, TalentTypeOK, TalentConstants
  <2>2. 1..born \subseteq 1..born'
    BY <2>1 DEF IdentityKept
  <2>3. sync[s].person # {} /\ sync[s].views \subseteq 1..born
    BY <2>1 DEF HitInOrder
  <2> QED
    BY <1>4, <1>5, <2>2, <2>3 DEF HitInOrder
<1>10. \A o \in Searches : HitInOrder(o)'
  BY <1>5, <1>9, OthersInOrder
<1> QED
  BY <1>6, <1>7, <1>8, <1>10 DEF TalentInv

LEMMA CreateInv ==
    ASSUME TalentConstants, TalentInv, NEW s \in Searches, Create(s)
    PROVE  /\ TalentInv'
           /\ \A x \in Ids : bind[x] # 0 => bind'[x] = bind[x]
<1>1. /\ sync[s] \in Syncs
      /\ born \in 0..MaxTalents
      /\ alive \subseteq 1..born /\ cited \subseteq alive
      /\ bind \in [Ids -> 0..born]
      /\ \A x \in Ids : bind[x] # 0 => bind[x] \in alive
  BY HitTypes
<1>2. /\ sync[s].step = "loaded" /\ born < MaxTalents /\ cited' = cited
  BY DEF Create
<1>3. CASE \E x \in sync[s].person : bind[x] # 0
  <2>1. Conflict(s) /\ UNCHANGED <<born, alive, bind, cited>>
    BY <1>3 DEF Create
  <2> QED
    BY <1>2, <2>1, ConflictInv
<1>4. CASE \A x \in sync[s].person : bind[x] = 0
  <2> DEFINE t == born + 1
  <2>1. /\ born' = t /\ alive' = alive \union {t}
        /\ bind' = [x \in Ids |-> IF x \in sync[s].person THEN t ELSE bind[x]]
        /\ Synced(s, t)
    BY <1>4 DEF Create
  <2>2. /\ t \in Talents /\ t \in 0..MaxTalents /\ t # 0 /\ t \notin 1..born
        /\ 1..born' = (1..born) \union {t} /\ 0..born' = (0..born) \union {t}
        /\ born <= t /\ t \in Nat
    BY <1>1, <1>2, <2>1 DEF Talents, TalentConstants
  <2> HIDE DEF t
  <2>3. sync[s].person \subseteq Ids /\ sync[s].person # {}
    BY <1>1, <1>2 DEF Syncs, TalentInv, HitInOrder
  <2>4. \A x \in Ids : bind'[x] = IF x \in sync[s].person THEN t ELSE bind[x]
    BY <2>1
  <2>5. bind' \in [Ids -> 0..born'] /\ alive' \subseteq 1..born'
    BY <1>1, <2>1, <2>2
  <2>6. \A x \in Ids : bind[x] # 0 => bind'[x] = bind[x]
    BY <1>4, <2>4
  <2>7. IdentityKept
    BY <1>1, <2>1, <2>2, <2>6 DEF IdentityKept
  <2>8. MappingsLead'
    BY <1>1, <2>1, <2>4 DEF MappingsLead
  <2>9. NoOrphanTalent'
    <3>1. \A u \in alive : \E x \in Ids : bind[x] = u /\ u # 0
      BY <1>1 DEF TalentInv, NoOrphanTalent, Mapped
    <3>2. \A u \in alive' : \E x \in Ids : bind'[x] = u
      BY <2>1, <2>3, <2>4, <2>6, <3>1
    <3> QED
      BY <3>2 DEF NoOrphanTalent, Mapped
  <2>10. \A o \in Searches : \A x \in sync[o].moved : bind'[x] = bind[x]
    <3>1. \A o \in Searches : sync[o].moved \subseteq Ids
      BY HitTypes DEF Syncs
    <3>2. \A o \in Searches : \A x \in sync[o].moved : bind[x] \in 1..born
      BY DEF TalentInv, HitInOrder, Losers
    <3>3. 0 \notin 1..born
      BY <1>1
    <3> QED
      BY <2>6, <3>1, <3>2, <3>3
  <2>11. cited \subseteq alive' /\ t \in alive'
    BY <1>1, <2>1
  <2>12. \A x \in sync[s].person : bind'[x] = t
    BY <2>3, <2>4
  <2> QED
    BY <1>2, <2>1, <2>2, <2>5, <2>6, <2>7, <2>8, <2>9, <2>10, <2>11, <2>12, AnsweredInv
<1> QED
  BY <1>3, <1>4

LEMMA RefreshInv ==
    ASSUME TalentConstants, TalentInv, NEW s \in Searches, Refresh(s)
    PROVE  /\ TalentInv'
           /\ \A x \in Ids : bind[x] # 0 => bind'[x] = bind[x]
<1>1. /\ sync[s] \in Syncs
      /\ born \in 0..MaxTalents
      /\ alive \subseteq 1..born /\ cited \subseteq alive
      /\ bind \in [Ids -> 0..born]
      /\ \A x \in Ids : bind[x] # 0 => bind[x] \in alive
  BY HitTypes
<1>2. PICK t \in Talents :
        /\ sync[s].step = "loaded"
        /\ IF t \notin alive THEN Raise(s) /\ UNCHANGED bind
           ELSE IF \E x \in sync[s].person : bind[x] \notin {0, t}
           THEN Conflict(s) /\ UNCHANGED bind
           ELSE /\ bind' = [x \in Ids |-> IF x \in sync[s].person THEN t ELSE bind[x]]
                /\ Synced(s, t)
        /\ UNCHANGED <<born, alive, cited>>
  BY DEF Refresh
<1>3. CASE Raise(s) /\ UNCHANGED bind
  BY <1>1, <1>2, <1>3, RaiseInv
<1>4. CASE Conflict(s) /\ UNCHANGED bind
  BY <1>2, <1>4, ConflictInv
<1>5. CASE /\ t \in alive
           /\ \A x \in sync[s].person : bind[x] \in {0, t}
           /\ bind' = [x \in Ids |-> IF x \in sync[s].person THEN t ELSE bind[x]]
           /\ Synced(s, t)
  <2>1. sync[s].person \subseteq Ids
    BY <1>1 DEF Syncs
  <2>2. \A x \in Ids : bind'[x] = IF x \in sync[s].person THEN t ELSE bind[x]
    BY <1>5
  <2>3. bind' \in [Ids -> 0..born']
    BY <1>1, <1>2, <1>5
  <2>4. \A x \in Ids : bind[x] # 0 => bind'[x] = bind[x]
    BY <1>5, <2>2
  <2>5. IdentityKept
    BY <1>1, <1>2, <2>4 DEF IdentityKept
  <2>6. MappingsLead'
    BY <1>1, <1>2, <1>5, <2>2 DEF MappingsLead
  <2>7. NoOrphanTalent'
    <3>1. \A u \in alive : \E x \in Ids : bind[x] = u /\ u # 0
      BY <1>1 DEF TalentInv, NoOrphanTalent, Mapped
    <3> QED
      BY <1>2, <2>4, <3>1 DEF NoOrphanTalent, Mapped
  <2>8. \A o \in Searches : \A x \in sync[o].moved : bind'[x] = bind[x]
    <3>1. \A o \in Searches : sync[o].moved \subseteq Ids
      BY HitTypes DEF Syncs
    <3>2. \A o \in Searches : \A x \in sync[o].moved : bind[x] \in 1..born
      BY DEF TalentInv, HitInOrder, Losers
    <3>3. 0 \notin 1..born
      BY <1>1
    <3> QED
      BY <2>4, <3>1, <3>2, <3>3
  <2>9. \A x \in sync[s].person : bind'[x] = t
    BY <2>1, <2>2
  <2> QED
    BY <1>1, <1>2, <1>5, <2>3, <2>4, <2>5, <2>6, <2>7, <2>8, <2>9, AnsweredInv
<1> QED
  BY <1>2, <1>3, <1>4, <1>5

\* A merge moves identifiers to the earliest of its talents, and to no one else's.
LEMMA CommitMergeInv ==
    ASSUME TalentConstants, TalentInv, NEW s \in Searches, CommitMerge(s)
    PROVE  /\ TalentInv'
           /\ \A x \in Ids : bind[x] # 0 /\ bind'[x] # 0 => bind'[x] <= bind[x]
<1> DEFINE found == sync[s].found
           survivor == Survivor(found)
           losers == Losers(found)
           left == (UNION {Mapped(t) : t \in losers}) \ sync[s].moved
<1>1. /\ sync[s] \in Syncs
      /\ born \in 0..MaxTalents
      /\ alive \subseteq 1..born /\ cited \subseteq alive
      /\ bind \in [Ids -> 0..born]
      /\ \A x \in Ids : bind[x] # 0 => bind[x] \in alive
      /\ found \subseteq Nat
  BY HitTypes
<1>2. /\ sync[s].step = "redirected"
      /\ left \intersect LockedIds(s) = {}
      /\ UNCHANGED <<born, cited>>
  BY DEF CommitMerge
<1>3. HitInOrder(s)
  BY DEF TalentInv
<1>4. found # {} /\ found \subseteq 1..born /\ sync[s].person # {}
  BY <1>2, <1>3 DEF HitInOrder
<1>5. survivor \in found /\ \A u \in found : survivor <= u
  BY <1>1, <1>4, SurvivorIsEarliest
<1>6. CASE (Raise(s) \/ Conflict(s)) /\ UNCHANGED <<alive, bind>>
  <2>1. TalentInv'
    BY <1>1, <1>2, <1>6, RaiseInv, ConflictInv
  <2> QED
    BY <1>1, <1>6, <2>1
<1>7. CASE /\ survivor \in alive
           /\ losers \intersect alive \intersect cited = {}
           /\ \A x \in sync[s].person \ sync[s].moved : bind[x] \in {0} \union found
           /\ alive' = alive \ losers
           /\ bind' = MergedBinding(s)
           /\ Synced(s, survivor)
  <2>1. /\ sync[s].person \subseteq Ids /\ sync[s].moved \subseteq Ids
    BY <1>1 DEF Syncs
  <2>2. \A x \in Ids : bind'[x] = IF x \in sync[s].moved \union sync[s].person
                                 THEN survivor
                                 ELSE IF bind[x] \in losers THEN 0 ELSE bind[x]
    BY <1>7 DEF MergedBinding
  <2>3. losers = found \ {survivor} /\ survivor \notin losers /\ survivor # 0
    BY <1>4, <1>5 DEF Losers
  <2>4. \A x \in sync[s].moved : bind[x] \in losers
    BY <1>3 DEF HitInOrder
  <2>5. \A x \in sync[s].moved \union sync[s].person : bind[x] \in {0} \union found
    BY <1>7, <2>3, <2>4
  <2> HIDE DEF survivor, losers
  <2>6. bind' \in [Ids -> 0..born'] /\ alive' \subseteq 1..born'
    <3>1. 0 \in 0..born /\ 1..born \subseteq 0..born
      BY <1>1 DEF TalentConstants
    <3>2. \A x \in Ids : bind'[x] \in 0..born
      BY <1>1, <1>4, <1>5, <2>2, <3>1
    <3>3. bind' = [x \in Ids |-> bind'[x]]
      BY <1>7 DEF MergedBinding
    <3> QED
      BY <1>1, <1>2, <1>7, <3>2, <3>3
  <2>7. \A x \in Ids : bind[x] # 0 /\ bind[x] \in alive' => bind'[x] = bind[x]
    BY <1>7, <2>2, <2>3, <2>5
  <2>8. IdentityKept
    BY <1>1, <1>2, <1>7, <2>7 DEF IdentityKept, TalentConstants
  <2>9. MappingsLead'
    BY <1>1, <1>7, <2>2, <2>3 DEF MappingsLead
  <2>10. NoOrphanTalent'
    <3>1. \A u \in alive : \E x \in Ids : bind[x] = u /\ u # 0
      BY <1>1 DEF TalentInv, NoOrphanTalent, Mapped
    <3>2. \A u \in alive' : \E x \in Ids : bind'[x] = u
      BY <1>7, <2>7, <3>1
    <3> QED
      BY <3>2 DEF NoOrphanTalent, Mapped
  <2>11. \A o \in Searches \ {s} : \A x \in sync[o].moved : bind'[x] = bind[x]
    <3> SUFFICES ASSUME NEW o \in Searches \ {s}, NEW x \in sync[o].moved
                 PROVE  bind'[x] = bind[x]
      OBVIOUS
    <3>1. x \in Ids /\ x \in LockedIds(s)
      BY HitTypes DEF Syncs, LockedIds
    <3>2. x \notin sync[s].moved
      BY DEF TalentInv, MovedApart
    <3>3. bind[x] # 0
      BY <1>1 DEF TalentInv, HitInOrder, Losers
    <3>4. bind[x] \notin losers
      BY <1>2, <3>1, <3>2 DEF Mapped
    <3> QED
      BY <2>2, <2>3, <2>5, <3>1, <3>2, <3>3, <3>4
  <2>12. \A x \in Ids : bind[x] # 0 /\ bind'[x] # 0 => bind'[x] <= bind[x]
    BY <1>1, <1>5, <2>2, <2>5
  <2>13. survivor \in Talents /\ survivor \in alive' /\ cited \subseteq alive'
    <3>1. cited \subseteq alive'
      BY <1>1, <1>7
    <3>2. survivor \in alive'
      BY <1>7, <2>3
    <3> QED
      BY <1>1, <1>7, <3>1, <3>2 DEF Talents, TalentConstants
  <2>14. \A x \in sync[s].person : bind'[x] = survivor
    BY <2>1, <2>2
  <2> QED
    BY <1>1, <1>2, <1>7, <2>6, <2>8, <2>9, <2>10, <2>11, <2>12, <2>13, <2>14, AnsweredInv
<1> QED
  BY <1>6, <1>7 DEF CommitMerge

-----------------------------------------------------------------------------
(* The theorems                                                            *)

LEMMA TalentStepInv ==
    ASSUME TalentConstants, TalentInv, [TalentNext]_talentVars
    PROVE  /\ TalentInv'
           /\ \A x \in Ids : bind[x] # 0 /\ bind'[x] # 0 => bind'[x] <= bind[x]
<1>1. bind \in [Ids -> 0..born] /\ \A x \in Ids : bind[x] \in 0..born
  BY DEF TalentInv, TalentTypeOK
<1>2. \A x \in Ids : bind[x] <= bind[x]
  BY <1>1 DEF TalentConstants
<1>3. CASE UNCHANGED talentVars
  <2>1. TalentInv'
    BY <1>3 DEF talentVars, TalentInv, TalentTypeOK, MappingsLead, CitedTalentsStay,
                NoOrphanTalent, Mapped, MovedApart, HitInOrder
  <2> QED
    BY <1>2, <1>3, <2>1 DEF talentVars
<1>4. ASSUME NEW s \in Searches, Create(s) \/ Refresh(s) \/ CommitMerge(s)
      PROVE  /\ TalentInv'
             /\ \A x \in Ids : bind[x] # 0 /\ bind'[x] # 0 => bind'[x] <= bind[x]
  BY <1>2, <1>4, CreateInv, RefreshInv, CommitMergeInv
<1>5. ASSUME NEW s \in Searches,
             \/ \E person \in (SUBSET Ids) \ {{}} : LookUp(s, person)
             \/ Load(s) \/ SettleForExisting(s) \/ Redirect(s)
             \/ NextHit(s) \/ FreezeHits(s) \/ Abort(s)
      PROVE  /\ TalentInv'
             /\ \A x \in Ids : bind[x] # 0 /\ bind'[x] # 0 => bind'[x] <= bind[x]
  <2>1. TalentInv'
    BY <1>5, LookUpInv, LoadInv, SettleInv, RedirectInv, NextHitInv, FreezeInv
  <2>2. bind' = bind
    BY <1>5 DEF LookUp, Load, SettleForExisting, Redirect, NextHit, FreezeHits, Abort
  <2> QED
    BY <1>2, <2>1, <2>2
<1> QED
  BY <1>3, <1>4, <1>5 DEF TalentNext, SyncStep

\* Searches that overlap in any way keep the invariant.
THEOREM TalentsSound == TalentSpec => []TalentInv
<1>1. TalentInit => TalentInv
  BY TalentInitInv, TalentConstants
<1>2. TalentInv /\ [TalentNext]_talentVars => TalentInv'
  BY TalentStepInv, TalentConstants
<1> QED
  BY <1>1, <1>2, PTL DEF TalentSpec

\* Every talent can be found by an identifier, whatever merges overlap.
THEOREM TalentsFindable == TalentSpec => []NoOrphanTalent
<1>1. TalentInv => NoOrphanTalent
  BY DEF TalentInv
<1> QED
  BY <1>1, TalentsSound, PTL

\* The talents that snapshots cite are never merged away.
THEOREM CitationsHold == TalentSpec => []CitedTalentsStay
<1>1. TalentInv => CitedTalentsStay
  BY DEF TalentInv
<1> QED
  BY <1>1, TalentsSound, PTL

\* The talent a hit is answered with has one of the hit's identifiers.
THEOREM HitsOwnTheirTalent == TalentSpec => []AnsweredByOwnTalent
<1>1. TalentInv => AnsweredByOwnTalent
  BY DEF TalentInv, HitInOrder, AnsweredByOwnTalent
<1> QED
  BY <1>1, TalentsSound, PTL

\* An identifier that stays mapped only ever moves to an earlier talent.
THEOREM IdentitiesGrowOlder == TalentSpec => IdentityMovesToElder
<1>1. TalentInv /\ [TalentNext]_talentVars =>
        [\A x \in Ids : bind[x] # 0 /\ bind'[x] # 0 => bind'[x] <= bind[x]]_talentVars
  BY TalentStepInv, TalentConstants
<1> QED
  BY <1>1, TalentsSound, PTL DEF TalentSpec, IdentityMovesToElder

-----------------------------------------------------------------------------
(* Merges that are alone                                                   *)

\* A step of one search leaves the others at the hit they have.
LEMMA OthersStay ==
    ASSUME TalentTypeOK, NEW s \in Searches, SyncStep(s) \/ Abort(s)
    PROVE  \A o \in Searches \ {s} : sync'[o] = sync[o]
<1>1. \E new : sync' = [sync EXCEPT ![s] = new]
  <2>1. \A talent : Synced(s, talent) => \E new : sync' = [sync EXCEPT ![s] = new]
    BY DEF Synced
  <2>2. Raise(s) \/ Conflict(s) => \E new : sync' = [sync EXCEPT ![s] = new]
    BY DEF Raise, Conflict
  <2>3. CASE \/ \E person \in (SUBSET Ids) \ {{}} : LookUp(s, person)
             \/ Load(s) \/ NextHit(s) \/ FreezeHits(s) \/ Abort(s)
    BY <2>2, <2>3 DEF LookUp, Load, NextHit, FreezeHits, Abort
  <2>4. CASE Create(s) \/ Refresh(s) \/ SettleForExisting(s)
    BY <2>1, <2>2, <2>4 DEF Create, Refresh, SettleForExisting
  <2>5. CASE Redirect(s) \/ CommitMerge(s)
    BY <2>1, <2>2, <2>5 DEF Redirect, CommitMerge
  <2> QED
    BY <2>3, <2>4, <2>5 DEF SyncStep
<1> QED
  BY <1>1 DEF TalentTypeOK

\* Who writes identifiers, or gives up doing so, is not merging afterwards.
LEMMA MergeOver ==
    ASSUME TalentTypeOK, NEW s \in Searches,
           Raise(s) \/ Conflict(s) \/ \E t : Synced(s, t)
    PROVE  sync'[s].step # "redirected"
<1>1. sync \in [Searches -> Syncs] /\ sync[s] \in Syncs
  BY DEF TalentTypeOK
<1>2. CASE Raise(s)
  BY <1>1, <1>2 DEF Raise, NoHit
<1>3. CASE Conflict(s) /\ ~Raise(s)
  <2>1. \E found : sync' = [sync EXCEPT ![s].step = "looked", ![s].found = found,
                                        ![s].moved = {}, ![s].again = TRUE]
    BY <1>3 DEF Conflict
  <2> QED
    BY <1>1, <2>1 DEF Syncs
<1>4. ASSUME NEW t, Synced(s, t)
      PROVE  sync'[s].step = "synced"
  BY <1>1, <1>4 DEF Synced, Syncs
<1> QED
  BY <1>2, <1>3, <1>4

LEMMA MergeAloneStep ==
    ASSUME TalentConstants, TalentInv, MergesWhole, MergesAlone,
           [TalentNext]_talentVars
    PROVE  /\ MergesWhole'
           /\ \A x \in Ids : bind[x] # 0 => bind'[x] # 0
<1>1. /\ TalentTypeOK /\ born \in Nat
      /\ bind \in [Ids -> 0..born] /\ sync \in [Searches -> Syncs]
  BY DEF TalentInv, TalentTypeOK, TalentConstants
<1>2. CASE UNCHANGED talentVars
  BY <1>2 DEF talentVars, MergesWhole
<1>3. ASSUME NEW s \in Searches,
             \/ \E person \in (SUBSET Ids) \ {{}} : LookUp(s, person)
             \/ Load(s) \/ SettleForExisting(s) \/ NextHit(s) \/ FreezeHits(s)
             \/ Abort(s)
      PROVE  /\ MergesWhole'
             /\ \A x \in Ids : bind[x] # 0 => bind'[x] # 0
  <2>1. bind' = bind
    BY <1>3 DEF LookUp, Load, SettleForExisting, NextHit, FreezeHits, Abort
  <2>2. \A o \in Searches \ {s} : sync'[o] = sync[o]
    BY <1>1, <1>3, OthersStay DEF SyncStep
  <2>3. sync'[s].step # "redirected"
    <3>1. CASE SettleForExisting(s) \/ Abort(s)
      BY <1>1, <3>1, MergeOver DEF SettleForExisting, Abort
    <3>2. CASE \E person \in (SUBSET Ids) \ {{}} : LookUp(s, person)
      <4>1. sync[s] \in Syncs
        BY <1>1
      <4> QED
        BY <1>1, <3>2, <4>1 DEF LookUp, Syncs
    <3>3. CASE Load(s)
      <4>1. sync[s] \in Syncs
        BY <1>1
      <4> QED
        BY <1>1, <3>3, <4>1 DEF Load, Syncs
    <3>4. CASE NextHit(s) \/ FreezeHits(s)
      BY <1>1, <3>4 DEF NextHit, FreezeHits, NoHit
    <3> QED
      BY <1>3, <3>1, <3>2, <3>3, <3>4
  <2> QED
    BY <2>1, <2>2, <2>3 DEF MergesWhole
<1>4. ASSUME NEW s \in Searches, Redirect(s)
      PROVE  /\ MergesWhole'
             /\ \A x \in Ids : bind[x] # 0 => bind'[x] # 0
  <2> DEFINE moved == UNION {Mapped(t) : t \in Losers(sync[s].found)}
  <2>1. bind' = bind
    BY <1>4 DEF Redirect
  <2>2. \A o \in Searches \ {s} : sync'[o] = sync[o]
    BY <1>1, <1>4, OthersStay DEF SyncStep
  <2>3. \/ sync'[s].step # "redirected"
        \/ sync'[s].found = sync[s].found /\ sync'[s].moved = moved
    <3>1. sync[s] \in Syncs
      BY <1>1
    <3>2. \/ Conflict(s)
          \/ sync' = [sync EXCEPT ![s].step = "redirected", ![s].moved = moved]
      BY <1>4 DEF Redirect
    <3> HIDE DEF moved
    <3> QED
      BY <1>1, <3>1, <3>2, MergeOver DEF Syncs
  <2>4. \A x \in Ids : bind[x] \in Losers(sync[s].found) => x \in moved
    BY DEF Mapped
  <2> HIDE DEF moved
  <2> QED
    BY <2>1, <2>2, <2>3, <2>4 DEF MergesWhole
<1>5. ASSUME NEW s \in Searches, Create(s) \/ Refresh(s) \/ CommitMerge(s)
      PROVE  /\ MergesWhole'
             /\ \A x \in Ids : bind[x] # 0 => bind'[x] # 0
  <2>1. \A o \in Searches \ {s} : sync'[o] = sync[o]
    BY <1>1, <1>5, OthersStay DEF SyncStep
  <2>2. sync'[s].step # "redirected"
    BY <1>1, <1>5, MergeOver DEF Create, Refresh, CommitMerge
  <2>3. \A o \in Searches \ {s} : sync[o].step # "redirected"
    BY <1>5 DEF MergesAlone, Create, Refresh, CommitMerge
  <2>4. MergesWhole'
    BY <2>1, <2>2, <2>3 DEF MergesWhole
  <2>5. CASE Create(s) \/ Refresh(s)
    <3>1. \A x \in Ids : bind[x] # 0 => bind'[x] # 0
      BY <1>1, <2>5 DEF Create, Refresh, Talents, TalentConstants
    <3> QED
      BY <2>4, <3>1
  <2>6. CASE CommitMerge(s)
    <3>1. Survivor(sync[s].found) # 0
      <4>1. sync[s].found \subseteq 1..born /\ sync[s].found # {}
        BY <2>6 DEF CommitMerge, TalentInv, HitInOrder
      <4> QED
        BY <1>1, <4>1, SurvivorIsEarliest
    <3>2. bind' = bind \/ bind' = MergedBinding(s)
      BY <2>6 DEF CommitMerge
    <3>3. \A x \in Ids : bind[x] \in Losers(sync[s].found) => x \in sync[s].moved
      BY <2>6 DEF CommitMerge, MergesWhole
    <3>4. \A x \in Ids : bind[x] # 0 => bind'[x] # 0
      BY <1>1, <3>1, <3>2, <3>3 DEF MergedBinding
    <3> QED
      BY <2>4, <3>4
  <2> QED
    BY <1>5, <2>5, <2>6
<1> QED
  BY <1>2, <1>3, <1>4, <1>5 DEF TalentNext, SyncStep

\* An identifier is only forgotten when another search is about to write while
\* one merges: merges that are alone unite all of them, as ADR 0026 has it
\* (_merge).
THEOREM AloneNothingForgotten == TalentSpec /\ []MergesAlone => MappingsKept
<1>1. TalentInit => MergesWhole
  BY DEF TalentInit, MergesWhole, NoHit
<1>2. TalentInv /\ MergesWhole /\ MergesAlone /\ [TalentNext]_talentVars
        => /\ MergesWhole'
           /\ [\A x \in Ids : bind[x] # 0 => bind'[x] # 0]_talentVars
  BY MergeAloneStep, TalentConstants
<1> QED
  BY <1>1, <1>2, TalentsSound, PTL DEF TalentSpec, MappingsKept
======================================================================
