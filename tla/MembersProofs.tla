--------------------------- MODULE MembersProofs ---------------------------
(***************************************************************************)
(* Proofs about what the members of a tenant do: that they are active in   *)
(* one tenant (Access), and that they edit the requirement of a job        *)
(* together (RequirementDrafts).  Both invariants hold for any numbers of  *)
(* users, tenants, invitations and requests in flight, and of members,     *)
(* items, drafts and versions.                                             *)
(*                                                                         *)
(* Every step of Access is proved to keep the type of the state, the       *)
(* accounts and owners, and the invitations, in this order, and then that  *)
(* users whose requests have not overlapped have one tenant.  A step of    *)
(* RequirementDrafts writes the one editable draft, appends a new one when *)
(* none is editable any more, or leaves the drafts alone; each kind has a  *)
(* lemma that its actions use.                                             *)
(***************************************************************************)
EXTENDS Access, RequirementDrafts, SequenceTheorems, FiniteSetTheorems, TLAPS


\* With no account, invitation or request the invariant holds.
LEMMA AccessInitInv ==
    ASSUME AccessConstants, AccessInit
    PROVE  AccessInv
BY DEF AccessConstants, AccessInit, AccessInv, AccessTypeOK, Memberships,
       NoInvitation, InvitationRows, NoRequest, RequestRows, MembersRegistered,
       OwnersApart, RequestsInvited, ActivatedMembers

\* A request that has read what it needs changes nothing but itself, and may
\* overlap with another.
LEMMA BeginInv ==
    ASSUME AccessConstants, AccessInv, NEW q \in Requests,
           NEW kind \in {"invite", "revoke", "accept", "join", "activate"},
           NEW u \in Users \union {NULL}, NEW t \in Tenants \union {NULL},
           NEW i \in Invitations \union {NULL},
           Begin(q, kind, u, t, i),
           kind \in {"accept", "activate"} =>
               u \in registered /\ \A s \in Tenants : member[s][u] # "owner",
           kind \in {"accept", "join"} =>
               /\ t \in Tenants /\ u \in Users /\ i \in Invitations
               /\ invitation[i].tenant = t /\ invitation[i].user = u,
           kind = "activate" =>
               /\ t \in Tenants /\ u \in Users
               /\ member[t][u] \in {"active", "inactive"}
    PROVE  AccessInv'
<1> DEFINE new == [kind |-> kind, user |-> u, tenant |-> t, invitation |-> i]
<1>1. /\ request' = [request EXCEPT ![q] = new]
      /\ UNCHANGED <<registered, member, invitation>>
  BY DEF Begin
<1>2. new \in RequestRows
  BY DEF RequestRows
<1>3. request \in [Requests -> RequestRows]
  BY DEF AccessInv, AccessTypeOK
<1>4. \A p \in Requests : request'[p] = IF p = q THEN new ELSE request[p]
  BY <1>1, <1>3
<1>5. AccessTypeOK'
  <2>1. overlapped' \subseteq overlapped \union {u} /\ (u \notin Users => overlapped' = overlapped)
    BY DEF Begin, ActivatingAlso, AccessInv, AccessTypeOK, MembersRegistered
  <2> QED
    BY <1>1, <1>2, <1>3, <2>1 DEF AccessInv, AccessTypeOK
<1>6. MembersRegistered'
  BY <1>1, <1>4 DEF AccessInv, MembersRegistered
<1>7. OwnersApart'
  BY <1>1, <1>4 DEF AccessInv, OwnersApart
<1>8. RequestsInvited'
  BY <1>1, <1>4 DEF AccessInv, RequestsInvited
<1>9. ActivatedMembers'
  BY <1>1, <1>4 DEF AccessInv, ActivatedMembers
<1> QED
  BY <1>5, <1>6, <1>7, <1>8, <1>9 DEF AccessInv

\* A request that ends leaves the others as they are.
LEMMA FinishKeeps ==
    ASSUME AccessConstants, AccessTypeOK, NEW q \in Requests, NEW kind, Finish(q, kind)
    PROVE  /\ request' \in [Requests -> RequestRows]
           /\ \A p \in Requests : request'[p] \in {request[p], NoRequest}
           /\ request[q].kind = kind
           /\ request[q] \in RequestRows
           /\ overlapped' = overlapped /\ overlapped \subseteq Users
<1>1. NoRequest \in RequestRows
  BY DEF NoRequest, RequestRows
<1> QED
  BY <1>1 DEF Finish, AccessTypeOK

\* What is said of the requests is still true when some of them have ended and
\* the rows they refer to have kept the tenant and the user they name.
LEMMA FewerRequests ==
    ASSUME AccessConstants, AccessInv,
           \A p \in Requests : request'[p] \in {request[p], NoRequest},
           registered \subseteq registered',
           \A i \in Invitations : invitation[i].tenant \in Tenants =>
               /\ invitation'[i].tenant = invitation[i].tenant
               /\ invitation'[i].user = invitation[i].user
    PROVE  /\ \A q \in Requests :
                 request'[q].kind \in {"accept", "activate"} => request'[q].user \in registered'
           /\ RequestsInvited'
<1>1. NoRequest.kind = "none"
  BY DEF NoRequest
<1>2. \A q \in Requests :
        request'[q].kind \in {"accept", "activate"} => request'[q].user \in registered'
  BY <1>1 DEF AccessInv, MembersRegistered
<1>3. RequestsInvited'
  BY <1>1 DEF AccessInv, RequestsInvited
<1> QED
  BY <1>2, <1>3

\* Marking an invitation, adding one or ending a request is never what breaks
\* the invariant.
LEMMA KeptInv ==
    ASSUME AccessConstants, AccessInv, AccessTypeOK',
           UNCHANGED <<registered, member>>,
           \A p \in Requests : request'[p] \in {request[p], NoRequest},
           \A i \in Invitations : invitation[i].tenant \in Tenants =>
               /\ invitation'[i].tenant = invitation[i].tenant
               /\ invitation'[i].user = invitation[i].user
    PROVE  AccessInv'
<1>1. NoRequest.kind = "none"
  BY DEF NoRequest
<1>2. /\ \A q \in Requests :
            request'[q].kind \in {"accept", "activate"} => request'[q].user \in registered'
      /\ RequestsInvited'
  BY FewerRequests
<1>3. MembersRegistered'
  BY <1>2 DEF AccessInv, MembersRegistered
<1>4. OwnersApart'
  BY <1>1 DEF AccessInv, OwnersApart
<1>5. ActivatedMembers'
  BY <1>1 DEF AccessInv, ActivatedMembers
<1> QED
  BY <1>2, <1>3, <1>4, <1>5 DEF AccessInv

\* A user who owns nothing becomes an active member.
LEMMA AdmittedInv ==
    ASSUME AccessConstants, AccessInv, NEW t \in Tenants, NEW u \in Users,
           AccessTypeOK', SetMember(t, u, "active"),
           \A p \in Requests : request'[p] \in {request[p], NoRequest},
           registered \subseteq registered', u \in registered',
           \A s \in Tenants : member[s][u] # "owner",
           \A i \in Invitations :
               /\ invitation'[i].tenant = invitation[i].tenant
               /\ invitation'[i].user = invitation[i].user
    PROVE  AccessInv'
<1>1. NoRequest.kind = "none"
  BY DEF NoRequest
<1>2. member \in [Tenants -> [Users -> Memberships]]
  BY DEF AccessInv, AccessTypeOK
<1>3. \A s \in Tenants, v \in Users :
        member'[s][v] = IF s = t /\ v = u THEN "active" ELSE member[s][v]
  BY <1>2 DEF SetMember
<1>4. /\ \A q \in Requests :
            request'[q].kind \in {"accept", "activate"} => request'[q].user \in registered'
      /\ RequestsInvited'
  BY FewerRequests
<1>5. MembersRegistered'
  BY <1>3, <1>4 DEF AccessInv, MembersRegistered
<1>6. OwnersApart'
  BY <1>1, <1>3 DEF AccessInv, OwnersApart
<1>7. ActivatedMembers'
  BY <1>1, <1>3 DEF AccessInv, ActivatedMembers
<1> QED
  BY <1>4, <1>5, <1>6, <1>7 DEF AccessInv

-----------------------------------------------------------------------------
(* Registration and acceptance                                             *)

\* The owner of a new tenant has just come: nobody has invited or admitted them.
LEMMA RegisterInv ==
    ASSUME AccessConstants, AccessInv, NEW u \in Users, Register(u)
    PROVE  AccessInv'
<1>1. /\ registered' = registered \union {u}
      /\ UNCHANGED <<invitation, request, overlapped>>
      /\ u \notin registered
  BY DEF Register
<1>2. member \in [Tenants -> [Users -> Memberships]]
  BY DEF AccessInv, AccessTypeOK
<1>3. CASE UNCHANGED member
  BY <1>1, <1>3 DEF AccessInv, AccessTypeOK, MembersRegistered, OwnersApart,
                    RequestsInvited, ActivatedMembers
<1>4. CASE \E t \in Tenants : ~Founded(t) /\ SetMember(t, u, "owner")
  <2>1. PICK t \in Tenants : ~Founded(t) /\ SetMember(t, u, "owner")
    BY <1>4
  <2>2. \A s \in Tenants, v \in Users :
          member'[s][v] = IF s = t /\ v = u THEN "owner" ELSE member[s][v]
    BY <1>2, <2>1 DEF SetMember
  <2>3. \A s \in Tenants : member[s][u] = "none"
    BY <1>1 DEF AccessInv, MembersRegistered
  <2>4. \A v \in Users : member[t][v] # "owner"
    BY <2>1 DEF Founded
  <2>5. \A q \in Requests :
          request[q].kind \in {"accept", "activate"} => request[q].user # u
    BY <1>1 DEF AccessInv, MembersRegistered
  <2>6. AccessTypeOK'
    <3>1. member' \in [Tenants -> [Users -> Memberships]]
      BY <1>2, <2>1 DEF SetMember, Memberships
    <3> QED
      BY <1>1, <3>1 DEF AccessInv, AccessTypeOK
  <2>7. MembersRegistered'
    BY <1>1, <2>2 DEF AccessInv, MembersRegistered
  <2>8. OwnersApart'
    <3>1. \A s \in Tenants, v \in Users :
            member'[s][v] = "owner" => (s = t /\ v = u) \/ (s # t /\ v # u /\ member[s][v] = "owner")
      BY <2>2, <2>3, <2>4
    <3>2. ASSUME NEW s \in Tenants, NEW v \in Users, s # t, v # u, member[s][v] = "owner"
          PROVE  /\ \A r \in Tenants \ {s} : member'[r][v] = "none"
                 /\ \A w \in Users \ {v} : member'[s][w] # "owner"
                 /\ \A q \in Requests :
                       request'[q].kind \in {"accept", "activate"} => request'[q].user # v
      BY <1>1, <2>2, <3>2 DEF AccessInv, OwnersApart
    <3> QED
      BY <1>1, <2>2, <2>3, <2>4, <2>5, <3>1, <3>2 DEF OwnersApart
  <2>9. RequestsInvited'
    BY <1>1, <2>2 DEF AccessInv, RequestsInvited
  <2>10. ActivatedMembers'
    BY <1>1, <2>2, <2>5 DEF AccessInv, ActivatedMembers
  <2> QED
    BY <2>6, <2>7, <2>8, <2>9, <2>10 DEF AccessInv
<1> QED
  BY <1>3, <1>4 DEF Register

\* The mark of an acceptance is all that changes in an invitation.
LEMMA AdmitMarks ==
    ASSUME AccessConstants, AccessInv, NEW q \in Requests,
           request[q].kind \in {"accept", "join"}, Admit(q),
           registered' \subseteq Users, request' \in [Requests -> RequestRows],
           overlapped' \subseteq Users
    PROVE  /\ AccessTypeOK'
           /\ request[q].tenant \in Tenants /\ request[q].user \in Users
           /\ \A i \in Invitations :
                 /\ invitation'[i].tenant = invitation[i].tenant
                 /\ invitation'[i].user = invitation[i].user
<1> DEFINE j == request[q].invitation
           t == request[q].tenant
           u == request[q].user
<1>1. /\ t \in Tenants /\ u \in Users /\ j \in Invitations
      /\ invitation[j].tenant = t /\ invitation[j].user = u
  BY DEF AccessInv, RequestsInvited
<1>2. /\ member \in [Tenants -> [Users -> Memberships]]
      /\ invitation \in [Invitations -> InvitationRows]
  BY DEF AccessInv, AccessTypeOK
<1>3. /\ invitation' = [invitation EXCEPT ![j].accepted = TRUE]
      /\ member' = [member EXCEPT ![t][u] = "active"]
  BY DEF Admit, SetMember
<1>4. \A i \in Invitations :
        /\ invitation'[i].tenant = invitation[i].tenant
        /\ invitation'[i].user = invitation[i].user
  BY <1>1, <1>2, <1>3 DEF InvitationRows
<1>6. invitation' \in [Invitations -> InvitationRows]
  BY <1>1, <1>2, <1>3 DEF InvitationRows
<1>7. member' \in [Tenants -> [Users -> Memberships]]
  BY <1>1, <1>2, <1>3 DEF Memberships
<1> QED
  BY <1>1, <1>4, <1>6, <1>7 DEF AccessTypeOK

\* The invited user registers first, so that they own nothing yet.
LEMMA CommitJoinInv ==
    ASSUME AccessConstants, AccessInv, NEW q \in Requests, CommitJoin(q)
    PROVE  AccessInv'
<1> DEFINE t == request[q].tenant
           u == request[q].user
<1>1. /\ request' \in [Requests -> RequestRows]
      /\ \A p \in Requests : request'[p] \in {request[p], NoRequest}
      /\ request[q].kind = "join"
      /\ overlapped' = overlapped /\ overlapped \subseteq Users
  BY FinishKeeps DEF CommitJoin, AccessInv
<1>2. CASE u \in registered
  <2>1. UNCHANGED <<registered, member, invitation>>
    BY <1>2 DEF CommitJoin
  <2>2. AccessTypeOK'
    BY <1>1, <2>1 DEF AccessInv, AccessTypeOK
  <2> QED
    BY <1>1, <2>1, <2>2, KeptInv
<1>3. CASE u \notin registered
  <2>1. registered' = registered \union {u} /\ Admit(q)
    BY <1>3 DEF CommitJoin
  <2>2. u \in Users
    BY <1>1 DEF AccessInv, RequestsInvited
  <2>3. registered' \subseteq Users
    BY <2>1, <2>2 DEF AccessInv, AccessTypeOK
  <2>4. \A s \in Tenants : member[s][u] # "owner"
    BY <1>3, <2>2 DEF AccessInv, MembersRegistered
  <2>5. SetMember(t, u, "active")
    BY <2>1 DEF Admit
  <2> HIDE DEF t, u
  <2> QED
    BY <1>1, <2>1, <2>3, <2>4, <2>5, AdmitMarks, AdmittedInv DEF t, u
<1> QED
  BY <1>2, <1>3

\* Who accepts has an account and owns nothing: an owner never begins to accept.
LEMMA CommitAcceptInv ==
    ASSUME AccessConstants, AccessInv, NEW q \in Requests, CommitAccept(q)
    PROVE  AccessInv'
<1> DEFINE t == request[q].tenant
           u == request[q].user
<1>1. /\ request' \in [Requests -> RequestRows]
      /\ \A p \in Requests : request'[p] \in {request[p], NoRequest}
      /\ request[q].kind = "accept"
      /\ overlapped' = overlapped /\ overlapped \subseteq Users
  BY FinishKeeps DEF CommitAccept, AccessInv
<1>2. registered' = registered
  BY DEF CommitAccept
<1>3. CASE member[t][u] # "none"
  <2>1. UNCHANGED <<registered, member, invitation>>
    BY <1>3 DEF CommitAccept
  <2>2. AccessTypeOK'
    BY <1>1, <2>1 DEF AccessInv, AccessTypeOK
  <2> QED
    BY <1>1, <2>1, <2>2, KeptInv
<1>4. CASE member[t][u] = "none"
  <2>1. Admit(q)
    BY <1>4 DEF CommitAccept
  <2>2. u \in Users /\ u \in registered
    BY <1>1 DEF AccessInv, RequestsInvited, MembersRegistered
  <2>3. registered' \subseteq Users
    BY <1>2 DEF AccessInv, AccessTypeOK
  <2>4. \A s \in Tenants : member[s][u] # "owner"
    BY <1>1, <2>2 DEF AccessInv, OwnersApart
  <2>5. SetMember(t, u, "active")
    BY <2>1 DEF Admit
  <2> HIDE DEF t, u
  <2> QED
    BY <1>1, <1>2, <2>1, <2>2, <2>3, <2>4, <2>5, AdmitMarks, AdmittedInv DEF t, u
<1> QED
  BY <1>3, <1>4

-----------------------------------------------------------------------------
(* Invitations                                                             *)

\* A new invitation takes a row that nothing referred to.
LEMMA CommitInviteInv ==
    ASSUME AccessConstants, AccessInv, NEW q \in Requests, CommitInvite(q)
    PROVE  AccessInv'
<1>1. /\ request' \in [Requests -> RequestRows]
      /\ \A p \in Requests : request'[p] \in {request[p], NoRequest}
      /\ request[q] \in RequestRows
      /\ overlapped' = overlapped /\ overlapped \subseteq Users
  BY FinishKeeps DEF CommitInvite, AccessInv
<1>2. UNCHANGED <<registered, member>>
  BY DEF CommitInvite
<1>3. PICK i \in Invitations :
        /\ invitation[i] = NoInvitation
        /\ invitation' = [invitation EXCEPT ![i].tenant = request[q].tenant,
                                            ![i].user = request[q].user]
  BY DEF CommitInvite
<1>4. invitation \in [Invitations -> InvitationRows]
  BY DEF AccessInv, AccessTypeOK
<1> DEFINE named == [invitation EXCEPT ![i].tenant = request[q].tenant]
<1>6. /\ invitation' \in [Invitations -> InvitationRows]
      /\ \A j \in Invitations \ {i} : invitation'[j] = invitation[j]
  <2>1. /\ named \in [Invitations -> InvitationRows]
        /\ \A j \in Invitations \ {i} : named[j] = invitation[j]
    BY <1>1, <1>4 DEF InvitationRows, RequestRows
  <2>2. invitation' = [named EXCEPT ![i].user = request[q].user]
    BY <1>3
  <2> HIDE DEF named
  <2> QED
    BY <1>1, <2>1, <2>2 DEF InvitationRows, RequestRows
<1>7. invitation[i].tenant \notin Tenants
  BY <1>3 DEF NoInvitation, AccessConstants
<1>8. \A j \in Invitations : invitation[j].tenant \in Tenants => invitation'[j] = invitation[j]
  BY <1>6, <1>7
<1>9. AccessTypeOK'
  BY <1>1, <1>2, <1>6 DEF AccessInv, AccessTypeOK
<1> QED
  BY <1>1, <1>2, <1>8, <1>9, KeptInv

\* A revocation marks the invitation and keeps the marks it has.
LEMMA CommitRevokeInv ==
    ASSUME AccessConstants, AccessInv, NEW q \in Requests, CommitRevoke(q)
    PROVE  AccessInv'
<1>1. /\ request' \in [Requests -> RequestRows]
      /\ \A p \in Requests : request'[p] \in {request[p], NoRequest}
      /\ overlapped' = overlapped /\ overlapped \subseteq Users
  BY FinishKeeps DEF CommitRevoke, AccessInv
<1>2. /\ UNCHANGED <<registered, member>>
      /\ invitation' = [invitation EXCEPT ![request[q].invitation].revoked = TRUE]
  BY DEF CommitRevoke
<1>3. invitation \in [Invitations -> InvitationRows]
  BY DEF AccessInv, AccessTypeOK
<1>4. \A i \in Invitations :
        /\ invitation'[i].tenant = invitation[i].tenant
        /\ invitation'[i].user = invitation[i].user
  BY <1>2, <1>3 DEF InvitationRows
<1>5. invitation' \in [Invitations -> InvitationRows]
  BY <1>2, <1>3 DEF InvitationRows
<1>6. AccessTypeOK'
  BY <1>1, <1>2, <1>5 DEF AccessInv, AccessTypeOK
<1> QED
  BY <1>1, <1>2, <1>4, <1>6, KeptInv

\* So does the time that passes.
LEMMA ExpireInv ==
    ASSUME AccessConstants, AccessInv, NEW i \in Invitations, Expire(i)
    PROVE  AccessInv'
<1>1. /\ UNCHANGED <<registered, member, request, overlapped>>
      /\ invitation' = [invitation EXCEPT ![i].expired = TRUE]
  BY DEF Expire
<1>2. invitation \in [Invitations -> InvitationRows]
  BY DEF AccessInv, AccessTypeOK
<1>3. \A j \in Invitations :
        /\ invitation'[j].tenant = invitation[j].tenant
        /\ invitation'[j].user = invitation[j].user
  BY <1>1, <1>2 DEF InvitationRows
<1>4. invitation' \in [Invitations -> InvitationRows]
  BY <1>1, <1>2 DEF InvitationRows
<1>5. AccessTypeOK'
  BY <1>1, <1>4 DEF AccessInv, AccessTypeOK
<1> QED
  BY <1>1, <1>3, <1>5, KeptInv

-----------------------------------------------------------------------------
(* Members                                                                 *)

\* The owner is never deactivated.
LEMMA DeactivateInv ==
    ASSUME AccessConstants, AccessInv, NEW t \in Tenants, NEW u \in Users,
           DeactivateMembership(t, u)
    PROVE  AccessInv'
<1>1. /\ UNCHANGED <<registered, invitation, request, overlapped>>
      /\ member[t][u] = "active"
      /\ member' = [member EXCEPT ![t][u] = "inactive"]
  BY DEF DeactivateMembership, SetMember
<1>2. member \in [Tenants -> [Users -> Memberships]]
  BY DEF AccessInv, AccessTypeOK
<1>3. \A s \in Tenants, v \in Users :
        member'[s][v] = IF s = t /\ v = u THEN "inactive" ELSE member[s][v]
  BY <1>1, <1>2
<1>4. member' \in [Tenants -> [Users -> Memberships]]
  BY <1>1, <1>2 DEF Memberships
<1>5. AccessTypeOK'
  BY <1>1, <1>4 DEF AccessInv, AccessTypeOK
<1>6. MembersRegistered' /\ RequestsInvited'
  BY <1>1, <1>3 DEF AccessInv, MembersRegistered, RequestsInvited
<1>7. OwnersApart'
  BY <1>1, <1>3 DEF AccessInv, OwnersApart
<1>8. ActivatedMembers'
  BY <1>1, <1>3 DEF AccessInv, ActivatedMembers
<1> QED
  BY <1>5, <1>6, <1>7, <1>8 DEF AccessInv

\* Whoever is activated is a member still and owns nothing.
LEMMA CommitActivateInv ==
    ASSUME AccessConstants, AccessInv, NEW q \in Requests, CommitActivate(q)
    PROVE  AccessInv'
<1> DEFINE t == request[q].tenant
           u == request[q].user
<1>1. /\ request' \in [Requests -> RequestRows]
      /\ \A p \in Requests : request'[p] \in {request[p], NoRequest}
      /\ request[q].kind = "activate"
      /\ overlapped' = overlapped /\ overlapped \subseteq Users
  BY FinishKeeps DEF CommitActivate, AccessInv
<1>2. /\ UNCHANGED <<registered, invitation>>
      /\ SetMember(t, u, "active")
  BY DEF CommitActivate
<1>3. t \in Tenants /\ u \in Users /\ member[t][u] \in {"active", "inactive"}
  BY <1>1 DEF AccessInv, ActivatedMembers
<1>4. u \in registered /\ \A s \in Tenants : member[s][u] # "owner"
  BY <1>1, <1>3 DEF AccessInv, MembersRegistered, OwnersApart
<1>6. AccessTypeOK'
  <2>1. member' \in [Tenants -> [Users -> Memberships]]
    BY <1>2, <1>3 DEF AccessInv, AccessTypeOK, SetMember, Memberships
  <2> QED
    BY <1>1, <1>2, <2>1 DEF AccessInv, AccessTypeOK
<1> HIDE DEF t, u
<1> QED
  BY <1>1, <1>2, <1>3, <1>4, <1>6, AdmittedInv

\* Whoever is about to be activated and is removed is not.
LEMMA RemoveInv ==
    ASSUME AccessConstants, AccessInv, NEW t \in Tenants, NEW u \in Users,
           RemoveMembership(t, u)
    PROVE  AccessInv'
<1>1. /\ UNCHANGED <<registered, invitation, overlapped>>
      /\ member[t][u] \in {"active", "inactive"}
      /\ member' = [member EXCEPT ![t][u] = "none"]
      /\ request' = [q \in Requests |->
            IF request[q].kind = "activate" /\ request[q].tenant = t /\ request[q].user = u
            THEN NoRequest ELSE request[q]]
  BY DEF RemoveMembership, SetMember
<1>2. member \in [Tenants -> [Users -> Memberships]]
  BY DEF AccessInv, AccessTypeOK
<1>3. \A s \in Tenants, v \in Users :
        member'[s][v] = IF s = t /\ v = u THEN "none" ELSE member[s][v]
  BY <1>1, <1>2
<1>4. /\ NoRequest \in RequestRows
      /\ NoRequest.kind = "none"
  BY DEF NoRequest, RequestRows
<1>5. \A q \in Requests : request'[q] \in {request[q], NoRequest}
  BY <1>1
<1>6. AccessTypeOK'
  <2>1. member' \in [Tenants -> [Users -> Memberships]]
    BY <1>1, <1>2 DEF Memberships
  <2>2. request' \in [Requests -> RequestRows]
    BY <1>1, <1>4 DEF AccessInv, AccessTypeOK
  <2> QED
    BY <1>1, <2>1, <2>2 DEF AccessInv, AccessTypeOK
<1>7. /\ \A q \in Requests :
            request'[q].kind \in {"accept", "activate"} => request'[q].user \in registered'
      /\ RequestsInvited'
  BY <1>1, <1>5, FewerRequests
<1>8. MembersRegistered'
  BY <1>1, <1>3, <1>7 DEF AccessInv, MembersRegistered
<1>9. OwnersApart'
  BY <1>3, <1>4, <1>5 DEF AccessInv, OwnersApart
<1>10. ActivatedMembers'
  BY <1>1, <1>3, <1>4 DEF AccessInv, ActivatedMembers
<1> QED
  BY <1>6, <1>7, <1>8, <1>9, <1>10 DEF AccessInv

-----------------------------------------------------------------------------
(* What a request checks before it writes                                  *)

\* Every request that begins satisfies the hypotheses of BeginInv.
LEMMA BeginningInv ==
    ASSUME AccessConstants, AccessInv, NEW q \in Requests,
           \/ \E u \in Users, i \in Invitations : BeginJoin(q, u, i)
           \/ \E t \in Tenants, u \in Users : BeginInvite(q, t, u)
           \/ \E i \in Invitations : BeginRevoke(q, i)
           \/ \E u \in Users, i \in Invitations : BeginAccept(q, u, i)
           \/ \E t \in Tenants, u \in Users : BeginActivate(q, t, u)
    PROVE  AccessInv'
<1>1. \A i \in Invitations : Pending(i) => invitation[i].tenant \in Tenants
  BY DEF Pending, AccessInv, AccessTypeOK, InvitationRows
<1>2. CASE \E u \in Users, i \in Invitations : BeginJoin(q, u, i)
  <2>1. PICK u \in Users, i \in Invitations : BeginJoin(q, u, i)
    BY <1>2
  <2> QED
    BY <1>1, <2>1, BeginInv DEF BeginJoin
<1>3. CASE \E t \in Tenants, u \in Users : BeginInvite(q, t, u)
  <2>1. PICK t \in Tenants, u \in Users : BeginInvite(q, t, u)
    BY <1>3
  <2> QED
    BY <2>1, BeginInv DEF BeginInvite
<1>4. CASE \E i \in Invitations : BeginRevoke(q, i)
  <2>1. PICK i \in Invitations : BeginRevoke(q, i)
    BY <1>4
  <2> QED
    BY <2>1, BeginInv DEF BeginRevoke
<1>5. CASE \E u \in Users, i \in Invitations : BeginAccept(q, u, i)
  <2>1. PICK u \in Users, i \in Invitations : BeginAccept(q, u, i)
    BY <1>5
  <2>2. \A s \in Tenants : member[s][u] # "owner"
    BY <2>1 DEF BeginAccept, ActiveIn
  <2> QED
    BY <1>1, <2>1, <2>2, BeginInv DEF BeginAccept
<1>6. CASE \E t \in Tenants, u \in Users : BeginActivate(q, t, u)
  <2>1. PICK t \in Tenants, u \in Users : BeginActivate(q, t, u)
    BY <1>6
  <2>2. member[t][u] = "inactive" /\ u \in registered
    BY <2>1 DEF BeginActivate, AccessInv, MembersRegistered
  <2>3. \A s \in Tenants : member[s][u] # "owner"
    BY <2>1, <2>2 DEF BeginActivate, ActiveIn
  <2> QED
    BY <2>1, <2>2, <2>3, BeginInv DEF BeginActivate
<1> QED
  BY <1>2, <1>3, <1>4, <1>5, <1>6

-----------------------------------------------------------------------------
(* The theorems about Access                                               *)

\* No step of any request breaks the invariant.
LEMMA AccessStepInv ==
    ASSUME AccessConstants, AccessInv, [AccessNext]_accessVars
    PROVE  AccessInv'
<1>1. CASE Registration
  BY <1>1, RegisterInv, CommitJoinInv, BeginningInv DEF Registration
<1>2. ASSUME NEW q \in Requests, InvitationRequest(q)
      PROVE  AccessInv'
  BY <1>2, CommitInviteInv, CommitRevokeInv, CommitAcceptInv, BeginningInv
     DEF InvitationRequest
<1>3. CASE MemberRequest
  BY <1>3, DeactivateInv, RemoveInv, CommitActivateInv, BeginningInv DEF MemberRequest
<1>4. ASSUME NEW i \in Invitations, Expire(i)
      PROVE  AccessInv'
  BY <1>4, ExpireInv
<1>5. CASE UNCHANGED accessVars
  BY <1>5 DEF accessVars, AccessInv, AccessTypeOK, MembersRegistered, OwnersApart,
              RequestsInvited, ActivatedMembers
<1> QED
  BY <1>1, <1>2, <1>3, <1>4, <1>5 DEF AccessNext

\* Registrations, invitations and the changes of members keep the invariant in
\* every order, for any numbers of users, tenants and requests in flight.
THEOREM AccessSound == AccessSpec => []AccessInv
<1>1. AccessConstants
  BY AccessConstants
<1>2. AccessInit => AccessInv
  BY <1>1, AccessInitInv
<1>3. AccessInv /\ [AccessNext]_accessVars => AccessInv'
  BY <1>1, AccessStepInv
<1> QED
  BY <1>2, <1>3, PTL DEF AccessSpec

\* The state of the accounts keeps its type.
THEOREM AccessTyped == AccessSpec => []AccessTypeOK
<1>1. AccessInv => AccessTypeOK
  BY DEF AccessInv
<1> QED
  BY <1>1, AccessSound, PTL

\* An owner acts in the tenant they own for ever, and is its only owner: nobody
\* locks the owner of a tenant out by inviting or activating them elsewhere.
THEOREM OwnersStay == AccessSpec => []OwnersNeverLockedOut
<1>1. AccessInv => OwnersNeverLockedOut
  BY DEF AccessInv, AccessTypeOK, OwnersApart, OwnersNeverLockedOut, ActiveIn, Memberships
<1> QED
  BY <1>1, AccessSound, PTL

-----------------------------------------------------------------------------
(* One tenant for each user                                                *)

\* Requests that end make nobody else active.
LEMMA FewerActivating ==
    ASSUME \A q \in Requests : request'[q] \in {request[q], NoRequest}
    PROVE  \A q \in Activating' : q \in Activating /\ request'[q] = request[q]
BY DEF Activating, NoRequest

\* Nobody becomes active anywhere, and no request checks anything.
LEMMA FewerActive ==
    ASSUME SoleTenant, OverlapsNoted, overlapped' = overlapped,
           \A u \in Users : ActiveIn(u)' \subseteq ActiveIn(u),
           \A q \in Requests : request'[q] \in {request[q], NoRequest},
           \A q \in Activating : request[q].user \in Users
    PROVE  SoleTenant' /\ OverlapsNoted'
<1>1. SoleTenant'
  BY FewerActivating DEF SoleTenant
<1>2. OverlapsNoted'
  BY FewerActivating DEF OverlapsNoted
<1> QED
  BY <1>1, <1>2

\* Who is admitted was active nowhere else, and no other request is about to
\* make them active, unless requests about them have overlapped.
LEMMA OneMoreActive ==
    ASSUME AccessTypeOK, SoleTenant, OverlapsNoted, overlapped' = overlapped,
           NEW u \in Users, NEW t \in Tenants,
           SetMember(t, u, "active") \/ SetMember(t, u, "owner"),
           u \notin overlapped => ActiveIn(u) \subseteq {t},
           \A q \in Requests : request'[q] \in {request[q], NoRequest},
           \A q \in Activating' :
              request[q].user \in Users /\ (u \notin overlapped => request[q].user # u)
    PROVE  SoleTenant' /\ OverlapsNoted'
<1>1. \A s \in Tenants, v \in Users \ {u} : member'[s][v] = member[s][v]
  BY DEF AccessTypeOK, SetMember
<1>2. \A s \in Tenants \ {t} : member'[s][u] = member[s][u]
  BY DEF AccessTypeOK, SetMember
<1>3. u \notin overlapped => ActiveIn(u)' \subseteq {t}
  BY <1>2 DEF ActiveIn
<1>4. \A v \in Users \ {u} : ActiveIn(v)' = ActiveIn(v)
  BY <1>1 DEF ActiveIn
<1>5. SoleTenant'
  BY <1>3, <1>4, FewerActivating DEF SoleTenant
<1>6. OverlapsNoted'
  BY FewerActivating DEF OverlapsNoted
<1> QED
  BY <1>5, <1>6

\* A request that begins has checked that the user is active nowhere else, and
\* is noted when it meets another.
LEMMA OneMoreRequest ==
    ASSUME AccessTypeOK, SoleTenant, OverlapsNoted, NEW q \in Requests,
           NEW kind, NEW u, NEW t, NEW i, Begin(q, kind, u, t, i),
           kind \in {"accept", "activate"} => ActiveIn(u) \subseteq {t}
    PROVE  SoleTenant' /\ OverlapsNoted'
<1>1. /\ member' = member
      /\ \A p \in Requests \ {q} : request'[p] = request[p]
      /\ request'[q].kind = kind /\ request'[q].user = u /\ request'[q].tenant = t
      /\ overlapped \subseteq overlapped'
      /\ q \notin Activating
  BY DEF Begin, AccessTypeOK, Activating, NoRequest
<1>2. \A v : ActiveIn(v)' = ActiveIn(v)
  BY <1>1 DEF ActiveIn
<1>3. ASSUME NEW p \in Activating'
      PROVE  \/ p = q /\ kind \in {"accept", "activate"}
             \/ p # q /\ p \in Activating
  <2>1. p \in Requests /\ request'[p].kind \in {"accept", "activate"}
    BY DEF Activating
  <2> QED
    BY <1>1, <2>1 DEF Activating
<1>4. \A p \in Activating :
         kind \in {"accept", "activate"} /\ request[p].user = u => u \in overlapped'
  BY DEF Begin, ActivatingAlso
<1>5. SoleTenant'
  BY <1>1, <1>2, <1>3 DEF SoleTenant, Activating
<1>6. OverlapsNoted'
  <2> SUFFICES ASSUME NEW p \in Activating', NEW r \in Activating', p # r,
                      request'[p].user = request'[r].user
               PROVE  request'[p].user \in overlapped'
    BY DEF OverlapsNoted
  <2>1. CASE p # q /\ r # q
    BY <1>1, <1>3, <2>1 DEF OverlapsNoted, Activating
  <2>2. CASE p = q \/ r = q
    BY <1>1, <1>3, <1>4, <2>2 DEF Activating
  <2> QED
    BY <2>1, <2>2
<1> QED
  BY <1>5, <1>6

\* No step of any request breaks them.
LEMMA SoleTenantStep ==
    ASSUME AccessConstants, AccessInv, SoleTenant, OverlapsNoted,
           [AccessNext]_accessVars
    PROVE  SoleTenant' /\ OverlapsNoted'
<1>1. /\ AccessTypeOK
      /\ registered \subseteq Users
      /\ member \in [Tenants -> [Users -> Memberships]]
      /\ request \in [Requests -> RequestRows]
  BY DEF AccessInv, AccessTypeOK
<1>2. \A q \in Activating : request[q].user \in Users /\ request[q].tenant \in Tenants
  BY DEF Activating, AccessInv, RequestsInvited, ActivatedMembers
<1>3. \A u \in Users : u \notin registered => ActiveIn(u) = {}
  BY DEF AccessInv, MembersRegistered, ActiveIn
<1>4. \A q \in Activating : request[q].user \in registered
  BY DEF Activating, AccessInv, MembersRegistered
<1>5. ASSUME \A q \in Requests : request'[q] \in {request[q], NoRequest}
      PROVE  \A q \in Activating' :
                request[q].user \in Users /\ request[q].user \in registered
  BY <1>2, <1>4, <1>5, FewerActivating
<1>6. ASSUME NEW u \in Users, Register(u)
      PROVE  SoleTenant' /\ OverlapsNoted'
  <2>1. request' = request /\ overlapped' = overlapped /\ u \notin registered
    BY <1>6 DEF Register
  <2>2. CASE UNCHANGED member
    BY <1>2, <2>1, <2>2, FewerActive DEF ActiveIn
  <2>3. ASSUME NEW t \in Tenants, SetMember(t, u, "owner")
        PROVE  SoleTenant' /\ OverlapsNoted'
    BY <1>1, <1>3, <1>5, <2>1, <2>3, OneMoreActive
  <2> QED
    BY <1>6, <2>2, <2>3 DEF Register
\* The requests that check.
<1>8. CASE \E q \in Requests :
             \/ \E u \in Users, i \in Invitations : BeginJoin(q, u, i) \/ BeginAccept(q, u, i)
             \/ \E t \in Tenants, u \in Users : BeginInvite(q, t, u) \/ BeginActivate(q, t, u)
             \/ \E i \in Invitations : BeginRevoke(q, i)
  <2>1. ASSUME NEW q \in Requests, NEW u \in Users, NEW i \in Invitations,
               BeginJoin(q, u, i)
        PROVE  SoleTenant' /\ OverlapsNoted'
    BY <1>1, OneMoreRequest, <2>1 DEF BeginJoin
  <2>2. ASSUME NEW q \in Requests, NEW u \in Users, NEW i \in Invitations,
               BeginAccept(q, u, i)
        PROVE  SoleTenant' /\ OverlapsNoted'
    BY <1>1, OneMoreRequest, <2>2 DEF BeginAccept
  <2>3. ASSUME NEW q \in Requests, NEW u \in Users, NEW t \in Tenants,
               BeginInvite(q, t, u)
        PROVE  SoleTenant' /\ OverlapsNoted'
    BY <1>1, OneMoreRequest, <2>3 DEF BeginInvite
  <2>4. ASSUME NEW q \in Requests, NEW u \in Users, NEW t \in Tenants,
               BeginActivate(q, t, u)
        PROVE  SoleTenant' /\ OverlapsNoted'
    BY <1>1, OneMoreRequest, <2>4 DEF BeginActivate
  <2>5. ASSUME NEW q \in Requests, NEW i \in Invitations, BeginRevoke(q, i)
        PROVE  SoleTenant' /\ OverlapsNoted'
    BY <1>1, OneMoreRequest, <2>5 DEF BeginRevoke
  <2> QED
    BY <1>8, <2>1, <2>2, <2>3, <2>4, <2>5
\* The requests that commit.
<1>9. \A q \in Requests : \A kind : Finish(q, kind) =>
        /\ request[q].kind = kind /\ request'[q] = NoRequest
        /\ \A p \in Requests \ {q} : request'[p] = request[p]
        /\ overlapped' = overlapped
  BY <1>1 DEF Finish
<1>10. ASSUME NEW q \in Requests, CommitJoin(q)
       PROVE  SoleTenant' /\ OverlapsNoted'
  <2>1. /\ request[q].kind = "join"
        /\ request'[q] = NoRequest
        /\ \A p \in Requests \ {q} : request'[p] = request[p]
        /\ overlapped' = overlapped
    BY <1>9, <1>10 DEF CommitJoin
  <2>2. request[q].user \in Users /\ request[q].tenant \in Tenants
    BY <2>1 DEF AccessInv, RequestsInvited
  <2>3. CASE UNCHANGED member
    BY <1>2, <2>1, <2>3, FewerActive DEF ActiveIn
  <2>4. CASE request[q].user \notin registered
             /\ SetMember(request[q].tenant, request[q].user, "active")
    BY <1>1, <1>3, <1>5, <2>1, <2>2, <2>4, OneMoreActive
  <2> QED
    BY <1>10, <2>3, <2>4 DEF CommitJoin, Admit
<1>11. ASSUME NEW q \in Requests, CommitAccept(q) \/ CommitActivate(q)
       PROVE  SoleTenant' /\ OverlapsNoted'
  <2>1. /\ request[q].kind \in {"accept", "activate"}
        /\ request'[q] = NoRequest
        /\ \A p \in Requests \ {q} : request'[p] = request[p]
        /\ overlapped' = overlapped
    BY <1>9, <1>11 DEF CommitAccept, CommitActivate
  <2>2. request[q].user \in Users /\ request[q].tenant \in Tenants
    BY <1>2, <2>1 DEF Activating
  <2>3. CASE UNCHANGED member
    BY <1>2, <2>1, <2>3, FewerActive DEF ActiveIn
  <2>4. CASE SetMember(request[q].tenant, request[q].user, "active")
    <3> DEFINE v == request[q].user
               r == request[q].tenant
    <3>3. q \in Activating /\ q \notin Activating'
      BY <2>1 DEF Activating, NoRequest
    <3>1. \A p \in Activating' :
             request[p].user \in Users /\ (v \notin overlapped => request[p].user # v)
      BY <1>2, <2>1, <3>3, FewerActivating DEF OverlapsNoted
    <3>2. v \notin overlapped => ActiveIn(v) \subseteq {r}
      BY <3>3 DEF SoleTenant
    <3>4. v \in Users /\ r \in Tenants /\ SetMember(r, v, "active")
      BY <2>2, <2>4
    <3> HIDE DEF v, r
    <3> QED
      BY <1>1, <2>1, <3>1, <3>2, <3>4, OneMoreActive
  <2> QED
    BY <1>11, <2>3, <2>4 DEF CommitAccept, CommitActivate, Admit
<1>12. ASSUME NEW q \in Requests, CommitInvite(q) \/ CommitRevoke(q)
       PROVE  SoleTenant' /\ OverlapsNoted'
  <2>1. /\ member' = member /\ request'[q] = NoRequest
        /\ \A p \in Requests \ {q} : request'[p] = request[p]
        /\ overlapped' = overlapped
    BY <1>9, <1>12 DEF CommitInvite, CommitRevoke
  <2> QED
    BY <1>2, <2>1, FewerActive DEF ActiveIn
<1>13. CASE \/ UNCHANGED accessVars
            \/ \E i \in Invitations : Expire(i)
  <2>1. member' = member /\ request' = request /\ overlapped' = overlapped
    BY <1>13 DEF accessVars, Expire
  <2> QED
    BY <1>2, <2>1, FewerActive DEF ActiveIn
<1>14. ASSUME NEW t \in Tenants, NEW u \in Users,
              DeactivateMembership(t, u) \/ RemoveMembership(t, u)
       PROVE  SoleTenant' /\ OverlapsNoted'
  <2>1. /\ \A q \in Requests : request'[q] \in {request[q], NoRequest}
        /\ overlapped' = overlapped
    BY <1>14 DEF DeactivateMembership, RemoveMembership
  <2>2. \A s \in Tenants, v \in Users :
           member'[s][v] \in {member[s][v], "none", "inactive"}
    BY <1>1, <1>14 DEF DeactivateMembership, RemoveMembership, SetMember
  <2>3. \A v \in Users : ActiveIn(v)' \subseteq ActiveIn(v)
    BY <2>2 DEF ActiveIn
  <2> QED
    BY <1>2, <2>1, <2>3, FewerActive
<1> QED
  BY <1>6, <1>8, <1>10, <1>11, <1>12, <1>13, <1>14
     DEF AccessNext, Registration, InvitationRequest, MemberRequest

\* A user is active in two tenants only when two requests that both made them
\* active have overlapped, and nothing else leads there: with such requests apart
\* the single-active-tenant invariant holds (activate_member, accept_invitation,
\* register).
THEOREM OneTenantWithoutOverlap == AccessSpec => []OneTenantUnlessOverlap
<1>1. AccessInit => SoleTenant /\ OverlapsNoted
  BY DEF AccessInit, SoleTenant, OverlapsNoted, Activating, ActiveIn, NoRequest
<1>2. AccessInv /\ SoleTenant /\ OverlapsNoted /\ [AccessNext]_accessVars
        => SoleTenant' /\ OverlapsNoted'
  BY SoleTenantStep, AccessConstants
<1>3. SoleTenant => OneTenantUnlessOverlap
  <2> SUFFICES ASSUME SoleTenant, NEW u \in Users \ overlapped
               PROVE  Cardinality(ActiveIn(u)) <= 1
    BY DEF OneTenantUnlessOverlap
  <2>1. CASE ActiveIn(u) = {}
    BY <2>1, FS_EmptySet
  <2>2. ASSUME NEW t \in ActiveIn(u)
        PROVE  Cardinality(ActiveIn(u)) <= 1
    <3>1. ActiveIn(u) = {t}
      BY DEF SoleTenant
    <3> QED
      BY <3>1, FS_Singleton
  <2> QED
    BY <2>1, <2>2
<1> QED
  BY <1>1, <1>2, <1>3, AccessSound, PTL DEF AccessSpec

-----------------------------------------------------------------------------
(* Drafts, versions and what members see                                   *)

\* The state the steps start from.
LEMMA DraftsTypes ==
    ASSUME DraftsInv
    PROVE  /\ drafts \in Seq(Drafts) /\ versions \in Seq(Versions)
           /\ \A d \in DOMAIN drafts : drafts[d] \in Drafts /\ d \in Nat \ {0}
           /\ \A n \in DOMAIN versions : versions[n] \in Versions /\ n \in Nat \ {0}
           /\ current \in Nat /\ archived \in BOOLEAN
           /\ task \in [open : BOOLEAN, replaces : Nat, revision : Nat]
           /\ view \in [Members -> [draft : Nat, revision : Nat, doc : Documents,
                                    pending : SUBSET Items]]
           /\ current = Len(versions)
BY DEF DraftsInv, DraftsTypeOK, VersionsBuildOnLatest

\* A new row is what it was made of.
LEMMA NewDrafts ==
    ASSUME NEW schema \in {1, 2}, NEW source \in Nat, NEW doc \in Documents
    PROVE  /\ NewDraft(schema, source, doc) \in Drafts
           /\ NewDraft(schema, source, doc).status = "editable"
           /\ NewDraft(schema, source, doc).schema = schema
           /\ NewDraft(schema, source, doc).source = source
           /\ NewDraft(schema, source, doc).doc = doc
           /\ NewDraft(schema, source, doc).known = {i \in Items : doc[i] # "none"}
BY DEF NewDraft, Drafts, DraftStatuses

\* A member who has nothing on the screen.
LEMMA NoViewTyped ==
    /\ NoView \in [draft : Nat, revision : Nat, doc : Documents, pending : SUBSET Items]
    /\ NoView.draft = 0
BY DEF NoView, EmptyDocument, Documents, Places

\* Versions rest on settled drafts.
LEMMA SettledDraftsKept ==
    ASSUME DraftsInv, UNCHANGED <<versions, current>>,
           \A d \in DOMAIN drafts :
              /\ d \in DOMAIN drafts'
              /\ drafts[d].status # "editable" => drafts'[d] = drafts[d]
    PROVE  VersionsOfDrafts' /\ EveryItemDecided' /\ VersionsBuildOnLatest'
<1>1. \A n \in DOMAIN versions :
         /\ versions[n].draft \in DOMAIN drafts'
         /\ drafts'[versions[n].draft] = drafts[versions[n].draft]
  BY DEF DraftsInv, VersionsOfDrafts
<1>2. VersionsOfDrafts'
  BY <1>1 DEF DraftsInv, VersionsOfDrafts
<1>3. EveryItemDecided'
  BY <1>1 DEF DraftsInv, EveryItemDecided
<1>4. VersionsBuildOnLatest'
  BY DEF DraftsInv, VersionsBuildOnLatest
<1> QED
  BY <1>2, <1>3, <1>4

\* A draft that changes gets a greater revision, so that views of it are old.
LEMMA ViewsAgree ==
    ASSUME DraftsInv, drafts' \in Seq(Drafts),
           \A d \in DOMAIN drafts :
              /\ d \in DOMAIN drafts'
              /\ drafts'[d] = drafts[d] \/ drafts'[d].revision = drafts[d].revision + 1,
           \A m \in Members : view'[m] \in {view[m], NoView}
    PROVE  ViewsOfRevisions'
<1> SUFFICES ASSUME NEW m \in Members, view'[m].draft # 0
             PROVE  LET d == view[m].draft IN
                    /\ view'[m] = view[m]
                    /\ d \in DOMAIN drafts'
                    /\ view[m].revision <= drafts'[d].revision
                    /\ view[m].revision = drafts'[d].revision =>
                          /\ view[m].doc = drafts'[d].doc
                          /\ view[m].pending = drafts'[d].pending
  BY DEF ViewsOfRevisions
<1>1. view'[m] = view[m]
  BY NoViewTyped
<1> DEFINE d == view[m].draft
<1>2. /\ d \in DOMAIN drafts
      /\ view[m].revision <= drafts[d].revision
      /\ view[m].revision = drafts[d].revision =>
            view[m].doc = drafts[d].doc /\ view[m].pending = drafts[d].pending
  BY <1>1 DEF DraftsInv, ViewsOfRevisions
<1>3. view[m].revision \in Nat /\ drafts[d].revision \in Nat
  BY <1>2, DraftsTypes DEF Drafts
<1> QED
  BY <1>1, <1>2, <1>3

\* A member's write: the draft is the one that the member has read, it gets its
\* next revision, and every other draft stays.
LEMMA Written ==
    ASSUME DraftsInv, NEW m \in Members, MayWrite(m),
           NEW row \in Drafts, Write(m, row),
           row.revision = drafts[view[m].draft].revision,
           row.source = drafts[view[m].draft].source,
           \A i \in row.known :
              row.doc[i] = "none" => i \in row.pending \union row.resolved,
           row.schema = 2 => \A i \in Items : row.doc[i] # "odd",
           row.schema = 1 => row.pending = {}
    PROVE  LET d == view[m].draft IN
           /\ d \in Editable
           /\ drafts' \in Seq(Drafts) /\ DOMAIN drafts' = DOMAIN drafts
           /\ drafts'[d] = [row EXCEPT !.revision = @ + 1]
           /\ \A e \in DOMAIN drafts : e # d => drafts'[e] = drafts[e]
           /\ view' \in [Members -> [draft : Nat, revision : Nat, doc : Documents,
                                     pending : SUBSET Items]]
           /\ Editable' \subseteq Editable
           /\ row.status # "editable" => Editable' = {}
           /\ ItemsKept' /\ ViewsOfRevisions'
<1> DEFINE d == view[m].draft
           new == [row EXCEPT !.revision = @ + 1]
<1>1. d \in Editable /\ d \in DOMAIN drafts /\ drafts[d].status = "editable"
  BY DEF MayWrite, Mutable, Editable
<1>2. row.revision \in Nat
  BY DEF Drafts
<1>3. /\ new \in Drafts /\ new.revision = drafts[d].revision + 1
      /\ new.status = row.status /\ new.source = row.source /\ new.schema = row.schema
      /\ new.doc = row.doc /\ new.known = row.known
      /\ new.pending = row.pending /\ new.resolved = row.resolved
  BY <1>2 DEF Drafts
<1>4. drafts' = [drafts EXCEPT ![d] = new]
  BY DEF Write
<1> HIDE DEF new
<1>5. drafts' \in Seq(Drafts) /\ DOMAIN drafts' = DOMAIN drafts /\ drafts'[d] = new
      /\ \A e \in DOMAIN drafts : e # d => drafts'[e] = drafts[e]
  BY <1>1, <1>3, <1>4, DraftsTypes
<1>6. view' \in [Members -> [draft : Nat, revision : Nat, doc : Documents,
                             pending : SUBSET Items]]
      /\ \A n \in Members : view'[n] \in {view[n], NoView}
  BY NoViewTyped, DraftsTypes DEF Write
<1>7. Editable' \subseteq Editable
  BY <1>1, <1>5 DEF Editable
<1>8. row.status # "editable" => Editable' = {}
  BY <1>1, <1>3, <1>5 DEF DraftsInv, OneEditable, Editable
<1>9. ItemsKept'
  BY <1>3, <1>5 DEF DraftsInv, ItemsKept
<1>10. ViewsOfRevisions'
  BY <1>3, <1>5, <1>6, ViewsAgree
<1> QED
  BY <1>1, <1>5, <1>6, <1>7, <1>8, <1>9, <1>10 DEF new

\* ... and with it the invariant, unless the draft is confirmed.
LEMMA WriteInv ==
    ASSUME DraftsInv, NEW m \in Members, MayWrite(m),
           NEW row \in Drafts, Write(m, row),
           row.revision = drafts[view[m].draft].revision,
           row.source = drafts[view[m].draft].source,
           \A i \in row.known :
              row.doc[i] = "none" => i \in row.pending \union row.resolved,
           row.schema = 2 => \A i \in Items : row.doc[i] # "odd",
           row.schema = 1 => row.pending = {},
           UNCHANGED <<archived, versions, current, task>>
    PROVE  DraftsInv'
<1> DEFINE d == view[m].draft
<1>1. /\ d \in Editable
      /\ drafts' \in Seq(Drafts) /\ DOMAIN drafts' = DOMAIN drafts
      /\ drafts'[d] = [row EXCEPT !.revision = @ + 1]
      /\ \A e \in DOMAIN drafts : e # d => drafts'[e] = drafts[e]
      /\ view' \in [Members -> [draft : Nat, revision : Nat, doc : Documents,
                                pending : SUBSET Items]]
      /\ Editable' \subseteq Editable
      /\ ItemsKept' /\ ViewsOfRevisions'
  BY Written
<1>2. drafts'[d].source = drafts[d].source
  BY <1>1 DEF Drafts
<1>3. DraftsTypeOK'
  BY <1>1 DEF DraftsInv, DraftsTypeOK
<1>4. OneEditable' /\ CopiesOfCurrent'
  BY <1>1, <1>2 DEF DraftsInv, OneEditable, CopiesOfCurrent, Editable
<1>5. VersionsOfDrafts' /\ EveryItemDecided' /\ VersionsBuildOnLatest'
  BY <1>1, SettledDraftsKept DEF Editable
<1> QED
  BY <1>1, <1>3, <1>4, <1>5 DEF DraftsInv

-----------------------------------------------------------------------------
(* Writes of members                                                       *)

\* The draft a member may write.
LEMMA MayWriteFacts ==
    ASSUME DraftsInv, NEW m \in Members, MayWrite(m)
    PROVE  LET d == drafts[view[m].draft] IN
           /\ view[m].draft \in DOMAIN drafts /\ d \in Drafts
           /\ view[m].doc = d.doc /\ view[m].pending = d.pending
           /\ d.status = "editable"
           /\ \A i \in d.known : d.doc[i] = "none" => i \in d.pending \union d.resolved
           /\ d.schema = 2 => \A i \in Items : d.doc[i] # "odd"
           /\ d.schema = 1 => d.pending = {}
<1>1. view[m].draft \in DOMAIN drafts /\ drafts[view[m].draft].status = "editable"
  BY DEF MayWrite, Mutable, Editable
<1> QED
  BY <1>1, DraftsTypes DEF DraftsInv, ItemsKept, ViewsOfRevisions, MayWrite

\* An edit leaves items in the document, or turns them into removed facts.
LEMMA EditInv ==
    ASSUME DraftsInv, NEW m \in Members, EditDraft(m)
    PROVE  DraftsInv'
<1> DEFINE d == view[m].draft
<1>1. PICK doc \in Merged(drafts[d].doc) :
         Write(m, [drafts[d] EXCEPT !.doc = doc,
                                    !.known = @ \union {i \in Items : doc[i] # "none"}])
  BY DEF EditDraft
<1> DEFINE row == [drafts[d] EXCEPT !.doc = doc,
                                    !.known = @ \union {i \in Items : doc[i] # "none"}]
<1>2. /\ MayWrite(m) /\ drafts[d] \in Drafts /\ drafts[d].schema = 2
      /\ \A i \in drafts[d].known :
            drafts[d].doc[i] = "none" => i \in drafts[d].pending \union drafts[d].resolved
      /\ \A i \in Items : drafts[d].doc[i] # "odd"
  BY MayWriteFacts DEF EditDraft, HasEditor
<1>3. doc \in Documents
      /\ \A i \in Items : \/ doc[i] = "none" /\ drafts[d].doc[i] = "none"
                          \/ doc[i] \in {"condition", "unsupported", "removed",
                                         "conflict", "noted"}
  BY DEF Merged
<1>4. /\ row \in Drafts /\ row.revision = drafts[d].revision
      /\ row.source = drafts[d].source /\ row.doc = doc
      /\ row.known = drafts[d].known \union {i \in Items : doc[i] # "none"}
      /\ row.pending = drafts[d].pending /\ row.resolved = drafts[d].resolved
      /\ row.schema = 2
  BY <1>2, <1>3 DEF Drafts
<1>5. \A i \in row.known : row.doc[i] = "none" => i \in row.pending \union row.resolved
  BY <1>2, <1>3, <1>4 DEF Drafts
<1>6. \A i \in Items : row.doc[i] # "odd"
  BY <1>3, <1>4
<1>7. Write(m, row) /\ UNCHANGED <<archived, versions, current, task>>
  BY <1>1 DEF EditDraft
<1> HIDE DEF row
<1> QED
  BY <1>2, <1>4, <1>5, <1>6, <1>7, WriteInv

\* A draft that is abandoned keeps its document.
LEMMA AbandonInv ==
    ASSUME DraftsInv, NEW m \in Members, AbandonDraft(m)
    PROVE  DraftsInv'
<1> DEFINE d == drafts[view[m].draft]
           row == [d EXCEPT !.status = "abandoned"]
<1>1. /\ MayWrite(m) /\ d \in Drafts
      /\ \A i \in d.known : d.doc[i] = "none" => i \in d.pending \union d.resolved
      /\ d.schema = 2 => \A i \in Items : d.doc[i] # "odd"
      /\ d.schema = 1 => d.pending = {}
  BY MayWriteFacts DEF AbandonDraft
<1>2. /\ row \in Drafts /\ row.revision = d.revision /\ row.source = d.source
      /\ row.doc = d.doc /\ row.known = d.known /\ row.schema = d.schema
      /\ row.pending = d.pending /\ row.resolved = d.resolved
  BY <1>1 DEF Drafts, DraftStatuses
<1>3. Write(m, row) /\ UNCHANGED <<archived, versions, current, task>>
  BY DEF AbandonDraft
<1> HIDE DEF row
<1> QED
  BY <1>1, <1>2, <1>3, WriteInv

\* What an upgrade leaves out is pending.
LEMMA UpgradeInv ==
    ASSUME DraftsInv, NEW m \in Members, UpgradeSchema(m)
    PROVE  DraftsInv'
<1> DEFINE d == drafts[view[m].draft]
           doc == Converted(d.doc)
           row == [d EXCEPT !.schema = 2, !.doc = doc, !.pending = Lossy(d.doc)]
<1>1. /\ MayWrite(m) /\ d \in Drafts
      /\ \A i \in d.known : d.doc[i] = "none" => i \in d.resolved
  BY MayWriteFacts DEF UpgradeSchema
<1>2. /\ doc \in Documents
      /\ \A i \in Items : doc[i] = IF d.doc[i] = "odd" THEN "none" ELSE d.doc[i]
  BY <1>1 DEF Converted, Lossy, Drafts, Documents, Places
<1>3. /\ row \in Drafts /\ row.revision = d.revision /\ row.source = d.source
      /\ row.doc = doc /\ row.known = d.known /\ row.schema = 2
      /\ row.pending = Lossy(d.doc) /\ row.resolved = d.resolved
  BY <1>1, <1>2 DEF Drafts, Lossy
<1>4. \A i \in row.known : row.doc[i] = "none" => i \in row.pending \union row.resolved
  BY <1>1, <1>2, <1>3 DEF Drafts, Lossy
<1>5. \A i \in Items : row.doc[i] # "odd"
  BY <1>2, <1>3
<1>6. Write(m, row) /\ UNCHANGED <<archived, versions, current, task>>
  BY DEF UpgradeSchema
<1> HIDE DEF row
<1> QED
  BY <1>1, <1>3, <1>4, <1>5, <1>6, WriteInv

\* What is resolved was pending, and is not pending any more.
LEMMA ResolveInv ==
    ASSUME DraftsInv, NEW m \in Members, ResolveLossyItems(m)
    PROVE  DraftsInv'
<1> DEFINE d == drafts[view[m].draft]
           Doc(dropped, added) == [i \in Items |-> IF i \in dropped THEN "removed"
                                                  ELSE IF i \in added THEN "unsupported"
                                                  ELSE d.doc[i]]
<1>1. PICK dropped \in SUBSET d.pending, downgraded \in SUBSET d.pending,
           added \in SUBSET Fresh :
         /\ dropped \union downgraded # {}
         /\ Write(m, [d EXCEPT !.doc = Doc(dropped, added),
                               !.known = @ \union added,
                               !.pending = @ \ (dropped \union downgraded),
                               !.resolved = @ \union dropped \union downgraded])
  BY DEF ResolveLossyItems
<1> DEFINE doc == Doc(dropped, added)
           row == [d EXCEPT !.doc = doc,
                            !.known = @ \union added,
                            !.pending = @ \ (dropped \union downgraded),
                            !.resolved = @ \union dropped \union downgraded]
<1>2. /\ MayWrite(m) /\ d \in Drafts
      /\ \A i \in d.known : d.doc[i] = "none" => i \in d.pending \union d.resolved
      /\ d.schema = 2 => \A i \in Items : d.doc[i] # "odd"
      /\ d.schema = 1 => d.pending = {}
  BY MayWriteFacts DEF ResolveLossyItems
<1>3. d.schema = 2
  BY <1>1, <1>2 DEF Drafts
<1>4. added \subseteq Items /\ d.pending \subseteq Items /\ d.known \subseteq Items
      /\ d.resolved \subseteq Items
  BY <1>2 DEF Fresh, Drafts
<1>5. /\ doc \in Documents
      /\ \A i \in Items : \/ doc[i] \in {"removed", "unsupported"}
                          \/ doc[i] = d.doc[i] /\ i \notin added
  BY <1>2 DEF Drafts, Documents, Places
<1> HIDE DEF doc
<1>6. /\ row \in Drafts /\ row.revision = d.revision /\ row.source = d.source
      /\ row.doc = doc /\ row.known = d.known \union added /\ row.schema = 2
      /\ row.pending = d.pending \ (dropped \union downgraded)
      /\ row.resolved = d.resolved \union dropped \union downgraded
  BY <1>2, <1>3, <1>4, <1>5 DEF Drafts
<1>7. \A i \in row.known : row.doc[i] = "none" => i \in row.pending \union row.resolved
  BY <1>2, <1>4, <1>5, <1>6
<1>8. \A i \in Items : row.doc[i] # "odd"
  BY <1>2, <1>3, <1>5, <1>6
<1>9. Write(m, row) /\ UNCHANGED <<archived, versions, current, task>>
  BY <1>1 DEF ResolveLossyItems, doc
<1> HIDE DEF row
<1> QED
  BY <1>2, <1>6, <1>7, <1>8, <1>9, WriteInv

\* A draft that is confirmed becomes the version after the current one.
LEMMA ConfirmInv ==
    ASSUME DraftsInv, NEW m \in Members, ConfirmDraft(m)
    PROVE  DraftsInv'
<1> DEFINE d == view[m].draft
           row == [drafts[d] EXCEPT !.status = "confirmed"]
           version == [draft |-> d, source |-> drafts[d].source, doc |-> drafts[d].doc]
           last == Len(versions) + 1
<1>1. /\ MayWrite(m) /\ d \in DOMAIN drafts /\ drafts[d] \in Drafts
      /\ drafts[d].status = "editable" /\ d \in Editable /\ d \in Nat
      /\ \A i \in drafts[d].known :
            drafts[d].doc[i] = "none" => i \in drafts[d].pending \union drafts[d].resolved
      /\ drafts[d].schema = 2 => \A i \in Items : drafts[d].doc[i] # "odd"
      /\ drafts[d].schema = 1 => drafts[d].pending = {}
  BY MayWriteFacts, DraftsTypes DEF ConfirmDraft, Confirmable, Editable
<1>2. /\ drafts[d].schema = 2 /\ drafts[d].pending = {}
      /\ \A i \in Items : drafts[d].doc[i] # "conflict"
  BY DEF ConfirmDraft, Confirmable, HasEditor, Undecided, Conflicts
<1>3. /\ row \in Drafts /\ row.revision = drafts[d].revision
      /\ row.source = drafts[d].source /\ row.status = "confirmed"
      /\ row.doc = drafts[d].doc /\ row.known = drafts[d].known
      /\ row.schema = drafts[d].schema
      /\ row.pending = drafts[d].pending /\ row.resolved = drafts[d].resolved
  BY <1>1 DEF Drafts, DraftStatuses
<1>4. Write(m, row) /\ UNCHANGED <<archived, task>>
      /\ versions' = Append(versions, version) /\ current' = last
  BY DEF ConfirmDraft, NextVersionNumber
<1>5. version \in Versions /\ version.draft = d /\ version.source = drafts[d].source
      /\ version.doc = drafts[d].doc
  BY <1>1 DEF Versions, Drafts
<1> HIDE DEF row, version
<1>6. /\ drafts' \in Seq(Drafts) /\ DOMAIN drafts' = DOMAIN drafts
      /\ drafts'[d] = [row EXCEPT !.revision = @ + 1]
      /\ \A e \in DOMAIN drafts : e # d => drafts'[e] = drafts[e]
      /\ view' \in [Members -> [draft : Nat, revision : Nat, doc : Documents,
                                pending : SUBSET Items]]
      /\ Editable' = {} /\ ItemsKept' /\ ViewsOfRevisions'
  BY <1>1, <1>3, <1>4, Written
<1>7. /\ drafts'[d].status = "confirmed" /\ drafts'[d].known = drafts[d].known
      /\ drafts'[d].resolved = drafts[d].resolved
  BY <1>3, <1>6 DEF Drafts
<1>8. /\ versions' \in Seq(Versions) /\ Len(versions') = last
      /\ DOMAIN versions' = DOMAIN versions \union {last} /\ versions'[last] = version
      /\ \A n \in DOMAIN versions : versions'[n] = versions[n]
      /\ last \in Nat /\ current = Len(versions)
  BY <1>4, <1>5, DraftsTypes
<1>9. DraftsTypeOK'
  BY <1>4, <1>6, <1>8 DEF DraftsInv, DraftsTypeOK
<1>10. OneEditable' /\ CopiesOfCurrent'
  BY <1>6 DEF OneEditable, CopiesOfCurrent
<1>11. \A n \in DOMAIN versions :
          /\ versions[n].draft \in DOMAIN drafts
          /\ drafts[versions[n].draft].status = "confirmed"
          /\ drafts'[versions[n].draft] = drafts[versions[n].draft]
  BY <1>1, <1>6 DEF DraftsInv, VersionsOfDrafts
<1>12. VersionsOfDrafts'
  <2> SUFFICES ASSUME NEW n \in DOMAIN versions'
               PROVE  /\ versions'[n].draft \in DOMAIN drafts'
                      /\ drafts'[versions'[n].draft].status = "confirmed"
                      /\ \A i \in Items : versions'[n].doc[i] \notin {"odd", "conflict"}
    BY DEF VersionsOfDrafts
  <2>1. CASE n = last
    BY <1>1, <1>2, <1>5, <1>6, <1>7, <1>8, <2>1
  <2>2. CASE n \in DOMAIN versions
    BY <1>6, <1>8, <1>11, <2>2 DEF DraftsInv, VersionsOfDrafts
  <2> QED
    BY <1>8, <2>1, <2>2
<1>13. EveryItemDecided'
  <2>1. \A i \in drafts[d].known : i \in Items
    BY <1>1 DEF Drafts
  <2>2. \A i \in drafts[d].known :
           /\ drafts[d].doc[i] = "none" => i \in drafts[d].resolved
           /\ drafts[d].doc[i] \notin {"odd", "conflict"}
    BY <1>1, <1>2, <2>1
  <2> QED
    BY <1>5, <1>7, <1>8, <1>11, <2>2 DEF DraftsInv, EveryItemDecided
<1>14. VersionsBuildOnLatest'
  <2>1. drafts[d].source # 0 => drafts[d].source = last - 1
    BY <1>1, <1>8 DEF DraftsInv, CopiesOfCurrent
  <2> QED
    BY <1>4, <1>5, <1>8, <2>1 DEF DraftsInv, VersionsBuildOnLatest
<1> QED
  BY <1>6, <1>9, <1>10, <1>12, <1>13, <1>14 DEF DraftsInv

-----------------------------------------------------------------------------
(* Tasks and copies                                                        *)

\* A new draft, when no other is editable any more.
LEMMA AppendInv ==
    ASSUME DraftsInv, NEW settled \in Seq(Drafts), DOMAIN settled = DOMAIN drafts,
           \A d \in DOMAIN drafts :
              \/ settled[d] = drafts[d] /\ drafts[d].status # "editable"
              \/ /\ drafts[d].status = "editable"
                 /\ settled[d].status = "replaced"
                 /\ settled[d].revision = drafts[d].revision + 1
                 /\ settled[d].doc = drafts[d].doc /\ settled[d].known = drafts[d].known
                 /\ settled[d].schema = drafts[d].schema
                 /\ settled[d].pending = drafts[d].pending
                 /\ settled[d].resolved = drafts[d].resolved,
           NEW source \in {0, current}, NEW doc \in Documents,
           \A i \in Items : doc[i] # "odd",
           drafts' = Append(settled, NewDraft(2, source, doc)),
           task' \in [open : BOOLEAN, replaces : Nat, revision : Nat],
           UNCHANGED <<archived, versions, current, view>>
    PROVE  DraftsInv'
<1> DEFINE new == NewDraft(2, source, doc)
           last == Len(drafts) + 1
<1>1. /\ new \in Drafts /\ new.status = "editable" /\ new.schema = 2
      /\ new.source = source /\ new.doc = doc
      /\ new.known = {i \in Items : doc[i] # "none"}
  BY NewDrafts, DraftsTypes
<1> HIDE DEF new
<1>2. /\ drafts' \in Seq(Drafts) /\ DOMAIN drafts' = DOMAIN drafts \union {last}
      /\ drafts'[last] = new /\ last \notin DOMAIN drafts
      /\ \A d \in DOMAIN drafts : drafts'[d] = settled[d]
  <2>1. Len(settled) = Len(drafts)
    BY DraftsTypes
  <2>2. drafts' = Append(settled, new)
    BY DEF new
  <2> QED
    BY <1>1, <2>1, <2>2, DraftsTypes
<1>3. DraftsTypeOK'
  BY <1>2 DEF DraftsInv, DraftsTypeOK
<1>4. Editable' = {last}
  BY <1>1, <1>2 DEF Editable
<1>5. OneEditable' /\ CopiesOfCurrent'
  BY <1>1, <1>2, <1>4 DEF OneEditable, CopiesOfCurrent
<1>6. ItemsKept'
  BY <1>1, <1>2 DEF DraftsInv, ItemsKept
<1>7. VersionsOfDrafts' /\ EveryItemDecided' /\ VersionsBuildOnLatest'
  BY <1>2, SettledDraftsKept
<1>8. ViewsOfRevisions'
  BY <1>2, ViewsAgree
<1> QED
  BY <1>3, <1>5, <1>6, <1>7, <1>8 DEF DraftsInv

\* The row of a draft that a result replaces.
LEMMA Replaced ==
    ASSUME NEW d \in Drafts
    PROVE  LET row == [d EXCEPT !.status = "replaced", !.revision = @ + 1] IN
           /\ row \in Drafts /\ row.status = "replaced" /\ row.revision = d.revision + 1
           /\ row.doc = d.doc /\ row.known = d.known /\ row.schema = d.schema
           /\ row.pending = d.pending /\ row.resolved = d.resolved
<1>1. d.revision + 1 \in Nat
  BY DEF Drafts
<1> QED
  BY <1>1 DEF Drafts, DraftStatuses

\* A result replaces the draft that its task was to replace, and no other is editable.
LEMMA CompleteInv ==
    ASSUME DraftsInv, CompleteTask
    PROVE  DraftsInv'
<1> DEFINE settled == [d \in DOMAIN drafts |->
                         IF d = task.replaces
                         THEN [drafts[d] EXCEPT !.status = "replaced", !.revision = @ + 1]
                         ELSE drafts[d]]
<1>1. PICK doc \in ParsedDocuments : drafts' = Append(settled, NewDraft(2, 0, doc))
  BY DEF CompleteTask
<1>2. doc \in Documents /\ \A i \in Items : doc[i] # "odd"
  BY DEF ParsedDocuments, Documents, Places
<1>3. \A d \in DOMAIN drafts :
         /\ settled[d] \in Drafts
         /\ \/ settled[d] = drafts[d] /\ drafts[d].status # "editable"
            \/ /\ drafts[d].status = "editable"
               /\ settled[d].status = "replaced"
               /\ settled[d].revision = drafts[d].revision + 1
               /\ settled[d].doc = drafts[d].doc /\ settled[d].known = drafts[d].known
               /\ settled[d].schema = drafts[d].schema
               /\ settled[d].pending = drafts[d].pending
               /\ settled[d].resolved = drafts[d].resolved
  <2> TAKE d \in DOMAIN drafts
  <2>1. drafts[d] \in Drafts /\ d # 0
    BY DraftsTypes
  <2>2. CASE d = task.replaces
    <3>1. d \in Editable /\ drafts[d].status = "editable"
      BY <2>1, <2>2 DEF CompleteTask, Replaceable, Editable
    <3> DEFINE row == [drafts[d] EXCEPT !.status = "replaced", !.revision = @ + 1]
    <3>2. settled[d] = row
      BY <2>2
    <3>3. /\ row \in Drafts /\ row.status = "replaced"
          /\ row.revision = drafts[d].revision + 1
          /\ row.doc = drafts[d].doc /\ row.known = drafts[d].known
          /\ row.schema = drafts[d].schema
          /\ row.pending = drafts[d].pending /\ row.resolved = drafts[d].resolved
      BY <2>1, Replaced
    <3> HIDE DEF row, settled
    <3> QED
      BY <3>1, <3>2, <3>3
  <2>3. CASE d # task.replaces
    <3>1. d \notin Editable
      BY <2>3 DEF CompleteTask, Replaceable, DraftsInv, OneEditable
    <3> QED
      BY <2>1, <2>3, <3>1 DEF Editable
  <2> QED
    BY <2>2, <2>3
<1>4. settled \in Seq(Drafts) /\ DOMAIN settled = DOMAIN drafts
  <2>1. Len(drafts) \in Nat /\ DOMAIN drafts = 1..Len(drafts)
    BY DraftsTypes
  <2>2. settled \in [1..Len(drafts) -> Drafts]
    BY <1>3, <2>1
  <2> HIDE DEF settled
  <2> QED
    BY <2>1, <2>2, SeqDef
<1>5. /\ task' \in [open : BOOLEAN, replaces : Nat, revision : Nat]
      /\ UNCHANGED <<archived, versions, current, view>>
  BY DEF CompleteTask, NoTask
<1> HIDE DEF settled
<1> QED
  BY <1>1, <1>2, <1>3, <1>4, <1>5, AppendInv

\* A version has nothing odd, so that its copy has nothing odd.
LEMMA CopyInv ==
    ASSUME DraftsInv, CopyVersion
    PROVE  DraftsInv'
<1>1. current \in DOMAIN versions /\ versions[current] \in Versions
  BY DraftsTypes DEF CopyVersion
<1>2. versions[current].doc \in Documents
      /\ \A i \in Items : versions[current].doc[i] # "odd"
  BY <1>1 DEF Versions, DraftsInv, VersionsOfDrafts
<1>3. /\ drafts' = Append(drafts, NewDraft(2, current, versions[current].doc))
      /\ UNCHANGED <<archived, versions, current, task, view>>
      /\ \A d \in DOMAIN drafts : drafts[d].status # "editable"
  BY DEF CopyVersion, Editable
<1> QED
  BY <1>2, <1>3, AppendInv, DraftsTypes

\* Steps that leave the drafts and versions alone.
LEMMA DraftsStayInv ==
    ASSUME DraftsInv, \/ \E m \in Members : Read(m)
                      \/ CreateTask \/ EndTask \/ ArchiveJob
                      \/ UNCHANGED draftVars
    PROVE  DraftsInv'
<1>1. UNCHANGED <<drafts, versions, current>>
  BY DEF Read, CreateTask, EndTask, ArchiveJob, draftVars
<1>2. task' \in [open : BOOLEAN, replaces : Nat, revision : Nat] /\ archived' \in BOOLEAN
  <2>1. \A d \in Editable : d \in Nat /\ drafts[d].revision \in Nat
    BY DraftsTypes DEF Editable, Drafts
  <2>2. CASE CreateTask
    <3>1. archived' \in BOOLEAN
      BY <2>2, DraftsTypes DEF CreateTask
    <3>2. CASE Editable = {}
      <4>1. task' = [NoTask EXCEPT !.open = TRUE]
        BY <2>2, <3>2 DEF CreateTask
      <4> QED
        BY <3>1, <4>1 DEF NoTask
    <3>3. CASE Editable # {}
      <4>1. PICK d \in Editable :
               task' = [open |-> TRUE, replaces |-> d, revision |-> drafts[d].revision]
        BY <2>2, <3>3 DEF CreateTask
      <4> QED
        BY <2>1, <3>1, <4>1
    <3> QED
      BY <3>2, <3>3
  <2>3. CASE EndTask
    BY <2>3, DraftsTypes DEF EndTask, NoTask
  <2>4. CASE UNCHANGED task
    BY <2>4, DraftsTypes DEF Read, CreateTask, EndTask, ArchiveJob, draftVars
  <2> QED
    BY <2>2, <2>3, <2>4 DEF Read, ArchiveJob, draftVars
<1>3. /\ view' \in [Members -> [draft : Nat, revision : Nat, doc : Documents,
                                pending : SUBSET Items]]
      /\ ViewsOfRevisions'
  <2>1. CASE UNCHANGED view
    BY <1>1, <2>1, DraftsTypes DEF DraftsInv, ViewsOfRevisions
  <2>2. CASE \E m \in Members : Read(m)
    <3>1. PICK m \in Members : Read(m)
      BY <2>2
    <3>2. PICK d \in Editable :
             view' = [view EXCEPT ![m] = [draft |-> d,
                                          revision |-> drafts[d].revision,
                                          doc |-> drafts[d].doc,
                                          pending |-> drafts[d].pending]]
      BY <3>1 DEF Read
    <3>3. d \in DOMAIN drafts /\ d \in Nat /\ drafts[d] \in Drafts
      BY DraftsTypes DEF Editable
    <3>4. drafts[d].revision \in Nat
      BY <3>3 DEF Drafts
    <3>5. view' \in [Members -> [draft : Nat, revision : Nat, doc : Documents,
                                pending : SUBSET Items]]
      BY <3>2, <3>3, DraftsTypes DEF Drafts
    <3>6. view'[m].draft = d /\ view'[m].revision = drafts[d].revision
          /\ view'[m].doc = drafts[d].doc /\ view'[m].pending = drafts[d].pending
          /\ \A n \in Members : n # m => view'[n] = view[n]
      BY <3>2, DraftsTypes
    <3> QED
      BY <1>1, <3>3, <3>4, <3>5, <3>6 DEF DraftsInv, ViewsOfRevisions
  <2> QED
    BY <2>1, <2>2 DEF CreateTask, EndTask, ArchiveJob, draftVars
<1> QED
  BY <1>1, <1>2, <1>3 DEF DraftsInv, DraftsTypeOK, OneEditable, Editable, ItemsKept,
     CopiesOfCurrent, VersionsOfDrafts, EveryItemDecided, VersionsBuildOnLatest

\* With no draft, or one of the first schema, the invariant holds.
LEMMA DraftsInitInv ==
    ASSUME DraftsInit
    PROVE  DraftsInv
<1>1. /\ drafts \in Seq(Drafts)
      /\ \A d \in DOMAIN drafts : d = 1
      /\ \A d \in DOMAIN drafts :
            /\ drafts[d].schema = 1 /\ drafts[d].source = 0 /\ drafts[d].pending = {}
            /\ drafts[d].known = {i \in Items : drafts[d].doc[i] # "none"}
  <2>1. CASE drafts = <<>>
    BY <2>1
  <2>2. CASE \E doc \in [Items -> {"none", "condition", "odd"}] :
                drafts = <<NewDraft(1, 0, doc)>>
    <3>1. PICK doc \in [Items -> {"none", "condition", "odd"}] :
             drafts = <<NewDraft(1, 0, doc)>>
      BY <2>2
    <3>2. doc \in Documents
      BY DEF Documents, Places
    <3> DEFINE new == NewDraft(1, 0, doc)
    <3>3. new \in Drafts /\ new.schema = 1 /\ new.source = 0 /\ new.pending = {}
          /\ new.doc = doc /\ new.known = {i \in Items : doc[i] # "none"}
      BY <3>2, NewDrafts DEF NewDraft
    <3> HIDE DEF new
    <3>4. drafts = <<new>>
      BY <3>1 DEF new
    <3> QED
      BY <3>3, <3>4
  <2> QED
    BY <2>1, <2>2 DEF DraftsInit
<1>2. DraftsTypeOK
  <2>1. versions \in Seq(Versions) /\ current \in 0..Len(versions) /\ archived \in BOOLEAN
    <3>1. versions = <<>> /\ current = 0
      BY DEF DraftsInit
    <3>2. versions \in Seq(Versions) /\ current \in 0..Len(versions)
      BY <3>1
    <3>3. archived \in BOOLEAN
      BY DEF DraftsInit
    <3> QED
      BY <3>2, <3>3
  <2>2. task \in [open : BOOLEAN, replaces : Nat, revision : Nat]
    BY DEF DraftsInit, NoTask
  <2>3. view \in [Members -> [draft : Nat, revision : Nat, doc : Documents,
                             pending : SUBSET Items]]
    BY NoViewTyped DEF DraftsInit
  <2> QED
    BY <1>1, <2>1, <2>2, <2>3 DEF DraftsTypeOK
<1>3. ViewsOfRevisions
  BY NoViewTyped DEF DraftsInit, ViewsOfRevisions
<1> QED
  BY <1>1, <1>2, <1>3 DEF DraftsInit, DraftsInv, OneEditable, Editable, ItemsKept,
     CopiesOfCurrent, VersionsOfDrafts, EveryItemDecided, VersionsBuildOnLatest

\* Every step keeps the invariant.
LEMMA DraftsStepInv ==
    ASSUME DraftsInv, [DraftsNext]_draftVars
    PROVE  DraftsInv'
BY EditInv, AbandonInv, ConfirmInv, UpgradeInv, ResolveInv, CompleteInv, CopyInv,
   DraftsStayInv DEF DraftsNext, DraftRequest, UpgradeRequest

-----------------------------------------------------------------------------
(* The theorems about RequirementDrafts                                    *)

\* The inductive invariant of a job's requirement: one editable draft, copies of
\* the current version, and what members see is a revision there has been.
THEOREM DraftsSound == DraftsSpec => []DraftsInv
BY DraftsInitInv, DraftsStepInv, PTL DEF DraftsSpec

\* No item a draft has had is missing from its version undecided.
THEOREM ItemsDecided == DraftsSpec => []EveryItemDecided
<1>1. DraftsInv => EveryItemDecided
  BY DEF DraftsInv
<1> QED
  BY <1>1, DraftsSound, PTL

\* The current version is the newest, and a copy follows its original.
THEOREM VersionsInOrder == DraftsSpec => []VersionsBuildOnLatest
<1>1. DraftsInv => VersionsBuildOnLatest
  BY DEF DraftsInv
<1> QED
  BY <1>1, DraftsSound, PTL

\* A write is about the document the member has read, or fails
\* (_assert_mutable, _assert_confirmable).
THEOREM WritesAreInformed == DraftsSpec => WritesWhatWasRead
<1> DEFINE Informed == \A m \in Members, d \in DOMAIN drafts :
                          /\ view[m].draft = d
                          /\ view'[m] = NoView
                          => /\ view[m].doc = drafts[d].doc
                             /\ view[m].pending = drafts[d].pending
                             /\ drafts[d].status = "editable"
<1>1. DraftsInv /\ [DraftsNext]_draftVars => Informed
  <2> SUFFICES ASSUME DraftsInv, [DraftsNext]_draftVars,
                      NEW m \in Members, NEW d \in DOMAIN drafts,
                      view[m].draft = d, view'[m] = NoView
               PROVE  /\ view[m].doc = drafts[d].doc
                      /\ view[m].pending = drafts[d].pending
                      /\ drafts[d].status = "editable"
    OBVIOUS
  <2>1. d # 0 /\ view'[m] # view[m]
    BY DraftsTypes, NoViewTyped
  <2>2. \A n \in Members : Read(n) => view'[m].draft # 0 \/ view'[m] = view[m]
    <3> TAKE n \in Members
    <3> HAVE Read(n)
    <3>1. PICK e \in Editable :
             view' = [view EXCEPT ![n] = [draft |-> e,
                                          revision |-> drafts[e].revision,
                                          doc |-> drafts[e].doc,
                                          pending |-> drafts[e].pending]]
      BY DEF Read
    <3>2. e # 0
      BY DraftsTypes DEF Editable
    <3> QED
      BY <3>1, <3>2, DraftsTypes
  <2>3. \A n \in Members : ~Read(n)
    BY <2>1, <2>2, NoViewTyped
  <2>4. PICK n \in Members : DraftRequest(n) \/ UpgradeRequest(n)
    BY <2>1, <2>3 DEF DraftsNext, CreateTask, CompleteTask, EndTask, CopyVersion,
       ArchiveJob, draftVars
  <2>5. MayWrite(n) /\ view' = [view EXCEPT ![n] = NoView]
    BY <2>4 DEF DraftRequest, UpgradeRequest, EditDraft, AbandonDraft, ConfirmDraft,
       Confirmable, UpgradeSchema, ResolveLossyItems, Write
  <2>6. n = m
    BY <2>1, <2>5, DraftsTypes
  <2> QED
    BY <2>5, <2>6, MayWriteFacts
<1> QED
  BY <1>1, DraftsSound, PTL DEF DraftsSpec, WritesWhatWasRead
=============================================================================
