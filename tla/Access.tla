------------------------------- MODULE Access -------------------------------
(***************************************************************************)
(* Accounts, tenants, memberships and invitations.  A person registers and *)
(* owns a new tenant, or joins the one that has invited them; later they   *)
(* may be deactivated, activated again or removed, and accept another      *)
(* invitation.  A user acts in the tenant of the one active membership:    *)
(* with two, no request of theirs is authenticated (scalar_one_or_none     *)
(* raises).                                                                *)
(*                                                                         *)
(* Nothing is locked.  A request that writes what it has checked checks in *)
(* one step, Begin..., and commits in another, Commit...; in between only  *)
(* the database's constraints stand.  Whoever manages members may do so at *)
(* any time; passwords, second factors and roles are left out.             *)
(*                                                                         *)
(* overlapped is a history variable: no guard reads it.                    *)
(***************************************************************************)
EXTENDS Naturals, FiniteSets

CONSTANTS
    Users,          \* people, known by their email addresses
    Admins,         \* platform_admin_emails
    Tenants,        \* tenants that can come to be
    Invitations,    \* invitations that can be created
    Requests,       \* requests that can be in flight at a time
    NULL

ASSUME AccessConstants ==
    /\ Admins \subseteq Users
    /\ IsFiniteSet(Tenants)
    /\ NULL \notin Users \union Tenants \union Invitations

VARIABLES
    registered,     \* users
    member,         \* tenant_memberships: member[t][u]
    invitation,     \* tenant_invitations
    request,        \* what each request has checked
    overlapped      \* users whom two requests were about to make active at once

accessVars == <<registered, member, invitation, request, overlapped>>

\* role and is_active; the owner is always active.
Memberships == {"none", "owner", "active", "inactive"}

InvitationRows ==
    [tenant : Tenants \union {NULL}, user : Users \union {NULL},
     accepted : BOOLEAN, revoked : BOOLEAN, expired : BOOLEAN]

NoInvitation == [tenant |-> NULL, user |-> NULL,
                 accepted |-> FALSE, revoked |-> FALSE, expired |-> FALSE]

RequestRows ==
    [kind : {"none", "invite", "revoke", "accept", "join", "activate"},
     user : Users \union {NULL}, tenant : Tenants \union {NULL},
     invitation : Invitations \union {NULL}]

NoRequest == [kind |-> "none", user |-> NULL, tenant |-> NULL, invitation |-> NULL]

AccessTypeOK ==
    /\ registered \subseteq Users
    /\ member \in [Tenants -> [Users -> Memberships]]
    /\ invitation \in [Invitations -> InvitationRows]
    /\ request \in [Requests -> RequestRows]
    /\ overlapped \subseteq Users

AccessInit ==
    /\ registered = {}
    /\ member = [t \in Tenants |-> [u \in Users |-> "none"]]
    /\ invitation = [i \in Invitations |-> NoInvitation]
    /\ request = [q \in Requests |-> NoRequest]
    /\ overlapped = {}

-----------------------------------------------------------------------------

ActiveIn(u) == {t \in Tenants : member[t][u] \in {"owner", "active"}}

Founded(t) == \E u \in Users : member[t][u] = "owner"

\* invitation_status.
Pending(i) ==
    /\ invitation[i].tenant # NULL
    /\ ~invitation[i].revoked
    /\ ~invitation[i].accepted
    /\ ~invitation[i].expired

PendingFor(t, u) ==
    {i \in Invitations : Pending(i) /\ invitation[i].tenant = t /\ invitation[i].user = u}

\* The requests that make a user with an account active in a tenant.
Activating == {q \in Requests : request[q].kind \in {"accept", "activate"}}

ActivatingAlso(kind, u) ==
    kind \in {"accept", "activate"} /\ \E q \in Activating : request[q].user = u

Begin(q, kind, u, t, i) ==
    /\ request[q] = NoRequest
    /\ request' = [request EXCEPT ![q] = [kind |-> kind, user |-> u,
                                          tenant |-> t, invitation |-> i]]
    /\ overlapped' = overlapped \union (IF ActivatingAlso(kind, u) THEN {u} ELSE {})
    /\ UNCHANGED <<registered, member, invitation>>

Finish(q, kind) ==
    /\ request[q].kind = kind
    /\ request' = [request EXCEPT ![q] = NoRequest]
    /\ UNCHANGED overlapped

SetMember(t, u, m) == member' = [member EXCEPT ![t][u] = m]

-----------------------------------------------------------------------------
(* Registration                                                            *)

\* register without an invitation; platform administrators get no tenant.
Register(u) ==
    /\ u \notin registered
    /\ registered' = registered \union {u}
    /\ \/ u \in Admins /\ UNCHANGED member
       \/ u \notin Admins /\ \E t \in Tenants : ~Founded(t) /\ SetMember(t, u, "owner")
    /\ UNCHANGED <<invitation, request, overlapped>>

\* register with an invitation: load_pending_invitation.
BeginJoin(q, u, i) ==
    /\ u \notin registered
    /\ Pending(i)
    /\ invitation[i].user = u
    /\ Begin(q, "join", u, invitation[i].tenant, i)

\* The invited user becomes a member: membership and accepted_at together.
Admit(q) ==
    /\ SetMember(request[q].tenant, request[q].user, "active")
    /\ invitation' = [invitation EXCEPT ![request[q].invitation].accepted = TRUE]

\* The address may have been registered since: users.email is unique.
CommitJoin(q) ==
    /\ Finish(q, "join")
    /\ IF request[q].user \in registered
       THEN UNCHANGED <<registered, member, invitation>>
       ELSE registered' = registered \union {request[q].user} /\ Admit(q)

-----------------------------------------------------------------------------
(* Invitations                                                             *)

\* create_invitation.
BeginInvite(q, t, u) ==
    /\ Founded(t)
    /\ t \notin ActiveIn(u)
    /\ PendingFor(t, u) = {}
    /\ Begin(q, "invite", u, t, NULL)

CommitInvite(q) ==
    /\ Finish(q, "invite")
    /\ \E i \in Invitations :
          /\ invitation[i] = NoInvitation
          /\ invitation' = [invitation EXCEPT ![i].tenant = request[q].tenant,
                                              ![i].user = request[q].user]
    /\ UNCHANGED <<registered, member>>

\* revoke_invitation.
BeginRevoke(q, i) ==
    /\ invitation[i].tenant # NULL
    /\ ~invitation[i].accepted
    /\ ~invitation[i].revoked
    /\ Begin(q, "revoke", NULL, NULL, i)

CommitRevoke(q) ==
    /\ Finish(q, "revoke")
    /\ invitation' = [invitation EXCEPT ![request[q].invitation].revoked = TRUE]
    /\ UNCHANGED <<registered, member>>

\* expires_at passes.
Expire(i) ==
    /\ Pending(i)
    /\ invitation' = [invitation EXCEPT ![i].expired = TRUE]
    /\ UNCHANGED <<registered, member, request, overlapped>>

\* Slip: only the tenant that has invited the user is looked at.
BeginAcceptElsewhere(q, u, i) ==
    /\ u \in registered
    /\ Pending(i)
    /\ invitation[i].user = u
    /\ invitation[i].tenant \notin ActiveIn(u)
    /\ Begin(q, "accept", u, invitation[i].tenant, i)

\* accept_invitation, by a user who has no active membership.
BeginAccept(q, u, i) ==
    /\ u \in registered
    /\ Pending(i)
    /\ invitation[i].user = u
    /\ ActiveIn(u) = {}
    /\ Begin(q, "accept", u, invitation[i].tenant, i)

\* uq_tenant_memberships_tenant_user refuses a second row, an inactive one
\* included, and with it the acceptance.
CommitAccept(q) ==
    /\ Finish(q, "accept")
    /\ IF member[request[q].tenant][request[q].user] = "none"
       THEN Admit(q)
       ELSE UNCHANGED <<member, invitation>>
    /\ UNCHANGED registered

-----------------------------------------------------------------------------
(* Members                                                                 *)

\* deactivate_membership; the owner is protected, here and in RemoveMembership.
DeactivateMembership(t, u) ==
    /\ member[t][u] = "active"
    /\ SetMember(t, u, "inactive")
    /\ UNCHANGED <<registered, invitation, request, overlapped>>

\* Slip: the member's other tenants are not looked at.
BeginActivateUnchecked(q, t, u) ==
    /\ member[t][u] = "inactive"
    /\ Begin(q, "activate", u, t, NULL)

\* activate_membership.
BeginActivate(q, t, u) ==
    /\ member[t][u] = "inactive"
    /\ ActiveIn(u) \ {t} = {}
    /\ Begin(q, "activate", u, t, NULL)

CommitActivate(q) ==
    /\ Finish(q, "activate")
    /\ SetMember(request[q].tenant, request[q].user, "active")
    /\ UNCHANGED <<registered, invitation>>

\* remove_membership.  Whoever is about to update the row that is gone fails
\* (StaleDataError).
RemoveMembership(t, u) ==
    /\ member[t][u] \in {"active", "inactive"}
    /\ SetMember(t, u, "none")
    /\ request' = [q \in Requests |->
          IF request[q].kind = "activate" /\ request[q].tenant = t /\ request[q].user = u
          THEN NoRequest ELSE request[q]]
    /\ UNCHANGED <<registered, invitation, overlapped>>

-----------------------------------------------------------------------------

\* POST /auth/register.
Registration ==
    \/ \E u \in Users : Register(u)
    \/ \E q \in Requests :
          \/ \E u \in Users, i \in Invitations : BeginJoin(q, u, i)
          \/ CommitJoin(q)

\* The handlers of routers/invitations.py.
InvitationRequest(q) ==
    \/ \E t \in Tenants, u \in Users : BeginInvite(q, t, u)
    \/ \E i \in Invitations : BeginRevoke(q, i)
    \/ \E u \in Users, i \in Invitations : BeginAccept(q, u, i)
    \/ CommitInvite(q)
    \/ CommitRevoke(q)
    \/ CommitAccept(q)

\* The handlers of routers/members.py.
MemberRequest ==
    \/ \E t \in Tenants, u \in Users :
          \/ DeactivateMembership(t, u)
          \/ RemoveMembership(t, u)
          \/ \E q \in Requests : BeginActivate(q, t, u)
    \/ \E q \in Requests : CommitActivate(q)

AccessNext ==
    \/ Registration
    \/ \E q \in Requests : InvitationRequest(q)
    \/ MemberRequest
    \/ \E i \in Invitations : Expire(i)

AccessSpec == AccessInit /\ [][AccessNext]_accessVars

-----------------------------------------------------------------------------
(* Invariants                                                              *)

\* Who is or is about to become a member has an account, unless they are about
\* to register.
MembersRegistered ==
    /\ \A t \in Tenants, u \in Users : member[t][u] # "none" => u \in registered
    /\ \A q \in Requests :
          request[q].kind \in {"accept", "activate"} => request[q].user \in registered

\* An owner has no other membership and is not about to get one.
OwnersApart ==
    \A t \in Tenants, u \in Users : member[t][u] = "owner" =>
        /\ \A s \in Tenants \ {t} : member[s][u] = "none"
        /\ \A v \in Users \ {u} : member[t][v] # "owner"
        /\ \A q \in Requests :
              request[q].kind \in {"accept", "activate"} => request[q].user # u

\* What a request has checked of its invitation stays so: only the marks change.
RequestsInvited ==
    \A q \in Requests : request[q].kind \in {"accept", "join"} =>
        /\ request[q].tenant \in Tenants
        /\ request[q].user \in Users
        /\ request[q].invitation \in Invitations
        /\ invitation[request[q].invitation].tenant = request[q].tenant
        /\ invitation[request[q].invitation].user = request[q].user

\* A membership that is about to be activated is there.
ActivatedMembers ==
    \A q \in Requests : request[q].kind = "activate" =>
        /\ request[q].tenant \in Tenants
        /\ request[q].user \in Users
        /\ member[request[q].tenant][request[q].user] \in {"active", "inactive"}

\* Two requests that are about to make the same user active have overlapped.
OverlapsNoted ==
    \A p, q \in Activating :
        p # q /\ request[p].user = request[q].user => request[p].user \in overlapped

\* A user whose requests have not overlapped is active in one tenant at most, and
\* in no other than the one where a request is about to make them active.
SoleTenant ==
    /\ \A u \in Users \ overlapped : \A s, t \in ActiveIn(u) : s = t
    /\ \A q \in Activating :
          request[q].user \notin overlapped =>
              ActiveIn(request[q].user) \subseteq {request[q].tenant}

-----------------------------------------------------------------------------
(* Properties                                                              *)

\* The owner of a tenant is its only one and acts in it for ever: no order of
\* invitations, acceptances and activations gives an owner a second active
\* membership, which would lock them out of their tenant (register,
\* accept_invitation, activate_member).
OwnersNeverLockedOut ==
    \A t \in Tenants, u \in Users :
        member[t][u] = "owner" =>
            /\ ActiveIn(u) = {t}
            /\ \A v \in Users \ {u} : member[t][v] # "owner"

\* A user is active in one tenant at most, "keeping the single-active-tenant
\* invariant" (activate_member), unless at some time two requests that both make
\* them active were between their check and their commit: no order of
\* registrations, acceptances, deactivations, removals and activations gives a
\* user a second tenant otherwise, whatever other requests overlap with them
\* (register, accept_invitation, activate_membership).
OneTenantUnlessOverlap ==
    \A u \in Users \ overlapped : Cardinality(ActiveIn(u)) <= 1

\* The inductive invariant.
AccessInv ==
    /\ AccessTypeOK
    /\ MembersRegistered
    /\ OwnersApart
    /\ RequestsInvited
    /\ ActivatedMembers

\* A user is active in one tenant at most, whatever overlaps.
OneTenantPerUser ==
    \A u \in Users : Cardinality(ActiveIn(u)) <= 1
=============================================================================
