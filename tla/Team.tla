-------------------------------- MODULE Team --------------------------------
(***************************************************************************)
(* The members of one organisation and the invitations to join it          *)
(* (app/services/team.py), as the concurrent requests that change them.    *)
(*                                                                         *)
(* A request is the steps between which other transactions can commit: the *)
(* principal is loaded in a transaction of its own, and every statement of *)
(* the handler's transaction sees what is committed when it starts (READ   *)
(* COMMITTED, no row is locked by a SELECT).  The ORM writes a column only *)
(* when its value differs from the one it has loaded.                      *)
(***************************************************************************)
EXTENDS Integers, FiniteSets

CONSTANTS
    Users,        \* ids of rows of app_user; an id is never used again
    Emails,
    EmailOf,      \* [Users -> Emails]: the address a row would have
    Founder,      \* the owner who signed the organisation up
    Invitations,  \* ids of rows of invitation
    Payloads,     \* bodies of PATCH /members/{id}, as MemberUpdate records
    Requests      \* requests in flight at once

VARIABLES
    account,     \* [Users -> [role, active]]: app_user
    used,        \* ids that have had a row
    invitation,  \* [Invitations -> InvitationRecord]
    joined,      \* [Invitations -> Nat]: rows created by accepting it (history)
    req,         \* [Requests -> RequestRecord]
    late         \* history: changes under way that were admitted before an active
                 \* owner was taken, or when there was none

vars == <<account, used, invitation, joined, req, late>>

Roles == {"member", "admin", "owner"}
Rank(role) == IF role = "owner" THEN 2 ELSE IF role = "admin" THEN 1 ELSE 0
CanActAs(role, required) == Rank(role) >= Rank(required)

NoRow == "none"
Activations == {"on", "off"}
AccountRecord == [role : Roles \cup {NoRow}, active : Activations]
NoAccount == [role |-> NoRow, active |-> "off"]

InvitationRecord ==
    [status : {"unused", "pending", "accepted", "revoked"}, email : Emails,
     role : Roles, expired : BOOLEAN]

Step == {"idle", "load", "count", "write", "email", "insert", "read", "revoke",
         "accept"}
\* role and active are the payload (or what the statement will write); seen
\* is the member as loaded.
Keep == "keep"
RequestRecord ==
    [pc : Step, op : {"update", "remove", "invite", "revoke", "accept"},
     actor : Users, actorRole : Roles, target : Users, role : Roles \cup {Keep},
     active : Activations \cup {Keep}, seen : AccountRecord,
     email : Emails, inv : Invitations]

\* At least one of the two is given.
MemberUpdate ==
    [role : Roles \cup {Keep}, active : Activations \cup {Keep}]
        \ {[role |-> Keep, active |-> Keep]}

ASSUME ConstantsAssumption ==
    /\ Founder \in Users
    /\ EmailOf \in [Users -> Emails]
    /\ IsFiniteSet(Users)
    /\ Invitations # {}
    /\ Payloads \subseteq MemberUpdate

Exists(u) == account[u].role # NoRow
ActiveOwners == {u \in Users : account[u].role = "owner" /\ account[u].active = "on"}
EmailTaken(e) == \E u \in Users : Exists(u) /\ EmailOf[u] = e

\* What a field holds before the request gives it a meaning.
AnyUser == Founder
AnyEmail == EmailOf[Founder]
AnyInvitation == CHOOSE i \in Invitations : TRUE
Idle ==
    [pc |-> "idle", op |-> "update", actor |-> AnyUser, actorRole |-> "member",
     target |-> AnyUser, role |-> Keep, active |-> Keep, seen |-> NoAccount,
     email |-> AnyEmail, inv |-> AnyInvitation]

Init ==
    /\ account = [u \in Users |-> IF u = Founder THEN [role |-> "owner", active |-> "on"]
                                                 ELSE NoAccount]
    /\ used = {Founder}
    /\ invitation = [i \in Invitations |->
          [status |-> "unused", email |-> AnyEmail, role |-> "member", expired |-> FALSE]]
    /\ joined = [i \in Invitations |-> 0]
    /\ req = [r \in Requests |-> Idle]
    /\ late = {}
-----------------------------------------------------------------------------
Changing == {"load", "count", "write"}

\* What the history keeps of a step.
Recorded ==
    late' = {s \in Requests :
       /\ req'[s].pc \in Changing
       /\ s \in late \/ ~(ActiveOwners \subseteq ActiveOwners') \/ ActiveOwners' = {}}

Finish(r) == req' = [req EXCEPT ![r] = Idle]
Proceed(r, pc) == req' = [req EXCEPT ![r].pc = pc]

\* current_principal and require_role(ADMIN).
Admitted(a) ==
    /\ Exists(a) /\ account[a].active = "on"
    /\ CanActAs(account[a].role, "admin")

\* update_member
BeginUpdate(r, a, u, payload) ==
    /\ req[r].pc = "idle" /\ Admitted(a)
    /\ req' = [req EXCEPT ![r] = [Idle EXCEPT !.pc = "load", !.op = "update",
                 !.actor = a, !.actorRole = account[a].role, !.target = u,
                 !.role = payload.role, !.active = payload.active]]
    /\ UNCHANGED <<account, used, invitation, joined>>
    /\ Recorded

\* remove_member: not oneself.
BeginRemove(r, a, u) ==
    /\ req[r].pc = "idle" /\ Admitted(a)
    /\ a # u
    /\ req' = [req EXCEPT ![r] = [Idle EXCEPT !.pc = "load", !.op = "remove",
                 !.actor = a, !.actorRole = account[a].role, !.target = u]]
    /\ UNCHANGED <<account, used, invitation, joined>>
    /\ Recorded

\* Mutant: the role to grant is not compared with the actor's.
MayChangeRoleOf(q, member) ==
    q.role # Keep => CanActAs(q.actorRole, member.role)

\* The guards of _apply_role_change.
MayChangeRole(q, member) ==
    q.role # Keep => /\ CanActAs(q.actorRole, q.role)
                     /\ CanActAs(q.actorRole, member.role)

\* The guards of _apply_activation_change, which sees the new role.
MayChangeActivation(q, member) ==
    q.active # Keep =>
        /\ ~(q.actor = q.target /\ q.active = "off")
        /\ CanActAs(q.actorRole, IF q.role = Keep THEN member.role ELSE q.role)

Permitted(q, member) ==
    IF q.op = "remove" THEN CanActAs(q.actorRole, member.role)
    ELSE MayChangeRole(q, member) /\ MayChangeActivation(q, member)

\* Mutant: only a removal counts the owners.
RemovesAnOwner(q, member) == member.role = "owner" /\ q.op = "remove"

\* An owner is to be removed, or to become something else.
TakesAnOwner(q, member) ==
    /\ member.role = "owner"
    /\ q.op = "remove" \/ q.role \notin {Keep, "owner"}

\* repo.get, then every guard that needs no further query.
LoadMember(r) ==
    LET q == req[r]
        member == account[q.target] IN
    /\ q.pc = "load"
    /\ \/ /\ Exists(q.target) /\ Permitted(q, member)
          /\ req' = [req EXCEPT ![r].seen = member,
                        ![r].pc = IF TakesAnOwner(q, member) THEN "count" ELSE "write"]
       \/ ~(Exists(q.target) /\ Permitted(q, member)) /\ Finish(r)
    /\ UNCHANGED <<account, used, invitation, joined>>
    /\ Recorded

\* count_active_owners
CountOwners(r) ==
    /\ req[r].pc = "count"
    /\ \/ Cardinality(ActiveOwners) > 1 /\ Proceed(r, "write")
       \/ Cardinality(ActiveOwners) <= 1 /\ Finish(r)
    /\ UNCHANGED <<account, used, invitation, joined>>
    /\ Recorded

\* The columns the UPDATE sets: those that differ from the loaded ones.
Updated(q, row) ==
    [role |-> IF q.role \in {Keep, q.seen.role} THEN row.role ELSE q.role,
     active |-> IF q.active \in {Keep, q.seen.active} THEN row.active ELSE q.active]

\* The UPDATE or DELETE and the commit.  A row that is gone makes the UPDATE
\* fail and the DELETE do nothing.
WriteMember(r) ==
    LET q == req[r] IN
    /\ q.pc = "write"
    /\ account' = [account EXCEPT ![q.target] =
          IF ~Exists(q.target) THEN @
          ELSE IF q.op = "remove" THEN NoAccount ELSE Updated(q, @)]
    /\ Finish(r)
    /\ UNCHANGED <<used, invitation, joined>>
    /\ Recorded
-----------------------------------------------------------------------------
\* invite_member: nobody hands out more authority than they hold.
BeginInvite(r, a, e, role) ==
    /\ req[r].pc = "idle" /\ Admitted(a)
    /\ CanActAs(account[a].role, role)
    /\ req' = [req EXCEPT ![r] = [Idle EXCEPT !.pc = "email", !.op = "invite",
                 !.actor = a, !.actorRole = account[a].role, !.role = role,
                 !.email = e]]
    /\ UNCHANGED <<account, used, invitation, joined>>
    /\ Recorded

\* No account has the address yet.
CheckEmail(r) ==
    /\ req[r].pc = "email"
    /\ \/ EmailTaken(req[r].email) /\ Finish(r)
       \/ ~EmailTaken(req[r].email) /\ Proceed(r, "insert")
    /\ UNCHANGED <<account, used, invitation, joined>>
    /\ Recorded

\* The partial unique index admits one pending invitation for an address.
PendingFor(e) ==
    \E i \in Invitations : invitation[i].status = "pending" /\ invitation[i].email = e

InsertInvitation(r, i) ==
    /\ req[r].pc = "insert"
    /\ ~PendingFor(req[r].email)
    /\ invitation[i].status = "unused"
    /\ invitation' = [invitation EXCEPT ![i] =
          [status |-> "pending", email |-> req[r].email, role |-> req[r].role,
           expired |-> FALSE]]
    /\ Finish(r)
    /\ UNCHANGED <<account, used, joined>>
    /\ Recorded

InvitationConflict(r) ==
    /\ req[r].pc = "insert"
    /\ PendingFor(req[r].email)
    /\ Finish(r)
    /\ UNCHANGED <<account, used, invitation, joined>>
    /\ Recorded

\* revoke_invitation reads the row ...
BeginRevoke(r, a, i) ==
    /\ req[r].pc = "idle" /\ Admitted(a)
    /\ invitation[i].status = "pending"
    /\ req' = [req EXCEPT ![r] = [Idle EXCEPT !.pc = "revoke", !.op = "revoke",
                 !.actor = a, !.actorRole = account[a].role, !.inv = i]]
    /\ UNCHANGED <<account, used, invitation, joined>>
    /\ Recorded

\* ... and writes its status, whatever that is by now.
WriteRevoked(r) ==
    /\ req[r].pc = "revoke"
    /\ invitation' = [invitation EXCEPT ![req[r].inv].status = "revoked"]
    /\ Finish(r)
    /\ UNCHANGED <<account, used, joined>>
    /\ Recorded

\* _ensure_usable
Usable(i) == invitation[i].status = "pending" /\ ~invitation[i].expired

\* accept_invitation reads the invitation and looks for the address ...
BeginAccept(r, i) ==
    /\ req[r].pc = "idle"
    /\ Usable(i)
    /\ ~EmailTaken(invitation[i].email)
    /\ req' = [req EXCEPT ![r] = [Idle EXCEPT !.pc = "accept", !.op = "accept",
                 !.inv = i, !.role = invitation[i].role]]
    /\ UNCHANGED <<account, used, invitation, joined>>
    /\ Recorded

\* ... and, after hashing the password, inserts the account, for which the
\* unique address is the arbiter, and marks the invitation.
WriteAccepted(r, u) ==
    LET i == req[r].inv IN
    /\ req[r].pc = "accept"
    /\ u \notin used /\ EmailOf[u] = invitation[i].email
    /\ ~EmailTaken(EmailOf[u])
    /\ account' = [account EXCEPT ![u] = [role |-> req[r].role, active |-> "on"]]
    /\ used' = used \cup {u}
    /\ invitation' = [invitation EXCEPT ![i].status = "accepted"]
    /\ joined' = [joined EXCEPT ![i] = @ + 1]
    /\ Finish(r)
    /\ Recorded

AcceptConflict(r) ==
    /\ req[r].pc = "accept"
    /\ EmailTaken(invitation[req[r].inv].email)
    /\ Finish(r)
    /\ UNCHANGED <<account, used, invitation, joined>>
    /\ Recorded

Expire(i) ==
    /\ invitation[i].status = "pending" /\ ~invitation[i].expired
    /\ invitation' = [invitation EXCEPT ![i].expired = TRUE]
    /\ UNCHANGED <<account, used, joined, req>>
    /\ Recorded
-----------------------------------------------------------------------------
RequestStep(r) ==
    \/ \E a, u \in Users, payload \in Payloads : BeginUpdate(r, a, u, payload)
    \/ \E a, u \in Users : BeginRemove(r, a, u)
    \/ LoadMember(r)
    \/ CountOwners(r)
    \/ WriteMember(r)
    \/ \E a \in Users, e \in Emails, role \in Roles : BeginInvite(r, a, e, role)
    \/ CheckEmail(r)
    \/ \E i \in Invitations : InsertInvitation(r, i)
    \/ InvitationConflict(r)
    \/ \E a \in Users, i \in Invitations : BeginRevoke(r, a, i)
    \/ WriteRevoked(r)
    \/ \E i \in Invitations : BeginAccept(r, i)
    \/ \E u \in Users : WriteAccepted(r, u)
    \/ AcceptConflict(r)

Next ==
    \/ \E r \in Requests : RequestStep(r)
    \/ \E i \in Invitations : Expire(i)

Spec == Init /\ [][Next]_vars
-----------------------------------------------------------------------------
TypeOK ==
    /\ account \in [Users -> AccountRecord]
    /\ used \subseteq Users
    /\ invitation \in [Invitations -> InvitationRecord]
    /\ joined \in [Invitations -> Nat]
    /\ req \in [Requests -> RequestRecord]
    /\ late \subseteq Requests

\* README.md:910-911: an organisation can never be left without an active
\* owner.
AlwaysAnOwner == ActiveOwners # {}

\* As far as the code keeps it (team.py:182, 201): the last one goes only with a change
\* that was admitted before another one took an owner.
LastOwnerGoesInARace ==
    [][AlwaysAnOwner =>
          \/ AlwaysAnOwner'
          \/ \E r \in late : req[r].pc = "write" /\ req'[r].pc = "idle"]_vars

\* README.md:911: you cannot demote yourself.
NoSelfDemotion ==
    [][\A r \in Requests :
          LET q == req[r] IN
          q.pc = "write" /\ q.actor = q.target /\ req'[r].pc = "idle" =>
              account'[q.target].role = account[q.target].role]_vars

\* An invitation lets one person in, and whether it did is what its status
\* says: a revoked one lets nobody in.
InvitationSpent ==
    \A i \in Invitations :
        joined[i] = IF invitation[i].status = "accepted" THEN 1 ELSE 0

\* What LastOwnerGoesInARace rests on: a change that nobody has overtaken, and whose
\* target is the only active owner, will leave it one.
OwnerBeside(u) == \E o \in ActiveOwners : o # u

SparesTheLast(q) ==
    q.pc \in Changing /\ ~OwnerBeside(q.target) =>
        /\ q.actorRole = "owner" => q.actor = q.target
        /\ q.pc # "load" => q.seen.role = "owner" /\ Permitted(q, q.seen)
        /\ q.pc = "write" => ~TakesAnOwner(q, q.seen)

OwnersInv ==
    \A r \in Requests \ late :
        SparesTheLast(req[r]) /\ (req[r].pc \in Changing => AlwaysAnOwner)

\* The strengthening of AuthorityConserved: what a request will write it has
\* been allowed to.
Granted(q) ==
    /\ q.pc \in {"load", "count", "write"} => q.op \in {"update", "remove"}
    /\ q.pc \in {"count", "write"} /\ q.op = "update" /\ q.role # Keep
          => CanActAs(q.actorRole, q.role)
    /\ q.pc \in {"email", "insert"} => q.role # Keep /\ CanActAs(q.actorRole, q.role)
    /\ q.pc = "accept" => q.op = "accept" /\ q.role # Keep

GrantsInv == \A r \in Requests : Granted(req[r])

\* Authority at or above a role is at work: held by an account, by the actor
\* of a request, or on its way through an invitation.
AtWork(role) ==
    \/ \E u \in Users : Exists(u) /\ CanActAs(account[u].role, role)
    \/ \E i \in Invitations :
          invitation[i].status = "pending" /\ CanActAs(invitation[i].role, role)
    \/ \E r \in Requests :
          /\ req[r].pc # "idle"
          /\ \/ CanActAs(req[r].actorRole, role)
             \/ req[r].op = "accept" /\ CanActAs(req[r].role, role)

\* Nobody hands out more authority than they hold: whatever races, authority
\* that is nowhere at work does not come into being.
AuthorityConserved == [][\A role \in Roles : ~AtWork(role) => ~AtWork(role)']_vars
=============================================================================
