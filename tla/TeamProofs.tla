----------------------------- MODULE TeamProofs -----------------------------
(***************************************************************************)
(* Proofs about Team, for any number of accounts, invitations and          *)
(* requests, all of which may overlap.                                     *)
(***************************************************************************)
EXTENDS Team, TLAPS, FiniteSetTheorems

LEMMA Transitive ==
  ASSUME NEW a, NEW b, NEW c, CanActAs(a, b), CanActAs(b, c)
  PROVE  CanActAs(a, c)
  BY DEF CanActAs, Rank

LEMMA IdleType == Idle \in RequestRecord
  <1>1. AnyInvitation \in Invitations /\ AnyUser \in Users /\ AnyEmail \in Emails
    BY ConstantsAssumption DEF AnyInvitation, AnyUser, AnyEmail
  <1>2. QED
    BY <1>1 DEF Idle, RequestRecord, Step, Keep, NoAccount, AccountRecord, Roles,
       NoRow, Activations

\* A request that rests or moves on keeps its shape.
LEMMA MoveType ==
  ASSUME TypeOK, NEW r \in Requests, NEW pc \in Step, Finish(r) \/ Proceed(r, pc)
  PROVE  req' \in [Requests -> RequestRecord]
  <1>1. CASE Finish(r)
    BY <1>1, IdleType DEF Finish, TypeOK
  <1>2. CASE Proceed(r, pc)
    <2>1. req'[r] \in RequestRecord
      BY <1>2 DEF Proceed, TypeOK, RequestRecord
    <2>2. QED
      BY <1>2, <2>1 DEF Proceed, TypeOK
  <1>3. QED
    BY <1>1, <1>2

\* An actor who is admitted has a role.
LEMMA AdmittedRole ==
  ASSUME TypeOK, NEW a \in Users, Admitted(a)
  PROVE  account[a].role \in Roles
  BY DEF TypeOK, Admitted, Exists, AccountRecord

LEMMA UpdatedType ==
  ASSUME NEW q \in RequestRecord, NEW row \in AccountRecord
  PROVE  Updated(q, row) \in AccountRecord
  <1>1. /\ q.role \in Roles \cup {Keep} /\ q.active \in Activations \cup {Keep}
        /\ row.role \in Roles \cup {NoRow} /\ row.active \in Activations
    BY DEF RequestRecord, AccountRecord
  <1>2. QED
    BY <1>1 DEF Updated, AccountRecord

LEMMA LateType ==
  ASSUME Recorded
  PROVE  late' \subseteq Requests
  BY DEF Recorded

LEMMA RequestType ==
  ASSUME TypeOK, GrantsInv, NEW r \in Requests, RequestStep(r)
  PROVE  TypeOK'
  <1> USE DEF Step
  <1>0. late' \subseteq Requests
    BY LateType DEF RequestStep, BeginUpdate, BeginRemove, LoadMember, CountOwners, WriteMember,
       BeginInvite, CheckEmail, InsertInvitation, InvitationConflict, BeginRevoke,
       WriteRevoked, BeginAccept, WriteAccepted, AcceptConflict
  <1>1. ASSUME NEW a \in Users, NEW u \in Users, NEW payload \in Payloads,
               BeginUpdate(r, a, u, payload)
        PROVE  TypeOK'
    <2>1. /\ payload.role \in Roles \cup {Keep}
          /\ payload.active \in Activations \cup {Keep}
      BY ConstantsAssumption DEF MemberUpdate
    <2>2. req'[r] \in RequestRecord
      BY <1>1, <2>1, IdleType, AdmittedRole DEF BeginUpdate, TypeOK, RequestRecord
    <2>3. QED
      BY <1>0, <1>1, <2>2 DEF BeginUpdate, TypeOK
  <1>2. ASSUME NEW a \in Users, NEW u \in Users, BeginRemove(r, a, u)
        PROVE  TypeOK'
    <2>1. req'[r] \in RequestRecord
      BY <1>2, IdleType, AdmittedRole DEF BeginRemove, TypeOK, RequestRecord
    <2>2. QED
      BY <1>0, <1>2, <2>1 DEF BeginRemove, TypeOK
  <1>3. CASE LoadMember(r)
    <2>1. account[req[r].target] \in AccountRecord
      BY DEF TypeOK, RequestRecord
    <2>2. CASE Finish(r)
      BY <1>0, <1>3, <2>2, MoveType DEF LoadMember, TypeOK
    <2>3. CASE ~Finish(r)
      <3>1. req'[r] \in RequestRecord
        BY <1>3, <2>1, <2>3 DEF LoadMember, TypeOK, RequestRecord
      <3>2. QED
        BY <1>0, <1>3, <2>3, <3>1 DEF LoadMember, TypeOK
    <2>4. QED
      BY <2>2, <2>3
  <1>4. CASE CountOwners(r)
    BY <1>0, <1>4, MoveType DEF CountOwners, TypeOK
  <1>5. CASE WriteMember(r)
    <2>1. account' \in [Users -> AccountRecord]
      <3>1. req[r] \in RequestRecord /\ account[req[r].target] \in AccountRecord
        BY DEF TypeOK, RequestRecord
      <3>2. Updated(req[r], account[req[r].target]) \in AccountRecord
        BY <3>1, UpdatedType
      <3>3. NoAccount \in AccountRecord
        BY DEF NoAccount, AccountRecord, Activations
      <3>4. QED
        BY <1>0, <1>5, <3>1, <3>2, <3>3 DEF WriteMember, TypeOK
    <2>2. QED
      BY <1>0, <1>5, <2>1, MoveType DEF WriteMember, TypeOK
  <1>6. ASSUME NEW a \in Users, NEW e \in Emails, NEW role \in Roles,
               BeginInvite(r, a, e, role)
        PROVE  TypeOK'
    <2>1. req'[r] \in RequestRecord
      BY <1>6, IdleType, AdmittedRole DEF BeginInvite, TypeOK, RequestRecord
    <2>2. QED
      BY <1>0, <1>6, <2>1 DEF BeginInvite, TypeOK
  <1>7. CASE CheckEmail(r)
    BY <1>0, <1>7, MoveType DEF CheckEmail, TypeOK
  <1>8. ASSUME NEW i \in Invitations, InsertInvitation(r, i), req[r].role # Keep
        PROVE  TypeOK'
    <2>1. req[r].role \in Roles /\ req[r].email \in Emails
      BY <1>8 DEF TypeOK, RequestRecord
    <2>2. invitation' \in [Invitations -> InvitationRecord]
      BY <1>8, <2>1 DEF InsertInvitation, TypeOK, InvitationRecord
    <2>3. QED
      BY <1>0, <1>8, <2>2, MoveType DEF InsertInvitation, TypeOK
  <1>9. CASE InvitationConflict(r)
    BY <1>0, <1>9, MoveType DEF InvitationConflict, TypeOK
  <1>10. ASSUME NEW a \in Users, NEW i \in Invitations, BeginRevoke(r, a, i)
         PROVE  TypeOK'
    <2>1. req'[r] \in RequestRecord
      BY <1>10, IdleType, AdmittedRole DEF BeginRevoke, TypeOK, RequestRecord
    <2>2. QED
      BY <1>0, <1>10, <2>1 DEF BeginRevoke, TypeOK
  <1>11. CASE WriteRevoked(r)
    <2>1. req[r].inv \in Invitations
      BY DEF TypeOK, RequestRecord
    <2>2. invitation'[req[r].inv] \in InvitationRecord
      BY <1>11, <2>1 DEF WriteRevoked, TypeOK, InvitationRecord
    <2>3. invitation' \in [Invitations -> InvitationRecord]
      BY <1>11, <2>1, <2>2 DEF WriteRevoked, TypeOK
    <2>4. QED
      BY <1>0, <1>11, <2>3, MoveType DEF WriteRevoked, TypeOK
  <1>12. ASSUME NEW i \in Invitations, BeginAccept(r, i)
         PROVE  TypeOK'
    <2>1. invitation[i].role \in Roles
      BY DEF TypeOK, InvitationRecord
    <2>2. req'[r] \in RequestRecord
      BY <1>12, <2>1, IdleType DEF BeginAccept, TypeOK, RequestRecord
    <2>3. QED
      BY <1>0, <1>12, <2>2 DEF BeginAccept, TypeOK
  <1>13. ASSUME NEW u \in Users, WriteAccepted(r, u), req[r].role # Keep
         PROVE  TypeOK'
    <2>1. req[r].inv \in Invitations /\ req[r].role \in Roles
      BY <1>13 DEF TypeOK, RequestRecord
    <2>2. account' \in [Users -> AccountRecord]
      BY <1>13, <2>1 DEF WriteAccepted, TypeOK, AccountRecord, Activations
    <2>3. invitation'[req[r].inv] \in InvitationRecord
      BY <1>13, <2>1 DEF WriteAccepted, TypeOK, InvitationRecord
    <2>4. invitation' \in [Invitations -> InvitationRecord]
      BY <1>13, <2>1, <2>3 DEF WriteAccepted, TypeOK
    <2>5. joined' \in [Invitations -> Nat] /\ used' \subseteq Users
      BY <1>13, <2>1 DEF WriteAccepted, TypeOK
    <2>6. QED
      BY <1>0, <1>13, <2>2, <2>4, <2>5, MoveType DEF WriteAccepted, TypeOK
  <1>14. CASE AcceptConflict(r)
    BY <1>0, <1>14, MoveType DEF AcceptConflict, TypeOK
  <1>15. ASSUME NEW i \in Invitations, InsertInvitation(r, i) PROVE req[r].role # Keep
    BY <1>15 DEF InsertInvitation, GrantsInv, Granted
  <1>16. ASSUME NEW u \in Users, WriteAccepted(r, u) PROVE req[r].role # Keep
    BY <1>16 DEF WriteAccepted, GrantsInv, Granted
  <1>17. QED
    BY <1>1, <1>2, <1>3, <1>4, <1>5, <1>6, <1>7, <1>8, <1>9, <1>10, <1>11, <1>12,
       <1>13, <1>14, <1>15, <1>16 DEF RequestStep

LEMMA TypeStep ==
  ASSUME TypeOK, GrantsInv, [Next]_vars
  PROVE  TypeOK'
  <1>1. ASSUME NEW i \in Invitations, Expire(i)
        PROVE  TypeOK'
    <2>1. invitation'[i] \in InvitationRecord
      BY <1>1 DEF Expire, TypeOK, InvitationRecord
    <2>2. QED
      BY <1>1, <2>1, LateType DEF Expire, TypeOK
  <1>2. CASE UNCHANGED vars
    BY <1>2 DEF vars, TypeOK
  <1>3. QED
    BY <1>1, <1>2, RequestType DEF Next
-----------------------------------------------------------------------------
(***************************************************************************)
(* Authority.                                                              *)
(***************************************************************************)
\* What a request may write was allowed when its guards ran.
LEMMA GrantsStep ==
  ASSUME TypeOK, GrantsInv, [Next]_vars
  PROVE  GrantsInv'
  <1> SUFFICES ASSUME NEW r \in Requests, RequestStep(r)
               PROVE  Granted(req'[r]) /\ \A q \in Requests : q # r => req'[q] = req[q]
    <2>1. CASE UNCHANGED req
      BY <2>1 DEF GrantsInv
    <2>2. ASSUME NEW r \in Requests, RequestStep(r),
                 Granted(req'[r]), \A q \in Requests : q # r => req'[q] = req[q]
          PROVE  GrantsInv'
      BY <2>2 DEF GrantsInv
    <2>3. QED
      BY <2>1, <2>2 DEF Next, Expire, vars
  <1>1. CASE Finish(r)
    BY <1>1 DEF Finish, Idle, Granted, TypeOK
  <1>2. ASSUME NEW pc \in {"write", "insert"}, Proceed(r, pc),
               pc = "write" => req[r].pc = "count", pc = "insert" => req[r].pc = "email"
        PROVE  Granted(req'[r]) /\ \A q \in Requests : q # r => req'[q] = req[q]
    <2>1. /\ req'[r].pc = pc /\ req'[r].op = req[r].op /\ req'[r].role = req[r].role
          /\ req'[r].actorRole = req[r].actorRole
          /\ \A q \in Requests : q # r => req'[q] = req[q]
      BY <1>2 DEF Proceed, TypeOK, RequestRecord
    <2>2. QED
      BY <1>2, <2>1 DEF Granted, GrantsInv
  <1>3. ASSUME NEW a \in Users, NEW u \in Users, NEW payload \in Payloads,
               BeginUpdate(r, a, u, payload)
        PROVE  Granted(req'[r]) /\ \A q \in Requests : q # r => req'[q] = req[q]
    BY <1>3 DEF BeginUpdate, Granted, Idle, TypeOK
  <1>4. ASSUME NEW a \in Users, NEW u \in Users, BeginRemove(r, a, u)
        PROVE  Granted(req'[r]) /\ \A q \in Requests : q # r => req'[q] = req[q]
    BY <1>4 DEF BeginRemove, Granted, Idle, TypeOK
  <1>5. CASE LoadMember(r) /\ ~Finish(r)
    <2>1. /\ req'[r].pc \in {"count", "write"} /\ req'[r].op = req[r].op
          /\ req'[r].role = req[r].role /\ req'[r].actorRole = req[r].actorRole
          /\ \A q \in Requests : q # r => req'[q] = req[q]
          /\ req[r].pc = "load"
      BY <1>5 DEF LoadMember, TypeOK, RequestRecord
    <2>2. req[r].op = "update" /\ req[r].role # Keep => CanActAs(req[r].actorRole, req[r].role)
      BY <1>5 DEF LoadMember, Permitted, MayChangeRole
    <2>3. QED
      BY <2>1, <2>2 DEF Granted, GrantsInv
  <1>6. ASSUME NEW a \in Users, NEW e \in Emails, NEW role \in Roles,
               BeginInvite(r, a, e, role)
        PROVE  Granted(req'[r]) /\ \A q \in Requests : q # r => req'[q] = req[q]
    BY <1>6 DEF BeginInvite, Granted, Idle, TypeOK, Roles, Keep
  <1>7. ASSUME NEW a \in Users, NEW i \in Invitations, BeginRevoke(r, a, i)
        PROVE  Granted(req'[r]) /\ \A q \in Requests : q # r => req'[q] = req[q]
    BY <1>7 DEF BeginRevoke, Granted, Idle, TypeOK
  <1>8. ASSUME NEW i \in Invitations, BeginAccept(r, i)
        PROVE  Granted(req'[r]) /\ \A q \in Requests : q # r => req'[q] = req[q]
    <2>1. invitation[i].role # Keep
      BY DEF TypeOK, InvitationRecord, Roles, Keep
    <2>2. QED
      BY <1>8, <2>1 DEF BeginAccept, Granted, Idle, TypeOK
  <1>9. CASE CountOwners(r)
    BY <1>1, <1>2, <1>9 DEF CountOwners
  <1>10. CASE CheckEmail(r)
    BY <1>1, <1>2, <1>10 DEF CheckEmail
  <1>11. QED
    BY <1>1, <1>3, <1>4, <1>5, <1>6, <1>7, <1>8, <1>9, <1>10 DEF RequestStep,
       LoadMember, WriteMember, InsertInvitation, InvitationConflict, WriteRevoked,
       WriteAccepted, AcceptConflict

LEMMA InductiveStart == Init => TypeOK /\ GrantsInv
  <1> SUFFICES ASSUME Init
               PROVE  TypeOK /\ GrantsInv
    OBVIOUS
  <1>1. AnyEmail \in Emails /\ Founder \in Users
    BY ConstantsAssumption DEF AnyEmail
  <1>2. account \in [Users -> AccountRecord]
    BY DEF Init, AccountRecord, NoAccount, Activations, Roles, NoRow
  <1>3. invitation \in [Invitations -> InvitationRecord] /\ joined \in [Invitations -> Nat]
    BY <1>1 DEF Init, InvitationRecord, Roles
  <1>4. req \in [Requests -> RequestRecord]
    BY IdleType DEF Init
  <1>5. GrantsInv
    BY DEF Init, GrantsInv, Granted, Idle
  <1>6. QED
    BY <1>1, <1>2, <1>3, <1>4, <1>5 DEF Init, TypeOK

LEMMA Inductive == Spec => [](TypeOK /\ GrantsInv)
  BY InductiveStart, TypeStep, GrantsStep, PTL DEF Spec

\* Every value stays in its range (app/services/team.py throughout).
THEOREM TypeCorrect == Spec => []TypeOK
  BY Inductive, PTL

\* A role that comes to be held by an account was at work already.
LEMMA HolderWasAtWork ==
  ASSUME TypeOK, GrantsInv, NEW r \in Requests, RequestStep(r), NEW role \in Roles,
         NEW u \in Users, account'[u].role # NoRow, CanActAs(account'[u].role, role)
  PROVE  AtWork(role)
  <1> DEFINE q == req[r]
  <1>1. CASE WriteMember(r)
    <2>1. CASE account'[u].role = account[u].role
      BY <1>1, <2>1 DEF AtWork, Exists
    <2>2. CASE account'[u].role # account[u].role
      <3>1. /\ u = q.target /\ q.op # "remove" /\ q.role # Keep
            /\ account'[u].role = q.role /\ q.pc = "write"
        BY <1>1, <2>2 DEF WriteMember, Updated, TypeOK, NoAccount, Exists
      <3>2. CanActAs(q.actorRole, q.role)
        BY <3>1 DEF GrantsInv, Granted
      <3>3. CanActAs(q.actorRole, role)
        BY <3>1, <3>2, Transitive
      <3>4. QED
        BY <3>1, <3>3 DEF AtWork
    <2>3. QED
      BY <2>1, <2>2
  <1>2. ASSUME NEW v \in Users, WriteAccepted(r, v)
        PROVE  AtWork(role)
    <2>1. CASE u = v
      BY <1>2, <2>1 DEF WriteAccepted, AtWork, TypeOK, GrantsInv, Granted
    <2>2. CASE u # v
      BY <1>2, <2>2 DEF WriteAccepted, AtWork, TypeOK, Exists
    <2>3. QED
      BY <2>1, <2>2
  <1>3. CASE UNCHANGED account
    BY <1>3 DEF AtWork, Exists
  <1>4. QED
    BY <1>1, <1>2, <1>3 DEF RequestStep, BeginUpdate, BeginRemove, LoadMember,
       CountOwners, BeginInvite, CheckEmail, InsertInvitation, InvitationConflict,
       BeginRevoke, WriteRevoked, BeginAccept, AcceptConflict

\* So was a role that comes to be offered by an invitation ...
LEMMA OfferWasAtWork ==
  ASSUME TypeOK, GrantsInv, NEW r \in Requests, RequestStep(r), NEW role \in Roles,
         NEW i \in Invitations, invitation'[i].status = "pending",
         CanActAs(invitation'[i].role, role)
  PROVE  AtWork(role)
  <1>1. ASSUME NEW j \in Invitations, InsertInvitation(r, j)
        PROVE  AtWork(role)
    <2>1. CASE i = j
      <3>1. req[r].pc = "insert" /\ CanActAs(req[r].role, role)
        BY <1>1, <2>1 DEF InsertInvitation, TypeOK
      <3>2. CanActAs(req[r].actorRole, req[r].role)
        BY <3>1 DEF GrantsInv, Granted
      <3>3. CanActAs(req[r].actorRole, role)
        BY <3>1, <3>2, Transitive
      <3>4. QED
        BY <3>1, <3>3 DEF AtWork
    <2>2. CASE i # j
      BY <1>1, <2>2 DEF InsertInvitation, TypeOK, AtWork
    <2>3. QED
      BY <2>1, <2>2
  <1>2. ASSUME invitation'[i] = invitation[i]
        PROVE  AtWork(role)
    BY <1>2 DEF AtWork
  <1>3. CASE WriteRevoked(r)
    <2>1. req[r].inv \in Invitations
      BY DEF TypeOK, RequestRecord
    <2>2. invitation'[i] = invitation[i] \/ invitation'[i].status = "revoked"
      BY <1>3, <2>1 DEF WriteRevoked, TypeOK, InvitationRecord
    <2>3. QED
      BY <1>2, <2>2
  <1>4. ASSUME NEW v \in Users, WriteAccepted(r, v)
        PROVE  AtWork(role)
    <2>1. req[r].inv \in Invitations
      BY DEF TypeOK, RequestRecord
    <2>2. invitation'[i] = invitation[i] \/ invitation'[i].status = "accepted"
      BY <1>4, <2>1 DEF WriteAccepted, TypeOK, InvitationRecord
    <2>3. QED
      BY <1>2, <2>2
  <1>5. CASE UNCHANGED invitation
    BY <1>2, <1>5
  <1>6. QED
    BY <1>1, <1>3, <1>4, <1>5 DEF RequestStep, BeginUpdate, BeginRemove, LoadMember,
       CountOwners, WriteMember, BeginInvite, CheckEmail, InvitationConflict,
       BeginRevoke, BeginAccept, AcceptConflict

\* ... or used by a request.
LEMMA ActorWasAtWork ==
  ASSUME TypeOK, GrantsInv, NEW r \in Requests, RequestStep(r), NEW role \in Roles,
         NEW s \in Requests, req'[s].pc # "idle",
         \/ CanActAs(req'[s].actorRole, role)
         \/ req'[s].op = "accept" /\ CanActAs(req'[s].role, role)
  PROVE  AtWork(role)
  <1>1. ASSUME req[s].pc # "idle", req'[s].actorRole = req[s].actorRole,
               req'[s].op = req[s].op, req'[s].role = req[s].role
        PROVE  AtWork(role)
    BY <1>1 DEF AtWork
  <1>2. CASE Finish(r)
    BY <1>1, <1>2 DEF Finish, Idle, TypeOK
  <1>3. ASSUME NEW pc, Proceed(r, pc), req[r].pc # "idle"
        PROVE  AtWork(role)
    <2>1. /\ req[s].pc # "idle" /\ req'[s].actorRole = req[s].actorRole
          /\ req'[s].op = req[s].op /\ req'[s].role = req[s].role
      BY <1>3 DEF Proceed, TypeOK, RequestRecord
    <2>2. QED
      BY <1>1, <2>1
  <1>4. ASSUME NEW a \in Users, Admitted(a), req'[r].actorRole = account[a].role,
               req'[r].op # "accept", \A t \in Requests : t # r => req'[t] = req[t]
        PROVE  AtWork(role)
    <2>1. CASE s = r
      BY <1>4, <2>1 DEF AtWork, Admitted
    <2>2. CASE s # r
      BY <1>1, <1>4, <2>2
    <2>3. QED
      BY <2>1, <2>2
  <1>5. ASSUME NEW a \in Users, NEW u \in Users, NEW payload \in Payloads,
               BeginUpdate(r, a, u, payload)
        PROVE  AtWork(role)
    BY <1>4, <1>5 DEF BeginUpdate, Idle, TypeOK
  <1>6. ASSUME NEW a \in Users, NEW u \in Users, BeginRemove(r, a, u)
        PROVE  AtWork(role)
    BY <1>4, <1>6 DEF BeginRemove, Idle, TypeOK
  <1>7. ASSUME NEW a \in Users, NEW e \in Emails, NEW p \in Roles, BeginInvite(r, a, e, p)
        PROVE  AtWork(role)
    BY <1>4, <1>7 DEF BeginInvite, Idle, TypeOK
  <1>8. ASSUME NEW a \in Users, NEW i \in Invitations, BeginRevoke(r, a, i)
        PROVE  AtWork(role)
    BY <1>4, <1>8 DEF BeginRevoke, Idle, TypeOK
  <1>9. ASSUME NEW i \in Invitations, BeginAccept(r, i)
        PROVE  AtWork(role)
    <2>1. CASE s = r
      <3>1. /\ req'[s].role = invitation[i].role /\ req'[s].actorRole = "member"
            /\ invitation[i].status = "pending" /\ invitation[i].role \in Roles
        BY <1>9, <2>1 DEF BeginAccept, Usable, Idle, TypeOK, InvitationRecord
      <3>2. CanActAs(invitation[i].role, role)
        BY <3>1 DEF CanActAs, Rank, Roles
      <3>3. QED
        BY <3>1, <3>2 DEF AtWork
    <2>2. CASE s # r
      BY <1>1, <1>9, <2>2 DEF BeginAccept, TypeOK
    <2>3. QED
      BY <2>1, <2>2
  <1>10. CASE LoadMember(r) /\ ~Finish(r)
    <2>1. /\ req[r].pc = "load" /\ req'[r].actorRole = req[r].actorRole
          /\ req'[r].op = req[r].op /\ req'[r].role = req[r].role
          /\ \A t \in Requests : t # r => req'[t] = req[t]
      BY <1>10 DEF LoadMember, TypeOK, RequestRecord
    <2>2. CASE s = r
      BY <1>1, <2>1, <2>2
    <2>3. CASE s # r
      BY <1>1, <2>1, <2>3
    <2>4. QED
      BY <2>2, <2>3
  <1>11. CASE CountOwners(r) \/ CheckEmail(r)
    BY <1>2, <1>3, <1>11 DEF CountOwners, CheckEmail
  <1>12. QED
    BY <1>2, <1>5, <1>6, <1>7, <1>8, <1>9, <1>10, <1>11 DEF RequestStep, LoadMember,
       WriteMember, InsertInvitation, InvitationConflict, WriteRevoked,
       WriteAccepted, AcceptConflict

LEMMA AuthorityStep ==
  ASSUME TypeOK, GrantsInv, [Next]_vars
  PROVE  \A role \in Roles : ~AtWork(role) => ~AtWork(role)'
  <1> SUFFICES ASSUME NEW role \in Roles, AtWork(role)'
               PROVE  AtWork(role)
    OBVIOUS
  <1>1. ASSUME NEW r \in Requests, RequestStep(r)
        PROVE  AtWork(role)
    <2>1. ASSUME NEW u \in Users, account'[u].role # NoRow, CanActAs(account'[u].role, role)
          PROVE  AtWork(role)
      BY <1>1, <2>1, HolderWasAtWork
    <2>2. ASSUME NEW i \in Invitations, invitation'[i].status = "pending",
                 CanActAs(invitation'[i].role, role)
          PROVE  AtWork(role)
      BY <1>1, <2>2, OfferWasAtWork
    <2>3. \/ \E u \in Users : account'[u].role # NoRow /\ CanActAs(account'[u].role, role)
          \/ \E i \in Invitations :
                invitation'[i].status = "pending" /\ CanActAs(invitation'[i].role, role)
          \/ \E s \in Requests :
                /\ req'[s].pc # "idle"
                /\ \/ CanActAs(req'[s].actorRole, role)
                   \/ req'[s].op = "accept" /\ CanActAs(req'[s].role, role)
      BY DEF AtWork, Exists, CanActAs
    <2>4. CASE \E u \in Users : account'[u].role # NoRow /\ CanActAs(account'[u].role, role)
      BY <2>1, <2>4
    <2>5. CASE \E i \in Invitations :
                  invitation'[i].status = "pending" /\ CanActAs(invitation'[i].role, role)
      BY <2>2, <2>5
    <2>6. CASE \E s \in Requests :
                  /\ req'[s].pc # "idle"
                  /\ \/ CanActAs(req'[s].actorRole, role)
                     \/ req'[s].op = "accept" /\ CanActAs(req'[s].role, role)
      BY <1>1, <2>6, ActorWasAtWork
    <2>7. QED
      BY <2>3, <2>4, <2>5, <2>6
  <1>2. ASSUME NEW i \in Invitations, Expire(i)
        PROVE  AtWork(role)
    BY <1>2 DEF Expire, AtWork, Exists, TypeOK, InvitationRecord
  <1>3. CASE UNCHANGED vars
    BY <1>3 DEF vars, AtWork, Exists
  <1>4. QED
    BY <1>1, <1>2, <1>3 DEF Next

\* Nobody hands out more authority than they hold: whatever requests race,
\* authority that is nowhere at work does not come into being (the guards of
\* invite_member and _apply_role_change).
THEOREM AuthorityConservedHolds == Spec => AuthorityConserved
  <1>1. TypeOK /\ GrantsInv /\ [Next]_vars
           => [\A role \in Roles : ~AtWork(role) => ~AtWork(role)']_vars
    BY AuthorityStep
  <1>2. QED
    BY Inductive, <1>1, PTL DEF Spec, AuthorityConserved
-----------------------------------------------------------------------------
(***************************************************************************)
(* Owners.                                                                 *)
(***************************************************************************)
LEMMA CountedTwo ==
  ASSUME NEW t, Cardinality(ActiveOwners) > 1
  PROVE  OwnerBeside(t)
  <1> SUFFICES ASSUME \A o \in ActiveOwners : o = t
               PROVE  FALSE
    BY DEF OwnerBeside
  <1>1. IsFiniteSet({t}) /\ Cardinality({t}) = 1
    BY FS_Singleton
  <1>2. ActiveOwners \in SUBSET {t}
    OBVIOUS
  <1>3. Cardinality(ActiveOwners) <= Cardinality({t})
    BY <1>1, <1>2, FS_Subset
  <1>4. IsFiniteSet(ActiveOwners)
    BY <1>1, <1>2, FS_Subset
  <1>5. Cardinality(ActiveOwners) \in Nat
    BY <1>4, FS_CardinalityType
  <1>6. QED
    BY <1>1, <1>3, <1>5

\* An owner the step leaves alone is enough.
LEMMA OwnerStays ==
  ASSUME NEW o \in ActiveOwners, account'[o] = account[o]
  PROVE  AlwaysAnOwner'
  BY DEF ActiveOwners, AlwaysAnOwner

\* A change that nobody has overtaken leaves an owner.
LEMMA WriteKeepsAnOwner ==
  ASSUME TypeOK, GrantsInv, AlwaysAnOwner, NEW r \in Requests, SparesTheLast(req[r]),
         WriteMember(r)
  PROVE  AlwaysAnOwner'
  <1> DEFINE q == req[r]
             t == q.target
  <1>1. q.pc = "write" /\ q.op \in {"update", "remove"} /\ t \in Users
    BY DEF WriteMember, GrantsInv, Granted, TypeOK, RequestRecord
  <1>2. \A o \in Users : o # t => account'[o] = account[o]
    BY DEF WriteMember, TypeOK
  <1>3. CASE OwnerBeside(t)
    <2>1. PICK o \in ActiveOwners : o # t
      BY <1>3 DEF OwnerBeside
    <2>2. account'[o] = account[o]
      BY <1>2, <2>1 DEF ActiveOwners
    <2>3. QED
      BY <2>1, <2>2, OwnerStays
  <1>4. CASE ~OwnerBeside(t)
    <2>1. t \in ActiveOwners
      BY <1>4 DEF AlwaysAnOwner, OwnerBeside
    <2>2. account[t].role = "owner" /\ account[t].active = "on"
      BY <2>1 DEF ActiveOwners
    <2>3. /\ q.actorRole = "owner" => q.actor = t
          /\ q.seen.role = "owner" /\ Permitted(q, q.seen) /\ ~TakesAnOwner(q, q.seen)
      BY <1>1, <1>4 DEF SparesTheLast, Changing
    <2>4. q.op = "update" /\ q.role \in {Keep, "owner"}
      BY <1>1, <2>3 DEF TakesAnOwner
    <2>5. q.active # "off"
      <3> SUFFICES ASSUME q.active = "off"
                   PROVE  FALSE
        OBVIOUS
      <3>1. q.actor # t /\ CanActAs(q.actorRole, "owner")
        BY <2>3, <2>4 DEF Permitted, MayChangeActivation, Keep
      <3>2. q.actorRole = "owner"
        BY <3>1 DEF CanActAs, Rank
      <3>3. QED
        BY <2>3, <3>1, <3>2
    <2>6. q.active \in {Keep, "on"}
      BY <2>5 DEF TypeOK, RequestRecord, Activations
    <2>7. account'[t] = Updated(q, account[t])
      BY <1>1, <2>2, <2>4 DEF WriteMember, TypeOK, Exists, NoRow
    <2>8. account'[t].role = "owner" /\ account'[t].active = "on"
      BY <2>2, <2>3, <2>4, <2>6, <2>7 DEF Updated
    <2>9. QED
      BY <1>1, <2>8 DEF AlwaysAnOwner, ActiveOwners
  <1>5. QED
    BY <1>3, <1>4

\* Nothing else takes an owner.
LEMMA OwnersStay ==
  ASSUME TypeOK, NEW r \in Requests, RequestStep(r), ~WriteMember(r)
  PROVE  ActiveOwners \subseteq ActiveOwners'
  <1>1. CASE UNCHANGED account
    BY <1>1 DEF ActiveOwners
  <1>2. ASSUME NEW u \in Users, WriteAccepted(r, u)
        PROVE  ActiveOwners \subseteq ActiveOwners'
    <2>1. ASSUME NEW o \in ActiveOwners
          PROVE  o \in ActiveOwners'
      <3>1. o \in Users /\ Exists(o)
        BY DEF ActiveOwners, Exists, NoRow
      <3>2. o # u
        BY <1>2, <3>1 DEF WriteAccepted, EmailTaken
      <3>3. account'[o] = account[o]
        BY <1>2, <3>1, <3>2 DEF WriteAccepted, TypeOK
      <3>4. QED
        BY <3>1, <3>3 DEF ActiveOwners
    <2>2. QED
      BY <2>1
  <1>3. QED
    BY <1>1, <1>2 DEF RequestStep, BeginUpdate, BeginRemove, LoadMember,
       CountOwners, BeginInvite, CheckEmail, InsertInvitation, InvitationConflict,
       BeginRevoke, WriteRevoked, BeginAccept, AcceptConflict

LEMMA OthersWait ==
  ASSUME TypeOK, NEW r \in Requests, RequestStep(r), NEW s \in Requests, s # r
  PROVE  req'[s] = req[s]
  BY DEF TypeOK, RequestStep, BeginUpdate, BeginRemove, LoadMember, CountOwners, WriteMember,
     BeginInvite, CheckEmail, InsertInvitation, InvitationConflict, BeginRevoke,
     WriteRevoked, BeginAccept, WriteAccepted, AcceptConflict, Finish, Proceed

\* The last owner a request finds is one it will spare.
LEMMA OwnStepSpares ==
  ASSUME TypeOK, GrantsInv, NEW r \in Requests, RequestStep(r), SparesTheLast(req[r]),
         req[r].pc \in Changing => AlwaysAnOwner,
         req'[r].pc \in Changing
  PROVE  SparesTheLast(req[r])'
  <1> SUFFICES ASSUME ~OwnerBeside(req[r].target)'
               PROVE  /\ req'[r].actorRole = "owner" => req'[r].actor = req'[r].target
                      /\ req'[r].pc # "load" =>
                            req'[r].seen.role = "owner" /\ Permitted(req'[r], req'[r].seen)
                      /\ req'[r].pc = "write" => ~TakesAnOwner(req'[r], req'[r].seen)
    BY DEF SparesTheLast, Permitted, MayChangeRole, MayChangeActivation, TakesAnOwner
  <1>1. ASSUME UNCHANGED account
        PROVE  \A o \in ActiveOwners : o = req'[r].target
    BY <1>1 DEF OwnerBeside, ActiveOwners
  <1>2. ASSUME NEW a \in Users, Admitted(a), UNCHANGED account, req'[r].actor = a,
               req'[r].actorRole = account[a].role
        PROVE  req'[r].actorRole = "owner" => req'[r].actor = req'[r].target
    BY <1>1, <1>2 DEF Admitted, ActiveOwners
  <1>3. ASSUME NEW a \in Users, NEW u \in Users, NEW payload \in Payloads,
               BeginUpdate(r, a, u, payload)
        PROVE  /\ req'[r].actorRole = "owner" => req'[r].actor = req'[r].target
               /\ req'[r].pc = "load"
    <2>1. /\ Admitted(a) /\ UNCHANGED account /\ req'[r].actor = a
          /\ req'[r].actorRole = account[a].role /\ req'[r].pc = "load"
      BY <1>3 DEF BeginUpdate, Idle, TypeOK
    <2>2. QED
      BY <1>2, <2>1
  <1>4. ASSUME NEW a \in Users, NEW u \in Users, BeginRemove(r, a, u)
        PROVE  /\ req'[r].actorRole = "owner" => req'[r].actor = req'[r].target
               /\ req'[r].pc = "load"
    <2>1. /\ Admitted(a) /\ UNCHANGED account /\ req'[r].actor = a
          /\ req'[r].actorRole = account[a].role /\ req'[r].pc = "load"
      BY <1>4 DEF BeginRemove, Idle, TypeOK
    <2>2. QED
      BY <1>2, <2>1
  <1>5. CASE LoadMember(r)
    <2> DEFINE q == req[r]
               member == account[q.target]
    <2>1. ~Finish(r)
      BY DEF Finish, Idle, TypeOK, Changing
    <2>2. /\ Permitted(q, member) /\ q.pc = "load"
          /\ req'[r].actor = q.actor /\ req'[r].actorRole = q.actorRole
          /\ req'[r].target = q.target /\ req'[r].op = q.op
          /\ req'[r].role = q.role /\ req'[r].active = q.active
          /\ req'[r].seen = member
          /\ req'[r].pc = "write" => ~TakesAnOwner(q, member)
          /\ UNCHANGED account
      BY <1>5, <2>1 DEF LoadMember, TypeOK, RequestRecord
    <2>3. q.target \in ActiveOwners
      BY <1>1, <2>2 DEF AlwaysAnOwner, Changing
    <2>4. member.role = "owner"
      BY <2>3 DEF ActiveOwners
    <2>5. ~OwnerBeside(q.target)
      BY <1>1, <2>2 DEF OwnerBeside
    <2>6. q.actorRole = "owner" => q.actor = q.target
      BY <2>2, <2>5 DEF SparesTheLast, Changing
    <2> HIDE DEF q, member
    <2>7. Permitted(req'[r], member) /\ (TakesAnOwner(req'[r], member) => TakesAnOwner(q, member))
      BY <2>2 DEF Permitted, MayChangeRole, MayChangeActivation, TakesAnOwner
    <2>8. QED
      BY <2>2, <2>4, <2>6, <2>7
  <1>6. CASE CountOwners(r)
    <2>1. ~Finish(r)
      BY DEF Finish, Idle, TypeOK, Changing
    <2>2. UNCHANGED account /\ Cardinality(ActiveOwners) > 1
      BY <1>6, <2>1 DEF CountOwners
    <2>3. QED
      BY <1>1, <2>2, CountedTwo DEF OwnerBeside
  <1>7. ASSUME \/ Finish(r)
               \/ req'[r].pc \in {"insert", "email", "revoke", "accept"}
        PROVE  FALSE
    BY <1>7 DEF Finish, Idle, TypeOK, Changing
  <1>8. CASE CheckEmail(r)
    BY <1>7, <1>8 DEF CheckEmail, Proceed, TypeOK, RequestRecord
  <1>9. ASSUME NEW a \in Users, NEW e \in Emails, NEW role \in Roles,
               BeginInvite(r, a, e, role)
        PROVE  FALSE
    BY <1>7, <1>9 DEF BeginInvite, Idle, TypeOK
  <1>10. ASSUME NEW a \in Users, NEW i \in Invitations, BeginRevoke(r, a, i)
         PROVE  FALSE
    BY <1>7, <1>10 DEF BeginRevoke, Idle, TypeOK
  <1>11. ASSUME NEW i \in Invitations, BeginAccept(r, i)
         PROVE  FALSE
    BY <1>7, <1>11 DEF BeginAccept, Idle, TypeOK
  <1>12. QED
    BY <1>3, <1>4, <1>5, <1>6, <1>7, <1>8, <1>9, <1>10, <1>11 DEF RequestStep, WriteMember,
       InsertInvitation, InvitationConflict, WriteRevoked, WriteAccepted, AcceptConflict

LEMMA Remembers ==
  ASSUME NEW r \in Requests, RequestStep(r)
  PROVE  Recorded
  BY DEF RequestStep, BeginUpdate, BeginRemove, LoadMember, CountOwners, WriteMember,
     BeginInvite, CheckEmail, InsertInvitation, InvitationConflict, BeginRevoke,
     WriteRevoked, BeginAccept, WriteAccepted, AcceptConflict

LEMMA OwnersStep ==
  ASSUME TypeOK, GrantsInv, OwnersInv, [Next]_vars
  PROVE  OwnersInv'
  <1> SUFFICES ASSUME NEW s \in Requests, s \notin late', req'[s].pc \in Changing
               PROVE  AlwaysAnOwner' /\ SparesTheLast(req[s])'
    BY DEF OwnersInv, SparesTheLast
  <1>1. CASE UNCHANGED vars
    <2>1. s \notin late /\ req[s].pc \in Changing /\ UNCHANGED <<account, req>>
      BY <1>1 DEF vars
    <2>2. AlwaysAnOwner /\ SparesTheLast(req[s])
      BY <2>1 DEF OwnersInv
    <2>3. QED
      BY <2>1, <2>2 DEF AlwaysAnOwner, ActiveOwners, SparesTheLast, OwnerBeside, Permitted,
         MayChangeRole, MayChangeActivation, TakesAnOwner
  <1>2. CASE Recorded
    <2>1. s \notin late /\ ActiveOwners \subseteq ActiveOwners' /\ AlwaysAnOwner'
      BY <1>2 DEF Recorded, AlwaysAnOwner
    <2>2. SparesTheLast(req[s]) /\ (req[s].pc \in Changing => AlwaysAnOwner)
      BY <2>1 DEF OwnersInv
    <2>3. ASSUME req'[s] = req[s]
          PROVE  SparesTheLast(req[s])'
      <3>1. OwnerBeside(req[s].target) => OwnerBeside(req[s].target)'
        BY <2>1, <2>3 DEF OwnerBeside
      <3>2. QED
        BY <2>2, <2>3, <3>1 DEF SparesTheLast, Permitted, MayChangeRole,
           MayChangeActivation, TakesAnOwner
    <2>4. ASSUME NEW r \in Requests, RequestStep(r)
          PROVE  SparesTheLast(req[s])'
      <3>1. CASE s = r
        BY <2>2, <2>4, <3>1, OwnStepSpares
      <3>2. CASE s # r
        BY <2>3, <2>4, <3>2, OthersWait
      <3>3. QED
        BY <3>1, <3>2
    <2>5. ASSUME NEW i \in Invitations, Expire(i)
          PROVE  SparesTheLast(req[s])'
      BY <2>3, <2>5 DEF Expire
    <2>6. CASE UNCHANGED vars
      BY <2>1, <2>3, <2>6 DEF vars
    <2>7. QED
      BY <2>1, <2>4, <2>5, <2>6 DEF Next
  <1>3. QED
    BY <1>1, <1>2, Remembers DEF Next, Expire

LEMMA LastOwnerStep ==
  ASSUME TypeOK, GrantsInv, OwnersInv, [Next]_vars, AlwaysAnOwner
  PROVE  \/ AlwaysAnOwner'
         \/ \E r \in late : req[r].pc = "write" /\ req'[r].pc = "idle"
  <1>1. ASSUME NEW r \in Requests, WriteMember(r), r \notin late
        PROVE  AlwaysAnOwner'
    BY <1>1, WriteKeepsAnOwner DEF OwnersInv
  <1>2. ASSUME NEW r \in Requests, WriteMember(r)
        PROVE  req[r].pc = "write" /\ req'[r].pc = "idle"
    BY <1>2 DEF WriteMember, Finish, Idle, TypeOK
  <1>3. ASSUME NEW r \in Requests, RequestStep(r), ~WriteMember(r)
        PROVE  AlwaysAnOwner'
    BY <1>3, OwnersStay DEF AlwaysAnOwner
  <1>4. CASE UNCHANGED account
    BY <1>4 DEF AlwaysAnOwner, ActiveOwners
  <1>5. QED
    BY <1>1, <1>2, <1>3, <1>4 DEF Next, Expire, vars

\* README.md:910-911, as far as it is kept, for any number of requests that overlap as
\* they like: the last active owner goes only with a change that was admitted before
\* another change took an owner; the checks and counts of all others keep one.
THEOREM LastOwnerGoesInARaceHolds == Spec => LastOwnerGoesInARace
  <1>1. Init => OwnersInv
    BY DEF Init, OwnersInv, SparesTheLast, Changing, Idle
  <1>2. TypeOK /\ GrantsInv /\ OwnersInv /\ [Next]_vars => OwnersInv'
    BY OwnersStep
  <1>3. TypeOK /\ GrantsInv /\ OwnersInv /\ [Next]_vars
           => [AlwaysAnOwner =>
                 \/ AlwaysAnOwner'
                 \/ \E r \in late : req[r].pc = "write" /\ req'[r].pc = "idle"]_vars
    BY LastOwnerStep
  <1>4. QED
    BY Inductive, <1>1, <1>2, <1>3, PTL DEF Spec, LastOwnerGoesInARace
=============================================================================
