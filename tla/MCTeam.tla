------------------------------ MODULE MCTeam ------------------------------
(* Small instances of Team for TLC. *)
EXTENDS Team, TLC

CONSTANTS u1, u2, u3, e1, e2, i1, i2, r1, r2

\* u2 and u3 are the same person, before and after a removal.
SamePerson == u1 :> e1 @@ u2 :> e2 @@ u3 :> e2
TwoPeople == u1 :> e1 @@ u2 :> e2
EveryPayload == MemberUpdate
OneField == {p \in MemberUpdate : p.role = Keep \/ p.active = Keep}
TeamSymmetry == Permutations(Requests)
=============================================================================
