---------------------------- MODULE MCSessions ----------------------------
(* Small instances of Sessions for TLC. *)
EXTENDS Sessions, TLC

CONSTANTS t1, t2, t3, r1, r2, h1, h2

TwoTokens == {t1, t2}
ThreeTokens == {t1, t2, t3}
OneRequest == {r1}
TwoRequests == {r1, r2}
TwoHandlers == {h1, h2}
SessionSymmetry ==
    Permutations(Tokens) \cup Permutations(Requests) \cup Permutations(Handlers)
=============================================================================
