---------------------------- MODULE MCUsageCap ----------------------------
(***************************************************************************)
(* A small instance for TLC of what a widget request passes before it is   *)
(* answered: the token buckets (RateLimit) and then the ceiling and the    *)
(* ledger (UsageCap).  The two share no state, so a behaviour of one run   *)
(* is a behaviour of either: it takes steps of one and leaves the other    *)
(* where it began.                                                         *)
(***************************************************************************)
EXTENDS UsageCap, RateLimit, TLC

CONSTANTS q1, q2, q3

ThreeRequests == {q1, q2, q3}
OneClosed == {q3}            \* a setting changed while the fleet restarts
RequestSymmetry == Permutations(Requests \ FailClosed)
OneCap == {3}
SmallSizes == {3, 8}         \* 2 and 4 units of 2 bytes
AllFaults == FaultKinds

(* The buckets: two requests of one session and one address, a burst of    *)
(* two for the chatbot and of one elsewhere, and thirds of a token, so     *)
(* that the chatbot's refill is not a whole one.                           *)
TwoAsks == {q1, q2}
OneSession == {"s1"}
OneAddress == {"i1"}
BurstOfBucket(b) == IF b[1] = "chatbot" THEN 2 ELSE 1
RateOfBucket(b) == IF b[1] = "chatbot" THEN 2 ELSE 3

RequestInit == Init /\ LimitInit

RequestNext ==
    \/ /\ LimitInit
       /\ Next
       /\ UNCHANGED limitVars
    \/ /\ Init /\ cap = [k \in Kinds |-> NoCap]
       /\ LimitNext
       /\ UNCHANGED vars

RequestSpec == RequestInit /\ [][RequestNext]_<<vars, limitVars>>
=============================================================================
