---------------------------- MODULE RequestProofs ----------------------------
(***************************************************************************)
(* What a widget request passes before it is answered, proved for every    *)
(* instance: the configuration it reads through a cache (ConfigCache), the *)
(* token buckets (RateLimit), and the month's ceiling (UsageCap).  The     *)
(* three share no state; each part below is about one of them.             *)
(***************************************************************************)
EXTENDS UsageCap, RateLimit, ConfigCache, FiniteSetTheorems, TLAPS

(* The ceiling: for any number of requests, caps, sizes and months, either *)
(* setting of fail_closed and any faults.                                  *)

LEMMA NewRequestType == NewRequest \in RequestRecord
  BY ConstantsAssumption DEF NewRequest, RequestRecord, Step, Kinds, CapValue, Months

\* An upload costs at least one unit.
LEMMA UnitsPositive ==
  ASSUME NEW size \in Sizes
  PROVE  IngestionUnits(size) \in Nat
  BY ConstantsAssumption DEF IngestionUnits

LEMMA VerdictType ==
  ASSUME TypeOK, NEW r \in Requests, NEW c \in BOOLEAN, NEW o \in BOOLEAN,
         Admit(r, c, o) \/ Refuse(r, c, o)
  PROVE  req' \in [Requests -> RequestRecord]
  BY DEF TypeOK, Admit, Refuse, RequestRecord, Step

LEMMA RequestType ==
  ASSUME TypeOK, NEW r \in Requests, RequestStep(r)
  PROVE  TypeOK'
  <1>1. CASE BeginUpload(r)
    <2>1. [NewRequest EXCEPT !.pc = "headroom", !.kind = "ingestion",
                             !.cap = cap["ingestion"]] \in RequestRecord
      BY NewRequestType DEF TypeOK, RequestRecord, Step, Kinds
    <2>2. QED
      BY <1>1, <2>1 DEF BeginUpload, TypeOK
  <1>2. CASE BeginTurn(r)
    <2>1. [NewRequest EXCEPT !.pc = "check", !.cap = cached] \in RequestRecord
      BY NewRequestType DEF TypeOK, RequestRecord, Step
    <2>2. QED
      BY <1>2, <2>1 DEF BeginTurn, TypeOK
  <1>3. CASE Headroom(r)
    <2>1. UNCHANGED <<month, used, rows, cap, cached, ceiling>>
      BY <1>3 DEF Headroom
    <2>2. req'[r] \in RequestRecord
      <3>1. CASE req' = [req EXCEPT ![r].pc = "stream"]
        BY <3>1 DEF TypeOK, RequestRecord, Step
      <3>2. CASE req' = [req EXCEPT ![r].pc = "refused", ![r].period = month]
        BY <3>2 DEF TypeOK, RequestRecord, Step
      <3>3. CASE req' = [req EXCEPT ![r].pc = "refused", ![r].outage = TRUE]
        BY <3>3 DEF TypeOK, RequestRecord, Step
      <3>4. QED
        BY <1>3, <3>1, <3>2, <3>3 DEF Headroom
    <2>3. req' \in [Requests -> RequestRecord]
      BY <1>3, <2>2 DEF Headroom, TypeOK
    <2>4. QED
      BY <2>1, <2>3 DEF TypeOK
  <1>4. CASE Stream(r)
    <2>1. PICK size \in Sizes : req' = [req EXCEPT ![r].pc = "check",
                                                   ![r].amount = IngestionUnits(size)]
      BY <1>4 DEF Stream
    <2>2. req'[r] \in RequestRecord
      BY <2>1, UnitsPositive DEF TypeOK, RequestRecord, Step
    <2>3. req' \in [Requests -> RequestRecord]
      BY <2>1, <2>2 DEF TypeOK
    <2>4. QED
      BY <1>4, <2>3 DEF Stream, TypeOK
  <1>5. CASE CheckAmount(r)
    BY <1>5 DEF CheckAmount, TypeOK, RequestRecord, Step
  <1>6. CASE Charge(r)
    <2>1. req' \in [Requests -> RequestRecord]
      BY <1>6, VerdictType DEF Charge, Unavailable
    <2>2. used' \in [Months -> [Kinds -> Nat]] /\ rows' \subseteq Months
      BY <1>6 DEF Charge, Increment, TypeOK, RequestRecord
    <2>3. QED
      BY <1>6, <2>1, <2>2 DEF Charge, TypeOK
  <1>7. CASE ChargeBlocked(r)
    BY <1>7, VerdictType DEF ChargeBlocked, TypeOK
  <1>8. CASE ChargeUnavailable(r)
    BY <1>8, VerdictType DEF ChargeUnavailable, Unavailable, TypeOK
  <1>9. QED
    BY <1>1, <1>2, <1>3, <1>4, <1>5, <1>6, <1>7, <1>8 DEF RequestStep

\* Type correctness.
THEOREM TypeCorrect == Spec => []TypeOK
  <1>1. Init => TypeOK
    BY NewRequestType, ConstantsAssumption DEF Init, TypeOK, CapValue, Months, Kinds
  <1>2. TypeOK /\ [Next]_vars => TypeOK'
    <2> SUFFICES ASSUME TypeOK, [Next]_vars
                 PROVE  TypeOK'
      OBVIOUS
    <2>1. ASSUME NEW k \in Kinds, NEW c \in CapValue, SetCap(k, c)
          PROVE  TypeOK'
      BY <2>1 DEF SetCap, TypeOK
    <2>2. CASE MonthTurns
      BY <2>2, ConstantsAssumption DEF MonthTurns, TypeOK, Months
    <2>3. CASE RefreshConfig
      BY <2>3 DEF RefreshConfig, TypeOK, Kinds
    <2>4. CASE UNCHANGED vars
      BY <2>4 DEF vars, TypeOK
    <2>5. QED
      BY <2>1, <2>2, <2>3, <2>4, RequestType DEF Next
  <1>3. QED
    BY <1>1, <1>2, PTL DEF Spec
-----------------------------------------------------------------------------
(***************************************************************************)
(* The ceiling.                                                            *)
(***************************************************************************)
LEMMA CapLeqTransitive ==
  ASSUME NEW a \in Nat \cup CapValue, NEW b \in CapValue, NEW c \in CapValue,
         CapLeq(a, b), CapLeq(b, c)
  PROVE  CapLeq(a, c)
  BY ConstantsAssumption DEF CapLeq, CapValue

LEMMA CapLeqReflexive ==
  ASSUME NEW c \in CapValue
  PROVE  CapLeq(c, c)
  BY ConstantsAssumption DEF CapLeq, CapValue

LEMMA CapLeqTotal ==
  ASSUME NEW b \in CapValue, NEW c \in CapValue
  PROVE  CapLeq(b, c) \/ CapLeq(c, b)
  <1>1. CASE b = NoCap \/ c = NoCap
    BY <1>1 DEF CapLeq
  <1>2. CASE b \in Caps /\ c \in Caps
    <2>1. b \in Nat /\ c \in Nat /\ b # NoCap /\ c # NoCap
      BY <1>2, ConstantsAssumption
    <2>2. QED
      BY <2>1 DEF CapLeq
  <1>3. QED
    BY <1>1, <1>2 DEF CapValue

\* The statement leaves the counter within the cap of its request: an
\* update by its predicate, an insert because CheckAmount came first.
LEMMA ChargeWithinCap ==
  ASSUME TypeOK, CapInv, NEW r \in Requests, Charge(r)
  PROVE  CapLeq(used[req[r].period][req[r].kind] + req[r].amount, req[r].cap)
  <1>1. CASE req[r].period \in rows
    BY <1>1 DEF Charge, Room
  <1>2. CASE req[r].period \notin rows
    <2>1. used[req[r].period][req[r].kind] = 0 /\ req[r].amount \in Nat
      BY <1>2 DEF TypeOK, RequestRecord, CapInv, FreshMonth
    <2>2. CapLeq(req[r].amount, req[r].cap)
      BY DEF Charge, CapInv, ChargeFits
    <2>3. QED
      BY <2>1, <2>2
  <1>3. QED
    BY <1>1, <1>2

\* Steps that move only the request r, to a pc that owes no charge or with
\* an amount that fits.
LEMMA RequestFrame ==
  ASSUME TypeOK, CapInv, NEW r \in Requests,
         UNCHANGED <<used, rows, cap, cached, ceiling>>,
         \A s \in Requests \ {r} : req'[s] = req[s],
         req'[r].pc \in {"headroom", "stream", "check", "charge"}
            => CapLeq(req'[r].cap, ceiling[req'[r].kind]),
         req'[r].pc = "charge" => CapLeq(req'[r].amount, req'[r].cap)
  PROVE  CapInv'
  BY DEF CapInv, CapsBelowCeiling, ChargeFits, FreshMonth, WithinCeiling

LEMMA RequestCap ==
  ASSUME TypeOK, CapInv, NEW r \in Requests, RequestStep(r)
  PROVE  CapInv'
  <1>1. /\ req[r] \in RequestRecord
        /\ CapLeq(cap["ingestion"], ceiling["ingestion"])
        /\ CapLeq(cached, ceiling["retrieval"])
        /\ req[r].pc \in {"headroom", "stream", "check", "charge"}
                => CapLeq(req[r].cap, ceiling[req[r].kind])
    BY DEF TypeOK, CapInv, CapsBelowCeiling, Kinds
  <1>2. CASE BeginUpload(r)
    <2>1. /\ req'[r].pc = "headroom" /\ req'[r].kind = "ingestion"
          /\ req'[r].cap = cap["ingestion"]
      BY <1>2, NewRequestType DEF BeginUpload, TypeOK, RequestRecord
    <2>2. QED
      BY <1>1, <1>2, <2>1, RequestFrame DEF BeginUpload, TypeOK
  <1>3. CASE BeginTurn(r)
    <2>1. req'[r].pc = "check" /\ req'[r].kind = "retrieval" /\ req'[r].cap = cached
      BY <1>3, NewRequestType DEF BeginTurn, TypeOK, RequestRecord, NewRequest
    <2>2. QED
      BY <1>1, <1>3, <2>1, RequestFrame DEF BeginTurn, TypeOK
  <1>4. CASE Headroom(r)
    <2>1. /\ req'[r].pc \in {"stream", "refused"}
          /\ req'[r].cap = req[r].cap /\ req'[r].kind = req[r].kind
          /\ \A s \in Requests \ {r} : req'[s] = req[s]
      BY <1>4 DEF Headroom, TypeOK, RequestRecord
    <2>2. QED
      BY <1>1, <1>4, <2>1, RequestFrame DEF Headroom
  <1>5. CASE Stream(r)
    <2>1. /\ req'[r].pc = "check"
          /\ req'[r].cap = req[r].cap /\ req'[r].kind = req[r].kind
          /\ \A s \in Requests \ {r} : req'[s] = req[s]
      BY <1>5 DEF Stream, TypeOK, RequestRecord
    <2>2. QED
      BY <1>1, <1>5, <2>1, RequestFrame DEF Stream
  <1>6. CASE CheckAmount(r)
    <2>1. /\ req'[r].pc = "charge" => CapLeq(req[r].amount, req[r].cap)
          /\ req'[r].cap = req[r].cap /\ req'[r].kind = req[r].kind
          /\ req'[r].amount = req[r].amount
          /\ \A s \in Requests \ {r} : req'[s] = req[s]
      BY <1>6 DEF CheckAmount, TypeOK, RequestRecord
    <2>2. QED
      BY <1>1, <1>6, <2>1, RequestFrame DEF CheckAmount
  <1>7. CASE Charge(r)
    <2> DEFINE p == req[r].period
               k == req[r].kind
               total == used[p][k] + req[r].amount
    <2>1. p \in Months /\ k \in Kinds /\ total \in Nat /\ req[r].cap \in CapValue /\ ceiling[k] \in CapValue
      BY DEF TypeOK, RequestRecord
    <2>2. CapLeq(total, ceiling[k])
      BY <1>1, <1>7, <2>1, ChargeWithinCap, CapLeqTransitive DEF Charge
    <2>3. /\ used' = [used EXCEPT ![p][k] = total] /\ rows' = rows \cup {p}
          /\ req'[r].pc \in {"admitted", "refused"}
          /\ \A s \in Requests \ {r} : req'[s] = req[s]
          /\ UNCHANGED <<cap, cached, ceiling>>
      BY <1>7 DEF Charge, Increment, Unavailable, Admit, Refuse, TypeOK, RequestRecord
    <2>4. \A m \in Months, j \in Kinds :
              used'[m][j] = IF m = p /\ j = k THEN total ELSE used[m][j]
      BY <2>1, <2>3 DEF TypeOK
    <2> HIDE DEF p, k, total
    <2>5. WithinCeiling'
      BY <2>2, <2>3, <2>4 DEF WithinCeiling, CapInv
    <2>6. FreshMonth'
      BY <2>3, <2>4 DEF FreshMonth, CapInv
    <2>7. CapsBelowCeiling' /\ ChargeFits'
      BY <2>3 DEF CapsBelowCeiling, ChargeFits, CapInv
    <2>8. QED
      BY <2>5, <2>6, <2>7 DEF CapInv
  <1>8. CASE ChargeBlocked(r) \/ ChargeUnavailable(r)
    <2>1. /\ req'[r].pc \in {"admitted", "refused"}
          /\ \A s \in Requests \ {r} : req'[s] = req[s]
      BY <1>8 DEF ChargeBlocked, ChargeUnavailable, Unavailable, Admit, Refuse, TypeOK, RequestRecord
    <2>2. QED
      BY <1>8, <2>1, RequestFrame DEF ChargeBlocked, ChargeUnavailable
  <1>9. QED
    BY <1>2, <1>3, <1>4, <1>5, <1>6, <1>7, <1>8 DEF RequestStep

LEMMA CapStep ==
  ASSUME TypeOK, CapInv, [Next]_vars
  PROVE  CapInv'
  <1>1. ASSUME NEW k \in Kinds, NEW c \in CapValue, SetCap(k, c)
        PROVE  CapInv'
    <2>1. \A j \in Kinds : /\ ceiling[j] \in CapValue /\ ceiling'[j] \in CapValue
                           /\ CapLeq(ceiling[j], ceiling'[j])
      BY <1>1, CapLeqReflexive DEF SetCap, TypeOK
    <2>2. \A a \in Nat \cup CapValue, j \in Kinds :
              CapLeq(a, ceiling[j]) => CapLeq(a, ceiling'[j])
      BY <2>1, CapLeqTransitive
    <2>3. CapLeq(c, ceiling'[k])
      <3>1. CASE CapLeq(ceiling[k], c)
        BY <1>1, <3>1, CapLeqReflexive DEF SetCap, TypeOK
      <3>2. CASE ~CapLeq(ceiling[k], c)
        <4>1. ceiling' = ceiling /\ ceiling[k] \in CapValue
          BY <1>1, <3>2 DEF SetCap, TypeOK
        <4>2. CapLeq(c, ceiling[k])
          BY <3>2, <4>1, CapLeqTotal
        <4>3. QED
          BY <4>1, <4>2
      <3>3. QED
        BY <3>1, <3>2
    <2>4. CapsBelowCeiling'
      <3>1. \A j \in Kinds : CapLeq(cap'[j], ceiling'[j])
        BY <1>1, <2>2, <2>3 DEF SetCap, TypeOK, CapInv, CapsBelowCeiling
      <3>2. CapLeq(cached, ceiling'["retrieval"])
        BY <2>2 DEF TypeOK, CapInv, CapsBelowCeiling, Kinds
      <3>3. \A r \in Requests : req[r].pc \in {"headroom", "stream", "check", "charge"}
                => CapLeq(req[r].cap, ceiling'[req[r].kind])
        BY <2>2 DEF TypeOK, RequestRecord, CapInv, CapsBelowCeiling
      <3>4. QED
        BY <1>1, <3>1, <3>2, <3>3 DEF SetCap, CapsBelowCeiling
    <2>5. WithinCeiling'
      BY <1>1, <2>2 DEF SetCap, WithinCeiling, CapInv, TypeOK
    <2>6. ChargeFits' /\ FreshMonth'
      BY <1>1 DEF SetCap, ChargeFits, FreshMonth, CapInv
    <2>7. QED
      BY <2>4, <2>5, <2>6 DEF CapInv
  <1>2. CASE MonthTurns
    BY <1>2 DEF MonthTurns, CapInv, CapsBelowCeiling, ChargeFits, FreshMonth, WithinCeiling
  <1>3. CASE RefreshConfig
    BY <1>3 DEF RefreshConfig, CapInv, CapsBelowCeiling, ChargeFits, FreshMonth, WithinCeiling, Kinds
  <1>4. CASE UNCHANGED vars
    BY <1>4 DEF vars, CapInv, CapsBelowCeiling, ChargeFits, FreshMonth, WithinCeiling
  <1>5. QED
    BY <1>1, <1>2, <1>3, <1>4, RequestCap DEF Next

\* The strengthened invariant.
THEOREM CapInvHolds == Spec => []CapInv
  <1>1. Init => CapInv
    <2> SUFFICES ASSUME Init PROVE CapInv
      OBVIOUS
    <2>0. \A c \in CapValue : CapLeq(0, c)
      BY ConstantsAssumption DEF CapLeq, CapValue
    <2>1. \A k \in Kinds : CapLeq(0, ceiling[k])
      BY <2>0 DEF Init
    <2>2. WithinCeiling /\ FreshMonth
      BY <2>1 DEF Init, WithinCeiling, FreshMonth
    <2>3. CapsBelowCeiling
      BY CapLeqReflexive DEF Init, CapsBelowCeiling, NewRequest, Kinds
    <2>4. ChargeFits
      BY DEF Init, ChargeFits, NewRequest
    <2>5. QED
      BY <2>2, <2>3, <2>4 DEF CapInv
  <1>2. QED
    BY <1>1, CapStep, TypeCorrect, PTL DEF Spec

\* No month's counter ever passes the largest cap that was in force.
THEOREM WithinCeilingHolds == Spec => []WithinCeiling
  BY CapInvHolds, PTL DEF CapInv
-----------------------------------------------------------------------------
(***************************************************************************)
(* The verdicts.                                                           *)
(***************************************************************************)
Undecided(q) == q.pc \notin {"admitted", "refused"}

Deserved(q, n) == q.pc = "refused" /\ ~q.outage => ~CapLeq(n + q.amount, q.cap)
Matches(r, q) ==
    /\ q.pc = "admitted" /\ ~q.charged => q.outage /\ r \notin FailClosed
    /\ q.pc = "refused" /\ q.charged => q.outage /\ r \in FailClosed

VerdictInv ==
    \A r \in Requests :
        /\ Undecided(req[r]) => ~req[r].charged
        /\ req[r].pc = "headroom" => req[r].amount = 1 /\ req[r].kind = "ingestion"
        /\ Deserved(req[r], used[req[r].period][req[r].kind])
        /\ Matches(r, req[r])

\* A refusal stays deserved, because counters only grow.
LEMMA DeservedKept ==
  ASSUME NEW q \in RequestRecord, NEW m \in Nat, NEW n \in Nat, m <= n, Deserved(q, m)
  PROVE  Deserved(q, n)
  <1> SUFFICES ASSUME ~CapLeq(m + q.amount, q.cap)
               PROVE  ~CapLeq(n + q.amount, q.cap)
    BY DEF Deserved
  <1>1. q.amount \in Nat /\ q.cap \in CapValue
    BY DEF RequestRecord
  <1>2. q.cap \in Nat /\ q.cap # NoCap
    BY <1>1, ConstantsAssumption DEF CapLeq, CapValue
  <1>3. m + q.amount \in Nat /\ n + q.amount \in Nat
    BY <1>1
  <1>4. m + q.amount # NoCap /\ n + q.amount # NoCap
    BY <1>3, ConstantsAssumption
  <1>5. QED
    BY <1>1, <1>2, <1>4 DEF CapLeq

LEMMA CountersGrow ==
  ASSUME TypeOK, [Next]_vars
  PROVE  \A m \in Months, k \in Kinds :
            used[m][k] \in Nat /\ used'[m][k] \in Nat /\ used[m][k] <= used'[m][k]
  <1>1. ASSUME NEW r \in Requests, Charge(r)
        PROVE  \A m \in Months, k \in Kinds :
                 used'[m][k] \in Nat /\ used[m][k] <= used'[m][k]
    BY <1>1 DEF Charge, Increment, TypeOK, RequestRecord
  <1>2. UNCHANGED used \/ \E r \in Requests : Charge(r)
    BY DEF Next, vars, RequestStep, BeginUpload, BeginTurn, Headroom, Stream, CheckAmount,
           ChargeBlocked, ChargeUnavailable, MonthTurns, SetCap, RefreshConfig
  <1>3. QED
    BY <1>1, <1>2 DEF TypeOK

\* It is enough to look at the request that moved.
LEMMA VerdictFrame ==
  ASSUME TypeOK, TypeOK', VerdictInv, [Next]_vars, NEW r \in Requests,
         \A s \in Requests \ {r} : req'[s] = req[s],
         Undecided(req'[r]) => ~req'[r].charged,
         req'[r].pc = "headroom" => req'[r].amount = 1 /\ req'[r].kind = "ingestion",
         Deserved(req'[r], used'[req'[r].period][req'[r].kind]),
         Matches(r, req'[r])
  PROVE  VerdictInv'
  <1>1. ASSUME NEW s \in Requests \ {r}
        PROVE  Deserved(req'[s], used'[req'[s].period][req'[s].kind])
    BY DeservedKept, CountersGrow DEF VerdictInv, TypeOK, RequestRecord
  <1>2. QED
    BY <1>1 DEF VerdictInv

LEMMA RequestVerdict ==
  ASSUME TypeOK, TypeOK', VerdictInv, NEW r \in Requests, RequestStep(r)
  PROVE  VerdictInv'
  <1> USE DEF Undecided, Deserved, Matches
  <1>0. [Next]_vars
    BY DEF Next
  <1>1. /\ req[r] \in RequestRecord
        /\ Undecided(req[r]) => ~req[r].charged
        /\ req[r].pc = "headroom" => req[r].amount = 1 /\ req[r].kind = "ingestion"
    BY DEF TypeOK, VerdictInv
  <1>2. CASE BeginUpload(r)
    <2>1. /\ req'[r].pc = "headroom" /\ req'[r].amount = 1 /\ ~req'[r].charged
          /\ req'[r].kind = "ingestion"
          /\ \A s \in Requests \ {r} : req'[s] = req[s]
      BY <1>2, NewRequestType DEF BeginUpload, TypeOK, RequestRecord, NewRequest
    <2>2. QED
      BY <1>0, <2>1, VerdictFrame
  <1>3. CASE BeginTurn(r)
    <2>1. /\ req'[r].pc = "check" /\ ~req'[r].charged
          /\ \A s \in Requests \ {r} : req'[s] = req[s]
      BY <1>3, NewRequestType DEF BeginTurn, TypeOK, RequestRecord, NewRequest
    <2>2. QED
      BY <1>0, <2>1, VerdictFrame
  <1>4. CASE Headroom(r)
    <2>1. /\ ~req'[r].charged /\ \A s \in Requests \ {r} : req'[s] = req[s]
          /\ req[r].pc = "headroom"
      BY <1>1, <1>4 DEF Headroom, TypeOK, RequestRecord
    <2>2. CASE req'[r].pc = "stream" \/ req'[r].outage
      <3>1. req'[r].pc \in {"stream", "refused"}
        BY <1>4 DEF Headroom, TypeOK, RequestRecord
      <3>2. QED
        BY <1>0, <2>1, <2>2, <3>1, VerdictFrame
    <2>3. ASSUME NEW seen \in 0..used[month]["ingestion"],
                 ~CapLeq(seen + 1, req[r].cap),
                 req' = [req EXCEPT ![r].pc = "refused", ![r].period = month]
          PROVE  VerdictInv'
      <3>1. /\ req'[r].pc = "refused" /\ req'[r].period = month /\ req'[r].cap = req[r].cap
            /\ req'[r].kind = req[r].kind /\ req'[r].amount = 1
        BY <1>1, <2>1, <2>3 DEF TypeOK, RequestRecord
      <3>2. req[r].kind = "ingestion" /\ used' = used
        BY <1>1, <1>4, <2>1 DEF Headroom
      <3>3. used[month]["ingestion"] \in Nat /\ req[r].cap \in CapValue
        BY <1>1 DEF TypeOK, RequestRecord, Kinds
      <3>4. ~CapLeq(used[month]["ingestion"] + 1, req[r].cap)
        BY <2>3, <3>3, ConstantsAssumption DEF CapLeq, CapValue
      <3>5. QED
        BY <1>0, <2>1, <2>3, <3>1, <3>2, <3>4, VerdictFrame
    <2>4. CASE req' = [req EXCEPT ![r].pc = "stream"]
      BY <1>1, <2>2, <2>4 DEF TypeOK
    <2>5. CASE req' = [req EXCEPT ![r].pc = "refused", ![r].outage = TRUE]
      BY <1>1, <2>2, <2>5 DEF TypeOK, RequestRecord
    <2>6. QED
      BY <1>4, <2>3, <2>4, <2>5 DEF Headroom
  <1>5. CASE Stream(r)
    <2>1. /\ req'[r].pc = "check" /\ ~req'[r].charged
          /\ \A s \in Requests \ {r} : req'[s] = req[s]
      BY <1>1, <1>5 DEF Stream, TypeOK, RequestRecord
    <2>2. QED
      BY <1>0, <2>1, VerdictFrame
  <1>6. CASE CheckAmount(r)
    <2> DEFINE n == used[req'[r].period][req'[r].kind]
    <2>1. /\ req'[r].pc = IF CapLeq(req[r].amount, req[r].cap) THEN "charge" ELSE "refused"
          /\ req'[r].amount = req[r].amount /\ req'[r].cap = req[r].cap
          /\ ~req'[r].charged
          /\ \A s \in Requests \ {r} : req'[s] = req[s]
          /\ used' = used
      BY <1>1, <1>6 DEF CheckAmount, TypeOK, RequestRecord
    <2>2. Deserved(req'[r], 0)
      <3>1. 0 + req[r].amount = req[r].amount
        BY <1>1 DEF RequestRecord
      <3>2. QED
        BY <2>1, <3>1
    <2>3. req'[r] \in RequestRecord /\ n \in Nat /\ 0 <= n
      BY <2>1 DEF TypeOK, RequestRecord
    <2>4. Deserved(req'[r], n)
      BY <2>2, <2>3, DeservedKept
    <2>5. QED
      BY <1>0, <2>1, <2>4, VerdictFrame
  <1>7. CASE Charge(r)
    <2>1. /\ req'[r].charged /\ \A s \in Requests \ {r} : req'[s] = req[s]
          /\ \/ req'[r].pc = "admitted"
             \/ req'[r].pc = "refused" /\ req'[r].outage /\ r \in FailClosed
      BY <1>7 DEF Charge, Unavailable, Admit, Refuse, TypeOK, RequestRecord
    <2>2. QED
      BY <1>0, <2>1, VerdictFrame
  <1>8. CASE ChargeBlocked(r)
    <2>1. /\ req'[r].pc = "refused" /\ ~req'[r].charged
          /\ req'[r].period = req[r].period /\ req'[r].kind = req[r].kind
          /\ req'[r].amount = req[r].amount /\ req'[r].cap = req[r].cap
          /\ \A s \in Requests \ {r} : req'[s] = req[s]
          /\ used' = used /\ ~Room(req[r])
      BY <1>8 DEF ChargeBlocked, Refuse, TypeOK, RequestRecord
    <2>2. QED
      BY <1>0, <2>1, VerdictFrame DEF Room
  <1>9. CASE ChargeUnavailable(r)
    <2>1. /\ ~req'[r].charged /\ req'[r].outage
          /\ req'[r].pc = IF r \in FailClosed THEN "refused" ELSE "admitted"
          /\ \A s \in Requests \ {r} : req'[s] = req[s]
      BY <1>9 DEF ChargeUnavailable, Unavailable, Admit, Refuse, TypeOK, RequestRecord
    <2>2. QED
      BY <1>0, <2>1, VerdictFrame
  <1>10. QED
    BY <1>2, <1>3, <1>4, <1>5, <1>6, <1>7, <1>8, <1>9 DEF RequestStep

LEMMA VerdictsHold == Spec => []VerdictInv
  <1>1. Init => VerdictInv
    BY DEF Init, NewRequest, VerdictInv, Undecided, Deserved, Matches
  <1>2. TypeOK /\ TypeOK' /\ VerdictInv /\ [Next]_vars => VerdictInv'
    <2> SUFFICES ASSUME TypeOK, TypeOK', VerdictInv, [Next]_vars
                 PROVE  VerdictInv'
      OBVIOUS
    <2>1. CASE \E r \in Requests : RequestStep(r)
      BY <2>1, RequestVerdict
    <2>2. CASE UNCHANGED <<req, used>>
      BY <2>2 DEF VerdictInv, Undecided, Deserved, Matches
    <2>3. QED
      BY <2>1, <2>2 DEF Next, vars, MonthTurns, SetCap, RefreshConfig
  <1>3. QED
    BY <1>1, <1>2, TypeCorrect, PTL DEF Spec

\* Refusals are deserved, and stay so.
THEOREM RefusalDeservedHolds == Spec => []RefusalDeserved
  <1>1. VerdictInv => RefusalDeserved
    BY DEF VerdictInv, Deserved, RefusalDeserved
  <1>2. QED
    BY <1>1, VerdictsHold, PTL

\* Only an outage separates the verdict from the counter.
THEOREM VerdictMatchesChargeHolds == Spec => []VerdictMatchesCharge
  <1>1. VerdictInv => VerdictMatchesCharge
    BY DEF VerdictInv, Matches, VerdictMatchesCharge
  <1>2. QED
    BY <1>1, VerdictsHold, PTL

-----------------------------------------------------------------------------
(***************************************************************************)
(* Sums over finite sets of requests.  MapThenSumSet takes the members in  *)
(* an order nobody knows; what follows shows that the order is of no       *)
(* account, by induction on the subsets of the set: FS_StrictSubset-       *)
(* OrderingWellFounded says that they have no endless descent.             *)
(***************************************************************************)
\* The sum of the amounts of the requests in S, and the function it is defined by.
Amounts(q, S) == MapThenSumSet(LAMBDA r : q[r].amount, S)

Chosen(s) == CHOOSE x \in s : TRUE

SumsUp(q, S, g) ==
    g = [s \in SUBSET S |->
            IF s = {} THEN 0
            ELSE q[CHOOSE x \in s : TRUE].amount + g[s \ {CHOOSE x \in s : TRUE}]]

LEMMA AmountsIsChosen ==
    ASSUME NEW q, NEW S
    PROVE  Amounts(q, S) = (CHOOSE g : SumsUp(q, S, g))[S]
BY DEF Amounts, SumsUp, MapThenSumSet, MapThenFoldSet

\* Induction on the subsets of a finite set: a least one outside B is inside.
LEMMA SubsetInduction ==
    ASSUME NEW S, IsFiniteSet(S), NEW B,
           \A T \in SUBSET S : (\A U \in SUBSET T : U # T => U \in B) => T \in B
    PROVE  \A T \in SUBSET S : T \in B
<1> DEFINE R == StrictSubsetOrdering(S)
           D == (SUBSET S) \ B
<1>1. FiniteSubsetsOf(S) = SUBSET S
  BY FS_FiniteSubsetsOfFinite
<1>2. IsWellFoundedOn(R, SUBSET S)
  BY <1>1, FS_StrictSubsetOrderingWellFounded
<1>3. ASSUME D # {} PROVE FALSE
  <2>1. \E x \in D : \A y \in D : ~(<<y, x>> \in R)
    <3>1. D \subseteq SUBSET S
      OBVIOUS
    <3> HIDE DEF D, R
    <3>2. D # {}
      BY <1>3
    <3> QED BY <1>2, <3>1, <3>2, WFMin
  <2>2. PICK x \in D : \A y \in D : ~(<<y, x>> \in R)
    BY <2>1
  <2>3. ASSUME NEW U \in SUBSET x, U # x PROVE U \in B
    <3>1. <<U, x>> \in R
      BY <2>3 DEF StrictSubsetOrdering
    <3> QED BY <2>2, <3>1
  <2>4. x \in B
    BY <2>3
  <2> QED BY <2>4
<1> QED BY <1>3

LEMMA ChosenIsIn ==
    ASSUME NEW s, s # {}
    PROVE  Chosen(s) \in s
BY DEF Chosen

\* The same by parts.
Adds(q, S, g) ==
    /\ g = [s \in SUBSET S |-> g[s]]
    /\ g[{}] = 0
    /\ \A s \in SUBSET S : s # {} => g[s] = q[Chosen(s)].amount + g[s \ {Chosen(s)}]

LEMMA SumsUpIs ==
    ASSUME NEW q, NEW S, NEW g, SumsUp(q, S, g)
    PROVE  Adds(q, S, g)
<1>1. g = [s \in SUBSET S |->
            IF s = {} THEN 0 ELSE q[Chosen(s)].amount + g[s \ {Chosen(s)}]]
  BY DEF SumsUp, Chosen
<1>2. {} \in SUBSET S
  OBVIOUS
<1>3. g = [s \in SUBSET S |-> g[s]]
  BY <1>1
<1>4. \A s \in SUBSET S : g[s] = IF s = {} THEN 0 ELSE q[Chosen(s)].amount + g[s \ {Chosen(s)}]
  BY <1>1
<1> QED BY <1>2, <1>3, <1>4 DEF Adds

LEMMA SumsUpIf ==
    ASSUME NEW q, NEW S, NEW g, g = [s \in SUBSET S |-> g[s]],
           g[{}] = 0,
           \A s \in SUBSET S : s # {} => g[s] = q[Chosen(s)].amount + g[s \ {Chosen(s)}]
    PROVE  SumsUp(q, S, g)
<1>1. g = [s \in SUBSET S |->
            IF s = {} THEN 0 ELSE q[Chosen(s)].amount + g[s \ {Chosen(s)}]]
  <2> DEFINE h == [s \in SUBSET S |->
                      IF s = {} THEN 0 ELSE q[Chosen(s)].amount + g[s \ {Chosen(s)}]]
  <2>1. \A s \in SUBSET S : g[s] = h[s]
    OBVIOUS
  <2>2. h = [s \in SUBSET S |-> h[s]]
    OBVIOUS
  <2>3. [s \in SUBSET S |-> g[s]] = [s \in SUBSET S |-> h[s]]
    BY <2>1
  <2> HIDE DEF h
  <2>4. g = h
    BY <2>2, <2>3
  <2> QED BY <2>4 DEF h
<1> QED BY <1>1 DEF SumsUp, Chosen

LEMMA SumsUpOnce ==
    ASSUME NEW q, NEW S, IsFiniteSet(S), NEW g, SumsUp(q, S, g), NEW h, SumsUp(q, S, h)
    PROVE  g = h
<1> DEFINE B == {T \in SUBSET S : g[T] = h[T]}
<1>a. Adds(q, S, g)
  BY SumsUpIs
<1>b. Adds(q, S, h)
  BY SumsUpIs
<1>0. /\ g[{}] = 0 /\ h[{}] = 0
      /\ \A s \in SUBSET S : s # {} =>
            /\ g[s] = q[Chosen(s)].amount + g[s \ {Chosen(s)}]
            /\ h[s] = q[Chosen(s)].amount + h[s \ {Chosen(s)}]
  BY <1>a, <1>b DEF Adds
<1>1. ASSUME NEW T \in SUBSET S, \A U \in SUBSET T : U # T => U \in B PROVE T \in B
  <2>1. CASE T = {}
    BY <1>0, <2>1
  <2>2. CASE T # {}
    <3> DEFINE U == T \ {Chosen(T)}
    <3>1. U \in SUBSET T /\ U # T
      BY <2>2, ChosenIsIn
    <3>2. g[U] = h[U]
      BY <1>1, <3>1
    <3> QED BY <1>0, <2>2, <3>2
  <2> QED BY <2>1, <2>2
<1> HIDE DEF B
<1>2. \A T \in SUBSET S : T \in B
  BY <1>1, SubsetInduction
<1>3. \A T \in SUBSET S : g[T] = h[T]
  BY <1>2 DEF B
<1>4. g = [s \in SUBSET S |-> g[s]] /\ h = [s \in SUBSET S |-> h[s]]
  BY <1>a, <1>b DEF Adds
<1>5. [s \in SUBSET S |-> g[s]] = [s \in SUBSET S |-> h[s]]
  BY <1>3
<1> QED BY <1>4, <1>5

LEMMA SumsUpBelow ==
    ASSUME NEW q, NEW S, NEW g, SumsUp(q, S, g), NEW T \in SUBSET S
    PROVE  SumsUp(q, T, [s \in SUBSET T |-> g[s]])
<1> DEFINE h == [s \in SUBSET T |-> g[s]]
<1>0. Adds(q, S, g)
  BY SumsUpIs
<1>1. h = [s \in SUBSET T |-> h[s]] /\ \A s \in SUBSET T : h[s] = g[s] /\ s \in SUBSET S
  OBVIOUS
<1>2. h[{}] = 0
  BY <1>0 DEF Adds
<1>3. ASSUME NEW s \in SUBSET T, s # {} PROVE h[s] = q[Chosen(s)].amount + h[s \ {Chosen(s)}]
  <2>1. s \in SUBSET S /\ s \ {Chosen(s)} \in SUBSET T
    BY <1>3
  <2>2. g[s] = q[Chosen(s)].amount + g[s \ {Chosen(s)}]
    BY <1>0, <1>3, <2>1 DEF Adds
  <2> QED BY <1>1, <1>3, <2>1, <2>2
<1> HIDE DEF h
<1>4. SumsUp(q, T, h)
  BY <1>1, <1>2, <1>3, SumsUpIf
<1> QED BY <1>4 DEF h

LEMMA SumsUpExists ==
    ASSUME NEW q, NEW S, IsFiniteSet(S)
    PROVE  \E g : SumsUp(q, S, g)
<1> DEFINE B == {T \in SUBSET S : \E g : SumsUp(q, T, g)}
           V(T) == (CHOOSE f : SumsUp(q, T, f))[T]
<1>1. ASSUME NEW T \in SUBSET S, \A U \in SUBSET T : U # T => U \in B PROVE T \in B
  <2> DEFINE c == Chosen(T)
             h == [s \in SUBSET T |->
                     IF s # T THEN V(s)
                     ELSE IF T = {} THEN 0 ELSE q[c].amount + V(T \ {c})]
  <2>1. ASSUME NEW U \in SUBSET T, U # T, NEW W \in SUBSET U
        PROVE  (CHOOSE f : SumsUp(q, U, f))[W] = V(W)
    <3> DEFINE g == CHOOSE f : SumsUp(q, U, f)
               k == CHOOSE f : SumsUp(q, W, f)
               r == [s \in SUBSET W |-> g[s]]
    <3>1. U \in B /\ W \in B
      BY <1>1, <2>1
    <3>2. SumsUp(q, U, g) /\ SumsUp(q, W, k)
      BY <3>1
    <3> HIDE DEF g, k
    <3>3. SumsUp(q, W, r)
      BY <3>2, SumsUpBelow
    <3>4. IsFiniteSet(W)
      <4>1. W \in SUBSET S
        OBVIOUS
      <4> QED BY <4>1, FS_Subset, Zenon
    <3> HIDE DEF r
    <3>5. r = k
      BY <3>2, <3>3, <3>4, SumsUpOnce
    <3>6. r[W] = g[W]
      BY DEF r
    <3> QED BY <3>5, <3>6 DEF g, k
  <2>2. ASSUME NEW U \in SUBSET T, U # T
        PROVE  /\ U = {} => V(U) = 0
               /\ U # {} => V(U) = q[Chosen(U)].amount + V(U \ {Chosen(U)})
    <3> DEFINE g == CHOOSE f : SumsUp(q, U, f)
    <3>1. SumsUp(q, U, g)
      BY <1>1, <2>2
    <3>2. g[U] = V(U)
      OBVIOUS
    <3>3. U \ {Chosen(U)} \in SUBSET U
      OBVIOUS
    <3>4. g[U \ {Chosen(U)}] = V(U \ {Chosen(U)})
      BY <2>1, <2>2, <3>3
    <3> HIDE DEF g, V
    <3>5. Adds(q, U, g)
      BY <3>1, SumsUpIs
    <3> QED BY <3>2, <3>4, <3>5 DEF Adds
  <2> HIDE DEF V
  <2>3. h = [s \in SUBSET T |-> h[s]]
    OBVIOUS
  <2>4. h[{}] = 0
    BY <2>2
  <2>5. ASSUME NEW s \in SUBSET T, s # {}
        PROVE  h[s] = q[Chosen(s)].amount + h[s \ {Chosen(s)}]
    <3>1. s \ {Chosen(s)} \in SUBSET T /\ s \ {Chosen(s)} # T
      BY <2>5, ChosenIsIn
    <3>2. h[s \ {Chosen(s)}] = V(s \ {Chosen(s)})
      BY <3>1
    <3>3. CASE s = T
      BY <2>5, <3>2, <3>3
    <3>4. CASE s # T
      BY <2>2, <2>5, <3>2, <3>4
    <3> QED BY <3>3, <3>4
  <2> HIDE DEF h
  <2>6. SumsUp(q, T, h)
    BY <2>3, <2>4, <2>5, SumsUpIf
  <2> QED BY <2>6
<1> HIDE DEF B, V
<1>2. \A T \in SUBSET S : T \in B
  BY <1>1, SubsetInduction
<1> QED BY <1>2 DEF B

LEMMA AmountsUnfold ==
    ASSUME NEW q, NEW S, IsFiniteSet(S)
    PROVE  /\ Amounts(q, {}) = 0
           /\ S # {} => Amounts(q, S) = q[Chosen(S)].amount + Amounts(q, S \ {Chosen(S)})
<1> DEFINE g == CHOOSE f : SumsUp(q, S, f)
<1>1. SumsUp(q, S, g)
  BY SumsUpExists
<1> HIDE DEF g
<1>2. ASSUME NEW T \in SUBSET S PROVE Amounts(q, T) = g[T]
  <2> DEFINE h == CHOOSE f : SumsUp(q, T, f)
             r == [s \in SUBSET T |-> g[s]]
  <2>1. IsFiniteSet(T)
    BY FS_Subset
  <2>2. SumsUp(q, T, h)
    BY <2>1, SumsUpExists
  <2>3. Amounts(q, T) = h[T]
    BY AmountsIsChosen
  <2>4. SumsUp(q, T, r) /\ r[T] = g[T]
    BY <1>1, SumsUpBelow
  <2> HIDE DEF h, r
  <2>5. h = r
    BY <2>1, <2>2, <2>4, SumsUpOnce
  <2> QED BY <2>3, <2>4, <2>5
<1>3. {} \in SUBSET S /\ S \in SUBSET S /\ S \ {Chosen(S)} \in SUBSET S
  OBVIOUS
<1>4. Adds(q, S, g)
  BY <1>1, SumsUpIs
<1> QED BY <1>2, <1>3, <1>4 DEF Adds

\* Any member may be taken out first.
LEMMA AmountsTake ==
    ASSUME NEW S, IsFiniteSet(S), NEW q, \A r \in S : q[r].amount \in Nat
    PROVE  \A T \in SUBSET S :
              /\ Amounts(q, T) \in Nat
              /\ \A x \in T : Amounts(q, T) = q[x].amount + Amounts(q, T \ {x})
<1> DEFINE B == {T \in SUBSET S :
                   /\ Amounts(q, T) \in Nat
                   /\ \A x \in T : Amounts(q, T) = q[x].amount + Amounts(q, T \ {x})}
<1>1. ASSUME NEW T \in SUBSET S, \A U \in SUBSET T : U # T => U \in B PROVE T \in B
  <2> DEFINE c == Chosen(T)
  <2>1. IsFiniteSet(T)
    BY FS_Subset
  <2>2. CASE T = {}
    <3>1. Amounts(q, {}) = 0
      BY <2>1, AmountsUnfold
    <3> QED BY <2>2, <3>1
  <2>3. CASE T # {}
    <3>1. Amounts(q, T) = q[c].amount + Amounts(q, T \ {c})
      BY <2>1, <2>3, AmountsUnfold
    <3>2. c \in T
      BY <2>3, ChosenIsIn
    <3> HIDE DEF c
    <3>3. ASSUME NEW U \in SUBSET T, U # T
          PROVE  /\ Amounts(q, U) \in Nat
                 /\ \A x \in U : Amounts(q, U) = q[x].amount + Amounts(q, U \ {x})
      BY <1>1, <3>3
    <3> HIDE DEF B
    <3>4. Amounts(q, T \ {c}) \in Nat
      BY <3>2, <3>3
    <3>5. Amounts(q, T) \in Nat
      BY <3>1, <3>2, <3>4
    <3>6. ASSUME NEW x \in T PROVE Amounts(q, T) = q[x].amount + Amounts(q, T \ {x})
      <4>1. CASE x = c
        BY <3>1, <4>1
      <4>2. CASE x # c
        <5>1. T \ {c} \in SUBSET T /\ T \ {c} # T /\ x \in T \ {c}
          BY <3>2, <4>2
        <5>2. T \ {x} \in SUBSET T /\ T \ {x} # T /\ c \in T \ {x}
          BY <3>2, <4>2
        <5>3. (T \ {c}) \ {x} = (T \ {x}) \ {c}
          OBVIOUS
        <5>4. Amounts(q, T \ {c}) = q[x].amount + Amounts(q, (T \ {c}) \ {x})
          BY <3>3, <5>1
        <5>5. Amounts(q, T \ {x}) = q[c].amount + Amounts(q, (T \ {x}) \ {c})
          BY <3>3, <5>2
        <5>6. Amounts(q, (T \ {c}) \ {x}) \in Nat
          BY <3>2, <3>3
        <5>7. q[x].amount \in Nat /\ q[c].amount \in Nat
          BY <3>2
        <5>8. Amounts(q, (T \ {x}) \ {c}) = Amounts(q, (T \ {c}) \ {x})
          BY <5>3
        <5> QED BY <3>1, <5>4, <5>5, <5>6, <5>7, <5>8
      <4> QED BY <4>1, <4>2
    <3> QED BY <3>5, <3>6 DEF B
  <2> QED BY <2>2, <2>3
<1> HIDE DEF B
<1>2. \A T \in SUBSET S : T \in B
  BY <1>1, SubsetInduction
<1> QED BY <1>2 DEF B

\* Only the amounts of the members count.
LEMMA AmountsAgree ==
    ASSUME NEW S, IsFiniteSet(S), NEW p, NEW q, \A r \in S : p[r].amount = q[r].amount
    PROVE  Amounts(p, S) = Amounts(q, S)
<1> DEFINE B == {T \in SUBSET S : Amounts(p, T) = Amounts(q, T)}
<1>1. ASSUME NEW T \in SUBSET S, \A U \in SUBSET T : U # T => U \in B PROVE T \in B
  <2> DEFINE c == Chosen(T)
  <2>1. IsFiniteSet(T)
    BY FS_Subset
  <2>2. CASE T = {}
    <3>1. Amounts(p, {}) = 0 /\ Amounts(q, {}) = 0
      BY <2>1, AmountsUnfold
    <3> QED BY <2>2, <3>1
  <2>3. CASE T # {}
    <3>1. /\ Amounts(p, T) = p[c].amount + Amounts(p, T \ {c})
          /\ Amounts(q, T) = q[c].amount + Amounts(q, T \ {c})
      BY <2>1, <2>3, AmountsUnfold
    <3>2. c \in T
      BY <2>3, ChosenIsIn
    <3> HIDE DEF c
    <3>3. T \ {c} \in B
      BY <1>1, <3>2
    <3>4. p[c].amount = q[c].amount
      BY <3>2
    <3> QED BY <3>1, <3>3, <3>4
  <2> QED BY <2>2, <2>3
<1> HIDE DEF B
<1>2. \A T \in SUBSET S : T \in B
  BY <1>1, SubsetInduction
<1>3. S \in B
  BY <1>2
<1> QED BY <1>3 DEF B
-----------------------------------------------------------------------------
(***************************************************************************)
(* The ledger.                                                             *)
(***************************************************************************)
ChargedTo(q, m, k) == {r \in Requests : q[r].charged /\ q[r].period = m /\ q[r].kind = k}

\* One step charges one request, so only finitely many ever are.
FinitelyCharged == IsFiniteSet({r \in Requests : req[r].charged})
LedgerInv == FinitelyCharged /\ LedgerExact

LEMMA LedgerIs ==
  LedgerExact <=> \A m \in Months, k \in Kinds : used[m][k] = Amounts(req, ChargedTo(req, m, k))
  BY DEF LedgerExact, Amounts, ChargedTo

LEMMA LedgerInit == Init => LedgerInv
  <1> SUFFICES ASSUME Init PROVE LedgerInv
    OBVIOUS
  <1>1. \A r \in Requests : ~req[r].charged
    BY DEF Init, NewRequest
  <1>2. {r \in Requests : req[r].charged} = {}
    BY <1>1
  <1>3. FinitelyCharged
    BY <1>2, FS_EmptySet DEF FinitelyCharged
  <1>4. ASSUME NEW m \in Months, NEW k \in Kinds
        PROVE  used[m][k] = Amounts(req, ChargedTo(req, m, k))
    <2>1. ChargedTo(req, m, k) = {}
      BY <1>1 DEF ChargedTo
    <2>2. Amounts(req, {}) = 0
      BY FS_EmptySet, AmountsUnfold
    <2>3. used[m][k] = 0
      BY DEF Init
    <2> QED BY <2>1, <2>2, <2>3
  <1> QED BY <1>3, <1>4, LedgerIs DEF LedgerInv

\* Steps that move only a request which is not charged, before or after.
LEMMA LedgerFrame ==
  ASSUME TypeOK, LedgerInv, NEW r \in Requests, used' = used,
         ~req[r].charged, ~req'[r].charged,
         \A s \in Requests \ {r} : req'[s] = req[s]
  PROVE  LedgerInv'
  <1>1. {s \in Requests : req'[s].charged} = {s \in Requests : req[s].charged}
    OBVIOUS
  <1>2. FinitelyCharged'
    BY <1>1 DEF FinitelyCharged, LedgerInv
  <1>3. ASSUME NEW m \in Months, NEW k \in Kinds
        PROVE  used'[m][k] = Amounts(req', ChargedTo(req', m, k))
    <2> DEFINE S == ChargedTo(req, m, k)
    <2>1. ChargedTo(req', m, k) = S
      BY DEF ChargedTo
    <2>2. \A s \in S : req[s].amount = req'[s].amount
      BY DEF ChargedTo
    <2>3. IsFiniteSet(S)
      <3>1. S \subseteq {s \in Requests : req[s].charged}
        BY DEF ChargedTo
      <3> QED BY <3>1, FS_Subset DEF LedgerInv, FinitelyCharged
    <2>4. used[m][k] = Amounts(req, S)
      BY LedgerIs DEF LedgerInv
    <2> HIDE DEF S
    <2>5. Amounts(req, S) = Amounts(req', S)
      BY <2>2, <2>3, AmountsAgree
    <2> QED BY <2>1, <2>4, <2>5
  <1>4. (\A m \in Months, k \in Kinds : used[m][k] = Amounts(req, ChargedTo(req, m, k)))'
    BY <1>3
  <1>5. (LedgerExact <=> \A m \in Months, k \in Kinds :
                            used[m][k] = Amounts(req, ChargedTo(req, m, k)))'
    BY LedgerIs, PTL
  <1> QED BY <1>2, <1>4, <1>5 DEF LedgerInv

\* The committed charge: its amount joins the sum of its month and kind.
LEMMA LedgerCharge ==
  ASSUME TypeOK, LedgerInv, VerdictInv, NEW r \in Requests, Charge(r)
  PROVE  LedgerInv'
  <1> DEFINE p == req[r].period
             j == req[r].kind
             a == req[r].amount
  <1>1. ~req[r].charged
    BY DEF Charge, VerdictInv, Undecided
  <1>2. p \in Months /\ j \in Kinds /\ a \in Nat
    BY DEF TypeOK, RequestRecord
  <1>3. /\ req'[r].charged /\ req'[r].period = p /\ req'[r].kind = j /\ req'[r].amount = a
        /\ \A s \in Requests \ {r} : req'[s] = req[s]
    BY DEF Charge, Unavailable, Admit, Refuse, TypeOK, RequestRecord
  <1>4. \A m \in Months, k \in Kinds :
            used'[m][k] = IF m = p /\ k = j THEN used[m][k] + a ELSE used[m][k]
    BY <1>2 DEF Charge, Increment, TypeOK
  <1> HIDE DEF p, j, a
  <1>5. FinitelyCharged'
    <2>1. {s \in Requests : req'[s].charged} = {s \in Requests : req[s].charged} \cup {r}
      BY <1>3
    <2>2. IsFiniteSet({s \in Requests : req[s].charged} \cup {r})
      BY FS_AddElement DEF LedgerInv, FinitelyCharged
    <2> QED BY <2>1, <2>2 DEF FinitelyCharged
  <1>6. ASSUME NEW m \in Months, NEW k \in Kinds
        PROVE  used'[m][k] = Amounts(req', ChargedTo(req', m, k))
    <2> DEFINE S == ChargedTo(req, m, k)
    <2>1. r \notin S
      BY <1>1 DEF ChargedTo
    <2>2. \A s \in S : req[s].amount \in Nat /\ req'[s].amount = req[s].amount
      <3>1. \A s \in S : s \in Requests /\ s # r
        BY <2>1 DEF ChargedTo
      <3>2. \A s \in Requests : req[s].amount \in Nat
        BY DEF TypeOK, RequestRecord
      <3> QED BY <1>3, <3>1, <3>2
    <2>3. IsFiniteSet(S)
      <3>1. S \subseteq {s \in Requests : req[s].charged}
        BY DEF ChargedTo
      <3> QED BY <3>1, FS_Subset DEF LedgerInv, FinitelyCharged
    <2>4. used[m][k] = Amounts(req, S)
      BY LedgerIs DEF LedgerInv
    <2>5. CASE m = p /\ k = j
      <3>1. ChargedTo(req', m, k) = S \cup {r}
        BY <1>3, <2>5 DEF ChargedTo
      <3>2. req'[r].amount \in Nat
        BY <1>2, <1>3
      <3> DEFINE T == S \cup {r}
      <3>3. (\A s \in S : req[s].amount = req'[s].amount) /\ (\A s \in T : req'[s].amount \in Nat)
        BY <2>2, <3>2
      <3>4. T = S \cup {r}
        OBVIOUS
      <3> HIDE DEF S, T
      <3>5. IsFiniteSet(T) /\ T \in SUBSET T /\ S \in SUBSET T /\ r \in T /\ T \ {r} = S
        BY <2>1, <2>3, <3>4, FS_AddElement
      <3>6. Amounts(req', T) = req'[r].amount + Amounts(req', S) /\ Amounts(req', S) \in Nat
        BY <3>3, <3>5, AmountsTake
      <3>7. Amounts(req, S) = Amounts(req', S)
        BY <2>3, <3>3, AmountsAgree
      <3>8. ChargedTo(req', m, k) = T
        BY <3>1, <3>4
      <3>9. used'[m][k] = Amounts(req, S) + a
        BY <1>4, <2>4, <2>5
      <3> QED BY <1>2, <1>3, <3>6, <3>7, <3>8, <3>9
    <2>6. CASE ~(m = p /\ k = j)
      <3>1. ChargedTo(req', m, k) = S
        BY <1>1, <1>3, <2>6 DEF ChargedTo
      <3> HIDE DEF S
      <3>2. Amounts(req, S) = Amounts(req', S)
        BY <2>2, <2>3, AmountsAgree
      <3> QED BY <1>4, <2>4, <2>6, <3>1, <3>2
    <2> QED BY <2>5, <2>6
  <1>7. (\A m \in Months, k \in Kinds : used[m][k] = Amounts(req, ChargedTo(req, m, k)))'
    BY <1>6
  <1>8. (LedgerExact <=> \A m \in Months, k \in Kinds :
                            used[m][k] = Amounts(req, ChargedTo(req, m, k)))'
    BY LedgerIs, PTL
  <1> QED BY <1>5, <1>7, <1>8 DEF LedgerInv

LEMMA LedgerStep ==
  ASSUME TypeOK, LedgerInv, VerdictInv, [Next]_vars
  PROVE  LedgerInv'
  <1>1. ASSUME NEW r \in Requests, RequestStep(r) PROVE LedgerInv'
    <2>1. CASE Charge(r)
      BY <2>1, LedgerCharge
    <2>2. CASE ~Charge(r)
      <3>1. used' = used
        BY <1>1, <2>2 DEF RequestStep, BeginUpload, BeginTurn, Headroom, Stream, CheckAmount,
                          ChargeBlocked, ChargeUnavailable
      <3>2. ~req[r].charged
        BY <1>1, <2>2 DEF RequestStep, BeginUpload, BeginTurn, Headroom, Stream, CheckAmount,
                          ChargeBlocked, ChargeUnavailable, VerdictInv, Undecided
      <3>3. \A s \in Requests \ {r} : req'[s] = req[s]
        BY <1>1, <2>2 DEF RequestStep, BeginUpload, BeginTurn, Headroom, Stream, CheckAmount,
                          ChargeBlocked, ChargeUnavailable, Unavailable, Admit, Refuse, TypeOK
      <3>4. ~req'[r].charged
        <4>1. CASE BeginUpload(r) \/ BeginTurn(r)
          BY <4>1 DEF BeginUpload, BeginTurn, NewRequest, TypeOK
        <4>2. CASE Headroom(r) \/ Stream(r) \/ CheckAmount(r)
          BY <3>2, <4>2 DEF Headroom, Stream, CheckAmount, TypeOK, RequestRecord
        <4>3. CASE ChargeBlocked(r) \/ ChargeUnavailable(r)
          BY <4>3 DEF ChargeBlocked, ChargeUnavailable, Unavailable, Admit, Refuse, TypeOK,
                      RequestRecord
        <4> QED BY <1>1, <2>2, <4>1, <4>2, <4>3 DEF RequestStep
      <3> QED BY <3>1, <3>2, <3>3, <3>4, LedgerFrame
    <2> QED BY <2>1, <2>2
  <1>2. CASE used' = used /\ req' = req
    <2>1. FinitelyCharged'
      BY <1>2 DEF FinitelyCharged, LedgerInv
    <2>2. (\A m \in Months, k \in Kinds : used[m][k] = Amounts(req, ChargedTo(req, m, k)))'
      BY <1>2, LedgerIs DEF LedgerInv
    <2>3. (LedgerExact <=> \A m \in Months, k \in Kinds :
                              used[m][k] = Amounts(req, ChargedTo(req, m, k)))'
      BY LedgerIs, PTL
    <2> QED BY <2>1, <2>2, <2>3 DEF LedgerInv
  <1>3. (\E k \in Kinds, c \in CapValue : SetCap(k, c)) \/ MonthTurns \/ RefreshConfig
           \/ UNCHANGED vars => used' = used /\ req' = req
    BY DEF SetCap, MonthTurns, RefreshConfig, vars
  <1> QED BY <1>1, <1>2, <1>3 DEF Next

\* The counters are exactly the committed charges, for any number of requests
\* (usage.py:94-125): no charge is lost, counted twice or put to another month.
THEOREM LedgerExactHolds == Spec => []LedgerExact
  <1>1. Spec => []LedgerInv
    BY LedgerInit, LedgerStep, TypeCorrect, VerdictsHold, PTL DEF Spec
  <1> QED BY <1>1, PTL DEF LedgerInv
-----------------------------------------------------------------------------
(* The buckets: for any requests, addresses, bursts, rates and however     *)
(* long the clock runs.  The invariant ties the ghosts to the hash: what a *)
(* bucket still owes is never more than what is missing from it, so that a *)
(* hash which is dropped owed nothing.                                     *)

(* Arithmetic. *)

\* Products are monotone, and one step adds one factor.
LEMMA Products ==
    ASSUME NEW r \in Nat, NEW x \in Nat, NEW y \in Nat, x <= y
    PROVE  /\ r * x \in Nat
           /\ r * x <= r * y
           /\ r * (x + 1) = r * x + r
           /\ x * r = r * x
<1>1. PICK k \in Nat : y = x + k
  <2>1. y - x \in Nat /\ y = x + (y - x)
    OBVIOUS
  <2> QED BY <2>1
<1>2. r * y = r * x + r * k /\ r * k \in Nat /\ r * x \in Nat
  BY <1>1, SMT
<1>3. r * (x + 1) = r * x + r /\ x * r = r * x
  BY SMT
<1> QED BY <1>2, <1>3, SMT

\* A quotient, and one more, covers what was divided.
LEMMA Quotient ==
    ASSUME NEW a \in Nat, NEW r \in Nat \ {0}
    PROVE  /\ a \div r \in Nat
           /\ a < r * ((a \div r) + 1)
BY SMT

\* Rounding up covers it too.
LEMMA RoundedUp ==
    ASSUME NEW a \in Nat \ {0}, NEW r \in Nat \ {0}
    PROVE  /\ (a + r - 1) \div r \in Nat \ {0}
           /\ a <= r * ((a + r - 1) \div r)
<1>1. a + r - 1 \in Nat /\ a + r - 1 >= r
  OBVIOUS
<1>2. (a + r - 1) \div r \in Nat /\ a + r - 1 < r * (((a + r - 1) \div r) + 1)
  BY <1>1, Quotient
<1>3. r * (((a + r - 1) \div r) + 1) = r * ((a + r - 1) \div r) + r
  BY <1>2, Products
<1>4. (a + r - 1) \div r # 0
  <2>1. SUFFICES ASSUME (a + r - 1) \div r = 0 PROVE FALSE
    OBVIOUS
  <2>2. r * 0 = 0
    OBVIOUS
  <2> QED BY <1>1, <1>2, <1>3, <2>1, <2>2
<1>5. r * ((a + r - 1) \div r) \in Nat
  BY <1>2, Products
<1> QED BY <1>2, <1>3, <1>4, <1>5

\* A burst is some parts, and a time to live outlasts the refill from empty to full.
LEMMA BucketSizes ==
    ASSUME NEW b \in Buckets
    PROVE  /\ Parts \in Nat \ {0} /\ RateOf(b) \in Nat \ {0}
           /\ Burst(b) \in Nat /\ Burst(b) >= Parts
           /\ Ttl(b) \in Nat \ {0}
           /\ Burst(b) <= RateOf(b) * Ttl(b)
<1>1. Parts \in Nat \ {0} /\ Margin \in Nat \ {0} /\ RateOf(b) \in Nat \ {0} /\ BurstOf(b) \in Nat \ {0}
  BY LimitAssumption
<1>2. Burst(b) \in Nat /\ Burst(b) >= Parts
  <2>1. Parts * 1 <= Parts * BurstOf(b) /\ BurstOf(b) * Parts = Parts * BurstOf(b)
    BY <1>1, Products
  <2>2. Parts * BurstOf(b) \in Nat /\ Parts * 1 = Parts
    BY <1>1
  <2> QED BY <1>1, <2>1, <2>2 DEF Burst
<1>3. Burst(b) \div RateOf(b) \in Nat /\ Burst(b) < RateOf(b) * ((Burst(b) \div RateOf(b)) + 1)
  BY <1>1, <1>2, Quotient
<1>4. Ttl(b) \in Nat \ {0} /\ (Burst(b) \div RateOf(b)) + 1 <= Ttl(b)
  BY <1>1, <1>3 DEF Ttl, Most
<1>5. RateOf(b) * ((Burst(b) \div RateOf(b)) + 1) <= RateOf(b) * Ttl(b)
  BY <1>1, <1>3, <1>4, Products
<1>6. RateOf(b) * Ttl(b) \in Nat /\ RateOf(b) * ((Burst(b) \div RateOf(b)) + 1) \in Nat
  BY <1>1, <1>3, <1>4, Products
<1> QED BY <1>1, <1>2, <1>3, <1>4, <1>5, <1>6

----------------------------------------------------------------------------
(* The invariant. *)

Hash == [tokens : Nat, ts : Nat, expires : Nat]

LimitTypeOK ==
    /\ now \in Nat
    /\ bucket \in [Buckets -> Hash]
    /\ ask \in [Asks -> Seq(Buckets)]
    /\ owed \in [Buckets -> Nat]
    /\ promised \in [Buckets -> Nat \cup {Never}]

\* What is in the bucket at second `n', before it is cut to its burst.
Filled(b, n) == bucket[b].tokens + RateOf(b) * (n - bucket[b].ts)

\* A hash lives as long as its bucket takes to fill, and what the bucket owes is missing from
\* it.
HashInv(b) ==
    IF bucket[b] = Absent THEN owed[b] = 0
    ELSE /\ bucket[b].tokens <= Burst(b)
         /\ bucket[b].ts <= now
         /\ now < bucket[b].expires
         /\ bucket[b].expires = bucket[b].ts + Ttl(b)
         /\ owed[b] <= Most(0, Burst(b) - Filled(b, now))

\* At the second that was promised there is a token.
PromiseInv(b) ==
    bucket[b] # Absent /\ promised[b] # Never =>
        /\ bucket[b].ts <= promised[b]
        /\ Parts <= Filled(b, promised[b])

LimitInv == LimitTypeOK /\ \A b \in Buckets : HashInv(b) /\ PromiseInv(b)

\* The level a check sees is within the burst, leaves room for what is owed, and, of a hash,
\* is what has come into it.
LEMMA LevelSeen ==
    ASSUME LimitInv, NEW b \in Buckets
    PROVE  /\ Level(b) \in Nat
           /\ Level(b) + owed[b] <= Burst(b)
           /\ bucket[b] = Absent => Level(b) = Burst(b)
           /\ bucket[b] # Absent =>
                /\ Filled(b, now) \in Nat
                /\ Level(b) = Least(Burst(b), Filled(b, now))
<1>1. Burst(b) \in Nat /\ RateOf(b) \in Nat
  BY BucketSizes
<1>2. now \in Nat /\ bucket[b] \in Hash /\ owed[b] \in Nat /\ HashInv(b)
  BY DEF LimitInv, LimitTypeOK
<1>3. CASE bucket[b] = Absent
  BY <1>1, <1>2, <1>3 DEF Level, HashInv
<1>4. CASE bucket[b] # Absent
  <2>1. bucket[b].tokens \in Nat /\ bucket[b].ts \in Nat
    BY <1>2 DEF Hash
  <2>2. bucket[b].ts <= now /\ owed[b] <= Most(0, Burst(b) - Filled(b, now))
    BY <1>2, <1>4 DEF HashInv
  <2>3. now - bucket[b].ts \in Nat /\ Most(0, now - bucket[b].ts) = now - bucket[b].ts
    BY <1>2, <2>1, <2>2 DEF Most
  <2>4. /\ RateOf(b) * (now - bucket[b].ts) \in Nat
        /\ (now - bucket[b].ts) * RateOf(b) = RateOf(b) * (now - bucket[b].ts)
    BY <1>1, <2>3, Products
  <2>5. Filled(b, now) \in Nat
    BY <2>1, <2>4 DEF Filled
  <2>6. Level(b) = Least(Burst(b), Filled(b, now))
    BY <1>4, <2>3, <2>4 DEF Level, Filled
  <2>7. Level(b) \in Nat /\ Level(b) + owed[b] <= Burst(b)
    BY <1>1, <1>2, <2>2, <2>5, <2>6 DEF Least, Most
  <2> QED BY <1>4, <2>5, <2>6, <2>7
<1> QED BY <1>3, <1>4

\* A token is there at the second that was promised and ever after, until it is taken.
LEMMA PromiseKept ==
    ASSUME LimitInv, NEW b \in Buckets,
           promised[b] # Never, now >= promised[b]
    PROVE  Level(b) >= Parts
<1>1. Parts \in Nat /\ Burst(b) \in Nat /\ Burst(b) >= Parts /\ RateOf(b) \in Nat
  BY BucketSizes
<1>2. CASE bucket[b] = Absent
  BY <1>1, <1>2, LevelSeen
<1>3. CASE bucket[b] # Absent
  <2>1. now \in Nat /\ promised[b] \in Nat /\ bucket[b] \in Hash /\ PromiseInv(b)
    BY DEF LimitInv, LimitTypeOK
  <2>2. bucket[b].tokens \in Nat /\ bucket[b].ts \in Nat
    BY <2>1 DEF Hash
  <2>3. bucket[b].ts <= promised[b] /\ Parts <= Filled(b, promised[b])
    BY <1>3, <2>1 DEF PromiseInv
  <2>4. /\ promised[b] - bucket[b].ts \in Nat /\ now - bucket[b].ts \in Nat
        /\ promised[b] - bucket[b].ts <= now - bucket[b].ts
    BY <2>1, <2>2, <2>3
  <2>5. /\ RateOf(b) * (promised[b] - bucket[b].ts) <= RateOf(b) * (now - bucket[b].ts)
        /\ RateOf(b) * (promised[b] - bucket[b].ts) \in Nat
        /\ RateOf(b) * (now - bucket[b].ts) \in Nat
    <3>1. RateOf(b) * (promised[b] - bucket[b].ts) <= RateOf(b) * (now - bucket[b].ts)
      BY <1>1, <2>4, Products
    <3>2. RateOf(b) * (promised[b] - bucket[b].ts) \in Nat
      BY <1>1, <2>4, Products
    <3>3. RateOf(b) * (now - bucket[b].ts) \in Nat
      BY <1>1, <2>4, Products
    <3> QED BY <3>1, <3>2, <3>3
  <2>6. Filled(b, now) >= Parts
    BY <1>1, <2>2, <2>3, <2>5 DEF Filled
  <2>7. Level(b) = Least(Burst(b), Filled(b, now)) /\ Filled(b, now) \in Nat
    BY <1>3, LevelSeen
  <2> QED BY <1>1, <2>6, <2>7 DEF Least
<1> QED BY <1>2, <1>3

----------------------------------------------------------------------------
(* One check. *)

\* What the script writes is a hash, alive.
LEMMA WrittenHash ==
    ASSUME LimitInv, NEW b \in Buckets, NEW n \in Nat, n <= Burst(b),
           Written(b, n)
    PROVE  /\ bucket' \in [Buckets -> Hash]
           /\ bucket'[b] = [tokens |-> n, ts |-> now, expires |-> now + Ttl(b)]
           /\ bucket'[b] # Absent
           /\ \A c \in Buckets : c # b => bucket'[c] = bucket[c]
<1>1. Ttl(b) \in Nat \ {0}
  BY BucketSizes
<1>2. now \in Nat /\ bucket \in [Buckets -> Hash]
  BY DEF LimitInv, LimitTypeOK
<1>3. [tokens |-> n, ts |-> now, expires |-> now + Ttl(b)] \in Hash
  BY <1>1, <1>2 DEF Hash
<1>4. bucket'[b] = [tokens |-> n, ts |-> now, expires |-> now + Ttl(b)]
  BY <1>2 DEF Written
<1>5. bucket'[b].expires # Absent.expires
  BY <1>1, <1>2, <1>4 DEF Absent
<1> QED BY <1>2, <1>3, <1>4, <1>5 DEF Written

\* A bucket nobody writes in a step that leaves the clock alone keeps its invariant.
LEMMA OtherBuckets ==
    ASSUME LimitInv, now' = now, NEW c \in Buckets,
           bucket'[c] = bucket[c], owed'[c] = owed[c], promised'[c] = promised[c]
    PROVE  HashInv(c)' /\ PromiseInv(c)'
BY DEF LimitInv, HashInv, PromiseInv, Filled, Burst, Ttl

\* A written hash owes what is missing from it.
LEMMA WrittenOwes ==
    ASSUME LimitInv, now' = now, NEW b \in Buckets, NEW n \in Nat,
           Written(b, n), owed'[b] \in Nat, n + owed'[b] <= Burst(b)
    PROVE  HashInv(b)'
<1>1. Burst(b) \in Nat /\ Ttl(b) \in Nat \ {0} /\ RateOf(b) \in Nat /\ now \in Nat
  BY BucketSizes DEF LimitInv, LimitTypeOK
<1>2. n <= Burst(b)
  BY <1>1
<1>3. bucket'[b] = [tokens |-> n, ts |-> now, expires |-> now + Ttl(b)] /\ bucket'[b] # Absent
  BY <1>2, WrittenHash
<1>4. bucket'[b].tokens = n /\ bucket'[b].ts = now /\ bucket'[b].expires = now + Ttl(b)
  BY <1>3
<1>5. RateOf(b) * (now - now) = 0
  BY <1>1
<1>6. Filled(b, now)' = n
  BY <1>1, <1>4, <1>5 DEF Filled
<1>7. owed'[b] <= Most(0, Burst(b) - Filled(b, now)')
  BY <1>1, <1>6 DEF Most
<1>8. Burst(b)' = Burst(b) /\ Ttl(b)' = Ttl(b)
  BY DEF Burst, Ttl
<1> QED BY <1>1, <1>2, <1>3, <1>4, <1>7, <1>8 DEF HashInv, Burst, Ttl, Most

LEMMA TookKeeps ==
    ASSUME LimitInv, now' = now, NEW b \in Buckets, Took(b)
    PROVE  /\ bucket' \in [Buckets -> Hash]
           /\ owed' \in [Buckets -> Nat]
           /\ promised' \in [Buckets -> Nat \cup {Never}]
           /\ \A c \in Buckets : HashInv(c)' /\ PromiseInv(c)'
<1>1. Parts \in Nat \ {0} /\ Burst(b) \in Nat
  BY BucketSizes
<1>2. Level(b) \in Nat /\ Level(b) + owed[b] <= Burst(b) /\ Level(b) >= Parts
  BY LevelSeen DEF Took
<1>3. owed \in [Buckets -> Nat] /\ promised \in [Buckets -> Nat \cup {Never}]
  BY DEF LimitInv, LimitTypeOK
<1>4. Level(b) - Parts \in Nat /\ Level(b) - Parts <= Burst(b)
  BY <1>1, <1>2, <1>3
<1>5. Written(b, Level(b) - Parts)
  BY DEF Took
<1>6. /\ bucket' \in [Buckets -> Hash]
      /\ \A c \in Buckets : c # b => bucket'[c] = bucket[c]
  BY <1>4, <1>5, WrittenHash
<1>7. owed' = [owed EXCEPT ![b] = @ + Parts] /\ promised' = [promised EXCEPT ![b] = Never]
  BY DEF Took
<1>8. /\ owed' \in [Buckets -> Nat] /\ promised' \in [Buckets -> Nat \cup {Never}]
      /\ owed'[b] = owed[b] + Parts /\ promised'[b] = Never
      /\ \A c \in Buckets : c # b => owed'[c] = owed[c] /\ promised'[c] = promised[c]
  BY <1>1, <1>3, <1>7
<1>9. owed'[b] \in Nat /\ (Level(b) - Parts) + owed'[b] <= Burst(b)
  BY <1>1, <1>2, <1>3, <1>8
<1>10. HashInv(b)'
  BY <1>4, <1>5, <1>9, WrittenOwes
<1>11. PromiseInv(b)'
  BY <1>8 DEF PromiseInv
<1>12. \A c \in Buckets : c # b => HashInv(c)' /\ PromiseInv(c)'
  BY <1>6, <1>8, OtherBuckets
<1> QED BY <1>6, <1>8, <1>10, <1>11, <1>12

LEMMA RefusedKeeps ==
    ASSUME LimitInv, now' = now, NEW b \in Buckets, RefusedBy(b)
    PROVE  /\ bucket' \in [Buckets -> Hash]
           /\ owed' \in [Buckets -> Nat]
           /\ promised' \in [Buckets -> Nat \cup {Never}]
           /\ \A c \in Buckets : HashInv(c)' /\ PromiseInv(c)'
<1>1. /\ Parts \in Nat \ {0} /\ Burst(b) \in Nat /\ Burst(b) >= Parts
      /\ RateOf(b) \in Nat \ {0} /\ now \in Nat
  BY BucketSizes DEF LimitInv, LimitTypeOK
<1>2. Level(b) \in Nat /\ Level(b) + owed[b] <= Burst(b) /\ Level(b) < Parts
  BY LevelSeen DEF RefusedBy
<1>3. owed \in [Buckets -> Nat] /\ promised \in [Buckets -> Nat \cup {Never}]
  BY DEF LimitInv, LimitTypeOK
<1>4. Level(b) <= Burst(b) /\ Written(b, Level(b))
  BY <1>1, <1>2 DEF RefusedBy
<1>5. /\ bucket' \in [Buckets -> Hash]
      /\ bucket'[b] = [tokens |-> Level(b), ts |-> now, expires |-> now + Ttl(b)]
      /\ \A c \in Buckets : c # b => bucket'[c] = bucket[c]
  BY <1>2, <1>4, WrittenHash
<1>6. owed' = owed
  BY DEF RefusedBy
<1>7. HashInv(b)'
  BY <1>2, <1>3, <1>4, <1>6, WrittenOwes
<1> DEFINE named == now + RetryAfter(b)
<1>8. Parts - Level(b) \in Nat \ {0} /\ Parts - Level(b) + RateOf(b) - 1 \in Nat
  BY <1>1, <1>2
<1>9. RetryAfter(b) \in Nat /\ Parts - Level(b) <= RateOf(b) * RetryAfter(b)
  BY <1>1, <1>8, RoundedUp DEF RetryAfter
<1>10. /\ named \in Nat /\ now <= named /\ named - now = RetryAfter(b)
       /\ RateOf(b) * RetryAfter(b) \in Nat
  <2>1. RateOf(b) * RetryAfter(b) \in Nat
    BY <1>1, <1>9, Products
  <2> QED BY <1>1, <1>9, <2>1
<1>11. Parts <= Level(b) + RateOf(b) * (named - now)
  BY <1>1, <1>2, <1>9, <1>10
<1>12. promised' = [promised EXCEPT ![b] = IF @ = Never THEN named ELSE Least(@, named)]
  BY DEF RefusedBy
<1>13. /\ promised'[b] = IF promised[b] = Never THEN named ELSE Least(promised[b], named)
       /\ \A c \in Buckets : c # b => promised'[c] = promised[c]
  BY <1>3, <1>12
<1>14. promised' \in [Buckets -> Nat \cup {Never}] /\ promised'[b] \in {named, promised[b]}
       /\ (promised'[b] = Never => FALSE)
  BY <1>3, <1>10, <1>12, <1>13 DEF Least, Never
<1>15. bucket'[b].tokens = Level(b) /\ bucket'[b].ts = now
  BY <1>5
<1>16. now <= promised'[b] /\ Parts <= Level(b) + RateOf(b) * (promised'[b] - now)
  <2>1. CASE promised'[b] = named
    BY <1>10, <1>11, <2>1
  <2>2. CASE promised'[b] = promised[b] /\ promised[b] # Never
    <3>1. promised[b] \in Nat /\ ~(now >= promised[b])
      BY <1>1, <1>2, <1>3, <2>2, PromiseKept
    <3>2. bucket[b] # Absent
      BY <1>1, <1>2, LevelSeen
    <3>3. bucket[b] \in Hash /\ PromiseInv(b) /\ HashInv(b)
      BY DEF LimitInv, LimitTypeOK
    <3>4. bucket[b].tokens \in Nat /\ bucket[b].ts \in Nat
      BY <3>3 DEF Hash
    <3>5. bucket[b].ts <= now /\ Parts <= Filled(b, promised[b])
      BY <2>2, <3>2, <3>3 DEF HashInv, PromiseInv
    <3>6. Level(b) = Least(Burst(b), Filled(b, now)) /\ Filled(b, now) \in Nat
      BY <3>2, LevelSeen
    <3>7. Level(b) = Filled(b, now)
      BY <1>1, <1>2, <3>6 DEF Least
    <3> DEFINE d == now - bucket[b].ts
               k == promised[b] - now
    <3>8. d \in Nat /\ k \in Nat /\ promised[b] - bucket[b].ts = d + k
      BY <1>1, <3>1, <3>4, <3>5
    <3>9. RateOf(b) * (d + k) = RateOf(b) * d + RateOf(b) * k
      <4> HIDE DEF d, k
      <4> QED BY <1>1, <3>8, SMT
    <3>10. RateOf(b) * d \in Nat /\ RateOf(b) * k \in Nat
      <4> HIDE DEF d, k
      <4>1. RateOf(b) * d \in Nat
        BY <1>1, <3>8, Products
      <4>2. RateOf(b) * k \in Nat
        BY <1>1, <3>8, Products
      <4> QED BY <4>1, <4>2
    <3>11. /\ Filled(b, promised[b]) = bucket[b].tokens + RateOf(b) * (d + k)
           /\ Filled(b, now) = bucket[b].tokens + RateOf(b) * d
      BY <3>8 DEF Filled
    <3>12. Parts <= Level(b) + RateOf(b) * k
      <4> HIDE DEF d, k
      <4> QED BY <1>1, <1>2, <3>4, <3>5, <3>7, <3>9, <3>10, <3>11
    <3> QED BY <1>1, <2>2, <3>1, <3>12
  <2> QED BY <1>14, <2>1, <2>2
<1>17. PromiseInv(b)'
  <2>1. Filled(b, promised[b])' = bucket'[b].tokens + RateOf(b) * (promised'[b] - bucket'[b].ts)
    BY DEF Filled
  <2> QED BY <1>15, <1>16, <2>1 DEF PromiseInv
<1>18. \A c \in Buckets : c # b => HashInv(c)' /\ PromiseInv(c)'
  BY <1>5, <1>6, <1>13, OtherBuckets
<1> QED BY <1>3, <1>5, <1>6, <1>7, <1>14, <1>17, <1>18

----------------------------------------------------------------------------
(* The clock. *)

\* A second repays what has come in; a hash that is dropped owes nothing.
LEMMA SecondKeeps ==
    ASSUME LimitInv, SecondPasses, NEW b \in Buckets
    PROVE  /\ bucket'[b] \in Hash
           /\ owed'[b] \in Nat
           /\ HashInv(b)' /\ PromiseInv(b)'
<1>1. /\ Burst(b) \in Nat /\ RateOf(b) \in Nat \ {0} /\ Ttl(b) \in Nat \ {0}
      /\ Burst(b) <= RateOf(b) * Ttl(b)
  BY BucketSizes
<1>2. /\ now \in Nat /\ bucket[b] \in Hash /\ owed[b] \in Nat
      /\ HashInv(b) /\ PromiseInv(b)
  BY DEF LimitInv, LimitTypeOK
<1>3. /\ now' = now + 1 /\ promised' = promised
      /\ bucket'[b] = IF bucket[b].expires <= now + 1 THEN Absent ELSE bucket[b]
      /\ owed'[b] = Most(0, owed[b] - RateOf(b))
  BY DEF SecondPasses
<1>4. Absent \in Hash
  BY DEF Absent, Hash
<1>5. bucket'[b] \in Hash /\ owed'[b] \in Nat
  BY <1>1, <1>2, <1>3, <1>4 DEF Most
<1>6. CASE bucket[b] = Absent
  <2>1. bucket[b].expires = 0 /\ owed[b] = 0
    BY <1>2, <1>6 DEF HashInv, Absent
  <2>2. bucket'[b] = Absent /\ owed'[b] = 0
    BY <1>1, <1>2, <1>3, <2>1 DEF Most
  <2>3. HashInv(b)' /\ PromiseInv(b)'
    BY <2>2 DEF HashInv, PromiseInv
  <2> QED BY <1>5, <2>3
<1>7. CASE bucket[b] # Absent
  <2>1. bucket[b].tokens \in Nat /\ bucket[b].ts \in Nat /\ bucket[b].expires \in Nat
    BY <1>2 DEF Hash
  <2>2. /\ bucket[b].tokens <= Burst(b) /\ bucket[b].ts <= now /\ now < bucket[b].expires
        /\ bucket[b].expires = bucket[b].ts + Ttl(b)
        /\ owed[b] <= Most(0, Burst(b) - Filled(b, now))
    BY <1>2, <1>7 DEF HashInv
  <2> DEFINE d == now - bucket[b].ts
  <2>3. d \in Nat /\ (now + 1) - bucket[b].ts = d + 1
    BY <1>2, <2>1, <2>2
  <2>4. RateOf(b) * d \in Nat /\ RateOf(b) * (d + 1) = RateOf(b) * d + RateOf(b)
    <3> HIDE DEF d
    <3> QED BY <1>1, <2>3, Products
  <2>5. Filled(b, now) = bucket[b].tokens + RateOf(b) * d
    BY DEF Filled
  <2>6. CASE bucket[b].expires <= now + 1
    <3>1. Ttl(b) <= d + 1
      BY <1>1, <1>2, <2>1, <2>2, <2>6
    <3>2. RateOf(b) * Ttl(b) <= RateOf(b) * (d + 1) /\ RateOf(b) * Ttl(b) \in Nat
      <4> HIDE DEF d
      <4> QED BY <1>1, <2>3, <3>1, Products
    <3>3. owed[b] <= RateOf(b)
      <4> HIDE DEF d
      <4> QED BY <1>1, <1>2, <2>1, <2>2, <2>4, <2>5, <3>2 DEF Most
    <3>4. bucket'[b] = Absent /\ owed'[b] = 0
      BY <1>1, <1>2, <1>3, <2>6, <3>3 DEF Most
    <3>5. HashInv(b)' /\ PromiseInv(b)'
      BY <3>4 DEF HashInv, PromiseInv
    <3> QED BY <1>5, <3>5
  <2>7. CASE ~(bucket[b].expires <= now + 1)
    <3>1. bucket'[b] = bucket[b]
      BY <1>3, <2>7
    <3>2. Filled(b, now)' = bucket[b].tokens + RateOf(b) * (d + 1)
      BY <1>3, <2>3, <3>1 DEF Filled
    <3>3. owed'[b] <= Most(0, Burst(b) - Filled(b, now)')
      <4> HIDE DEF d
      <4> QED BY <1>1, <1>2, <1>3, <2>1, <2>2, <2>4, <2>5, <3>2 DEF Most
    <3>4. Burst(b)' = Burst(b) /\ Ttl(b)' = Ttl(b)
      BY DEF Burst, Ttl
    <3>5. bucket[b].ts <= now + 1 /\ now + 1 < bucket[b].expires
      BY <1>2, <2>1, <2>2, <2>7
    <3>6. HashInv(b)'
      BY <1>3, <1>7, <2>2, <3>1, <3>3, <3>4, <3>5 DEF HashInv
    <3>7. PromiseInv(b)'
      BY <1>2, <1>3, <3>1 DEF PromiseInv, Filled
    <3> QED BY <1>5, <3>6, <3>7
  <2> QED BY <2>6, <2>7
<1> QED BY <1>6, <1>7

----------------------------------------------------------------------------
(* The steps. *)

\* The buckets a request has to pass are buckets.
LEMMA Gates ==
    ASSUME NEW s \in Sessions, NEW i \in Addresses
    PROVE  /\ enforce_rate_limits(s) \in Seq(Buckets)
           /\ enforce_rate_limits(s) \o enforce_ticket_limits(i) \in Seq(Buckets)
<1>1. /\ <<"chatbot">> \in Buckets /\ <<"tickets">> \in Buckets
      /\ <<"session", s>> \in Buckets /\ <<"address", i>> \in Buckets
  BY DEF Buckets
<1> DEFINE chatbot == <<"chatbot">>
           tickets == <<"tickets">>
           session == <<"session", s>>
           address == <<"address", i>>
<1>2. <<chatbot, session>> \in Seq(Buckets) /\ <<address, tickets>> \in Seq(Buckets)
  <2>1. chatbot \in Buckets /\ tickets \in Buckets /\ session \in Buckets /\ address \in Buckets
    BY <1>1
  <2> HIDE DEF chatbot, tickets, session, address
  <2> QED BY <2>1
<1>3. enforce_rate_limits(s) = <<chatbot, session>> /\ enforce_ticket_limits(i) = <<address, tickets>>
  BY DEF enforce_rate_limits, enforce_ticket_limits
<1>4. \A p, q \in Seq(Buckets) : p \o q \in Seq(Buckets)
  OBVIOUS
<1> HIDE DEF chatbot, tickets, session, address
<1> QED BY <1>2, <1>3, <1>4

LEMMA InitInv == ASSUME LimitInit PROVE LimitInv
<1>1. Absent \in Hash
  BY DEF Absent, Hash
<1>2. LimitTypeOK
  BY <1>1 DEF LimitInit, LimitTypeOK, Never
<1>3. \A b \in Buckets : HashInv(b) /\ PromiseInv(b)
  BY DEF LimitInit, HashInv, PromiseInv
<1> QED BY <1>2, <1>3 DEF LimitInv

\* A step that leaves the clock and the buckets alone.
LEMMA QuietKeeps ==
    ASSUME LimitInv, now' = now, bucket' = bucket, owed' = owed, promised' = promised,
           ask' \in [Asks -> Seq(Buckets)]
    PROVE  LimitInv'
<1>1. LimitTypeOK'
  BY DEF LimitInv, LimitTypeOK
<1>2. \A b \in Buckets : HashInv(b)' /\ PromiseInv(b)'
  BY OtherBuckets
<1> QED BY <1>1, <1>2 DEF LimitInv

\* A request that has passed a bucket, or was refused, has fewer to pass.
LEMMA AskShrinks ==
    ASSUME LimitInv, NEW a \in Asks, ask[a] # <<>>
    PROVE  /\ Head(ask[a]) \in Buckets
           /\ Passed(a) => ask' \in [Asks -> Seq(Buckets)]
           /\ Refused(a) => ask' \in [Asks -> Seq(Buckets)]
<1>1. ask \in [Asks -> Seq(Buckets)] /\ ask[a] \in Seq(Buckets)
  BY DEF LimitInv, LimitTypeOK
<1>2. Head(ask[a]) \in Buckets /\ Tail(ask[a]) \in Seq(Buckets)
  BY <1>1
<1>3. <<>> \in Seq(Buckets)
  OBVIOUS
<1> QED BY <1>1, <1>2, <1>3 DEF Passed, Refused

LEMMA NextInv == ASSUME LimitInv, [LimitNext]_limitVars PROVE LimitInv'
<1>1. ask \in [Asks -> Seq(Buckets)]
  BY DEF LimitInv, LimitTypeOK
<1>2. ASSUME NEW a \in Asks, NEW g \in Seq(Buckets), Arrive(a, g) PROVE LimitInv'
  <2>1. ask' \in [Asks -> Seq(Buckets)]
    BY <1>1, <1>2 DEF Arrive
  <2> QED BY <1>2, <2>1, QuietKeeps DEF Arrive
<1>3. ASSUME NEW a \in Asks, NEW s \in Sessions, Chat(a, s) PROVE LimitInv'
  <2>1. enforce_rate_limits(s) \in Seq(Buckets)
    BY DEF enforce_rate_limits, Buckets
  <2> QED BY <1>2, <1>3, <2>1 DEF Chat
<1>4. ASSUME NEW a \in Asks, NEW s \in Sessions, NEW i \in Addresses, OpenTicket(a, s, i)
      PROVE LimitInv'
  <2>1. enforce_rate_limits(s) \o enforce_ticket_limits(i) \in Seq(Buckets)
    BY Gates
  <2> QED BY <1>2, <1>4, <2>1 DEF OpenTicket
<1>5. ASSUME NEW b \in Buckets, Took(b) \/ RefusedBy(b), now' = now,
             ask' \in [Asks -> Seq(Buckets)]
      PROVE  LimitInv'
  <2>1. /\ bucket' \in [Buckets -> Hash]
        /\ owed' \in [Buckets -> Nat]
        /\ promised' \in [Buckets -> Nat \cup {Never}]
        /\ \A c \in Buckets : HashInv(c)' /\ PromiseInv(c)'
    <3>1. CASE Took(b)
      BY <1>5, <3>1, TookKeeps
    <3>2. CASE RefusedBy(b)
      BY <1>5, <3>2, RefusedKeeps
    <3> QED BY <1>5, <3>1, <3>2
  <2>2. now' \in Nat
    BY <1>5 DEF LimitInv, LimitTypeOK
  <2> QED BY <1>5, <2>1, <2>2 DEF LimitInv, LimitTypeOK
<1>6. ASSUME NEW a \in Asks, Check(a) PROVE LimitInv'
  <2>1. ask[a] # <<>> /\ now' = now
    BY <1>6 DEF Check
  <2>2. Head(ask[a]) \in Buckets
    BY <2>1, AskShrinks
  <2>3. (Took(Head(ask[a])) /\ Passed(a)) \/ (RefusedBy(Head(ask[a])) /\ Refused(a))
    BY <1>6 DEF Check
  <2>4. ask' \in [Asks -> Seq(Buckets)]
    BY <2>1, <2>3, AskShrinks
  <2> QED BY <1>5, <2>1, <2>2, <2>3, <2>4
<1>7. ASSUME NEW a \in Asks, CheckUnanswered(a) PROVE LimitInv'
  <2>1. ask[a] # <<>> /\ now' = now /\ Passed(a)
    BY <1>7 DEF CheckUnanswered
  <2>2. Head(ask[a]) \in Buckets /\ ask' \in [Asks -> Seq(Buckets)]
    BY <2>1, AskShrinks
  <2>3. CASE UNCHANGED <<bucket, owed, promised>>
    BY <2>1, <2>2, <2>3, QuietKeeps
  <2>4. CASE Took(Head(ask[a])) \/ RefusedBy(Head(ask[a]))
    BY <1>5, <2>1, <2>2, <2>4
  <2> QED BY <1>7, <2>3, <2>4 DEF CheckUnanswered
<1>8. CASE SecondPasses
  <2>1. \A b \in Buckets : /\ bucket'[b] \in Hash /\ owed'[b] \in Nat
                           /\ HashInv(b)' /\ PromiseInv(b)'
    BY <1>8, SecondKeeps
  <2>2. /\ bucket' = [b \in Buckets |-> bucket'[b]] /\ owed' = [b \in Buckets |-> owed'[b]]
        /\ now' = now + 1 /\ ask' = ask /\ promised' = promised
    BY <1>8 DEF SecondPasses
  <2>3. bucket' \in [Buckets -> Hash] /\ owed' \in [Buckets -> Nat]
    BY <2>1, <2>2
  <2> QED BY <2>1, <2>2, <2>3 DEF LimitInv, LimitTypeOK
<1>9. CASE UNCHANGED limitVars
  BY <1>1, <1>9, QuietKeeps DEF limitVars
<1> QED BY <1>3, <1>4, <1>6, <1>7, <1>8, <1>9 DEF LimitNext

\* The invariant, of every behaviour.
THEOREM LimitInvHolds == LimitSpec => []LimitInv
<1>1. LimitInit => LimitInv
  BY InitInv
<1>2. LimitInv /\ [LimitNext]_limitVars => LimitInv'
  BY NextInv
<1> QED BY <1>1, <1>2, PTL DEF LimitSpec

\* No bucket lets more through in any window than its burst and its refill (rate_limit.py:
\* 67-69: a bucket that has been idle long enough carries no state worth keeping), whatever
\* the bursts and rates and however many requests race.
THEOREM WindowBoundHolds == LimitSpec => []WindowBound
<1>1. LimitInv => WindowBound
  <2>1. SUFFICES ASSUME LimitInv, NEW b \in Buckets PROVE owed[b] <= Burst(b)
    BY DEF WindowBound
  <2>2. Level(b) \in Nat /\ Level(b) + owed[b] <= Burst(b)
    BY <2>1, LevelSeen
  <2>3. owed[b] \in Nat /\ Burst(b) \in Nat
    BY <2>1, BucketSizes DEF LimitInv, LimitTypeOK
  <2> QED BY <2>2, <2>3
<1> QED BY <1>1, LimitInvHolds, PTL

\* From the second a refusal has named there is a token until somebody takes it (rate_limit.py:
\* 42), whatever has been asked, refused or dropped since.
THEOREM RetryHonestHolds == LimitSpec => []RetryHonest
<1>1. LimitInv => RetryHonest
  BY PromiseKept DEF RetryHonest
<1> QED BY <1>1, LimitInvHolds, PTL

-----------------------------------------------------------------------------
(* The cached configuration: for any numbers of readers, writers and       *)
(* changes, any time to live and any lag.                                  *)

LEMMA NoEntryIsNoEntry == NoEntry \notin Entry
  BY DEF NoEntry, Entry

LEMMA OlderType ==
  ASSUME NEW n \in 0 .. Forgotten
  PROVE  /\ Older(n) \in 0 .. Forgotten
         /\ Older(n) <= n + 1 /\ n <= Older(n)
  BY ConfigAssumption DEF Older, Forgotten

LEMMA AgedType ==
  ASSUME NEW e \in Entry \cup {NoEntry}, Aged(e) # NoEntry
  PROVE  /\ e \in Entry /\ Aged(e) \in Entry
         /\ Aged(e).v = e.v /\ Aged(e).excuse = e.excuse /\ Aged(e).left = e.left - 1
  <1>1. e \in Entry
    BY DEF Aged, NoEntry
  <1>2. e.left \in 1 .. TTL /\ ~(e.left <= 1)
    BY <1>1, ConfigAssumption DEF Aged, Entry
  <1>3. Aged(e) = [e EXCEPT !.left = @ - 1]
    BY <1>2 DEF Aged
  <1>4. e.left - 1 \in 1 .. TTL
    BY <1>2, ConfigAssumption
  <1>5. QED
    BY <1>1, <1>3, <1>4 DEF Entry

\* Every variable keeps its shape.
THEOREM ConfigTypeCorrect == ConfigSpec => []ConfigTypeOK
<1>1. ConfigInit => ConfigTypeOK
  BY ConfigAssumption DEF ConfigInit, ConfigTypeOK, Versions, Forgotten, ReaderRecord, IdleReader
<1>2. ConfigTypeOK /\ [ConfigNext]_configVars => ConfigTypeOK'
  <2> SUFFICES ASSUME ConfigTypeOK, [ConfigNext]_configVars PROVE ConfigTypeOK'
    OBVIOUS
  <2>1. ASSUME NEW r \in Readers, Miss(r) PROVE ConfigTypeOK'
    <3>1. PICK v \in MayBeRead :
            /\ reader' = [reader EXCEPT ![r] = [pc |-> "fill", v |-> v, held |-> 0]]
            /\ UNCHANGED <<version, there, age, cache, writer>>
      BY <2>1 DEF Miss
    <3>2. v \in Versions
      <4>1. v \in 0 .. version
        BY <3>1 DEF MayBeRead
      <4>2. version \in 0 .. MaxVersion
        BY DEF ConfigTypeOK, Versions
      <4>3. QED
        BY <4>1, <4>2, ConfigAssumption DEF Versions
    <3>3. [pc |-> "fill", v |-> v, held |-> 0] \in ReaderRecord
      <4>1. 0 \in 0 .. MaxFill
        BY ConfigAssumption
      <4>2. QED
        BY <3>2, <4>1 DEF ReaderRecord
    <3>4. QED
      BY <3>1, <3>3 DEF ConfigTypeOK
  <2>2. ASSUME NEW r \in Readers, Fill(r) PROVE ConfigTypeOK'
    <3>1. IdleReader \in ReaderRecord
      BY ConfigAssumption DEF IdleReader, ReaderRecord, Versions
    <3>2. reader[r].v \in Versions
      BY DEF ConfigTypeOK, ReaderRecord
    <3>3. [v |-> reader[r].v, left |-> TTL,
           excuse |-> IF Outdated(reader[r].v) THEN "late" ELSE "evict"] \in Entry
      BY <3>2, ConfigAssumption DEF Entry, Excuses
    <3>4. cache' \in Entry \cup {NoEntry}
      BY <2>2, <3>3 DEF Fill, ConfigTypeOK
    <3>5. UNCHANGED <<version, there, age, writer>>
      BY <2>2 DEF Fill
    <3>6. QED
      BY <2>2, <3>1, <3>4, <3>5 DEF Fill, ConfigTypeOK
  <2>3. ASSUME NEW w \in Writers, Change(w) PROVE ConfigTypeOK'
    BY <2>3, ConfigAssumption DEF Change, ConfigTypeOK, Versions
  <2>4. ASSUME NEW w \in Writers, Delete(w) PROVE ConfigTypeOK'
    BY <2>4 DEF Delete, ConfigTypeOK
  <2>5. ASSUME NEW w \in Writers, Evict(w) PROVE ConfigTypeOK'
    <3>1. cache' \in Entry \cup {NoEntry}
      <4>1. CASE cache' = NoEntry
        BY <4>1
      <4>2. CASE cache # NoEntry /\ cache' = [cache EXCEPT !.excuse = "missed"]
        BY <4>2 DEF ConfigTypeOK, Entry, Excuses
      <4>3. QED
        BY <2>5, <4>1, <4>2 DEF Evict, Evicted
    <3>2. UNCHANGED <<version, there, age, reader>>
      BY <2>5 DEF Evict
    <3>3. QED
      BY <2>5, <3>1, <3>2 DEF Evict, ConfigTypeOK
  <2>6. CASE ConfigTick
    <3>1. cache' \in Entry \cup {NoEntry}
      BY <2>6, AgedType DEF ConfigTick, ConfigTypeOK
    <3>2. age' \in [Versions -> 0 .. Forgotten]
      BY <2>6, OlderType DEF ConfigTick, ConfigTypeOK
    <3>3. ASSUME NEW r \in Readers, reader[r].pc = "fill"
          PROVE  [reader[r] EXCEPT !.held = @ + 1] \in ReaderRecord
      BY <2>6, <3>3, ConfigAssumption DEF ConfigTick, ConfigTypeOK, ReaderRecord
    <3>4. reader' \in [Readers -> ReaderRecord]
      BY <2>6, <3>3 DEF ConfigTick, ConfigTypeOK
    <3>5. UNCHANGED <<version, there, writer>>
      BY <2>6 DEF ConfigTick
    <3>6. QED
      BY <3>1, <3>2, <3>4, <3>5 DEF ConfigTypeOK
  <2>7. CASE UNCHANGED configVars
    BY <2>7 DEF configVars, ConfigTypeOK
  <2>8. QED
    BY <2>1, <2>2, <2>3, <2>4, <2>5, <2>6, <2>7 DEF ConfigNext
<1>3. QED
  BY <1>1, <1>2, PTL DEF ConfigSpec
-----------------------------------------------------------------------------
(***************************************************************************)
(* How old what is served can be.  A version that is still current has age *)
(* zero, and so has one that is yet to come: without that, a change could  *)
(* find its old version already old.                                       *)
(***************************************************************************)
CurrentIsYoung == \A v \in Versions : (v >= version /\ there) \/ v > version => age[v] = 0

\* Forgotten is out of reach of StaleBounded, so no age it bounds is saturated.
AgeInv == ConfigTypeOK /\ CurrentIsYoung /\ StaleBounded

LEMMA OlderByOne ==
  ASSUME NEW n \in 0 .. Forgotten
  PROVE  Older(n) \in Nat /\ Older(n) <= n + 1
  BY ConfigAssumption DEF Older, Forgotten

LEMMA AgeInit == ConfigInit => AgeInv
<1> SUFFICES ASSUME ConfigInit PROVE AgeInv
  OBVIOUS
<1>1. ConfigTypeOK
  BY ConfigAssumption DEF ConfigInit, ConfigTypeOK, Versions, Forgotten, ReaderRecord, IdleReader
<1>2. CurrentIsYoung
  BY DEF ConfigInit, CurrentIsYoung
<1>3. StaleBounded
  BY DEF ConfigInit, StaleBounded, IdleReader
<1>4. QED
  BY <1>1, <1>2, <1>3 DEF AgeInv

\* A step that lets no time pass disturbs neither bound but by what it stores.
LEMMA SameAge ==
  ASSUME AgeInv, ConfigTypeOK', age' = age,
         CurrentIsYoung',
         cache' # NoEntry => age[cache'.v] <= TTL + MaxFill + Lag - cache'.left,
         \A r \in Readers : reader'[r].pc = "fill" => age[reader'[r].v] <= reader'[r].held + Lag
  PROVE  AgeInv'
  BY DEF AgeInv, StaleBounded

LEMMA AgeStep == AgeInv /\ ConfigTypeOK' /\ [ConfigNext]_configVars => AgeInv'
<1> SUFFICES ASSUME AgeInv, ConfigTypeOK', [ConfigNext]_configVars PROVE AgeInv'
  OBVIOUS
<1> USE DEF AgeInv
<1>0. /\ cache # NoEntry => age[cache.v] <= TTL + MaxFill + Lag - cache.left
      /\ \A r \in Readers : reader[r].pc = "fill" => age[reader[r].v] <= reader[r].held + Lag
  BY DEF StaleBounded
<1>1. ASSUME NEW r \in Readers, Miss(r) PROVE AgeInv'
  <2>1. PICK v \in MayBeRead :
          /\ reader' = [reader EXCEPT ![r] = [pc |-> "fill", v |-> v, held |-> 0]]
          /\ UNCHANGED <<version, there, age, cache, writer>>
    BY <1>1 DEF Miss
  <2>2. v \in 0 .. version /\ version \in 0 .. MaxVersion /\ v \in Versions
    BY <2>1, ConfigAssumption DEF MayBeRead, ConfigTypeOK, Versions
  <2>3. age[v] <= Lag
    <3>1. CASE age[v] < Lag
      BY <2>2, <3>1, ConfigAssumption DEF ConfigTypeOK
    <3>2. CASE ~Outdated(v)
      <4>1. age[v] = 0
        BY <2>2, <3>2 DEF CurrentIsYoung, Outdated
      <4>2. QED
        BY <4>1, ConfigAssumption
    <3>3. QED
      BY <2>1, <3>1, <3>2 DEF MayBeRead
  <2>4. CurrentIsYoung'
    BY <2>1 DEF CurrentIsYoung
  <2>5. /\ reader'[r].v = v /\ reader'[r].held = 0
        /\ \A s \in Readers \ {r} : reader'[s] = reader[s]
    BY <2>1 DEF ConfigTypeOK, IdleReader
  <2>6. \A s \in Readers : reader'[s].pc = "fill" => age[reader'[s].v] <= reader'[s].held + Lag
    BY <1>0, <2>3, <2>5, ConfigAssumption
  <2>7. QED
    BY <1>0, <2>1, <2>4, <2>6, SameAge
<1>2. ASSUME NEW r \in Readers, Fill(r) PROVE AgeInv'
  <2>1. age' = age /\ version' = version /\ there' = there
    BY <1>2 DEF Fill
  <2>2. CurrentIsYoung'
    BY <2>1 DEF CurrentIsYoung
  <2>3. \A s \in Readers : reader'[s].pc = "fill" => reader'[s] = reader[s]
    BY <1>2 DEF Fill, ConfigTypeOK, IdleReader
  <2>4. \A s \in Readers : reader'[s].pc = "fill" => age[reader'[s].v] <= reader'[s].held + Lag
    BY <1>0, <2>3
  <2>5. age[reader[r].v] <= reader[r].held + Lag /\ reader[r].held \in 0 .. MaxFill
        /\ age[reader[r].v] \in Nat
    BY <1>0, <1>2 DEF Fill, ConfigTypeOK, ReaderRecord, Forgotten
  <2>6. age[reader[r].v] <= TTL + MaxFill + Lag - TTL
    BY <2>5, ConfigAssumption
  <2>7. cache' # NoEntry => age[cache'.v] <= TTL + MaxFill + Lag - cache'.left
    <3>1. CASE UNCHANGED cache
      BY <1>0, <3>1
    <3>2. CASE cache' = [v |-> reader[r].v, left |-> TTL,
                         excuse |-> IF Outdated(reader[r].v) THEN "late" ELSE "evict"]
      BY <2>6, <3>2
    <3>3. QED
      BY <1>2, <3>1, <3>2 DEF Fill
  <2>8. QED
    BY <2>1, <2>2, <2>4, <2>7, SameAge
<1>3. ASSUME NEW w \in Writers, Change(w) PROVE AgeInv'
  <2>1. UNCHANGED <<there, age, cache, reader>> /\ version' = version + 1
    BY <1>3 DEF Change
  <2>2. CurrentIsYoung'
    <3>1. version \in Nat
      BY ConfigAssumption DEF ConfigTypeOK, Versions
    <3>2. \A v \in Versions : v >= version + 1 => v > version
      BY <3>1, ConfigAssumption DEF Versions
    <3>3. \A v \in Versions : v > version + 1 => v > version
      BY <3>1, ConfigAssumption DEF Versions
    <3>4. QED
      BY <2>1, <3>2, <3>3 DEF CurrentIsYoung
  <2>3. QED
    BY <1>0, <2>1, <2>2, SameAge
<1>4. ASSUME NEW w \in Writers, Delete(w) PROVE AgeInv'
  <2>1. UNCHANGED <<version, age, cache, reader>> /\ there' = FALSE
    BY <1>4 DEF Delete
  <2>2. CurrentIsYoung'
    BY <2>1 DEF CurrentIsYoung
  <2>3. QED
    BY <1>0, <2>1, <2>2, SameAge
<1>5. ASSUME NEW w \in Writers, Evict(w) PROVE AgeInv'
  <2>1. UNCHANGED <<version, there, age, reader>>
    BY <1>5 DEF Evict
  <2>2. CurrentIsYoung'
    BY <2>1 DEF CurrentIsYoung
  <2>3. cache' # NoEntry => cache # NoEntry /\ cache'.v = cache.v /\ cache'.left = cache.left
    BY <1>5 DEF Evict, Evicted, ConfigTypeOK, Entry
  <2>4. QED
    BY <1>0, <2>1, <2>2, <2>3, SameAge
<1>6. CASE ConfigTick
  <2>1. /\ UNCHANGED <<version, there>> /\ cache' = Aged(cache)
        /\ age' = [v \in Versions |->
              IF v <= version /\ Outdated(v) THEN Older(age[v]) ELSE age[v]]
    BY <1>6 DEF ConfigTick
  <2>2. \A v \in Versions : age'[v] \in Nat /\ age[v] \in Nat /\ age'[v] <= age[v] + 1
    <3>1. ASSUME NEW v \in Versions
          PROVE  age'[v] \in Nat /\ age[v] \in Nat /\ age'[v] <= age[v] + 1
      <4>1. age[v] \in 0 .. Forgotten
        BY DEF ConfigTypeOK
      <4>2. age'[v] = Older(age[v]) \/ age'[v] = age[v]
        BY <2>1
      <4>3. QED
        BY <4>1, <4>2, OlderByOne, ConfigAssumption DEF Forgotten
    <3>2. QED
      BY <3>1
  <2>3. CurrentIsYoung'
    <3>1. version \in Nat
      BY ConfigAssumption DEF ConfigTypeOK, Versions
    <3>2. ASSUME NEW v \in Versions, (v >= version /\ there) \/ v > version
          PROVE  age'[v] = 0
      <4>1. ~(v <= version /\ Outdated(v))
        BY <3>1, <3>2, ConfigAssumption DEF Outdated, Versions
      <4>2. QED
        BY <2>1, <3>2, <4>1 DEF CurrentIsYoung
    <3>3. QED
      BY <2>1, <3>2 DEF CurrentIsYoung
  <2>4. ASSUME cache' # NoEntry
        PROVE  age'[cache'.v] <= TTL + MaxFill + Lag - cache'.left
    <3>1. cache \in Entry /\ cache'.v = cache.v /\ cache'.left = cache.left - 1
      BY <2>1, <2>4, AgedType DEF ConfigTypeOK
    <3>2. cache # NoEntry /\ cache.v \in Versions /\ cache.left \in 1 .. TTL
      BY <3>1, NoEntryIsNoEntry DEF Entry
    <3>3. age[cache.v] <= TTL + MaxFill + Lag - cache.left
      BY <1>0, <3>2
    <3>4. QED
      BY <2>2, <3>1, <3>2, <3>3, ConfigAssumption
  <2>5. ASSUME NEW r \in Readers, reader'[r].pc = "fill"
        PROVE  age'[reader'[r].v] <= reader'[r].held + Lag
    <3>1. /\ reader[r].pc = "fill" /\ reader'[r].v = reader[r].v
          /\ reader'[r].held = reader[r].held + 1
      BY <1>6, <2>5 DEF ConfigTick, ConfigTypeOK, ReaderRecord
    <3>2. reader[r].v \in Versions /\ reader[r].held \in 0 .. MaxFill
      BY DEF ConfigTypeOK, ReaderRecord
    <3>3. age[reader[r].v] <= reader[r].held + Lag
      BY <1>0, <3>1
    <3>4. QED
      BY <2>2, <3>1, <3>2, <3>3, ConfigAssumption
  <2>6. QED
    BY <2>3, <2>4, <2>5 DEF StaleBounded
<1>7. CASE UNCHANGED configVars
  BY <1>7 DEF configVars, CurrentIsYoung, StaleBounded
<1>8. QED
  BY <1>1, <1>2, <1>3, <1>4, <1>5, <1>6, <1>7 DEF ConfigNext

\* What is served was replaced no longer ago than the time to live, the time a
\* fill may take and the replica's lag.
THEOREM StaleBoundedHolds == ConfigSpec => []StaleBounded
<1>1. ConfigSpec => []AgeInv
  BY AgeInit, AgeStep, ConfigTypeCorrect, PTL DEF ConfigSpec
<1>2. QED
  BY <1>1, PTL DEF AgeInv
-----------------------------------------------------------------------------
(***************************************************************************)
(* Why an entry is ever out of date.                                       *)
(***************************************************************************)
LEMMA CauseStep == ConfigTypeOK /\ ConfigTypeOK' /\ StaleHasCause /\ [ConfigNext]_configVars => StaleHasCause'
<1> SUFFICES ASSUME ConfigTypeOK, ConfigTypeOK', StaleHasCause, [ConfigNext]_configVars,
                    cache' # NoEntry, cache'.v # version' \/ ~there', cache'.excuse = "evict"
             PROVE  (\E w \in Writers : writer'[w] = "evict") \/ LeftBehind'
  BY DEF StaleHasCause, Outdated
<1> USE DEF LeftBehind
<1>1. ASSUME NEW r \in Readers, Miss(r) PROVE (\E w \in Writers : writer'[w] = "evict") \/ LeftBehind'
  BY <1>1 DEF Miss, StaleHasCause, Outdated
<1>2. ASSUME NEW r \in Readers, Fill(r) PROVE (\E w \in Writers : writer'[w] = "evict") \/ LeftBehind'
  <2>1. UNCHANGED <<version, there, writer>>
    BY <1>2 DEF Fill
  <2>2. cache' = cache
    BY <1>2, <2>1 DEF Fill, Outdated
  <2>3. QED
    BY <2>1, <2>2 DEF StaleHasCause, Outdated
<1>3. ASSUME NEW w \in Writers, Change(w) PROVE (\E x \in Writers : writer'[x] = "evict") \/ LeftBehind'
  BY <1>3 DEF Change, ConfigTypeOK
<1>4. ASSUME NEW w \in Writers, Delete(w) PROVE (\E x \in Writers : writer'[x] = "evict") \/ LeftBehind'
  <2>1. CASE DeletionEvicts
    BY <1>4, <2>1 DEF Delete, ConfigTypeOK
  <2>2. CASE ~DeletionEvicts
    BY <1>4, <2>2 DEF Delete, ConfigTypeOK, StaleHasCause, Outdated
  <2>3. QED
    BY <2>1, <2>2
<1>5. ASSUME NEW w \in Writers, Evict(w) PROVE (\E x \in Writers : writer'[x] = "evict") \/ LeftBehind'
  BY <1>5 DEF Evict, Evicted, ConfigTypeOK, Entry
<1>6. CASE ConfigTick
  <2>1. cache' = Aged(cache) /\ UNCHANGED <<version, there, writer>>
    BY <1>6 DEF ConfigTick
  <2>2. cache \in Entry /\ cache'.v = cache.v /\ cache'.excuse = cache.excuse
    BY <2>1, AgedType DEF ConfigTypeOK
  <2>3. QED
    BY <2>1, <2>2, NoEntryIsNoEntry DEF StaleHasCause, Outdated
<1>7. CASE UNCHANGED configVars
  BY <1>7 DEF configVars, StaleHasCause, Outdated
<1>8. QED
  BY <1>1, <1>2, <1>3, <1>4, <1>5, <1>6, <1>7 DEF ConfigNext

\* An outdated entry awaits its eviction, was stored late, outlived a failed
\* eviction, or is a deleted chatbot's where deletion evicts nothing.
THEOREM StaleHasCauseHolds == ConfigSpec => []StaleHasCause
<1>1. ConfigInit => StaleHasCause
  BY DEF ConfigInit, StaleHasCause
<1>2. QED
  BY <1>1, CauseStep, ConfigTypeCorrect, PTL DEF ConfigSpec
=============================================================================
