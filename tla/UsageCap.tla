------------------------------ MODULE UsageCap ------------------------------
(***************************************************************************)
(* The monthly ceilings of one chatbot (app/services/usage.py) with their  *)
(* two callers: upload_document, which asks for headroom, streams the file *)
(* and then charges what it turned out to cost, and stream_answer, which   *)
(* charges one unit before it does anything else.                          *)
(*                                                                         *)
(* Requests run concurrently; the month may turn and an administrator may  *)
(* change a cap between any two of their steps.  The charge itself is one  *)
(* INSERT ... ON CONFLICT statement and therefore one step.  Chatbots do   *)
(* not share counters, so one is enough.                                   *)
(***************************************************************************)
EXTENDS Integers, FiniteSetsExt

CONSTANTS
    Requests,    \* uploads and chat turns
    Caps,        \* the ceilings an administrator may set
    NoCap,       \* a NULL cap
    Sizes,       \* sizes in bytes an upload may turn out to have
    UnitBytes,   \* INGESTION_UNIT_BYTES
    LastMonth,   \* bound: the clock stops here
    FailClosed,  \* the requests of processes that have usage_cap.fail_closed set
    Faults       \* subset of FaultKinds

FaultKinds == {"read", "write", "ack"}
Kinds == {"ingestion", "retrieval"}
Months == 0..LastMonth

ASSUME ConstantsAssumption ==
    /\ Caps \subseteq Nat
    /\ NoCap \notin Nat
    /\ Sizes \subseteq Nat \ {0}
    /\ UnitBytes \in Nat \ {0}
    /\ LastMonth \in Nat
    /\ FailClosed \subseteq Requests
    /\ Faults \subseteq FaultKinds

VARIABLES
    month,    \* period_start() of this moment
    used,     \* [Months -> [Kinds -> Nat]]: the two counter columns
    rows,     \* months that have a chatbot_usage_period row
    cap,      \* [Kinds -> Caps \cup {NoCap}]: columns of the chatbot row
    cached,   \* the retrieval cap in the widget's cached config
    req,      \* [Requests -> RequestRecord]
    ceiling   \* [Kinds -> Caps \cup {NoCap}]: the largest cap so far (history)

vars == <<month, used, rows, cap, cached, req, ceiling>>

CapValue == Caps \cup {NoCap}
Step == {"new", "headroom", "stream", "check", "charge", "admitted", "refused"}
RequestRecord ==
    [pc : Step, kind : Kinds, cap : CapValue, amount : Nat, period : Months,
     charged : BOOLEAN,    \* the increment was committed
     outage : BOOLEAN]     \* the verdict has counters_unavailable

\* b, a number or a cap, does not exceed the cap c.
CapLeq(b, c) == IF c = NoCap THEN TRUE ELSE b # NoCap /\ b <= c

\* ceil(size_bytes / INGESTION_UNIT_BYTES)
IngestionUnits(size) == (size + UnitBytes - 1) \div UnitBytes

NewRequest == [pc |-> "new", kind |-> "retrieval", cap |-> NoCap, amount |-> 1,
               period |-> 0, charged |-> FALSE, outage |-> FALSE]

Init ==
    /\ month = 0
    /\ used = [m \in Months |-> [k \in Kinds |-> 0]]
    /\ rows = {}
    /\ cap \in [Kinds -> CapValue]
    /\ cached = cap["retrieval"]
    /\ req = [r \in Requests |-> NewRequest]
    /\ ceiling = cap
-----------------------------------------------------------------------------
\* The verdict of a request, and what it knows about the counters.
Admit(r, charged, outage) ==
    req' = [req EXCEPT ![r].pc = "admitted", ![r].charged = charged, ![r].outage = outage]

Refuse(r, charged, outage) ==
    req' = [req EXCEPT ![r].pc = "refused", ![r].charged = charged, ![r].outage = outage]

\* _unavailable: fail open unless configured otherwise.
Unavailable(r, charged) ==
    IF r \in FailClosed THEN Refuse(r, charged, TRUE) ELSE Admit(r, charged, TRUE)

\* An upload takes its cap from the chatbot row its endpoint has loaded.
BeginUpload(r) ==
    /\ req[r].pc = "new"
    /\ req' = [req EXCEPT ![r] = [NewRequest EXCEPT !.pc = "headroom",
                                    !.kind = "ingestion", !.cap = cap["ingestion"]]]
    /\ UNCHANGED <<month, used, rows, cap, cached, ceiling>>

\* A chat turn takes it from the cached config, which may be out of date.
BeginTurn(r) ==
    /\ req[r].pc = "new"
    /\ req' = [req EXCEPT ![r] = [NewRequest EXCEPT !.pc = "check", !.cap = cached]]
    /\ UNCHANGED <<month, used, rows, cap, cached, ceiling>>

\* headroom: a NULL cap reads nothing.  The total comes from the read replica,
\* which may be behind: it is one the counter, which only grows, has passed.
Headroom(r) ==
    /\ req[r].pc = "headroom"
    /\ \/ \E seen \in 0..used[month]["ingestion"] :
             IF CapLeq(seen + 1, req[r].cap)
             THEN req' = [req EXCEPT ![r].pc = "stream"]
             ELSE req' = [req EXCEPT ![r].pc = "refused", ![r].period = month]
       \/ /\ "read" \in Faults /\ req[r].cap # NoCap
          /\ \/ /\ r \in FailClosed
                /\ req' = [req EXCEPT ![r].pc = "refused", ![r].outage = TRUE]
             \/ r \notin FailClosed /\ req' = [req EXCEPT ![r].pc = "stream"]
    /\ UNCHANGED <<month, used, rows, cap, cached, ceiling>>

\* The file has been streamed: now its cost is known.
Stream(r) ==
    /\ req[r].pc = "stream"
    /\ \E size \in Sizes :
          req' = [req EXCEPT ![r].pc = "check", ![r].amount = IngestionUnits(size)]
    /\ UNCHANGED <<month, used, rows, cap, cached, ceiling>>

\* consume, before its statement: an amount above the whole allowance is
\* refused here; otherwise period_start() is evaluated.
CheckAmount(r) ==
    /\ req[r].pc = "check"
    /\ req' = [req EXCEPT ![r].period = month,
                          ![r].pc = IF CapLeq(req[r].amount, req[r].cap)
                                    THEN "charge" ELSE "refused"]
    /\ UNCHANGED <<month, used, rows, cap, cached, ceiling>>

\* Mutants: the predicate ignores the amount; it is off by one.
RoomIgnoresAmount(q) == CapLeq(used[q.period][q.kind] + 1, q.cap)
RoomOffByOne(q) == CapLeq(used[q.period][q.kind] + q.amount + 1, q.cap)

\* WHERE cap IS NULL OR counter + amount <= cap
Room(q) == CapLeq(used[q.period][q.kind] + q.amount, q.cap)

\* Mutant: a conflict overwrites the counter instead of adding to it.
IncrementOverwrites(q) ==
    /\ rows' = rows \cup {q.period}
    /\ used' = [used EXCEPT ![q.period][q.kind] = q.amount]

\* SET counter = counter + amount; a month without a row starts at zero.
Increment(q) ==
    /\ rows' = rows \cup {q.period}
    /\ used' = [used EXCEPT ![q.period][q.kind] = @ + q.amount]

\* The statement inserts, or updates when the predicate allows it.  A
\* connection lost during the commit looks like an outage to the caller
\* although the increment is in the table.
Charge(r) ==
    /\ req[r].pc = "charge"
    /\ req[r].period \in rows => Room(req[r])
    /\ Increment(req[r])
    /\ \/ Admit(r, TRUE, FALSE)
       \/ "ack" \in Faults /\ Unavailable(r, TRUE)
    /\ UNCHANGED <<month, cap, cached, ceiling>>

\* No row came back: the row exists and the predicate was false.
ChargeBlocked(r) ==
    /\ req[r].pc = "charge"
    /\ req[r].period \in rows /\ ~Room(req[r])
    /\ Refuse(r, FALSE, FALSE)
    /\ UNCHANGED <<month, used, rows, cap, cached, ceiling>>

\* The statement could not be executed.
ChargeUnavailable(r) ==
    /\ "write" \in Faults
    /\ req[r].pc = "charge"
    /\ Unavailable(r, FALSE)
    /\ UNCHANGED <<month, used, rows, cap, cached, ceiling>>

\* The first of the next month, UTC.
MonthTurns ==
    /\ month < LastMonth
    /\ month' = month + 1
    /\ UNCHANGED <<used, rows, cap, cached, req, ceiling>>

\* update_chatbot: NULL clears a cap.  The cached config follows when it is
\* evicted, or at the latest when its TTL runs out.
SetCap(k, c) ==
    /\ c # cap[k]
    /\ cap' = [cap EXCEPT ![k] = c]
    /\ ceiling' = IF CapLeq(ceiling[k], c) THEN [ceiling EXCEPT ![k] = c] ELSE ceiling
    /\ UNCHANGED <<month, used, rows, cached, req>>

RefreshConfig ==
    /\ cached' = cap["retrieval"]
    /\ UNCHANGED <<month, used, rows, cap, req, ceiling>>

RequestStep(r) ==
    \/ BeginUpload(r)
    \/ BeginTurn(r)
    \/ Headroom(r)
    \/ Stream(r)
    \/ CheckAmount(r)
    \/ Charge(r)
    \/ ChargeBlocked(r)
    \/ ChargeUnavailable(r)

Next ==
    \/ \E r \in Requests : RequestStep(r)
    \/ \E k \in Kinds, c \in CapValue : SetCap(k, c)
    \/ MonthTurns
    \/ RefreshConfig

Spec == Init /\ [][Next]_vars
-----------------------------------------------------------------------------
TypeOK ==
    /\ month \in Months
    /\ used \in [Months -> [Kinds -> Nat]]
    /\ rows \subseteq Months
    /\ cap \in [Kinds -> CapValue]
    /\ cached \in CapValue
    /\ req \in [Requests -> RequestRecord]
    /\ ceiling \in [Kinds -> CapValue]

\* However many uploads and turns run at once, and although a request may
\* work with a cap that has been lowered since, no month's counter ever
\* passes the largest cap that was in force.
WithinCeiling ==
    \A m \in Months, k \in Kinds : CapLeq(used[m][k], ceiling[k])

\* A refusal that is not due to an outage is deserved, and stays so: with
\* the request's cost the counter would be above the request's cap.
RefusalDeserved ==
    \A r \in Requests :
        LET q == req[r] IN
        q.pc = "refused" /\ ~q.outage =>
            ~CapLeq(used[q.period][q.kind] + q.amount, q.cap)

\* Work that was let through is counted, work that was refused is not; an
\* outage is the only exception, in the direction fail_closed asks for or
\* when the acknowledgement of a committed charge is lost.
VerdictMatchesCharge ==
    \A r \in Requests :
        LET q == req[r] IN
        /\ q.pc = "admitted" /\ ~q.charged => q.outage /\ r \notin FailClosed
        /\ q.pc = "refused" /\ q.charged => q.outage /\ r \in FailClosed

\* The counters are exactly the committed charges: no charge is lost or
\* counted twice, and none lands in another month or in the other counter.
LedgerExact ==
    \A m \in Months, k \in Kinds :
        used[m][k] = MapThenSumSet(
            LAMBDA r : req[r].amount,
            {r \in Requests : req[r].charged /\ req[r].period = m /\ req[r].kind = k})

\* README.md:700 and usage.py:8 say that a null cap never touches the counter.
NullCapUntouched == \A r \in Requests : req[r].charged => req[r].cap # NoCap
-----------------------------------------------------------------------------
(***************************************************************************)
(* The strengthening that makes WithinCeiling inductive: every cap anybody *)
(* works with is below the ceiling, the statement never gets an amount     *)
(* above its cap, and a month without a row has spent nothing.             *)
(***************************************************************************)
CapsBelowCeiling ==
    /\ \A k \in Kinds : CapLeq(cap[k], ceiling[k])
    /\ CapLeq(cached, ceiling["retrieval"])
    /\ \A r \in Requests : req[r].pc \in {"headroom", "stream", "check", "charge"}
                            => CapLeq(req[r].cap, ceiling[req[r].kind])

ChargeFits ==
    \A r \in Requests : req[r].pc = "charge" => CapLeq(req[r].amount, req[r].cap)

FreshMonth == \A m \in Months \ rows, k \in Kinds : used[m][k] = 0

CapInv == CapsBelowCeiling /\ ChargeFits /\ FreshMonth /\ WithinCeiling
=============================================================================
