----------------------------- MODULE RateLimit -----------------------------
(***************************************************************************)
(* The token buckets a widget request passes before it costs anything:     *)
(* services/rate_limit.py and the two gates of services/widget.py.  A      *)
(* bucket is one Redis hash changed by one script, so each check is one    *)
(* step; a request makes two or four of them, with the other requests in   *)
(* between, and has paid the first when a later one refuses it.            *)
(*                                                                         *)
(* Time is the Redis server's, in seconds.  Tokens are counted in parts of *)
(* a token, so that a rate below one token a second is a whole number.     *)
(***************************************************************************)
EXTENDS Integers, Sequences

CONSTANTS
    Asks,          \* requests under way at once
    Sessions,      \* session ids, chosen by the browsers
    Addresses,     \* client addresses, UNKNOWN_CLIENT among them
    Parts,         \* parts a token is counted in
    BurstOf(_),    \* the capacity of a bucket, in tokens
    RateOf(_),     \* its refill, in parts a second
    Margin,        \* the seconds a time to live has to spare
    LastSecond     \* bound: the clock stops here

VARIABLES
    now,           \* Redis TIME
    bucket,        \* [Buckets -> the hash and the second it expires]
    ask,           \* [Asks -> the buckets each has still to pass]
    owed,          \* ghost: what a bucket has let through and time has not yet repaid
    promised       \* ghost: the second a refusal named, while nobody took a token since

limitVars == <<now, bucket, ask, owed, promised>>

Buckets ==
    {<<"chatbot">>, <<"tickets">>} \cup ({"session"} \X Sessions) \cup ({"address"} \X Addresses)

\* What the settings are taken to be; Margin is 60 in the code.
ASSUME LimitAssumption ==
    /\ Parts \in Nat \ {0}
    /\ Margin \in Nat \ {0}
    /\ \A b \in Buckets : BurstOf(b) \in Nat \ {0} /\ RateOf(b) \in Nat \ {0}

Never == -1
Absent == [tokens |-> 0, ts |-> 0, expires |-> 0]

LimitInit ==
    /\ now = 1
    /\ bucket = [b \in Buckets |-> Absent]
    /\ ask = [a \in Asks |-> <<>>]
    /\ owed = [b \in Buckets |-> 0]
    /\ promised = [b \in Buckets |-> Never]

----------------------------------------------------------------------------
(* The script. *)

Least(i, j) == IF i < j THEN i ELSE j
Most(i, j) == IF i > j THEN i ELSE j

Burst(b) == BurstOf(b) * Parts

\* A hash that is missing reads as a full bucket.
Level(b) ==
    IF bucket[b] = Absent THEN Burst(b)
    ELSE Least(Burst(b), bucket[b].tokens + Most(0, now - bucket[b].ts) * RateOf(b))

\* Mutant: the margin alone, whatever the bucket takes to fill.
TtlOfMargin(b) == Margin

\* From empty to full, and a margin.
Ttl(b) == Most(Margin, (Burst(b) \div RateOf(b)) + Margin)

\* Mutant: the seconds are rounded down.
RetryAfterFloor(b) == (Parts - Level(b)) \div RateOf(b)

\* math.ceil((cost - tokens) / refill_rate)
RetryAfter(b) == (Parts - Level(b) + RateOf(b) - 1) \div RateOf(b)

Written(b, tokens) ==
    bucket' = [bucket EXCEPT ![b] = [tokens |-> tokens, ts |-> now, expires |-> now + Ttl(b)]]

Took(b) ==
    /\ Level(b) >= Parts
    /\ Written(b, Level(b) - Parts)
    /\ owed' = [owed EXCEPT ![b] = @ + Parts]
    /\ promised' = [promised EXCEPT ![b] = Never]

RefusedBy(b) ==
    /\ Level(b) < Parts
    /\ Written(b, Level(b))
    /\ promised' = [promised EXCEPT ![b] =
                      IF @ = Never THEN now + RetryAfter(b) ELSE Least(@, now + RetryAfter(b))]
    /\ UNCHANGED owed

----------------------------------------------------------------------------
(* The gates.  A bootstrap with a session and a chat turn pass the same    *)
(* two buckets; a ticket passes its own two after them.                    *)

enforce_rate_limits(s) == <<<<"chatbot">>, <<"session", s>>>>
enforce_ticket_limits(i) == <<<<"address", i>>, <<"tickets">>>>

Arrive(a, gates) ==
    /\ ask[a] = <<>>
    /\ ask' = [ask EXCEPT ![a] = gates]
    /\ UNCHANGED <<now, bucket, owed, promised>>

Chat(a, s) == Arrive(a, enforce_rate_limits(s))
OpenTicket(a, s, i) == Arrive(a, enforce_rate_limits(s) \o enforce_ticket_limits(i))

Passed(a) == ask' = [ask EXCEPT ![a] = Tail(@)]
Refused(a) == ask' = [ask EXCEPT ![a] = <<>>]

Check(a) ==
    /\ ask[a] # <<>>
    /\ LET b == Head(ask[a])
       IN  \/ Took(b) /\ Passed(a)
           \/ RefusedBy(b) /\ Refused(a)
    /\ UNCHANGED now

\* RedisError: the request goes on, whether or not the script had run.
CheckUnanswered(a) ==
    /\ ask[a] # <<>>
    /\ LET b == Head(ask[a])
       IN  \/ UNCHANGED <<bucket, owed, promised>>
           \/ Took(b)
           \/ RefusedBy(b)
    /\ Passed(a)
    /\ UNCHANGED now

\* A second passes, and Redis drops the hashes whose time to live is over.
SecondPasses ==
    /\ now < LastSecond
    /\ now' = now + 1
    /\ bucket' = [b \in Buckets |-> IF bucket[b].expires <= now' THEN Absent ELSE bucket[b]]
    /\ owed' = [b \in Buckets |-> Most(0, owed[b] - RateOf(b))]
    /\ UNCHANGED <<ask, promised>>

LimitNext ==
    \/ \E a \in Asks, s \in Sessions :
         \/ Chat(a, s)
         \/ \E i \in Addresses : OpenTicket(a, s, i)
    \/ \E a \in Asks : Check(a) \/ CheckUnanswered(a)
    \/ SecondPasses

LimitSpec == LimitInit /\ [][LimitNext]_limitVars

----------------------------------------------------------------------------
(* Properties. *)

\* What a bucket is for: whatever the interleaving of the requests that share it, and however
\* often its hash has expired and read as full again, it lets no more through in any window
\* than its burst and what the window refills.  (`owed' is the largest, over the windows that
\* end now, of what was let through less what was refilled.)
WindowBound == \A b \in Buckets : owed[b] <= Burst(b)

\* Retry-After is a promise: from the second a refusal named, its bucket has the token, unless
\* another request has taken one since.
RetryHonest ==
    \A b \in Buckets : promised[b] # Never /\ now >= promised[b] => Level(b) >= Parts
=============================================================================
