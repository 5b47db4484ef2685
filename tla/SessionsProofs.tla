--------------------------- MODULE SessionsProofs ---------------------------
(***************************************************************************)
(* What the deny-list and the cut-off guarantee, for any number of tokens, *)
(* requests and member changes, any resolution of the clock and any        *)
(* lifetime of a token.                                                    *)
(***************************************************************************)
EXTENDS Sessions, TLAPS

\* Whole seconds: truncation, and the arithmetic of Start.
LEMMA Truncation ==
    ASSUME NEW n \in Nat
    PROVE  /\ SecondOf(n) \in Nat
           /\ Start(SecondOf(n)) <= n
           /\ n < Start(SecondOf(n)) + TicksPerSecond
BY ConstantsAssumption, Z3 DEF SecondOf, Start

LEMMA TruncationInt ==
    ASSUME NEW n \in Int
    PROVE  /\ SecondOf(n) \in Int
           /\ Start(SecondOf(n)) <= n
           /\ n < Start(SecondOf(n)) + TicksPerSecond
BY ConstantsAssumption, Z3 DEF SecondOf, Start

LEMMA StartAdds ==
    ASSUME NEW a \in Int, NEW b \in Int
    PROVE  /\ Start(a) \in Int
           /\ Start(a + b) = Start(a) + Start(b)
           /\ Start(a - b) = Start(a) - Start(b)
           /\ Start(1) = TicksPerSecond
BY ConstantsAssumption DEF Start

LEMMA StartOfExpiry ==
    ASSUME NEW i \in Nat, NEW e \in Nat, e = i + RefreshTTL
    PROVE  /\ Start(e) = Start(i) + Start(RefreshTTL)
           /\ Start(i) \in Int /\ Start(e) \in Int /\ Start(e - 1) \in Int
           /\ Start(RefreshTTL) \in Int
BY ConstantsAssumption DEF Start

LEMMA StartMonotone ==
    ASSUME NEW a \in Int, NEW b \in Int, a <= b
    PROVE  Start(a) <= Start(b)
BY ConstantsAssumption DEF Start

LEMMA StartNat ==
    ASSUME NEW a \in Nat
    PROVE  Start(a) \in Nat
BY ConstantsAssumption DEF Start

\* A second that starts by now is at most the current one.
LEMMA StartedByNow ==
    ASSUME NEW a \in Int, NEW n \in Int, Start(a) <= n
    PROVE  a <= SecondOf(n)
<1>1. SUFFICES ASSUME SecondOf(n) + 1 <= a PROVE FALSE
  BY TruncationInt
<1>2. Start(SecondOf(n) + 1) <= Start(a)
  BY <1>1, TruncationInt, StartMonotone
<1>3. Start(SecondOf(n) + 1) = Start(SecondOf(n)) + TicksPerSecond
  BY TruncationInt, StartAdds
<1>4. n < Start(SecondOf(n)) + TicksPerSecond /\ SecondOf(n) \in Int
  BY TruncationInt
<1>5. Start(SecondOf(n)) \in Int /\ Start(a) \in Int /\ TicksPerSecond \in Int
  BY <1>4, StartAdds, ConstantsAssumption
<1> QED BY <1>2, <1>3, <1>4, <1>5

\* A deny-list entry lives into the last second of the token it retires.
LEMMA EntryLivesLongEnough ==
    ASSUME NEW exp \in Nat, now \in Nat, Start(exp) <= now + Start(RefreshTTL)
    PROVE  /\ SecondsUntil(exp) \in Nat
           /\ Start(exp - 1) < now + Start(SecondsUntil(exp))
<1> DEFINE left == Start(exp) - now
           seconds == left \div TicksPerSecond
<1>1. left \in Int /\ RefreshTTL \in Nat /\ TicksPerSecond \in Nat \ {0}
  BY ConstantsAssumption, StartNat
<1>2. /\ seconds \in Int
      /\ Start(seconds) <= left
      /\ left < Start(seconds) + TicksPerSecond
  BY <1>1, TruncationInt DEF SecondOf
<1>3. Start(exp - 1) = Start(exp) - TicksPerSecond
  BY StartAdds
<1>4. Start(seconds) \in Int /\ Start(exp) \in Int /\ Start(RefreshTTL) \in Int
  BY <1>1, <1>2, StartAdds
<1> HIDE DEF seconds
<1>5. SecondsUntil(exp) = IF seconds < 1 THEN 1
                          ELSE IF seconds > RefreshTTL THEN RefreshTTL ELSE seconds
  BY DEF SecondsUntil, seconds
<1>6. CASE seconds < 1
  <2>1. Start(seconds) <= Start(0) /\ Start(0) = 0
    BY <1>2, <1>6, StartMonotone, ConstantsAssumption DEF Start
  <2>2. left < TicksPerSecond
    BY <1>1, <1>2, <1>4, <2>1
  <2>3. SecondsUntil(exp) = 1 /\ Start(1) = TicksPerSecond
    BY <1>5, <1>6, StartAdds
  <2> QED BY <1>1, <1>3, <1>4, <2>2, <2>3
<1>7. CASE seconds >= 1 /\ seconds > RefreshTTL
  <2>1. SecondsUntil(exp) = RefreshTTL
    BY <1>1, <1>2, <1>5, <1>7
  <2> QED BY <1>1, <1>3, <1>4, <2>1
<1>8. CASE seconds >= 1 /\ seconds <= RefreshTTL
  <2>1. SecondsUntil(exp) = seconds
    BY <1>1, <1>2, <1>5, <1>8
  <2> QED BY <1>1, <1>2, <1>3, <1>4, <1>8, <2>1
<1> QED BY <1>1, <1>2, <1>6, <1>7, <1>8
-----------------------------------------------------------------------------
(***************************************************************************)
(* Types.                                                                  *)
(***************************************************************************)
LEMMA ProceedType ==
    ASSUME TypeOK, NEW r \in Requests, NEW pc \in Step, Proceed(r, pc) \/ Finish(r)
    PROVE  req' \in [Requests -> RequestRecord]
<1>1. CASE Proceed(r, pc)
  <2>1. req'[r] \in RequestRecord
    BY <1>1 DEF Proceed, TypeOK, RequestRecord
  <2> QED BY <1>1, <2>1 DEF Proceed, TypeOK
<1>2. CASE Finish(r)
  BY <1>2 DEF Finish, Idle, TypeOK, RequestRecord, Step
<1> QED BY <1>1, <1>2

\* What a refresh remembers when it begins, as Booleans.
BeganWith(r, t, old, ended, out) ==
    /\ req' = [req EXCEPT ![r] = [pc |-> "denylist", tok |-> t, old |-> old,
                                  ended |-> ended, out |-> out]]
    /\ old => Predates(token[t].issuedAt)
    /\ out => t \in signedOut

LEMMA BeginIs ==
    ASSUME TypeOK, NEW r \in Requests, NEW t \in Tokens, BeginRefresh(r, t)
    PROVE  \E old \in BOOLEAN, ended \in BOOLEAN, out \in BOOLEAN :
              BeganWith(r, t, old, ended, out)
<1> DEFINE old == Predates(token[t].issuedAt)
           ended == Predates(token[t].session)
           out == t \in signedOut
<1>1. old \in BOOLEAN /\ ended \in BOOLEAN
  BY SMT DEF Predates
<1>3. out \in BOOLEAN
  BY SMT
<1>2. BeganWith(r, t, old, ended, out)
  BY Zenon DEF BeganWith, BeginRefresh
<1> HIDE DEF old, ended, out
<1> QED BY <1>1, <1>2, <1>3, Zenon

LEMMA RequestType ==
    ASSUME TypeOK, NEW r \in Requests, RequestStep(r)
    PROVE  TypeOK'
<1> USE DEF Step
<1>1. CASE BeginLogin(r)
  BY <1>1, ProceedType DEF BeginLogin, TypeOK
<1>2. ASSUME NEW t \in Tokens, BeginRefresh(r, t) PROVE TypeOK'
  <2>1. PICK old \in BOOLEAN, ended \in BOOLEAN, out \in BOOLEAN :
          BeganWith(r, t, old, ended, out)
    BY <1>2, BeginIs
  <2>2. req' \in [Requests -> RequestRecord]
    BY <2>1 DEF BeganWith, TypeOK, RequestRecord
  <2> QED BY <1>2, <2>2 DEF BeginRefresh, TypeOK
<1>3. CASE CheckDenyList(r)
  BY <1>3, ProceedType DEF CheckDenyList, TypeOK
<1>4. CASE CheckCutoff(r)
  BY <1>4, ProceedType DEF CheckCutoff, TypeOK
<1>5. CASE ReadUser(r)
  BY <1>5, ProceedType DEF ReadUser, TypeOK
<1>6. ASSUME NEW t \in Tokens, IssueTokens(r, t) PROVE TypeOK'
  <2>1. now \in Nat /\ SecondOf(now) \in Nat /\ SecondOf(now) + RefreshTTL \in Nat
    BY Truncation, ConstantsAssumption DEF TypeOK, Ticks
  <2>2. (IF req[r].tok = NoToken THEN revocations ELSE token[req[r].tok].session) \in Nat
    BY DEF TypeOK, RequestRecord, TokenRecord
  <2>3. token' \in [Tokens -> TokenRecord]
    BY <1>6, <2>1, <2>2 DEF IssueTokens, TypeOK, TokenRecord
  <2>4. req' \in [Requests -> RequestRecord]
    BY <1>6, ProceedType DEF IssueTokens
  <2> QED BY <1>6, <2>3, <2>4 DEF IssueTokens, TypeOK
<1> QED BY <1>1, <1>2, <1>3, <1>4, <1>5, <1>6 DEF RequestStep

LEMMA HandlerType ==
    ASSUME TypeOK, NEW h \in Handlers, HandlerStep(h)
    PROVE  TypeOK'
<1>1. ASSUME NEW record \in HandlerRecord, Move(h, record)
      PROVE  handler' \in [Handlers -> HandlerRecord]
  BY <1>1 DEF Move, TypeOK
<1>2. AtRest \in HandlerRecord /\ Revoking \in HandlerRecord
  BY DEF AtRest, Revoking, HandlerRecord
<1>3. /\ now \in Nat /\ SecondOf(now) \in Nat /\ Start(RefreshTTL) \in Nat
      /\ revocations \in Nat
  BY Truncation, StartNat, ConstantsAssumption DEF TypeOK, Ticks
<1>4. ASSUME NEW x \in {"active", "suspended"}, UpdateMember(h, x) PROVE TypeOK'
  BY <1>1, <1>2, <1>4, ConstantsAssumption DEF UpdateMember, TypeOK
<1>5. CASE RemoveMember(h)
  BY <1>1, <1>2, <1>5, ConstantsAssumption DEF RemoveMember, TypeOK
<1>6. CASE ReadClock(h)
  <2>1. [pc |-> "storing", at |-> SecondOf(now), read |-> revocations + 1] \in HandlerRecord
    BY <1>3 DEF HandlerRecord
  <2>2. handler' \in [Handlers -> HandlerRecord]
    BY <1>1, <1>6, <2>1 DEF ReadClock
  <2> QED BY <1>3, <1>6, <2>2 DEF ReadClock, TypeOK
<1>7. CASE StoreCutoff(h)
  <2>1. handler[h].at \in Nat /\ handler[h].read \in Nat
    BY DEF TypeOK, HandlerRecord
  <2>2. handler' \in [Handlers -> HandlerRecord]
    BY <1>1, <1>2, <1>7 DEF StoreCutoff
  <2> QED BY <1>3, <1>7, <2>1, <2>2 DEF StoreCutoff, TypeOK
<1>8. CASE RevocationLost(h)
  BY <1>1, <1>2, <1>8 DEF RevocationLost, TypeOK
<1> QED BY <1>4, <1>5, <1>6, <1>7, <1>8 DEF HandlerStep

\* TokenDates is what keeps the entries of the deny-list natural numbers.
LEMMA TypeStep ==
    ASSUME TypeOK, TokenDates, [Next]_vars
    PROVE  TypeOK'
<1>1. ASSUME NEW t \in Tokens, Logout(t) PROVE TypeOK'
  <2>1. token[t].exp \in Nat /\ token[t].iat \in Nat /\ now \in Nat /\ token[t].live
    BY <1>1 DEF Logout, Readable, TypeOK, TokenRecord, Ticks
  <2>2. Start(token[t].exp) <= now + Start(RefreshTTL)
    <3>1. Start(token[t].exp) = Start(token[t].iat) + Start(RefreshTTL)
      <4>1. token[t].exp = token[t].iat + RefreshTTL /\ RefreshTTL \in Int
        BY <2>1, ConstantsAssumption DEF TokenDates
      <4> QED BY <2>1, <4>1, StartOfExpiry
    <3>2. Start(token[t].iat) <= now
      BY <2>1 DEF TokenDates
    <3>3. RefreshTTL \in Nat
      BY ConstantsAssumption
    <3>4. Start(token[t].exp) \in Int /\ Start(token[t].iat) \in Int /\ Start(RefreshTTL) \in Int
      BY <2>1, <3>3, StartNat
    <3> QED BY <2>1, <3>1, <3>2, <3>4
  <2>3. now + Start(SecondsUntil(token[t].exp)) \in Nat
    BY <2>1, <2>2, EntryLivesLongEnough, StartNat
  <2>4. denied' \in [Tokens -> Nat] /\ signedOut' \subseteq Tokens
    BY <1>1, <2>3 DEF Logout, TypeOK
  <2> QED BY <1>1, <2>4 DEF Logout, TypeOK
<1>2. ASSUME NEW h \in Handlers, HandlerStep(h) PROVE TypeOK'
  BY <1>2, HandlerType
<1>6. CASE Tick
  BY <1>6, ConstantsAssumption DEF Tick, TypeOK, Ticks
<1>7. CASE UNCHANGED vars
  BY <1>7 DEF vars, TypeOK
<1> QED BY <1>1, <1>2, <1>6, <1>7, RequestType DEF Next
-----------------------------------------------------------------------------
(***************************************************************************)
(* The keys, and what follows for the requests.                            *)
(***************************************************************************)
KeysStep == KeysInv /\ CutoffHolds /\ SignedOutUntilLastSecond

\* The dates of a token, as integers.
LEMMA Dates ==
    ASSUME TypeOK, TokenDates, NEW t \in Tokens, token[t].live
    PROVE  /\ token[t].iat \in Nat /\ token[t].exp \in Nat /\ now \in Nat
           /\ Start(token[t].exp) \in Int /\ Start(token[t].exp - 1) \in Int
           /\ Start(token[t].exp) <= now + Start(RefreshTTL)
           /\ token[t].iat <= SecondOf(now)
<1>1. /\ token[t].iat \in Nat /\ token[t].exp \in Nat /\ now \in Nat
      /\ token[t].exp = token[t].iat + RefreshTTL /\ RefreshTTL \in Nat
      /\ Start(token[t].iat) <= now
  BY ConstantsAssumption DEF TypeOK, TokenRecord, Ticks, TokenDates
<1>2. Start(token[t].exp) = Start(token[t].iat) + Start(RefreshTTL)
  BY <1>1, StartOfExpiry
<1>3. Start(token[t].exp) \in Int /\ Start(token[t].exp - 1) \in Int
      /\ Start(RefreshTTL) \in Int /\ Start(token[t].iat) \in Int
  BY <1>1, StartOfExpiry
<1>4. token[t].iat <= SecondOf(now)
  BY <1>1, StartedByNow
<1> QED BY <1>1, <1>2, <1>3, <1>4

\* A step that leaves tokens, keys and history alone, and whose requests only
\* move on or come to rest, keeps the keys' invariant.
LEMMA KeysUnchanged ==
    ASSUME TypeOK, KeysInv,
           UNCHANGED <<now, token, denied, cutoff, handler, revocations, signedOut>>
    PROVE  CutoffCovers' /\ ReadsInOrder' /\ DenyListCovers' /\ TokenDates'
BY DEF KeysInv, CutoffCovers, ReadsInOrder, DenyListCovers, TokenDates

\* A request that finishes, or that moves on without passing a look-up.
LEMMA RequestRests ==
    ASSUME TypeOK, KeysStep, NEW r \in Requests,
           UNCHANGED <<now, token, denied, cutoff, handler, revocations, signedOut>>,
           \/ Finish(r)
           \/ Proceed(r, "user") /\ req[r].tok = NoToken
           \/ Proceed(r, "mint") /\ req[r].pc = "user"
    PROVE  KeysStep'
<1>1. CutoffCovers' /\ ReadsInOrder' /\ DenyListCovers' /\ TokenDates'
  BY KeysUnchanged DEF KeysStep
<1>2. \A q \in Requests :
        \/ req'[q] = Idle
        \/ req'[q] = req[q]
        \/ req[q].tok = NoToken /\ req'[q].tok = NoToken /\ req'[q].pc = "user"
           /\ req'[q].old = req[q].old /\ req'[q].out = req[q].out
        \/ req[q].pc = "user" /\ req'[q].tok = req[q].tok /\ req'[q].pc = "mint"
           /\ req'[q].old = req[q].old /\ req'[q].out = req[q].out
  <2>1. CASE Finish(r)
    BY <2>1 DEF Finish, TypeOK
  <2>2. ASSUME NEW pc \in {"user", "mint"}, Proceed(r, pc)
        PROVE  \A q \in Requests :
                  /\ q # r => req'[q] = req[q]
                  /\ req'[r].pc = pc /\ req'[r].tok = req[r].tok
                  /\ req'[r].old = req[r].old /\ req'[r].out = req[r].out
    BY <2>2 DEF Proceed, TypeOK, RequestRecord
  <2> QED BY <2>1, <2>2
<1>3. RequestsInOrder'
  BY <1>2, ConstantsAssumption DEF KeysStep, KeysInv, RequestsInOrder, Predates, Idle, TypeOK
<1>4. CutoffHolds'
  BY <1>2 DEF KeysStep, CutoffHolds, PastCutoff, Idle
<1>5. SignedOutUntilLastSecond'
  BY <1>2 DEF KeysStep, SignedOutUntilLastSecond, PastDenyList, Idle
<1> QED BY <1>1, <1>3, <1>4, <1>5 DEF KeysStep, KeysInv

\* A look-up that is passed: the token was covered for as long as it could be
\* read, so it can be read no more (or, for the deny-list, has one second left).
LEMMA LookUpPassed ==
    ASSUME TypeOK, KeysStep, NEW r \in Requests,
           CheckDenyList(r) \/ CheckCutoff(r)
    PROVE  KeysStep'
<1> DEFINE t == req[r].tok
<1>1. UNCHANGED <<now, token, denied, cutoff, handler, revocations, signedOut>>
  BY DEF CheckDenyList, CheckCutoff
<1>2. CASE Finish(r)
  BY <1>1, <1>2, RequestRests
<1>3. ASSUME NEW pc \in {"cutoff", "user"}, Proceed(r, pc)
      PROVE  /\ \A q \in Requests : q # r => req'[q] = req[q]
             /\ req'[r].pc = pc /\ req'[r].tok = req[r].tok
             /\ req'[r].old = req[r].old /\ req'[r].out = req[r].out
  BY <1>3 DEF Proceed, TypeOK, RequestRecord
<1>4. /\ t \in Tokens /\ token[t].live /\ t # NoToken
      /\ req[r].old => Predates(token[t].issuedAt)
      /\ req[r].out => t \in signedOut
  BY ConstantsAssumption DEF CheckDenyList, CheckCutoff, TypeOK, RequestRecord, KeysStep,
     KeysInv, RequestsInOrder
<1>5. CutoffCovers' /\ ReadsInOrder' /\ DenyListCovers' /\ TokenDates'
  BY <1>1, KeysUnchanged DEF KeysStep
<1>8. /\ now \in Nat /\ token[t].iat \in Nat
      /\ Start(token[t].exp) \in Int /\ Start(token[t].exp - 1) \in Int
  <2>1. TokenDates
    BY DEF KeysStep, KeysInv
  <2> QED BY <1>4, <2>1, Dates
<1>6. CASE CheckDenyList(r) /\ ~IsDenied(t) /\ Proceed(r, "cutoff")
  <2>1. RequestsInOrder'
    BY <1>1, <1>3, <1>4, <1>6 DEF KeysStep, KeysInv, RequestsInOrder, Predates
  <2>2. CutoffHolds'
    BY <1>1, <1>3, <1>6 DEF KeysStep, CutoffHolds, PastCutoff
  <2>3. req[r].out => now > Start(token[t].exp - 1)
    <3>1. denied[t] \in Nat
      BY <1>4 DEF TypeOK
    <3>2. req[r].out => Start(token[t].exp - 1) < denied[t]
      BY <1>4 DEF KeysStep, KeysInv, DenyListCovers
    <3>3. ~(now < denied[t])
      BY <1>6 DEF IsDenied
    <3> QED BY <1>8, <3>1, <3>2, <3>3
  <2>4. SignedOutUntilLastSecond'
    BY <1>1, <1>3, <1>6, <2>3 DEF KeysStep, SignedOutUntilLastSecond, PastDenyList
  <2> QED BY <1>5, <2>1, <2>2, <2>4 DEF KeysStep, KeysInv
<1>7. CASE /\ CheckCutoff(r) /\ req[r].pc = "cutoff"
           /\ ~BeforeCutoff(token[t].iat) /\ Proceed(r, "user")
  <2>1. RequestsInOrder'
    BY <1>1, <1>3, <1>4, <1>7 DEF KeysStep, KeysInv, RequestsInOrder, Predates
  <2>2. req[r].old => now >= Start(token[t].exp)
    <3>1. cutoff.at \in Int /\ cutoff.until \in Int
      BY DEF TypeOK
    <3>2. req[r].old => token[t].issuedAt < cutoff.of
      BY <1>4 DEF Predates
    <3>3. token[t].issuedAt < cutoff.of =>
             token[t].iat <= cutoff.at /\ Start(token[t].exp) <= cutoff.until
      BY <1>4 DEF KeysStep, KeysInv, CutoffCovers
    <3>4. ~(now < cutoff.until /\ token[t].iat <= cutoff.at)
      BY <1>7 DEF BeforeCutoff
    <3> QED BY <1>4, <1>8, <3>1, <3>2, <3>3, <3>4
  <2>3. CutoffHolds'
    BY <1>1, <1>3, <1>7, <2>2 DEF KeysStep, CutoffHolds, PastCutoff
  <2>4. SignedOutUntilLastSecond'
    BY <1>1, <1>3, <1>7 DEF KeysStep, SignedOutUntilLastSecond, PastDenyList
  <2> QED BY <1>5, <2>1, <2>3, <2>4 DEF KeysStep, KeysInv
<1> QED BY <1>2, <1>6, <1>7 DEF CheckDenyList, CheckCutoff

\* A new refresh is before both look-ups.
LEMMA RefreshBegins ==
    ASSUME TypeOK, KeysStep, NEW r \in Requests, NEW t \in Tokens, BeginRefresh(r, t)
    PROVE  KeysStep'
<1>1. UNCHANGED <<now, token, denied, cutoff, handler, revocations, signedOut>>
  BY DEF BeginRefresh
<1>2. CutoffCovers' /\ ReadsInOrder' /\ DenyListCovers' /\ TokenDates'
  BY <1>1, KeysUnchanged DEF KeysStep
<1>3. \A q \in Requests : q # r => req'[q] = req[q]
  BY DEF BeginRefresh, TypeOK
<1>4. token[t].live /\ t # NoToken
  BY ConstantsAssumption DEF BeginRefresh, Readable
<1>5. /\ req'[r].pc = "denylist" /\ req'[r].tok = t
      /\ req'[r].old => Predates(token[t].issuedAt)
      /\ req'[r].out => t \in signedOut
  <2>1. PICK old \in BOOLEAN, ended \in BOOLEAN, out \in BOOLEAN :
          BeganWith(r, t, old, ended, out)
    BY BeginIs
  <2> QED BY <2>1 DEF BeganWith, TypeOK
<1>8. RequestsInOrder'
  BY <1>1, <1>3, <1>4, <1>5 DEF KeysStep, KeysInv, RequestsInOrder, Predates
<1>6. CutoffHolds'
  BY <1>1, <1>3, <1>5 DEF KeysStep, CutoffHolds, PastCutoff
<1>7. SignedOutUntilLastSecond'
  BY <1>1, <1>3, <1>5 DEF KeysStep, SignedOutUntilLastSecond, PastDenyList
<1> QED BY <1>2, <1>6, <1>7, <1>8 DEF KeysStep, KeysInv

\* A new token is not covered by any key, and need not be.
LEMMA TokenIssued ==
    ASSUME TypeOK, KeysStep, NEW r \in Requests, NEW t \in Tokens, IssueTokens(r, t)
    PROVE  KeysStep'
<1>1. UNCHANGED <<now, denied, cutoff, handler, revocations, signedOut>>
  BY DEF IssueTokens
<1>2. now \in Nat /\ SecondOf(now) \in Nat /\ Start(SecondOf(now)) <= now
  BY Truncation, ConstantsAssumption DEF TypeOK, Ticks
<1>3. revocations \in Nat /\ ~token[t].live
  BY DEF TypeOK, IssueTokens
<1>4. /\ \A u \in Tokens : u # t => token'[u] = token[u]
      /\ token'[t].live /\ token'[t].iat = SecondOf(now)
      /\ token'[t].exp = SecondOf(now) + RefreshTTL
      /\ token'[t].issuedAt = revocations
  BY DEF IssueTokens, TypeOK
<1>5. CutoffCovers' /\ ReadsInOrder'
  <2>1. ~(revocations < cutoff.of)
    BY <1>3 DEF KeysStep, KeysInv, ReadsInOrder, TypeOK
  <2>2. \A h \in Handlers : handler[h].pc = "storing" => ~(revocations < handler[h].read)
    BY <1>3 DEF KeysStep, KeysInv, ReadsInOrder, TypeOK, HandlerRecord
  <2> QED BY <1>1, <1>4, <2>1, <2>2 DEF KeysStep, KeysInv, CutoffCovers, ReadsInOrder
<1>6. DenyListCovers'
  <2>1. signedOut \subseteq Tokens /\ \A u \in signedOut : token[u].live
    BY DEF TypeOK, KeysStep, KeysInv, DenyListCovers
  <2> QED BY <1>1, <1>3, <1>4, <2>1 DEF KeysStep, KeysInv, DenyListCovers
<1>7. TokenDates'
  BY <1>1, <1>2, <1>3, <1>4 DEF KeysStep, KeysInv, TokenDates
<1>8. \A q \in Requests : req'[q] = Idle \/ req'[q] = req[q]
  BY DEF IssueTokens, Finish, TypeOK
<1>9. \A q \in Requests : req[q].tok # NoToken => token'[req[q].tok] = token[req[q].tok]
  <2>1. \A q \in Requests : req[q].tok # NoToken =>
           req[q].tok \in Tokens /\ token[req[q].tok].live
    BY DEF KeysStep, KeysInv, RequestsInOrder, TypeOK, RequestRecord
  <2> QED BY <1>3, <1>4, <2>1
<1>10. RequestsInOrder'
  <2>1. Idle.tok = NoToken /\ Idle.pc = "idle" /\ ~Idle.old /\ ~Idle.out
    BY DEF Idle
  <2>2. \A q \in Requests : req[q].old => req[q].tok # NoToken
    BY DEF KeysStep, KeysInv, RequestsInOrder
  <2> QED BY <1>1, <1>8, <1>9, <2>1, <2>2 DEF KeysStep, KeysInv, RequestsInOrder, Predates
<1>11. CutoffHolds'
  BY <1>1, <1>8, <1>9 DEF KeysStep, CutoffHolds, PastCutoff, Idle
<1>12. SignedOutUntilLastSecond'
  BY <1>1, <1>8, <1>9 DEF KeysStep, SignedOutUntilLastSecond, PastDenyList, Idle
<1> QED BY <1>5, <1>6, <1>7, <1>10, <1>11, <1>12 DEF KeysStep, KeysInv

LEMMA RequestKeeps ==
    ASSUME TypeOK, KeysStep, NEW r \in Requests, RequestStep(r)
    PROVE  KeysStep'
<1>1. CASE BeginLogin(r)
  <2>1. req[r].tok = NoToken
    BY <1>1 DEF BeginLogin, KeysStep, KeysInv, RequestsInOrder
  <2> QED BY <1>1, <2>1, RequestRests DEF BeginLogin
<1>2. CASE ReadUser(r)
  BY <1>2, RequestRests DEF ReadUser
<1> QED BY <1>1, <1>2, LookUpPassed, RefreshBegins, TokenIssued DEF RequestStep
-----------------------------------------------------------------------------
LEMMA LogoutKeeps ==
    ASSUME TypeOK, KeysStep, NEW t \in Tokens, Logout(t)
    PROVE  KeysStep'
<1>1. UNCHANGED <<now, token, cutoff, handler, revocations, req>>
  BY DEF Logout
<1>2. TokenDates /\ token[t].live
  BY DEF KeysStep, KeysInv, Logout, Readable
<1>3. Start(token[t].exp - 1) < now + Start(SecondsUntil(token[t].exp))
  BY <1>2, Dates, EntryLivesLongEnough
<1>4. /\ denied'[t] = now + Start(SecondsUntil(token[t].exp))
      /\ \A u \in Tokens : u # t => denied'[u] = denied[u]
      /\ signedOut' = signedOut \cup {t}
  BY DEF Logout, TypeOK
<1>5. DenyListCovers'
  BY <1>1, <1>2, <1>3, <1>4 DEF KeysStep, KeysInv, DenyListCovers, TypeOK
<1>6. CutoffCovers' /\ ReadsInOrder' /\ TokenDates' /\ RequestsInOrder'
  BY <1>1, <1>4 DEF KeysStep, KeysInv, CutoffCovers, ReadsInOrder, TokenDates,
     RequestsInOrder, Predates
<1>7. CutoffHolds' /\ SignedOutUntilLastSecond'
  BY <1>1 DEF KeysStep, CutoffHolds, SignedOutUntilLastSecond, PastCutoff, PastDenyList
<1> QED BY <1>5, <1>6, <1>7 DEF KeysStep, KeysInv

\* What a handler that is not storing does to the handlers leaves the rest alone.
LEMMA HandlerRests ==
    ASSUME TypeOK, KeysStep, NEW h \in Handlers, NEW record \in HandlerRecord,
           Move(h, record), record.pc # "storing",
           UNCHANGED <<now, token, denied, cutoff, revocations, signedOut, req>>
    PROVE  KeysStep'
<1>1. \A g \in Handlers : handler'[g].pc = "storing" => handler'[g] = handler[g]
  BY DEF Move, TypeOK
<1>2. CutoffCovers' /\ ReadsInOrder'
  BY <1>1 DEF KeysStep, KeysInv, CutoffCovers, ReadsInOrder
<1>3. RequestsInOrder'
  BY <1>1 DEF KeysStep, KeysInv, RequestsInOrder, Predates
<1>4. /\ DenyListCovers' /\ TokenDates'
      /\ CutoffHolds' /\ SignedOutUntilLastSecond'
  BY DEF KeysStep, KeysInv, DenyListCovers, TokenDates, CutoffHolds,
     SignedOutUntilLastSecond, PastCutoff, PastDenyList
<1> QED BY <1>2, <1>3, <1>4 DEF KeysStep, KeysInv

\* Every token is older than a clock read, and of its second at the latest.
LEMMA ReadClockKeeps ==
    ASSUME TypeOK, KeysStep, NEW h \in Handlers, ReadClock(h)
    PROVE  KeysStep'
<1>1. UNCHANGED <<now, token, denied, cutoff, signedOut, req>>
  BY DEF ReadClock
<1>2. /\ handler'[h].pc = "storing" /\ handler'[h].at = SecondOf(now)
      /\ handler'[h].read = revocations + 1
      /\ \A g \in Handlers : g # h => handler'[g] = handler[g]
      /\ revocations' = revocations + 1 /\ revocations \in Nat
  BY DEF ReadClock, Move, TypeOK
<1>3. TokenDates
  BY DEF KeysStep, KeysInv
<1>4. CutoffCovers'
  <2>1. \A t \in Tokens : token[t].live => token[t].iat <= SecondOf(now)
    BY <1>3, Dates
  <2> QED BY <1>1, <1>2, <2>1 DEF KeysStep, KeysInv, CutoffCovers
<1>5. ReadsInOrder'
  BY <1>1, <1>2 DEF KeysStep, KeysInv, ReadsInOrder, TypeOK, HandlerRecord
<1>6. TokenDates'
  <2>1. \A t \in Tokens : token[t].issuedAt <= revocations => token[t].issuedAt <= revocations + 1
    BY DEF TypeOK, TokenRecord
  <2> QED BY <1>1, <1>2, <1>3, <2>1 DEF TokenDates
<1>7. RequestsInOrder'
  <2>1. \A r \in Requests : req[r].tok # NoToken =>
           token[req[r].tok].issuedAt < revocations + 1
    <3> SUFFICES ASSUME NEW r \in Requests, req[r].tok # NoToken
                 PROVE  token[req[r].tok].issuedAt < revocations + 1
      OBVIOUS
    <3>1. req[r].tok \in Tokens /\ token[req[r].tok].live
      BY DEF KeysStep, KeysInv, RequestsInOrder, TypeOK, RequestRecord
    <3>2. token[req[r].tok].issuedAt <= revocations /\ token[req[r].tok].issuedAt \in Nat
      BY <1>3, <3>1 DEF TokenDates, TypeOK, TokenRecord
    <3> QED BY <1>2, <3>2
  <2>2. \A r \in Requests : req[r].old => Predates(token[req[r].tok].issuedAt)'
    <3> SUFFICES ASSUME NEW r \in Requests, req[r].old
                 PROVE  Predates(token[req[r].tok].issuedAt)'
      OBVIOUS
    <3>1. Predates(token[req[r].tok].issuedAt) /\ req[r].tok # NoToken
      BY DEF KeysStep, KeysInv, RequestsInOrder
    <3> QED BY <1>1, <1>2, <2>1, <3>1 DEF Predates
  <2> QED BY <1>1, <2>2 DEF KeysStep, KeysInv, RequestsInOrder
<1>8. /\ DenyListCovers' /\ CutoffHolds' /\ SignedOutUntilLastSecond'
  BY <1>1 DEF KeysStep, KeysInv, DenyListCovers, CutoffHolds,
     SignedOutUntilLastSecond, PastCutoff, PastDenyList
<1> QED BY <1>4, <1>5, <1>6, <1>7, <1>8 DEF KeysStep, KeysInv

\* Every token that can be read runs out before the key that is stored now,
\* and those older than its clock read are of that second at the latest.
LEMMA StoreCutoffKeeps ==
    ASSUME TypeOK, KeysStep, NEW h \in Handlers, StoreCutoff(h)
    PROVE  KeysStep'
<1>1. UNCHANGED <<now, token, denied, revocations, signedOut, req>>
  BY DEF StoreCutoff
<1>2. /\ handler[h].pc = "storing"
      /\ cutoff'.at = handler[h].at /\ cutoff'.of = handler[h].read
      /\ cutoff'.until = now + Start(RefreshTTL)
      /\ \A g \in Handlers : handler'[g].pc = "storing" => handler'[g] = handler[g]
  BY DEF StoreCutoff, Move, AtRest, TypeOK
<1>3. CutoffCovers'
  <2>1. TokenDates
    BY DEF KeysStep, KeysInv
  <2>2. \A t \in Tokens : token[t].live => Start(token[t].exp) <= now + Start(RefreshTTL)
    BY <2>1, Dates
  <2> QED BY <1>1, <1>2, <2>2 DEF KeysStep, KeysInv, CutoffCovers
<1>4. ReadsInOrder'
  BY <1>1, <1>2 DEF KeysStep, KeysInv, ReadsInOrder
<1>5. RequestsInOrder'
  BY <1>1, <1>2 DEF KeysStep, KeysInv, RequestsInOrder, Predates
<1>6. /\ DenyListCovers' /\ TokenDates'
      /\ CutoffHolds' /\ SignedOutUntilLastSecond'
  BY <1>1 DEF KeysStep, KeysInv, DenyListCovers, TokenDates, CutoffHolds,
     SignedOutUntilLastSecond, PastCutoff, PastDenyList
<1> QED BY <1>3, <1>4, <1>5, <1>6 DEF KeysStep, KeysInv

LEMMA HandlerKeeps ==
    ASSUME TypeOK, KeysStep, NEW h \in Handlers, HandlerStep(h)
    PROVE  KeysStep'
<1>1. /\ AtRest \in HandlerRecord /\ AtRest.pc # "storing"
      /\ Revoking \in HandlerRecord
      /\ Revoking.pc # "storing"
  BY DEF AtRest, Revoking, HandlerRecord
<1>2. ASSUME NEW x \in {"active", "suspended"}, UpdateMember(h, x) PROVE KeysStep'
  BY <1>1, <1>2, HandlerRests DEF UpdateMember
<1>3. CASE RemoveMember(h)
  BY <1>1, <1>3, HandlerRests DEF RemoveMember
<1>4. CASE RevocationLost(h)
  BY <1>1, <1>4, HandlerRests DEF RevocationLost
<1> QED BY <1>2, <1>3, <1>4, ReadClockKeeps, StoreCutoffKeeps DEF HandlerStep

LEMMA TickKeeps ==
    ASSUME TypeOK, KeysStep, Tick
    PROVE  KeysStep'
<1>1. UNCHANGED <<token, denied, cutoff, handler, revocations, signedOut, req>> /\ now' = now + 1
  BY DEF Tick
<1>2. now \in Nat
  BY DEF TypeOK, Ticks
<1>3. \A t \in Tokens : token[t].live =>
         Start(token[t].iat) \in Int /\ Start(token[t].exp) \in Int
         /\ Start(token[t].exp - 1) \in Int
  <2> SUFFICES ASSUME NEW t \in Tokens, token[t].live
               PROVE  /\ Start(token[t].iat) \in Int /\ Start(token[t].exp) \in Int
                      /\ Start(token[t].exp - 1) \in Int
    OBVIOUS
  <2>1. TokenDates
    BY DEF KeysStep, KeysInv
  <2>2. token[t].iat \in Nat
    BY DEF TypeOK, TokenRecord
  <2>3. Start(token[t].iat) \in Int
    BY <2>2, StartNat
  <2> QED BY <2>1, <2>3, Dates
<1>4. CutoffCovers' /\ ReadsInOrder' /\ DenyListCovers' /\ RequestsInOrder'
  BY <1>1 DEF KeysStep, KeysInv, CutoffCovers, ReadsInOrder, DenyListCovers,
     RequestsInOrder, Predates
<1>5. TokenDates'
  BY <1>1, <1>2, <1>3 DEF KeysStep, KeysInv, TokenDates
<1>6. \A r \in Requests : req[r].tok # NoToken =>
         req[r].tok \in Tokens /\ token[req[r].tok].live
  BY DEF KeysStep, KeysInv, RequestsInOrder, TypeOK, RequestRecord
<1>7. CutoffHolds'
  BY <1>1, <1>2, <1>3, <1>6 DEF KeysStep, CutoffHolds, PastCutoff
<1>8. SignedOutUntilLastSecond'
  BY <1>1, <1>2, <1>3, <1>6 DEF KeysStep, SignedOutUntilLastSecond, PastDenyList
<1> QED BY <1>4, <1>5, <1>7, <1>8 DEF KeysStep, KeysInv

LEMMA Inductive == Spec => [](TypeOK /\ KeysStep)
<1>1. Init => TypeOK /\ KeysStep
  <2>1. ASSUME Init PROVE TypeOK
    BY <2>1, ConstantsAssumption DEF Init, TypeOK, Ticks, Unissued, TokenRecord,
       Idle, RequestRecord, Step, AtRest, HandlerRecord
  <2>2. ASSUME Init PROVE KeysStep
    BY <2>2 DEF Init, KeysStep, KeysInv, CutoffCovers, ReadsInOrder,
       DenyListCovers, TokenDates, RequestsInOrder, CutoffHolds, SignedOutUntilLastSecond, PastCutoff,
       PastDenyList, Unissued, Idle, AtRest
  <2> QED BY <2>1, <2>2
<1>2. TypeOK /\ KeysStep /\ [Next]_vars => (TypeOK /\ KeysStep)'
  <2> SUFFICES ASSUME TypeOK, KeysStep, [Next]_vars PROVE TypeOK' /\ KeysStep'
    OBVIOUS
  <2>1. TypeOK'
    BY TypeStep DEF KeysStep, KeysInv
  <2>2. ASSUME UNCHANGED vars PROVE KeysStep'
    BY <2>2 DEF vars, KeysStep, KeysInv, CutoffCovers, ReadsInOrder, DenyListCovers,
       TokenDates, RequestsInOrder, Predates, CutoffHolds, SignedOutUntilLastSecond,
       PastCutoff, PastDenyList
  <2>4. KeysStep'
    BY <2>2, RequestKeeps, LogoutKeeps, HandlerKeeps, TickKeeps DEF Next
  <2> QED BY <2>1, <2>4
<1> QED BY <1>1, <1>2, PTL DEF Spec

\* Type correctness.
THEOREM TypeCorrect == Spec => []TypeOK
<1>1. TypeOK /\ KeysStep => TypeOK
  OBVIOUS
<1> QED BY <1>1, Inductive, PTL

\* While they live, the two kinds of key cover the tokens they are meant to.
THEOREM KeysInvHolds == Spec => []KeysInv
<1>1. TypeOK /\ KeysStep => KeysInv
  BY DEF KeysStep
<1> QED BY <1>1, Inductive, PTL

\* A token issued before the clock read of a revocation that has reached Redis
\* is not renewed.
THEOREM CutoffHoldsAlways == Spec => []CutoffHolds
<1>1. TypeOK /\ KeysStep => CutoffHolds
  BY DEF KeysStep
<1> QED BY <1>1, Inductive, PTL

\* A signed-out token is not renewed before the last second of its life.
THEOREM SignedOutHolds == Spec => []SignedOutUntilLastSecond
<1>1. TypeOK /\ KeysStep => SignedOutUntilLastSecond
  BY DEF KeysStep
<1> QED BY <1>1, Inductive, PTL
=============================================================================
