------------------------------ MODULE Sessions ------------------------------
(***************************************************************************)
(* The dashboard sessions of one member: refresh tokens                    *)
(* (app/services/auth.py), the deny-list that retires them                 *)
(* (app/services/revocation.py) and the two team handlers that end every   *)
(* session of a member (app/services/team.py).                             *)
(*                                                                         *)
(* The clock counts ticks, several to the second, because a token carries  *)
(* whole seconds while the handlers and Redis do not.  A refresh is five   *)
(* steps: each of its two look-ups in Redis and its read of the member is  *)
(* an await.  Members do not share tokens or keys, so one is enough.       *)
(***************************************************************************)
EXTENDS Integers

CONSTANTS
    Tokens,          \* refresh tokens, by jti
    NoToken,         \* what a login renews
    Requests,        \* logins and refreshes in flight
    Handlers,        \* calls of update_member or remove_member in flight
    TicksPerSecond,
    RefreshTTL,      \* refresh_token_ttl_seconds
    LastTick,        \* bound: the clock stops here
    MaxChanges,      \* bound: member updates and removals
    ReplicaLags      \* may the read replica show the member as it was earlier?

ASSUME ConstantsAssumption ==
    /\ NoToken \notin Tokens
    /\ TicksPerSecond \in Nat \ {0}
    /\ RefreshTTL \in Nat \ {0}
    /\ LastTick \in Nat
    /\ MaxChanges \in Nat
    /\ ReplicaLags \in BOOLEAN

VARIABLES
    now,         \* utcnow(), in ticks
    standing,    \* the member's row: is_active, or no row
    token,       \* [Tokens -> TokenRecord]: tokens issued so far
    denied,      \* [Tokens -> Int]: the tick at which the deny-list key expires
    cutoff,      \* the user-epoch key: its value, and the tick it expires at
    handler,     \* [Handlers -> HandlerRecord]: from their commit to Redis
    changes,     \* committed updates and removals
    revocations, \* clock reads of revoke_all_for_user so far (history)
    signedOut,   \* tokens a logout has retired (history)
    req          \* [Requests -> RequestRecord]

vars == <<now, standing, token, denied, cutoff, handler, changes, revocations,
          signedOut, req>>

Ticks == 0..LastTick
SecondOf(tick) == tick \div TicksPerSecond
Start(second) == second * TicksPerSecond

\* issuedAt counts the clock reads of revocations that preceded the token,
\* session those that preceded the first token of its line (history).
TokenRecord ==
    [live : BOOLEAN, iat : Nat, exp : Nat, issuedAt : Nat, session : Nat]
Unissued == [live |-> FALSE, iat |-> 0, exp |-> 0, issuedAt |-> 0, session |-> 0]

\* at is the second that revoke_all_for_user has read and is about to store,
\* read the number of that clock read (history).
HandlerRecord == [pc : {"idle", "revoking", "storing"}, at : Nat, read : Nat]
AtRest == [pc |-> "idle", at |-> 0, read |-> 0]
Revoking == [pc |-> "revoking", at |-> 0, read |-> 0]

Step == {"idle", "denylist", "cutoff", "user", "mint"}
\* When the refresh began, old: its token, ended: its whole session, was older
\* than every cut-off; out: its token had been signed out (history).
RequestRecord ==
    [pc : Step, tok : Tokens \cup {NoToken},
     old : BOOLEAN, ended : BOOLEAN, out : BOOLEAN]
Idle ==
    [pc |-> "idle", tok |-> NoToken, old |-> FALSE, ended |-> FALSE, out |-> FALSE]

Init ==
    /\ now = 0
    /\ standing = "active"
    /\ token = [t \in Tokens |-> Unissued]
    /\ denied = [t \in Tokens |-> 0]
    /\ cutoff = [at |-> -1, until |-> 0, of |-> 0]
    /\ handler = [h \in Handlers |-> AtRest]
    /\ changes = 0
    /\ revocations = 0
    /\ signedOut = {}
    /\ req = [r \in Requests |-> Idle]
-----------------------------------------------------------------------------
\* jwt.decode: the signature is good and the token has not expired.
Readable(t) == token[t].live /\ now < Start(token[t].exp)

Finish(r) == req' = [req EXCEPT ![r] = Idle]
Proceed(r, pc) == req' = [req EXCEPT ![r].pc = pc]

\* authenticate, password included.
BeginLogin(r) ==
    /\ req[r].pc = "idle"
    /\ Proceed(r, "user")
    /\ UNCHANGED <<now, standing, token, denied, cutoff, handler, changes,
                   revocations, signedOut>>

\* What was issued after count clock reads is older than the cut-off in the
\* key, and than each that is on its way there and may yet replace it.
Predates(count) ==
    /\ count < cutoff.of
    /\ \A h \in Handlers : handler[h].pc = "storing" => count < handler[h].read

\* refresh_tokens
BeginRefresh(r, t) ==
    /\ req[r].pc = "idle"
    /\ Readable(t)
    /\ req' = [req EXCEPT ![r] = [pc |-> "denylist", tok |-> t,
                                  old |-> Predates(token[t].issuedAt),
                                  ended |-> Predates(token[t].session),
                                  out |-> t \in signedOut]]
    /\ UNCHANGED <<now, standing, token, denied, cutoff, handler, changes,
                   revocations, signedOut>>

\* is_token_revoked
IsDenied(t) == now < denied[t]

CheckDenyList(r) ==
    /\ req[r].pc = "denylist"
    /\ \/ IsDenied(req[r].tok) /\ Finish(r)
       \/ ~IsDenied(req[r].tok) /\ Proceed(r, "cutoff")
    /\ UNCHANGED <<now, standing, token, denied, cutoff, handler, changes,
                   revocations, signedOut>>

\* Mutant: a token of the cut-off's own second passes.
BeforeCutoffStrict(iat) == now < cutoff.until /\ iat < cutoff.at

\* issued_before_cutoff
BeforeCutoff(iat) == now < cutoff.until /\ iat <= cutoff.at

CheckCutoff(r) ==
    /\ req[r].pc = "cutoff"
    /\ \/ BeforeCutoff(token[req[r].tok].iat) /\ Finish(r)
       \/ ~BeforeCutoff(token[req[r].tok].iat) /\ Proceed(r, "user")
    /\ UNCHANGED <<now, standing, token, denied, cutoff, handler, changes,
                   revocations, signedOut>>

\* The read at the top of authenticate, or get_active_user, which reads the
\* replica: the member may look as before the latest changes.
ReadUser(r) ==
    /\ req[r].pc = "user"
    /\ LET behind == ReplicaLags /\ changes > 0 /\ req[r].tok # NoToken IN
       \/ (standing # "active" \/ behind) /\ Finish(r)
       \/ (standing = "active" \/ behind) /\ Proceed(r, "mint")
    /\ UNCHANGED <<now, standing, token, denied, cutoff, handler, changes,
                   revocations, signedOut>>

\* issue_tokens: iat and exp are truncated to whole seconds.
IssueTokens(r, t) ==
    /\ req[r].pc = "mint"
    /\ ~token[t].live
    /\ token' = [token EXCEPT ![t] =
          [live |-> TRUE, iat |-> SecondOf(now), exp |-> SecondOf(now) + RefreshTTL,
           issuedAt |-> revocations,
           session |-> IF req[r].tok = NoToken THEN revocations
                      ELSE token[req[r].tok].session]]
    /\ Finish(r)
    /\ UNCHANGED <<now, standing, denied, cutoff, handler, changes, revocations,
                   signedOut>>

-----------------------------------------------------------------------------
\* Mutant: one second less, "to be safe".
SecondsUntilShort(exp) ==
    LET remaining == (Start(exp) - now) \div TicksPerSecond - 1 IN
    IF remaining < 1 THEN 1 ELSE IF remaining > RefreshTTL THEN RefreshTTL ELSE remaining

\* _seconds_until: int() drops the fraction of a second.
SecondsUntil(exp) ==
    LET remaining == (Start(exp) - now) \div TicksPerSecond IN
    IF remaining < 1 THEN 1 ELSE IF remaining > RefreshTTL THEN RefreshTTL ELSE remaining

\* logout: the previous tokens of the session are left alone.  A SET that
\* arrives later than its lifetime was computed only lets the key live longer.
Logout(t) ==
    /\ Readable(t)
    /\ denied' = [denied EXCEPT ![t] = now + Start(SecondsUntil(token[t].exp))]
    /\ signedOut' = signedOut \cup {t}
    /\ UNCHANGED <<now, standing, token, cutoff, handler, changes, revocations, req>>

Move(h, record) == handler' = [handler EXCEPT ![h] = record]

\* update_member: a role change leaves the member active.  The calls of two
\* requests overlap as they like once each has committed.
UpdateMember(h, s) ==
    /\ handler[h].pc = "idle" /\ changes < MaxChanges
    /\ standing # "removed"
    /\ standing' = s
    /\ changes' = changes + 1
    /\ Move(h, Revoking)
    /\ UNCHANGED <<now, token, denied, cutoff, revocations, signedOut, req>>

RemoveMember(h) ==
    /\ handler[h].pc = "idle" /\ changes < MaxChanges
    /\ standing # "removed"
    /\ standing' = "removed"
    /\ changes' = changes + 1
    /\ Move(h, Revoking)
    /\ UNCHANGED <<now, token, denied, cutoff, revocations, signedOut, req>>

\* revoke_all_for_user reads the clock, and only then awaits Redis.
ReadClock(h) ==
    /\ handler[h].pc = "revoking"
    /\ revocations' = revocations + 1
    /\ Move(h, [pc |-> "storing", at |-> SecondOf(now), read |-> revocations + 1])
    /\ UNCHANGED <<now, standing, token, denied, cutoff, changes, signedOut, req>>

\* The SET of revoke_all_for_user: the last to arrive is the one that stays.
StoreCutoff(h) ==
    /\ handler[h].pc = "storing"
    /\ cutoff' = [at |-> handler[h].at, until |-> now + Start(RefreshTTL),
                  of |-> handler[h].read]
    /\ Move(h, AtRest)
    /\ UNCHANGED <<now, standing, token, denied, changes, revocations, signedOut, req>>

\* The process dies, or Redis fails, after the commit.
RevocationLost(h) ==
    /\ handler[h].pc # "idle"
    /\ Move(h, AtRest)
    /\ UNCHANGED <<now, standing, token, denied, cutoff, changes, revocations,
                   signedOut, req>>

Tick ==
    /\ now < LastTick
    /\ now' = now + 1
    /\ UNCHANGED <<standing, token, denied, cutoff, handler, changes, revocations,
                   signedOut, req>>

RequestStep(r) ==
    \/ BeginLogin(r)
    \/ \E t \in Tokens : BeginRefresh(r, t)
    \/ CheckDenyList(r)
    \/ CheckCutoff(r)
    \/ ReadUser(r)
    \/ \E t \in Tokens : IssueTokens(r, t)

HandlerStep(h) ==
    \/ \E s \in {"active", "suspended"} : UpdateMember(h, s)
    \/ RemoveMember(h)
    \/ ReadClock(h)
    \/ StoreCutoff(h)
    \/ RevocationLost(h)

Next ==
    \/ \E r \in Requests : RequestStep(r)
    \/ \E t \in Tokens : Logout(t)
    \/ \E h \in Handlers : HandlerStep(h)
    \/ Tick

Spec == Init /\ [][Next]_vars
-----------------------------------------------------------------------------
TypeOK ==
    /\ now \in Ticks
    /\ standing \in {"active", "suspended", "removed"}
    /\ token \in [Tokens -> TokenRecord]
    /\ denied \in [Tokens -> Nat]
    /\ cutoff \in [at : Nat \cup {-1}, until : Nat, of : Nat]
    /\ handler \in [Handlers -> HandlerRecord]
    /\ changes \in 0..MaxChanges
    /\ revocations \in Nat
    /\ signedOut \subseteq Tokens
    /\ req \in [Requests -> RequestRecord]

\* A refresh that has passed both look-ups, and one that has passed the first.
PastCutoff(r) == req[r].tok # NoToken /\ req[r].pc \in {"user", "mint"}
PastDenyList(r) == req[r].tok # NoToken /\ req[r].pc \in {"cutoff", "user", "mint"}

\* Once a member has been demoted, suspended or removed and the cut-off is in
\* Redis, no token is renewed that was issued before revoke_all_for_user read
\* the clock: not one of the same second, not one that outlives the key, and
\* not after an older cut-off, of a change that overlapped, has replaced the
\* key with one that covers the token too.  What is renewed all the same: a
\* token minted in a later second than that read, whenever the key is written;
\* and a refresh so slow that its token runs out before the look-up.
CutoffHolds ==
    \A r \in Requests :
        PastCutoff(r) /\ req[r].old => now >= Start(token[req[r].tok].exp)

\* A token that has been signed out is not renewed, at least until the last
\* second of its life (the deny-list key may go that much too early).
SignedOutUntilLastSecond ==
    \A r \in Requests :
        PastDenyList(r) /\ req[r].out => now > Start(token[req[r].tok].exp - 1)

\* revocation.py:5-6 and README.md:923 promise more: a key that expires
\* exactly when its token would have.
SignedOutStaysOut ==
    \A r \in Requests :
        PastDenyList(r) /\ req[r].out => now >= Start(token[req[r].tok].exp)

\* team.py:163-164: a demoted or suspended member cannot keep renewing the
\* session they were holding.
SessionEnds ==
    \A r \in Requests :
        PastCutoff(r) /\ req[r].ended => now >= Start(token[req[r].tok].exp)

-----------------------------------------------------------------------------
(***************************************************************************)
(* The strengthening: what the two kinds of key guarantee while they live. *)
(***************************************************************************)
\* The cut-off covers every token older than its clock read, for as long as
\* that token can be read; and so will one that is on its way.
CutoffCovers ==
    /\ \A t \in Tokens :
          token[t].live /\ token[t].issuedAt < cutoff.of =>
              /\ token[t].iat <= cutoff.at
              /\ Start(token[t].exp) <= cutoff.until
    /\ \A h \in Handlers, t \in Tokens :
          /\ handler[h].pc = "storing"
          /\ token[t].live
          /\ token[t].issuedAt < handler[h].read
          => token[t].iat <= handler[h].at

\* Clock reads are numbered in the order in which they happen.
ReadsInOrder ==
    /\ cutoff.of <= revocations
    /\ \A h \in Handlers : handler[h].pc = "storing" => handler[h].read <= revocations

\* The deny-list keeps a signed-out token until its last second.
DenyListCovers ==
    \A t \in signedOut :
        token[t].live /\ Start(token[t].exp - 1) < denied[t]

TokenDates ==
    \A t \in Tokens : token[t].live =>
        /\ token[t].exp = token[t].iat + RefreshTTL
        /\ Start(token[t].iat) <= now
        /\ token[t].issuedAt <= revocations

RequestsInOrder ==
    \A r \in Requests :
        /\ req[r].tok # NoToken => token[req[r].tok].live
        /\ req[r].pc \in {"denylist", "cutoff"} => req[r].tok # NoToken
        /\ req[r].pc = "idle" => req[r].tok = NoToken
        /\ req[r].old => req[r].tok # NoToken /\ Predates(token[req[r].tok].issuedAt)
        /\ req[r].out => req[r].tok \in signedOut

KeysInv ==
    /\ CutoffCovers
    /\ ReadsInOrder
    /\ DenyListCovers
    /\ TokenDates
    /\ RequestsInOrder
=============================================================================
