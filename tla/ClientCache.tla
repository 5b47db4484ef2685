---------------------------- MODULE ClientCache ----------------------------
(***************************************************************************)
(* The provider clients one process keeps: services/ai/clients.py and the  *)
(* two functions of services/ai/factory.py that take one.  A turn loads    *)
(* its configuration in one await, takes a client in a step without any,   *)
(* and closes what that step threw out in awaits of their own; a save      *)
(* commits in one await and drops its chatbot's clients in a later one.    *)
(* A configuration is everything a client is built from, so it stands for  *)
(* the digest that is the key.                                             *)
(***************************************************************************)
EXTENDS Integers, FiniteSets, Sequences, Functions

CONSTANTS
    Chatbots,
    Configurations,
    Turns,         \* calls to a provider under way at once
    Capacity,      \* CAPACITY
    Ttl,           \* TTL_SECONDS
    LastSecond,    \* bound: the clock stops here
    MaxClients,    \* bound on the clients built
    MaxSaves       \* bound on the saves

ASSUME CacheAssumption ==
    Capacity \in Nat /\ Ttl \in Nat /\ LastSecond \in Nat /\ MaxClients \in Nat /\ MaxSaves \in Nat

VARIABLES
    second,        \* time.monotonic
    saved,         \* [Chatbots -> the configuration in its row]
    saves,         \* the saves so far
    saving,        \* [Chatbots -> a save past its commit, and what it has to close]
    entries,       \* _entries, the front first
    clients,       \* the clients built so far
    turn           \* [Turns -> TurnRecord]

cacheVars == <<second, saved, saves, saving, entries, clients, turn>>

\* A save is "committed" until it drops the clients of its chatbot.
SaveRecord == [pc : {"none", "committed", "closing"}, victims : Seq(1 .. MaxClients)]
NotSaving == [pc |-> "none", victims |-> <<>>]

\* `client' is 0 until the turn has taken one.
TurnRecord ==
    [pc : {"idle", "loaded", "taken"}, bot : Chatbots \cup {"none"},
     loaded : Configurations \cup {"none"}, client : 0 .. MaxClients, victims : Seq(1 .. MaxClients)]
NoTurn == [pc |-> "idle", bot |-> "none", loaded |-> "none", client |-> 0, victims |-> <<>>]

\* What OrderedDict keeps under a key.
EntryRecord == [key : Configurations, client : 1 .. MaxClients, owners : SUBSET Chatbots]

\* What a client was built from, when its entry expires, and whether it has been closed.
\* Ghosts: the chatbots that have taken it, whether one of them has dropped its clients since,
\* and the configurations taken since it was last taken itself.
ClientRecord ==
    [config : Configurations, expires : Nat, closed : BOOLEAN,
     takers : SUBSET Chatbots, disowned : BOOLEAN, since : SUBSET Configurations]

CacheInit ==
    /\ second = 0
    /\ saved \in [Chatbots -> Configurations]
    /\ saves = 0
    /\ saving = [c \in Chatbots |-> NotSaving]
    /\ entries = <<>>
    /\ clients = <<>>
    /\ turn = [t \in Turns |-> NoTurn]

----------------------------------------------------------------------------
(* A turn. *)

\* load_config
Load(t, c) ==
    /\ turn[t].pc = "idle"
    /\ turn' = [turn EXCEPT ![t] = [pc |-> "loaded", bot |-> c, loaded |-> saved[c],
                                    client |-> 0, victims |-> <<>>]]
    /\ UNCHANGED <<second, saved, saves, saving, entries, clients>>

\* cache_key, over everything the client is built from.
Key(t) == turn[t].loaded

Holds(k, entry) == entry.key = k

\* The entries of `s' that are in E, in their order: SelectSeq for a set, by places.
Kept(s, E) ==
    LET places == {i \in DOMAIN s : s[i] \in E}
        Nth(n) == CHOOSE i \in places : Cardinality({j \in places : j <= i}) = n
    IN  [n \in 1 .. Cardinality(places) |-> s[Nth(n)]]
Dropped(s, E) == Kept(s, Range(s) \ E)
Clients(s) == [i \in DOMAIN s |-> s[i].client]

\* Mutant: a hit leaves its entry where it is.
TakenInPlace(live, k, n, c) ==
    IF \E i \in DOMAIN live : Holds(k, live[i])
    THEN [i \in DOMAIN live |->
            IF Holds(k, live[i]) THEN [live[i] EXCEPT !.owners = @ \cup {c}] ELSE live[i]]
    ELSE Append(live, [key |-> k, client |-> n, owners |-> {c}])

\* The entry of `k', owned by `c' too and moved to the end; a new one, of client `n', when
\* there is none.
Taken(live, k, n, c) ==
    LET hit == {e \in Range(live) : Holds(k, e)}
        old == IF hit = {} THEN [key |-> k, client |-> n, owners |-> {}] ELSE CHOOSE e \in hit : TRUE
    IN  Append(Dropped(live, hit), [old EXCEPT !.owners = @ \cup {c}])

\* _take: no await in it, so one step.  What it throws out is closed afterwards.
Take(t) ==
    /\ turn[t].pc = "loaded"
    /\ LET k == Key(t)
           c == turn[t].bot
           expired == {e \in Range(entries) : Holds(k, e) /\ clients[e.client].expires <= second}
           live == Dropped(entries, expired)
           built == ~\E e \in Range(live) : Holds(k, e)
           taken == Taken(live, k, Len(clients) + 1, c)
           over == IF Len(taken) > Capacity THEN Len(taken) - Capacity ELSE 0
           v == (CHOOSE e \in Range(taken) : Holds(k, e)).client
           new == [config |-> k, expires |-> second + Ttl, closed |-> FALSE,
                   takers |-> {}, disowned |-> FALSE, since |-> {}]
           all == IF built THEN Append(clients, new) ELSE clients
       IN  /\ built => Len(clients) < MaxClients
           /\ entries' = SubSeq(taken, over + 1, Len(taken))
           /\ clients' = [n \in DOMAIN all |->
                IF n = v THEN [all[n] EXCEPT !.takers = @ \cup {c}, !.since = {}]
                ELSE [all[n] EXCEPT !.since = @ \cup {k}]]
           /\ turn' = [turn EXCEPT ![t].pc = "taken", ![t].client = v,
                         ![t].victims = Clients(Kept(entries, expired) \o SubSeq(taken, 1, over))]
    /\ UNCHANGED <<second, saved, saves, saving>>

Closed(n) == clients' = [clients EXCEPT ![n].closed = TRUE]

\* _close_all, before acquire returns.
CloseVictim(t) ==
    /\ turn[t].victims # <<>>
    /\ Closed(Head(turn[t].victims))
    /\ turn' = [turn EXCEPT ![t].victims = Tail(@)]
    /\ UNCHANGED <<second, saved, saves, saving, entries>>

\* The call is over, or its visitor has gone: a turn cancelled among its victims never closes
\* the rest of them.
Leave(t) ==
    /\ turn[t].pc = "taken"
    /\ turn' = [turn EXCEPT ![t] = NoTurn]
    /\ UNCHANGED <<second, saved, saves, saving, entries, clients>>

----------------------------------------------------------------------------
(* A save of a chatbot's configuration, and the clock. *)

\* save_config or record_embedding_dimension, up to the commit.
Save(c, k) ==
    /\ saving[c].pc = "none"
    /\ saves < MaxSaves
    /\ saves' = saves + 1
    /\ saved' = [saved EXCEPT ![c] = k]
    /\ saving' = [saving EXCEPT ![c].pc = "committed"]
    /\ UNCHANGED <<second, entries, clients, turn>>

Drops(c, entry) == c \in entry.owners

\* invalidate, once Redis has answered.
Invalidate(c) ==
    /\ saving[c].pc = "committed"
    /\ LET doomed == {e \in Range(entries) : Drops(c, e)}
       IN  /\ saving' = [saving EXCEPT ![c] =
                [pc |-> IF doomed = {} THEN "none" ELSE "closing",
                 victims |-> Clients(Kept(entries, doomed))]]
           /\ entries' = Dropped(entries, doomed)
    /\ clients' = [n \in DOMAIN clients |->
         [clients[n] EXCEPT !.disowned = @ \/ c \in clients[n].takers]]
    /\ UNCHANGED <<second, saved, saves, turn>>

CloseDropped(c) ==
    /\ saving[c].pc = "closing"
    /\ Closed(Head(saving[c].victims))
    /\ saving' = [saving EXCEPT ![c] =
         IF Len(saving[c].victims) = 1 THEN NotSaving
         ELSE [saving[c] EXCEPT !.victims = Tail(@)]]
    /\ UNCHANGED <<second, saved, saves, entries, turn>>

Tick ==
    /\ second < LastSecond
    /\ second' = second + 1
    /\ UNCHANGED <<saved, saves, saving, entries, clients, turn>>

CacheNext ==
    \/ \E t \in Turns :
         \/ \E c \in Chatbots : Load(t, c)
         \/ Take(t) \/ CloseVictim(t) \/ Leave(t)
    \/ \E c \in Chatbots :
         \/ \E k \in Configurations : Save(c, k)
         \/ Invalidate(c) \/ CloseDropped(c)
    \/ Tick

CacheSpec == CacheInit /\ [][CacheNext]_cacheVars

----------------------------------------------------------------------------
(* Properties. *)

CacheTypeOK ==
    /\ second \in Nat
    /\ saved \in [Chatbots -> Configurations]
    /\ saves \in Nat
    /\ saving \in [Chatbots -> SaveRecord]
    /\ entries \in Seq(EntryRecord)
    /\ clients \in Seq(ClientRecord) /\ Len(clients) <= MaxClients
    /\ turn \in [Turns -> TurnRecord]
    /\ \A t \in Turns : turn[t].pc = "loaded" =>
         turn[t].bot \in Chatbots /\ turn[t].loaded \in Configurations

\* A client is shared and closed under whoever still streams from it, but never without a
\* cause: it is past its time, or so many others have been asked for since it last was that
\* the cache had no room for it, or a save of a chatbot that had taken it has dropped it.
ClosedForACause ==
    \A t \in Turns :
        LET n == turn[t].client
        IN  n # 0 /\ clients[n].closed =>
              \/ second >= clients[n].expires
              \/ Cardinality(clients[n].since) >= Capacity
              \/ clients[n].disowned

\* Fails.  "A revoked key must stop working when it is revoked" (clients.py:13): once the save
\* of a single chatbot's configuration has dropped its clients, the cache holds none of
\* another configuration under its name.
RevokedKeyStops ==
    \A c \in Chatbots, i \in DOMAIN entries :
        saving[c].pc = "none" /\ c \in entries[i].owners => entries[i].key = saved[c]

----------------------------------------------------------------------------
(***************************************************************************)
(* The strengthening of ClosedForACause.  An entry further back was taken  *)
(* later, so what stands behind a client is among the configurations taken *)
(* since; an owner is one of the takers; and what has been thrown out, but *)
(* perhaps not closed yet, has its cause and is not in the cache again.    *)
(***************************************************************************)
LaterIsSince(s, of) ==
    \A i, j \in DOMAIN s : i < j =>
        s[i].key # s[j].key /\ s[j].key \in of[s[i].client].since

EntryOfClient(e, of) ==
    /\ e.client \in DOMAIN of
    /\ of[e.client].config = e.key
    /\ e.owners \subseteq of[e.client].takers

Caused(n, of, time) ==
    \/ time >= of[n].expires
    \/ Cardinality(of[n].since) >= Capacity
    \/ of[n].disowned

ThrownOut ==
    {n \in DOMAIN clients : clients[n].closed}
        \cup (UNION {Range(turn[t].victims) : t \in Turns})
        \cup (UNION {Range(saving[c].victims) : c \in Chatbots})

ThrownForACause ==
    \A n \in ThrownOut :
        /\ n \in DOMAIN clients
        /\ Caused(n, clients, second)
        /\ \A e \in Range(entries) : e.client # n

ClosingHasVictims == \A c \in Chatbots : saving[c].pc = "closing" => saving[c].victims # <<>>

CacheInv ==
    /\ LaterIsSince(entries, clients)
    /\ \A e \in Range(entries) : EntryOfClient(e, clients)
    /\ \A n \in DOMAIN clients : IsFiniteSet(clients[n].since)
    /\ \A t \in Turns : turn[t].client \in {0} \cup DOMAIN clients
    /\ ThrownForACause
    /\ ClosingHasVictims
=============================================================================
