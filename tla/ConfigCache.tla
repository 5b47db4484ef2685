----------------------------- MODULE ConfigCache -----------------------------
(***************************************************************************)
(* A chatbot's configuration in Redis (app/services/cache.py): read        *)
(* through by every widget request, evicted after every committed change,  *)
(* and kept for at most its time to live.                                  *)
(*                                                                         *)
(* Both caches have this shape.  ChatbotConfigCache is filled from the     *)
(* primary (widget.py, Lag = 0) and evicted with the chatbot;              *)
(* AIConfigCache is filled from the replica (ai/factory.py, Lag > 0),      *)
(* which may be behind by Lag ticks, and a deletion leaves it alone.  A    *)
(* version stands for all the columns one commit leaves behind.            *)
(***************************************************************************)
EXTENDS Naturals

CONSTANTS
    Readers,     \* requests that resolve the chatbot
    Writers,     \* requests and jobs that change it
    MaxVersion,  \* bound on the changes
    TTL,         \* chatbot_cache_ttl_seconds, in ticks
    MaxFill,     \* bound: ticks between a reader's SELECT and its SET
    Lag,         \* bound: ticks the database a reader asks may be behind
    DeletionEvicts \* does delete_chatbot evict this cache's entry?

VARIABLES
    version,  \* of the committed row
    there,    \* the row has not been deleted
    age,      \* [Versions -> 0 .. Forgotten]: ticks since it was superseded
    cache,    \* the Redis key
    reader,   \* [Readers -> ReaderRecord]
    writer    \* [Writers -> {"idle", "evict"}]

configVars == <<version, there, age, cache, reader, writer>>

ASSUME ConfigAssumption ==
    /\ MaxVersion \in Nat /\ TTL \in Nat \ {0} /\ MaxFill \in Nat /\ Lag \in Nat
    /\ DeletionEvicts \in BOOLEAN

Versions == 0 .. MaxVersion

\* Ages beyond the bound of StaleBounded are not told apart.
Forgotten == TTL + MaxFill + Lag + 1

\* Why an outdated entry is there: the eviction is still to come, the entry
\* was out of date when it was stored, or its eviction failed.
Excuses == {"evict", "late", "missed"}

Entry == [v : Versions, left : 1 .. TTL, excuse : Excuses]
NoEntry == [v |-> 0, left |-> 0, excuse |-> "evict"]

ReaderRecord == [pc : {"idle", "fill"}, v : Versions, held : 0 .. MaxFill]
IdleReader == [pc |-> "idle", v |-> 0, held |-> 0]

ConfigInit ==
    /\ version = 0 /\ there = TRUE
    /\ age = [v \in Versions |-> 0]
    /\ cache = NoEntry
    /\ reader = [r \in Readers |-> IdleReader]
    /\ writer = [w \in Writers |-> "idle"]

Outdated(v) == v # version \/ ~there

\* Rows the database asked may still show: what is current, or was within Lag.
MayBeRead == {v \in 0 .. version : ~Outdated(v) \/ age[v] < Lag}
-----------------------------------------------------------------------------
\* resolve_chatbot, get_summary: a miss, or a Redis that cannot be read, sends
\* the request to the database.  (A hit changes nothing.)
Miss(r) ==
    \E v \in MayBeRead :
        /\ reader[r].pc = "idle"
        /\ reader' = [reader EXCEPT ![r] = [pc |-> "fill", v |-> v, held |-> 0]]
        /\ UNCHANGED <<version, there, age, cache, writer>>

\* The SET, with its expiry; or Redis refuses it and the request goes on.
Fill(r) ==
    /\ reader[r].pc = "fill"
    /\ reader' = [reader EXCEPT ![r] = IdleReader]
    /\ \/ cache' = [v |-> reader[r].v, left |-> TTL,
                    excuse |-> IF Outdated(reader[r].v) THEN "late" ELSE "evict"]
       \/ UNCHANGED cache
    /\ UNCHANGED <<version, there, age, writer>>

\* update_chatbot, save_config, calibration's _store and
\* record_embedding_dimension commit a change ...
Change(w) ==
    /\ writer[w] = "idle" /\ there /\ version < MaxVersion
    /\ version' = version + 1
    /\ writer' = [writer EXCEPT ![w] = "evict"]
    /\ UNCHANGED <<there, age, cache, reader>>

\* ... and delete_chatbot the row, its AI configuration with it.  What it then
\* evicts is the widget's key only.
Delete(w) ==
    /\ writer[w] = "idle" /\ there
    /\ there' = FALSE
    /\ writer' = IF DeletionEvicts THEN [writer EXCEPT ![w] = "evict"] ELSE writer
    /\ UNCHANGED <<version, age, cache, reader>>

\* Mutant: nobody evicts.
EvictedNever == cache

\* The DEL.
Evicted == NoEntry

\* After the commit the entry is evicted; or Redis refuses, or the process is
\* gone, and nothing is tried again.
Evict(w) ==
    /\ writer[w] = "evict"
    /\ writer' = [writer EXCEPT ![w] = "idle"]
    /\ \/ cache' = Evicted
       \/ cache' = IF cache = NoEntry THEN cache ELSE [cache EXCEPT !.excuse = "missed"]
    /\ UNCHANGED <<version, there, age, reader>>

\* Mutant: the SET has no expiry.
AgedNever(e) == e

\* Redis drops a key whose time to live is over.
Aged(e) == IF e.left <= 1 THEN NoEntry ELSE [e EXCEPT !.left = @ - 1]

Older(n) == IF n = Forgotten THEN n ELSE n + 1

ConfigTick ==
    /\ \A r \in Readers : reader[r].pc = "fill" => reader[r].held < MaxFill
    /\ age' = [v \in Versions |-> IF v <= version /\ Outdated(v) THEN Older(age[v]) ELSE age[v]]
    /\ cache' = Aged(cache)
    /\ reader' = [r \in Readers |->
          IF reader[r].pc = "fill" THEN [reader[r] EXCEPT !.held = @ + 1] ELSE reader[r]]
    /\ UNCHANGED <<version, there, writer>>

ConfigNext ==
    \/ \E r \in Readers : Miss(r) \/ Fill(r)
    \/ \E w \in Writers : Change(w) \/ Delete(w) \/ Evict(w)
    \/ ConfigTick

ConfigSpec == ConfigInit /\ [][ConfigNext]_configVars
-----------------------------------------------------------------------------
ConfigTypeOK ==
    /\ version \in Versions /\ there \in BOOLEAN
    /\ age \in [Versions -> 0 .. Forgotten]
    /\ cache \in Entry \cup {NoEntry}
    /\ reader \in [Readers -> ReaderRecord]
    /\ writer \in [Writers -> {"idle", "evict"}]

\* widget.py:203-205: a change "takes effect within the cache TTL": what a
\* visitor is served was replaced no longer ago than the entry's time to live
\* and the time it took to fill, failed evictions and deletions included.
StaleBounded ==
    /\ cache # NoEntry => age[cache.v] <= TTL + MaxFill + Lag - cache.left
    /\ \A r \in Readers : reader[r].pc = "fill" => age[reader[r].v] <= reader[r].held + Lag

\* Where a deletion evicts nothing, the last configuration of a chatbot that
\* is gone may stay behind.
LeftBehind == ~DeletionEvicts /\ ~there /\ cache.v = version

\* An outdated entry awaits its eviction, or was stored by a request that had
\* read before the change, or Redis failed, or is what a deletion has left
\* behind; no other way leads to one.
StaleHasCause ==
    cache # NoEntry /\ Outdated(cache.v) =>
        \/ cache.excuse # "evict"
        \/ \E w \in Writers : writer[w] = "evict"
        \/ LeftBehind

\* chatbot.py:180-181: "an update must evict it immediately rather than
\* waiting out the TTL": with no eviction left to do or failed, the entry is
\* the current row.
EvictedImmediately ==
    cache # NoEntry /\ Outdated(cache.v) =>
        cache.excuse = "missed" \/ \E w \in Writers : writer[w] = "evict"
=============================================================================
