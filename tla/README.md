# A TLA+ model of nuvrag-platform

nuvrag-platform serves retrieval-augmented chatbots. Tenants upload documents, a
worker turns them into vectors, visitors of a tenant's web site ask questions
through a widget, and the tenant's staff answer what the chatbot could not. This
directory holds TLA+ modules of the parts where several requests, jobs and
nightly tasks meet on one row, one lock or one cache key, and of the migrations that change the
schema under them; TLC configurations
that check them on small instances; and TLAPS proofs of what holds of them for
every value of their constants.

## 1. The system

### Components, their state, their operations

| component (`app/…`) | state | operations that change it | module |
|---|---|---|---|
| document ingestion: `services/document.py`, `services/ingestion/`, `worker/` | a `document` row and its status, `document_chunk` rows, the raw file, Celery messages, coroutines on the worker's event loop | upload, ingest, retry, mark failed, reprocess, delete, purge the file; soft and hard time limits; worker loss | `Ingestion` |
| usage caps: `services/usage.py` | `chatbot_usage_period` (two counters a month), the cap on the chatbot row, the cap in the widget's cached configuration | `headroom`, `consume`, cap changes, the month's end | `UsageCap` |
| sessions: `services/auth.py`, `services/revocation.py`, `core/security.py` | refresh tokens, deny-list keys, per-user cut-off keys (both with a lifetime in Redis) | login, refresh, logout, revocation by a team handler | `Sessions` |
| team: `services/team.py`, `repositories/identity.py` | `app_user` (role, is_active), `invitation` | update, remove, invite, revoke, accept, expire | `Team` |
| embedding lock: `services/ai_config.py`, `services/ai/factory.py`, `services/nuvrag_mem/calibration.py` | `chatbot_ai_config` (model, recorded width), the model of each document's vectors, the calibrated floor | save, test, upload, ingest, retrieve, calibrate, delete | `Embeddings` |
| conversations, tickets, retention: `services/rag.py`, `ticket.py`, `conversation.py` | transcripts, their message counts and idle order; tickets and their resolution stamp; the sweep's position | a turn, the contact form, staff update, staff reply, deletion, the nightly sweep | `Conversations` |
| visitor memory: `services/nuvrag_mem/extraction.py`, `erasure.py`, `repositories/memory_entry.py` | notes about a visitor, the extraction lock in Redis | extraction, both erasures, the retention sweep | `VisitorMemory` |
| configuration caches: `services/cache.py`, `widget.py`, `ai/factory.py` | two Redis entries with a time to live | read through, change, evict, delete | `ConfigCache` |
| chat widget: `frontend/apps/widget/src/widget.js`, with `api/public/chat.py` as it sees it | the session id in the tab's and in the device's storage, the messages on screen, three promise chains (bootstrap, turn, contact form), whether a ticket is open | load, leave, ask, escalate, submit, replay | `Widget` |
| rate limiter: `services/rate_limit.py`, `widget.py`'s two gates | four kinds of token bucket, each a Redis hash with a time to live | a chat turn's two checks, a ticket's four, expiry, an answer that never comes | `RateLimit` |
| provider client cache: `services/ai/clients.py` | the clients one process keeps, their expiry and their owners | take, build, share, expire, evict, invalidate, close | `ClientCache` |
| reasoning filter: `services/ai/base.py` | the buffer of one stream | feed, flush, failure of the provider | `ReasoningFilter` |
| migrations: `alembic/`, `models/` | the catalogue, `alembic_version`, the rows under it | upgrade and downgrade to any revision, with a release that writes | `Catalog`, `Revisions`, `Models`, `Migrations` |
| provider adapters, storage backends, extractors, chunker, scanner | none that outlives a call | – | choices of the modules that call them |
| analytics | none | – | not modelled: read-only aggregates |
| schemas, errors, middleware, configuration, observability | none | – | the sets of inputs and the CONSTANTS |
| widget loader (`widget/src/loader.js`) and dashboard session (proxy and token refresh) | the frame's life on the host page; cookies | – | not modelled (planned) |
| rest of the dashboard, packaging, tests | – | – | clients and deployment; read as documentation |

`PROJECT.json` lists every component with its files and the part of it that is
left out.

### How they interact

* An upload asks `usage.headroom`, streams to object storage, charges
  `usage.consume`, commits the row and publishes a message; a worker consumes it.
  `UsageCap` and `Ingestion` each contain the calls the other one makes as steps
  (the charge is a choice in `Ingestion`, the stream a step in `UsageCap`).
* An ingestion and a chat turn read the embedding model with no lock and use it
  after one or more awaits; `ai_config.save_config` and `calibration` write the
  row the others read (`Embeddings`).
* A turn is: the charge, an embedding, a search, a transaction that finds the
  transcript, the stream, and a transaction that writes it; only then is memory
  extraction enqueued (`Conversations`, `VisitorMemory`).
* Deleting a conversation erases the visitor's notes and then the transcript, in
  two statements; the nightly sweep deletes transcripts, whose notes and tickets
  go or stay by foreign key; the memory sweep follows it (`Conversations`,
  `VisitorMemory`).
* A team change commits and then revokes tokens in Redis, in that order and not
  atomically (`Team`, `Sessions`).
* Every write of a chatbot or of its AI configuration is followed by an eviction
  (`ConfigCache`); the cap a turn is charged against comes out of that cache
  (`UsageCap`'s `RefreshConfig`).
* A chat turn passes the buckets of `RateLimit` before it is charged, and takes its client
  from `ClientCache` when it calls the provider; a save of the AI configuration evicts
  the cached row first and then drops the clients.
* A migration runs while the release in service goes on writing (`Migrations`).
* The widget asks for the transcript of the session id it has stored, streams a turn,
  and posts the contact form; the server knows it by that id alone. Staff replies reach
  a visitor only through the next bootstrap (`Widget`).

### What is hard about it

PostgreSQL runs at READ COMMITTED and the code locks no row with a SELECT: what a
handler has read may have changed when it writes. The ORM writes only the columns
whose value differs from the one it *loaded*, so two handlers merge rather than
overwrite. Redis calls fail, on purpose, into open or closed defaults. Celery
delivers late and again (`acks_late`), and a soft time limit ends a task without
ending its coroutine. A migration locks a table only when its DDL reaches it, and what
it read before may have changed. Locks in Redis expire under their holder. In the widget, a question
may be sent before the transcript has arrived, and two tabs share one storage. `hazards` in
`PROJECT.json` lists each place where this bites, with the properties about it.

### What makes each part correct

* **Ingestion.** A ready document has passages, a deleted one has none and stays
  deleted, overlapping runs never leave two generations of one width, the file of
  a live row is never removed; without the failures that lose work, an unfinished
  document always has a message and settles. To a search, the whole life of a
  document is the three actions of `DocumentCorpus`.
* **Usage.** No month passes its ceiling; a refusal is deserved; verdicts and
  charges agree except in an outage and then in the direction the setting asks for;
  the counters are the sum of the committed charges.
* **Sessions.** A token older than the clock read of a completed revocation, or signed
  out, is not renewed, up to the boundaries that whole seconds impose.
* **Team.** Authority that nobody holds and nothing hands on does not come into
  being; the last active owner goes only in a race.
* **Embeddings.** The stored vectors, the recorded width and the floor belong to the
  configured model, and cease to only by steps that were overtaken.
* **Conversations.** Counts never exceed transcripts; stamps describe statuses, and the
  sweep takes only what is idle and unpinned, unless a write came in between; and in the
  end it takes all of that.
* **Visitor memory.** One run at a time per transcript, a fact once, the ceiling,
  and nothing that was deleted on request is kept.
* **Caches.** What is served is at most so old, is outdated only for a known
  reason.
* **Rate limits.** In no window does a bucket let through more than its burst and its
  refill, although its hash expires; a Retry-After is kept.
* **Clients.** A client that is closed under a stream is closed for a cause.
* **Reasoning.** A visitor reads the same text however the provider cuts its stream.
* **Migrations.** The schema is a function of the revision, in both directions; at the
  head it is what the models declare; every tenant's table is guarded; rows are lost
  only by writers that no one has stopped.
* **Widget.** The composer always comes back; a replay and the page's own messages do not
  double; who has been told of a ticket finds from another tab the replies that the
  replica has got; only the id of a session with a ticket is kept on the device.

## 2. Modules and how they correspond to the code

`X.tla` is a component, `MCX.tla` instantiates it for TLC, `XProofs.tla` holds its
theorems. A *step* of every module is what happens between two points where
another transaction's commit, another await or another process can fall; an
operation that awaits in the middle is several actions with a program counter. A
definition with a name such as `RoomOffByOne` or `EvictedNever`, placed before the
definition it resembles, is a wrong variant of it: no specification uses it, and
replacing the real one by it makes the property named beside it in `PROJECT.json`
fail. `map` in `PROJECT.json` gives the source lines of every definition.

* **`DocumentCorpus`** – the abstract specification: `phase` of a document and the
  generation a search sees; `Accept`, `Publish`, `Withdraw`.
* **`Ingestion`** – `upload` is the progress of `upload_document`, `row` the status
  column, `chunks` the rows of a document by generation and width, `object` the raw
  file, `purge` the purge message, `job` a Celery message with its retries, `run`
  an execution of `process_document`. The transaction that replaces the chunks is
  split at its DELETE (`ReplaceDelete`, `ReplaceCommit`), since under READ
  COMMITTED its statements see different snapshots; the unique constraint and the
  foreign key of `document_chunk` are `InsertAllowed`. `SoftTimeLimit` turns a run
  into one its job no longer owns. `Faults` chooses which failures exist.
* **`IngestionCorpus`** – the refinement mapping to `DocumentCorpus`.
* **`UsageCap`** – a request goes through `headroom`, `stream`, `check`, `charge`.
  The INSERT … ON CONFLICT … WHERE … RETURNING of `_CONSUME` is one action
  (`Increment`); its failure before or after the commit are two more outcomes.
* **`Sessions`** – the clock counts fractions of a second, because `iat`, `exp` and
  the keys' lifetimes are whole seconds and nothing else is. `BeginRefresh`,
  `CheckDenyList`, `CheckCutoff`, `ReadUser`, `IssueTokens` are the five parts of
  `refresh_tokens`. A handler commits (`UpdateMember`, `RemoveMember`), reads the clock
  (`ReadClock`) and stores the cut-off (`StoreCutoff`), or is lost before either; handlers
  overlap, so cut-offs reach Redis in any order. Clock reads are numbered (`revocations`),
  and a token keeps the number of the last one before it was minted (`issuedAt`): what was
  minted between a clock read and its SET, in a later second, is newer than the cut-off
  and is renewed, in the model as in the code.
* **`Team`** – every handler as its reads and its commit: the principal
  (`current_principal`), the member, the count of owners, the write.
  `account` is what one organisation's `app_user` rows hold. `late` is history: the
  changes under way that were admitted before an active owner went.
* **`Embeddings`** – an actor is a request or a job; `loaded` is what its first
  transaction read, and for a save its row as it is in memory after the write (`Saved`).
  Everything overlaps. `overtaken` is history: the saves past the lock since whose look at
  the chunks (`CheckChunks`) vectors were stored.
* **`Conversations`** – `order` is the idle order `expired_ids` sorts by; `Age` lets
  the longest idle transcript pass the cutoff. Another commit may fall between any
  request's reads and its write, and between the SELECT and the DELETE of a batch.
  `sweep.full` is how many the SELECT returned, which is what decides whether a batch is
  the last. `renewed` is history: the transcripts of the batch that were written, or had a
  ticket opened or changed, since they were selected.
* **`VisitorMemory`** – one visitor. `lock` is the key of `held_lock`, `late` marks
  a run whose lock has expired and the notes it stores; `raced` marks a note stored
  between the two statements of an erasure.
* **`ConfigCache`** – a version of the row stands for all columns a commit left;
  `Lag` is 0 for the widget's cache and positive for that of AI configurations, which is
  filled from the replica. `DeletionEvicts` says whether `delete_chatbot` evicts the
  entry: the widget's it does, the AI configuration's it does not.
* **`Widget`** – the tabs of one browser. `tab` is what a page and its sessionStorage
  hold, `boot`, `turn` and `contact` are where its three promise chains are, `log` is
  what it shows, `remembered` is the localStorage the tabs share. A step is one callback.
  All three chains wait for the promise of the embedding site and go on in the order in
  which they were built (`SiteResolves`). `post`, `thread` and `ticket` are the server's
  side: a turn or a form is stored or abandoned whatever its page does meanwhile. A
  session is named after the post that drew its id; the typewriter is behind or has
  caught up; a browser that refuses localStorage is `Durable = FALSE`; `told` is history.
  `session_state` reads through `tenant_session(readonly=True)`, so `ReadState` sees any
  beginning of the conversation (`OnReplica`; a turn's two messages, one commit, come
  together) and its ticket as it was at any moment (`ShownAs`). Deletion of the transcript
  is left to `Conversations`.
* **`RateLimit`** – a check is one script and so one step; a request is the sequence of
  the checks it still has to pass. Time is in seconds and tokens in `Parts`, so that a
  refill below one token a second is a whole number. `owed` is history: what a bucket has
  let through less what time has refilled since, never below nothing, which is the
  largest excess over the windows that end now; `promised` is the second a refusal named.
* **`ClientCache`** – `_take` has no await and is one step; the awaits around it are the
  load of the configuration, the closing of each client that was thrown out, and the two
  halves of a save. A client's `takers`, `disowned` and `since` are history. What an
  invalidation leaves of the ordered entries is said by places (`Kept`, `Dropped`) and not
  with `SelectSeq`, which is recursive and about which nothing could be proved.
* **`ReasoningFilter`** – `Drain` is `feed`'s loop over the characters of a buffer;
  `Visible` is the reference definition, of a text read whole. Both are recursive functions
  (not operators), so that something can be proved of them. A step hands the filter one
  more piece of the text, or its end.
* **`Catalog`** – a schema is a set of facts (a column and whether it may be null, a
  default, a reference with its ON DELETE rule, a unique index, a check, a policy, a
  partition), with the readings of it: what a deletion reaches, what is guarded, which
  locks the step from one schema to another takes.
* **`Revisions`** – the fifteen revisions, each as a function from the schema it finds to
  the schema it leaves, up and down. **`Models`** – the schema `app/models` declares. The
  two are translated separately and share only `Catalog`.
* **`Migrations`** – a command is one transaction over all the revisions between the
  committed one and its target (`env.py`). `job` holds the transaction's own schema, its
  view of the tables it has rewritten, and its locks. `Write` is the release in service: it
  writes any row that the committed schema accepts, unless a lock is in its way. Revision
  0008 and the way down through 0004 are split between the statements that read and
  those that lock; `exposed` remembers which rows were written in between.
* **`SchemaInvariants`** – no part of the system: the invariants of the schema, and the shapes
  a revision has, that the proofs of section 4 use.

`UsageCap` and `RateLimit` share no variable, nor do `Embeddings`, `ClientCache`,
`ReasoningFilter` and `ConfigCache`. `MCUsageCap` (what a widget's request
passes) and `MCEmbeddings` (what stands between a chatbot and its provider) extend them and check
them in one run as a sum: a behaviour takes the steps of one component and leaves the
others in an initial state.
Names that would clash carry the component's (`LimitSpec`, `CacheSpec`, `ConfigSpec`,
`FilterSpec`; `NotesSpec` for `VisitorMemory`, whose proofs share a module with those of
`Conversations`).

## 3. Runs

Every configuration turns deadlock checking off, since every model may stop: bounds
are reached, or no request is made any more.

| run | what it shows | bounds, and why they are enough |
|---|---|---|
| `ingestion_safety` | status, chunks and file stay consistent in every interleaving, with every fault | one document (documents share no state), two messages and two coroutines (an overlap is of two), two widths (a change between two runs), one retry, one worker loss |
| `ingestion_progress` | no document is left without a message, each settles, files of deleted ones go, `DocumentCorpus` is implemented | as above with one width, two retries, two losses, and the faults of `LosesWork` and the loss of the purge message taken out: those are what the code does not recover from |
| `usage_cap` | ceiling, refusals, ledger; what the buckets let through, and that a Retry-After is kept | three requests (two that race for the last unit and a third that fails closed), a ceiling of 3 and none, files of 2 and 4 units (one that fits and one that never does), two months; for the buckets two requests of one session and one address, a burst of two and of one, a refill of ⅔ and of one token a second, four seconds (a hash lives two to four of them) |
| `sessions_keys` | revoked and signed-out tokens are not renewed | two tokens of two seconds, half-second ticks (the least that separates a second's start from its middle), three seconds, one slow request, two changes of the member by two handlers that overlap (cut-offs arrive in either order) |
| `team_authority` | authority is conserved; the last owner goes only in a race | two accounts, one invitation, two overlapping requests; the theorem covers the rest |
| `embeddings` | by which steps only vectors, width and floor cease to be the model's; no client is closed without a cause; the filter agrees with its reference; the age of what the cache of AI configurations serves, and its causes | two models, one of which returns two widths (it is asked for fewer dimensions, or changes under its name), two documents, two actors; a cache of two for three configurations of two chatbots (one too many, and one that both share), three clients, one save; texts of seven letters in pieces of up to three, with tags of two and of three letters that begin alike (a whole span, and a tag cut at each of its places); for the cache of configurations two readers, two writers, two changes and a deletion (which evicts nothing), a life of three ticks, a fill of two, a lag of one; the widget's cache (`Lag = 0`, `DeletionEvicts = TRUE`) was explored too |
| `conversations_retention` | what the sweep takes, and its termination | two transcripts, a ticket, one request (it may commit between a batch's two statements), batches of one and two batches a night: the smallest instance where a night ends early and something is left for the next |
| `conversations_overlap` | by which steps only a stamp ceases to describe the status | one transcript, a ticket and two requests that overlap, beside the sweep: an overlap is of two, and tickets share no state |
| `visitor_memory` | lock, single notes, ceiling, erasure | three facts and a ceiling of two (one too many), two proposals a run, two workers, two copies of a fact, one transcript; two transcripts with two facts and a ceiling of one were explored too (644,359 states) |
| `widget` | the composer, the display, the replay and the device's memory, in every order of callbacks | one tab (leaving and loading it again makes it another one, with or without its sessionStorage), two posts (a form beside a turn, or two of a kind), one reply, no limit on the replay, a replica that is behind by any part of the conversation |
| `widget_long_transcript` | a disagreement: see section 6 | the same, with a replay limit of two messages instead of the code's 100 |
| `migrations` | the schema at each revision, up and down; what deletions reach; which rows survive | the real fifteen revisions and all their tables; targets on both sides of each revision that touches rows, so that a command runs one revision or several; two chunks (a count can be right for the wrong rows), one of which may have a width the oldest table refuses, a document and a message of the kind a way down reclassifies |

Symmetry is used over requests, workers, facts, documents and tokens, in runs
without liveness only.

The configurations name what is hard to get right. The type invariants of `Ingestion`,
`UsageCap`, `Embeddings`, `ClientCache`, `Conversations` (but for `order`), `ConfigCache`,
`Team`, `Sessions`, `RateLimit`, `VisitorMemory` and `Widget` are theorems. The invariants a
proof rests on hold when they are added to their configuration (`CapInv`, `KeysInv`,
`LockInv`, `OwnersInv`, `OwnershipInv`, `StorageInv`, `GenerationInv`, `MemoryInv`, `WidgetInv`,
`CacheInv`, `Exact`; `MigrationsInv`, which takes the run of `Migrations` past its time with
all the targets, with the targets 0, 3, 7 and 15), and so do the theorems that are not in a
configuration: `ChunksHaveDocument`, `NeverResurrected`, `VerdictMatchesCharge`,
`CountWithin`.

Six properties state what the code keeps *although* it takes no lock:
`LastOwnerGoesInARace`, `ModelsMixInARace`, `WidthUnprovenInARace`, `FloorMisleadsInARace`,
`StampWrongInARace` and `SweepTakesHeldInARace`. What they are about (an owner is left, one
model's vectors, …) does fail, and section 6 says how; each of them says of every step that
ends it that it is one of the overtaken ones it names, so that any other way to lose it is
an error. No hypothesis limits what overlaps.

### Fairness

* `Ingestion`: weak fairness of the steps of a request and of a task that have
  begun, of a worker taking a message from its queue, and of coroutines on the
  event loop. None of users, of failures or of time limits. Celery's at-least-once
  delivery and the loop's scheduling justify these.
* `Conversations`: weak fairness of the sweep's start (beat fires every night) and
  strong fairness of its two statements: a night may fail, not every night.
* `Widget`: weak fairness of the two-second timer that answers for a silent host page,
  of the typewriter's timer, of reading a stream that has something to read, and of a
  server that ends what it has begun (it answers, or fails and says so). None of
  visitors, of staff, or of lost connections: `ComposerReturns` does not rest on
  `TurnBreaks`.

The other specifications claim nothing that needs fairness.

## 4. Theorems

All proofs are checked by TLAPS with no assumption but the ASSUME of the module
(which TLC evaluates in every run) and what is said here.

* **`IngestionProofs`.** For any numbers of documents, messages, coroutines,
  widths, retries and any set of faults: type correctness; `LiveObject`, from
  `StorageInv` (a purge is under way only for a document that is gone, and a file is
  there from the end of its stream); `ReadyIsSearchable`, `ChunksHaveDocument` and
  `OneGenerationPerWidth` together with `GenerationInv` (generations are numbered in
  the order of their commits, so a run that doomed fewer rows than there are is
  refused by the unique constraint); `NeverResurrected`; `NoLostWork` with
  `OwnershipInv` (without the faults of `LosesWork` each run owns a message of its
  own); and `CorpusImplemented`, that with one width every step is a step of
  `DocumentCorpus` or a stutter. The proofs go through three lemmas that say what a
  request, a job and a run can do to a document.
* **`RequestProofs`, usage caps.** `WithinCeiling` is not inductive: a request works with a
  cap read earlier. `CapInv` adds that every cap in use is below the ceiling
  (`CapsBelowCeiling`), that the statement never gets an amount above its cap
  (`ChargeFits`, the reason `CheckAmount` exists: the INSERT branch has no
  predicate) and that a month without a row has spent nothing (`FreshMonth`).
  `RefusalDeserved` follows because counters only grow, `VerdictMatchesCharge`
  request by request. `LedgerExact`, a sum over whoever was charged, needs no more state
  (only that finitely many ever were, `LedgerInv`) but an induction: `FoldSet` chooses the
  order in which it adds, so a sum is shown to be a total (`Totals`) of a set built one
  element at a time, the totals of a finite set to be one and the same whichever element
  comes last (by the library's well-founded minimum over its subsets), and one more
  charge to add its amount.
* **`RequestProofs`, rate limits.** For any requests, sessions, addresses, bursts, rates and
  however long the clock runs, under `LimitAssumption` (bursts, rates, parts and the margin
  are positive whole numbers). Neither property is inductive, since the script reads
  a hash and the properties speak of history. `LimitInv` ties the two: a bucket owes no
  more than what is missing from its hash, and a hash that is gone owes nothing, because
  a time to live of (burst / rate) + margin is at least what it takes to fill, rounded
  (the lemmas `Quotient` and `TookKeeps`); a promised second is one at which the hash that
  is there will hold a token, whatever refusals have rewritten it since (`PromiseKept`).
* **`RequestProofs`, configuration caches.** `StaleBounded` and `StaleHasCause` for any time
  to live, fill and lag (`AgeInv`: a value no newer row has replaced is young), and for a
  deletion that evicts the entry as for one that leaves it behind.
* **`SessionsProofs`.** `KeysInv` says what a key covers while it lives: `CutoffCovers`,
  `DenyListCovers`, and the dates and order they need. `CutoffCovers` has a second half for
  the handlers between their clock read and their SET, which is what makes the first one
  true when the SET happens, however long it takes. The core is the lemma
  `EntryLivesLongEnough` about truncated seconds.
* **`TeamProofs`.** `AuthorityConserved` for any number of overlapping requests, from
  `GrantsInv` (what a request will write it has been allowed to). `LastOwnerGoesInARace`,
  for as many, from `OwnersInv`: a change that no other has overtaken, and whose target is
  the only active owner, is by a request that will be refused (`SparesTheLast`).
* **`EmbeddingsProofs`.** Whatever overlaps, `LockInv`: an actor works with the model of the row
  it holds, the width it got is one that model returned (`Coherent`), and a change of
  model that is not overtaken finds no vectors (`FindsNoVectors`). The three action
  properties follow step by step.
* **`TranscriptProofs`, conversations.** For any numbers of requests, transcripts, tickets and
  batches, and whatever overlaps. `CountNeverExceeds`: the count is written from what was
  loaded, so `CountInv` carries with `CountWithin` that no request has loaded more than the
  row holds (`LoadedWithin`) and that a deleted row counts nothing. `StampWrongInARace`: an
  update or a reply that writes to the row as it was loaded leaves it stamped rightly
  (`UpdateStamps`, `ReplyStamps`), and no other step touches either column.
  `SweepTakesHeldInARace`, from `SweepInv`: what a sweep has selected and nobody has written
  since is still idle and unpinned.
* **`EmbeddingsProofs`, client cache.** `ClosedForACause`, for any number of turns, chatbots
  and clients. It speaks of a client that is closed, which happens some awaits after it was
  thrown out, by when the entries that were its reason may be gone. `CacheInv` therefore
  gives every client that *has been* thrown out its cause and no way back into the cache
  (`ThrownForACause`), and keeps for one that is still in it what will be its cause: whose
  entries stand behind it are among the configurations taken since it was
  (`LaterIsSince`, the entries being in the order of use), so that a cache with no room
  has seen `Capacity` of them; and whoever owns it has taken it (`EntryOfClient`), so that
  a save drops a client only of the chatbot that had it.
* **`EmbeddingsProofs`, reasoning filter.** `ShownIsVisible`, for any letters, any pair of tags
  that are not empty, and any text in pieces of any length: what the filter has let through
  is what a reader of the whole text would show. The invariant, `FilterInv`, speaks of every
  continuation: what has been shown, followed by what is visible of the buffer and of
  *whatever may still come*, is what is visible of the whole. `Drain` keeps it because it
  holds back exactly the endings that may become a tag. That the two recursive functions
  satisfy their equations is proved first, from what `CHOOSE` gives (`RecursionDefines`: a
  recursion on a text's length has a solution), and the inductions over lengths take the
  least length at which a claim fails (`LeastOf`, `BelowInduction`), since the library's
  induction theorems have an operator as parameter.
* **`TranscriptProofs`, visitor memory.** For any numbers of workers, facts, copies and transcripts.
  `HoldsItsLock` is inductive; what rests on it is not. `ErasureIsFinal` needs that ids are
  never used again (`TranscriptsInOrder`), that a run with rows of its own holds the foreign
  key of its transcript (`SourceStays`), and that an erasure under way has seen every note
  of its transcript but those stored since it began (`ErasureSeesAll`). `OncePerFact` needs
  that what a run that kept its lock is about to write only late runs have written
  (`NewToPunctual`), `WithinCapacity` that its count covers every punctual note and its own
  rows (`CountCovers`). `MemoryInv` is the conjunction; the step of a commit is where the
  parts need each other.
* **`WidgetProofs`.** For any numbers of tabs, posts and replies. `NothingTwice` is about
  three promise chains that write to one log in any order. `WidgetInv` adds what separates
  them: until the bootstrap is read, all that a page shows or waits for was sent *early*
  (`EarlyUntilRead`); once it is read, the rest is no part of the replay
  (`ReplayMeetsEarly`, because a replay is of a thread as it was, `ReplayOfThread`); and what
  a turn or a form has still to show is not there yet (`NotYetShown`).
  `OnlyTicketsAreRemembered` needs that what an acknowledged form carries is the session of
  a stored one (`FormsInOrder`). `ReplyReachesVisitor` is about the replies that the
  replica held when it was asked (`due`), however far behind; it has the hypothesis
  `[]ReplaysAreWhole` – no conversation outgrows a replay – which is exactly what the run
  `widget_long_transcript` violates; `ReplyInv` follows a reply on its way from thread to
  replay to log (`DueArrives`). `ShortChatsReachVisitor` discharges the hypothesis where all
  that is ever said (two messages a post, and the replies) fits in the limit.

* **`MigrationsProofs`.** `LossOnlyInTheWindow` and `FailsForACause`, for any rows, any
  targets, any writers and any sequence of commands and crashes; only the fifteen revisions
  are given. `MigrationsInv` has three layers. `SchemaInv` is what is needed of a schema at
  each revision: which of the three tables with rows are there, what their lists and
  widths accept, that none of them is a partition, and that a table is dropped before the
  ones it references. That each of the thirty steps up and down preserves it, and that what
  one schema accepts the next accepts too unless the revision rewrites that table, is the first half
  of the module (`Moves` for the revisions that only add or take away, `Swaps` for the two
  lists, `Rebuilds` for 0008). `ViewInv` relates the transaction to what is
  committed: it sees the committed rows except in tables it has rewritten, and those it
  holds locked (`AdvancedHolds`), so a writer changes both alike (`Touches`). `StageInv`
  says what a revision has counted, checked, staged or reclassified is what is there but for
  the rows named in `overlap`; this is what makes the counts and casts of 0008 agree when
  nobody writes. `Same` is transitive, so the losses of the revisions of one command add
  up to no more than their windows (`FaithfulTrans`).
* **`MigrationsProofs`, the schema.** The four properties of the catalogue, whatever commands,
  refusals, crashes and writes led to it, from the predicates defined in `SchemaInvariants`.
  `Exact` is the inductive invariant: the committed schema, and the one of a transaction under way, *is* `SchemaAt` of its revision (at revision
  0 perhaps with the extensions). It rests on two facts about each of the fifteen revisions
  (lemmas `One` … `Fifteen`): the upgrade keeps a schema sound, and the downgrade gives back
  the schema the upgrade found. `Sound` is what a revision can rely on for the second: no fact
  yet about a table (`TableBy`) or a column (`ColumnBy`) of a later revision, so that dropping
  it takes back only what was added; the exact clauses of the first chunk table, which 0008
  removes and its downgrade writes out again; the default that only 0012 has; and a policy on
  every table and partition from 0003 on. `SchemaOfRevision` and `TenantTablesGuarded` follow.
  For `HeadIsModels` each model is shown to be the union of the clauses its revisions add
  (`OrganizationIs` … `ChatbotIsModel`), each revision to add its part (`TwoShows` …
  `FourteenShows`, collected in `AtFour`, `AtEight`, `AtNine`, `AtHead`), and a policy never to
  stand on anything but a tenant-scoped table or one of its partitions (`Covers`). For
  `DeletionReach`, `Linked` says that every table has all of its keys to an organisation, a
  chatbot, a document and a conversation, each as a column and as a reference that cascades,
  and that nothing else cascades or bears such a name; `BoundAt` carries it through the
  revisions. `Reached` is a recursion over sets of tables; `ReachedIs` shows that it has a
  solution (the least set that takes nothing more with it), so that one step from a table
  and the absence of a second give what it reaches.

Only model-checked: liveness (`Settles`, `DeletedObjectsGo`, `EventuallyPurged`,
`ComposerReturns`), which is out of the prover's reach together with ENABLED; and the
types of `Conversations`' `order` and `renewed`. Every safety property that a run checks is a theorem.

## 5. What the models take to happen at once

No assumption restricts what overlaps: whatever another request, job or task of a module
can do may fall between any two of its steps. What is *one* step is what the code does
between two awaits, or one SQL statement with what is done to its result, or one script in
Redis. Where a transaction has several statements it has as many steps if what they read or
write can change in between; a transaction whose writes are flushed together at its commit
writes in one. Two things are left out: in `Conversations` one sweep runs at a time (its
lock, of an hour by default, is not a key that expires, as `VisitorMemory`'s is), and
`Embeddings` reads no replica (section 7).

A request in flight in `Team` counts as authority with the role its principal had when it
was admitted. `AuthorityConserved` therefore excludes authority from nowhere, and not that
a request finishes after its actor has lost the role: nothing in the code prevents that.

## 6. Where code and documentation disagree

One run shows a disagreement: in `widget_long_transcript` a visitor who has opened a
ticket comes back to a transcript that is longer than the replay's limit
(`SESSION_REPLAY_LIMIT`, 100 messages), and does not find the reply. The replay starts
at the oldest message (`repositories/conversation.py:87`), so what is cut off is the
end, where the reply is; `README.md:510` says the visitor sees it by reopening the
widget. A limit of two stands for the hundred: the code compares lengths and nothing
else.

The following were met while modelling and have no run of their own. Each is a
definition of its module that fails when it is added to the configuration named, with
the change named.

| definition | configuration and change | what the code does, what is said of it |
|---|---|---|
| `ScannerOutageSettles` | `ingestion_progress`, `Faults <- ScannerFaults` | `README.md:930`: a scanner that cannot be reached "fails the job"; the last retry re-raises without `mark_failed` (`tasks.py:43`), and the document stays in `processing` |
| `AlwaysAnOwner` | `team_authority` | `README.md:910`: an organisation "can never be left without an active owner"; two overlapping requests each count the other's owner (`team.py:182`). `LastOwnerGoesInARace`: only so |
| `DuplicatesCollapse` | `ingestion_safety` | `document.py:221`: a duplicate enqueue "collapses onto the same job"; Celery does not deduplicate by `task_id`, both run |
| `OrphansAreSwept` | `ingestion_progress`, `Faults <- AllFaults` | `document.py:285`: "orphaned blobs are swept separately"; nothing in the repository does |
| `NullCapUntouched` | `usage_cap` | `usage.py:8`, `README.md:700`: a null cap "never touches the counter"; `headroom` leaves it alone, `consume` runs its statement whatever the cap is and counts |
| `SignedOutStaysOut` | `sessions_keys` | `revocation.py:6`: a key expires "exactly when the token would have"; it expires up to a second early, its lifetime being truncated |
| `SessionEnds` | `sessions_keys` | `team.py:163`: a demoted member cannot keep renewing; a refresh that has passed both look-ups when the revocation lands mints a token that does |
| `InvitationSpent` | `team_authority` | an acceptance that has read the invitation writes over a revocation that committed since; one request at a time it holds |
| `NoSelfDemotion` | `team_authority` | `README.md:911`: "you cannot demote, suspend or remove yourself"; `_apply_role_change` never compares the actor with the member, so an owner who is not the last may |
| `OneModel`, `WidthProven`, `FloorDescribesModel` | `embeddings` | an ingestion, a test or a calibration that overlaps a change of model stores what it measured with the old one (`rag.py:107`, `ai_config.py:183`, `calibration.py:257`); a save that loaded the row before a width or a floor was stored keeps them for the new model. `ModelsMixInARace`, `WidthUnprovenInARace`, `FloorMisleadsInARace`: only so |
| `OneWidth` | `embeddings` | `pipeline.py:127`; a model that returns two widths leaves vectors in a partition that queries step past |
| `StampDescribesStatus` | `conversations_overlap` | `ticket.py:353`: `resolved_at` "always describes the state the row is actually in"; two overlapping updates each write the column they changed. `StampWrongInARace`: only so |
| `SweepSparesHeld` | `conversations_retention` | `README.md:541`: "never purged"; a ticket opened, or a message written, between the sweep's SELECT and its DELETE goes with the transcript. `SweepTakesHeldInARace`: only so |
| `EvictedImmediately` | `embeddings` | `chatbot.py:180`: an update "must evict it immediately"; a reader that selected before the change stores the old row after the eviction |
| `GreetingComesFirst` | `widget` | `widget.js:1072`: the greeting "would be a strange thing to say to someone mid-conversation"; a first question sent before the bootstrap answers gets it after the question |
| `OneTicketAtATime` | `widget` | `widget.js:97`: once a ticket exists "the affordance stops offering to open a second one"; the offer's own button, once rendered, stays and works |
| `TicketIsRecalled` | `widget` | the same, after a reload: a ticket opened without a message has an empty transcript, and `restore` returns before it looks at the ticket |
| `RevokedKeyStops` | `embeddings` | `clients.py:13`: "a revoked key must stop working when it is revoked"; a turn that had loaded the row before the save takes the client of the old one after the save has dropped it, and enters it again for up to an hour |
| `NothingLost` | `migrations` | `0008:73`: "no reason to write a migration that loses rows"; a chunk written after the statement that found none to carry, or after the one that staged the others, goes with the table (and one deleted after it comes back), in both directions |
| `ErasedWithTranscript` | `visitor_memory` | `conversation.py:46`: "either both go or neither does"; a note that an extraction commits between the two DELETEs survives, its source set to null (nine steps) |

One more is outside every module: notes are compared under whatever model is
configured (`rag.py:107`), and a change of model at the same width, with no document
left, keeps the notes of the old one.

A deleted chatbot's AI configuration stays in Redis until its time to live ends, for the
requests that are past the chatbot's own row: `delete_chatbot` evicts the widget's entry only
(`chatbot.py:207`). `StaleHasCause` names this cause (`LeftBehind`), and `StaleBounded` says
for how long. A reply that staff have just sent is missed by a bootstrap that reads a replica which
does not hold it yet (`ticket.py:313`), although `README.md:510` makes no such exception;
the next load shows it.

And the error of 0008 (`0008:97`) says that its staging table "has been left in place": the
exception rolls back the transaction that created it (`Abort`; `TenantTablesGuarded` rests
on that, since the staging table has no policy).

## 7. What is not modelled

* **Data.** Passages, vectors, prompts, answers and credentials are abstracted to
  what decides a step: a generation, a model and a width, a fact.
* **Row-level security and organisations.** Every module is one organisation's one
  chatbot (or one member, or one visitor); the code's queries are scoped by both and
  the modules have nothing that crosses them.
* **The read replica.** `tenant_session(readonly=True)` reads the replica where one is
  configured. Its lag is modelled where it matters: `ConfigCache` (`Lag`), `UsageCap`
  (`Headroom` sees any value the counter may have had), `Sessions` (`ReadUser`,
  `ReplicaLags`) and `Widget` (`OnReplica`, `ShownAs`). Elsewhere the lagging read is the first step of its request, and a
  read that is behind is one that was made earlier; `Embeddings` additionally takes a
  change of model to have reached the replica before the next request starts.
* **Access tokens, signup, password hashing, API keys, slugs, CORS and origin checks**
  – pure functions of a request, or single INSERTs under a unique index.
* **When a note was last used.** Recall and restatement only refresh it, and only the
  memory sweep's order depends on it.
* **Rate limits switched off** (`RATE_LIMIT_ENABLED=false`: nothing is asked), a Redis whose
  clock goes back, and a Redis that loses its keys: the script reads a lost bucket as a
  full one, and `WindowBound` does not survive that.
* **Client cache: other processes**, whose entries an invalidation does not reach and which
  the time to live alone ends; `close_all` at shutdown; `delete_chatbot`, which invalidates
  no client.
* **Migrations.** Types, lengths and indexes that are not unique are left out of the
  catalogue. A lock is one of two kinds, what stops writers and what stops readers too.
  The release in service is any writer of a chunk, a document or a message that the
  committed schema accepts, and a deletion is that of a chunk by a re-index; deletions of
  documents, and two migrations at once, are not modelled. CI runs `alembic upgrade` and
  `alembic check` on an empty database: it never goes down, and the comparison sees neither
  CHECK constraints nor policies, which is what `HeadIsModels` and `SchemaOfRevision` add.
* **Provider adapters, storage backends, extractors** – external calls; their outcomes
  are choices of the actions that make them.
* **The widget's loader and the dashboard's session** – planned, below. The rest of the
  dashboard issues the requests that the modules choose freely.

Bounds that are not the program's: `MaxCrashes`, `LastMonth`, `LastTick`, `MaxChanges`,
`MaxMessages`, `MaxVersion`, `MaxFill`, `MaxTranscripts`, `MaxCopies`, `MaxPosts`,
`MaxReplies`, `LastSecond`, `MaxClients`, `MaxSaves`, `MaxDelta`, `MaxText`, and the sizes of
the sets of ids. The theorems do not depend on them.

## 8. Plan

The order is that of importance: what a tenant or a visitor loses when it goes wrong.

1. `Ingestion`, `DocumentCorpus`, `IngestionCorpus`, with proofs – done.
2. `UsageCap`, `Sessions`, `Team`, `Embeddings`, `ConfigCache`, with proofs – done.
3. `Conversations`, `VisitorMemory` and `Widget`, with proofs – done.
4. `RateLimit` and `ClientCache`, with proofs – done. `ReasoningFilter` – done, with
   proofs. `Migrations` with `Catalog`, `Revisions` and `Models` – done, with proofs of the
   properties about rows and of those about the schema.
5. The widget's loader and the dashboard's session: two handshakes of a page with a frame
   and of a tab with a token refresh that other tabs make too.
6. Composition: `Conversations` with `VisitorMemory` on one transcript, so that the sweep,
   both erasures and the extraction share it; notes' vectors in `Embeddings`; `ClientCache`
   with `ConfigCache`, whose entries it outlives.
7. Pure algorithms: the chunker against a reference definition (every character is in a
   chunk, chunks are at most so long), `calibration`'s choice of a floor.

A property that has become a theorem may leave its configuration, as the type invariants
have: the runs are then about what is not proved.
