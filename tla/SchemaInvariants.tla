------------------------- MODULE SchemaInvariants --------------------------
(***************************************************************************)
(* The predicates the proofs about the catalogue rest on: what holds of    *)
(* the schema at each revision, and the few shapes a step from one schema  *)
(* to the next has.  Exact is the inductive invariant of the schema: with  *)
(* it every fact about SchemaAt is a fact about the database.              *)
(***************************************************************************)
EXTENDS Migrations

----------------------------------------------------------------------------
(***************************************************************************)
(* What a revision does to what the tables accept.  The lists of words are *)
(* the ones 0004 and 0009 swap; any other revision adds and takes away     *)
(* only facts that no row depends on.                                      *)
(***************************************************************************)
\* The list a document's or a message's word is in.
Listed(t) == IF t = "document" THEN "file_type" ELSE "role"
WordsOf(t, n) == IF t = "document" THEN FileTypes(n) ELSE Roles(n)
ListFact(t, n) == <<"words", t, Listed(t), WordsOf(t, n)>>

\* What DropCheck takes away with the check on that word.
IsList(f, t) == f[1] \in {"words", "range"} /\ f[2] = t /\ f[3] = Listed(t)

\* A fact that a revision other than 0002, 0004, 0008 and 0009 may add.
Safe(f, n) ==
  /\ f[1] \in {"table", "partition", "width", "words"} => f[2] \notin RowTables
  /\ f[1] = "reference" => f[2] \in LaterTables(n) \/ DroppedBefore(f[2], f[4])

\* One that any revision may take away.
MayGo(f) ==
  f[1] = "table" \/ (f[1] = "words" /\ f[3] \in {"file_type", "role"}) => f[2] \notin RowTables

\* The rows of tables T that one schema accepts the next one does too.
Keeps(s, u, T) == \A r : r.table \in T /\ Accepts(s, r) => Accepts(u, r)

\* From revision n to m another list takes the place of t's.
SwapsList(s, u, n, m, t) ==
  /\ ListFact(t, m) \in u
  /\ \A f \in u : \/ f = ListFact(t, m)
                  \/ f \in s /\ ~(f[1] = "words" /\ f[2] = t /\ f[3] = Listed(t))
                  \/ Safe(f, m)
  /\ \A f \in s : f \in u \/ MayGo(f) \/ (f[1] = "words" /\ f[2] = t /\ f[3] = Listed(t))
  /\ \A f \in u : f \in s /\ f[1] = "reference" /\ f[2] \in LaterTables(n) => f[2] \in LaterTables(m)

\* A fact about the chunk table or its partitions.
OfChunks(f) ==
  /\ f[1] # "words"
  /\ f[1] = "partition" => f[2] \notin RowTables
  /\ f[1] = "reference" => f[2] = "document_chunk" /\ f[4] \in {"organization", "document", "chatbot"}
  /\ f[1] = "width" => f[2] = "document_chunk"

\* The chunk table is dropped, and another one created.
RebuiltWith(s, u, A, n, m) ==
  /\ \A t : WordsOf(t, n) = WordsOf(t, m)
  /\ \A t : t \in LaterTables(n) => t \in LaterTables(m)
  /\ \A f \in A : OfChunks(f)
  /\ <<"table", "document_chunk">> \in A
  /\ \A f \in u : f \in DropTable(s, "document_chunk") \/ f \in A \/ f[1] = "policy"
  /\ \A f \in A : f \in u
  /\ \A f \in DropTable(s, "document_chunk") : f \in u

\* A fact of the first tables.
Initial(f) ==
  /\ f[1] = "partition" => f[2] \notin RowTables
  /\ f[1] = "reference" => DroppedBefore(f[2], f[4])
  /\ f[1] = "width" => f[2] = "document_chunk"
  /\ f[1] = "words" /\ f[2] \in {"document", "message"} /\ f[3] \in {"file_type", "role"} =>
        f = ListFact(f[2], 2)

----------------------------------------------------------------------------
(***************************************************************************)
(* What each revision can rely on having found, or not: this is what lets  *)
(* a downgrade give back the schema its upgrade found.                     *)
(***************************************************************************)
\* The partitions of 0008.
ChunkPartitions == {ChunkPartition(w) : w \in Dimensions \cup {Default}}

\* The revision from which a table, or a column of the two tables that grow, may be there.
TableBy(t, n) ==
  /\ t = "invitation" => n >= 5
  /\ t = "chatbot_ai_config" => n >= 7
  /\ t \in ChunkPartitions => n >= 8
  /\ t = "ticket" => n >= 9
  /\ t \in MemoryTables => n >= 12
  /\ t = "chatbot_usage_period" => n >= 14

ColumnBy(c, n) ==
  /\ c = "theme_json" => n >= 6
  /\ c = "staff_user_id" => n >= 9
  /\ c = "retention_days" => n >= 10
  /\ c \in {"privacy_url", "terms_url"} => n >= 11
  /\ c = "nuvrag_mem_retention_days" => n >= 12
  /\ c \in CapColumns \cup {"usage_cap_message"} => n >= 14
  /\ c \in ThresholdColumns \cup {TimestampColumn} => n >= 15

\* The two tables that later revisions add columns to.
Growing == {"chatbot", "message"}

\* A fact of revision n is of a table and a column that are there by then.
Fact(f, n) ==
  /\ TableBy(f[2], n)
  /\ f[2] \in Growing => \A c : Mentions(f, f[2], c) => ColumnBy(c, n)
  /\ f[1] = "table" => f[2] \in TenantTables \cup {"organization"} \/ n >= 5
  /\ f[1] = "partition" => (f[3] = "document_chunk" /\ n >= 8) \/ (f[3] = "memory_entry" /\ n >= 12)
  /\ f[1] = "range" => f[2] \notin {"document", "message"}
  /\ f[1] \in {"policy", "hnsw"} => n >= 3

\* Every table and partition that holds an organisation's rows has its policy.
AllGuarded(s) ==
  \A f \in s : \/ f[1] = "table" /\ f[2] # "organization"
               \/ f[1] = "partition"
               => Policy(f[2]) \subseteq s

\* The clauses of the chunk table before 0008.
LegacyChunks == InitialChunks \cup Hnsw("document_chunk") \cup Policy("document_chunk")
ChunkFacts(s) == {f \in s : f[2] = "document_chunk"}

\* A schema of revision n as the upgrades leave it.
Sound(s, n) ==
  /\ SchemaInv(s, n)
  /\ \A f \in s : Fact(f, n)
  /\ n >= 3 => AllGuarded(s)
  /\ n = 2 => ChunkFacts(s) = InitialChunks
  /\ n \in 3..7 => ChunkFacts(s) = LegacyChunks
  /\ n = 12 => Defaults("chatbot", {RetentionDefault}) \subseteq s

\* What the committed schema is, and the one the transaction has reached: the schema of its
\* revision, except that a database taken back to before 0001 keeps the extensions.
ExactInv(s, n) == IF n = 0 THEN s \subseteq Extensions ELSE s = SchemaAt[n + 1]

Exact ==
  /\ revision \in 0..15
  /\ ExactInv(schema, revision)
  /\ job # Idle => job.at \in 0..15 /\ ExactInv(job.schema, job.at)

----------------------------------------------------------------------------
(***************************************************************************)
(* The shapes of a revision that creates a table, or adds columns.         *)
(***************************************************************************)
\* The clauses of a table say nothing of partitions, policies and vector indexes.
Plain(f) == f[1] \notin {"partition", "policy", "hnsw"}

\* A new table, its policy, and columns for another one: dropping it leaves the rest.
Opens(s, u, t, A, B) ==
  /\ \A f \in A : f[2] = t /\ Plain(f)
  /\ \A f \in s : f[2] # t /\ (f[1] = "partition" => f[3] # t)
  /\ \A f \in B : f[2] # t /\ Plain(f)
  /\ \A f : f \in u <=> f \in s \/ f \in A \/ f \in Policy(t) \/ f \in B

\* A revision that creates one table and its policy, and columns for the chatbots.
NewTable(s, u, n, t, A, B) ==
  /\ t \notin TenantTables \cup {"organization"} \cup MemoryTables
  /\ TableBy(t, n) /\ ~TableBy(t, n - 1)
  /\ \A f \in A : f[2] = t /\ Plain(f)
  /\ \A f \in B : f[1] \in {"column", "default", "range"} /\ f[2] = "chatbot" /\ ColumnBy(f[3], n)
  /\ \A f : f \in u <=> f \in s \/ f \in A \/ f \in Policy(t) \/ f \in B

\* A revision that gives the chatbots columns.
NewColumns(s, u, n, C, B) ==
  /\ \A c \in C : ColumnBy(c, n) /\ ~ColumnBy(c, n - 1)
  /\ \A f \in B : f[1] \in {"column", "default", "range"} /\ f[2] = "chatbot" /\ f[3] \in C
  /\ \A f : f \in u <=> f \in s \/ f \in B

\* A table and its partitions, T all their names.
Partitioned(A, t, T) ==
  /\ t \in T
  /\ \A f \in A : \/ f[2] = t /\ Plain(f)
                  \/ f[1] = "partition" /\ f[2] \in T /\ f[3] = t
                  \/ f[1] = "hnsw" /\ f[2] \in T
  /\ \A p \in T : p # t => \E f \in A : f[1] = "partition" /\ f[2] = p /\ f[3] = t

\* The policies of tables T.
Policies(T) == UNION {Policy(t) : t \in T}

\* A new partitioned table: dropping it takes the partitions with it, and nothing else.
OpensAll(s, v, t, A, T) ==
  /\ Partitioned(A, t, T)
  /\ \A f \in s : f[2] \notin T /\ (f[1] = "partition" => f[3] # t)
  /\ \A f : f \in v <=> f \in s \/ f \in A \/ f \in Policies(T)

----------------------------------------------------------------------------
(***************************************************************************)
(* What the comparison with app/models sees, and where policies stand.     *)
(***************************************************************************)
\* Clauses of table t that the comparison with app/models looks at.
Of(A, t) == \A f \in A : f[2] = t /\ IncludeObject(f)

\* A revision adds A, as the comparison sees it.
Compared(s, u, A) == \A f : IncludeObject(f) => (f \in u <=> f \in s \/ f \in A)

\* What the comparison passes over is what was there, and B.
Aside(s, u, B) == \A f : ~IncludeObject(f) => (f \in u <=> f \in s \/ f \in B)

\* A schema has a policy only on a tenant's table, or on a partition of one.
Tenants == Model!TENANT_SCOPED_TABLES

Covers(s) ==
  \A f \in s : f[1] = "policy" =>
    \/ f[2] \in Tenants
    \/ \E g \in s : g[1] = "partition" /\ g[2] = f[2] /\ g[3] \in Tenants

----------------------------------------------------------------------------
(***************************************************************************)
(* What a deletion takes with it.                                          *)
(***************************************************************************)
\* Where the facts of 0002 are.
FirstSeven == TenantTables \cup {"organization"}

\* The tables a set of tables takes with it in one step.
Wider(s, S) ==
  S \cup {f[2] : f \in {g \in Kind(s, "reference") : g[4] \in S /\ g[5] = "CASCADE"}}

\* Every reference is a table's.
TablesOnly(s) == \A f \in Kind(s, "reference") : f[2] \in Tables(s)

\* The columns a deletion follows, the tables that have them and the table each points to.
CascadeKeys == {"org_id", "chatbot_id", "document_id", "conversation_id"}

KeysOf(t) ==
  {c \in CascadeKeys :
     /\ t # "organization"
     /\ c = "chatbot_id" => t \notin {"app_user", "chatbot", "invitation"}
     /\ c = "document_id" => t = "document_chunk"
     /\ c = "conversation_id" => t \in {"message", "ticket"}}

TargetOf(c) ==
  CASE c = "org_id" -> "organization" [] c = "chatbot_id" -> "chatbot"
    [] c = "document_id" -> "document" [] OTHER -> "conversation"

\* A table has all of its keys, each a column and a reference that cascades, and no others.
Core(f) == f[1] \in {"table", "column", "reference"}
KeyOf(t, c, s) == <<"column", t, c, "not null">> \in s /\ <<"reference", t, c, TargetOf(c), "CASCADE">> \in s

RightKey(f) ==
  /\ f[1] = "reference" => f[5] # "CASCADE" \/ (f[3] \in KeysOf(f[2]) /\ f[4] = TargetOf(f[3]))
  /\ f[1] = "column" /\ f[3] \in CascadeKeys => f[3] \in KeysOf(f[2])

Linked(s) ==
  /\ \A f \in s : Core(f) => <<"table", f[2]>> \in s /\ RightKey(f)
  /\ \A t : <<"table", t>> \in s => \A c \in KeysOf(t) : KeyOf(t, c, s)

\* The blocks of clauses the revisions are made of.
Fine(X, t) == \A f \in X : Core(f) => f[2] = t /\ RightKey(f)

\* Columns that are no keys.
Extra(X, t) == \A f \in X : Core(f) => /\ f[2] = t /\ f[1] # "table" /\ RightKey(f)

\* What is linked, and has the tables of 0002.
Bound(s) == Linked(s) /\ \A t \in FirstSeven : <<"table", t>> \in s
=============================================================================
