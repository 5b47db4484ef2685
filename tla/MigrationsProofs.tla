--------------------------- MODULE MigrationsProofs ---------------------------
(***************************************************************************)
(* That a migration loses no row but in the window 0008 and 0004 leave     *)
(* open, and that a command which fails does so for a cause: for any rows, *)
(* any targets and any sequence of upgrades, downgrades, crashes and       *)
(* writes.  First the revisions, as functions from one schema to the next; *)
(* then the steps of a command; then the writers.  Then that the schema    *)
(* is a function of alembic_version, and guarded from 0003 on: each        *)
(* downgrade undoes its upgrade on every schema that is sound, and every   *)
(* schema the upgrades reach is; that at the head it is what app/models    *)
(* declares; and what a deletion takes with it at each revision.           *)
(***************************************************************************)
EXTENDS SchemaInvariants, FiniteSetTheorems, TLAPS

-----------------------------------------------------------------------------
(***************************************************************************)
(* What each clause of DDL adds.                                           *)
(***************************************************************************)
LEMMA RequiredIs == \A t, names : \A f \in Required(t, names) : f[1] = "column" /\ f[2] = t
  <1> TAKE t, names
  <1> TAKE f \in Required(t, names)
  <1>1. PICK c \in names : f = <<"column", t, c, "not null">>
    BY DEF Required
  <1> QED BY <1>1
LEMMA OptionalIs == \A t, names : \A f \in Optional(t, names) : f[1] = "column" /\ f[2] = t
  BY DEF Optional
LEMMA DefaultsIs == \A t, pairs : \A f \in Defaults(t, pairs) : f[1] = "default" /\ f[2] = t
  BY DEF Defaults
LEMMA ReferencesIs ==
  \A t, rule, pairs : \A f \in References(t, rule, pairs) : f[1] = "reference" /\ f[2] = t
  BY DEF References
LEMMA ReferencesTo ==
  \A t, rule, pairs, T :
     (\A q \in pairs : q[2] \in T) => \A f \in References(t, rule, pairs) : f[4] \in T
  BY DEF References
LEMMA UniqueIs == \A t, cols : \A f \in Unique(t, cols) : f[1] = "unique" /\ f[2] = t
  BY DEF Unique
LEMMA UniqueWhereIs ==
  \A t, cols, cond : \A f \in UniqueWhere(t, cols, cond) : f[1] = "unique" /\ f[2] = t
  BY DEF UniqueWhere
LEMMA OneOfIs ==
  \A t, c, words : \A f \in OneOf(t, c, words) :
     f[1] = "words" /\ f[2] = t /\ f[3] = c /\ f[4] = words
  BY DEF OneOf
LEMMA BetweenIs == \A t, c, lo, hi : \A f \in Between(t, c, lo, hi) : f[1] = "range" /\ f[2] = t
  BY DEF Between
LEMMA PolicyIs == \A t : \A f \in Policy(t) : f[1] = "policy" /\ f[2] = t
  BY DEF Policy
LEMMA HnswIs == \A t : \A f \in Hnsw(t) : f[1] = "hnsw" /\ f[2] = t
  BY DEF Hnsw
LEMMA PartitionIs == \A t, p, w : \A f \in Partition(t, p, w) : f[1] = "partition" /\ f[2] = p
  BY DEF Partition
LEMMA TableClauseIs ==
  \A t, key : \A f \in Table(t, key) : f[1] \in {"table", "primary"} /\ f[2] = t
  BY DEF Table

\* The helpers of 0002.
LEMMA CreatedIs == \A t : \A f \in Created(t) : f[1] \in {"column", "default"} /\ f[2] = t
  BY RequiredIs, DefaultsIs DEF Created
LEMMA UpdatedIs == \A t : \A f \in Updated(t) : f[1] \in {"column", "default"} /\ f[2] = t
  BY RequiredIs, DefaultsIs DEF Updated
LEMMA PkIs ==
  \A t : \A f \in Pk(t) : f[1] \in {"table", "primary", "column", "default"} /\ f[2] = t
  BY RequiredIs, DefaultsIs, TableClauseIs DEF Pk
LEMMA OrgIdIs ==
  \A t : \A f \in OrgId(t) :
     \/ f[1] = "column" /\ f[2] = t
     \/ f[1] = "reference" /\ f[2] = t /\ f[4] = "organization"
  <1> TAKE t
  <1> TAKE f \in OrgId(t)
  <1>1. CASE f \in Required(t, {"org_id"})
    BY <1>1, RequiredIs
  <1>2. CASE f \in References(t, "CASCADE", {<<"org_id", "organization">>})
    BY <1>2 DEF References
  <1> QED BY <1>1, <1>2 DEF OrgId
\* Every clause belongs to the table it is given.
LEMMA Located ==
  /\ \A t : \A f \in Pk(t) \cup Created(t) \cup Updated(t) \cup OrgId(t) : f[2] = t
  /\ \A t, a : \A f \in Required(t, a) \cup Optional(t, a) \cup Defaults(t, a) \cup Unique(t, a)
                          \cup Table(t, a) : f[2] = t
  /\ \A t, a, b : \A f \in References(t, a, b) \cup OneOf(t, a, b) \cup UniqueWhere(t, a, b) :
       f[2] = t
  /\ \A t, a, b, c : \A f \in Between(t, a, b, c) : f[2] = t
  BY PkIs, CreatedIs, UpdatedIs, OrgIdIs, RequiredIs, OptionalIs, ReferencesIs, UniqueIs,
     UniqueWhereIs, OneOfIs, DefaultsIs, TableClauseIs, BetweenIs
LEMMA RlsIs ==
  \A s, tables : \A f \in EnableRls(s, tables) : f \in s \/ f[1] = "policy"
  BY PolicyIs DEF EnableRls
LEMMA RlsKeeps == \A s, tables : \A f \in s : f \in EnableRls(s, tables)
  BY DEF EnableRls

LEMMA ChunkPartitionNames == \A w : ChunkPartition(w) \notin RowTables
  <1> TAKE w
  <1>1. CASE w = 768
    BY <1>1, SMT DEF ChunkPartition, RowTables
  <1>2. CASE w # 768 /\ w = 1024
    BY <1>2, SMT DEF ChunkPartition, RowTables
  <1>3. CASE w # 768 /\ w # 1024 /\ w = 1536
    BY <1>3, SMT DEF ChunkPartition, RowTables
  <1>4. CASE w # 768 /\ w # 1024 /\ w # 1536
    BY <1>4, SMT DEF ChunkPartition, RowTables
  <1> QED BY <1>1, <1>2, <1>3, <1>4
LEMMA MemoryPartitionNames == \A w : MemoryPartition(w) \notin RowTables
  <1> TAKE w
  <1>1. CASE w = 768
    BY <1>1, SMT DEF MemoryPartition, RowTables
  <1>2. CASE w # 768 /\ w = 1024
    BY <1>2, SMT DEF MemoryPartition, RowTables
  <1>3. CASE w # 768 /\ w # 1024 /\ w = 1536
    BY <1>3, SMT DEF MemoryPartition, RowTables
  <1>4. CASE w # 768 /\ w # 1024 /\ w # 1536
    BY <1>4, SMT DEF MemoryPartition, RowTables
  <1> QED BY <1>1, <1>2, <1>3, <1>4

\* The drops of 0002, one by one.
LEMMA Order ==
  /\ Len(DropOrder) = 7
  /\ DropOrder[1] = "message" /\ DropOrder[2] = "conversation" /\ DropOrder[3] = "document_chunk"
  /\ DropOrder[4] = "document" /\ DropOrder[5] = "chatbot" /\ DropOrder[6] = "app_user"
  /\ DropOrder[7] = "organization"
  BY DEF DropOrder

LEMMA LaterIs ==
  ASSUME NEW n \in Int, NEW t
  PROVE  t \in LaterTables(n) <=>
           \/ 5 <= n /\ t = "invitation"
           \/ 7 <= n /\ t = "chatbot_ai_config"
           \/ 9 <= n /\ t = "ticket"
           \/ 12 <= n /\ t = "memory_entry"
           \/ 14 <= n /\ t = "chatbot_usage_period"
  <1> DEFINE L == {<<5, "invitation">>, <<7, "chatbot_ai_config">>, <<9, "ticket">>,
                   <<12, "memory_entry">>, <<14, "chatbot_usage_period">>}
  <1>1. t \in LaterTables(n) <=> \E q \in L : q[1] <= n /\ t = q[2]
    BY DEF LaterTables
  <1>2. \A q \in L : \/ q[1] = 5 /\ q[2] = "invitation"
                     \/ q[1] = 7 /\ q[2] = "chatbot_ai_config"
                     \/ q[1] = 9 /\ q[2] = "ticket"
                     \/ q[1] = 12 /\ q[2] = "memory_entry"
                     \/ q[1] = 14 /\ q[2] = "chatbot_usage_period"
    OBVIOUS
  <1>3. /\ <<5, "invitation">> \in L /\ <<7, "chatbot_ai_config">> \in L /\ <<9, "ticket">> \in L
        /\ <<12, "memory_entry">> \in L /\ <<14, "chatbot_usage_period">> \in L
    OBVIOUS
  <1> HIDE DEF L
  <1>4. ASSUME t \in LaterTables(n)
        PROVE  \/ 5 <= n /\ t = "invitation"
               \/ 7 <= n /\ t = "chatbot_ai_config"
               \/ 9 <= n /\ t = "ticket"
               \/ 12 <= n /\ t = "memory_entry"
               \/ 14 <= n /\ t = "chatbot_usage_period"
    <2>1. PICK q \in L : q[1] <= n /\ t = q[2]
      BY <1>1, <1>4
    <2> QED BY <1>2, <2>1
  <1>5. ASSUME NEW k, NEW u, <<k, u>> \in L, k <= n, t = u PROVE t \in LaterTables(n)
    <2>1. <<k, u>>[1] = k /\ <<k, u>>[2] = u
      OBVIOUS
    <2> QED BY <1>1, <1>5, <2>1
  <1> QED BY <1>3, <1>4, <1>5

LEMMA TableIs ==
  ASSUME NEW s, NEW t
  PROVE  t \in Tables(s) <=> \E f \in s : f[1] = "table" /\ f[2] = t
  BY DEF Tables, Kind

LEMMA AcceptsIs ==
  ASSUME NEW s, NEW r
  PROVE  Accepts(s, r) <=>
           /\ r.table \in Tables(s)
           /\ \A f \in s : f[1] = "width" /\ f[2] = r.table => f[4] = r.value
           /\ \A f \in s : f[1] = "words" /\ f[2] = r.table /\ f[3] \in {"file_type", "role"}
                             => r.value \in f[4]
  BY DEF Accepts

\* A revision that adds what is safe and takes away what may go.
LEMMA Moves ==
  ASSUME NEW s, NEW u, NEW n \in 0..15, NEW m \in 0..15, SchemaInv(s, n),
         n < 2 <=> m < 2, n < 4 <=> m < 4, n < 9 <=> m < 9,
         \A f \in u : f \in s \/ Safe(f, m),
         \A f \in s : f \in u \/ MayGo(f),
         \A f \in u : f \in s /\ f[1] = "reference" /\ f[2] \in LaterTables(n) => f[2] \in LaterTables(m)
  PROVE  SchemaInv(u, m) /\ Keeps(s, u, RowTables)
  <1>1. \A t \in RowTables : t \in Tables(s) <=> t \in Tables(u)
    <2> TAKE t \in RowTables
    <2>1. ASSUME NEW f \in s, f[1] = "table", f[2] = t PROVE f \in u
      BY <2>1 DEF MayGo
    <2>2. ASSUME NEW f \in u, f[1] = "table", f[2] = t PROVE f \in s
      BY <2>2 DEF Safe
    <2> QED BY <2>1, <2>2, TableIs
  <1>0. FileTypes(m) = FileTypes(n) /\ Roles(m) = Roles(n)
    BY DEF FileTypes, Roles
  <1>2. \A f \in u :
          /\ f[1] = "partition" => f[2] \notin RowTables
          /\ f[1] = "reference" => f[2] \in LaterTables(m) \/ DroppedBefore(f[2], f[4])
          /\ f[1] = "width" => f[2] \notin {"document", "message"}
          /\ f[1] = "words" /\ f[2] \in {"document", "message"} /\ f[3] \in {"file_type", "role"} =>
                \/ f \in OneOf("document", "file_type", FileTypes(m))
                \/ f \in OneOf("message", "role", Roles(m))
    <2> TAKE f \in u
    <2>1. CASE f \in s
      BY <1>0, <2>1 DEF SchemaInv
    <2>2. CASE Safe(f, m)
      BY <2>2 DEF Safe, RowTables
    <2> QED BY <2>1, <2>2
  <1>3. ASSUME n >= 2
        PROVE  /\ RowTables \subseteq Tables(u)
               /\ OneOf("document", "file_type", FileTypes(m)) \subseteq u
               /\ OneOf("message", "role", Roles(m)) \subseteq u
    <2>2. \A f \in s : f[1] = "words" /\ f[3] \in {"file_type", "role"} /\ f[2] \in RowTables => f \in u
      BY DEF MayGo
    <2>3. \A words : \A f \in OneOf("document", "file_type", words) \cup OneOf("message", "role", words) :
             f[1] = "words" /\ f[3] \in {"file_type", "role"} /\ f[2] \in RowTables
      BY OneOfIs DEF RowTables
    <2>4. /\ RowTables \subseteq Tables(s)
          /\ OneOf("document", "file_type", FileTypes(n)) \subseteq s
          /\ OneOf("message", "role", Roles(n)) \subseteq s
      BY <1>3 DEF SchemaInv
    <2>5. RowTables \subseteq Tables(u)
      BY <1>1, <2>4
    <2> QED BY <1>0, <2>2, <2>3, <2>4, <2>5
  <1>4. m < 2 => Tables(u) \cap RowTables = {}
    BY <1>1 DEF SchemaInv
  <1>5. m >= 2 <=> n >= 2
    OBVIOUS
  <1>6. SchemaInv(u, m)
    BY <1>2, <1>3, <1>4, <1>5 DEF SchemaInv
  <1>7. ASSUME NEW r, r.table \in RowTables, Accepts(s, r) PROVE Accepts(u, r)
    <2>1. r.table \in Tables(u)
      BY <1>1, <1>7, AcceptsIs
    <2>2. ASSUME NEW f \in u, f[1] = "width" \/ f[1] = "words", f[2] = r.table PROVE f \in s
      BY <1>7, <2>2 DEF Safe
    <2> QED BY <1>7, <2>1, <2>2, AcceptsIs
  <1> QED BY <1>6, <1>7 DEF Keeps

\* What is safe.
LEMMA SafeOfLater ==
  ASSUME NEW f, NEW n, f[2] \in LaterTables(n), f[2] \notin RowTables
  PROVE  Safe(f, n)
  BY DEF Safe
LEMMA SafeOfKind ==
  ASSUME NEW f, NEW n,
         f[1] \in {"column", "default", "unique", "primary", "range", "policy", "hnsw", "extension"}
  PROVE  Safe(f, n)
  BY DEF Safe
LEMMA LaterGrows ==
  ASSUME NEW n \in Int, NEW m \in Int, n <= m, NEW t \in LaterTables(n)
  PROVE  t \in LaterTables(m)
  BY LaterIs

\* A revision that only adds.
LEMMA Adds ==
  ASSUME NEW s, NEW u, NEW k \in 0..15, NEW n \in 0..15, k <= n, SchemaInv(s, k),
         k < 2 <=> n < 2, k < 4 <=> n < 4, k < 9 <=> n < 9,
         \A f \in u : f \in s \/ Safe(f, n),
         \A f \in s : f \in u \/ MayGo(f)
  PROVE  SchemaInv(u, n) /\ Keeps(s, u, RowTables)
  <1>1. k \in Int /\ n \in Int
    OBVIOUS
  <1>2. \A t : t \in LaterTables(k) => t \in LaterTables(n)
    BY <1>1, LaterGrows
  <1> QED BY <1>2, Moves

LEMMA Up1Moves ==
  ASSUME NEW s, SchemaInv(s, 0)
  PROVE SchemaInv(Up1(s), 1) /\ Keeps(s, Up1(s), RowTables)
  <1>1. \A f \in Up1(s) : f \in s \/ Safe(f, 1)
    <2> TAKE f \in Up1(s)
    <2>1. CASE f \in Extensions
      <3>1. f[1] = "extension"
        BY <2>1 DEF Extensions
      <3> QED BY <3>1, SafeOfKind
    <2> QED BY <2>1 DEF Up1
  <1>2. \A f \in s : f \in Up1(s)
    BY DEF Up1
  <1> QED BY <1>1, <1>2, Adds

LEMMA Up3Moves ==
  ASSUME NEW s, SchemaInv(s, 2)
  PROVE SchemaInv(Up3(s), 3) /\ Keeps(s, Up3(s), RowTables)
  <1>1. \A f \in Up3(s) : f \in s \/ Safe(f, 3)
    <2> TAKE f \in Up3(s)
    <2>1. f \in s \/ f[1] = "policy" \/ f[1] = "hnsw"
      BY RlsIs, HnswIs DEF Up3
    <2> QED BY <2>1, SafeOfKind
  <1>2. \A f \in s : f \in Up3(s)
    BY DEF Up3, EnableRls
  <1> QED BY <1>1, <1>2, Adds

LEMMA Up5Moves ==
  ASSUME NEW s, SchemaInv(s, 4)
  PROVE SchemaInv(Up5(s), 5) /\ Keeps(s, Up5(s), RowTables)
  <1> DEFINE t == "invitation"
             P == {<<"invited_by", "app_user">>}
             key == {"org_id", "email"}
             live == "status = 'pending'"
             roles == {"owner", "admin", "member"}
             states == {"pending", "accepted", "revoked"}
             A == Pk(t) \cup Created(t) \cup Updated(t) \cup OrgId(t)
                    \cup Required(t, {"email", "role", "token_hash", "status", "expires_at"})
                    \cup Optional(t, {"invited_by", "accepted_at"})
                    \cup References(t, "SET NULL", P)
                    \cup Unique(t, {"token_hash"})
                    \cup UniqueWhere(t, key, live)
                    \cup OneOf(t, "role", roles)
                    \cup OneOf(t, "status", states)
             S == s \cup A
             T == {t}
  <1>1. Up5(s) = EnableRls(S, T)
    BY DEF Up5
  <1>2. t \in LaterTables(5) /\ t \notin RowTables
    BY LaterIs DEF RowTables
  <1> HIDE DEF P, t, key, live, roles, states
  <1>3. \A f \in A : f[2] = t
    BY Located
  <1>4. (\A f \in S : f \in s \/ f \in A) /\ (\A f \in s : f \in S)
    OBVIOUS
  <1> HIDE DEF S, T, A
  <1>5. \A f \in Up5(s) : f \in s \/ Safe(f, 5)
    BY <1>1, <1>2, <1>3, <1>4, RlsIs, SafeOfLater, SafeOfKind
  <1>6. \A f \in s : f \in Up5(s)
    BY <1>1, <1>4, RlsKeeps
  <1> QED BY <1>5, <1>6, Adds

LEMMA Up6Moves ==
  ASSUME NEW s, SchemaInv(s, 5)
  PROVE SchemaInv(Up6(s), 6) /\ Keeps(s, Up6(s), RowTables)
  <1> DEFINE P == {<<"theme_json", "{}">>}
             u == s \cup Required("chatbot", {"theme_json"}) \cup Defaults("chatbot", P)
  <1>3. Up6(s) = u
    BY DEF Up6
  <1> HIDE DEF P
  <1>1. \A f \in u : f \in s \/ Safe(f, 6)
    <2> TAKE f \in u
    <2>1. f \in s \/ f[1] = "column" \/ f[1] = "default"
      BY RequiredIs, DefaultsIs
    <2> QED BY <2>1, SafeOfKind
  <1>2. \A f \in s : f \in u
    OBVIOUS
  <1> HIDE DEF u
  <1> QED BY <1>1, <1>2, <1>3, Adds

LEMMA Up7Moves ==
  ASSUME NEW s, SchemaInv(s, 6)
  PROVE SchemaInv(Up7(s), 7) /\ Keeps(s, Up7(s), RowTables)
  <1> DEFINE t == "chatbot_ai_config"
             P == {<<"chat_config_json", "{}">>, <<"embedding_config_json", "{}">>}
             R == {<<"chatbot_id", "chatbot">>}
             A == Pk(t) \cup Created(t) \cup Updated(t) \cup OrgId(t)
                   \cup Required(t, {"chatbot_id", "chat_provider", "chat_model",
                                     "chat_config_json", "embedding_provider",
                                     "embedding_model", "embedding_config_json"})
                   \cup Optional(t, {"chat_credentials_encrypted",
                                     "embedding_credentials_encrypted", "embedding_dimension"})
                   \cup Defaults(t, P)
                   \cup References(t, "CASCADE", R)
                   \cup Unique(t, {"chatbot_id"})
                   \cup OneOf(t, "chat_provider", {"azure", "bedrock", "anthropic", "ollama"})
                   \cup OneOf(t, "embedding_provider", {"azure", "bedrock", "ollama"})
             S == s \cup A
             T == {t}
  <1>1. Up7(s) = EnableRls(S, T)
    BY DEF Up7
  <1>2. t \in LaterTables(7) /\ t \notin RowTables
    BY LaterIs DEF RowTables
  <1> HIDE DEF P, R, t
  <1>3. \A f \in A : f[2] = t
    BY Located
  <1>4. (\A f \in S : f \in s \/ f \in A) /\ (\A f \in s : f \in S)
    OBVIOUS
  <1> HIDE DEF S, T, A
  <1>5. \A f \in Up7(s) : f \in s \/ Safe(f, 7)
    BY <1>1, <1>2, <1>3, <1>4, RlsIs, SafeOfLater, SafeOfKind
  <1>6. \A f \in s : f \in Up7(s)
    BY <1>1, <1>4, RlsKeeps
  <1> QED BY <1>5, <1>6, Adds

LEMMA Up10Moves ==
  ASSUME NEW s, SchemaInv(s, 9)
  PROVE SchemaInv(Up10(s), 10) /\ Keeps(s, Up10(s), RowTables)
  <1>1. \A f \in Up10(s) : f \in s \/ Safe(f, 10)
    <2> TAKE f \in Up10(s)
    <2>1. f \in s \/ f[1] = "column" \/ f[1] = "range"
      BY OptionalIs, BetweenIs DEF Up10
    <2> QED BY <2>1, SafeOfKind
  <1>2. \A f \in s : f \in Up10(s)
    BY DEF Up10
  <1> QED BY <1>1, <1>2, Adds

LEMMA Up11Moves ==
  ASSUME NEW s, SchemaInv(s, 10)
  PROVE SchemaInv(Up11(s), 11) /\ Keeps(s, Up11(s), RowTables)
  <1> DEFINE P == {<<"privacy_url", "">>, <<"terms_url", "">>}
             u == s \cup Required("chatbot", {"privacy_url", "terms_url"}) \cup Defaults("chatbot", P)
  <1>3. Up11(s) = u
    BY DEF Up11
  <1> HIDE DEF P
  <1>1. \A f \in u : f \in s \/ Safe(f, 11)
    <2> TAKE f \in u
    <2>1. f \in s \/ f[1] = "column" \/ f[1] = "default"
      BY RequiredIs, DefaultsIs
    <2> QED BY <2>1, SafeOfKind
  <1>2. \A f \in s : f \in u
    OBVIOUS
  <1> HIDE DEF u
  <1> QED BY <1>1, <1>2, <1>3, Adds

\* The tables of the partitioned notes, whose names the revisions do not compare.
LEMMA NotesAre ==
  \A f \in PartitionedMemory :
     \/ f[2] = "memory_entry"
     \/ f[1] \in {"partition", "hnsw"} /\ \E w : f[2] = MemoryPartition(w)
  <1> DEFINE t == "memory_entry"
             P == {<<"id", "uuid">>, <<"subject_type", "visitor">>,
                   <<"memory_type", "fact">>, <<"last_referenced_at", "now">>}
             Q == {<<"chatbot_id", "chatbot">>}
             R == {<<"source_conversation_id", "conversation">>}
             key == {"id", "embedding_dim"}
             required == {"id", "chatbot_id", "subject_id", "subject_type", "content",
                          "memory_type", "embedding_dim", "embedding", "last_referenced_at"}
             A == Table(t, key) \cup Created(t) \cup OrgId(t) \cup Required(t, required)
                    \cup Optional(t, {"source_conversation_id"}) \cup Defaults(t, P)
                    \cup References(t, "CASCADE", Q) \cup References(t, "SET NULL", R)
                    \cup OneOf(t, "subject_type", {"visitor", "staff_user"})
                    \cup OneOf(t, "memory_type", {"preference", "fact", "context"})
             B == UNION {Partition(t, MemoryPartition(w), w) : w \in Dimensions \cup {Default}}
             C == UNION {Hnsw(MemoryPartition(w)) : w \in Dimensions}
  <1>1. PartitionedMemory = A \cup B \cup C
    BY DEF PartitionedMemory
  <1>2. \A f \in B : f[1] = "partition" /\ \E w : f[2] = MemoryPartition(w)
    BY PartitionIs
  <1>3. \A f \in C : f[1] = "hnsw" /\ \E w : f[2] = MemoryPartition(w)
    BY HnswIs
  <1> HIDE DEF P, Q, R, key, required, t, B, C
  <1>4. \A f \in A : f[2] = t
    BY Located
  <1> HIDE DEF A
  <1> QED BY <1>1, <1>2, <1>3, <1>4 DEF t

LEMMA Up12Moves ==
  ASSUME NEW s, SchemaInv(s, 11) PROVE SchemaInv(Up12(s), 12) /\ Keeps(s, Up12(s), RowTables)
  <1> DEFINE S == s \cup PartitionedMemory
             R == EnableRls(S, MemoryTables)
             c == "nuvrag_mem_retention_days"
             P == {RetentionDefault}
             B == Optional("chatbot", {c}) \cup Defaults("chatbot", P) \cup Between("chatbot", c, 1, 3650)
  <1>1. Up12(s) = R \cup B
    BY DEF Up12
  <1>2. (\A f \in S : f \in s \/ f \in PartitionedMemory) /\ (\A f \in s : f \in S)
    OBVIOUS
  <1> HIDE DEF S, P
  <1>3. \A f \in B : f[1] \in {"column", "default", "range"}
    BY OptionalIs, DefaultsIs, BetweenIs
  <1>4. \A f \in R : f \in S \/ f[1] = "policy"
    BY RlsIs
  <1>5. \A f \in S : f \in R
    BY RlsKeeps
  <1> HIDE DEF R, B
  <1>6. \A f \in PartitionedMemory : Safe(f, 12)
    <2>1. "memory_entry" \in LaterTables(12) /\ "memory_entry" \notin RowTables
      BY LaterIs DEF RowTables
    <2> QED BY <2>1, NotesAre, MemoryPartitionNames DEF Safe
  <1>7. \A f \in Up12(s) : f \in s \/ Safe(f, 12)
    BY <1>1, <1>2, <1>3, <1>4, <1>6, SafeOfKind
  <1>8. \A f \in s : f \in Up12(s)
    BY <1>1, <1>2, <1>5
  <1> QED BY <1>7, <1>8, Adds

LEMMA Up13Moves ==
  ASSUME NEW s, SchemaInv(s, 12) PROVE SchemaInv(Up13(s), 13) /\ Keeps(s, Up13(s), RowTables)
  <1> DEFINE P == {RetentionDefault}
             D == Defaults("chatbot", P)
  <1>1. Up13(s) = s \ D
    BY DEF Up13
  <1> HIDE DEF P
  <1>2. \A f \in D : MayGo(f)
    BY DefaultsIs DEF MayGo
  <1> HIDE DEF D
  <1>3. (\A f \in Up13(s) : f \in s) /\ \A f \in s : f \in Up13(s) \/ MayGo(f)
    BY <1>1, <1>2
  <1> QED BY <1>3, Adds

LEMMA Up14Moves ==
  ASSUME NEW s, SchemaInv(s, 13) PROVE SchemaInv(Up14(s), 14) /\ Keeps(s, Up14(s), RowTables)
  <1> DEFINE t == "chatbot_usage_period"
             O == {<<"ingestion_units_used", "0">>, <<"retrieval_calls_used", "0">>}
             P == {<<"chatbot_id", "chatbot">>}
             Q == {<<"usage_cap_message", "the default message">>}
             key == {"chatbot_id", "period_start"}
             required == {"chatbot_id", "period_start", "ingestion_units_used",
                          "retrieval_calls_used"}
             A == Table(t, key) \cup Created(t) \cup Updated(t) \cup OrgId(t)
                    \cup Required(t, required) \cup Defaults(t, O) \cup References(t, "CASCADE", P)
                    \cup Between(t, "ingestion_units_used", 0, "any")
                    \cup Between(t, "retrieval_calls_used", 0, "any")
             S == s \cup A
             T == {t}
             U == UNION {Between("chatbot", c, 1, CapMax) : c \in CapColumns}
             M == {"usage_cap_message"}
             V == EnableRls(S, T)
  <1>1. Up14(s) = V \cup Optional("chatbot", CapColumns) \cup U
                    \cup Required("chatbot", M) \cup Defaults("chatbot", Q)
    BY DEF Up14
  <1>2. t \in LaterTables(14) /\ t \notin RowTables
    BY LaterIs DEF RowTables
  <1>3. \A f \in U : f[1] = "range"
    BY BetweenIs
  <1> HIDE DEF O, P, Q, key, required, t, U, M
  <1>4. \A f \in A : f[2] = t
    BY Located
  <1>5. (\A f \in S : f \in s \/ f \in A) /\ (\A f \in s : f \in S)
    OBVIOUS
  <1> HIDE DEF S, T, A
  <1>9. (\A f \in V : f \in S \/ f[1] = "policy") /\ (\A f \in S : f \in V)
    BY RlsIs, RlsKeeps
  <1> HIDE DEF V
  <1>6. \A f \in Up14(s) : f \in V \/ f[1] \in {"column", "default", "range"}
    BY <1>1, <1>3, OptionalIs, DefaultsIs, RequiredIs
  <1>7. \A f \in Up14(s) : f \in s \/ Safe(f, 14)
    BY <1>2, <1>4, <1>5, <1>6, <1>9, SafeOfLater, SafeOfKind
  <1>8. \A f \in s : f \in Up14(s)
    BY <1>1, <1>5, <1>9
  <1> QED BY <1>7, <1>8, Adds

LEMMA Up15Moves ==
  ASSUME NEW s, SchemaInv(s, 14) PROVE SchemaInv(Up15(s), 15) /\ Keeps(s, Up15(s), RowTables)
  <1> DEFINE N == ThresholdColumns \cup {TimestampColumn}
             U == UNION {Between("chatbot", c, 0, 1) : c \in ThresholdColumns}
  <1>1. Up15(s) = s \cup Optional("chatbot", N) \cup U
    BY DEF Up15
  <1>2. \A f \in U : f[1] = "range"
    BY BetweenIs
  <1> HIDE DEF N, U
  <1>3. \A f \in Up15(s) : f \in s \/ Safe(f, 15)
    BY <1>1, <1>2, OptionalIs, SafeOfKind
  <1>4. \A f \in s : f \in Up15(s)
    BY <1>1
  <1> QED BY <1>3, <1>4, Adds

-----------------------------------------------------------------------------
(***************************************************************************)
(* What each statement takes away.                                         *)
(***************************************************************************)
LEMMA DropTableIs ==
  \A s, t : /\ \A f \in DropTable(s, t) : f \in s /\ f[2] # t
            /\ \A f \in s : \/ f \in DropTable(s, t)
                            \/ f[2] = t
                            \/ \E g \in s : g[1] = "partition" /\ g[2] = f[2]
  <1> TAKE s, t
  <1>1. \A p : p \in PartitionsOf(s, t) => \E g \in s : g[1] = "partition" /\ g[2] = p
    BY DEF PartitionsOf, Kind
  <1> QED BY <1>1 DEF DropTable
LEMMA DropColumnIs ==
  \A s, t, c : /\ \A f \in DropColumn(s, t, c) : f \in s
               /\ \A f \in s : f \in DropColumn(s, t, c) \/ f[2] = t
  BY DEF DropColumn, Mentions
LEMMA DropCheckIs ==
  \A s, t, c : /\ \A f \in DropCheck(s, t, c) : f \in s
               /\ \A f \in s : f \in DropCheck(s, t, c) \/ f[2] = t
  BY DEF DropCheck
LEMMA DropPolicyIs ==
  \A s, t : /\ \A f \in DropPolicy(s, t) : f \in s
            /\ \A f \in s : f \in DropPolicy(s, t) \/ f[2] = t
  BY PolicyIs DEF DropPolicy

\* A partition is none of the tables with rows, so that what goes with it may go.
LEMMA MayGoWith ==
  ASSUME NEW s, NEW n, SchemaInv(s, n)
  PROVE  /\ \A f, g : g \in s /\ g[1] = "partition" /\ g[2] = f[2] => MayGo(f)
         /\ \A f : f[2] \notin RowTables => MayGo(f)
  BY DEF SchemaInv, MayGo

LEMMA Down1Moves ==
  ASSUME NEW s, SchemaInv(s, 1) PROVE SchemaInv(Down1(s), 0) /\ Keeps(s, Down1(s), RowTables)
  <1>1. \A t : t \in LaterTables(1) => t \in LaterTables(0)
    BY LaterIs
  <1>2. Down1(s) = s
    BY DEF Down1
  <1> QED BY <1>1, <1>2, Moves

LEMMA Down3Moves ==
  ASSUME NEW s, SchemaInv(s, 3) PROVE SchemaInv(Down3(s), 2) /\ Keeps(s, Down3(s), RowTables)
  <1> DEFINE U == UNION {Policy(t) : t \in TenantTables}
             H == Hnsw("document_chunk")
  <1>1. Down3(s) = (s \ U) \ H
    BY DEF Down3
  <1>2. \A f \in U : f[1] = "policy"
    BY PolicyIs
  <1>3. \A f \in H : f[1] = "hnsw"
    BY HnswIs
  <1> HIDE DEF U, H
  <1>4. (\A f \in Down3(s) : f \in s) /\ \A f \in s : f \in Down3(s) \/ MayGo(f)
    BY <1>1, <1>2, <1>3 DEF MayGo
  <1>5. \A t : t \in LaterTables(3) => t \in LaterTables(2)
    BY LaterIs
  <1> QED BY <1>4, <1>5, Moves

LEMMA Down5Moves ==
  ASSUME NEW s, SchemaInv(s, 5) PROVE SchemaInv(Down5(s), 4) /\ Keeps(s, Down5(s), RowTables)
  <1> DEFINE t == "invitation"
             p == DropPolicy(s, t)
  <1>1. Down5(s) = DropTable(p, t) /\ t \notin RowTables
    BY DEF Down5, RowTables
  <1>2. \A u : u \in LaterTables(5) /\ u # t => u \in LaterTables(4)
    BY LaterIs
  <1> HIDE DEF t
  <1>3. (\A f \in p : f \in s) /\ \A f \in s : f \in p \/ MayGo(f)
    BY <1>1, DropPolicyIs, MayGoWith
  <1> HIDE DEF p
  <1>4. (\A f \in Down5(s) : f \in s /\ f[2] # t) /\ \A f \in s : f \in Down5(s) \/ MayGo(f)
    BY <1>1, <1>3, DropTableIs, MayGoWith
  <1> QED BY <1>2, <1>4, Moves

LEMMA Down6Moves ==
  ASSUME NEW s, SchemaInv(s, 6) PROVE SchemaInv(Down6(s), 5) /\ Keeps(s, Down6(s), RowTables)
  <1>1. (\A f \in Down6(s) : f \in s) /\ \A f \in s : f \in Down6(s) \/ f[2] = "chatbot"
    BY DropColumnIs DEF Down6
  <1>2. (\A f \in Down6(s) : f \in s) /\ \A f \in s : f \in Down6(s) \/ MayGo(f)
    BY <1>1, MayGoWith DEF RowTables
  <1>3. \A t : t \in LaterTables(6) => t \in LaterTables(5)
    BY LaterIs
  <1> QED BY <1>2, <1>3, Moves

LEMMA Down7Moves ==
  ASSUME NEW s, SchemaInv(s, 7) PROVE SchemaInv(Down7(s), 6) /\ Keeps(s, Down7(s), RowTables)
  <1> DEFINE t == "chatbot_ai_config"
             p == DropPolicy(s, t)
  <1>1. Down7(s) = DropTable(p, t) /\ t \notin RowTables
    BY DEF Down7, RowTables
  <1>2. \A u : u \in LaterTables(7) /\ u # t => u \in LaterTables(6)
    BY LaterIs
  <1> HIDE DEF t
  <1>3. (\A f \in p : f \in s) /\ \A f \in s : f \in p \/ MayGo(f)
    BY <1>1, DropPolicyIs, MayGoWith
  <1> HIDE DEF p
  <1>4. (\A f \in Down7(s) : f \in s /\ f[2] # t) /\ \A f \in s : f \in Down7(s) \/ MayGo(f)
    BY <1>1, <1>3, DropTableIs, MayGoWith
  <1> QED BY <1>2, <1>4, Moves

LEMMA Down10Moves ==
  ASSUME NEW s, SchemaInv(s, 10) PROVE SchemaInv(Down10(s), 9) /\ Keeps(s, Down10(s), RowTables)
  <1>1. (\A f \in Down10(s) : f \in s) /\ \A f \in s : f \in Down10(s) \/ f[2] = "chatbot"
    BY DropColumnIs, DropCheckIs DEF Down10
  <1>2. (\A f \in Down10(s) : f \in s) /\ \A f \in s : f \in Down10(s) \/ MayGo(f)
    BY <1>1, MayGoWith DEF RowTables
  <1>3. \A t : t \in LaterTables(10) => t \in LaterTables(9)
    BY LaterIs
  <1> QED BY <1>2, <1>3, Moves

LEMMA Down11Moves ==
  ASSUME NEW s, SchemaInv(s, 11) PROVE SchemaInv(Down11(s), 10) /\ Keeps(s, Down11(s), RowTables)
  <1>1. (\A f \in Down11(s) : f \in s) /\ \A f \in s : f \in Down11(s) \/ f[2] = "chatbot"
    BY DropColumnIs DEF Down11
  <1>2. (\A f \in Down11(s) : f \in s) /\ \A f \in s : f \in Down11(s) \/ MayGo(f)
    BY <1>1, MayGoWith DEF RowTables
  <1>3. \A t : t \in LaterTables(11) => t \in LaterTables(10)
    BY LaterIs
  <1> QED BY <1>2, <1>3, Moves

LEMMA Down12Moves ==
  ASSUME NEW s, SchemaInv(s, 12) PROVE SchemaInv(Down12(s), 11) /\ Keeps(s, Down12(s), RowTables)
  <1> DEFINE t == "memory_entry"
             c == "nuvrag_mem_retention_days"
             q == DropCheck(s, "chatbot", c)
             p == DropColumn(q, "chatbot", c)
  <1>1. Down12(s) = DropTable(p, t) /\ t \notin RowTables /\ "chatbot" \notin RowTables
    BY DEF Down12, RowTables
  <1>2. \A u : u \in LaterTables(12) /\ u # t => u \in LaterTables(11)
    BY LaterIs
  <1> HIDE DEF t, c
  <1>3. (\A f \in p : f \in s) /\ \A f \in s : f \in p \/ MayGo(f)
    BY <1>1, DropColumnIs, DropCheckIs, MayGoWith
  <1> HIDE DEF p, q
  <1>4. (\A f \in Down12(s) : f \in s /\ f[2] # t) /\ \A f \in s : f \in Down12(s) \/ MayGo(f)
    BY <1>1, <1>3, DropTableIs, MayGoWith
  <1> QED BY <1>2, <1>4, Moves

LEMMA Down13Moves ==
  ASSUME NEW s, SchemaInv(s, 13) PROVE SchemaInv(Down13(s), 12) /\ Keeps(s, Down13(s), RowTables)
  <1> DEFINE P == {RetentionDefault}
  <1>1. Down13(s) = s \cup Defaults("chatbot", P)
    BY DEF Down13
  <1> HIDE DEF P
  <1>2. (\A f \in Down13(s) : f \in s \/ Safe(f, 12)) /\ \A f \in s : f \in Down13(s)
    BY <1>1, DefaultsIs, SafeOfKind
  <1>3. \A t : t \in LaterTables(13) => t \in LaterTables(12)
    BY LaterIs
  <1> QED BY <1>2, <1>3, Moves

LEMMA Down14Moves ==
  ASSUME NEW s, SchemaInv(s, 14) PROVE SchemaInv(Down14(s), 13) /\ Keeps(s, Down14(s), RowTables)
  <1> DEFINE t == "chatbot_usage_period"
             p == DropTable(s, t)
  <1>1. (\A f \in Down14(s) : f \in p) /\ \A f \in p : f \in Down14(s) \/ f[2] = "chatbot"
    BY DEF Down14, Mentions
  <1>2. t \notin RowTables /\ "chatbot" \notin RowTables
    BY DEF RowTables
  <1>3. \A u : u \in LaterTables(14) /\ u # t => u \in LaterTables(13)
    BY LaterIs
  <1> HIDE DEF t
  <1>4. (\A f \in p : f \in s /\ f[2] # t) /\ \A f \in s : f \in p \/ MayGo(f)
    BY <1>2, DropTableIs, MayGoWith
  <1> HIDE DEF p
  <1>5. (\A f \in Down14(s) : f \in s /\ f[2] # t) /\ \A f \in s : f \in Down14(s) \/ MayGo(f)
    BY <1>1, <1>2, <1>4, MayGoWith
  <1> QED BY <1>3, <1>5, Moves

LEMMA Down15Moves ==
  ASSUME NEW s, SchemaInv(s, 15) PROVE SchemaInv(Down15(s), 14) /\ Keeps(s, Down15(s), RowTables)
  <1>1. (\A f \in Down15(s) : f \in s) /\ \A f \in s : f \in Down15(s) \/ f[2] = "chatbot"
    BY DEF Down15, Mentions
  <1>2. (\A f \in Down15(s) : f \in s) /\ \A f \in s : f \in Down15(s) \/ MayGo(f)
    BY <1>1, MayGoWith DEF RowTables
  <1>3. \A t : t \in LaterTables(15) => t \in LaterTables(14)
    BY LaterIs
  <1> QED BY <1>2, <1>3, Moves

-----------------------------------------------------------------------------
(***************************************************************************)
(* The revisions that touch rows.  Each is shown to leave the schema of    *)
(* its number, and what the rewritten rows must be.                        *)
(***************************************************************************)

LEMMA ListFactIs ==
  \A t, n : /\ ListFact(t, n)[1] = "words" /\ ListFact(t, n)[2] = t
            /\ ListFact(t, n)[3] = Listed(t) /\ Listed(t) \in {"file_type", "role"}
            /\ ListFact(t, n)[4] = WordsOf(t, n)
  BY DEF ListFact, Listed

\* What the invariant of a schema says of the two lists.
LEMMA SchemaWords ==
  ASSUME NEW s, NEW n, NEW t \in {"document", "message"}, SchemaInv(s, n)
  PROVE  /\ n >= 2 => ListFact(t, n) \in s
         /\ \A f \in s : f[1] = "words" /\ f[2] = t /\ f[3] \in {"file_type", "role"} =>
               f = ListFact(t, n)
         /\ \A f \in s : f[1] = "width" => f[2] # t
  <1>1. n >= 2 => ListFact(t, n) \in s
    <2>1. CASE t = "document"
      BY <2>1 DEF SchemaInv, OneOf, ListFact, Listed, WordsOf
    <2>2. CASE t = "message"
      BY <2>2 DEF SchemaInv, OneOf, ListFact, Listed, WordsOf
    <2> QED BY <2>1, <2>2
  <1>2. ASSUME NEW f \in s, f[1] = "words", f[2] = t, f[3] \in {"file_type", "role"}
        PROVE  f = ListFact(t, n)
    <2>1. f \in OneOf("document", "file_type", FileTypes(n)) \/ f \in OneOf("message", "role", Roles(n))
      BY <1>2 DEF SchemaInv
    <2>2. CASE f \in OneOf("document", "file_type", FileTypes(n))
      BY <1>2, <2>2 DEF OneOf, ListFact, Listed, WordsOf
    <2>3. CASE f \in OneOf("message", "role", Roles(n))
      BY <1>2, <2>3 DEF OneOf, ListFact, Listed, WordsOf
    <2> QED BY <2>1, <2>2, <2>3
  <1>3. \A f \in s : f[1] = "width" => f[2] # t
    BY DEF SchemaInv
  <1> QED BY <1>1, <1>2, <1>3

\* Conversely.
LEMMA SchemaFrom ==
  ASSUME NEW s, NEW n \in 2..15,
         RowTables \subseteq Tables(s),
         \A t \in {"document", "message"} : ListFact(t, n) \in s,
         \A t \in {"document", "message"} : \A f \in s :
            f[1] = "words" /\ f[2] = t /\ f[3] \in {"file_type", "role"} =>
              f = ListFact(t, n),
         \A t \in {"document", "message"} : \A f \in s : f[1] = "width" => f[2] # t,
         \A f \in s : f[1] = "partition" => f[2] \notin RowTables,
         \A f \in s : f[1] = "reference" => f[2] \in LaterTables(n) \/ DroppedBefore(f[2], f[4])
  PROVE  SchemaInv(s, n)
  <1> DEFINE A == OneOf("document", "file_type", FileTypes(n))
             B == OneOf("message", "role", Roles(n))
             g(t) == ListFact(t, n)
  <1>1. A = {g("document")} /\ B = {g("message")}
    BY DEF OneOf, ListFact, Listed, WordsOf
  <1>2. \A t \in {"document", "message"} : g(t) \in s
    OBVIOUS
  <1>3. \A f \in s :
          f[1] = "words" /\ f[2] \in {"document", "message"} /\ f[3] \in {"file_type", "role"} =>
             f = g("document") \/ f = g("message")
    <2> TAKE f \in s
    <2>1. \A t \in {"document", "message"} :
             f[1] = "words" /\ f[2] = t /\ f[3] \in {"file_type", "role"} => f = g(t)
      OBVIOUS
    <2> HIDE DEF g
    <2> QED BY <2>1
  <1> HIDE DEF g
  <1>4. A \subseteq s /\ B \subseteq s
    BY <1>1, <1>2
  <1>5. \A f \in s :
          f[1] = "words" /\ f[2] \in {"document", "message"} /\ f[3] \in {"file_type", "role"} =>
             f \in A \/ f \in B
    BY <1>1, <1>3
  <1>6. \A f \in s : f[1] = "width" => f[2] \notin {"document", "message"}
    OBVIOUS
  <1>7. ~(n < 2)
    OBVIOUS
  <1>8. n >= 2 => /\ RowTables \subseteq Tables(s) /\ A \subseteq s /\ B \subseteq s
    BY <1>4
  <1>9. n < 2 => Tables(s) \cap RowTables = {}
    BY <1>7
  <1>10. \A f \in s :
           /\ f[1] = "partition" => f[2] \notin RowTables
           /\ f[1] = "reference" => f[2] \in LaterTables(n) \/ DroppedBefore(f[2], f[4])
           /\ f[1] = "width" => f[2] \notin {"document", "message"}
           /\ f[1] = "words" /\ f[2] \in {"document", "message"} /\ f[3] \in {"file_type", "role"} =>
                 \/ f \in OneOf("document", "file_type", FileTypes(n))
                 \/ f \in OneOf("message", "role", Roles(n))
    <2> HIDE DEF A, B
    <2> QED BY <1>5, <1>6 DEF A, B
  <1> QED BY <1>8, <1>9, <1>10 DEF SchemaInv

\* A row whose word is in the list is accepted, and no other.
LEMMA ListAccepts ==
  ASSUME NEW s, NEW n \in 2..15, SchemaInv(s, n), NEW t \in {"document", "message"},
         NEW r, r.table = t
  PROVE  Accepts(s, r) <=> r.value \in WordsOf(t, n)
  <1> DEFINE g == ListFact(t, n)
  <1>1. g \in s /\ \A f \in s : f[1] = "width" => f[2] # t
    BY SchemaWords
  <1>4. \A f \in s : f[1] = "words" /\ f[2] = t /\ f[3] \in {"file_type", "role"} => f = g
    BY SchemaWords
  <1>2. g[1] = "words" /\ g[2] = t /\ g[3] \in {"file_type", "role"} /\ g[4] = WordsOf(t, n)
    BY ListFactIs
  <1>3. t \in Tables(s)
    BY DEF SchemaInv, RowTables
  <1> HIDE DEF g
  <1> QED BY <1>1, <1>2, <1>3, <1>4, AcceptsIs

\* Swapping a list changes what its own table accepts and nothing else.
LEMMA Swaps ==
  ASSUME NEW s, NEW u, NEW n \in 2..15, NEW m \in 2..15, SchemaInv(s, n),
         NEW t \in {"document", "message"},
         WordsOf(t, n) # WordsOf(t, m),
         \A o \in {"document", "message"} : o # t => WordsOf(o, n) = WordsOf(o, m),
         SwapsList(s, u, n, m, t)
  PROVE  /\ SchemaInv(u, m)
         /\ Keeps(s, u, {"document_chunk"})
         /\ t \in Exclusive(s, u)
  <1> DEFINE g(o) == ListFact(o, m)
             h(o) == ListFact(o, n)
             D == {"document", "message"}
  <1>1. \A o \in D : h(o) \in s
    BY SchemaWords
  <1>2. \A o \in D : \A f \in s : f[1] = "words" /\ f[2] = o /\ f[3] \in {"file_type", "role"} => f = h(o)
    BY SchemaWords
  <1>3. \A o \in D : \A f \in s : f[1] = "width" => f[2] # o
    BY SchemaWords
  <1>4. \A o \in D : g(o)[1] = "words" /\ g(o)[2] = o /\ g(o)[3] = Listed(o)
                       /\ h(o)[1] = "words" /\ h(o)[2] = o /\ h(o)[3] = Listed(o)
                       /\ Listed(o) \in {"file_type", "role"}
                       /\ h(o)[4] = WordsOf(o, n) /\ g(o)[4] = WordsOf(o, m)
    BY ListFactIs
  <1>5. \A o \in D : o # t => g(o) = h(o)
    BY DEF ListFact
  <1>6. \A f \in u : \/ f = g(t)
                     \/ f \in s /\ ~(f[1] = "words" /\ f[2] = t /\ f[3] = Listed(t))
                     \/ Safe(f, m)
    BY DEF SwapsList
  <1>7. g(t) \in u
    BY DEF SwapsList
  <1>0. /\ \A f \in s : f \in u \/ MayGo(f) \/ (f[1] = "words" /\ f[2] = t /\ f[3] = Listed(t))
        /\ \A f \in u : f \in s /\ f[1] = "reference" /\ f[2] \in LaterTables(n) => f[2] \in LaterTables(m)
    BY DEF SwapsList
  <1>8. t \in D /\ D \subseteq RowTables
    BY DEF RowTables
  <1>9. h(t) # g(t)
    BY <1>4, <1>8
  <1> HIDE DEF g, h, D
  <1>10. RowTables \subseteq Tables(u)
    <2> SUFFICES ASSUME NEW v \in RowTables PROVE v \in Tables(u)
      OBVIOUS
    <2>1. v \in Tables(s)
      BY DEF SchemaInv
    <2>2. PICK f \in s : f[1] = "table" /\ f[2] = v
      BY <2>1, TableIs
    <2>3. f \in u
      BY <1>0, <2>2 DEF MayGo
    <2> QED BY <2>2, <2>3, TableIs
  <1>11. \A o \in D : g(o) \in u
    <2> SUFFICES ASSUME NEW o \in D, o # t PROVE g(o) \in u
      BY <1>7
    <2>1. g(o) \in s /\ ~MayGo(g(o)) /\ g(o)[2] # t
      BY <1>1, <1>4, <1>5, <1>8 DEF MayGo
    <2> QED BY <1>0, <2>1
  <1>12. \A o \in D : \A f \in u : f[1] = "words" /\ f[2] = o /\ f[3] \in {"file_type", "role"} => f = g(o)
    <2> SUFFICES ASSUME NEW o \in D, NEW f \in u, f[1] = "words", f[2] = o,
                        f[3] \in {"file_type", "role"}
                 PROVE  f = g(o)
      OBVIOUS
    <2>1. CASE f = g(t)
      BY <1>4, <1>8, <2>1
    <2>2. CASE f \in s /\ ~(f[1] = "words" /\ f[2] = t /\ f[3] = Listed(t))
      <3>1. f = h(o)
        BY <1>2, <2>2
      <3>2. o # t
        BY <1>4, <2>2, <3>1
      <3> QED BY <1>5, <3>1, <3>2
    <2>3. CASE Safe(f, m)
      BY <1>8, <2>3 DEF Safe
    <2> QED BY <1>6, <2>1, <2>2, <2>3
  <1>13. \A o \in D : \A f \in u : f[1] = "width" => f[2] # o
    BY <1>3, <1>4, <1>6, <1>8 DEF Safe
  <1>14. \A f \in u : f[1] = "partition" => f[2] \notin RowTables
    BY <1>4, <1>6, <1>8 DEF Safe, SchemaInv
  <1>15. \A f \in u : f[1] = "reference" => f[2] \in LaterTables(m) \/ DroppedBefore(f[2], f[4])
    BY <1>0, <1>4, <1>6, <1>8 DEF Safe, SchemaInv
  <1>16. SchemaInv(u, m)
    BY <1>10, <1>11, <1>12, <1>13, <1>14, <1>15, SchemaFrom DEF D, g
  <1>17. Keeps(s, u, {"document_chunk"})
    <2> SUFFICES ASSUME NEW r, r.table = "document_chunk", Accepts(s, r) PROVE Accepts(u, r)
      BY DEF Keeps
    <2>1. r.table \in Tables(u)
      BY <1>10 DEF RowTables
    <2>2. ASSUME NEW f \in u, f[1] = "width" \/ f[1] = "words", f[2] = r.table PROVE f \in s
      BY <1>4, <1>6, <1>8, <2>2 DEF Safe, D, RowTables
    <2> QED BY <2>1, <2>2, AcceptsIs
  <1>18. t \in Exclusive(s, u)
    <2>1. h(t) \in s \ u
      BY <1>1, <1>4, <1>8, <1>9, <1>12
    <2>2. h(t)[2] = t
      BY <1>4, <1>8
    <2> QED BY <2>1, <2>2 DEF Exclusive
  <1> QED BY <1>16, <1>17, <1>18

LEMMA SwapIs ==
  \A s, t, c, w :
    /\ <<"words", t, c, w>> \in DropCheck(s, t, c) \cup OneOf(t, c, w)
    /\ \A f \in DropCheck(s, t, c) \cup OneOf(t, c, w) :
          \/ f = <<"words", t, c, w>>
          \/ f \in s /\ ~(f[1] = "words" /\ f[2] = t /\ f[3] = c)
    /\ \A f \in s : \/ f \in DropCheck(s, t, c) \cup OneOf(t, c, w)
                    \/ f[1] \in {"words", "range"} /\ f[2] = t /\ f[3] = c
  BY DEF DropCheck, OneOf

NewList(s, t, n) == DropCheck(s, t, Listed(t)) \cup OneOf(t, Listed(t), WordsOf(t, n))

LEMMA NewListIs ==
  \A s, t, n :
    /\ ListFact(t, n) \in NewList(s, t, n)
    /\ \A f \in NewList(s, t, n) : \/ f = ListFact(t, n)
                                   \/ f \in s /\ ~(f[1] = "words" /\ f[2] = t /\ f[3] = Listed(t))
    /\ \A f \in s : f \in NewList(s, t, n) \/ MayGo(f) \/ (f[1] = "words" /\ f[2] = t /\ f[3] = Listed(t))
  <1> TAKE s, t, n
  <1> DEFINE c == Listed(t)
             w == WordsOf(t, n)
             u == NewList(s, t, n)
  <1>1. ListFact(t, n) = <<"words", t, c, w>>
    BY DEF ListFact
  <1>2. u = DropCheck(s, t, c) \cup OneOf(t, c, w)
    BY DEF NewList
  <1> HIDE DEF c, w, u
  <1>3. \A f : f[1] = "range" => MayGo(f)
    BY DEF MayGo
  <1>4. /\ <<"words", t, c, w>> \in u
        /\ \A f \in u : \/ f = <<"words", t, c, w>>
                        \/ f \in s /\ ~(f[1] = "words" /\ f[2] = t /\ f[3] = c)
        /\ \A f \in s : f \in u \/ (f[1] \in {"words", "range"} /\ f[2] = t /\ f[3] = c)
    BY <1>2, SwapIs
  <1> QED BY <1>1, <1>3, <1>4 DEF c, u

\* The two tables with a list, and the table of chunks, across a swap.
LEMMA Lists ==
  /\ WordsOf("document", 3) = {"pdf", "docx", "md", "txt"}
  /\ WordsOf("document", 4) = {"pdf", "docx", "md", "mdx", "txt"}
  /\ WordsOf("message", 8) = {"user", "assistant"}
  /\ WordsOf("message", 9) = {"user", "assistant", "staff"}
  /\ WordsOf("message", 3) = WordsOf("message", 4)
  /\ WordsOf("document", 8) = WordsOf("document", 9)
  /\ WordsOf("document", 3) # WordsOf("document", 4)
  /\ WordsOf("message", 8) # WordsOf("message", 9)
  <1>1. WordsOf("document", 3) = {"pdf", "docx", "md", "txt"}
    BY DEF WordsOf, FileTypes
  <1>2. WordsOf("document", 4) = {"pdf", "docx", "md", "mdx", "txt"}
    BY DEF WordsOf, FileTypes
  <1>3. WordsOf("message", 8) = {"user", "assistant"}
    BY DEF WordsOf, Roles
  <1>4. WordsOf("message", 9) = {"user", "assistant", "staff"}
    BY DEF WordsOf, Roles
  <1>5. WordsOf("message", 3) = WordsOf("message", 4) /\ WordsOf("document", 8) = WordsOf("document", 9)
    BY DEF WordsOf, Roles, FileTypes
  <1>6. "mdx" \in WordsOf("document", 4) /\ "mdx" \notin WordsOf("document", 3)
    BY <1>1, <1>2
  <1>7. "staff" \in WordsOf("message", 9) /\ "staff" \notin WordsOf("message", 8)
    BY <1>3, <1>4
  <1> QED BY <1>1, <1>2, <1>3, <1>4, <1>5, <1>6, <1>7

LEMMA Up4Moves ==
  ASSUME NEW s, SchemaInv(s, 3)
  PROVE  SchemaInv(Up4(s), 4) /\ Keeps(s, Up4(s), RowTables)
  <1> DEFINE t == "document"
  <1>1. Up4(s) = NewList(s, t, 4)
    BY Lists DEF Up4, SwapFileTypes, NewList, Listed
  <1>2. \A v : v \in LaterTables(3) => v \in LaterTables(4)
    BY LaterIs
  <1>3. WordsOf(t, 3) # WordsOf(t, 4) /\ \A o \in {"document", "message"} : o # t => WordsOf(o, 3) = WordsOf(o, 4)
    BY Lists
  <1>4. t \in {"document", "message"}
    OBVIOUS
  <1> HIDE DEF t
  <1>5. SwapsList(s, Up4(s), 3, 4, t)
    BY <1>1, <1>2, NewListIs DEF SwapsList
  <1>6. SchemaInv(Up4(s), 4) /\ Keeps(s, Up4(s), {"document_chunk"})
    BY <1>3, <1>4, <1>5, Swaps
  <1>7. Keeps(s, Up4(s), {"document", "message"})
    <2> SUFFICES ASSUME NEW r, NEW v \in {"document", "message"}, r.table = v, Accepts(s, r)
                 PROVE  Accepts(Up4(s), r)
      BY DEF Keeps
    <2>1. r.value \in WordsOf(v, 3)
      BY ListAccepts
    <2>2. WordsOf(v, 3) \subseteq WordsOf(v, 4)
      BY Lists
    <2> QED BY <1>6, <2>1, <2>2, ListAccepts
  <1> QED BY <1>6, <1>7 DEF Keeps, RowTables

LEMMA Down4Moves ==
  ASSUME NEW s, SchemaInv(s, 4)
  PROVE  /\ SchemaInv(Down4(s), 3)
         /\ Keeps(s, Down4(s), {"document_chunk", "message"})
         /\ "document" \in Exclusive(s, Down4(s))
  <1> DEFINE t == "document"
  <1>1. Down4(s) = NewList(s, t, 3)
    BY Lists DEF Down4, SwapFileTypes, NewList, Listed
  <1>2. \A v : v \in LaterTables(4) => v \in LaterTables(3)
    BY LaterIs
  <1>3. WordsOf(t, 4) # WordsOf(t, 3) /\ \A o \in {"document", "message"} : o # t => WordsOf(o, 4) = WordsOf(o, 3)
    BY Lists
  <1>4. t \in {"document", "message"}
    OBVIOUS
  <1> HIDE DEF t
  <1>5. SwapsList(s, Down4(s), 4, 3, t)
    BY <1>1, <1>2, NewListIs DEF SwapsList
  <1>6. SchemaInv(Down4(s), 3) /\ Keeps(s, Down4(s), {"document_chunk"}) /\ t \in Exclusive(s, Down4(s))
    BY <1>3, <1>4, <1>5, Swaps
  <1>7. Keeps(s, Down4(s), {"message"})
    <2> SUFFICES ASSUME NEW r, r.table = "message", Accepts(s, r) PROVE Accepts(Down4(s), r)
      BY DEF Keeps
    <2>1. r.value \in WordsOf("message", 4)
      BY ListAccepts
    <2> QED BY <1>6, <2>1, Lists, ListAccepts
  <1> QED BY <1>6, <1>7 DEF Keeps, t

\* The tables of 0002, in the order in which they are dropped.
LEMMA BeforeIs ==
  /\ \A t \in {"message", "conversation", "document_chunk", "document", "chatbot", "app_user"} :
        DroppedBefore(t, "organization")
  /\ \A t \in {"message", "conversation", "document_chunk", "document"} : DroppedBefore(t, "chatbot")
  /\ DroppedBefore("document", "app_user") /\ DroppedBefore("message", "app_user")
  /\ DroppedBefore("document_chunk", "document") /\ DroppedBefore("message", "conversation")
  <1>1. \A i, j \in 1..7 : i < j => DroppedBefore(DropOrder[i], DropOrder[j])
    BY Order DEF DroppedBefore
  <1> QED BY <1>1, Order

LEMMA Up9Moves ==
  ASSUME NEW s, SchemaInv(s, 8)
  PROVE  SchemaInv(Up9(s), 9) /\ Keeps(s, Up9(s), RowTables)
  <1> DEFINE t == "ticket"
             P == {<<"chatbot_id", "chatbot">>, <<"conversation_id", "conversation">>}
             Q == {<<"assigned_to", "app_user">>}
             required == {"chatbot_id", "conversation_id", "visitor_email", "status", "priority",
                          "source"}
             optional == {"visitor_name", "subject", "escalation_reason", "assigned_to",
                          "resolved_at"}
             A == Pk(t) \cup Created(t) \cup Updated(t) \cup OrgId(t)
                    \cup Required(t, required) \cup Optional(t, optional)
                    \cup References(t, "CASCADE", P) \cup References(t, "SET NULL", Q)
                    \cup OneOf(t, "status", {"open", "pending", "resolved", "closed"})
                    \cup OneOf(t, "priority", {"low", "normal", "high", "urgent"})
                    \cup OneOf(t, "source", {"ai_escalation", "visitor_contact_form"})
             S == s \cup A
             T == {t}
             v == EnableRls(S, T)
             u == Up9(s)
             N == NewList(v, "message", 9)
             W == {"user", "assistant", "staff"}
  <1>1. u = N \cup StaffAuthor
    <2>1. u = SwapMessageRoles(v, W) \cup StaffAuthor
      BY DEF Up9
    <2>2. N = SwapMessageRoles(v, W)
      <3> HIDE DEF v
      <3> QED BY Lists DEF SwapMessageRoles, NewList, Listed
    <2> HIDE DEF u, N, v
    <2> QED BY <2>1, <2>2
  <1>2. t \in LaterTables(9) /\ t \notin RowTables
    BY LaterIs DEF RowTables
  <1> HIDE DEF P, Q, required, optional, t, u
  <1>3. \A f \in A : f[2] = t
    BY Located
  <1>4. (\A f \in S : f \in s \/ f \in A) /\ (\A f \in s : f \in S)
    OBVIOUS
  <1> HIDE DEF S, T, A
  <1>5. \A f \in v : f \in s \/ Safe(f, 9)
    BY <1>2, <1>3, <1>4, RlsIs, SafeOfLater, SafeOfKind
  <1>6. \A f \in s : f \in v
    BY <1>4, RlsKeeps
  <1> HIDE DEF v
  <1>7. \A f \in StaffAuthor : Safe(f, 9)
    <2> DEFINE c == {"staff_user_id"}
               R == {<<"staff_user_id", "app_user">>}
               to == {"app_user"}
               B == References("message", "SET NULL", R)
    <2>1. \A q \in R : q[2] \in to
      OBVIOUS
    <2>2. StaffAuthor = Optional("message", c) \cup B
      BY DEF StaffAuthor
    <2> HIDE DEF R, to, c
    <2>3. \A f \in B : f[1] = "reference" /\ f[2] = "message" /\ f[4] \in to
      BY <2>1, ReferencesIs, ReferencesTo
    <2> HIDE DEF B
    <2>4. \A f \in B : Safe(f, 9)
      BY <2>3, BeforeIs DEF Safe, to
    <2>5. \A f \in Optional("message", c) : Safe(f, 9)
      BY OptionalIs, SafeOfKind
    <2> QED BY <2>2, <2>4, <2>5
  <1>8. SwapsList(s, u, 8, 9, "message")
    <2>1. ListFact("message", 9) \in u
      BY <1>1, NewListIs
    <2>2. \A f \in u : \/ f = ListFact("message", 9)
                       \/ f \in s /\ ~(f[1] = "words" /\ f[2] = "message" /\ f[3] = Listed("message"))
                       \/ Safe(f, 9)
      BY <1>1, <1>5, <1>7, NewListIs
    <2>3. \A f \in s : \/ f \in u \/ MayGo(f)
                       \/ (f[1] = "words" /\ f[2] = "message" /\ f[3] = Listed("message"))
      BY <1>1, <1>6, NewListIs
    <2>4. \A w : w \in LaterTables(8) => w \in LaterTables(9)
      BY LaterIs
    <2> QED BY <2>1, <2>2, <2>3, <2>4 DEF SwapsList
  <1>9. SchemaInv(u, 9) /\ Keeps(s, u, {"document_chunk"})
    <2>1. WordsOf("message", 8) # WordsOf("message", 9)
            /\ \A o \in {"document", "message"} : o # "message" => WordsOf(o, 8) = WordsOf(o, 9)
      BY Lists
    <2> QED BY <1>8, <2>1, Swaps
  <1>10. Keeps(s, u, {"document", "message"})
    <2> SUFFICES ASSUME NEW r, NEW w \in {"document", "message"}, r.table = w, Accepts(s, r)
                 PROVE  Accepts(u, r)
      BY DEF Keeps
    <2>1. r.value \in WordsOf(w, 8)
      BY ListAccepts
    <2>2. WordsOf(w, 8) \subseteq WordsOf(w, 9)
      BY Lists
    <2> QED BY <1>9, <2>1, <2>2, ListAccepts
  <1> QED BY <1>9, <1>10 DEF Keeps, RowTables, u

LEMMA Down9Moves ==
  ASSUME NEW s, SchemaInv(s, 9)
  PROVE  /\ SchemaInv(Down9(s), 8)
         /\ Keeps(s, Down9(s), {"document_chunk", "document"})
         /\ "message" \in Exclusive(s, Down9(s))
  <1> DEFINE t == "ticket"
             q == DropColumn(s, "message", "staff_user_id")
             v == NewList(q, "message", 8)
             p == DropPolicy(v, t)
             u == Down9(s)
             W == {"user", "assistant"}
  <1>1. u = DropTable(p, t)
    <2>1. u = DropTable(DropPolicy(SwapMessageRoles(q, W), t), t)
      BY DEF Down9
    <2>2. v = SwapMessageRoles(q, W)
      <3> HIDE DEF q
      <3> QED BY Lists DEF SwapMessageRoles, NewList, Listed
    <2> HIDE DEF u, v
    <2> QED BY <2>1, <2>2
  <1>2. t \notin RowTables
    BY DEF RowTables
  <1>3. \A w : w \in LaterTables(9) /\ w # t => w \in LaterTables(8)
    BY LaterIs
  <1>4. (\A f \in q : f \in s) /\ \A f \in s : f \in q \/ MayGo(f)
    BY DEF DropColumn, Mentions, MayGo
  <1> HIDE DEF t, q, u
  <1>5. /\ ListFact("message", 8) \in v
        /\ \A f \in v : \/ f = ListFact("message", 8)
                        \/ f \in s /\ ~(f[1] = "words" /\ f[2] = "message" /\ f[3] = Listed("message"))
        /\ \A f \in s : \/ f \in v \/ MayGo(f)
                        \/ (f[1] = "words" /\ f[2] = "message" /\ f[3] = Listed("message"))
    BY <1>4, NewListIs
  <1> HIDE DEF v
  <1>6. (\A f \in p : f \in v) /\ \A f \in v : f \in p \/ f[2] = t
    BY DropPolicyIs
  <1> HIDE DEF p
  <1>7. \A g \in p : g[1] = "partition" => g[2] \notin RowTables
    BY <1>5, <1>6, ListFactIs DEF SchemaInv
  <1>8. /\ \A f \in u : f \in v /\ f[2] # t
        /\ \A f \in v : f \in u \/ f[2] \notin RowTables
    BY <1>1, <1>2, <1>6, <1>7, DropTableIs
  <1>9. SwapsList(s, u, 9, 8, "message")
    <2>1. ListFact("message", 8) \in u
      BY <1>5, <1>8, ListFactIs DEF RowTables
    <2>2. \A f \in u : \/ f = ListFact("message", 8)
                       \/ f \in s /\ ~(f[1] = "words" /\ f[2] = "message" /\ f[3] = Listed("message"))
                       \/ Safe(f, 8)
      BY <1>5, <1>8
    <2>3. \A f \in s : \/ f \in u \/ MayGo(f)
                       \/ (f[1] = "words" /\ f[2] = "message" /\ f[3] = Listed("message"))
      BY <1>5, <1>8, MayGoWith
    <2>4. \A f \in u : f \in s /\ f[1] = "reference" /\ f[2] \in LaterTables(9) => f[2] \in LaterTables(8)
      BY <1>3, <1>8
    <2> QED BY <2>1, <2>2, <2>3, <2>4 DEF SwapsList
  <1>10. SchemaInv(u, 8) /\ Keeps(s, u, {"document_chunk"}) /\ "message" \in Exclusive(s, u)
    <2>1. WordsOf("message", 9) # WordsOf("message", 8)
            /\ \A o \in {"document", "message"} : o # "message" => WordsOf(o, 9) = WordsOf(o, 8)
      BY Lists
    <2> QED BY <1>9, <2>1, Swaps
  <1>11. Keeps(s, u, {"document"})
    <2> SUFFICES ASSUME NEW r, r.table = "document", Accepts(s, r) PROVE Accepts(u, r)
      BY DEF Keeps
    <2>1. r.value \in WordsOf("document", 9)
      BY ListAccepts
    <2> QED BY <1>10, <2>1, Lists, ListAccepts
  <1> QED BY <1>10, <1>11 DEF Keeps, u

-----------------------------------------------------------------------------
LEMMA ChunkKinds ==
  ASSUME NEW f, f[1] \in {"table", "primary", "column", "default", "unique", "hnsw"}
  PROVE  OfChunks(f)
  BY DEF OfChunks

\* The table of chunks as 0002 made it, and as 0008 does.
LEMMA InitialChunksAre ==
  /\ \A f \in InitialChunks \cup Hnsw("document_chunk") : OfChunks(f)
  /\ <<"table", "document_chunk">> \in InitialChunks
  /\ \A f \in InitialChunks \cup Hnsw("document_chunk") : f[1] = "width" => f[4] = LegacyDimension
  <1> DEFINE t == "document_chunk"
             P == {<<"token_count", "0">>, <<"metadata_json", "{}">>}
             Q == {<<"document_id", "document">>, <<"chatbot_id", "chatbot">>}
             to == {"organization", "document", "chatbot"}
             required == {"document_id", "chatbot_id", "chunk_index", "content", "token_count",
                          "embedding", "metadata_json"}
             key == {"document_id", "chunk_index"}
             W == {<<"width", t, "embedding", LegacyDimension>>}
             R == References(t, "CASCADE", Q)
             H == Hnsw(t)
  <1>1. InitialChunks = Pk(t) \cup Created(t) \cup OrgId(t) \cup Required(t, required)
                          \cup Defaults(t, P) \cup W \cup R \cup Unique(t, key)
    BY DEF InitialChunks
  <1>2. \A q \in Q : q[2] \in to
    OBVIOUS
  <1>3. \A f \in W : f[1] = "width" /\ f[2] = t /\ f[4] = LegacyDimension
    OBVIOUS
  <1>4. <<"table", t>> \in Pk(t)
    BY DEF Pk, Table
  <1>5. \A f \in OrgId(t) : f[1] = "column" \/ (f[1] = "reference" /\ f[2] = t /\ f[4] \in to)
    BY OrgIdIs
  <1> HIDE DEF P, Q, to, required, key, W, H
  <1>6. \A f \in R : f[1] = "reference" /\ f[2] = t /\ f[4] \in to
    BY <1>2, ReferencesIs, ReferencesTo
  <1>7. \A f \in H : f[1] = "hnsw"
    BY HnswIs DEF H
  <1> HIDE DEF R
  <1>8. \A f \in InitialChunks \cup H :
          \/ f[1] \in {"table", "primary", "column", "default", "unique", "hnsw"}
          \/ f[1] = "reference" /\ f[2] = t /\ f[4] \in to
          \/ f[1] = "width" /\ f[2] = t /\ f[4] = LegacyDimension
    BY <1>1, <1>3, <1>5, <1>6, <1>7, PkIs, CreatedIs, RequiredIs, DefaultsIs, UniqueIs
  <1>9. \A f \in InitialChunks \cup H : OfChunks(f) /\ (f[1] = "width" => f[4] = LegacyDimension)
    <2> TAKE f \in InitialChunks \cup H
    <2>1. CASE f[1] \in {"table", "primary", "column", "default", "unique", "hnsw"}
      BY <2>1, ChunkKinds
    <2>2. CASE f[1] = "reference" /\ f[2] = t /\ f[4] \in to
      BY <2>2 DEF OfChunks, to
    <2>3. CASE f[1] = "width" /\ f[2] = t /\ f[4] = LegacyDimension
      BY <2>3 DEF OfChunks
    <2> QED BY <1>8, <2>1, <2>2, <2>3
  <1> QED BY <1>1, <1>4, <1>9 DEF H

LEMMA PartitionedChunksAre ==
  /\ \A f \in PartitionedChunks : OfChunks(f) /\ f[1] # "width"
  /\ <<"table", "document_chunk">> \in PartitionedChunks
  <1> DEFINE t == "document_chunk"
             P == {<<"id", "uuid">>, <<"token_count", "0">>, <<"metadata_json", "{}">>}
             Q == {<<"document_id", "document">>, <<"chatbot_id", "chatbot">>}
             to == {"organization", "document", "chatbot"}
             id == {"id", "embedding_dim"}
             required == {"id", "document_id", "chatbot_id", "chunk_index", "content",
                          "token_count", "embedding_dim", "embedding", "metadata_json"}
             key == {"document_id", "chunk_index", "embedding_dim"}
             R == References(t, "CASCADE", Q)
             B == UNION {Partition(t, ChunkPartition(w), w) : w \in Dimensions \cup {Default}}
             C == UNION {Hnsw(ChunkPartition(w)) : w \in Dimensions}
  <1>1. PartitionedChunks = Table(t, id) \cup Created(t) \cup OrgId(t) \cup Required(t, required)
                              \cup Defaults(t, P) \cup R \cup Unique(t, key) \cup B \cup C
    BY DEF PartitionedChunks
  <1>2. \A q \in Q : q[2] \in to
    OBVIOUS
  <1>3. \A f \in B : f[1] = "partition" /\ f[2] \notin RowTables
    BY PartitionIs, ChunkPartitionNames
  <1>4. \A f \in C : f[1] = "hnsw"
    BY HnswIs
  <1>5. <<"table", t>> \in Table(t, id)
    BY DEF Table
  <1>6. \A f \in OrgId(t) : f[1] = "column" \/ (f[1] = "reference" /\ f[2] = t /\ f[4] \in to)
    BY OrgIdIs
  <1> HIDE DEF P, Q, to, id, required, key, B, C
  <1>7. \A f \in R : f[1] = "reference" /\ f[2] = t /\ f[4] \in to
    BY <1>2, ReferencesIs, ReferencesTo
  <1> HIDE DEF R
  <1>8. \A f \in PartitionedChunks :
          \/ f[1] \in {"table", "primary", "column", "default", "unique", "hnsw"}
          \/ f[1] = "reference" /\ f[2] = t /\ f[4] \in to
          \/ f[1] = "partition" /\ f[2] \notin RowTables
    BY <1>1, <1>3, <1>4, <1>6, <1>7, TableClauseIs, CreatedIs, RequiredIs, DefaultsIs, UniqueIs
  <1>9. \A f \in PartitionedChunks : OfChunks(f) /\ f[1] # "width"
    <2> TAKE f \in PartitionedChunks
    <2>1. CASE f[1] \in {"table", "primary", "column", "default", "unique", "hnsw"}
      BY <2>1, ChunkKinds
    <2>2. CASE f[1] = "reference" /\ f[2] = t /\ f[4] \in to
      BY <2>2 DEF OfChunks, to
    <2>3. CASE f[1] = "partition" /\ f[2] \notin RowTables
      BY <2>3 DEF OfChunks
    <2> QED BY <1>8, <2>1, <2>2, <2>3
  <1> QED BY <1>1, <1>5, <1>9

\* Dropping the table of chunks and creating it anew leaves the next schema.
LEMMA Rebuilds ==
  ASSUME NEW s, NEW u, NEW A, NEW n \in 2..15, NEW m \in 2..15, SchemaInv(s, n),
         RebuiltWith(s, u, A, n, m)
  PROVE  /\ SchemaInv(u, m)
         /\ \A r : /\ r.table = "document_chunk"
                   /\ \A f \in A : f[1] = "width" => f[4] = r.value
                   => Accepts(u, r)
  <1> DEFINE D == {"document", "message"}
             c == "document_chunk"
             B == DropTable(s, c)
  <1>1. (\A f \in B : f \in s /\ f[2] # c) /\ \A f \in s : f \in B \/ f[2] = c \/ f[2] \notin RowTables
    BY DropTableIs DEF SchemaInv
  <1>2. /\ \A f \in u : f \in B \/ f \in A \/ f[1] = "policy"
        /\ \A f \in A : f \in u
        /\ \A f \in B : f \in u
        /\ \A f \in A : OfChunks(f)
        /\ <<"table", c>> \in A
        /\ \A t : WordsOf(t, n) = WordsOf(t, m)
        /\ \A t : t \in LaterTables(n) => t \in LaterTables(m)
    BY DEF RebuiltWith
  <1>3. RowTables = D \cup {c} /\ c \notin D
    BY DEF RowTables
  <1> HIDE DEF B
  <1>4. RowTables \subseteq Tables(u)
    <2> SUFFICES ASSUME NEW v \in RowTables PROVE v \in Tables(u)
      OBVIOUS
    <2>1. CASE v = c
      <3>1. <<"table", c>> \in u /\ <<"table", c>>[1] = "table" /\ <<"table", c>>[2] = c
        BY <1>2
      <3> QED BY <2>1, <3>1, TableIs
    <2>2. CASE v # c
      <3>1. v \in Tables(s)
        BY DEF SchemaInv
      <3>2. PICK f \in s : f[1] = "table" /\ f[2] = v
        BY <3>1, TableIs
      <3>3. f \in u
        BY <1>1, <1>2, <2>2, <3>2
      <3> QED BY <3>2, <3>3, TableIs
    <2> QED BY <2>1, <2>2
  <1>5. \A o \in D : ListFact(o, n) = ListFact(o, m)
    BY <1>2 DEF ListFact
  <1>6. \A o \in D : ListFact(o, n) \in s
    BY SchemaWords
  <1>7. \A o \in D : \A f \in s : f[1] = "words" /\ f[2] = o /\ f[3] \in {"file_type", "role"} => f = ListFact(o, n)
    BY SchemaWords
  <1>8. \A o \in D : \A f \in s : f[1] = "width" => f[2] # o
    BY SchemaWords
  <1> HIDE DEF D
  <1>9. \A o \in D : ListFact(o, m) \in u
    BY <1>1, <1>2, <1>3, <1>5, <1>6, ListFactIs
  <1>10. \A o \in D : \A f \in u : f[1] = "words" /\ f[2] = o /\ f[3] \in {"file_type", "role"} => f = ListFact(o, m)
    BY <1>1, <1>2, <1>5, <1>7 DEF OfChunks
  <1>11. \A o \in D : \A f \in u : f[1] = "width" => f[2] # o
    BY <1>1, <1>2, <1>3, <1>8 DEF OfChunks
  <1>12. \A f \in u : f[1] = "partition" => f[2] \notin RowTables
    BY <1>1, <1>2 DEF OfChunks, SchemaInv
  <1>13. \A f \in u : f[1] = "reference" => f[2] \in LaterTables(m) \/ DroppedBefore(f[2], f[4])
    BY <1>1, <1>2, BeforeIs DEF OfChunks, SchemaInv
  <1>14. SchemaInv(u, m)
    BY <1>4, <1>9, <1>10, <1>11, <1>12, <1>13, SchemaFrom DEF D
  <1>15. ASSUME NEW r, r.table = c, \A f \in A : f[1] = "width" => f[4] = r.value
         PROVE  Accepts(u, r)
    <2>1. r.table \in Tables(u)
      BY <1>3, <1>4, <1>15
    <2>2. ASSUME NEW f \in u, f[1] = "width" \/ f[1] = "words", f[2] = r.table
          PROVE  f[1] = "width" /\ f[4] = r.value
      BY <1>1, <1>2, <1>15, <2>2 DEF OfChunks
    <2> QED BY <2>1, <2>2, AcceptsIs
  <1> QED BY <1>14, <1>15

LEMMA Up8Moves ==
  ASSUME NEW s, SchemaInv(s, 7)
  PROVE  /\ SchemaInv(Up8(s), 8)
         /\ \A r : r.table = "document_chunk" => Accepts(Up8(s), r)
  <1> DEFINE B == DropTable(s, "document_chunk")
             S == B \cup PartitionedChunks
             u == Up8(s)
  <1>1. u = EnableRls(S, ChunkTables)
    BY DEF Up8, CreatePartitionedChunks
  <1>2. \A f \in S : f \in B \/ f \in PartitionedChunks
    OBVIOUS
  <1>3. \A f : f \in B \/ f \in PartitionedChunks => f \in S
    OBVIOUS
  <1> HIDE DEF S, u, B
  <1>4. /\ \A f \in u : f \in B \/ f \in PartitionedChunks \/ f[1] = "policy"
        /\ \A f \in PartitionedChunks : f \in u
        /\ \A f \in B : f \in u
    BY <1>1, <1>2, <1>3, RlsIs, RlsKeeps
  <1>5. \A t : WordsOf(t, 7) = WordsOf(t, 8)
    BY DEF WordsOf, FileTypes, Roles
  <1>6. \A t : t \in LaterTables(7) => t \in LaterTables(8)
    BY LaterIs
  <1>8. RebuiltWith(s, u, PartitionedChunks, 7, 8)
    BY <1>4, <1>5, <1>6, PartitionedChunksAre DEF B, RebuiltWith
  <1>7. /\ SchemaInv(u, 8)
        /\ \A r : /\ r.table = "document_chunk"
                  /\ \A f \in PartitionedChunks : f[1] = "width" => f[4] = r.value
                  => Accepts(u, r)
    BY <1>8, Rebuilds
  <1> QED BY <1>7, PartitionedChunksAre DEF u

LEMMA Down8Moves ==
  ASSUME NEW s, SchemaInv(s, 8)
  PROVE  /\ SchemaInv(Down8(s), 7)
         /\ \A r : r.table = "document_chunk" /\ r.value = LegacyDimension => Accepts(Down8(s), r)
  <1> DEFINE B == DropTable(s, "document_chunk")
             A == InitialChunks \cup Hnsw("document_chunk")
             S == B \cup InitialChunks \cup Hnsw("document_chunk")
             T == {"document_chunk"}
             u == Down8(s)
  <1>1. u = EnableRls(S, T)
    BY DEF Down8, CreateLegacyChunks
  <1>2. \A f \in S : f \in B \/ f \in A
    OBVIOUS
  <1>3. \A f : f \in B \/ f \in A => f \in S
    OBVIOUS
  <1>8. /\ \A f \in A : OfChunks(f)
        /\ <<"table", "document_chunk">> \in A
        /\ \A f \in A : f[1] = "width" => f[4] = LegacyDimension
    BY InitialChunksAre
  <1> HIDE DEF S, T, u, B, A
  <1>4. /\ \A f \in u : f \in B \/ f \in A \/ f[1] = "policy"
        /\ \A f \in A : f \in u
        /\ \A f \in B : f \in u
    BY <1>1, <1>2, <1>3, RlsIs, RlsKeeps
  <1>5. \A t : WordsOf(t, 8) = WordsOf(t, 7)
    BY DEF WordsOf, FileTypes, Roles
  <1>6. \A t : t \in LaterTables(8) => t \in LaterTables(7)
    BY LaterIs
  <1>9. RebuiltWith(s, u, A, 8, 7)
    BY <1>4, <1>5, <1>6, <1>8 DEF B, RebuiltWith
  <1>7. /\ SchemaInv(u, 7)
        /\ \A r : /\ r.table = "document_chunk"
                  /\ \A f \in A : f[1] = "width" => f[4] = r.value
                  => Accepts(u, r)
    BY <1>9, Rebuilds
  <1> QED BY <1>7, <1>8 DEF u

-----------------------------------------------------------------------------
LEMMA InitialKinds ==
  \A f : f[1] \in {"table", "primary", "column", "default", "unique", "hnsw"} => Initial(f)
  BY DEF Initial
LEMMA InitialClauses ==
  /\ \A t : \A f \in Pk(t) \cup Created(t) \cup Updated(t) : Initial(f)
  /\ \A t, a : \A f \in Required(t, a) \cup Optional(t, a) \cup Defaults(t, a) \cup Unique(t, a) :
        Initial(f)
  <1>1. \A t : \A f \in Pk(t) \cup Created(t) \cup Updated(t) : Initial(f)
    BY PkIs, CreatedIs, UpdatedIs, InitialKinds
  <1>2. \A t, a : \A f \in Required(t, a) \cup Optional(t, a) \cup Defaults(t, a) \cup Unique(t, a) :
           Initial(f)
    BY RequiredIs, OptionalIs, DefaultsIs, UniqueIs, InitialKinds
  <1> QED BY <1>1, <1>2
LEMMA InitialReferences ==
  \A t, rule, P, T :
     (\A q \in P : q[2] \in T) /\ (\A v \in T : DroppedBefore(t, v)) =>
        \A f \in References(t, rule, P) : Initial(f)
  <1> SUFFICES ASSUME NEW t, NEW rule, NEW P, NEW T, \A q \in P : q[2] \in T,
                      \A v \in T : DroppedBefore(t, v), NEW f \in References(t, rule, P)
               PROVE  Initial(f)
    OBVIOUS
  <1>1. f[1] = "reference" /\ f[2] = t
    BY ReferencesIs
  <1>2. f[4] \in T
    BY ReferencesTo
  <1> QED BY <1>1, <1>2 DEF Initial
LEMMA InitialOrgId ==
  \A t : DroppedBefore(t, "organization") => \A f \in OrgId(t) : Initial(f)
  <1> SUFFICES ASSUME NEW t, DroppedBefore(t, "organization"), NEW f \in OrgId(t) PROVE Initial(f)
    OBVIOUS
  <1> QED BY OrgIdIs DEF Initial
LEMMA InitialWords ==
  \A t, c, w : t \notin {"document", "message"} \/ c \notin {"file_type", "role"} =>
     \A f \in OneOf(t, c, w) : Initial(f)
  BY OneOfIs DEF Initial

LEMMA TenantsAre == \A f \in InitialTenants : Initial(f)
  <1> DEFINE o == "organization"
             u == "app_user"
             c == "chatbot"
             P == {<<"model_config_json", "{}">>, <<"allowed_origins", "[]">>}
             a1 == {"name", "slug", "plan"}
             a2 == {"slug"}
             a3 == {"email", "hashed_password", "role", "is_active"}
             a4 == {"full_name"}
             a5 == {"email"}
             a6 == {"name", "slug", "system_prompt", "model_config_json",
                    "allowed_origins", "public_key", "secret_key_hash", "status"}
             a7 == {"description"}
             a8 == {"org_id", "slug"}
             a9 == {"public_key"}
             w1 == {"free", "pro", "enterprise"}
             w2 == {"owner", "admin", "member"}
             w3 == {"active", "paused", "archived"}
  <1>1. InitialTenants =
          Pk(o) \cup Created(o) \cup Updated(o) \cup Required(o, a1) \cup Unique(o, a2)
            \cup OneOf(o, "plan", w1)
            \cup Pk(u) \cup Created(u) \cup Updated(u) \cup OrgId(u)
            \cup Required(u, a3) \cup Optional(u, a4) \cup Unique(u, a5) \cup OneOf(u, "role", w2)
            \cup Pk(c) \cup Created(c) \cup Updated(c) \cup OrgId(c)
            \cup Required(c, a6) \cup Optional(c, a7) \cup Defaults(c, P)
            \cup Unique(c, a8) \cup Unique(c, a9) \cup OneOf(c, "status", w3)
    BY DEF InitialTenants
  <1>2. DroppedBefore(u, "organization") /\ DroppedBefore(c, "organization")
    BY BeforeIs
  <1>3. o \notin {"document", "message"} /\ u \notin {"document", "message"} /\ c \notin {"document", "message"}
    OBVIOUS
  <1> HIDE DEF o, u, c, P, a1, a2, a3, a4, a5, a6, a7, a8, a9, w1, w2, w3
  <1>4. \A f \in OneOf(o, "plan", w1) \cup OneOf(u, "role", w2) \cup OneOf(c, "status", w3) : Initial(f)
    BY <1>3, InitialWords
  <1>5. \A f \in OrgId(u) \cup OrgId(c) : Initial(f)
    BY <1>2, InitialOrgId
  <1> QED BY <1>1, <1>4, <1>5, InitialClauses

LEMMA DocumentIs ==
  /\ \A f \in InitialDocument : Initial(f)
  /\ ListFact("document", 2) \in InitialDocument /\ <<"table", "document">> \in InitialDocument
  <1> DEFINE t == "document"
             P == {<<"chunk_count", "0">>}
             Q == {<<"chatbot_id", "chatbot">>}
             R == {<<"uploaded_by", "app_user">>}
             to1 == {"chatbot"}
             to2 == {"app_user"}
             a1 == {"chatbot_id", "filename", "file_type", "content_type", "storage_path",
                    "size_bytes", "chunk_count", "status"}
             a2 == {"checksum_sha256", "error_message", "uploaded_by"}
             w1 == {"pending", "processing", "ready", "failed"}
             W == OneOf(t, "file_type", {"pdf", "docx", "md", "txt"})
             pk == Pk(t)
  <1>1. InitialDocument =
          pk \cup Created(t) \cup Updated(t) \cup OrgId(t) \cup Required(t, a1) \cup Optional(t, a2)
            \cup Defaults(t, P) \cup References(t, "CASCADE", Q) \cup References(t, "SET NULL", R)
            \cup OneOf(t, "status", w1) \cup W
    BY DEF InitialDocument
  <1>2. (\A q \in Q : q[2] \in to1) /\ (\A q \in R : q[2] \in to2)
    OBVIOUS
  <1>3. /\ DroppedBefore(t, "organization")
        /\ \A v \in to1 : DroppedBefore(t, v)
        /\ \A v \in to2 : DroppedBefore(t, v)
    BY BeforeIs
  <1>4. W = {ListFact(t, 2)}
    BY DEF OneOf, ListFact, Listed, WordsOf, FileTypes
  <1>5. <<"table", t>> \in pk
    BY DEF Pk, Table
  <1>6. ListFact(t, 2)[2] = t
    BY ListFactIs
  <1> HIDE DEF t, P, Q, R, to1, to2, a1, a2, w1, W, pk
  <1>7. \A f \in W : Initial(f)
    BY <1>4, <1>6, ListFactIs DEF Initial
  <1>8. \A f \in OneOf(t, "status", w1) : Initial(f)
    BY InitialWords
  <1>9. \A f \in References(t, "CASCADE", Q) : Initial(f)
    BY <1>2, <1>3, InitialReferences
  <1>10. \A f \in References(t, "SET NULL", R) : Initial(f)
    BY <1>2, <1>3, InitialReferences
  <1>11. \A f \in OrgId(t) : Initial(f)
    BY <1>3, InitialOrgId
  <1>12. \A f \in pk : Initial(f)
    BY InitialClauses DEF pk
  <1>13. \A f \in InitialDocument : Initial(f)
    BY <1>1, <1>7, <1>8, <1>9, <1>10, <1>11, <1>12, InitialClauses
  <1> QED BY <1>1, <1>4, <1>5, <1>13 DEF t

LEMMA ConversationsAre ==
  /\ \A f \in InitialConversations : Initial(f)
  /\ ListFact("message", 2) \in InitialConversations
  /\ <<"table", "message">> \in InitialConversations
  <1> DEFINE t == "conversation"
             v == "message"
             P == {<<"message_count", "0">>}
             Q == {<<"chatbot_id", "chatbot">>}
             R == {<<"conversation_id", "conversation">>, <<"chatbot_id", "chatbot">>}
             to1 == {"chatbot"}
             to2 == {"conversation", "chatbot"}
             a1 == {"chatbot_id", "external_session_id", "message_count"}
             a2 == {"title"}
             a3 == {"chatbot_id", "external_session_id"}
             a4 == {"conversation_id", "chatbot_id", "role", "content"}
             a5 == {"sources_json", "prompt_tokens", "completion_tokens", "latency_ms"}
             W == OneOf(v, "role", {"user", "assistant"})
             pk == Pk(v)
  <1>1. InitialConversations =
          Pk(t) \cup Created(t) \cup Updated(t) \cup OrgId(t) \cup Required(t, a1) \cup Optional(t, a2)
            \cup Defaults(t, P) \cup References(t, "CASCADE", Q) \cup Unique(t, a3)
            \cup pk \cup Created(v) \cup OrgId(v) \cup Required(v, a4) \cup Optional(v, a5)
            \cup References(v, "CASCADE", R) \cup W
    BY DEF InitialConversations
  <1>2. (\A q \in Q : q[2] \in to1) /\ (\A q \in R : q[2] \in to2)
    OBVIOUS
  <1>3. /\ DroppedBefore(t, "organization") /\ DroppedBefore(v, "organization")
        /\ \A w \in to1 : DroppedBefore(t, w)
        /\ \A w \in to2 : DroppedBefore(v, w)
    BY BeforeIs
  <1>4. W = {ListFact(v, 2)}
    BY DEF OneOf, ListFact, Listed, WordsOf, Roles
  <1>5. <<"table", v>> \in pk
    BY DEF Pk, Table
  <1>6. ListFact(v, 2)[2] = v
    BY ListFactIs
  <1> HIDE DEF t, v, P, Q, R, to1, to2, a1, a2, a3, a4, a5, W, pk
  <1>7. \A f \in W : Initial(f)
    BY <1>4, <1>6, ListFactIs DEF Initial
  <1>9. \A f \in References(t, "CASCADE", Q) : Initial(f)
    BY <1>2, <1>3, InitialReferences
  <1>10. \A f \in References(v, "CASCADE", R) : Initial(f)
    BY <1>2, <1>3, InitialReferences
  <1>11. \A f \in OrgId(t) \cup OrgId(v) : Initial(f)
    BY <1>3, InitialOrgId
  <1>12. \A f \in pk : Initial(f)
    BY InitialClauses DEF pk
  <1>13. \A f \in InitialConversations : Initial(f)
    BY <1>1, <1>7, <1>9, <1>10, <1>11, <1>12, InitialClauses
  <1> QED BY <1>1, <1>4, <1>5, <1>13 DEF v

LEMMA Up2Moves ==
  ASSUME NEW s, SchemaInv(s, 1) PROVE SchemaInv(Up2(s), 2) /\ Keeps(s, Up2(s), RowTables)
  <1> DEFINE D == {"document", "message"}
             u == Up2(s)
  <1>1. u = s \cup InitialTenants \cup InitialDocument \cup InitialChunks \cup InitialConversations
    BY DEF Up2
  <1> HIDE DEF u
  <1>2. \A f \in InitialChunks : Initial(f)
    BY InitialChunksAre, BeforeIs DEF OfChunks, Initial
  <1>3. \A f \in u : f \in s \/ Initial(f)
    BY <1>1, <1>2, TenantsAre, DocumentIs, ConversationsAre
  <1>4. \A v : v \in LaterTables(1) => v \in LaterTables(2)
    BY LaterIs
  <1>5. \A o : ListFact(o, 1) = ListFact(o, 2)
    BY DEF ListFact, WordsOf, FileTypes, Roles
  <1>6. \A o \in D : \A f \in s : f[1] = "words" /\ f[2] = o /\ f[3] \in {"file_type", "role"} => f = ListFact(o, 1)
    BY SchemaWords
  <1>7. \A o \in D : \A f \in s : f[1] = "width" => f[2] # o
    BY SchemaWords
  <1>8. RowTables \subseteq Tables(u)
    <2>1. <<"table", "document">> \in u /\ <<"table", "message">> \in u /\ <<"table", "document_chunk">> \in u
      BY <1>1, DocumentIs, ConversationsAre, InitialChunksAre
    <2>2. \A v : <<"table", v>>[1] = "table" /\ <<"table", v>>[2] = v
      OBVIOUS
    <2>3. \A v : <<"table", v>> \in u => v \in Tables(u)
      BY <2>2, TableIs
    <2> QED BY <2>1, <2>3 DEF RowTables
  <1>9. \A o \in D : ListFact(o, 2) \in u
    BY <1>1, DocumentIs, ConversationsAre
  <1>10. \A o \in D : \A f \in u : f[1] = "words" /\ f[2] = o /\ f[3] \in {"file_type", "role"} => f = ListFact(o, 2)
    BY <1>3, <1>5, <1>6 DEF Initial
  <1>11. \A o \in D : \A f \in u : f[1] = "width" => f[2] # o
    BY <1>3, <1>7 DEF Initial
  <1>12. \A f \in u : f[1] = "partition" => f[2] \notin RowTables
    BY <1>3 DEF SchemaInv, Initial
  <1>13. \A f \in u : f[1] = "reference" => f[2] \in LaterTables(2) \/ DroppedBefore(f[2], f[4])
    BY <1>3, <1>4 DEF SchemaInv, Initial
  <1>14. SchemaInv(u, 2)
    BY <1>8, <1>9, <1>10, <1>11, <1>12, <1>13, SchemaFrom DEF D
  <1>15. Keeps(s, u, RowTables)
    BY AcceptsIs DEF Keeps, SchemaInv
  <1> QED BY <1>14, <1>15 DEF u

LEMMA Down2Moves ==
  ASSUME NEW s, SchemaInv(s, 2) PROVE SchemaInv(Down2(s), 1) /\ DropsInOrder(s)
  <1>1. \A f \in s : f[1] = "reference" => DroppedBefore(f[2], f[4])
    BY LaterIs DEF SchemaInv
  <1>2. \A i, j \in 1..7 : DropOrder[i] = DropOrder[j] => i = j
    BY Order
  <1>3. \A n \in 0..7 : \A f \in AfterDrops(s, n) : f \in s /\ \A i \in 1..n : f[2] # DropOrder[i]
    BY DEF AfterDrops
  <1>4. DropsInOrder(s)
    <2> SUFFICES ASSUME NEW i \in 1..7, NEW f \in AfterDrops(s, i - 1),
                        f[1] = "reference", f[4] = DropOrder[i]
                 PROVE  FALSE
      BY Order DEF DropsInOrder, Droppable, Kind
    <2>1. i - 1 \in 0..7
      OBVIOUS
    <2>2. f \in s /\ \A j \in 1..(i - 1) : f[2] # DropOrder[j]
      BY <1>3, <2>1
    <2>3. PICK a, b \in 1..7 : a < b /\ f[2] = DropOrder[a] /\ f[4] = DropOrder[b]
      BY <1>1, <2>2, Order DEF DroppedBefore
    <2>4. b = i
      BY <1>2, <2>3
    <2>5. a \in 1..(i - 1)
      BY <2>3, <2>4
    <2> QED BY <2>2, <2>3, <2>5
  <1> DEFINE u == Down2(s)
  <1>5. \A f \in u : f \in s /\ \A i \in 1..7 : f[2] # DropOrder[i]
    BY <1>3, Order DEF Down2
  <1> HIDE DEF u
  <1>6. \A f \in u : f[2] \notin RowTables /\ f[1] # "reference"
    <2> TAKE f \in u
    <2>1. f[2] \notin RowTables
      BY <1>5, Order DEF RowTables
    <2>2. ASSUME f[1] = "reference" PROVE FALSE
      <3>1. PICK a, b \in 1..7 : f[2] = DropOrder[a]
        BY <1>1, <1>5, <2>2, Order DEF DroppedBefore
      <3> QED BY <1>5, <3>1
    <2> QED BY <2>1, <2>2
  <1>7. Tables(u) \cap RowTables = {}
    BY <1>6, TableIs
  <1>8. \A f \in u : /\ f[1] = "width" => f[2] \notin {"document", "message"}
                     /\ ~(f[1] = "words" /\ f[2] \in {"document", "message"})
    BY <1>6 DEF RowTables
  <1>9. SchemaInv(u, 1)
    BY <1>6, <1>7, <1>8 DEF SchemaInv
  <1> QED BY <1>4, <1>9 DEF u

-----------------------------------------------------------------------------
\* Every revision that runs no statement on the rows: the next schema, and every row stays.
LEMMA Upgrades ==
  ASSUME NEW s, NEW k \in 0..14, k # 7, SchemaInv(s, k)
  PROVE  SchemaInv(Upgrade(k + 1, s), k + 1) /\ Keeps(s, Upgrade(k + 1, s), RowTables)
  <1>0. CASE k = 0
    <2>1. Upgrade(1, s) = Up1(s)
      BY DEF Upgrade
    <2> QED BY <1>0, <2>1, Up1Moves
  <1>1. CASE k = 1
    <2>1. Upgrade(2, s) = Up2(s)
      BY DEF Upgrade
    <2> QED BY <1>1, <2>1, Up2Moves
  <1>2. CASE k = 2
    <2>1. Upgrade(3, s) = Up3(s)
      BY DEF Upgrade
    <2> QED BY <1>2, <2>1, Up3Moves
  <1>3. CASE k = 3
    <2>1. Upgrade(4, s) = Up4(s)
      BY DEF Upgrade
    <2> QED BY <1>3, <2>1, Up4Moves
  <1>4. CASE k = 4
    <2>1. Upgrade(5, s) = Up5(s)
      BY DEF Upgrade
    <2> QED BY <1>4, <2>1, Up5Moves
  <1>5. CASE k = 5
    <2>1. Upgrade(6, s) = Up6(s)
      BY DEF Upgrade
    <2> QED BY <1>5, <2>1, Up6Moves
  <1>6. CASE k = 6
    <2>1. Upgrade(7, s) = Up7(s)
      BY DEF Upgrade
    <2> QED BY <1>6, <2>1, Up7Moves
  <1>8. CASE k = 8
    <2>1. Upgrade(9, s) = Up9(s)
      BY DEF Upgrade
    <2> QED BY <1>8, <2>1, Up9Moves
  <1>9. CASE k = 9
    <2>1. Upgrade(10, s) = Up10(s)
      BY DEF Upgrade
    <2> QED BY <1>9, <2>1, Up10Moves
  <1>10. CASE k = 10
    <2>1. Upgrade(11, s) = Up11(s)
      BY DEF Upgrade
    <2> QED BY <1>10, <2>1, Up11Moves
  <1>11. CASE k = 11
    <2>1. Upgrade(12, s) = Up12(s)
      BY DEF Upgrade
    <2> QED BY <1>11, <2>1, Up12Moves
  <1>12. CASE k = 12
    <2>1. Upgrade(13, s) = Up13(s)
      BY DEF Upgrade
    <2> QED BY <1>12, <2>1, Up13Moves
  <1>13. CASE k = 13
    <2>1. Upgrade(14, s) = Up14(s)
      BY DEF Upgrade
    <2> QED BY <1>13, <2>1, Up14Moves
  <1>14. CASE k = 14
    <2>1. Upgrade(15, s) = Up15(s)
      BY DEF Upgrade
    <2> QED BY <1>14, <2>1, Up15Moves
  <1> QED BY <1>0, <1>1, <1>2, <1>3, <1>4, <1>5, <1>6, <1>8, <1>9, <1>10, <1>11, <1>12, <1>13, <1>14

LEMMA Downgrades ==
  ASSUME NEW s, NEW k \in 1..15, k \notin {2, 4, 8, 9}, SchemaInv(s, k)
  PROVE  SchemaInv(Downgrade(k, s), k - 1) /\ Keeps(s, Downgrade(k, s), RowTables)
  <1>1. CASE k = 1
    <2>1. Downgrade(1, s) = Down1(s)
      BY DEF Downgrade
    <2> QED BY <1>1, <2>1, Down1Moves
  <1>3. CASE k = 3
    <2>1. Downgrade(3, s) = Down3(s)
      BY DEF Downgrade
    <2> QED BY <1>3, <2>1, Down3Moves
  <1>5. CASE k = 5
    <2>1. Downgrade(5, s) = Down5(s)
      BY DEF Downgrade
    <2> QED BY <1>5, <2>1, Down5Moves
  <1>6. CASE k = 6
    <2>1. Downgrade(6, s) = Down6(s)
      BY DEF Downgrade
    <2> QED BY <1>6, <2>1, Down6Moves
  <1>7. CASE k = 7
    <2>1. Downgrade(7, s) = Down7(s)
      BY DEF Downgrade
    <2> QED BY <1>7, <2>1, Down7Moves
  <1>10. CASE k = 10
    <2>1. Downgrade(10, s) = Down10(s)
      BY DEF Downgrade
    <2> QED BY <1>10, <2>1, Down10Moves
  <1>11. CASE k = 11
    <2>1. Downgrade(11, s) = Down11(s)
      BY DEF Downgrade
    <2> QED BY <1>11, <2>1, Down11Moves
  <1>12. CASE k = 12
    <2>1. Downgrade(12, s) = Down12(s)
      BY DEF Downgrade
    <2> QED BY <1>12, <2>1, Down12Moves
  <1>13. CASE k = 13
    <2>1. Downgrade(13, s) = Down13(s)
      BY DEF Downgrade
    <2> QED BY <1>13, <2>1, Down13Moves
  <1>14. CASE k = 14
    <2>1. Downgrade(14, s) = Down14(s)
      BY DEF Downgrade
    <2> QED BY <1>14, <2>1, Down14Moves
  <1>15. CASE k = 15
    <2>1. Downgrade(15, s) = Down15(s)
      BY DEF Downgrade
    <2> QED BY <1>15, <2>1, Down15Moves
  <1> QED BY <1>1, <1>3, <1>5, <1>6, <1>7, <1>10, <1>11, <1>12, <1>13, <1>14, <1>15

\* The revisions with statements on the rows, by their numbers.
LEMMA RowRevisions ==
  ASSUME NEW s
  PROVE  /\ Upgrade(8, s) = Up8(s) /\ Downgrade(8, s) = Down8(s)
         /\ Downgrade(2, s) = Down2(s) /\ Downgrade(4, s) = Down4(s) /\ Downgrade(9, s) = Down9(s)
  <1>1. Upgrade(8, s) = Up8(s)
    BY DEF Upgrade
  <1>2. Downgrade(8, s) = Down8(s)
    BY DEF Downgrade
  <1>3. Downgrade(2, s) = Down2(s)
    BY DEF Downgrade
  <1>4. Downgrade(4, s) = Down4(s)
    BY DEF Downgrade
  <1>5. Downgrade(9, s) = Down9(s)
    BY DEF Downgrade
  <1> QED BY <1>1, <1>2, <1>3, <1>4, <1>5

\* 0008 leaves the documents and the messages as they are.
LEMMA EightKeeps ==
  ASSUME NEW s, NEW u, NEW n \in {7, 8}, NEW m \in {7, 8}, SchemaInv(s, n), SchemaInv(u, m)
  PROVE  Keeps(s, u, {"document", "message"})
  <1>1. \A t : WordsOf(t, n) = WordsOf(t, m)
    BY DEF WordsOf, FileTypes, Roles
  <1> SUFFICES ASSUME NEW r, NEW t \in {"document", "message"}, r.table = t, Accepts(s, r)
               PROVE  Accepts(u, r)
    BY DEF Keeps
  <1>2. r.value \in WordsOf(t, n)
    BY ListAccepts
  <1>3. r.value \in WordsOf(t, m)
    BY <1>1, <1>2
  <1>4. m \in 2..15
    OBVIOUS
  <1> QED BY <1>3, <1>4, ListAccepts

-----------------------------------------------------------------------------
(***************************************************************************)
(* Sets of rows.                                                           *)
(***************************************************************************)
LEMMA SameRefl == \A o : Same(o, o)
  BY DEF Same
LEMMA SameTrans == \A o, r, q : Same(o, r) /\ Same(r, q) => Same(o, q)
  BY DEF Same
LEMMA SameNames == \A o, r : Same(o, r) => Name(o) = Name(r) /\ o.table = r.table
  BY DEF Same, Name

LEMMA FaithfulRefl == \A R, names : Faithful(R, R, names)
  BY SameRefl DEF Faithful
LEMMA FaithfulTrans ==
  \A R, S, T, names : Faithful(R, S, names) /\ Faithful(S, T, names) => Faithful(R, T, names)
  <1> SUFFICES ASSUME NEW R, NEW S, NEW T, NEW names, Faithful(R, S, names), Faithful(S, T, names)
               PROVE  Faithful(R, T, names)
    OBVIOUS
  <1>1. ASSUME NEW o \in R, Name(o) \notin names PROVE \E q \in T : Same(o, q)
    <2>1. PICK r \in S : Same(o, r)
      BY <1>1 DEF Faithful
    <2>2. PICK q \in T : Same(r, q)
      BY <1>1, <2>1, SameNames DEF Faithful
    <2> QED BY <2>1, <2>2, SameTrans
  <1>2. ASSUME NEW q \in T, Name(q) \notin names PROVE \E o \in R : Same(o, q)
    <2>1. PICK r \in S : Same(r, q)
      BY <1>2 DEF Faithful
    <2>2. PICK o \in R : Same(o, r)
      BY <1>2, <2>1, SameNames DEF Faithful
    <2> QED BY <2>1, <2>2, SameTrans
  <1> QED BY <1>1, <1>2 DEF Faithful
LEMMA FaithfulWider ==
  \A R, S, names, wider : Faithful(R, S, names) /\ names \subseteq wider => Faithful(R, S, wider)
  BY DEF Faithful

LEMMA RowsInvEmpty == \A t : RowsInv({}, t)
  BY FS_EmptySet DEF RowsInv
LEMMA RowsInvSubset == \A R, S, t : RowsInv(R, t) /\ S \subseteq R => RowsInv(S, t)
  <1> SUFFICES ASSUME NEW R, NEW S, NEW t, RowsInv(R, t), S \subseteq R PROVE RowsInv(S, t)
    OBVIOUS
  <1>1. IsFiniteSet(S)
    BY FS_Subset DEF RowsInv
  <1> QED BY <1>1 DEF RowsInv

-----------------------------------------------------------------------------
(***************************************************************************)
(* A revision is done: what its schema and the tables it has rewritten     *)
(* must be for the job to stay what JobInv says.                           *)
(***************************************************************************)
NextAt == IF job.direction = "up" THEN job.at + 1 ELSE job.at - 1

Advanced(j, after, rewritten) ==
  /\ j = [direction |-> job.direction, target |-> job.target, at |-> NextAt, stage |-> "ready",
          schema |-> after, exclusive |-> j.exclusive, shared |-> j.shared,
          view |-> [t \in DOMAIN rewritten \cup DOMAIN job.view |->
                      IF t \in DOMAIN rewritten THEN rewritten[t] ELSE job.view[t]],
          count |-> 0, carry |-> {}, overlap |-> job.overlap]
  /\ job.exclusive \cup Exclusive(job.schema, after) \subseteq j.exclusive

Good(after, rewritten, locked) ==
  /\ SchemaInv(after, NextAt)
  /\ DOMAIN rewritten \subseteq RowTables
  /\ \A t \in DOMAIN rewritten :
       /\ t \in Tables(job.schema)
       /\ RowsInv(rewritten[t], t)
       /\ \A r \in rewritten[t] : Accepts(after, r)
       /\ t \in Tables(after) => t \in locked /\ Faithful(Seen(t), rewritten[t], job.overlap)
       /\ t \notin Tables(after) => rewritten[t] = {}
  /\ \A t \in RowTables \ DOMAIN rewritten :
       /\ \A r \in Seen(t) : Accepts(after, r)
       /\ t \in Tables(job.schema) => t \in Tables(after)

LEMMA AppliedIs ==
  ASSUME JobInv, NEW after, NEW rewritten
  PROVE  Advanced(Applied(after, rewritten), after, rewritten)
  <1> DEFINE j == Applied(after, rewritten)
  <1>1. job = [direction |-> job.direction, target |-> job.target, at |-> job.at,
              stage |-> job.stage, schema |-> job.schema, exclusive |-> job.exclusive,
              shared |-> job.shared, view |-> job.view, count |-> job.count,
              carry |-> job.carry, overlap |-> job.overlap]
    BY DEF JobInv
  <1> DEFINE E == job.exclusive \cup Exclusive(job.schema, after)
             H == job.shared \cup Shared(job.schema, after)
             V == [t \in DOMAIN rewritten \cup DOMAIN job.view |->
                      IF t \in DOMAIN rewritten THEN rewritten[t] ELSE job.view[t]]
  <1>3. j = [job EXCEPT !.at = NextAt, !.stage = "ready", !.schema = after, !.count = 0,
                        !.carry = {}, !.exclusive = E, !.shared = H, !.view = V]
    BY <1>1 DEF Applied, NextAt
  <1> HIDE DEF j, E, H, V
  <1>2. j = [direction |-> job.direction, target |-> job.target, at |-> NextAt, stage |-> "ready",
          schema |-> after, exclusive |-> E, shared |-> H,
          view |-> V, count |-> 0, carry |-> {}, overlap |-> job.overlap]
    BY <1>1, <1>3
  <1>4. j.exclusive = E /\ j.shared = H
    BY <1>2
  <1> QED BY <1>2, <1>4 DEF Advanced, j, E, V

LEMMA TablesOf ==
  \A s, n, t : SchemaInv(s, n) /\ n \in Int /\ t \in RowTables => (t \in Tables(s) <=> n >= 2)
  BY DEF SchemaInv

\* The heart of it: what the transaction sees stays what is committed, but for what it has
\* rewritten and locked.
LEMMA AdvancedHolds ==
  ASSUME MigrationsInv, JobInv, job.at # job.target, NEW after, NEW rewritten,
         Advanced(job', after, rewritten), Good(after, rewritten, job'.exclusive),
         schema' = schema, rows' = rows
  PROVE  JobInv'
  <1> DEFINE D == DOMAIN rewritten
             V == [t \in D \cup DOMAIN job.view |->
                      IF t \in D THEN rewritten[t] ELSE job.view[t]]
             E == job'.exclusive
             n == NextAt
  <1>1. job' = [direction |-> job.direction, target |-> job.target, at |-> n, stage |-> "ready",
                schema |-> after, exclusive |-> E, shared |-> job'.shared, view |-> V,
                count |-> 0, carry |-> {}, overlap |-> job.overlap]
    BY DEF Advanced
  <1>2. job.exclusive \cup Exclusive(job.schema, after) \subseteq E
    BY DEF Advanced
  <1>3. n \in 0..15 /\ (IF job.direction = "up" THEN n <= job.target ELSE job.target <= n)
    BY DEF JobInv, NextAt, HeadRevision
  <1> HIDE DEF E
  <1>4. /\ job'.direction = job.direction /\ job'.target = job.target /\ job'.at = n
        /\ job'.stage = "ready" /\ job'.schema = after /\ job'.exclusive = E
        /\ job'.view = V /\ job'.count = 0 /\ job'.carry = {} /\ job'.overlap = job.overlap
    BY <1>1
  <1>5. job' = [direction |-> job'.direction, target |-> job'.target, at |-> job'.at,
                stage |-> job'.stage, schema |-> job'.schema, exclusive |-> job'.exclusive,
                shared |-> job'.shared, view |-> job'.view, count |-> job'.count,
                carry |-> job'.carry, overlap |-> job'.overlap]
    BY <1>1
  <1>6. \A t : Seen(t)' = IF t \in D THEN rewritten[t] ELSE Seen(t)
    BY <1>4 DEF Seen, RowsOf
  <1>7. DOMAIN V = D \cup DOMAIN job.view /\ D \subseteq RowTables /\ DOMAIN job.view \subseteq RowTables
    BY DEF Good, JobInv, ViewInv
  <1>8. \A t \in DOMAIN V : V[t] = IF t \in D THEN rewritten[t] ELSE job.view[t]
    OBVIOUS
  <1> HIDE DEF V
  <1>9. \A f \in schema \cup after : f[2] \notin E => f \in schema \cap after
    <2>1. \A f : f \in job.schema /\ f \notin after => f[2] \in E
      BY <1>2 DEF Exclusive
    <2>2. \A f : f \in after /\ f \notin job.schema => f[2] \in E
      BY <1>2 DEF Exclusive
    <2>3. \A f \in schema \cup job.schema : f[2] \notin E => f \in schema \cap job.schema
      BY <1>2 DEF JobInv, ViewInv
    <2> QED BY <2>1, <2>2, <2>3
  <1>10. \A t \in RowTables : (t \in Tables(after) <=> n >= 2) /\ (t \in Tables(job.schema) <=> job.at >= 2)
    <2>1. SchemaInv(after, n) /\ SchemaInv(job.schema, job.at) /\ n \in Int /\ job.at \in Int
      BY <1>3 DEF Good, JobInv
    <2> QED BY <2>1, TablesOf
  <1>11. ASSUME NEW t \in RowTables
         PROVE  /\ RowsInv(Seen(t)', t)
                /\ \A r \in Seen(t)' : Accepts(after, r)
    <2>1. CASE t \in D
      BY <1>6, <2>1 DEF Good
    <2>2. CASE t \notin D
      BY <1>6, <2>2 DEF Good, JobInv, ViewInv
    <2> QED BY <2>1, <2>2
  <1>12. ASSUME NEW t \in RowTables, t \in Tables(after), t \in DOMAIN V
         PROVE  t \in E
    <2>1. CASE t \in D
      BY <1>12, <2>1 DEF Good, E
    <2>2. CASE t \notin D
      <3>1. t \in DOMAIN job.view
        BY <1>7, <1>12, <2>2
      <3>2. CASE t \in Tables(job.schema)
        BY <1>2, <3>1, <3>2 DEF JobInv, ViewInv
      <3>3. CASE t \notin Tables(job.schema)
        <4>1. job.direction = "down"
          BY <3>1, <3>3 DEF JobInv, ViewInv
        <4>2. n >= 2 /\ ~(job.at >= 2) /\ job.at \in Int
          BY <1>10, <1>12, <3>3 DEF JobInv
        <4>3. n = job.at - 1
          BY <4>1 DEF NextAt
        <4> QED BY <4>2, <4>3
      <3> QED BY <3>2, <3>3
    <2> QED BY <2>1, <2>2
  <1>13. ASSUME NEW t \in RowTables, t \in Tables(after)
         PROVE  Faithful(RowsOf(t)', Seen(t)', job.overlap)
    <2>0. RowsOf(t)' = RowsOf(t)
      BY DEF RowsOf
    <2>1. Faithful(RowsOf(t), Seen(t), job.overlap)
      <3>1. CASE t \in Tables(job.schema)
        BY <3>1 DEF JobInv, ViewInv
      <3>2. CASE t \notin Tables(job.schema)
        <4>1. job.direction # "down"
          <5>1. SUFFICES ASSUME job.direction = "down" PROVE FALSE
            OBVIOUS
          <5>2. n >= 2 /\ ~(job.at >= 2) /\ job.at \in Int
            BY <1>10, <1>13, <3>2 DEF JobInv
          <5>3. n = job.at - 1
            BY <5>1 DEF NextAt
          <5> QED BY <5>2, <5>3
        <4>2. t \notin DOMAIN job.view /\ t \notin Tables(schema)
          BY <3>2, <4>1 DEF JobInv, ViewInv
        <4>3. RowsOf(t) = {}
          BY <4>2 DEF RowsOf, MigrationsInv, Accepts
        <4>4. Seen(t) = RowsOf(t)
          BY <4>2 DEF Seen
        <4> QED BY <4>3, <4>4, FaithfulRefl
      <3> QED BY <3>1, <3>2
    <2>2. CASE t \in D
      <3>1. Faithful(Seen(t), rewritten[t], job.overlap)
        BY <1>13, <2>2 DEF Good
      <3>2. Seen(t)' = rewritten[t]
        BY <1>6, <2>2
      <3> QED BY <2>0, <2>1, <3>1, <3>2, FaithfulTrans
    <2>3. CASE t \notin D
      <3>2. Seen(t)' = Seen(t)
        BY <1>6, <2>3
      <3> QED BY <2>0, <2>1, <3>2
    <2> QED BY <2>2, <2>3
  <1>14. ASSUME NEW t \in RowTables, t \notin Tables(after)
         PROVE  /\ t \in Tables(schema) => t \in DOMAIN V /\ job.direction = "down"
                /\ t \in DOMAIN V => V[t] = {} /\ job.direction = "down"
    <2>1. CASE t \in Tables(job.schema)
      <3>1. t \in D
        BY <1>14, <2>1 DEF Good
      <3>2. rewritten[t] = {}
        BY <1>14, <3>1 DEF Good
      <3>3. job.direction = "down"
        <4>1. ~(n >= 2) /\ job.at >= 2 /\ job.at \in Int
          BY <1>10, <1>14, <2>1 DEF JobInv
        <4>2. job.direction = "up" => n = job.at + 1
          BY DEF NextAt
        <4>3. job.direction # "up"
          BY <4>1, <4>2
        <4> QED BY <4>3 DEF JobInv
      <3> QED BY <1>7, <1>8, <3>1, <3>2, <3>3
    <2>2. CASE t \notin Tables(job.schema)
      <3>1. /\ t \in Tables(schema) => t \in DOMAIN job.view /\ job.direction = "down"
            /\ t \in DOMAIN job.view => job.view[t] = {} /\ job.direction = "down"
        BY <2>2 DEF JobInv, ViewInv
      <3>2. CASE t \in D
        BY <2>2, <3>2 DEF Good
      <3>3. CASE t \notin D
        <4>1. t \in DOMAIN V => t \in DOMAIN job.view /\ V[t] = job.view[t]
          BY <1>7, <1>8, <3>3
        <4>2. t \in DOMAIN job.view => t \in DOMAIN V
          BY <1>7
        <4> QED BY <3>1, <4>1, <4>2
      <3> QED BY <3>2, <3>3
    <2> QED BY <2>1, <2>2
  <1>15. ViewInv'
    <2>1. (DOMAIN job'.view \subseteq RowTables)
      BY <1>4, <1>7
    <2> QED BY <1>4, <1>9, <1>11, <1>12, <1>13, <1>14, <2>1 DEF ViewInv
  <1>16. StageInv'
    BY <1>4 DEF StageInv
  <1>17. SchemaInv(after, n)
    BY DEF Good
  <1> QED BY <1>3, <1>4, <1>5, <1>15, <1>16, <1>17 DEF JobInv, HeadRevision

-----------------------------------------------------------------------------
(***************************************************************************)
(* The steps of the migration: only the job changes, or it is over.        *)
(***************************************************************************)
LEMMA JobSteps ==
  ASSUME MigrationsInv, UNCHANGED <<schema, revision, rows, outcome, owed, exposed>>, JobInv'
  PROVE  MigrationsInv'
  <1>1. \A t : RowsOf(t)' = RowsOf(t)
    BY DEF RowsOf
  <1>2. LossOnlyInTheWindow' /\ FailsForACause'
    BY DEF MigrationsInv, LossOnlyInTheWindow, FailsForACause
  <1> QED BY <1>1, <1>2 DEF MigrationsInv

\* A failure rolls everything back, and needs a cause.
LEMMA Aborts ==
  ASSUME MigrationsInv, NEW cause, Abort(cause), cause # "still referenced",
         cause \in {"mismatch", "cast", "constraint"} => job.overlap # {}
  PROVE  MigrationsInv'
  <1>1. \A t : RowsOf(t)' = RowsOf(t)
    BY DEF RowsOf, Abort
  <1>2. LossOnlyInTheWindow'
    BY DEF MigrationsInv, LossOnlyInTheWindow, Abort
  <1>3. FailsForACause'
    BY DEF FailsForACause, Abort
  <1> QED BY <1>1, <1>2, <1>3 DEF MigrationsInv, Abort

LEMMA Runs ==
  ASSUME MigrationsInv, NEW stage, Running(stage)
  PROVE  JobInv /\ job.at # job.target /\ job.stage = stage
  BY DEF MigrationsInv, Running

LEMMA StartHolds ==
  ASSUME MigrationsInv, NEW target \in Targets, Start(target)
  PROVE  MigrationsInv'
  <1> DEFINE d == IF target > revision THEN "up" ELSE "down"
             V == [t \in {} |-> {}]
  <1>0. target \in 0..15 /\ revision \in 0..15 /\ target # revision
    BY MigrationsAssumption DEF MigrationsInv, Start, HeadRevision
  <1>1. DOMAIN <<>> = {}
    OBVIOUS
  <1>2. job' = [direction |-> d, target |-> target,
               at |-> revision, stage |-> "ready", schema |-> schema, exclusive |-> {},
               shared |-> {}, view |-> <<>>, count |-> 0, carry |-> {}, overlap |-> {}]
    BY DEF Start
  <1>3. d \in {"up", "down"} /\ (IF d = "up" THEN revision <= target ELSE target <= revision)
    BY <1>0
  <1> HIDE DEF d
  <1>4. /\ job'.direction = d /\ job'.target = target /\ job'.at = revision
        /\ job'.stage = "ready" /\ job'.schema = schema /\ job'.exclusive = {}
        /\ job'.view = <<>> /\ job'.count = 0 /\ job'.carry = {} /\ job'.overlap = {}
    BY <1>2
  <1>5. job' = [direction |-> job'.direction, target |-> job'.target, at |-> job'.at,
                stage |-> job'.stage, schema |-> job'.schema, exclusive |-> job'.exclusive,
                shared |-> job'.shared, view |-> job'.view, count |-> job'.count,
                carry |-> job'.carry, overlap |-> job'.overlap]
    BY <1>2
  <1>6. schema' = schema /\ \A t : RowsOf(t)' = RowsOf(t)
    BY DEF RowsOf, Start
  <1>7. \A t : Seen(t)' = RowsOf(t)
    BY <1>1, <1>4, <1>6 DEF Seen
  <1>8. ViewInv'
    <2>1. ASSUME NEW t \in RowTables
          PROVE  /\ RowsInv(RowsOf(t), t)
                 /\ \A r \in RowsOf(t) : Accepts(schema, r)
                 /\ Faithful(RowsOf(t), RowsOf(t), {})
      BY FaithfulRefl DEF MigrationsInv, RowsOf
    <2>2. ASSUME NEW t \in RowTables, t \notin Tables(schema)
          PROVE  /\ (t \in Tables(schema) => t \in DOMAIN job'.view /\ d = "down")
                 /\ (t \in DOMAIN job'.view => job'.view[t] = {} /\ d = "down")
      BY <1>1, <1>4, <2>2
    <2>3. DOMAIN job'.view = {}
      BY <1>1, <1>4
    <2> QED BY <1>4, <1>6, <1>7, <2>1, <2>2, <2>3 DEF ViewInv
  <1>9. StageInv'
    BY <1>4 DEF StageInv
  <1>10. JobInv'
    BY <1>0, <1>3, <1>4, <1>5, <1>8, <1>9 DEF JobInv, MigrationsInv, HeadRevision
  <1>11. LossOnlyInTheWindow' /\ FailsForACause'
    BY DEF MigrationsInv, LossOnlyInTheWindow, FailsForACause, Start
  <1> QED BY <1>6, <1>10, <1>11 DEF MigrationsInv, Start

\* The schema of the next revision, and what it accepts of the rows no statement touches.
LEMMA Untouched ==
  ASSUME JobInv, NEW after, SchemaInv(after, NextAt), job.at # job.target,
         ~(job.direction = "down" /\ job.at = 2),
         NEW T \in SUBSET RowTables, Keeps(job.schema, after, T)
  PROVE  \A t \in T : /\ \A r \in Seen(t) : Accepts(after, r)
                      /\ t \in Tables(job.schema) => t \in Tables(after)
  <1> TAKE t \in T
  <1>1. \A r \in Seen(t) : r.table = t /\ Accepts(job.schema, r)
    BY DEF JobInv, ViewInv, RowsInv
  <1>2. NextAt \in Int /\ job.at \in Int /\ (job.at >= 2 => NextAt >= 2)
    BY DEF NextAt, JobInv, HeadRevision
  <1>3. t \in Tables(job.schema) => t \in Tables(after)
    BY <1>2, TablesOf DEF JobInv
  <1> QED BY <1>1, <1>3 DEF Keeps

LEMMA ReviseHolds ==
  ASSUME MigrationsInv, Revise
  PROVE  MigrationsInv'
  <1> DEFINE after == IF job.direction = "up" THEN Upgrade(Current, job.schema)
                      ELSE Downgrade(Current, job.schema)
             E == <<>>
  <1>1. JobInv /\ job.at # job.target
    BY Runs DEF Revise
  <1>2. job' = Applied(after, E) /\ UNCHANGED <<schema, revision, rows, outcome, owed, exposed>>
    BY DEF Revise, StepTo
  <1>3. job.at \in 0..15 /\ job.target \in 0..15 /\ SchemaInv(job.schema, job.at)
    BY <1>1 DEF JobInv, HeadRevision
  <1>4. SchemaInv(after, NextAt) /\ Keeps(job.schema, after, RowTables)
    <2>1. CASE job.direction = "up"
      <3>1. job.at \in 0..14 /\ job.at # 7
        BY <1>1, <1>3, <2>1 DEF Revise, HasRowStatements, Current, JobInv
      <3> QED BY <1>3, <2>1, <3>1, Upgrades DEF Current, NextAt
    <2>2. CASE job.direction # "up"
      <3>1. job.direction = "down"
        BY <1>1, <2>2 DEF JobInv
      <3>2. job.at \in 1..15 /\ job.at \notin {2, 4, 8, 9}
        BY <1>1, <1>3, <2>2, <3>1 DEF Revise, HasRowStatements, Current, JobInv
      <3> QED BY <1>3, <2>2, <3>2, Downgrades DEF Current, NextAt
    <2> QED BY <2>1, <2>2
  <1>5. ~(job.direction = "down" /\ job.at = 2)
    BY DEF Revise, HasRowStatements, Current
  <1> HIDE DEF after
  <1>6. DOMAIN E = {}
    OBVIOUS
  <1> HIDE DEF E
  <1>7. \A t \in RowTables : /\ \A r \in Seen(t) : Accepts(after, r)
                             /\ t \in Tables(job.schema) => t \in Tables(after)
    BY <1>1, <1>4, <1>5, Untouched
  <1>8. Good(after, E, job'.exclusive)
    BY <1>4, <1>6, <1>7 DEF Good
  <1>9. Advanced(job', after, E)
    BY <1>1, <1>2, AppliedIs
  <1>10. JobInv'
    BY <1>1, <1>2, <1>8, <1>9, AdvancedHolds
  <1> QED BY <1>2, <1>10, JobSteps

\* What Validated leaves.
LEMMA ValidatedHolds ==
  ASSUME MigrationsInv, JobInv, job.at # job.target, NEW after, NEW rewritten,
         StepTo(Applied(after, rewritten)), Good(after, rewritten, Exclusive(job.schema, after))
  PROVE  MigrationsInv'
  <1>1. Advanced(job', after, rewritten) /\ UNCHANGED <<schema, revision, rows, outcome, owed, exposed>>
    BY AppliedIs DEF StepTo
  <1>2. Exclusive(job.schema, after) \subseteq job'.exclusive
    BY <1>1 DEF Advanced
  <1>3. Good(after, rewritten, job'.exclusive)
    BY <1>2 DEF Good
  <1>4. JobInv'
    BY <1>1, <1>3, AdvancedHolds
  <1> QED BY <1>1, <1>4, JobSteps

LEMMA DropEverythingHolds ==
  ASSUME MigrationsInv, DropEverything
  PROVE  MigrationsInv'
  <1> DEFINE after == Downgrade(2, job.schema)
             E == [t \in RowTables |-> {}]
  <1>1. JobInv /\ job.at # job.target /\ job.direction = "down" /\ job.at = 2
    BY Runs DEF DropEverything, Current
  <1>2. SchemaInv(job.schema, 2)
    BY <1>1 DEF JobInv
  <1>3. SchemaInv(after, 1) /\ DropsInOrder(job.schema)
    BY <1>2, Down2Moves, RowRevisions
  <1>4. StepTo(Applied(after, E))
    BY <1>3 DEF DropEverything
  <1> HIDE DEF after
  <1>5. DOMAIN E = RowTables /\ \A t \in RowTables : E[t] = {}
    OBVIOUS
  <1> HIDE DEF E
  <1>6. NextAt = 1
    BY <1>1 DEF NextAt
  <1>7. \A t \in RowTables : t \in Tables(job.schema) /\ t \notin Tables(after)
    BY <1>2, <1>3 DEF SchemaInv
  <1>8. Good(after, E, Exclusive(job.schema, after))
    BY <1>3, <1>5, <1>6, <1>7, RowsInvEmpty DEF Good
  <1> QED BY <1>1, <1>4, <1>8, ValidatedHolds

-----------------------------------------------------------------------------
(***************************************************************************)
(* A statement inside a revision: a stage on, with something counted or    *)
(* set aside.                                                              *)
(***************************************************************************)
Staged(j, stage, count, carry) ==
  j = [direction |-> job.direction, target |-> job.target, at |-> job.at, stage |-> stage,
       schema |-> job.schema, exclusive |-> job.exclusive, shared |-> job.shared,
       view |-> job.view, count |-> count, carry |-> carry, overlap |-> job.overlap]

LEMMA StagedHolds ==
  ASSUME MigrationsInv, JobInv, NEW stage \in {"counted", "checked", "staged", "reclassified"},
         NEW count \in Nat, NEW carry, Staged(job', stage, count, carry), StageInv',
         UNCHANGED <<schema, revision, rows, outcome, owed, exposed>>
  PROVE  MigrationsInv'
  <1>1. /\ job'.direction = job.direction /\ job'.target = job.target /\ job'.at = job.at
        /\ job'.stage = stage /\ job'.schema = job.schema /\ job'.exclusive = job.exclusive
        /\ job'.view = job.view /\ job'.count = count /\ job'.carry = carry
        /\ job'.overlap = job.overlap
    BY DEF Staged
  <1>2. job' = [direction |-> job'.direction, target |-> job'.target, at |-> job'.at,
                stage |-> job'.stage, schema |-> job'.schema, exclusive |-> job'.exclusive,
                shared |-> job'.shared, view |-> job'.view, count |-> job'.count,
                carry |-> job'.carry, overlap |-> job'.overlap]
    BY DEF Staged
  <1>3. \A t : RowsOf(t)' = RowsOf(t) /\ Seen(t)' = Seen(t)
    BY <1>1 DEF RowsOf, Seen
  <1>4. ViewInv'
    BY <1>1, <1>3 DEF JobInv, ViewInv
  <1>5. JobInv'
    BY <1>1, <1>2, <1>4 DEF JobInv
  <1> QED BY <1>5, JobSteps

\* What the others' conditions on the stage come down to.
LEMMA StageIs ==
  ASSUME JobInv, NEW stage \in {"counted", "checked", "staged", "reclassified"},
         NEW count \in Nat, NEW carry, Staged(job', stage, count, carry), rows' = rows
  PROVE  /\ job'.direction = job.direction /\ job'.target = job.target /\ job'.at = job.at
         /\ job'.stage = stage /\ job'.count = count /\ job'.carry = carry
         /\ job'.overlap = job.overlap /\ Current' = Current
         /\ \A t : Seen(t)' = Seen(t)
  <1>1. /\ job'.direction = job.direction /\ job'.target = job.target /\ job'.at = job.at
        /\ job'.stage = stage /\ job'.count = count /\ job'.carry = carry
        /\ job'.overlap = job.overlap /\ job'.view = job.view
    BY DEF Staged
  <1>2. \A t : Seen(t)' = Seen(t)
    BY <1>1 DEF RowsOf, Seen
  <1> QED BY <1>1, <1>2 DEF Current

LEMMA ChunksAre ==
  ASSUME JobInv
  PROVE  /\ RowsInv(Seen("document_chunk"), "document_chunk")
         /\ Cardinality(Seen("document_chunk")) \in Nat
         /\ Cardinality(Seen("document_chunk")) = 0 <=> Seen("document_chunk") = {}
         /\ Cardinality({}) = 0
  <1>1. RowsInv(Seen("document_chunk"), "document_chunk")
    BY DEF JobInv, ViewInv, RowTables
  <1>2. IsFiniteSet(Seen("document_chunk"))
    BY <1>1 DEF RowsInv
  <1> QED BY <1>1, <1>2, FS_CardinalityType, FS_EmptySet

LEMMA CountChunksHolds ==
  ASSUME MigrationsInv, CountChunks
  PROVE  MigrationsInv'
  <1> DEFINE chunks == Seen("document_chunk")
             c == Cardinality(chunks)
  <1>1. JobInv /\ job.at # job.target /\ job.stage = "ready" /\ Current = 8
    BY Runs DEF CountChunks
  <1>2. job' = [job EXCEPT !.stage = "counted", !.count = c]
        /\ UNCHANGED <<schema, revision, rows, outcome, owed, exposed>>
    BY DEF CountChunks, StepTo
  <1>3. c \in Nat /\ (c = 0 => chunks = {}) /\ job.carry = {}
    BY <1>1, ChunksAre DEF JobInv, StageInv
  <1> HIDE DEF c, chunks
  <1>4. Staged(job', "counted", c, {})
    BY <1>1, <1>2, <1>3 DEF JobInv, Staged
  <1>5. /\ job'.direction = job.direction /\ job'.target = job.target /\ job'.at = job.at
        /\ job'.stage = "counted" /\ job'.count = c /\ job'.carry = {}
        /\ job'.overlap = job.overlap /\ Current' = Current
        /\ \A t : Seen(t)' = Seen(t)
    BY <1>1, <1>2, <1>3, <1>4, StageIs
  <1>6. Seen("document_chunk")' = chunks
    BY <1>5 DEF chunks
  <1>7. ~Carries(c) => Faithful(chunks, {}, job.overlap)
    BY <1>3, FaithfulRefl DEF Carries
  <1>8. StageInv'
    BY <1>1, <1>5, <1>6, <1>7 DEF StageInv, c
  <1> QED BY <1>1, <1>2, <1>3, <1>4, <1>8, StagedHolds

LEMMA CheckWidthsHolds ==
  ASSUME MigrationsInv, CheckWidths
  PROVE  MigrationsInv'
  <1> DEFINE chunks == Seen("document_chunk")
             c == job.count
  <1>1. JobInv /\ job.at # job.target /\ job.stage = "counted" /\ Carries(c)
    BY Runs DEF CheckWidths
  <1>2. /\ Current = 8 /\ (job.overlap = {} => c = Cardinality(chunks))
        /\ job.carry = {} /\ c \in Nat /\ (~Carries(c) => Faithful(chunks, {}, job.overlap))
    BY <1>1 DEF JobInv, StageInv
  <1>3. CASE \E r \in chunks : r.value # LegacyDimension
    <2>1. Abort("width")
      BY <1>3 DEF CheckWidths
    <2> QED BY <2>1, Aborts
  <1>4. CASE \A r \in chunks : r.value = LegacyDimension
    <2>1. job' = [job EXCEPT !.stage = "checked"]
          /\ UNCHANGED <<schema, revision, rows, outcome, owed, exposed>>
      BY <1>4 DEF CheckWidths, StepTo
    <2>2. Staged(job', "checked", c, {})
      BY <1>1, <1>2, <2>1 DEF JobInv, Staged
    <2>5. /\ job'.direction = job.direction /\ job'.target = job.target /\ job'.at = job.at
          /\ job'.stage = "checked" /\ job'.count = c /\ job'.carry = {}
          /\ job'.overlap = job.overlap /\ Current' = Current
          /\ \A t : Seen(t)' = Seen(t)
      BY <1>1, <1>2, <2>1, <2>2, StageIs
    <2>6. Seen("document_chunk")' = chunks
      BY <2>5
    <2> HIDE DEF c, chunks
    <2>8. StageInv'
      BY <1>1, <1>2, <1>4, <2>5, <2>6 DEF StageInv
    <2> QED BY <1>1, <1>2, <2>1, <2>2, <2>8, StagedHolds
  <1> QED BY <1>3, <1>4

LEMMA StageChunksHolds ==
  ASSUME MigrationsInv, StageChunks
  PROVE  MigrationsInv'
  <1> DEFINE chunks == Seen("document_chunk")
             c == job.count
  <1>1. /\ JobInv /\ job.at # job.target
        /\ job.stage = IF job.direction = "up" THEN "counted" ELSE "checked"
    BY Runs DEF StageChunks
  <1>2. /\ Current = 8 /\ (job.overlap = {} => c = Cardinality(chunks))
        /\ c \in Nat /\ RowsInv(chunks, "document_chunk")
        /\ job.direction = "down" /\ job.overlap = {} => \A r \in chunks : r.value = LegacyDimension
    BY <1>1, ChunksAre DEF JobInv, StageInv
  <1>3. job' = [job EXCEPT !.stage = "staged", !.carry = chunks]
        /\ UNCHANGED <<schema, revision, rows, outcome, owed, exposed>>
    BY DEF StageChunks, StepTo
  <1>4. Staged(job', "staged", c, chunks)
    <2> HIDE DEF chunks
    <2> QED BY <1>1, <1>3 DEF JobInv, Staged
  <1>5. /\ job'.direction = job.direction /\ job'.target = job.target /\ job'.at = job.at
        /\ job'.stage = "staged" /\ job'.count = c /\ job'.carry = chunks
        /\ job'.overlap = job.overlap /\ Current' = Current
        /\ \A t : Seen(t)' = Seen(t)
    BY <1>1, <1>2, <1>3, <1>4, StageIs
  <1>6. Seen("document_chunk")' = chunks
    BY <1>5
  <1>7. Faithful(chunks, chunks, job.overlap)
    BY FaithfulRefl
  <1> HIDE DEF c, chunks
  <1>8. StageInv'
    BY <1>1, <1>2, <1>5, <1>6, <1>7 DEF StageInv
  <1> QED BY <1>1, <1>2, <1>3, <1>4, <1>8, StagedHolds

LEMMA ReclassifyMdxHolds ==
  ASSUME MigrationsInv, ReclassifyMdx
  PROVE  MigrationsInv'
  <1> DEFINE docs == Seen("document")
             c == job.count
  <1>1. JobInv /\ job.at # job.target /\ job.direction = "down" /\ job.at = 4 /\ c \in Nat
    BY Runs DEF ReclassifyMdx, Current, JobInv
  <1>3. job' = [job EXCEPT !.stage = "reclassified", !.carry = docs]
        /\ UNCHANGED <<schema, revision, rows, outcome, owed, exposed>>
    BY DEF ReclassifyMdx, StepTo
  <1>4. Staged(job', "reclassified", c, docs)
    <2> HIDE DEF docs
    <2> QED BY <1>1, <1>3 DEF JobInv, Staged
  <1>5. /\ job'.direction = job.direction /\ job'.target = job.target /\ job'.at = job.at
        /\ job'.stage = "reclassified" /\ job'.count = c /\ job'.carry = docs
        /\ job'.overlap = job.overlap /\ Current' = Current
        /\ \A t : Seen(t)' = Seen(t)
    BY <1>1, <1>3, <1>4, StageIs
  <1>6. Seen("document")' = docs
    BY <1>5
  <1> HIDE DEF c, docs
  <1>8. StageInv'
    BY <1>1, <1>5, <1>6 DEF StageInv
  <1> QED BY <1>1, <1>3, <1>4, <1>8, StagedHolds

-----------------------------------------------------------------------------
(***************************************************************************)
(* The statements that rewrite a table.                                    *)
(***************************************************************************)
\* Every row is in the image under its own name, with a value its downgrade says.
Rewrites(R, S) ==
  /\ \A o \in R : \E r \in S : Same(o, r)
  /\ \A r \in S : \E o \in R : Same(o, r)

LEMMA RewritesIs == \A R, S, names : Rewrites(R, S) => Faithful(R, S, names)
  BY DEF Rewrites, Faithful

LEMMA MdxToMdIs ==
  ASSUME NEW t, NEW r, r = [table |-> t, id |-> r.id, value |-> r.value]
  PROVE  /\ MdxToMd(r) = [table |-> t, id |-> r.id,
                          value |-> IF r.value = "mdx" THEN "md" ELSE r.value]
         /\ Same(r, MdxToMd(r))
  <1>1. MdxToMd(r) = [table |-> t, id |-> r.id,
                      value |-> IF r.value = "mdx" THEN "md" ELSE r.value]
    BY DEF MdxToMd
  <1> QED BY <1>1 DEF Same, Name

LEMMA StaffToAssistantIs ==
  ASSUME NEW t, NEW r, r = [table |-> t, id |-> r.id, value |-> r.value]
  PROVE  /\ StaffToAssistant(r) = [table |-> t, id |-> r.id,
                          value |-> IF r.value = "staff" THEN "assistant" ELSE r.value]
         /\ Same(r, StaffToAssistant(r))
  <1>1. StaffToAssistant(r) = [table |-> t, id |-> r.id,
                      value |-> IF r.value = "staff" THEN "assistant" ELSE r.value]
    BY DEF StaffToAssistant
  <1> QED BY <1>1 DEF Same, Name

LEMMA ImageIsFinite ==
  ASSUME NEW R, IsFiniteSet(R)
  PROVE  IsFiniteSet({MdxToMd(r) : r \in R}) /\ IsFiniteSet({StaffToAssistant(r) : r \in R})
  <1>1. IsFiniteSet({MdxToMd(r) : r \in R})
    <2> DEFINE S == {MdxToMd(r) : r \in R}
               f == [r \in R |-> MdxToMd(r)]
    <2>1. f \in Surjection(R, S)
      BY DEF Surjection
    <2> HIDE DEF f, S
    <2>2. IsFiniteSet(S)
      BY <2>1, FS_Surjection
    <2> QED BY <2>2 DEF S
  <1>2. IsFiniteSet({StaffToAssistant(r) : r \in R})
    <2> DEFINE S == {StaffToAssistant(r) : r \in R}
               f == [r \in R |-> StaffToAssistant(r)]
    <2>1. f \in Surjection(R, S)
      BY DEF Surjection
    <2> HIDE DEF f, S
    <2>2. IsFiniteSet(S)
      BY <2>1, FS_Surjection
    <2> QED BY <2>2 DEF S
  <1> QED BY <1>1, <1>2

\* The rows DropStaffRole writes.
LEMMA StaffRows ==
  ASSUME NEW R, NEW t, RowsInv(R, t)
  PROVE  LET S == {StaffToAssistant(r) : r \in R}
         IN  /\ RowsInv(S, t) /\ Rewrites(R, S)
             /\ \A r \in S : \E o \in R :
                  r.table = t /\ r.value = IF o.value = "staff" THEN "assistant" ELSE o.value
  <1> DEFINE S == {StaffToAssistant(r) : r \in R}
             g(r) == StaffToAssistant(r)
  <1>1. \A r \in R : /\ r = [table |-> t, id |-> r.id, value |-> r.value]
                     /\ g(r) = [table |-> t, id |-> r.id,
                                value |-> IF r.value = "staff" THEN "assistant" ELSE r.value]
                     /\ Same(r, g(r))
    BY StaffToAssistantIs DEF RowsInv
  <1>2. IsFiniteSet(S)
    BY ImageIsFinite DEF RowsInv
  <1>3. (\A r \in R : g(r) \in S) /\ (\A q \in S : \E r \in R : q = g(r))
    OBVIOUS
  <1> HIDE DEF S, g
  <1>4. \A r, q \in R : Name(g(r)) = Name(g(q)) => r = q
    BY <1>1, SameNames DEF RowsInv
  <1>5. \A q \in S : q = [table |-> t, id |-> q.id, value |-> q.value]
    BY <1>1, <1>3
  <1>6. RowsInv(S, t)
    BY <1>2, <1>3, <1>4, <1>5 DEF RowsInv
  <1>7. Rewrites(R, S)
    BY <1>1, <1>3 DEF Rewrites
  <1>8. \A r \in S : \E o \in R :
          r.table = t /\ r.value = IF o.value = "staff" THEN "assistant" ELSE o.value
    BY <1>1, <1>3
  <1> QED BY <1>6, <1>7, <1>8 DEF S

\* What the update has taken, and what was written after it.
Reclassified(R, C) == {MdxToMd(r) : r \in C} \cup (R \ C)

\* No mdx is left.
OfMd(R, S, t) ==
  \A r \in S : \E o \in R : r.table = t /\ r.value = IF o.value = "mdx" THEN "md" ELSE o.value

\* The rows NarrowFileTypes writes.
LEMMA MdxRows ==
  ASSUME NEW R, NEW t, NEW C, RowsInv(R, t), C \subseteq R
  PROVE  LET S == Reclassified(R, C)
         IN  /\ RowsInv(S, t) /\ Rewrites(R, S)
             /\ C = R => OfMd(R, S, t)
  <1> DEFINE I == {MdxToMd(r) : r \in C}
             S == I \cup (R \ C)
             g(r) == MdxToMd(r)
  <1>1. \A r \in R : /\ r = [table |-> t, id |-> r.id, value |-> r.value]
                     /\ g(r) = [table |-> t, id |-> r.id,
                                value |-> IF r.value = "mdx" THEN "md" ELSE r.value]
                     /\ Same(r, g(r))
    BY MdxToMdIs DEF RowsInv
  <1>2. IsFiniteSet(S)
    <2>1. IsFiniteSet(C) /\ IsFiniteSet(R \ C)
      BY FS_Subset DEF RowsInv
    <2>2. IsFiniteSet(I)
      BY <2>1, ImageIsFinite
    <2> HIDE DEF I
    <2> QED BY <2>1, <2>2, FS_Union
  <1>3. /\ \A r \in C : g(r) \in S
        /\ \A r \in R : r \notin C => r \in S
        /\ \A q \in S : (\E r \in C : q = g(r)) \/ (q \in R /\ q \notin C)
    OBVIOUS
  <1> HIDE DEF S, g, I
  <1>4. \A q \in S : \E o \in R : Same(o, q) /\ (o \in C => q = g(o)) /\ (o \notin C => q = o)
    BY <1>1, <1>3, SameRefl
  <1>5. \A q \in S : q = [table |-> t, id |-> q.id, value |-> q.value]
    BY <1>1, <1>3
  <1>6. ASSUME NEW p \in S, NEW q \in S, Name(p) = Name(q) PROVE p = q
    <2>1. PICK a \in R : Same(a, p) /\ (a \in C => p = g(a)) /\ (a \notin C => p = a)
      BY <1>4
    <2>2. PICK b \in R : Same(b, q) /\ (b \in C => q = g(b)) /\ (b \notin C => q = b)
      BY <1>4
    <2>3. a = b
      BY <1>6, <2>1, <2>2, SameNames DEF RowsInv
    <2> QED BY <2>1, <2>2, <2>3
  <1>7. RowsInv(S, t)
    BY <1>2, <1>5, <1>6 DEF RowsInv
  <1>8. Rewrites(R, S)
    BY <1>1, <1>3, <1>4, SameRefl DEF Rewrites
  <1>9. C = R => \A r \in S : \E o \in R :
          r.table = t /\ r.value = IF o.value = "mdx" THEN "md" ELSE o.value
    BY <1>1, <1>3
  <1> QED BY <1>7, <1>8, <1>9 DEF S, I, Reclassified, OfMd

LEMMA DropStaffRoleHolds ==
  ASSUME MigrationsInv, DropStaffRole
  PROVE  MigrationsInv'
  <1> DEFINE after == Downgrade(9, job.schema)
             R == Seen("message")
             S == {StaffToAssistant(r) : r \in R}
             E == [t \in {"message"} |-> {StaffToAssistant(r) : r \in Seen(t)}]
             O == {"document_chunk", "document"}
  <1>1. JobInv /\ job.at # job.target /\ job.direction = "down" /\ job.at = 9
    BY Runs DEF DropStaffRole, Current
  <1>2. SchemaInv(job.schema, 9) /\ NextAt = 8
    BY <1>1 DEF JobInv, NextAt
  <1>3. /\ SchemaInv(after, 8) /\ Keeps(job.schema, after, O)
        /\ "message" \in Exclusive(job.schema, after)
    BY <1>2, Down9Moves, RowRevisions
  <1>4. Validated(after, E)
    BY DEF DropStaffRole
  <1> HIDE DEF after
  <1>5. DOMAIN E = {"message"} /\ E["message"] = S
    OBVIOUS
  <1>6. RowsInv(R, "message") /\ \A r \in R : r.table = "message" /\ Accepts(job.schema, r)
    BY <1>1 DEF JobInv, ViewInv, RowTables, RowsInv
  <1> HIDE DEF E, R
  <1>7. /\ RowsInv(S, "message") /\ Rewrites(R, S)
        /\ \A r \in S : \E o \in R :
             r.table = "message" /\ r.value = IF o.value = "staff" THEN "assistant" ELSE o.value
    BY <1>6, StaffRows
  <1> HIDE DEF S
  <1>8. \A r \in S : Accepts(after, r)
    <2> TAKE r \in S
    <2>1. PICK o \in R : r.table = "message" /\ r.value = IF o.value = "staff" THEN "assistant" ELSE o.value
      BY <1>7
    <2>2. o.value \in WordsOf("message", 9)
      BY <1>2, <1>6, ListAccepts
    <2>3. r.value \in WordsOf("message", 8)
      BY <2>1, <2>2 DEF WordsOf, Roles
    <2> QED BY <1>3, <2>1, <2>3, ListAccepts
  <1>9. StepTo(Applied(after, E))
    BY <1>4, <1>5, <1>8 DEF Validated
  <1>10. \A t \in O : /\ \A r \in Seen(t) : Accepts(after, r)
                      /\ t \in Tables(job.schema) => t \in Tables(after)
    BY <1>1, <1>2, <1>3, Untouched DEF RowTables
  <1>11. Faithful(R, S, job.overlap)
    BY <1>7, RewritesIs
  <1>12. "message" \in Tables(job.schema) /\ "message" \in Tables(after)
    BY <1>2, <1>3 DEF SchemaInv, RowTables
  <1>13. RowTables \ {"message"} = O /\ {"message"} \subseteq RowTables
    BY DEF RowTables
  <1>14. Good(after, E, Exclusive(job.schema, after))
    <2>1. \A t \in RowTables \ DOMAIN E : t \in O
      BY <1>5, <1>13
    <2>2. \A t \in DOMAIN E : t = "message" /\ E[t] = S
      BY <1>5
    <2> QED BY <1>2, <1>3, <1>5, <1>7, <1>8, <1>10, <1>11, <1>12, <1>13, <2>1, <2>2 DEF Good, R
  <1> QED BY <1>1, <1>9, <1>14, ValidatedHolds

LEMMA NarrowFileTypesHolds ==
  ASSUME MigrationsInv, NarrowFileTypes
  PROVE  MigrationsInv'
  <1> DEFINE after == Downgrade(4, job.schema)
             R == Seen("document")
             S == Reclassified(R, job.carry)
             E == [t \in {"document"} |-> S]
             O == {"document_chunk", "message"}
  <1>1. JobInv /\ job.at # job.target /\ job.stage = "reclassified"
    BY Runs DEF NarrowFileTypes
  <1>0. /\ job.direction = "down" /\ job.at = 4 /\ job.carry \subseteq R
        /\ job.overlap = {} => job.carry = R
    BY <1>1 DEF JobInv, StageInv
  <1>2. SchemaInv(job.schema, 4) /\ NextAt = 3
    BY <1>0, <1>1 DEF JobInv, NextAt
  <1>3. /\ SchemaInv(after, 3) /\ Keeps(job.schema, after, O)
        /\ "document" \in Exclusive(job.schema, after)
    BY <1>2, Down4Moves, RowRevisions
  <1>4. Validated(after, E)
    BY DEF NarrowFileTypes, Reclassified
  <1> HIDE DEF after
  <1>6. RowsInv(R, "document") /\ \A r \in R : r.table = "document" /\ Accepts(job.schema, r)
    BY <1>1 DEF JobInv, ViewInv, RowTables, RowsInv
  <1> HIDE DEF R
  <1>7. /\ RowsInv(S, "document") /\ Rewrites(R, S)
        /\ job.carry = R => OfMd(R, S, "document")
    BY <1>0, <1>6, MdxRows
  <1> HIDE DEF S
  <1>5. DOMAIN E = {"document"} /\ E["document"] = S
    OBVIOUS
  <1> HIDE DEF E
  <1>8. ASSUME job.overlap = {} PROVE \A r \in S : Accepts(after, r)
    <2> TAKE r \in S
    <2>1. PICK o \in R : r.table = "document" /\ r.value = IF o.value = "mdx" THEN "md" ELSE o.value
      BY <1>0, <1>7, <1>8 DEF OfMd
    <2>2. o.value \in WordsOf("document", 4)
      BY <1>2, <1>6, ListAccepts
    <2>3. r.value \in WordsOf("document", 3)
      BY <2>1, <2>2 DEF WordsOf, FileTypes
    <2> QED BY <1>3, <2>1, <2>3, ListAccepts
  <1>10. \A t \in O : /\ \A r \in Seen(t) : Accepts(after, r)
                      /\ t \in Tables(job.schema) => t \in Tables(after)
    BY <1>0, <1>1, <1>2, <1>3, Untouched DEF RowTables
  <1>11. Faithful(R, S, job.overlap)
    BY <1>7, RewritesIs
  <1>12. "document" \in Tables(job.schema) /\ "document" \in Tables(after)
    BY <1>2, <1>3 DEF SchemaInv, RowTables
  <1>13. RowTables \ {"document"} = O /\ {"document"} \subseteq RowTables
    BY DEF RowTables
  <1>9. CASE \A r \in S : Accepts(after, r)
    <2>3. StepTo(Applied(after, E))
      BY <1>4, <1>5, <1>9 DEF Validated
    <2>4. Good(after, E, Exclusive(job.schema, after))
      <3>1. \A t \in RowTables \ DOMAIN E : t \in O
        BY <1>5, <1>13
      <3>2. \A t \in DOMAIN E : t = "document" /\ E[t] = S
        BY <1>5
      <3> QED BY <1>2, <1>3, <1>5, <1>7, <1>9, <1>10, <1>11, <1>12, <1>13, <3>1, <3>2 DEF Good, R
    <2> QED BY <1>1, <2>3, <2>4, ValidatedHolds
  <1>14. CASE \E r \in S : ~Accepts(after, r)
    <2>1. Abort("constraint")
      BY <1>4, <1>5, <1>14 DEF Validated
    <2>2. job.overlap # {}
      BY <1>8, <1>14
    <2> QED BY <2>1, <2>2, Aborts
  <1> QED BY <1>9, <1>14

LEMMA ReplaceChunksHolds ==
  ASSUME MigrationsInv, ReplaceChunks
  PROVE  MigrationsInv'
  <1> DEFINE up == job.direction = "up"
             after == IF up THEN Upgrade(8, job.schema) ELSE Downgrade(8, job.schema)
             R == Seen("document_chunk")
             S == job.carry
             E == [t \in {"document_chunk"} |-> S]
             O == {"document", "message"}
             locks == {"document_chunk", "document", "chatbot", "organization"}
             a == Applied(after, E)
  <1>1. /\ JobInv /\ job.at # job.target
        /\ \/ job.stage = "counted" /\ ~Carries(job.count)
           \/ job.stage = "staged"
    BY Runs DEF ReplaceChunks
  <1>0. /\ Current = 8 /\ (job.overlap = {} => job.count = Cardinality(R))
        /\ job.count \in Nat
    BY <1>1 DEF JobInv, StageInv
  <1>2. /\ RowsInv(S, "document_chunk") /\ Faithful(R, S, job.overlap)
        /\ job.overlap = {} => Cardinality(S) = job.count
        /\ ~up /\ job.overlap = {} => \A r \in S : r.value = LegacyDimension
    <2>1. CASE job.stage = "staged"
      BY <1>0, <1>1, <2>1 DEF JobInv, StageInv
    <2>2. CASE job.stage = "counted" /\ ~Carries(job.count)
      <3>1. S = {} /\ Faithful(R, {}, job.overlap)
        BY <1>1, <2>2 DEF JobInv, StageInv
      <3>2. job.count = 0
        BY <1>0, <2>2 DEF Carries
      <3> QED BY <1>1, <3>1, <3>2, RowsInvEmpty, ChunksAre
    <2> QED BY <1>1, <2>1, <2>2
  <1> DEFINE n == IF up THEN 7 ELSE 8
             m == IF up THEN 8 ELSE 7
  <1>3. /\ job.at = n /\ NextAt = m /\ ~(job.direction = "down" /\ job.at = 2)
        /\ SchemaInv(job.schema, n)
    BY <1>0, <1>1 DEF JobInv, NextAt, Current, HeadRevision
  <1>4. /\ SchemaInv(after, m)
        /\ \A r : /\ r.table = "document_chunk"
                  /\ up \/ r.value = LegacyDimension
                  => Accepts(after, r)
    <2>1. CASE up
      BY <1>3, <2>1, Up8Moves, RowRevisions
    <2>2. CASE ~up
      BY <1>3, <2>2, Down8Moves, RowRevisions
    <2> QED BY <2>1, <2>2
  <1>5. IF up /\ Cardinality(S) # job.count THEN Abort("mismatch")
        ELSE IF \E r \in S : ~Accepts(after, r) THEN Abort("cast")
        ELSE StepTo([a EXCEPT !.exclusive = @ \cup locks])
    BY DEF ReplaceChunks
  <1> HIDE DEF after
  <1>6. DOMAIN E = {"document_chunk"} /\ E["document_chunk"] = S
    OBVIOUS
  <1> HIDE DEF E
  <1>7. n \in {7, 8} /\ m \in {7, 8}
    OBVIOUS
  <1>8. Keeps(job.schema, after, O)
    BY <1>3, <1>4, <1>7, EightKeeps
  <1> HIDE DEF n, m
  <1>10. \A t \in O : /\ \A r \in Seen(t) : Accepts(after, r)
                      /\ t \in Tables(job.schema) => t \in Tables(after)
    BY <1>1, <1>3, <1>4, <1>8, Untouched DEF RowTables
  <1>12. "document_chunk" \in Tables(job.schema) /\ "document_chunk" \in Tables(after)
    BY <1>3, <1>4, <1>7 DEF SchemaInv, RowTables
  <1>13. RowTables \ {"document_chunk"} = O /\ {"document_chunk"} \subseteq RowTables
    BY DEF RowTables
  <1>14. CASE up /\ Cardinality(S) # job.count
    <2>1. Abort("mismatch") /\ job.overlap # {}
      BY <1>2, <1>5, <1>14
    <2> QED BY <2>1, Aborts
  <1>15. CASE ~(up /\ Cardinality(S) # job.count) /\ \E r \in S : ~Accepts(after, r)
    <2>1. Abort("cast")
      BY <1>5, <1>15
    <2>2. job.overlap # {}
      BY <1>2, <1>4, <1>15 DEF RowsInv
    <2> QED BY <2>1, <2>2, Aborts
  <1>16. CASE ~(up /\ Cardinality(S) # job.count) /\ \A r \in S : Accepts(after, r)
    <2> HIDE DEF a
    <2>1. /\ job' = [a EXCEPT !.exclusive = @ \cup locks]
          /\ UNCHANGED <<schema, revision, rows, outcome, owed, exposed>>
      BY <1>5, <1>16 DEF StepTo
    <2>2. Advanced(a, after, E)
      BY <1>1, AppliedIs DEF a
    <2>3. Advanced(job', after, E) /\ "document_chunk" \in job'.exclusive
      <3> DEFINE V == [t \in DOMAIN E \cup DOMAIN job.view |->
                         IF t \in DOMAIN E THEN E[t] ELSE job.view[t]]
                 X == a.exclusive \cup locks
      <3>1. a = [direction |-> job.direction, target |-> job.target, at |-> NextAt,
                 stage |-> "ready", schema |-> after, exclusive |-> a.exclusive,
                 shared |-> a.shared, view |-> V, count |-> 0, carry |-> {},
                 overlap |-> job.overlap]
        BY <2>2 DEF Advanced
      <3>2. job' = [a EXCEPT !.exclusive = X]
        BY <2>1
      <3>3. "document_chunk" \in X /\ job.exclusive \cup Exclusive(job.schema, after) \subseteq X
        BY <2>2 DEF Advanced
      <3> HIDE DEF V, X
      <3>4. job' = [direction |-> job.direction, target |-> job.target, at |-> NextAt,
                 stage |-> "ready", schema |-> after, exclusive |-> X,
                 shared |-> a.shared, view |-> V, count |-> 0, carry |-> {},
                 overlap |-> job.overlap]
        BY <3>1, <3>2
      <3>5. job'.exclusive = X /\ job'.shared = a.shared
        BY <3>4
      <3> QED BY <3>3, <3>4, <3>5 DEF Advanced, V
    <2>4. Good(after, E, job'.exclusive)
      <3>1. \A t \in RowTables \ DOMAIN E : t \in O
        BY <1>6, <1>13
      <3>2. \A t \in DOMAIN E : t = "document_chunk" /\ E[t] = S
        BY <1>6
      <3> QED BY <1>2, <1>3, <1>4, <1>6, <1>10, <1>12, <1>13, <1>16, <2>3, <3>1, <3>2 DEF Good, R
    <2>5. JobInv'
      BY <1>1, <2>1, <2>3, <2>4, AdvancedHolds
    <2> QED BY <2>1, <2>5, JobSteps
  <1> QED BY <1>14, <1>15, <1>16

-----------------------------------------------------------------------------
(***************************************************************************)
(* The release in service: one row of one table comes or goes, and the     *)
(* table is not locked.                                                    *)
(***************************************************************************)
\* Two sets of rows that differ in r only.
ButFor(R, S, r) == \A q : q # r => (q \in R <=> q \in S)

\* A writer changes one field of the job.
LEMMA OverlappingIs ==
  ASSUME JobInv, NEW r
  PROVE  LET j == Overlapping(r)
         IN  /\ j = [direction |-> job.direction, target |-> job.target, at |-> job.at,
                     stage |-> job.stage, schema |-> job.schema, exclusive |-> job.exclusive,
                     shared |-> job.shared, view |-> job.view, count |-> job.count,
                     carry |-> job.carry, overlap |-> j.overlap]
             /\ j.overlap = IF InWindow(r.table) THEN job.overlap \cup {Name(r)} ELSE job.overlap
  <1> DEFINE w == InWindow(r.table)
             X == job.overlap \cup {Name(r)}
             j == Overlapping(r)
  <1>1. job = [direction |-> job.direction, target |-> job.target, at |-> job.at,
              stage |-> job.stage, schema |-> job.schema, exclusive |-> job.exclusive,
              shared |-> job.shared, view |-> job.view, count |-> job.count,
              carry |-> job.carry, overlap |-> job.overlap]
    BY DEF JobInv
  <1>2. j = IF w THEN [job EXCEPT !.overlap = X] ELSE job
    BY DEF Overlapping
  <1> HIDE DEF w, X, j
  <1>3. j = [direction |-> job.direction, target |-> job.target, at |-> job.at,
              stage |-> job.stage, schema |-> job.schema, exclusive |-> job.exclusive,
              shared |-> job.shared, view |-> job.view, count |-> job.count,
              carry |-> job.carry, overlap |-> IF w THEN X ELSE job.overlap]
    BY <1>1, <1>2
  <1>4. j.overlap = IF w THEN X ELSE job.overlap
    BY <1>3
  <1> QED BY <1>3, <1>4 DEF w, X, j

\* A writer changes what is committed and what the transaction sees alike, and inside a window
\* it leaves its row's name behind.
LEMMA Touches ==
  ASSUME MigrationsInv, JobInv, NEW r, r.table \in RowTables, Unlocked(r.table),
         Accepts(schema, r), job' = Overlapping(r), schema' = schema,
         \A t \in RowTables : t # r.table => RowsOf(t)' = RowsOf(t),
         RowsInv(RowsOf(r.table)', r.table), \A q \in RowsOf(r.table)' : Accepts(schema, q),
         ButFor(RowsOf(r.table), RowsOf(r.table)', r),
         r.table # "document_chunk" => RowsOf(r.table) \subseteq RowsOf(r.table)'
  PROVE  JobInv'
  <1> DEFINE u == r.table
             W == job'.overlap
             N == RowsOf(u)'
  <1>1. /\ job' = [direction |-> job.direction, target |-> job.target, at |-> job.at,
                   stage |-> job.stage, schema |-> job.schema, exclusive |-> job.exclusive,
                   shared |-> job.shared, view |-> job.view, count |-> job.count,
                   carry |-> job.carry, overlap |-> W]
        /\ W = IF InWindow(u) THEN job.overlap \cup {Name(r)} ELSE job.overlap
    BY OverlappingIs
  <1> HIDE DEF W
  <1>2. /\ job'.direction = job.direction /\ job'.target = job.target /\ job'.at = job.at
        /\ job'.stage = job.stage /\ job'.schema = job.schema /\ job'.exclusive = job.exclusive
        /\ job'.shared = job.shared /\ job'.view = job.view /\ job'.count = job.count
        /\ job'.carry = job.carry /\ job'.overlap = W
    BY <1>1
  <1>3. job' = [direction |-> job'.direction, target |-> job'.target, at |-> job'.at,
                stage |-> job'.stage, schema |-> job'.schema, exclusive |-> job'.exclusive,
                shared |-> job'.shared, view |-> job'.view, count |-> job'.count,
                carry |-> job'.carry, overlap |-> job'.overlap]
    BY <1>1, <1>2
  <1>4. job.overlap \subseteq W /\ (InWindow(u) => Name(r) \in W) /\ (~InWindow(u) => W = job.overlap)
    BY <1>1
  <1>5. u \notin job.exclusive
    BY DEF Unlocked
  <1>6. \A f : f[2] = u => (f \in schema <=> f \in job.schema)
    BY <1>5 DEF JobInv, ViewInv
  <1>7. u \in Tables(schema) /\ u \in Tables(job.schema)
    <2>1. u \in Tables(schema)
      BY DEF Accepts
    <2> QED BY <1>6, <2>1, TableIs
  <1>8. u \notin DOMAIN job.view
    BY <1>5, <1>7 DEF JobInv, ViewInv
  <1>9. \A q : q.table = u /\ Accepts(schema, q) => Accepts(job.schema, q)
    BY <1>6, <1>7, AcceptsIs
  <1>10. Seen(u) = RowsOf(u) /\ Seen(u)' = N
    BY <1>2, <1>8 DEF Seen
  <1>11. \A t \in RowTables : t # u => Seen(t)' = Seen(t)
    BY <1>2 DEF Seen
  <1>12. ASSUME NEW t \in RowTables
         PROVE  /\ RowsInv(Seen(t)', t)
                /\ \A q \in Seen(t)' : Accepts(job.schema, q)
    <2>1. CASE t = u
      <3>1. \A q \in N : q.table = u
        BY DEF RowsInv
      <3> QED BY <1>9, <1>10, <2>1, <3>1
    <2>2. CASE t # u
      BY <1>11, <2>2 DEF JobInv, ViewInv
    <2> QED BY <2>1, <2>2
  <1>13. ASSUME NEW t \in RowTables, t \in Tables(job.schema)
         PROVE  Faithful(RowsOf(t)', Seen(t)', W)
    <2>1. CASE t = u
      BY <1>10, <2>1, FaithfulRefl
    <2>2. CASE t # u
      <3>1. Faithful(RowsOf(t), Seen(t), job.overlap)
        BY <1>13 DEF JobInv, ViewInv
      <3>2. Faithful(RowsOf(t), Seen(t), W)
        BY <1>4, <3>1, FaithfulWider
      <3>3. Seen(t)' = Seen(t) /\ RowsOf(t)' = RowsOf(t)
        BY <1>11, <2>2
      <3> QED BY <3>2, <3>3
    <2> QED BY <2>1, <2>2
  <1>14. ViewInv'
    BY <1>2, <1>12, <1>13 DEF JobInv, ViewInv
  <1>15. Current' = Current
    BY <1>2 DEF Current
  <1> DEFINE C == Seen("document_chunk")
             M == Seen("document_chunk")'
             D == Seen("document")
             G == Seen("document")'
  <1>16. StageInv'
    <2>1. CASE job.stage = "ready"
      BY <1>2, <2>1 DEF JobInv, StageInv
    <2>2. CASE job.stage = "reclassified"
      <3>1. D \subseteq G
        BY <1>10, <1>11 DEF RowTables
      <3>2. W = {} => G = D
        <4>1. ASSUME u = "document" PROVE W # {}
          BY <1>4, <2>2, <4>1 DEF InWindow
        <4>2. ASSUME u # "document" PROVE G = D
          BY <1>11, <4>2 DEF RowTables
        <4> QED BY <4>1, <4>2
      <3>3. W = {} => job.overlap = {}
        BY <1>4
      <3>4. /\ job.direction = "down" /\ job.at = 4 /\ job.at # job.target
            /\ job.carry \subseteq D
            /\ job.overlap = {} => job.carry = D
        BY <2>2 DEF JobInv, StageInv
      <3> HIDE DEF D, G
      <3>5. /\ job'.carry \subseteq G
            /\ job'.overlap = {} => job'.carry = G
        BY <1>2, <3>1, <3>2, <3>3, <3>4
      <3> QED BY <1>2, <2>2, <3>4, <3>5 DEF StageInv, G
    <2>3. CASE job.stage \in {"counted", "checked", "staged"}
      <3>1. /\ W = {} => job.overlap = {} /\ M = C
            /\ ButFor(C, M, r) /\ (M # C => Name(r) \in W)
        <4>1. CASE u = "document_chunk"
          BY <1>4, <1>10, <2>3, <4>1 DEF InWindow
        <4>2. CASE u # "document_chunk"
          <5>1. M = C
            BY <1>11, <4>2 DEF RowTables
          <5> QED BY <1>4, <5>1 DEF ButFor
        <4> QED BY <4>1, <4>2
      <3>2. \A S : Faithful(C, S, job.overlap) => Faithful(M, S, W)
        BY <1>4, <3>1, SameNames DEF Faithful, ButFor
      <3> HIDE DEF C, M
      <3>3. Current = 8 /\ job.at # job.target /\ (job.overlap = {} => job.count = Cardinality(C))
        BY <2>3 DEF JobInv, StageInv, C
      <3>4. job.stage \in {"counted", "checked"} =>
             /\ job.carry = {}
             /\ ~Carries(job.count) => Faithful(C, {}, job.overlap)
        BY DEF JobInv, StageInv, C
      <3>5. job.stage \in {"checked", "staged"} /\ job.direction = "down" /\ job.overlap = {} =>
              \A q \in C : q.value = LegacyDimension
        BY DEF JobInv, StageInv, C
      <3>6. job.stage = "staged" =>
              /\ RowsInv(job.carry, "document_chunk")
              /\ Faithful(C, job.carry, job.overlap)
              /\ job.overlap = {} => job.carry = C
        BY DEF JobInv, StageInv, C
      <3>7. /\ (W = {} => job.count = Cardinality(M))
            /\ job.stage \in {"counted", "checked"} /\ ~Carries(job.count) => Faithful(M, {}, W)
            /\ job.stage \in {"checked", "staged"} /\ job.direction = "down" /\ W = {} =>
                 \A q \in M : q.value = LegacyDimension
            /\ job.stage = "staged" => Faithful(M, job.carry, W) /\ (W = {} => job.carry = M)
        BY <3>1, <3>2, <3>3, <3>4, <3>5, <3>6
      <3> QED BY <1>2, <1>15, <2>3, <3>3, <3>4, <3>6, <3>7 DEF StageInv, M
    <2> QED BY <2>1, <2>2, <2>3 DEF JobInv
  <1> QED BY <1>2, <1>3, <1>14, <1>16 DEF JobInv

LEMMA WriteHolds ==
  ASSUME MigrationsInv, NEW r \in Rows, Write(r)
  PROVE  MigrationsInv'
  <1> DEFINE u == r.table
             N == RowsOf(u)'
  <1>1. r = [table |-> u, id |-> r.id, value |-> r.value] /\ u \in RowTables
    BY MigrationsAssumption
  <1>2. /\ Accepts(schema, r) /\ \A q \in rows : Name(q) # Name(r)
        /\ Unlocked(u) /\ rows' = rows \cup {r} /\ job' = Overlapping(r)
        /\ owed' = {o \in owed : Name(o) # Name(r)} \cup {r} /\ exposed' = exposed \ {Name(r)}
        /\ schema' = schema /\ revision' = revision /\ outcome' = outcome
    BY DEF Write
  <1>3. N = RowsOf(u) \cup {r} /\ \A t \in RowTables : t # u => RowsOf(t)' = RowsOf(t)
    BY <1>2 DEF RowsOf
  <1>4. RowsInv(N, u)
    <2>1. RowsInv(RowsOf(u), u) /\ \A q \in RowsOf(u) : Name(q) # Name(r)
      BY <1>1, <1>2 DEF MigrationsInv, RowsOf
    <2>2. IsFiniteSet(RowsOf(u) \cup {r})
      BY <2>1, FS_AddElement DEF RowsInv
    <2> HIDE DEF N
    <2>3. \A q \in N : q = [table |-> u, id |-> q.id, value |-> q.value]
      BY <1>1, <1>3, <2>1 DEF RowsInv
    <2>4. \A p, q \in N : Name(p) = Name(q) => p = q
      BY <1>3, <2>1 DEF RowsInv
    <2> QED BY <1>3, <2>2, <2>3, <2>4 DEF RowsInv
  <1>5. \A q \in N : Accepts(schema, q)
    BY <1>2, <1>3 DEF MigrationsInv, RowsOf
  <1>6. LossOnlyInTheWindow'
    <2>1. ASSUME NEW o \in owed' PROVE Name(o) \in exposed' \/ \E q \in rows' : Same(o, q)
      BY <1>2, <2>1, SameRefl DEF MigrationsInv, LossOnlyInTheWindow
    <2>2. ASSUME NEW q \in rows' PROVE Name(q) \in exposed' \/ \E o \in owed' : Same(o, q)
      <3>1. CASE q = r
        BY <1>2, <3>1, SameRefl
      <3>2. CASE q # r
        <4>1. q \in rows /\ Name(q) # Name(r)
          BY <1>2, <2>2, <3>2
        <4>2. CASE Name(q) \in exposed
          BY <1>2, <4>1, <4>2
        <4>3. CASE Name(q) \notin exposed
          <5>1. PICK o \in owed : Same(o, q)
            BY <4>1, <4>3 DEF MigrationsInv, LossOnlyInTheWindow
          <5>2. o \in owed'
            BY <1>2, <4>1, <5>1, SameNames
          <5> QED BY <5>1, <5>2
        <4> QED BY <4>2, <4>3
      <3> QED BY <3>1, <3>2
    <2> QED BY <2>1, <2>2 DEF LossOnlyInTheWindow
  <1>7. FailsForACause'
    BY <1>2 DEF MigrationsInv, FailsForACause
  <1>8. job' = Idle \/ JobInv'
    <2>1. CASE job = Idle
      <3>1. ~InWindow(u)
        BY <2>1 DEF InWindow, Idle
      <3> QED BY <1>2, <2>1, <3>1 DEF Overlapping
    <2>2. CASE JobInv
      <3>1. ButFor(RowsOf(u), N, r) /\ RowsOf(u) \subseteq N
        BY <1>3 DEF ButFor
      <3> QED BY <1>1, <1>2, <1>3, <1>4, <1>5, <2>2, <3>1, Touches
    <2> QED BY <2>1, <2>2 DEF MigrationsInv
  <1>9. \A t \in RowTables : RowsInv(RowsOf(t)', t)
    BY <1>3, <1>4 DEF MigrationsInv
  <1>10. \A q \in rows' : q.table \in RowTables /\ Accepts(schema', q)
    BY <1>1, <1>2 DEF MigrationsInv
  <1>11. \A o \in owed' : o.table \in RowTables
    BY <1>1, <1>2 DEF MigrationsInv
  <1> QED BY <1>2, <1>6, <1>7, <1>8, <1>9, <1>10, <1>11 DEF MigrationsInv

LEMMA DeleteHolds ==
  ASSUME MigrationsInv, NEW r \in rows, Delete(r)
  PROVE  MigrationsInv'
  <1> DEFINE u == r.table
             N == RowsOf(u)'
  <1>1. u = "document_chunk" /\ u \in RowTables /\ Accepts(schema, r)
    BY DEF Delete, MigrationsInv
  <1>2. /\ Unlocked(u) /\ rows' = rows \ {r} /\ job' = Overlapping(r)
        /\ owed' = {o \in owed : Name(o) # Name(r)} /\ exposed' = exposed
        /\ schema' = schema /\ revision' = revision /\ outcome' = outcome
    BY DEF Delete
  <1>3. N = RowsOf(u) \ {r} /\ \A t \in RowTables : t # u => RowsOf(t)' = RowsOf(t)
    BY <1>2 DEF RowsOf
  <1>4. RowsInv(RowsOf(u), u)
    BY <1>1 DEF MigrationsInv
  <1>5. RowsInv(N, u)
    BY <1>3, <1>4, RowsInvSubset
  <1>6. \A q \in N : Accepts(schema, q)
    BY <1>3 DEF MigrationsInv, RowsOf
  <1>7. \A q \in rows : Name(q) = Name(r) => q = r
    <2>1. \A q \in rows : Name(q) = Name(r) => q \in RowsOf(u)
      BY DEF Name, RowsOf
    <2>2. r \in RowsOf(u)
      BY DEF RowsOf
    <2> QED BY <1>4, <2>1, <2>2 DEF RowsInv
  <1>8. LossOnlyInTheWindow'
    <2>1. ASSUME NEW o \in owed' PROVE Name(o) \in exposed' \/ \E q \in rows' : Same(o, q)
      <3>1. o \in owed /\ Name(o) # Name(r)
        BY <1>2, <2>1
      <3>2. CASE Name(o) \in exposed
        BY <1>2, <3>2
      <3>3. CASE Name(o) \notin exposed
        <4>1. PICK q \in rows : Same(o, q)
          BY <3>1, <3>3 DEF MigrationsInv, LossOnlyInTheWindow
        <4>2. q \in rows'
          BY <1>2, <3>1, <4>1, SameNames
        <4> QED BY <4>1, <4>2
      <3> QED BY <3>2, <3>3
    <2>2. ASSUME NEW q \in rows' PROVE Name(q) \in exposed' \/ \E o \in owed' : Same(o, q)
      <3>1. q \in rows /\ Name(q) # Name(r)
        BY <1>2, <1>7, <2>2
      <3>2. CASE Name(q) \in exposed
        BY <1>2, <3>2
      <3>3. CASE Name(q) \notin exposed
        <4>1. PICK o \in owed : Same(o, q)
          BY <3>1, <3>3 DEF MigrationsInv, LossOnlyInTheWindow
        <4>2. o \in owed'
          BY <1>2, <3>1, <4>1, SameNames
        <4> QED BY <4>1, <4>2
      <3> QED BY <3>2, <3>3
    <2> QED BY <2>1, <2>2 DEF LossOnlyInTheWindow
  <1>9. FailsForACause'
    BY <1>2 DEF MigrationsInv, FailsForACause
  <1>10. job' = Idle \/ JobInv'
    <2>1. CASE job = Idle
      <3>1. ~InWindow(u)
        BY <2>1 DEF InWindow, Idle
      <3> QED BY <1>2, <2>1, <3>1 DEF Overlapping
    <2>2. CASE JobInv
      <3>1. ButFor(RowsOf(u), N, r)
        BY <1>3 DEF ButFor
      <3> QED BY <1>1, <1>2, <1>3, <1>5, <1>6, <2>2, <3>1, Touches
    <2> QED BY <2>1, <2>2 DEF MigrationsInv
  <1>11. \A t \in RowTables : RowsInv(RowsOf(t)', t)
    BY <1>3, <1>5 DEF MigrationsInv
  <1> QED BY <1>2, <1>8, <1>9, <1>10, <1>11 DEF MigrationsInv

-----------------------------------------------------------------------------
\* The end of a migration, and the theorems.
LEMMA CommitHolds ==
  ASSUME MigrationsInv, Commit
  PROVE  MigrationsInv'
  <1> DEFINE T == Tables(job.schema)
  <1>1. JobInv
    BY DEF MigrationsInv, Commit
  <1>2. /\ schema' = job.schema /\ revision' = job.at
        /\ rows' = UNION {Seen(t) : t \in RowTables}
        /\ owed' = {o \in owed : o.table \in T}
        /\ exposed' = {x \in exposed \cup job.overlap : x[1] \in T}
        /\ outcome' = [end |-> "committed", overlap |-> job.overlap]
        /\ job' = Idle
    BY DEF Commit
  <1> HIDE DEF T
  <1>3. \A t \in RowTables : /\ RowsInv(Seen(t), t)
                             /\ \A r \in Seen(t) : Accepts(job.schema, r) /\ r.table = t
    BY <1>1 DEF JobInv, ViewInv, RowsInv
  <1>4. \A r \in rows' : r.table \in RowTables /\ r \in Seen(r.table)
    BY <1>2, <1>3
  <1>5. \A t \in RowTables : \A r \in Seen(t) : r \in rows'
    BY <1>2
  <1>6. \A t \in RowTables : RowsOf(t)' = Seen(t)
    <2> TAKE t \in RowTables
    <2>1. \A r \in RowsOf(t)' : r \in Seen(t)
      BY <1>4 DEF RowsOf
    <2>2. \A r \in Seen(t) : r \in RowsOf(t)'
      BY <1>3, <1>5 DEF RowsOf
    <2> QED BY <2>1, <2>2
  <1>7. \A t \in RowTables : t \in T => Faithful(RowsOf(t), Seen(t), job.overlap)
    BY <1>1 DEF JobInv, ViewInv, T
  <1>8. \A r : Name(r)[1] = r.table
    BY DEF Name
  <1>9. LossOnlyInTheWindow'
    <2>1. ASSUME NEW o \in owed' PROVE Name(o) \in exposed' \/ \E q \in rows' : Same(o, q)
      <3>1. o \in owed /\ o.table \in T /\ o.table \in RowTables
        BY <1>2, <2>1 DEF MigrationsInv
      <3>2. CASE Name(o) \in exposed \cup job.overlap
        BY <1>2, <1>8, <3>1, <3>2
      <3>3. CASE Name(o) \notin exposed \cup job.overlap
        <4>1. PICK r \in rows : Same(o, r)
          BY <3>1, <3>3 DEF MigrationsInv, LossOnlyInTheWindow
        <4>2. r \in RowsOf(o.table) /\ Name(r) \notin job.overlap
          BY <3>3, <4>1, SameNames DEF RowsOf
        <4>3. PICK q \in Seen(o.table) : Same(r, q)
          BY <1>7, <3>1, <4>2 DEF Faithful
        <4> QED BY <1>5, <3>1, <4>1, <4>3, SameTrans
      <3> QED BY <3>2, <3>3
    <2>2. ASSUME NEW q \in rows' PROVE Name(q) \in exposed' \/ \E o \in owed' : Same(o, q)
      <3>1. q.table \in RowTables /\ q \in Seen(q.table)
        BY <1>4, <2>2
      <3>2. q.table \in T
        BY <1>3, <3>1 DEF Accepts, T
      <3>3. CASE Name(q) \in exposed \cup job.overlap
        BY <1>2, <1>8, <3>2, <3>3
      <3>4. CASE Name(q) \notin exposed \cup job.overlap
        <4>1. PICK r \in RowsOf(q.table) : Same(r, q)
          BY <1>7, <3>1, <3>2, <3>4 DEF Faithful
        <4>2. r \in rows /\ Name(r) \notin exposed
          BY <3>4, <4>1, SameNames DEF RowsOf
        <4>3. PICK o \in owed : Same(o, r)
          BY <4>2 DEF MigrationsInv, LossOnlyInTheWindow
        <4>4. o \in owed'
          BY <1>2, <3>2, <4>1, <4>3, SameNames
        <4> QED BY <4>1, <4>3, <4>4, SameTrans
      <3> QED BY <3>3, <3>4
    <2> QED BY <2>1, <2>2 DEF LossOnlyInTheWindow
  <1>10. FailsForACause'
    BY <1>2 DEF FailsForACause
  <1>11. revision' \in 0..HeadRevision /\ SchemaInv(schema', revision')
    BY <1>1, <1>2 DEF JobInv
  <1>12. \A r \in rows' : Accepts(schema', r)
    BY <1>2, <1>3, <1>4
  <1>13. \A o \in owed' : o.table \in RowTables
    BY <1>2 DEF MigrationsInv
  <1>14. \A t \in RowTables : RowsInv(RowsOf(t)', t)
    BY <1>3, <1>6
  <1> QED BY <1>2, <1>4, <1>9, <1>10, <1>11, <1>12, <1>13, <1>14 DEF MigrationsInv

LEMMA MigrationsInit == Init => MigrationsInv
  <1> SUFFICES ASSUME Init PROVE MigrationsInv
    OBVIOUS
  <1>1. SchemaInv({}, 0)
    BY DEF SchemaInv, Tables, Kind
  <1>2. \A t : RowsOf(t) = {}
    BY DEF Init, RowsOf
  <1>3. LossOnlyInTheWindow /\ FailsForACause
    BY DEF Init, LossOnlyInTheWindow, FailsForACause
  <1>4. revision \in 0..HeadRevision
    BY DEF Init, HeadRevision
  <1> QED BY <1>1, <1>2, <1>3, <1>4, RowsInvEmpty DEF Init, MigrationsInv

\* Every step, one case each.
LEMMA MigrationsNext == MigrationsInv /\ [Next]_vars => MigrationsInv'
  <1> SUFFICES ASSUME MigrationsInv, [Next]_vars PROVE MigrationsInv'
    OBVIOUS
  <1>1. CASE \E r \in Rows : Write(r)
    BY <1>1, WriteHolds
  <1>2. CASE \E r \in rows : Delete(r)
    BY <1>2, DeleteHolds
  <1>3. CASE \E target \in Targets : Start(target)
    BY <1>3, StartHolds
  <1>4. CASE Revise
    BY <1>4, ReviseHolds
  <1>5. CASE DropEverything
    BY <1>5, DropEverythingHolds
  <1>6. CASE DropStaffRole
    BY <1>6, DropStaffRoleHolds
  <1>7. CASE ReclassifyMdx
    BY <1>7, ReclassifyMdxHolds
  <1>8. CASE NarrowFileTypes
    BY <1>8, NarrowFileTypesHolds
  <1>9. CASE CountChunks
    BY <1>9, CountChunksHolds
  <1>10. CASE CheckWidths
    BY <1>10, CheckWidthsHolds
  <1>11. CASE StageChunks
    BY <1>11, StageChunksHolds
  <1>12. CASE ReplaceChunks
    BY <1>12, ReplaceChunksHolds
  <1>13. CASE Commit
    BY <1>13, CommitHolds
  <1>14. CASE Crash
    BY <1>14, Aborts DEF Crash
  <1>15. CASE UNCHANGED vars
    <2>1. \A t : RowsOf(t)' = RowsOf(t) /\ Seen(t)' = Seen(t)
      BY <1>15 DEF vars, RowsOf, Seen
    <2>2. Current' = Current
      BY <1>15 DEF vars, Current
    <2>3. LossOnlyInTheWindow' /\ FailsForACause'
      BY <1>15 DEF MigrationsInv, LossOnlyInTheWindow, FailsForACause, vars
    <2>4. ViewInv => ViewInv'
      BY <1>15, <2>1 DEF vars, ViewInv
    <2>5. StageInv => StageInv'
      BY <1>15, <2>1, <2>2 DEF vars, StageInv
    <2>6. JobInv => JobInv'
      BY <1>15, <2>4, <2>5 DEF vars, JobInv
    <2> QED BY <1>15, <2>1, <2>3, <2>6 DEF vars, MigrationsInv
  <1> QED BY <1>1, <1>2, <1>3, <1>4, <1>5, <1>6, <1>7, <1>8, <1>9, <1>10, <1>11, <1>12, <1>13,
             <1>14, <1>15 DEF Next, Migrate

\* The invariant both theorems follow from.
LEMMA MigrationsInductive == Spec => []MigrationsInv
  <1>1. MigrationsInv /\ [Next]_vars => MigrationsInv'
    BY MigrationsNext
  <1> QED BY <1>1, MigrationsInit, PTL DEF Spec

\* 0008: "no reason to write a migration that loses rows": after any sequence of commands, a
\* row that was committed and not deleted is there, and no other, but for those somebody wrote
\* or deleted between the statements of a migration that committed.
THEOREM LossOnlyInTheWindowHolds == Spec => []LossOnlyInTheWindow
  <1>1. MigrationsInv => LossOnlyInTheWindow
    BY DEF MigrationsInv
  <1> QED BY <1>1, MigrationsInductive, PTL

\* With the writers stopped no migration contradicts its own counts and checks, and 0002 never
\* drops a table that another still references.
THEOREM FailsForACauseHolds == Spec => []FailsForACause
  <1>1. MigrationsInv => FailsForACause
    BY DEF MigrationsInv
  <1> QED BY <1>1, MigrationsInductive, PTL

-----------------------------------------------------------------------------
(***************************************************************************)
(* What a step does to the committed schema and to the one the transaction *)
(* has reached, rows apart.                                                *)
(***************************************************************************)
\* A revision done: the schema and the number move together.
Revised ==
  \/ job.at \in 0..14 /\ job'.at = job.at + 1 /\ job'.schema = Upgrade(job.at + 1, job.schema)
  \/ job.at \in 1..15 /\ job'.at = job.at - 1 /\ job'.schema = Downgrade(job.at, job.schema)

Advances == job # Idle /\ UNCHANGED <<schema, revision>> /\ Revised
StaysAt == job # Idle /\ UNCHANGED <<schema, revision>> /\ job'.schema = job.schema /\ job'.at = job.at

\* Applied takes the transaction to the schema it is given and to the next number.
LEMMA AppliedMoves ==
  ASSUME JobInv, NEW after, NEW rewritten, StepTo(Applied(after, rewritten))
  PROVE  job'.at = NextAt /\ job'.schema = after /\ UNCHANGED <<schema, revision>>
  <1>1. Advanced(job', after, rewritten) /\ UNCHANGED <<schema, revision>>
    BY AppliedIs DEF StepTo
  <1> QED BY <1>1 DEF Advanced

\* On the way up, and on the way down, that is one revision.
LEMMA UpgradeAdvances ==
  ASSUME JobInv, job # Idle, job.at \in 0..14, job.direction = "up", NEW n, n = job.at + 1,
         NEW rewritten, StepTo(Applied(Upgrade(n, job.schema), rewritten))
  PROVE  Advances
  <1>1. job'.at = NextAt /\ job'.schema = Upgrade(n, job.schema) /\ UNCHANGED <<schema, revision>>
    BY AppliedMoves
  <1>2. NextAt = job.at + 1
    BY DEF NextAt
  <1> HIDE DEF JobInv
  <1> QED BY <1>1, <1>2 DEF Advances, Revised

LEMMA DowngradeAdvances ==
  ASSUME JobInv, job # Idle, job.at \in 1..15, job.direction = "down",
         NEW rewritten, StepTo(Applied(Downgrade(job.at, job.schema), rewritten))
  PROVE  Advances
  <1>1. job'.at = NextAt /\ job'.schema = Downgrade(job.at, job.schema) /\ UNCHANGED <<schema, revision>>
    BY AppliedMoves
  <1>2. NextAt = job.at - 1
    BY DEF NextAt
  <1> HIDE DEF JobInv
  <1> QED BY <1>1, <1>2 DEF Advances, Revised

\* Each action of a migration, by what it does to the two schemas and the two numbers.
LEMMA ReviseSteps ==
  ASSUME MigrationsInv, Revise
  PROVE  Advances
  <1> DEFINE after == IF job.direction = "up" THEN Upgrade(Current, job.schema)
                      ELSE Downgrade(Current, job.schema)
             E == <<>>
  <1>1. JobInv /\ job.at # job.target /\ job # Idle
    BY Runs DEF Revise, Running
  <1>2. StepTo(Applied(after, E))
    BY DEF Revise
  <1>3. job.at \in 0..15 /\ job.target \in 0..15 /\ job.direction \in {"up", "down"}
        /\ (IF job.direction = "up" THEN job.at <= job.target ELSE job.target <= job.at)
    BY <1>1 DEF JobInv, HeadRevision
  <1>4. CASE job.direction = "up"
    <2>1. job.at \in 0..14 /\ Current = job.at + 1
      BY <1>1, <1>3, <1>4 DEF Current
    <2>2. StepTo(Applied(Upgrade(Current, job.schema), E))
      BY <1>2, <1>4
    <2> HIDE DEF E
    <2> QED BY <1>1, <1>4, <2>1, <2>2, UpgradeAdvances
  <1>5. CASE job.direction = "down"
    <2>1. job.at \in 1..15 /\ after = Downgrade(job.at, job.schema)
      BY <1>1, <1>3, <1>5 DEF Current
    <2>2. StepTo(Applied(Downgrade(job.at, job.schema), E))
      BY <1>2, <2>1
    <2> HIDE DEF after, E
    <2> QED BY <1>1, <1>5, <2>1, <2>2, DowngradeAdvances
  <1> QED BY <1>3, <1>4, <1>5

\* The downgrades with statements on the rows.
LEMMA RowDownSteps ==
  ASSUME MigrationsInv, JobInv, job # Idle, job.direction = "down", NEW n \in {2, 4, 8, 9}, job.at = n,
         NEW rewritten, StepTo(Applied(Downgrade(n, job.schema), rewritten))
  PROVE  Advances
  <1>1. job.at \in 1..15
    OBVIOUS
  <1> QED BY <1>1, DowngradeAdvances

LEMMA DropEverythingSteps ==
  ASSUME MigrationsInv, DropEverything
  PROVE  (job' = Idle /\ UNCHANGED <<schema, revision>>) \/ Advances
  <1>1. JobInv /\ job # Idle /\ job.direction = "down" /\ job.at = 2
    BY Runs DEF DropEverything, Running, Current
  <1>2. CASE DropsInOrder(job.schema)
    <2> DEFINE rw == [t \in RowTables |-> {}]
    <2>1. StepTo(Applied(Downgrade(2, job.schema), rw))
      BY <1>2 DEF DropEverything
    <2> HIDE DEF rw
    <2> QED BY <1>1, <2>1, RowDownSteps
  <1>3. CASE ~DropsInOrder(job.schema)
    BY <1>3 DEF DropEverything, Abort
  <1> QED BY <1>2, <1>3

LEMMA ValidatedSteps ==
  ASSUME MigrationsInv, JobInv, job # Idle, job.direction = "down", NEW n \in {2, 4, 8, 9}, job.at = n,
         NEW rewritten, Validated(Downgrade(n, job.schema), rewritten)
  PROVE  (job' = Idle /\ UNCHANGED <<schema, revision>>) \/ Advances
  <1>1. CASE StepTo(Applied(Downgrade(n, job.schema), rewritten))
    BY <1>1, RowDownSteps
  <1>2. CASE Abort("constraint")
    BY <1>2 DEF Abort
  <1> QED BY <1>1, <1>2 DEF Validated

LEMMA DropStaffRoleSteps ==
  ASSUME MigrationsInv, DropStaffRole
  PROVE  (job' = Idle /\ UNCHANGED <<schema, revision>>) \/ Advances
  <1>1. JobInv /\ job # Idle /\ job.direction = "down" /\ job.at = 9
    BY Runs DEF DropStaffRole, Running, Current
  <1> DEFINE rw == [t \in {"message"} |-> {StaffToAssistant(r) : r \in Seen(t)}]
  <1>2. Validated(Downgrade(9, job.schema), rw)
    BY DEF DropStaffRole
  <1> HIDE DEF rw
  <1> QED BY <1>1, <1>2, ValidatedSteps

LEMMA NarrowFileTypesSteps ==
  ASSUME MigrationsInv, NarrowFileTypes
  PROVE  (job' = Idle /\ UNCHANGED <<schema, revision>>) \/ Advances
  <1>0. JobInv /\ job # Idle /\ job.stage = "reclassified"
    BY Runs DEF NarrowFileTypes, Running
  <1>1. job.direction = "down" /\ job.at = 4
    BY <1>0 DEF JobInv, StageInv
  <1> DEFINE table == {MdxToMd(r) : r \in job.carry} \cup (Seen("document") \ job.carry)
             rw == [t \in {"document"} |-> table]
  <1>2. Validated(Downgrade(4, job.schema), rw)
    BY DEF NarrowFileTypes
  <1> HIDE DEF rw
  <1> QED BY <1>0, <1>1, <1>2, ValidatedSteps

\* The statements between: the schema and the number stay.
LEMMA JobIs ==
  ASSUME JobInv
  PROVE  job = [direction |-> job.direction, target |-> job.target, at |-> job.at,
                stage |-> job.stage, schema |-> job.schema, exclusive |-> job.exclusive,
                shared |-> job.shared, view |-> job.view, count |-> job.count,
                carry |-> job.carry, overlap |-> job.overlap]
  BY DEF JobInv

LEMMA StageSteps ==
  ASSUME MigrationsInv, ReclassifyMdx \/ CountChunks \/ CheckWidths \/ StageChunks
  PROVE  (job' = Idle /\ UNCHANGED <<schema, revision>>) \/ StaysAt
  <1>1. ASSUME JobInv, job # Idle, NEW stage, NEW carry, StepTo([job EXCEPT !.stage = stage, !.carry = carry])
        PROVE  StaysAt
    BY <1>1, JobIs DEF StepTo, StaysAt
  <1>2. ASSUME JobInv, job # Idle, NEW stage, NEW count, StepTo([job EXCEPT !.stage = stage, !.count = count])
        PROVE  StaysAt
    BY <1>2, JobIs DEF StepTo, StaysAt
  <1>3. ASSUME JobInv, job # Idle, NEW stage, StepTo([job EXCEPT !.stage = stage])
        PROVE  StaysAt
    BY <1>3, JobIs DEF StepTo, StaysAt
  <1>4. CASE ReclassifyMdx
    <2>1. JobInv /\ job # Idle
      BY <1>4, Runs DEF ReclassifyMdx, Running
    <2> QED BY <1>1, <1>4, <2>1 DEF ReclassifyMdx
  <1>5. CASE CountChunks
    <2>1. JobInv /\ job # Idle
      BY <1>5, Runs DEF CountChunks, Running
    <2> QED BY <1>2, <1>5, <2>1 DEF CountChunks
  <1>6. CASE CheckWidths
    <2>1. JobInv /\ job # Idle
      BY <1>6, Runs DEF CheckWidths, Running
    <2>2. CASE Abort("width")
      BY <2>2 DEF Abort
    <2>3. CASE StepTo([job EXCEPT !.stage = "checked"])
      BY <1>3, <2>1, <2>3
    <2> QED BY <1>6, <2>2, <2>3 DEF CheckWidths
  <1>7. CASE StageChunks
    <2>1. JobInv /\ job # Idle
      BY <1>7, Runs DEF StageChunks, Running
    <2> QED BY <1>1, <1>7, <2>1 DEF StageChunks
  <1> QED BY <1>4, <1>5, <1>6, <1>7

LEMMA ReplaceChunksSteps ==
  ASSUME MigrationsInv, ReplaceChunks
  PROVE  (job' = Idle /\ UNCHANGED <<schema, revision>>) \/ Advances
  <1> DEFINE up == job.direction = "up"
             after == IF up THEN Upgrade(8, job.schema) ELSE Downgrade(8, job.schema)
             E == [t \in {"document_chunk"} |-> job.carry]
             locks == {"document_chunk", "document", "chatbot", "organization"}
             a == Applied(after, E)
  <1>1. /\ JobInv /\ job # Idle
        /\ \/ job.stage = "counted" /\ ~Carries(job.count)
           \/ job.stage = "staged"
    BY Runs DEF ReplaceChunks, Running
  <1>2. Current = 8 /\ job.at \in 0..15 /\ job.direction \in {"up", "down"}
    BY <1>1 DEF JobInv, StageInv, HeadRevision
  <1>3. (up => job.at = 7) /\ (~up => job.at = 8 /\ job.direction = "down")
    BY <1>2 DEF Current
  <1>4. \/ Abort("mismatch") \/ Abort("cast")
        \/ StepTo([a EXCEPT !.exclusive = @ \cup locks])
    BY DEF ReplaceChunks
  <1>5. CASE StepTo([a EXCEPT !.exclusive = @ \cup locks])
    <2>1. Advanced(a, after, E)
      BY <1>1, AppliedIs
    <2> HIDE DEF a, after, E, locks
    <2>2. job' = [a EXCEPT !.exclusive = @ \cup locks] /\ UNCHANGED <<schema, revision>>
      BY <1>5 DEF StepTo
    <2>3. job'.at = NextAt /\ job'.schema = after
      BY <2>1, <2>2 DEF Advanced
    <2>4. CASE up
      <3>1. job.at \in 0..14 /\ after = Upgrade(job.at + 1, job.schema)
        BY <1>3, <2>4 DEF after
      <3> QED BY <1>1, <1>3, <2>2, <2>3, <2>4, <3>1 DEF Advances, Revised, NextAt
    <2>5. CASE ~up
      <3>1. job.at \in 1..15 /\ after = Downgrade(job.at, job.schema)
        BY <1>3, <2>5 DEF after
      <3> QED BY <1>1, <1>3, <2>2, <2>3, <2>5, <3>1 DEF Advances, Revised, NextAt
    <2> QED BY <2>4, <2>5
  <1>6. CASE Abort("mismatch") \/ Abort("cast")
    BY <1>6 DEF Abort
  <1> QED BY <1>4, <1>5, <1>6

\* A writer leaves the schemas alone.
LEMMA WriterSteps ==
  ASSUME MigrationsInv, NEW r, job' = Overlapping(r), UNCHANGED <<schema, revision>>
  PROVE  job' = Idle \/ StaysAt
  <1>1. CASE job = Idle
    <2>1. ~InWindow(r.table)
      BY <1>1 DEF InWindow, Idle
    <2> QED BY <1>1, <2>1 DEF Overlapping
  <1>2. CASE job # Idle
    <2>1. JobInv
      BY <1>2 DEF MigrationsInv
    <2>2. job'.schema = job.schema /\ job'.at = job.at
      <3> DEFINE j == Overlapping(r)
                 X == j.overlap
      <3>1. j = [direction |-> job.direction, target |-> job.target, at |-> job.at,
                 stage |-> job.stage, schema |-> job.schema, exclusive |-> job.exclusive,
                 shared |-> job.shared, view |-> job.view, count |-> job.count,
                 carry |-> job.carry, overlap |-> X]
        BY <2>1, OverlappingIs
      <3> HIDE DEF X, j
      <3>2. j.schema = job.schema /\ j.at = job.at
        BY <3>1
      <3> QED BY <3>2 DEF j
    <2> QED BY <1>2, <2>2 DEF StaysAt
  <1> QED BY <1>1, <1>2

\* What a step does to the committed schema and to the transaction's own.
Starts == UNCHANGED <<schema, revision>> /\ job'.schema = schema /\ job'.at = revision
Commits == job # Idle /\ job' = Idle /\ schema' = job.schema /\ revision' = job.at
Rests == UNCHANGED <<schema, revision>> /\ job' = Idle

\* Every step of the system is one of five.
LEMMA SchemaSteps ==
  ASSUME MigrationsInv, [Next]_vars
  PROVE  Rests \/ StaysAt \/ Starts \/ Commits \/ Advances
  <1>1. CASE \E r \in Rows : Write(r)
    <2>1. PICK r \in Rows : Write(r)
      BY <1>1
    <2> QED BY <2>1, WriterSteps DEF Write, Rests
  <1>2. CASE \E r \in rows : Delete(r)
    <2>1. PICK r \in rows : Delete(r)
      BY <1>2
    <2> QED BY <2>1, WriterSteps DEF Delete, Rests
  <1>3. CASE \E target \in Targets : Start(target)
    BY <1>3 DEF Start, Starts
  <1>4. CASE Revise
    BY <1>4, ReviseSteps
  <1>5. CASE DropEverything
    BY <1>5, DropEverythingSteps DEF Rests
  <1>6. CASE DropStaffRole
    BY <1>6, DropStaffRoleSteps DEF Rests
  <1>7. CASE ReclassifyMdx \/ CountChunks \/ CheckWidths \/ StageChunks
    BY <1>7, StageSteps DEF Rests
  <1>8. CASE NarrowFileTypes
    BY <1>8, NarrowFileTypesSteps DEF Rests
  <1>12. CASE ReplaceChunks
    BY <1>12, ReplaceChunksSteps DEF Rests
  <1>13. CASE Commit
    BY <1>13 DEF Commit, Commits
  <1>14. CASE Crash
    BY <1>14 DEF Crash, Abort, Rests
  <1>15. CASE UNCHANGED vars
    <2>1. CASE job = Idle
      BY <1>15, <2>1 DEF vars, Rests
    <2>2. CASE job # Idle
      BY <1>15, <2>2 DEF vars, StaysAt
    <2> QED BY <2>1, <2>2
  <1> QED BY <1>1, <1>2, <1>3, <1>4, <1>5, <1>6, <1>7, <1>8, <1>12,
             <1>13, <1>14, <1>15 DEF Next, Migrate

-----------------------------------------------------------------------------
(***************************************************************************)
(* What each revision can rely on having found, or not.                    *)
(***************************************************************************)

-----------------------------------------------------------------------------
\* The names of the partitions.
LEMMA PartitionNames ==
  /\ ChunkPartitions = {"document_chunk_p768", "document_chunk_p1024", "document_chunk_p1536",
                        "document_chunk_pdefault"}
  /\ MemoryTables = {"memory_entry", "memory_entry_p768", "memory_entry_p1024", "memory_entry_p1536",
                     "memory_entry_pdefault"}
  <1>1. Dimensions \cup {Default} = {768, 1024, 1536, 0}
    BY DEF Dimensions, Default
  <1>2. /\ ChunkPartition(768) = "document_chunk_p768" /\ ChunkPartition(1024) = "document_chunk_p1024"
        /\ ChunkPartition(1536) = "document_chunk_p1536" /\ ChunkPartition(0) = "document_chunk_pdefault"
    BY SMT DEF ChunkPartition
  <1>3. /\ MemoryPartition(768) = "memory_entry_p768" /\ MemoryPartition(1024) = "memory_entry_p1024"
        /\ MemoryPartition(1536) = "memory_entry_p1536" /\ MemoryPartition(0) = "memory_entry_pdefault"
    BY SMT DEF MemoryPartition
  <1>4. \A x : x \in ChunkPartitions <=> \E w \in {768, 1024, 1536, 0} : x = ChunkPartition(w)
    BY <1>1 DEF ChunkPartitions
  <1>5. \A x : x \in MemoryTables <=> x = "memory_entry" \/ \E w \in {768, 1024, 1536, 0} : x = MemoryPartition(w)
    BY <1>1 DEF MemoryTables
  <1> QED BY <1>2, <1>3, <1>4, <1>5

\* The tables of 0002 may be there from the start.
LEMMA FirstTables ==
  \A t \in TenantTables \cup {"organization", "vector", "pgcrypto"} : \A n : TableBy(t, n)
  <1> TAKE t \in TenantTables \cup {"organization", "vector", "pgcrypto"}
  <1> TAKE n
  <1>1. t \notin ChunkPartitions /\ t \notin MemoryTables
    BY PartitionNames DEF TenantTables
  <1> QED BY <1>1 DEF TableBy, TenantTables

\* What is sound at a revision is sound at a later one.
LEMMA Grows ==
  ASSUME NEW f, NEW n \in Int, NEW m \in Int, n <= m, Fact(f, n)
  PROVE  Fact(f, m)
  <1>1. TableBy(f[2], m)
    BY DEF Fact, TableBy
  <1>2. \A c : ColumnBy(c, n) => ColumnBy(c, m)
    BY DEF ColumnBy
  <1>3. f[2] \in Growing => \A c : Mentions(f, f[2], c) => ColumnBy(c, m)
    BY <1>2 DEF Fact
  <1> QED BY <1>1, <1>3 DEF Fact

LEMMA PlainClauses ==
  /\ \A t : \A f \in Pk(t) \cup Created(t) \cup Updated(t) \cup OrgId(t) : Plain(f)
  /\ \A t, a : \A f \in Required(t, a) \cup Optional(t, a) \cup Defaults(t, a) \cup Unique(t, a)
                          \cup Table(t, a) : Plain(f)
  /\ \A t, a, b : \A f \in References(t, a, b) \cup OneOf(t, a, b) \cup UniqueWhere(t, a, b) :
       Plain(f)
  /\ \A t, a, b, c : \A f \in Between(t, a, b, c) : Plain(f)
  <1>1. \A t : \A f \in Pk(t) \cup Created(t) \cup Updated(t) \cup OrgId(t) : Plain(f)
    BY PkIs, CreatedIs, UpdatedIs, OrgIdIs DEF Plain
  <1>2. \A t, a : \A f \in Required(t, a) \cup Optional(t, a) \cup Defaults(t, a) \cup Unique(t, a)
                             \cup Table(t, a) : Plain(f)
    BY RequiredIs, OptionalIs, UniqueIs, DefaultsIs, TableClauseIs DEF Plain
  <1>3. \A t, a, b : \A f \in References(t, a, b) \cup OneOf(t, a, b) \cup UniqueWhere(t, a, b) :
          Plain(f)
    BY ReferencesIs, UniqueWhereIs, OneOfIs DEF Plain
  <1>4. \A t, a, b, c : \A f \in Between(t, a, b, c) : Plain(f)
    BY BetweenIs DEF Plain
  <1> QED BY <1>1, <1>2, <1>3, <1>4

\* When a clause, a column, a policy added by a later revision is a fact of it.
LEMMA LaterFact ==
  ASSUME NEW f, NEW n \in Int, n >= 5, Plain(f), TableBy(f[2], n),
         f[2] \notin {"document", "message", "chatbot"}
  PROVE  Fact(f, n)
  BY DEF Fact, Plain, Growing

LEMMA ColumnFact ==
  ASSUME NEW f, NEW n \in Int, f[1] \in {"column", "default", "range"}, f[2] = "chatbot",
         ColumnBy(f[3], n)
  PROVE  Fact(f, n)
  <1>1. TableBy("chatbot", n)
    BY FirstTables DEF TenantTables
  <1>2. \A c : Mentions(f, "chatbot", c) => c = f[3]
    BY DEF Mentions
  <1> QED BY <1>1, <1>2 DEF Fact

LEMMA PolicyFact ==
  ASSUME NEW f, NEW n \in Int, n >= 3, f[1] \in {"policy", "hnsw"}, TableBy(f[2], n)
  PROVE  Fact(f, n)
  <1>1. \A c : ~Mentions(f, f[2], c)
    BY DEF Mentions
  <1> QED BY <1>1 DEF Fact

\* Row-level security for one table is its policy.
LEMMA RlsOne ==
  \A s, t : EnableRls(s, {t}) = s \cup Policy(t)
  BY DEF EnableRls

-----------------------------------------------------------------------------
\* A revision from 0004 on, 0008 apart, leaves a sound schema if what it adds is.
LEMMA Extended ==
  ASSUME NEW s, NEW u, NEW k \in 3..14, k # 7, NEW n, n = k + 1, Sound(s, k), SchemaInv(u, n),
         \A f \in s : f \in u \/ (f[1] # "policy" /\ f[2] # "document_chunk"),
         \A f \in u : f \in s \/ (Fact(f, n) /\ f[2] # "document_chunk"),
         \A f \in u : f \in s \/ ((f[1] = "table" /\ f[2] # "organization") \/ f[1] = "partition"
                                    => Policy(f[2]) \subseteq u),
         n = 12 => Defaults("chatbot", {RetentionDefault}) \subseteq u
  PROVE  Sound(u, n)
  <1>0. k \in Int /\ n \in Int /\ k <= n /\ n >= 4 /\ n # 8 /\ k >= 3
    OBVIOUS
  <1>1. \A f \in u : Fact(f, n)
    <2> TAKE f \in u
    <2>1. CASE f \in s
      BY <1>0, <2>1, Grows DEF Sound
    <2> QED BY <2>1
  <1>2. AllGuarded(u)
    <2> SUFFICES ASSUME NEW f \in u, (f[1] = "table" /\ f[2] # "organization") \/ f[1] = "partition"
                 PROVE  Policy(f[2]) \subseteq u
      BY DEF AllGuarded
    <2>1. CASE f \in s
      <3>1. Policy(f[2]) \subseteq s
        BY <2>1 DEF Sound, AllGuarded
      <3>2. \A g \in Policy(f[2]) : g[1] = "policy"
        BY PolicyIs
      <3> QED BY <3>1, <3>2
    <2> QED BY <2>1
  <1>3. ASSUME n \in 3..7 PROVE ChunkFacts(u) = LegacyChunks
    <2>1. k \in 3..7
      BY <1>0, <1>3
    <2>2. ChunkFacts(s) = LegacyChunks
      BY <2>1 DEF Sound
    <2>3. \A f : f \in u /\ f[2] = "document_chunk" <=> f \in s /\ f[2] = "document_chunk"
      OBVIOUS
    <2> QED BY <2>2, <2>3 DEF ChunkFacts
  <1>4. n # 2
    BY <1>0
  <1> QED BY <1>1, <1>2, <1>3, <1>4 DEF Sound

LEMMA TableDropped ==
  ASSUME NEW s, NEW t, NEW A, NEW B, NEW u, Opens(s, u, t, A, B)
  PROVE  /\ DropTable(DropPolicy(u, t), t) = s \cup B
         /\ DropTable(u, t) = s \cup B
  <1>1. \A f \in Policy(t) : f[1] = "policy" /\ f[2] = t
    BY PolicyIs
  <1>2. ASSUME NEW v, \A f \in v : f \in u, \A f \in s \cup B : f \in v
        PROVE  DropTable(v, t) = s \cup B
    <2>1. PartitionsOf(v, t) = {}
      BY <1>1, <1>2 DEF PartitionsOf, Kind, Plain, Opens
    <2>2. DropTable(v, t) = {f \in v : f[2] # t}
      BY <2>1 DEF DropTable
    <2> QED BY <1>1, <1>2, <2>2 DEF Opens
  <1>3. DropTable(u, t) = s \cup B
    BY <1>2 DEF Opens
  <1>4. (\A f \in DropPolicy(u, t) : f \in u) /\ \A f \in s \cup B : f \in DropPolicy(u, t)
    BY <1>1 DEF DropPolicy, Opens
  <1>5. DropTable(DropPolicy(u, t), t) = s \cup B
    BY <1>2, <1>4
  <1> QED BY <1>3, <1>5

-----------------------------------------------------------------------------
\* Such a revision leaves a sound schema, and dropping the table takes it back.
LEMMA TableCreated ==
  ASSUME NEW s, NEW u, NEW k \in {4, 6, 13}, NEW n \in {5, 7, 14}, n = k + 1,
         Sound(s, k), SchemaInv(u, n), NEW t, NEW A, NEW B, NewTable(s, u, n, t, A, B)
  PROVE  /\ Sound(u, n)
         /\ DropTable(DropPolicy(u, t), t) = s \cup B
         /\ DropTable(u, t) = s \cup B
  <1>0. n \in Int /\ n >= 5
    OBVIOUS
  <1>1. t \notin {"document", "message", "chatbot", "document_chunk", "organization"}
    BY DEF TenantTables, NewTable
  <1>2. \A f \in Policy(t) : f[1] = "policy" /\ f[2] = t
    BY PolicyIs
  <1>3. \A f \in A : Fact(f, n)
    BY <1>0, <1>1, LaterFact DEF NewTable
  <1>4. \A f \in Policy(t) : Fact(f, n)
    BY <1>0, <1>2, PolicyFact DEF NewTable
  <1>5. \A f \in B : Fact(f, n)
    BY <1>0, ColumnFact DEF NewTable
  <1>6. \A f \in u : f \in s \/ (Fact(f, n) /\ f[2] # "document_chunk")
    BY <1>1, <1>2, <1>3, <1>4, <1>5 DEF NewTable
  <1>7. \A f \in u : f \in s \/ ((f[1] = "table" /\ f[2] # "organization") \/ f[1] = "partition"
                                   => Policy(f[2]) \subseteq u)
    BY <1>2 DEF NewTable
  <1>8. \A f \in s : f \in u
    BY DEF NewTable
  <1>9. Sound(u, n)
    BY <1>6, <1>7, <1>8, Extended
  <1>10. \A f \in s : f[2] # t /\ (f[1] = "partition" => f[3] # t)
    <2>0. ~TableBy(t, k)
      BY DEF NewTable
    <2>1. \A f \in s : f[2] # t
      BY <2>0 DEF Sound, Fact
    <2>2. t \notin {"document_chunk", "memory_entry"}
      BY <1>1 DEF NewTable, MemoryTables
    <2> QED BY <2>1, <2>2 DEF Sound, Fact
  <1>11. Opens(s, u, t, A, B)
    BY <1>1, <1>10 DEF NewTable, Plain, Opens
  <1> QED BY <1>9, <1>11, TableDropped

\* The tables the later revisions create are none of the first seven.
LEMMA Names ==
  /\ \A t \in {"invitation", "chatbot_ai_config", "ticket", "chatbot_usage_period"} :
        t \notin TenantTables \cup {"organization"} \cup MemoryTables \cup ChunkPartitions
  /\ \A n : /\ TableBy("invitation", n) <=> n >= 5
            /\ TableBy("chatbot_ai_config", n) <=> n >= 7
            /\ TableBy("ticket", n) <=> n >= 9
            /\ TableBy("chatbot_usage_period", n) <=> n >= 14
  <1>1. \A t \in {"invitation", "chatbot_ai_config", "ticket", "chatbot_usage_period"} :
           t \notin TenantTables \cup {"organization"} \cup MemoryTables \cup ChunkPartitions
    BY PartitionNames DEF TenantTables
  <1> QED BY <1>1 DEF TableBy

\* 0005, up and down again.
LEMMA Five ==
  ASSUME NEW s, Sound(s, 4)
  PROVE  Sound(Up5(s), 5) /\ Down5(Up5(s)) = s
  <1> DEFINE t == "invitation"
             P == {<<"invited_by", "app_user">>}
             key == {"org_id", "email"}
             live == "status = 'pending'"
             roles == {"owner", "admin", "member"}
             states == {"pending", "accepted", "revoked"}
             A == Pk(t) \cup Created(t) \cup Updated(t) \cup OrgId(t)
                    \cup Required(t, {"email", "role", "token_hash", "status", "expires_at"})
                    \cup Optional(t, {"invited_by", "accepted_at"})
                    \cup References(t, "SET NULL", P)
                    \cup Unique(t, {"token_hash"})
                    \cup UniqueWhere(t, key, live)
                    \cup OneOf(t, "role", roles)
                    \cup OneOf(t, "status", states)
             B == {}
             u == Up5(s)
  <1>1. u = EnableRls(s \cup A, {t})
    BY DEF Up5
  <1>2. SchemaInv(u, 5)
    BY Up5Moves DEF Sound
  <1>3. t \notin TenantTables \cup {"organization"} \cup MemoryTables
         /\ TableBy(t, 5) /\ ~TableBy(t, 5 - 1)
    BY Names
  <1>4. Down5(u) = DropTable(DropPolicy(u, t), t)
    BY DEF Down5
  <1> HIDE DEF u, t, P, key, live, roles, states
  <1>5. \A f \in A : f[2] = t /\ Plain(f)
    BY Located, PlainClauses
  <1> HIDE DEF A
  <1>6. u = (s \cup A) \cup Policy(t)
    BY <1>1, RlsOne
  <1>7. NewTable(s, u, 5, t, A, B)
    BY <1>3, <1>5, <1>6 DEF NewTable
  <1>8. Sound(u, 5) /\ Down5(u) = s \cup B
    <2> HIDE DEF B
    <2>1. 4 \in {4, 6, 13} /\ 5 \in {5, 7, 14} /\ 5 = 4 + 1
      OBVIOUS
    <2> QED BY <1>2, <1>4, <1>7, <2>1, TableCreated
  <1> QED BY <1>8 DEF u

\* 0007.
LEMMA Seven ==
  ASSUME NEW s, Sound(s, 6)
  PROVE  Sound(Up7(s), 7) /\ Down7(Up7(s)) = s
  <1> DEFINE t == "chatbot_ai_config"
             P == {<<"chat_config_json", "{}">>, <<"embedding_config_json", "{}">>}
             R == {<<"chatbot_id", "chatbot">>}
             A == Pk(t) \cup Created(t) \cup Updated(t) \cup OrgId(t)
                   \cup Required(t, {"chatbot_id", "chat_provider", "chat_model",
                                     "chat_config_json", "embedding_provider",
                                     "embedding_model", "embedding_config_json"})
                   \cup Optional(t, {"chat_credentials_encrypted",
                                     "embedding_credentials_encrypted", "embedding_dimension"})
                   \cup Defaults(t, P)
                   \cup References(t, "CASCADE", R)
                   \cup Unique(t, {"chatbot_id"})
                   \cup OneOf(t, "chat_provider", {"azure", "bedrock", "anthropic", "ollama"})
                   \cup OneOf(t, "embedding_provider", {"azure", "bedrock", "ollama"})
             B == {}
             u == Up7(s)
  <1>1. u = EnableRls(s \cup A, {t})
    BY DEF Up7
  <1>2. SchemaInv(u, 7)
    BY Up7Moves DEF Sound
  <1>3. t \notin TenantTables \cup {"organization"} \cup MemoryTables
         /\ TableBy(t, 7) /\ ~TableBy(t, 7 - 1)
    BY Names
  <1>4. Down7(u) = DropTable(DropPolicy(u, t), t)
    BY DEF Down7
  <1> HIDE DEF u, t, P, R
  <1>5. \A f \in A : f[2] = t /\ Plain(f)
    BY Located, PlainClauses
  <1> HIDE DEF A
  <1>6. u = (s \cup A) \cup Policy(t)
    BY <1>1, RlsOne
  <1>7. NewTable(s, u, 7, t, A, B)
    BY <1>3, <1>5, <1>6 DEF NewTable
  <1>8. Sound(u, 7) /\ Down7(u) = s \cup B
    <2> HIDE DEF B
    <2>1. 6 \in {4, 6, 13} /\ 7 \in {5, 7, 14} /\ 7 = 6 + 1
      OBVIOUS
    <2> QED BY <1>2, <1>4, <1>7, <2>1, TableCreated
  <1> QED BY <1>8 DEF u

-----------------------------------------------------------------------------
\* A sound schema says nothing of the columns the revision is about to add.
LEMMA NoColumnYet ==
  ASSUME NEW s, NEW n, Sound(s, n), NEW t \in Growing, NEW c, ~ColumnBy(c, n)
  PROVE  \A f \in s : ~Mentions(f, t, c)
  <1> SUFFICES ASSUME NEW f \in s, Mentions(f, t, c) PROVE FALSE
    OBVIOUS
  <1>1. f[2] = t
    BY DEF Mentions
  <1>2. ColumnBy(c, n)
    BY <1>1 DEF Sound, Fact
  <1> QED BY <1>2

\* Such a revision leaves a sound schema, and what remains without the columns is what was.
LEMMA ColumnsCreated ==
  ASSUME NEW s, NEW u, NEW k \in {5, 9, 10, 14}, NEW n \in {6, 10, 11, 15}, n = k + 1,
         Sound(s, k), SchemaInv(u, n), NEW C, NEW B, NewColumns(s, u, n, C, B)
  PROVE  /\ Sound(u, n)
         /\ {f \in u : \A c \in C : ~Mentions(f, "chatbot", c)} = s
  <1>0. n \in Int
    OBVIOUS
  <1>1. \A f \in B : Fact(f, n)
    BY <1>0, ColumnFact DEF NewColumns
  <1>2. \A f \in u : f \in s \/ (Fact(f, n) /\ f[2] # "document_chunk")
    BY <1>1 DEF NewColumns
  <1>3. \A f \in u : f \in s \/ ((f[1] = "table" /\ f[2] # "organization") \/ f[1] = "partition"
                                   => Policy(f[2]) \subseteq u)
    BY DEF NewColumns
  <1>4. \A f \in s : f \in u
    BY DEF NewColumns
  <1>5. Sound(u, n)
    BY <1>2, <1>3, <1>4, Extended
  <1>6. \A f \in s : \A c \in C : ~Mentions(f, "chatbot", c)
    <2>1. \A c \in C : ~ColumnBy(c, k)
      BY DEF NewColumns
    <2>2. "chatbot" \in Growing
      BY DEF Growing
    <2> QED BY <2>1, <2>2, NoColumnYet
  <1>7. \A f \in B : f[3] \in C /\ Mentions(f, "chatbot", f[3])
    BY DEF NewColumns, Mentions
  <1>8. \A f : f \in u <=> f \in s \/ f \in B
    BY DEF NewColumns
  <1>9. {f \in u : \A c \in C : ~Mentions(f, "chatbot", c)} = s
    BY <1>6, <1>7, <1>8
  <1> QED BY <1>5, <1>9

\* The columns a clause names.
Names3(f, t, C) == f[1] \in {"column", "default", "range"} /\ f[2] = t /\ f[3] \in C
LEMMA RequiredNames == \A t, C : \A f \in Required(t, C) : Names3(f, t, C)
  <1> TAKE t, C
  <1> TAKE f \in Required(t, C)
  <1>1. PICK c \in C : f = <<"column", t, c, "not null">>
    BY DEF Required
  <1> QED BY <1>1 DEF Names3
LEMMA OptionalNames == \A t, C : \A f \in Optional(t, C) : Names3(f, t, C)
  <1> TAKE t, C
  <1> TAKE f \in Optional(t, C)
  <1>1. PICK c \in C : f = <<"column", t, c, "null">>
    BY DEF Optional
  <1> QED BY <1>1 DEF Names3
LEMMA DefaultsNames ==
  ASSUME NEW t, NEW P, NEW C, \A p \in P : p[1] \in C
  PROVE  \A f \in Defaults(t, P) : Names3(f, t, C)
  <1> TAKE f \in Defaults(t, P)
  <1>1. PICK p \in P : f = <<"default", t, p[1], p[2]>>
    BY DEF Defaults
  <1> QED BY <1>1 DEF Names3
LEMMA BetweenNames ==
  ASSUME NEW t, NEW C, NEW c \in C, NEW lo, NEW hi
  PROVE  \A f \in Between(t, c, lo, hi) : Names3(f, t, C)
  BY DEF Between, Names3

\* The revisions the new columns come with.
LEMMA ColumnTimes ==
  \A n : /\ ColumnBy("theme_json", n) <=> n >= 6
         /\ ColumnBy("staff_user_id", n) <=> n >= 9
         /\ ColumnBy("retention_days", n) <=> n >= 10
         /\ \A c \in {"privacy_url", "terms_url"} : ColumnBy(c, n) <=> n >= 11
         /\ ColumnBy("nuvrag_mem_retention_days", n) <=> n >= 12
         /\ \A c \in CapColumns \cup {"usage_cap_message"} : ColumnBy(c, n) <=> n >= 14
         /\ \A c \in ThresholdColumns \cup {TimestampColumn} : ColumnBy(c, n) <=> n >= 15
  BY DEF ColumnBy, CapColumns, ThresholdColumns, TimestampColumn

\* 0006.
LEMMA Six ==
  ASSUME NEW s, Sound(s, 5)
  PROVE  Sound(Up6(s), 6) /\ Down6(Up6(s)) = s
  <1> DEFINE c == "theme_json"
             v == "{}"
             P == {<<c, v>>}
             C == {c}
             B == Required("chatbot", C) \cup Defaults("chatbot", P)
             u == Up6(s)
  <1>1. u = s \cup Required("chatbot", C) \cup Defaults("chatbot", P)
    BY DEF Up6
  <1>2. SchemaInv(u, 6)
    BY Up6Moves DEF Sound
  <1>3. Down6(u) = {f \in u : ~Mentions(f, "chatbot", c)}
    BY DEF Down6, DropColumn
  <1>4. ColumnBy(c, 6) /\ ~ColumnBy(c, 5)
    BY ColumnTimes
  <1> HIDE DEF u, c, v
  <1>5. \A p \in P : p[1] \in C
    OBVIOUS
  <1> HIDE DEF P
  <1>6. \A f \in B : Names3(f, "chatbot", C)
    BY <1>5, RequiredNames, DefaultsNames
  <1>7. \A f : f \in u <=> f \in s \/ f \in B
    BY <1>1
  <1> HIDE DEF B
  <1>8. NewColumns(s, u, 6, C, B)
    BY <1>4, <1>6, <1>7 DEF NewColumns, Names3
  <1>9. Sound(u, 6) /\ {f \in u : \A d \in C : ~Mentions(f, "chatbot", d)} = s
    <2> HIDE DEF C
    <2>1. 5 \in {5, 9, 10, 14} /\ 6 \in {6, 10, 11, 15} /\ 6 = 5 + 1
      OBVIOUS
    <2>2. Sound(u, 6)
      BY <1>2, <1>8, <2>1, ColumnsCreated
    <2>3. {f \in u : \A d \in C : ~Mentions(f, "chatbot", d)} = s
      BY <1>2, <1>8, <2>1, ColumnsCreated
    <2> QED BY <2>2, <2>3
  <1>10. Down6(u) = s
    BY <1>3, <1>9
  <1> QED BY <1>9, <1>10 DEF u

\* 0010.
LEMMA Ten ==
  ASSUME NEW s, Sound(s, 9)
  PROVE  Sound(Up10(s), 10) /\ Down10(Up10(s)) = s
  <1> DEFINE c == "retention_days"
             C == {c}
             B == Optional("chatbot", C) \cup Between("chatbot", c, 1, 3650)
             u == Up10(s)
             q == DropCheck(u, "chatbot", c)
  <1>1. u = s \cup Optional("chatbot", C) \cup Between("chatbot", c, 1, 3650)
    BY DEF Up10
  <1>2. SchemaInv(u, 10)
    BY Up10Moves DEF Sound
  <1>3. Down10(u) = DropColumn(q, "chatbot", c)
    BY DEF Down10
  <1>4. ColumnBy(c, 10) /\ ~ColumnBy(c, 9)
    BY ColumnTimes
  <1> HIDE DEF u, c
  <1>5. c \in C
    OBVIOUS
  <1>6. \A f \in B : Names3(f, "chatbot", C)
    BY <1>5, OptionalNames, BetweenNames
  <1>7. \A f : f \in u <=> f \in s \/ f \in B
    BY <1>1
  <1> HIDE DEF B
  <1>8. NewColumns(s, u, 10, C, B)
    BY <1>4, <1>6, <1>7 DEF NewColumns, Names3
  <1>9. Sound(u, 10) /\ {f \in u : \A d \in C : ~Mentions(f, "chatbot", d)} = s
    <2> HIDE DEF C
    <2>1. 9 \in {5, 9, 10, 14} /\ 10 \in {6, 10, 11, 15} /\ 10 = 9 + 1
      OBVIOUS
    <2> QED BY <1>2, <1>8, <2>1, ColumnsCreated
  <1>10. Down10(u) = {f \in u : ~Mentions(f, "chatbot", c)}
    BY <1>3 DEF DropColumn, DropCheck, Mentions
  <1>11. Down10(u) = s
    BY <1>9, <1>10
  <1> QED BY <1>9, <1>11 DEF u

\* 0011.
LEMMA Eleven ==
  ASSUME NEW s, Sound(s, 10)
  PROVE  Sound(Up11(s), 11) /\ Down11(Up11(s)) = s
  <1> DEFINE c == "privacy_url"
             d == "terms_url"
             v == ""
             P == {<<c, v>>, <<d, v>>}
             C == {c, d}
             B == Required("chatbot", C) \cup Defaults("chatbot", P)
             u == Up11(s)
             q == DropColumn(u, "chatbot", c)
  <1>1. u = s \cup Required("chatbot", C) \cup Defaults("chatbot", P)
    BY DEF Up11
  <1>2. SchemaInv(u, 11)
    BY Up11Moves DEF Sound
  <1>3. Down11(u) = DropColumn(q, "chatbot", d)
    BY DEF Down11
  <1>4. \A x \in C : ColumnBy(x, 11) /\ ~ColumnBy(x, 10)
    BY ColumnTimes
  <1> HIDE DEF u, c, d, v
  <1>5. \A p \in P : p[1] \in C
    OBVIOUS
  <1> HIDE DEF P
  <1>6. \A f \in B : Names3(f, "chatbot", C)
    BY <1>5, RequiredNames, DefaultsNames
  <1>7. \A f : f \in u <=> f \in s \/ f \in B
    BY <1>1
  <1> HIDE DEF B
  <1>8. NewColumns(s, u, 11, C, B)
    BY <1>4, <1>6, <1>7 DEF NewColumns, Names3
  <1>9. Sound(u, 11) /\ {f \in u : \A x \in C : ~Mentions(f, "chatbot", x)} = s
    <2> HIDE DEF C
    <2>1. 10 \in {5, 9, 10, 14} /\ 11 \in {6, 10, 11, 15} /\ 11 = 10 + 1
      OBVIOUS
    <2> QED BY <1>2, <1>8, <2>1, ColumnsCreated
  <1>10. Down11(u) = {f \in u : ~Mentions(f, "chatbot", c) /\ ~Mentions(f, "chatbot", d)}
    BY <1>3 DEF DropColumn
  <1>11. Down11(u) = s
    BY <1>9, <1>10
  <1> QED BY <1>9, <1>11 DEF u

\* 0015.
LEMMA Fifteen ==
  ASSUME NEW s, Sound(s, 14)
  PROVE  Sound(Up15(s), 15) /\ Down15(Up15(s)) = s
  <1> DEFINE C == ThresholdColumns \cup {TimestampColumn}
             U == UNION {Between("chatbot", c, 0, 1) : c \in ThresholdColumns}
             B == Optional("chatbot", C) \cup U
             u == Up15(s)
  <1>1. u = s \cup Optional("chatbot", C) \cup U
    BY DEF Up15
  <1>2. SchemaInv(u, 15)
    BY Up15Moves DEF Sound
  <1>3. Down15(u) = {f \in u : \A x \in C : ~Mentions(f, "chatbot", x)}
    BY DEF Down15
  <1>4. \A x \in C : ColumnBy(x, 15) /\ ~ColumnBy(x, 14)
    BY ColumnTimes
  <1>5. \A f \in U : Names3(f, "chatbot", C)
    <2> TAKE f \in U
    <2>1. PICK c \in ThresholdColumns : f \in Between("chatbot", c, 0, 1)
      OBVIOUS
    <2> QED BY <2>1, BetweenNames
  <1> HIDE DEF u, C, U
  <1>6. \A f \in B : Names3(f, "chatbot", C)
    BY <1>5, OptionalNames
  <1>7. \A f : f \in u <=> f \in s \/ f \in B
    BY <1>1
  <1> HIDE DEF B
  <1>8. NewColumns(s, u, 15, C, B)
    BY <1>4, <1>6, <1>7 DEF NewColumns, Names3
  <1>9. Sound(u, 15) /\ {f \in u : \A d \in C : ~Mentions(f, "chatbot", d)} = s
    <2>1. 14 \in {5, 9, 10, 14} /\ 15 \in {6, 10, 11, 15} /\ 15 = 14 + 1
      OBVIOUS
    <2> QED BY <1>2, <1>8, <2>1, ColumnsCreated
  <1> QED BY <1>3, <1>9 DEF u

\* 0003.
LEMMA Three ==
  ASSUME NEW s, Sound(s, 2)
  PROVE  Sound(Up3(s), 3) /\ Down3(Up3(s)) = s
  <1> DEFINE c == "document_chunk"
             U == UNION {Policy(t) : t \in TenantTables}
             H == Hnsw(c)
             u == Up3(s)
  <1>1. u = (s \cup U) \cup H /\ Down3(u) = (u \ U) \ H
    BY DEF Up3, EnableRls, Down3
  <1>2. SchemaInv(u, 3)
    BY Up3Moves DEF Sound
  <1>3. \A f \in U : f[1] = "policy" /\ f[2] \in TenantTables
    BY PolicyIs
  <1>4. \A f \in H : f[1] = "hnsw" /\ f[2] = c
    BY HnswIs
  <1>5. c \in TenantTables
    BY DEF TenantTables
  <1>6. /\ \A t \in TenantTables : Policy(t) \subseteq U
        /\ \A f \in U : f[2] = c => f \in Policy(c)
        /\ \A f \in Policy(c) : f[2] = c
    <2>1. \A f \in U : f \in Policy(f[2])
      <3> TAKE f \in U
      <3>1. PICK t \in TenantTables : f \in Policy(t)
        OBVIOUS
      <3> QED BY <3>1, PolicyIs
    <2> QED BY <2>1, PolicyIs
  <1> HIDE DEF U, H, u, c
  <1>7. \A f \in s : f[1] \notin {"policy", "hnsw", "partition"} /\ Fact(f, 3)
                       /\ (f[1] = "table" => f[2] \in TenantTables \cup {"organization"})
    BY Grows DEF Sound, Fact
  <1>8. Down3(u) = s
    BY <1>1, <1>3, <1>4, <1>7
  <1>9. \A f \in u : Fact(f, 3)
    <2>1. \A f \in U \cup H : f[1] \in {"policy", "hnsw"} /\ TableBy(f[2], 3)
      BY <1>3, <1>4, <1>5, FirstTables
    <2>2. \A f \in U \cup H : Fact(f, 3)
      BY <2>1, PolicyFact
    <2> QED BY <1>1, <1>7, <2>2
  <1>10. AllGuarded(u)
    BY <1>1, <1>3, <1>4, <1>6, <1>7 DEF AllGuarded
  <1>11. ChunkFacts(u) = LegacyChunks
    <2>1. ChunkFacts(s) = InitialChunks
      BY DEF Sound
    <2>2. \A f : f \in s /\ f[2] = c <=> f \in InitialChunks
      BY <2>1 DEF ChunkFacts, c
    <2>3. \A f : f \in u /\ f[2] = c <=> f \in InitialChunks \/ f \in H \/ f \in Policy(c)
      BY <1>1, <1>4, <1>5, <1>6, <2>2
    <2> QED BY <2>3 DEF ChunkFacts, LegacyChunks, H, c
  <1> QED BY <1>2, <1>8, <1>9, <1>10, <1>11 DEF Sound, u

-----------------------------------------------------------------------------
\* What a swap leaves: everything but the old check, and the new one.
LEMMA NewListHas ==
  \A s, t, n : \A f : f \in NewList(s, t, n) <=> f = ListFact(t, n) \/ (f \in s /\ ~IsList(f, t))
  BY DEF NewList, DropCheck, OneOf, ListFact, IsList

\* In a sound schema the old check is the only one on its column.
LEMMA OldList ==
  ASSUME NEW s, NEW n \in 2..15, Sound(s, n), NEW t \in {"document", "message"}
  PROVE  ListFact(t, n) \in s /\ \A f \in s : IsList(f, t) <=> f = ListFact(t, n)
  <1>1. SchemaInv(s, n) /\ \A f \in s : f[1] = "range" => f[2] # t
    BY DEF Sound, Fact
  <1>2. ListFact(t, n) \in s /\ \A f \in s : f[1] = "words" /\ f[2] = t /\ f[3] \in {"file_type", "role"} => f = ListFact(t, n)
    BY <1>1, SchemaWords
  <1> QED BY <1>1, <1>2, ListFactIs DEF IsList

\* A check on words is a fact at any revision.
LEMMA WordFact ==
  ASSUME NEW n \in Int, n >= 2, NEW t \in {"document", "message"}
  PROVE  Fact(ListFact(t, n), n) /\ ListFact(t, n)[2] # "document_chunk" /\ ListFact(t, n)[1] = "words"
  <1> DEFINE f == ListFact(t, n)
  <1>1. f[1] = "words" /\ f[2] = t /\ f[3] = Listed(t)
    BY ListFactIs
  <1> HIDE DEF f
  <1>2. TableBy(t, n)
    BY FirstTables DEF TenantTables
  <1>3. \A c : Mentions(f, t, c) => c = Listed(t)
    BY <1>1 DEF Mentions
  <1>4. ColumnBy(Listed(t), n)
    BY DEF ColumnBy, Listed, CapColumns, ThresholdColumns, TimestampColumn
  <1> QED BY <1>1, <1>2, <1>3, <1>4 DEF Fact, f

\* 0004, which widens a check and narrows it again.
LEMMA Four ==
  ASSUME NEW s, Sound(s, 3)
  PROVE  Sound(Up4(s), 4) /\ Down4(Up4(s)) = s
  <1> DEFINE t == "document"
             u == Up4(s)
  <1>1. u = NewList(s, t, 4) /\ Down4(u) = NewList(u, t, 3)
    BY Lists DEF Up4, Down4, SwapFileTypes, NewList, Listed
  <1>2. SchemaInv(u, 4)
    BY Up4Moves DEF Sound
  <1>3. t \in {"document", "message"}
    OBVIOUS
  <1>0. t # "document_chunk"
    OBVIOUS
  <1> HIDE DEF t, u
  <1>4. ListFact(t, 3) \in s /\ \A f \in s : IsList(f, t) <=> f = ListFact(t, 3)
    BY <1>3, OldList
  <1>5. Fact(ListFact(t, 4), 4) /\ ListFact(t, 4)[2] # "document_chunk" /\ ListFact(t, 4)[1] = "words"
    BY <1>3, WordFact
  <1>6. IsList(ListFact(t, 4), t)
    BY ListFactIs DEF IsList
  <1>7. \A f : f \in u <=> f = ListFact(t, 4) \/ (f \in s /\ ~IsList(f, t))
    BY <1>1, NewListHas
  <1>8. \A f : f \in Down4(u) <=> f = ListFact(t, 3) \/ (f \in u /\ ~IsList(f, t))
    BY <1>1, NewListHas
  <1>9. Down4(u) = s
    BY <1>4, <1>6, <1>7, <1>8
  <1>10. \A f \in s : f \in u \/ (f[1] # "policy" /\ f[2] # "document_chunk")
    BY <1>0, <1>7 DEF IsList
  <1>11. \A f \in u : f \in s \/ (Fact(f, 4) /\ f[2] # "document_chunk")
    BY <1>5, <1>7
  <1>12. \A f \in u : f \in s \/ ((f[1] = "table" /\ f[2] # "organization") \/ f[1] = "partition"
                                    => Policy(f[2]) \subseteq u)
    BY <1>5, <1>7
  <1>13. Sound(u, 4)
    <2>1. 3 \in 3..14 /\ 3 # 7 /\ 4 = 3 + 1
      OBVIOUS
    <2> QED BY <1>2, <1>10, <1>11, <1>12, <2>1, Extended
  <1> QED BY <1>9, <1>13 DEF u

\* 0013, which takes a default away and restores it.
LEMMA Thirteen ==
  ASSUME NEW s, Sound(s, 12)
  PROVE  Sound(Up13(s), 13) /\ Down13(Up13(s)) = s
  <1> DEFINE D == Defaults("chatbot", {RetentionDefault})
             u == Up13(s)
  <1>1. u = s \ D /\ Down13(u) = u \cup D
    BY DEF Up13, Down13
  <1>2. SchemaInv(u, 13)
    BY Up13Moves DEF Sound
  <1>3. D \subseteq s
    BY DEF Sound
  <1>4. \A f \in D : f[1] = "default" /\ f[2] = "chatbot"
    <2> DEFINE P == {RetentionDefault}
    <2> HIDE DEF P
    <2> QED BY DefaultsIs DEF P
  <1> HIDE DEF D, u
  <1>5. \A f \in s : f \in u \/ (f[1] # "policy" /\ f[2] # "document_chunk")
    BY <1>1, <1>4
  <1>6. \A f \in u : f \in s
    BY <1>1
  <1>7. Sound(u, 13)
    <2>1. 12 \in 3..14 /\ 12 # 7 /\ 13 = 12 + 1
      OBVIOUS
    <2> QED BY <1>2, <1>5, <1>6, <2>1, Extended
  <1>8. Down13(u) = s
    BY <1>1, <1>3
  <1> QED BY <1>7, <1>8 DEF u

\* 0014.
LEMMA Fourteen ==
  ASSUME NEW s, Sound(s, 13)
  PROVE  Sound(Up14(s), 14) /\ Down14(Up14(s)) = s
  <1> DEFINE t == "chatbot_usage_period"
             O == {<<"ingestion_units_used", "0">>, <<"retrieval_calls_used", "0">>}
             P == {<<"chatbot_id", "chatbot">>}
             m == "usage_cap_message"
             v == "the default message"
             Q == {<<m, v>>}
             key == {"chatbot_id", "period_start"}
             required == {"chatbot_id", "period_start", "ingestion_units_used",
                          "retrieval_calls_used"}
             A == Table(t, key) \cup Created(t) \cup Updated(t) \cup OrgId(t)
                    \cup Required(t, required) \cup Defaults(t, O) \cup References(t, "CASCADE", P)
                    \cup Between(t, "ingestion_units_used", 0, "any")
                    \cup Between(t, "retrieval_calls_used", 0, "any")
             U == UNION {Between("chatbot", c, 1, CapMax) : c \in CapColumns}
             M == {m}
             C == CapColumns \cup M
             V == EnableRls(s \cup A, {t})
             B == Optional("chatbot", CapColumns) \cup U \cup Required("chatbot", M) \cup Defaults("chatbot", Q)
             u == Up14(s)
  <1>1. u = V \cup Optional("chatbot", CapColumns) \cup U \cup Required("chatbot", M) \cup Defaults("chatbot", Q)
    BY DEF Up14
  <1>2. SchemaInv(u, 14)
    BY Up14Moves DEF Sound
  <1>3. t \notin TenantTables \cup {"organization"} \cup MemoryTables
         /\ TableBy(t, 14) /\ ~TableBy(t, 14 - 1)
    BY Names
  <1>4. Down14(u) = {f \in DropTable(u, t) : \A c \in C : ~Mentions(f, "chatbot", c)}
    BY DEF Down14
  <1>5. \A c \in C : ColumnBy(c, 14) /\ ~ColumnBy(c, 13)
    BY ColumnTimes
  <1>6. \A f \in U : Names3(f, "chatbot", C)
    <2> TAKE f \in U
    <2>1. PICK c \in CapColumns : f \in Between("chatbot", c, 1, CapMax)
      OBVIOUS
    <2>2. c \in C
      OBVIOUS
    <2> HIDE DEF C
    <2> QED BY <2>1, <2>2, BetweenNames
  <1> HIDE DEF t, O, P, m, v, key, required, U, u
  <1>7. \A f \in A : f[2] = t /\ Plain(f)
    BY Located, PlainClauses
  <1>8. \A p \in Q : p[1] \in C
    OBVIOUS
  <1> HIDE DEF A, Q
  <1>9. V = (s \cup A) \cup Policy(t)
    BY RlsOne
  <1> HIDE DEF V
  <1>10. \A f \in B : Names3(f, "chatbot", C)
    <2>1. \A f \in Optional("chatbot", CapColumns) \cup Required("chatbot", M) : Names3(f, "chatbot", C)
      BY OptionalNames, RequiredNames DEF Names3
    <2>2. \A f \in Defaults("chatbot", Q) : Names3(f, "chatbot", C)
      <3> HIDE DEF C
      <3> QED BY <1>8, DefaultsNames
    <2> QED BY <1>6, <2>1, <2>2
  <1>11. \A f : f \in u <=> f \in s \/ f \in A \/ f \in Policy(t) \/ f \in B
    BY <1>1, <1>9
  <1> HIDE DEF B, C
  <1>12. NewTable(s, u, 14, t, A, B)
    BY <1>3, <1>5, <1>7, <1>10, <1>11 DEF NewTable, Names3
  <1>13. Sound(u, 14) /\ DropTable(u, t) = s \cup B
    <2>1. 13 \in {4, 6, 13} /\ 14 \in {5, 7, 14} /\ 14 = 13 + 1
      OBVIOUS
    <2> QED BY <1>2, <1>12, <2>1, TableCreated
  <1>14. \A f \in s : \A c \in C : ~Mentions(f, "chatbot", c)
    BY <1>5, NoColumnYet DEF Growing
  <1>15. \A f \in B : f[3] \in C /\ Mentions(f, "chatbot", f[3])
    BY <1>10 DEF Names3, Mentions
  <1>16. Down14(u) = s
    BY <1>4, <1>13, <1>14, <1>15
  <1> QED BY <1>13, <1>16 DEF u

\* The columns a foreign key names.
LEMMA ReferencesNames ==
  ASSUME NEW t, NEW rule, NEW P, NEW C, \A p \in P : p[1] \in C
  PROVE  \A f \in References(t, rule, P) : f[1] = "reference" /\ f[2] = t /\ f[3] \in C
  <1> TAKE f \in References(t, rule, P)
  <1>1. PICK p \in P : f = <<"reference", t, p[1], p[2], rule>>
    BY DEF References
  <1> QED BY <1>1

\* 0009.
LEMMA Nine ==
  ASSUME NEW s, Sound(s, 8)
  PROVE  Sound(Up9(s), 9) /\ Down9(Up9(s)) = s
  <1> DEFINE t == "ticket"
             P == {<<"chatbot_id", "chatbot">>, <<"conversation_id", "conversation">>}
             Q == {<<"assigned_to", "app_user">>}
             required == {"chatbot_id", "conversation_id", "visitor_email", "status", "priority",
                          "source"}
             optional == {"visitor_name", "subject", "escalation_reason", "assigned_to",
                          "resolved_at"}
             A == Pk(t) \cup Created(t) \cup Updated(t) \cup OrgId(t)
                    \cup Required(t, required) \cup Optional(t, optional)
                    \cup References(t, "CASCADE", P) \cup References(t, "SET NULL", Q)
                    \cup OneOf(t, "status", {"open", "pending", "resolved", "closed"})
                    \cup OneOf(t, "priority", {"low", "normal", "high", "urgent"})
                    \cup OneOf(t, "source", {"ai_escalation", "visitor_contact_form"})
             w == EnableRls(s \cup A, {t})
             m == "message"
             c == "staff_user_id"
             u == Up9(s)
             x == DropColumn(u, m, c)
             y == NewList(x, m, 8)
             d == Down9(u)
             S == {"user", "assistant", "staff"}
             W == {"user", "assistant"}
  <1>1. u = NewList(w, m, 9) \cup StaffAuthor
    <2>1. u = SwapMessageRoles(w, S) \cup StaffAuthor
      BY DEF Up9
    <2>2. NewList(w, m, 9) = SwapMessageRoles(w, S)
      <3> HIDE DEF w
      <3> QED BY Lists DEF SwapMessageRoles, NewList, Listed
    <2> HIDE DEF u, w
    <2> QED BY <2>1, <2>2
  <1>2. d = DropTable(DropPolicy(y, t), t)
    <2>1. d = DropTable(DropPolicy(SwapMessageRoles(x, W), t), t)
      BY DEF Down9
    <2>2. y = SwapMessageRoles(x, W)
      <3> HIDE DEF x
      <3> QED BY Lists DEF SwapMessageRoles, NewList, Listed
    <2> HIDE DEF d, y
    <2> QED BY <2>1, <2>2
  <1>3. SchemaInv(u, 9)
    BY Up9Moves DEF Sound
  <1>4. t \notin TenantTables \cup {"organization"} \cup MemoryTables
         /\ TableBy(t, 9) /\ ~TableBy(t, 8)
    BY Names
  <1>5. ColumnBy(c, 9) /\ ~ColumnBy(c, 8)
    BY ColumnTimes
  <1>6. m \in {"document", "message"} /\ m \in Growing /\ m # t /\ m # "document_chunk" /\ m \in TenantTables
    BY DEF Growing, TenantTables
  <1>7. \A f \in StaffAuthor : f[1] \in {"column", "reference"} /\ f[2] = m /\ f[3] = c
    <2> DEFINE R == {<<c, "app_user">>}
               D == {c}
    <2>1. StaffAuthor = Optional(m, D) \cup References(m, "SET NULL", R)
      BY DEF StaffAuthor
    <2> HIDE DEF m, c
    <2>0. \A p \in R : p[1] \in D
      OBVIOUS
    <2>2. \A f \in Optional(m, D) : f[1] \in {"column", "reference"} /\ f[2] = m /\ f[3] = c
      BY OptionalIs, OptionalNames DEF Names3
    <2>3. \A f \in References(m, "SET NULL", R) : f[1] \in {"column", "reference"} /\ f[2] = m /\ f[3] = c
      <3>1. \A f \in References(m, "SET NULL", R) : f[1] = "reference" /\ f[2] = m /\ f[3] \in D
        <4> HIDE DEF R, D
        <4> QED BY <2>0, ReferencesNames
      <3> QED BY <3>1
    <2> QED BY <2>1, <2>2, <2>3
  <1> HIDE DEF P, Q, required, optional, t, u, d
  <1>8. \A f \in A : f[2] = t /\ Plain(f)
    BY Located, PlainClauses
  <1> HIDE DEF A, m, c
  <1>9. w = (s \cup A) \cup Policy(t)
    BY RlsOne
  <1> HIDE DEF w
  <1>10. \A f \in Policy(t) : f[1] = "policy" /\ f[2] = t
    BY PolicyIs
  <1>11. \A f \in s : f[2] # t /\ (f[1] = "partition" => f[3] # t) /\ ~Mentions(f, m, c)
    <2>1. t \notin {"document_chunk", "memory_entry"}
      BY <1>4 DEF TenantTables, MemoryTables
    <2>2. \A f \in s : f[2] # t /\ (f[1] = "partition" => f[3] # t)
      BY <1>4, <2>1 DEF Sound, Fact
    <2> QED BY <1>5, <1>6, <2>2, NoColumnYet
  <1>12. ListFact(m, 8) \in s /\ \A f \in s : IsList(f, m) <=> f = ListFact(m, 8)
    BY <1>6, OldList
  <1>13. Fact(ListFact(m, 9), 9) /\ ListFact(m, 9)[2] # "document_chunk" /\ ListFact(m, 9)[1] = "words"
    BY <1>6, WordFact
  <1>14. IsList(ListFact(m, 9), m)
    BY ListFactIs DEF IsList
  <1>15. \A f : f \in u <=> \/ f = ListFact(m, 9) \/ f \in StaffAuthor
                            \/ (f \in s \/ f \in A \/ f \in Policy(t)) /\ ~IsList(f, m)
    BY <1>1, <1>9, NewListHas
  <1>16. \A f : f \in y <=> f = ListFact(m, 8) \/ (f \in u /\ ~Mentions(f, m, c) /\ ~IsList(f, m))
    BY NewListHas DEF DropColumn
  <1> HIDE DEF x, y
  <1>17. \A f \in StaffAuthor : Mentions(f, m, c)
    BY <1>7 DEF Mentions
  <1>18. \A f \in A \cup Policy(t) : ~IsList(f, m) /\ ~Mentions(f, m, c)
    BY <1>6, <1>8, <1>10 DEF IsList, Mentions
  <1>19. \A f : f \in y <=> f \in s \/ f \in A \/ f \in Policy(t)
    BY <1>11, <1>12, <1>14, <1>15, <1>16, <1>17, <1>18
  <1>20. d = s
    <2> DEFINE B == {}
    <2>1. Opens(s, y, t, A, B)
      BY <1>8, <1>11, <1>19 DEF Opens
    <2>2. d = s \cup B
      <3> HIDE DEF B
      <3> QED BY <1>2, <2>1, TableDropped
    <2> QED BY <2>2
  <1>21. \A f \in s : f \in u \/ (f[1] # "policy" /\ f[2] # "document_chunk")
    BY <1>6, <1>15 DEF IsList
  <1>22. \A f \in StaffAuthor : Fact(f, 9)
    <2>1. TableBy(m, 9)
      BY <1>6, FirstTables
    <2>2. \A f \in StaffAuthor : \A k : Mentions(f, m, k) => k = c
      BY <1>7 DEF Mentions
    <2> QED BY <1>5, <1>7, <2>1, <2>2 DEF Fact
  <1>23. \A f \in A : Fact(f, 9)
    <2>1. t \notin {"document", "message", "chatbot"}
      BY <1>4 DEF TenantTables
    <2> QED BY <1>4, <1>8, <2>1, LaterFact
  <1>24. \A f \in Policy(t) : Fact(f, 9)
    BY <1>4, <1>10, PolicyFact
  <1>25. \A f \in u : f \in s \/ (Fact(f, 9) /\ f[2] # "document_chunk")
    <2>1. t # "document_chunk"
      BY <1>4 DEF TenantTables
    <2> QED BY <1>6, <1>7, <1>8, <1>10, <1>13, <1>15, <1>22, <1>23, <1>24, <2>1
  <1>26. \A f \in u : f \in s \/ ((f[1] = "table" /\ f[2] # "organization") \/ f[1] = "partition"
                                    => Policy(f[2]) \subseteq u)
    BY <1>7, <1>8, <1>10, <1>13, <1>15, <1>18 DEF Plain
  <1>27. Sound(u, 9)
    <2>1. 8 \in 3..14 /\ 8 # 7 /\ 9 = 8 + 1
      OBVIOUS
    <2> QED BY <1>3, <1>21, <1>25, <1>26, <2>1, Extended
  <1> QED BY <1>20, <1>27 DEF u, d

-----------------------------------------------------------------------------
\* What PARTITION OF adds.
LEMMA PartitionHas ==
  \A t, p, w : \A f \in Partition(t, p, w) : f[1] = "partition" /\ f[2] = p /\ f[3] = t
  BY DEF Partition
LEMMA PartitionThere == \A t, p, w : <<"partition", p, t, w>> \in Partition(t, p, w)
  BY DEF Partition

\* The two partitioned tables have that shape.
LEMMA ChunksPartitioned == Partitioned(PartitionedChunks, "document_chunk", ChunkTables)
  <1> DEFINE t == "document_chunk"
             P == {<<"id", "uuid">>, <<"token_count", "0">>, <<"metadata_json", "{}">>}
             Q == {<<"document_id", "document">>, <<"chatbot_id", "chatbot">>}
             id == {"id", "embedding_dim"}
             required == {"id", "document_id", "chatbot_id", "chunk_index", "content",
                          "token_count", "embedding_dim", "embedding", "metadata_json"}
             key == {"document_id", "chunk_index", "embedding_dim"}
             W == Dimensions \cup {Default}
             A == Table(t, id) \cup Created(t) \cup OrgId(t) \cup Required(t, required)
                    \cup Defaults(t, P) \cup References(t, "CASCADE", Q) \cup Unique(t, key)
             B == UNION {Partition(t, ChunkPartition(w), w) : w \in W}
             C == UNION {Hnsw(ChunkPartition(w)) : w \in Dimensions}
             T == ChunkTables
             u == PartitionedChunks
  <1>1. u = A \cup B \cup C
    BY DEF PartitionedChunks
  <1>2. t \in T /\ (\A w \in W : ChunkPartition(w) \in T) /\ \A p \in T : p # t => \E w \in W : p = ChunkPartition(w)
    BY DEF ChunkTables
  <1>3. \A f \in B : f[1] = "partition" /\ f[2] \in T /\ f[3] = t
    <2> TAKE f \in B
    <2>1. PICK w \in W : f \in Partition(t, ChunkPartition(w), w)
      OBVIOUS
    <2> HIDE DEF T, W
    <2> QED BY <1>2, <2>1, PartitionHas
  <1>4. \A f \in C : f[1] = "hnsw" /\ f[2] \in T
    <2> TAKE f \in C
    <2>1. PICK w \in W : f \in Hnsw(ChunkPartition(w))
      OBVIOUS
    <2> HIDE DEF T, W
    <2> QED BY <1>2, <2>1, HnswIs
  <1>5. \A w \in W : <<"partition", ChunkPartition(w), t, w>> \in B
    BY PartitionThere
  <1> HIDE DEF P, Q, id, required, key, W, B, C, T, u, t
  <1>6. \A f \in A : f[2] = t /\ Plain(f)
    BY Located, PlainClauses
  <1> HIDE DEF A
  <1>7. \A p \in T : p # t => \E f \in u : f[1] = "partition" /\ f[2] = p /\ f[3] = t
    <2> SUFFICES ASSUME NEW p \in T, p # t
                 PROVE  \E f \in u : f[1] = "partition" /\ f[2] = p /\ f[3] = t
      OBVIOUS
    <2>1. PICK w \in W : p = ChunkPartition(w)
      BY <1>2
    <2> DEFINE g == <<"partition", p, t, w>>
    <2>2. g \in u
      BY <1>1, <1>5, <2>1
    <2>3. g[1] = "partition" /\ g[2] = p /\ g[3] = t
      OBVIOUS
    <2> QED BY <2>2, <2>3
  <1>8. \A f \in u : \/ f[2] = t /\ Plain(f)
                     \/ f[1] = "partition" /\ f[2] \in T /\ f[3] = t
                     \/ f[1] = "hnsw" /\ f[2] \in T
    BY <1>1, <1>3, <1>4, <1>6
  <1>9. Partitioned(u, t, T)
    BY <1>2, <1>7, <1>8 DEF Partitioned
  <1> QED BY <1>9 DEF u, t, T

LEMMA NotesPartitioned == Partitioned(PartitionedMemory, "memory_entry", MemoryTables)
  <1> DEFINE t == "memory_entry"
             P == {<<"id", "uuid">>, <<"subject_type", "visitor">>,
                   <<"memory_type", "fact">>, <<"last_referenced_at", "now">>}
             Q == {<<"chatbot_id", "chatbot">>}
             R == {<<"source_conversation_id", "conversation">>}
             key == {"id", "embedding_dim"}
             required == {"id", "chatbot_id", "subject_id", "subject_type", "content",
                          "memory_type", "embedding_dim", "embedding", "last_referenced_at"}
             W == Dimensions \cup {Default}
             A == Table(t, key) \cup Created(t) \cup OrgId(t) \cup Required(t, required)
                    \cup Optional(t, {"source_conversation_id"}) \cup Defaults(t, P)
                    \cup References(t, "CASCADE", Q) \cup References(t, "SET NULL", R)
                    \cup OneOf(t, "subject_type", {"visitor", "staff_user"})
                    \cup OneOf(t, "memory_type", {"preference", "fact", "context"})
             B == UNION {Partition(t, MemoryPartition(w), w) : w \in W}
             C == UNION {Hnsw(MemoryPartition(w)) : w \in Dimensions}
             T == MemoryTables
             u == PartitionedMemory
  <1>1. u = A \cup B \cup C
    BY DEF PartitionedMemory
  <1>2. t \in T /\ (\A w \in W : MemoryPartition(w) \in T) /\ \A p \in T : p # t => \E w \in W : p = MemoryPartition(w)
    BY DEF MemoryTables
  <1>3. \A f \in B : f[1] = "partition" /\ f[2] \in T /\ f[3] = t
    <2> TAKE f \in B
    <2>1. PICK w \in W : f \in Partition(t, MemoryPartition(w), w)
      OBVIOUS
    <2> HIDE DEF T, W
    <2> QED BY <1>2, <2>1, PartitionHas
  <1>4. \A f \in C : f[1] = "hnsw" /\ f[2] \in T
    <2> TAKE f \in C
    <2>1. PICK w \in W : f \in Hnsw(MemoryPartition(w))
      OBVIOUS
    <2> HIDE DEF T, W
    <2> QED BY <1>2, <2>1, HnswIs
  <1>5. \A w \in W : <<"partition", MemoryPartition(w), t, w>> \in B
    BY PartitionThere
  <1> HIDE DEF P, Q, R, key, required, W, B, C, T, u, t
  <1>6. \A f \in A : f[2] = t /\ Plain(f)
    BY Located, PlainClauses
  <1> HIDE DEF A
  <1>7. \A p \in T : p # t => \E f \in u : f[1] = "partition" /\ f[2] = p /\ f[3] = t
    <2> SUFFICES ASSUME NEW p \in T, p # t
                 PROVE  \E f \in u : f[1] = "partition" /\ f[2] = p /\ f[3] = t
      OBVIOUS
    <2>1. PICK w \in W : p = MemoryPartition(w)
      BY <1>2
    <2> DEFINE g == <<"partition", p, t, w>>
    <2>2. g \in u
      BY <1>1, <1>5, <2>1
    <2>3. g[1] = "partition" /\ g[2] = p /\ g[3] = t
      OBVIOUS
    <2> QED BY <2>2, <2>3
  <1>8. \A f \in u : \/ f[2] = t /\ Plain(f)
                     \/ f[1] = "partition" /\ f[2] \in T /\ f[3] = t
                     \/ f[1] = "hnsw" /\ f[2] \in T
    BY <1>1, <1>3, <1>4, <1>6
  <1>9. Partitioned(u, t, T)
    BY <1>2, <1>7, <1>8 DEF Partitioned
  <1> QED BY <1>9 DEF u, t, T

\* They are policies of these tables, and of each of them.
LEMMA PoliciesAre ==
  \A T : /\ \A f \in Policies(T) : f[1] = "policy" /\ f[2] \in T
         /\ \A t \in T : Policy(t) \subseteq Policies(T)
  <1> TAKE T
  <1>1. \A f \in Policies(T) : f[1] = "policy" /\ f[2] \in T
    <2> TAKE f \in Policies(T)
    <2>1. PICK t \in T : f \in Policy(t)
      BY DEF Policies
    <2> QED BY <2>1, PolicyIs
  <1>2. \A t \in T : Policy(t) \subseteq Policies(T)
    BY DEF Policies
  <1> QED BY <1>1, <1>2

\* With the table every partition, index and policy goes, and the rest stays.
LEMMA PartitionedDropped ==
  ASSUME NEW s, NEW v, NEW t, NEW A, NEW T, OpensAll(s, v, t, A, T)
  PROVE  DropTable(v, t) = s
  <1>0. /\ Partitioned(A, t, T)
        /\ \A f \in s : f[2] \notin T /\ (f[1] = "partition" => f[3] # t)
        /\ \A f : f \in v <=> f \in s \/ f \in A \/ f \in Policies(T)
    BY DEF OpensAll
  <1>1. \A f \in A : f[2] \in T
    BY <1>0 DEF Partitioned
  <1>2. \A f \in Policies(T) : f[1] = "policy" /\ f[2] \in T
    BY PoliciesAre
  <1>3. \A p : p \in PartitionsOf(v, t) <=> \E f \in v : f[1] = "partition" /\ f[3] = t /\ f[2] = p
    BY DEF PartitionsOf, Kind
  <1>4. \A p : p \in {t} \cup PartitionsOf(v, t) <=> p \in T
    <2>1. ASSUME NEW p \in PartitionsOf(v, t) PROVE p \in T
      <3>1. PICK f \in v : f[1] = "partition" /\ f[3] = t /\ f[2] = p
        BY <1>3
      <3>2. f \in A
        BY <1>0, <1>2, <3>1
      <3> QED BY <1>1, <3>1, <3>2
    <2>2. ASSUME NEW p \in T, p # t PROVE p \in PartitionsOf(v, t)
      <3>1. PICK f \in A : f[1] = "partition" /\ f[2] = p /\ f[3] = t
        BY <1>0, <2>2 DEF Partitioned
      <3>2. f \in v
        BY <1>0, <3>1
      <3> QED BY <1>3, <3>1, <3>2
    <2>3. t \in T
      BY <1>0 DEF Partitioned
    <2> QED BY <2>1, <2>2, <2>3
  <1>5. \A f : f \in DropTable(v, t) <=> f \in v /\ f[2] \notin T
    BY <1>4 DEF DropTable
  <1> QED BY <1>0, <1>1, <1>2, <1>5

\* The facts of a partitioned table are facts from the revision that creates it.
LEMMA PartitionedFact ==
  ASSUME NEW A, NEW t, NEW T, NEW n \in Int, Partitioned(A, t, T),
         n >= 8, t = "document_chunk" \/ (t = "memory_entry" /\ n >= 12),
         \A p \in T : TableBy(p, n) /\ p \notin {"document", "message", "chatbot"}
  PROVE  /\ \A f \in A : Fact(f, n)
         /\ \A f \in Policies(T) : Fact(f, n)
  <1>1. \A f \in Policies(T) : Fact(f, n)
    BY PoliciesAre, PolicyFact
  <1>2. \A f \in A : Fact(f, n)
    <2> TAKE f \in A
    <2>1. CASE f[2] = t /\ Plain(f)
      BY <2>1, LaterFact DEF Partitioned
    <2>2. CASE f[1] = "partition" /\ f[2] \in T /\ f[3] = t
      BY <2>2 DEF Fact, Growing
    <2>3. CASE f[1] = "hnsw" /\ f[2] \in T
      BY <2>3, PolicyFact
    <2> QED BY <2>1, <2>2, <2>3 DEF Partitioned
  <1> QED BY <1>1, <1>2

\* The revisions the partitioned tables and their partitions come with.
LEMMA PartitionTimes ==
  /\ \A p \in ChunkTables : /\ TableBy(p, 8)
                            /\ p \notin {"document", "message", "chatbot", "organization"}
                            /\ p # "document_chunk" => ~TableBy(p, 7)
  /\ \A p \in MemoryTables : /\ TableBy(p, 12) /\ ~TableBy(p, 11)
                             /\ p \notin {"document", "message", "chatbot", "organization", "document_chunk"}
  <1>1. ChunkTables = {"document_chunk"} \cup ChunkPartitions
    BY DEF ChunkTables, ChunkPartitions
  <1>2. \A p \in ChunkPartitions : TableBy(p, 8) /\ ~TableBy(p, 7)
                                     /\ p \notin {"document", "message", "chatbot", "organization"}
    BY PartitionNames DEF TableBy
  <1>3. TableBy("document_chunk", 8)
    BY FirstTables DEF TenantTables
  <1>4. \A p \in MemoryTables : /\ TableBy(p, 12) /\ ~TableBy(p, 11)
                                /\ p \notin {"document", "message", "chatbot", "organization", "document_chunk"}
    BY PartitionNames DEF TableBy
  <1> QED BY <1>1, <1>2, <1>3, <1>4

\* 0008: the same table in two shapes, its facts exactly those of the shape.
LEMMA Eight ==
  ASSUME NEW s, Sound(s, 7)
  PROVE  Sound(Up8(s), 8) /\ Down8(Up8(s)) = s
  <1> DEFINE c == "document_chunk"
             T == ChunkTables
             A == PartitionedChunks
             r == DropTable(s, c)
             u == Up8(s)
             q == DropTable(u, c)
             H == Hnsw(c)
  <1>1. u = (r \cup A) \cup Policies(T)
    BY DEF Up8, CreatePartitionedChunks, EnableRls, Policies
  <1>2. Down8(u) = ((q \cup InitialChunks) \cup H) \cup Policy(c)
    <2>1. Down8(u) = EnableRls((q \cup InitialChunks) \cup H, {c})
      BY DEF Down8, CreateLegacyChunks
    <2> HIDE DEF u, q, H
    <2> QED BY <2>1, RlsOne
  <1>3. SchemaInv(u, 8)
    BY Up8Moves DEF Sound
  <1>4. Partitioned(A, c, T)
    BY ChunksPartitioned
  <1>5. \A f \in s : f[1] # "partition" /\ Fact(f, 7) /\ Fact(f, 8) /\ TableBy(f[2], 7)
    BY Grows DEF Sound, Fact
  <1>6. \A f : f \in r <=> f \in s /\ f[2] # c
    BY <1>5 DEF DropTable, PartitionsOf, Kind
  <1>7. ChunkFacts(s) = LegacyChunks
    BY DEF Sound
  <1>8. \A f : f \in s /\ f[2] = c <=> f \in InitialChunks \/ f \in H \/ f \in Policy(c)
    BY <1>7 DEF ChunkFacts, LegacyChunks
  <1>9. \A p \in T : TableBy(p, 8) /\ (p # c => ~TableBy(p, 7))
                       /\ p \notin {"document", "message", "chatbot", "organization"}
    BY PartitionTimes
  <1> HIDE DEF T, A, r, u, q, H
  <1>10. \A f \in r : f[2] \notin T /\ (f[1] = "partition" => f[3] # c)
    BY <1>5, <1>6, <1>9
  <1>11. \A f : f \in u <=> f \in r \/ f \in A \/ f \in Policies(T)
    BY <1>1
  <1>12. q = r
    <2>1. OpensAll(r, u, c, A, T)
      BY <1>4, <1>10, <1>11 DEF OpensAll
    <2> HIDE DEF c
    <2> QED BY <2>1, PartitionedDropped DEF q
  <1>13. Down8(u) = s
    BY <1>2, <1>6, <1>8, <1>12
  <1>14. (\A f \in A : Fact(f, 8)) /\ (\A f \in Policies(T) : Fact(f, 8))
    BY <1>4, <1>9, PartitionedFact
  <1>15. \A f \in u : Fact(f, 8)
    BY <1>5, <1>6, <1>11, <1>14
  <1>16. AllGuarded(u)
    <2> SUFFICES ASSUME NEW f \in u, (f[1] = "table" /\ f[2] # "organization") \/ f[1] = "partition"
                 PROVE  Policy(f[2]) \subseteq u
      BY DEF AllGuarded
    <2>1. CASE f \in r
      <3>1. Policy(f[2]) \subseteq s /\ f[2] # c
        BY <1>6, <2>1 DEF Sound, AllGuarded
      <3>2. \A g \in Policy(f[2]) : g[2] # c
        BY <3>1, PolicyIs
      <3> QED BY <1>6, <1>11, <3>1, <3>2
    <2>2. CASE f \in A
      <3>1. f[2] \in T
        BY <1>4, <2>2 DEF Partitioned
      <3> QED BY <1>11, <3>1, PoliciesAre
    <2>3. f \notin Policies(T)
      BY PoliciesAre
    <2> QED BY <1>11, <2>1, <2>2, <2>3
  <1> QED BY <1>3, <1>13, <1>15, <1>16 DEF Sound, u

\* 0012.
LEMMA Twelve ==
  ASSUME NEW s, Sound(s, 11)
  PROVE  Sound(Up12(s), 12) /\ Down12(Up12(s)) = s
  <1> DEFINE t == "memory_entry"
             T == MemoryTables
             A == PartitionedMemory
             c == "nuvrag_mem_retention_days"
             C == {c}
             P == {RetentionDefault}
             D == Defaults("chatbot", P)
             B == Optional("chatbot", C) \cup D \cup Between("chatbot", c, 1, 3650)
             u == Up12(s)
             q == DropCheck(u, "chatbot", c)
             v == DropColumn(q, "chatbot", c)
  <1>1. u = ((((s \cup A) \cup Policies(T)) \cup Optional("chatbot", C)) \cup D) \cup Between("chatbot", c, 1, 3650)
    BY DEF Up12, EnableRls, Policies
  <1>2. Down12(u) = DropTable(v, t)
    BY DEF Down12
  <1>3. SchemaInv(u, 12)
    BY Up12Moves DEF Sound
  <1>4. Partitioned(A, t, T)
    BY NotesPartitioned
  <1>5. \A p \in T : /\ TableBy(p, 12) /\ ~TableBy(p, 11)
                     /\ p \notin {"document", "message", "chatbot", "organization", "document_chunk"}
    BY PartitionTimes
  <1>6. ColumnBy(c, 12) /\ ~ColumnBy(c, 11)
    BY ColumnTimes
  <1>7. \A p \in P : p[1] \in C
    BY DEF RetentionDefault
  <1>8. t \in {"document_chunk", "memory_entry"} /\ t # "document_chunk"
    OBVIOUS
  <1> HIDE DEF T, A, u, c, t, P
  <1>9. \A f \in B : Names3(f, "chatbot", C)
    <2>1. \A f \in D : Names3(f, "chatbot", C)
      <3> HIDE DEF C
      <3> QED BY <1>7, DefaultsNames
    <2>2. c \in C
      OBVIOUS
    <2> HIDE DEF C, D
    <2> QED BY <2>1, <2>2, OptionalNames, BetweenNames
  <1>10. \A f : f \in u <=> f \in s \/ f \in A \/ f \in Policies(T) \/ f \in B
    BY <1>1
  <1>11. \A f \in A \cup Policies(T) : f[2] \in T
    BY <1>4, PoliciesAre DEF Partitioned
  <1>12. \A f \in s : f[2] \notin T /\ (f[1] = "partition" => f[3] # t) /\ ~Mentions(f, "chatbot", c)
    <2>1. \A f \in s : f[2] \notin T /\ (f[1] = "partition" => f[3] # t)
      BY <1>5 DEF Sound, Fact, t
    <2>2. "chatbot" \in Growing
      BY DEF Growing
    <2> QED BY <1>6, <2>1, <2>2, NoColumnYet
  <1>13. \A f : f \in v <=> f \in u /\ ~Mentions(f, "chatbot", c)
    BY DEF DropColumn, DropCheck, Mentions
  <1>14. \A f \in B : Mentions(f, "chatbot", c)
    BY <1>9 DEF Names3, Mentions
  <1>15. \A f \in A \cup Policies(T) : ~Mentions(f, "chatbot", c)
    BY <1>5, <1>11 DEF Mentions
  <1> HIDE DEF B, q, v
  <1>16. \A f : f \in v <=> f \in s \/ f \in A \/ f \in Policies(T)
    BY <1>10, <1>12, <1>13, <1>14, <1>15
  <1>17. Down12(u) = s
    <2>1. OpensAll(s, v, t, A, T)
      BY <1>4, <1>12, <1>16 DEF OpensAll
    <2> QED BY <1>2, <2>1, PartitionedDropped
  <1>18. (\A f \in A : Fact(f, 12)) /\ (\A f \in Policies(T) : Fact(f, 12))
    BY <1>4, <1>5, PartitionedFact DEF t
  <1>19. \A f \in B : Fact(f, 12)
    BY <1>6, <1>9, ColumnFact DEF Names3
  <1>20. \A f \in s : f \in u
    BY <1>10
  <1>21. \A f \in u : f \in s \/ (Fact(f, 12) /\ f[2] # "document_chunk")
    BY <1>5, <1>9, <1>10, <1>11, <1>18, <1>19 DEF Names3
  <1>22. \A f \in u : f \in s \/ ((f[1] = "table" /\ f[2] # "organization") \/ f[1] = "partition"
                                    => Policy(f[2]) \subseteq u)
    <2> TAKE f \in u
    <2>1. CASE f \in A \cup Policies(T)
      <3>1. Policy(f[2]) \subseteq Policies(T)
        BY <1>11, <2>1, PoliciesAre
      <3> QED BY <1>10, <3>1
    <2>2. CASE f \in B
      BY <1>9, <2>2 DEF Names3
    <2> QED BY <1>10, <2>1, <2>2
  <1>23. Defaults("chatbot", {RetentionDefault}) \subseteq u
    BY <1>1 DEF P
  <1>24. Sound(u, 12)
    <2>1. 11 \in 3..14 /\ 11 # 7 /\ 12 = 11 + 1
      OBVIOUS
    <2> QED BY <1>3, <1>20, <1>21, <1>22, <1>23, <2>1, Extended
  <1> QED BY <1>17, <1>24 DEF u

-----------------------------------------------------------------------------
\* The first tables: each clause by the columns it names.
FirstTable(f, t, C) ==
  /\ f[2] = t
  /\ f[1] \in {"table", "primary", "unique", "column", "default", "reference", "words", "width"}
  /\ \A c : Mentions(f, t, c) => c \in C

\* Each kind of clause, by the columns it names.
LEMMA FirstNames ==
  ASSUME NEW f, NEW t, NEW C, f[2] = t, f[1] \in {"column", "default", "reference", "words"}, f[3] \in C
  PROVE  FirstTable(f, t, C)
  BY DEF FirstTable, Mentions

LEMMA FirstRequired ==
  ASSUME NEW t, NEW C, NEW D, D \subseteq C
  PROVE  \A f \in Required(t, D) \cup Optional(t, D) : FirstTable(f, t, C)
  <1>1. \A f \in Required(t, D) : FirstTable(f, t, C)
    BY RequiredIs, RequiredNames, FirstNames DEF Names3
  <1>2. \A f \in Optional(t, D) : FirstTable(f, t, C)
    BY OptionalIs, OptionalNames, FirstNames DEF Names3
  <1> QED BY <1>1, <1>2
LEMMA FirstDefaults ==
  ASSUME NEW t, NEW C, NEW P, \A p \in P : p[1] \in C
  PROVE  \A f \in Defaults(t, P) : FirstTable(f, t, C)
  <1>1. \A f \in Defaults(t, P) : Names3(f, t, C)
    BY DefaultsNames
  <1> QED BY <1>1, DefaultsIs, FirstNames DEF Names3
LEMMA FirstReferences ==
  ASSUME NEW t, NEW rule, NEW C, NEW P, \A p \in P : p[1] \in C
  PROVE  \A f \in References(t, rule, P) : FirstTable(f, t, C)
  <1>1. \A f \in References(t, rule, P) : f[1] = "reference" /\ f[2] = t /\ f[3] \in C
    BY ReferencesNames
  <1> QED BY <1>1, FirstNames
LEMMA FirstUnique ==
  ASSUME NEW t, NEW C, NEW D, D \subseteq C
  PROVE  \A f \in Unique(t, D) : FirstTable(f, t, C)
  BY DEF Unique, FirstTable, Mentions
LEMMA FirstWords ==
  ASSUME NEW t, NEW C, NEW c \in C, NEW words
  PROVE  \A f \in OneOf(t, c, words) : FirstTable(f, t, C)
  BY OneOfIs, FirstNames
LEMMA FirstClause ==
  ASSUME NEW t, NEW key, NEW C, key \subseteq C
  PROVE  \A f \in Table(t, key) : FirstTable(f, t, C)
  BY DEF Table, FirstTable, Mentions

\* The helpers of 0002 likewise.
LEMMA FirstHelpers ==
  ASSUME NEW t, NEW C, {"id", "created_at", "updated_at", "org_id"} \subseteq C
  PROVE  \A f \in Pk(t) \cup Created(t) \cup Updated(t) \cup OrgId(t) : FirstTable(f, t, C)
  <1> DEFINE i == "id"
             c == "created_at"
             d == "updated_at"
             o == "org_id"
             x == "uuid"
             y == "now"
             z == "organization"
             I == {i}
             K == {c}
             L == {d}
             O == {o}
             P == {<<i, x>>}
             Q == {<<c, y>>}
             R == {<<d, y>>}
             S == {<<o, z>>}
  <1>1. /\ Pk(t) = Table(t, I) \cup Required(t, I) \cup Defaults(t, P)
        /\ Created(t) = Required(t, K) \cup Defaults(t, Q)
        /\ Updated(t) = Required(t, L) \cup Defaults(t, R)
        /\ OrgId(t) = Required(t, O) \cup References(t, "CASCADE", S)
    BY DEF Pk, Created, Updated, OrgId
  <1>2. i \in C /\ c \in C /\ d \in C /\ o \in C
    OBVIOUS
  <1> HIDE DEF i, c, d, o, x, y, z
  <1>3. I \subseteq C /\ K \subseteq C /\ L \subseteq C /\ O \subseteq C
    BY <1>2
  <1>4. /\ \A p \in P : p[1] \in C
        /\ \A p \in Q : p[1] \in C
        /\ \A p \in R : p[1] \in C
        /\ \A p \in S : p[1] \in C
    BY <1>2
  <1> HIDE DEF I, K, L, O, P, Q, R, S
  <1>5. \A f \in Table(t, I) : FirstTable(f, t, C)
    BY <1>3, FirstClause
  <1>6. \A f \in Required(t, I) \cup Required(t, K) \cup Required(t, L) \cup Required(t, O) : FirstTable(f, t, C)
    <2>1. \A f \in Required(t, I) : FirstTable(f, t, C)
      BY <1>3, FirstRequired
    <2>2. \A f \in Required(t, K) : FirstTable(f, t, C)
      BY <1>3, FirstRequired
    <2>3. \A f \in Required(t, L) : FirstTable(f, t, C)
      BY <1>3, FirstRequired
    <2>4. \A f \in Required(t, O) : FirstTable(f, t, C)
      BY <1>3, FirstRequired
    <2> QED BY <2>1, <2>2, <2>3, <2>4
  <1>7. \A f \in Defaults(t, P) \cup Defaults(t, Q) \cup Defaults(t, R) : FirstTable(f, t, C)
    <2>1. \A f \in Defaults(t, P) : FirstTable(f, t, C)
      BY <1>4, FirstDefaults
    <2>2. \A f \in Defaults(t, Q) : FirstTable(f, t, C)
      BY <1>4, FirstDefaults
    <2>3. \A f \in Defaults(t, R) : FirstTable(f, t, C)
      BY <1>4, FirstDefaults
    <2> QED BY <2>1, <2>2, <2>3
  <1>8. \A f \in References(t, "CASCADE", S) : FirstTable(f, t, C)
    BY <1>4, FirstReferences
  <1> QED BY <1>1, <1>5, <1>6, <1>7, <1>8

\* Such a clause is a fact of 0002 if its columns are.
LEMMA FirstFact ==
  ASSUME NEW f, NEW t \in TenantTables \cup {"organization"}, NEW C, FirstTable(f, t, C),
         t \in Growing => \A c \in C : ColumnBy(c, 2)
  PROVE  Fact(f, 2)
  <1>1. TableBy(t, 2)
    BY FirstTables
  <1>2. t \in Growing => \A c : Mentions(f, t, c) => ColumnBy(c, 2)
    BY DEF FirstTable
  <1> QED BY <1>1, <1>2 DEF Fact, FirstTable

\* The columns of the first seven tables, none of them a later revision's.
AnyColumn == {"id", "created_at", "updated_at", "org_id", "name", "slug", "plan", "email",
              "hashed_password", "role", "is_active", "full_name", "chatbot_id", "filename",
              "file_type", "content_type", "storage_path", "size_bytes", "chunk_count", "status",
              "checksum_sha256", "error_message", "uploaded_by", "document_id", "chunk_index",
              "content", "token_count", "embedding", "metadata_json", "external_session_id",
              "message_count", "title", "conversation_id", "sources_json", "prompt_tokens",
              "completion_tokens", "latency_ms", "system_prompt", "model_config_json",
              "allowed_origins", "public_key", "secret_key_hash", "description"}

LEMMA AnyColumnBy == \A c \in AnyColumn : ColumnBy(c, 2)
  BY DEF AnyColumn, ColumnBy, CapColumns, ThresholdColumns, TimestampColumn

\* A clause of one of the first seven tables.
OfTable(f, t) == FirstTable(f, t, AnyColumn)

\* It is a fact of 0002.
LEMMA OfTableFact ==
  \A f, t : t \in TenantTables \cup {"organization"} /\ OfTable(f, t) => Fact(f, 2)
  BY AnyColumnBy, FirstFact DEF OfTable

\* Each kind of clause over those columns is one.
LEMMA HelpersOf ==
  \A t : \A f \in Pk(t) \cup Created(t) \cup Updated(t) \cup OrgId(t) : OfTable(f, t)
  <1> TAKE t
  <1>1. {"id", "created_at", "updated_at", "org_id"} \subseteq AnyColumn
    BY DEF AnyColumn
  <1> QED BY <1>1, FirstHelpers DEF OfTable
LEMMA ColumnsOf ==
  \A t, D : D \subseteq AnyColumn =>
     \A f \in Required(t, D) \cup Optional(t, D) \cup Unique(t, D) : OfTable(f, t)
  <1> TAKE t, D
  <1> HAVE D \subseteq AnyColumn
  <1>1. \A f \in Required(t, D) \cup Optional(t, D) : OfTable(f, t)
    BY FirstRequired DEF OfTable
  <1>2. \A f \in Unique(t, D) : OfTable(f, t)
    BY FirstUnique DEF OfTable
  <1> QED BY <1>1, <1>2
LEMMA PairsOf ==
  \A t, P, rule : (\A p \in P : p[1] \in AnyColumn) =>
     \A f \in Defaults(t, P) \cup References(t, rule, P) : OfTable(f, t)
  <1> TAKE t, P, rule
  <1> HAVE \A p \in P : p[1] \in AnyColumn
  <1>1. \A f \in Defaults(t, P) : OfTable(f, t)
    BY FirstDefaults DEF OfTable
  <1>2. \A f \in References(t, rule, P) : OfTable(f, t)
    BY FirstReferences DEF OfTable
  <1> QED BY <1>1, <1>2
LEMMA WordsOfTable ==
  \A t, c, w : c \in AnyColumn => \A f \in OneOf(t, c, w) : OfTable(f, t)
  BY FirstWords DEF OfTable

\* So is each clause of the four parts of 0002.
LEMMA TenantsPlaced ==
  \A f \in InitialTenants : \E t \in {"organization", "app_user", "chatbot"} : OfTable(f, t)
  <1> DEFINE o == "organization"
             u == "app_user"
             c == "chatbot"
             x == "model_config_json"
             y == "allowed_origins"
             v == "{}"
             w == "[]"
             P == {<<x, v>>, <<y, w>>}
             a1 == {"name", "slug", "plan"}
             a2 == {"slug"}
             a3 == {"email", "hashed_password", "role", "is_active"}
             a4 == {"full_name"}
             a5 == {"email"}
             a6 == {"name", "slug", "system_prompt", "model_config_json",
                    "allowed_origins", "public_key", "secret_key_hash", "status"}
             a7 == {"description"}
             a8 == {"org_id", "slug"}
             a9 == {"public_key"}
             w1 == {"free", "pro", "enterprise"}
             w2 == {"owner", "admin", "member"}
             w3 == {"active", "paused", "archived"}
             c1 == "plan"
             c2 == "role"
             c3 == "status"
             F == Pk(o) \cup Created(o) \cup Updated(o) \cup Required(o, a1) \cup Unique(o, a2)
                    \cup OneOf(o, c1, w1)
             G == Pk(u) \cup Created(u) \cup Updated(u) \cup OrgId(u)
                    \cup Required(u, a3) \cup Optional(u, a4) \cup Unique(u, a5) \cup OneOf(u, c2, w2)
             H == Pk(c) \cup Created(c) \cup Updated(c) \cup OrgId(c)
                    \cup Required(c, a6) \cup Optional(c, a7) \cup Defaults(c, P)
                    \cup Unique(c, a8) \cup Unique(c, a9) \cup OneOf(c, c3, w3)
  <1>1. InitialTenants = F \cup G \cup H
    BY DEF InitialTenants
  <1>2. /\ x \in AnyColumn /\ y \in AnyColumn
        /\ c1 \in AnyColumn /\ c2 \in AnyColumn /\ c3 \in AnyColumn
    BY DEF AnyColumn
  <1>3. /\ a1 \subseteq AnyColumn /\ a2 \subseteq AnyColumn /\ a3 \subseteq AnyColumn
        /\ a4 \subseteq AnyColumn /\ a5 \subseteq AnyColumn /\ a6 \subseteq AnyColumn
        /\ a7 \subseteq AnyColumn /\ a8 \subseteq AnyColumn /\ a9 \subseteq AnyColumn
    BY DEF AnyColumn
  <1> HIDE DEF o, u, c, x, y, v, w, a1, a2, a3, a4, a5, a6, a7, a8, a9, w1, w2, w3, c1, c2, c3
  <1>4. \A p \in P : p[1] \in AnyColumn
    BY <1>2
  <1> HIDE DEF P
  <1>5. \A f \in F : OfTable(f, o)
    BY <1>2, <1>3, HelpersOf, ColumnsOf, WordsOfTable
  <1>6. \A f \in G : OfTable(f, u)
    BY <1>2, <1>3, HelpersOf, ColumnsOf, WordsOfTable
  <1>7. \A f \in H : OfTable(f, c)
    BY <1>2, <1>3, <1>4, HelpersOf, ColumnsOf, WordsOfTable, PairsOf
  <1> HIDE DEF F, G, H
  <1> QED BY <1>1, <1>5, <1>6, <1>7 DEF o, u, c

LEMMA DocumentPlaced == \A f \in InitialDocument : OfTable(f, "document")
  <1> DEFINE t == "document"
             x == "chunk_count"
             y == "chatbot_id"
             z == "uploaded_by"
             P == {<<x, "0">>}
             Q == {<<y, "chatbot">>}
             R == {<<z, "app_user">>}
             a1 == {"chatbot_id", "filename", "file_type", "content_type", "storage_path",
                    "size_bytes", "chunk_count", "status"}
             a2 == {"checksum_sha256", "error_message", "uploaded_by"}
             w1 == {"pending", "processing", "ready", "failed"}
             w2 == {"pdf", "docx", "md", "txt"}
             c1 == "status"
             c2 == "file_type"
             u == InitialDocument
  <1>1. u = Pk(t) \cup Created(t) \cup Updated(t) \cup OrgId(t) \cup Required(t, a1) \cup Optional(t, a2)
              \cup Defaults(t, P) \cup References(t, "CASCADE", Q) \cup References(t, "SET NULL", R)
              \cup OneOf(t, c1, w1) \cup OneOf(t, c2, w2)
    BY DEF InitialDocument
  <1>2. x \in AnyColumn /\ y \in AnyColumn /\ z \in AnyColumn /\ c1 \in AnyColumn /\ c2 \in AnyColumn
    BY DEF AnyColumn
  <1>3. a1 \subseteq AnyColumn /\ a2 \subseteq AnyColumn
    BY DEF AnyColumn
  <1> HIDE DEF x, y, z, a1, a2, w1, w2, c1, c2, t, u
  <1>4. (\A p \in P : p[1] \in AnyColumn) /\ (\A p \in Q : p[1] \in AnyColumn) /\ \A p \in R : p[1] \in AnyColumn
    BY <1>2
  <1> HIDE DEF P, Q, R
  <1>5. \A f \in u : OfTable(f, t)
    BY <1>1, <1>2, <1>3, <1>4, HelpersOf, ColumnsOf, WordsOfTable, PairsOf
  <1> QED BY <1>5 DEF t, u

LEMMA ChunksPlaced == \A f \in InitialChunks : OfTable(f, "document_chunk")
  <1> DEFINE t == "document_chunk"
             x == "token_count"
             y == "metadata_json"
             v == "{}"
             z == "document_id"
             w == "chatbot_id"
             P == {<<x, "0">>, <<y, v>>}
             Q == {<<z, "document">>, <<w, "chatbot">>}
             required == {"document_id", "chatbot_id", "chunk_index", "content", "token_count",
                          "embedding", "metadata_json"}
             key == {"document_id", "chunk_index"}
             e == "embedding"
             W == {<<"width", t, e, LegacyDimension>>}
             u == InitialChunks
  <1>1. u = Pk(t) \cup Created(t) \cup OrgId(t) \cup Required(t, required)
              \cup Defaults(t, P) \cup W \cup References(t, "CASCADE", Q) \cup Unique(t, key)
    BY DEF InitialChunks
  <1>2. x \in AnyColumn /\ y \in AnyColumn /\ z \in AnyColumn /\ w \in AnyColumn /\ e \in AnyColumn
    BY DEF AnyColumn
  <1>3. required \subseteq AnyColumn /\ key \subseteq AnyColumn
    BY DEF AnyColumn
  <1> HIDE DEF x, y, z, w, v, required, key, t, e, u
  <1>4. (\A p \in P : p[1] \in AnyColumn) /\ (\A p \in Q : p[1] \in AnyColumn)
    BY <1>2
  <1>5. \A f \in W : OfTable(f, t)
    BY <1>2 DEF OfTable, FirstTable, Mentions
  <1> HIDE DEF P, Q, W
  <1>6. \A f \in u : OfTable(f, t)
    BY <1>1, <1>2, <1>3, <1>4, <1>5, HelpersOf, ColumnsOf, PairsOf
  <1> QED BY <1>6 DEF t, u

LEMMA ConversationsPlaced ==
  \A f \in InitialConversations : \E t \in {"conversation", "message"} : OfTable(f, t)
  <1> DEFINE t == "conversation"
             v == "message"
             x == "message_count"
             y == "chatbot_id"
             z == "conversation_id"
             P == {<<x, "0">>}
             Q == {<<y, "chatbot">>}
             R == {<<z, "conversation">>, <<y, "chatbot">>}
             a1 == {"chatbot_id", "external_session_id", "message_count"}
             a2 == {"title"}
             a3 == {"chatbot_id", "external_session_id"}
             a4 == {"conversation_id", "chatbot_id", "role", "content"}
             a5 == {"sources_json", "prompt_tokens", "completion_tokens", "latency_ms"}
             c1 == "role"
             w1 == {"user", "assistant"}
             F == Pk(t) \cup Created(t) \cup Updated(t) \cup OrgId(t) \cup Required(t, a1) \cup Optional(t, a2)
                    \cup Defaults(t, P) \cup References(t, "CASCADE", Q) \cup Unique(t, a3)
             G == Pk(v) \cup Created(v) \cup OrgId(v) \cup Required(v, a4) \cup Optional(v, a5)
                    \cup References(v, "CASCADE", R) \cup OneOf(v, c1, w1)
  <1>1. InitialConversations = F \cup G
    BY DEF InitialConversations
  <1>2. x \in AnyColumn /\ y \in AnyColumn /\ z \in AnyColumn /\ c1 \in AnyColumn
    BY DEF AnyColumn
  <1>3. /\ a1 \subseteq AnyColumn /\ a2 \subseteq AnyColumn /\ a3 \subseteq AnyColumn
        /\ a4 \subseteq AnyColumn /\ a5 \subseteq AnyColumn
    BY DEF AnyColumn
  <1> HIDE DEF x, y, z, a1, a2, a3, a4, a5, c1, w1, t, v
  <1>4. (\A p \in P : p[1] \in AnyColumn) /\ (\A p \in Q : p[1] \in AnyColumn) /\ \A p \in R : p[1] \in AnyColumn
    BY <1>2
  <1> HIDE DEF P, Q, R
  <1>5. \A f \in F : OfTable(f, t)
    BY <1>2, <1>3, <1>4, HelpersOf, ColumnsOf, PairsOf
  <1>6. \A f \in G : OfTable(f, v)
    BY <1>2, <1>3, <1>4, HelpersOf, ColumnsOf, WordsOfTable, PairsOf
  <1> HIDE DEF F, G
  <1> QED BY <1>1, <1>5, <1>6 DEF t, v

-----------------------------------------------------------------------------
\* 0001 and 0002, from the empty database.
LEMMA ExtensionNames ==
  \A f \in Extensions : f[1] = "extension" /\ f[2] \in {"vector", "pgcrypto"}
  BY DEF Extensions

\* 0001 adds the extensions and leaves them behind.
LEMMA One ==
  ASSUME NEW s, s \subseteq Extensions
  PROVE  Up1(s) = Extensions /\ Down1(Up1(s)) = Extensions
  BY DEF Up1, Down1

\* An extension is a fact of any revision.
LEMMA ExtensionFact ==
  ASSUME NEW f \in Extensions
  PROVE  Fact(f, 2)
  <1>1. f[1] = "extension" /\ f[2] \in {"vector", "pgcrypto"}
    BY ExtensionNames
  <1>2. TableBy(f[2], 2)
    BY <1>1, FirstTables
  <1> QED BY <1>1, <1>2 DEF Fact, Growing

LEMMA FirstPlaced ==
  \A f \in InitialTenants \cup InitialDocument \cup InitialConversations :
     \E t \in FirstSeven \ {"document_chunk"} : OfTable(f, t)
  <1>1. \A f \in InitialTenants : \E t \in FirstSeven \ {"document_chunk"} : OfTable(f, t)
    <2>1. {"organization", "app_user", "chatbot"} \subseteq FirstSeven \ {"document_chunk"}
      BY DEF FirstSeven, TenantTables
    <2> QED BY <2>1, TenantsPlaced
  <1>2. \A f \in InitialConversations : \E t \in FirstSeven \ {"document_chunk"} : OfTable(f, t)
    <2>1. {"conversation", "message"} \subseteq FirstSeven \ {"document_chunk"}
      BY DEF FirstSeven, TenantTables
    <2> QED BY <2>1, ConversationsPlaced
  <1>3. \A f \in InitialDocument : \E t \in FirstSeven \ {"document_chunk"} : OfTable(f, t)
    <2>1. "document" \in FirstSeven \ {"document_chunk"}
      BY DEF FirstSeven, TenantTables
    <2> QED BY <2>1, DocumentPlaced
  <1> QED BY <1>1, <1>2, <1>3

\* The downgrade of 0002 drops the first seven tables and no other.
LEMMA FirstSevenAreDropped ==
  /\ \A t \in FirstSeven : \E i \in 1..7 : t = DropOrder[i]
  /\ \A i \in 1..7 : DropOrder[i] \in FirstSeven
  <1>1. \A i \in 1..7 : DropOrder[i] \in FirstSeven
    BY Order DEF FirstSeven, TenantTables
  <1>2. \A t \in FirstSeven : \E i \in 1..7 : t = DropOrder[i]
    BY Order DEF FirstSeven, TenantTables
  <1> QED BY <1>1, <1>2

\* The table of such a clause.
LEMMA OfTableIs == \A f, t : OfTable(f, t) => f[2] = t
  BY DEF OfTable, FirstTable

\* 0002, from the extensions and back to them.
LEMMA Two == Sound(Up2(Extensions), 2) /\ Down2(Up2(Extensions)) = Extensions
  <1> DEFINE E == Extensions
             C == InitialChunks
             R == InitialTenants \cup InitialDocument \cup InitialConversations
             u == Up2(E)
  <1>1. \A f : f \in u <=> f \in E \/ f \in C \/ f \in R
    BY DEF Up2
  <1>2. SchemaInv(u, 2)
    <2>1. SchemaInv({}, 0)
      BY DEF SchemaInv, Tables, Kind
    <2>2. SchemaInv(Up1({}), 1)
      BY <2>1, Up1Moves
    <2>3. Up1({}) = E
      BY One
    <2> QED BY <2>2, <2>3, Up2Moves
  <1>3. \A f \in R : \E t \in FirstSeven \ {"document_chunk"} : OfTable(f, t)
    BY FirstPlaced
  <1>4. \A f \in C : f[2] = "document_chunk"
    BY ChunksPlaced, OfTableIs
  <1>5. \A f \in E : f[2] \notin FirstSeven
    BY ExtensionNames DEF FirstSeven, TenantTables
  <1>6. "document_chunk" \in FirstSeven
    BY DEF FirstSeven, TenantTables
  <1>7. \A f \in R : f[2] \in FirstSeven /\ f[2] # "document_chunk"
    BY <1>3, OfTableIs
  <1>8. \A f \in E \cup C \cup R : Fact(f, 2)
    <2>1. \A f \in C : Fact(f, 2)
      BY <1>6, ChunksPlaced, OfTableFact DEF FirstSeven
    <2>2. \A f \in R : Fact(f, 2)
      BY <1>3, OfTableFact DEF FirstSeven
    <2>3. \A f \in E : Fact(f, 2)
      BY ExtensionFact
    <2> QED BY <2>1, <2>2, <2>3
  <1> HIDE DEF u, E, C, R
  <1>9. ChunkFacts(u) = C
    BY <1>1, <1>4, <1>5, <1>6, <1>7 DEF ChunkFacts
  <1>10. \A f \in u : Fact(f, 2)
    BY <1>1, <1>8
  <1>11. Sound(u, 2)
    BY <1>2, <1>9, <1>10 DEF Sound, C
  <1>12. \A f : f \in Down2(u) <=> f \in u /\ f[2] \notin FirstSeven
    BY Order, FirstSevenAreDropped DEF Down2, AfterDrops
  <1>13. Down2(u) = E
    <2>1. \A f : f \in Down2(u) <=> f \in E
      BY <1>1, <1>4, <1>5, <1>6, <1>7, <1>12
    <2>2. Down2(u) \subseteq u
      BY DEF Down2, AfterDrops
    <2> QED BY <2>1, <2>2
  <1> QED BY <1>11, <1>13 DEF u, E

-----------------------------------------------------------------------------
\* The schemas of the revisions, each from the one before.
LEMMA SchemasAre ==
  /\ SchemaAt[1] = {}
  /\ SchemaAt[2] = Up1(SchemaAt[1])
  /\ SchemaAt[3] = Up2(SchemaAt[2])
  /\ SchemaAt[4] = Up3(SchemaAt[3])
  /\ SchemaAt[5] = Up4(SchemaAt[4])
  /\ SchemaAt[6] = Up5(SchemaAt[5])
  /\ SchemaAt[7] = Up6(SchemaAt[6])
  /\ SchemaAt[8] = Up7(SchemaAt[7])
  /\ SchemaAt[9] = Up8(SchemaAt[8])
  /\ SchemaAt[10] = Up9(SchemaAt[9])
  /\ SchemaAt[11] = Up10(SchemaAt[10])
  /\ SchemaAt[12] = Up11(SchemaAt[11])
  /\ SchemaAt[13] = Up12(SchemaAt[12])
  /\ SchemaAt[14] = Up13(SchemaAt[13])
  /\ SchemaAt[15] = Up14(SchemaAt[14])
  /\ SchemaAt[16] = Up15(SchemaAt[15])
  <1> DEFINE s0 == {}
             s1 == Up1(s0)
             s2 == Up2(s1)
             s3 == Up3(s2)
             s4 == Up4(s3)
             s5 == Up5(s4)
             s6 == Up6(s5)
             s7 == Up7(s6)
             s8 == Up8(s7)
             s9 == Up9(s8)
             s10 == Up10(s9)
             s11 == Up11(s10)
             s12 == Up12(s11)
             s13 == Up13(s12)
             s14 == Up14(s13)
             s15 == Up15(s14)
  <1>1. SchemaAt = <<s0, s1, s2, s3, s4, s5, s6, s7, s8, s9, s10, s11, s12, s13, s14, s15>>
    BY DEF SchemaAt
  <1> HIDE DEF s0, s1, s2, s3, s4, s5, s6, s7, s8, s9, s10, s11, s12, s13, s14, s15
  <1>2. /\ SchemaAt[1] = s0
        /\ SchemaAt[2] = s1
        /\ SchemaAt[3] = s2
        /\ SchemaAt[4] = s3
        /\ SchemaAt[5] = s4
        /\ SchemaAt[6] = s5
        /\ SchemaAt[7] = s6
        /\ SchemaAt[8] = s7
        /\ SchemaAt[9] = s8
        /\ SchemaAt[10] = s9
        /\ SchemaAt[11] = s10
        /\ SchemaAt[12] = s11
        /\ SchemaAt[13] = s12
        /\ SchemaAt[14] = s13
        /\ SchemaAt[15] = s14
        /\ SchemaAt[16] = s15
    BY <1>1
  <1>3. /\ s0 = {}
        /\ s1 = Up1(s0)
        /\ s2 = Up2(s1)
        /\ s3 = Up3(s2)
        /\ s4 = Up4(s3)
        /\ s5 = Up5(s4)
        /\ s6 = Up6(s5)
        /\ s7 = Up7(s6)
        /\ s8 = Up8(s7)
        /\ s9 = Up9(s8)
        /\ s10 = Up10(s9)
        /\ s11 = Up11(s10)
        /\ s12 = Up12(s11)
        /\ s13 = Up13(s12)
        /\ s14 = Up14(s13)
        /\ s15 = Up15(s14)
    BY DEF s0, s1, s2, s3, s4, s5, s6, s7, s8, s9, s10, s11, s12, s13, s14, s15
  <1> QED BY <1>2, <1>3

\* A revision by its number.
LEMMA UpgradesAre ==
  ASSUME NEW s
  PROVE  /\ Upgrade(1, s) = Up1(s)
         /\ Upgrade(2, s) = Up2(s)
         /\ Upgrade(3, s) = Up3(s)
         /\ Upgrade(4, s) = Up4(s)
         /\ Upgrade(5, s) = Up5(s)
         /\ Upgrade(6, s) = Up6(s)
         /\ Upgrade(7, s) = Up7(s)
         /\ Upgrade(8, s) = Up8(s)
         /\ Upgrade(9, s) = Up9(s)
         /\ Upgrade(10, s) = Up10(s)
         /\ Upgrade(11, s) = Up11(s)
         /\ Upgrade(12, s) = Up12(s)
         /\ Upgrade(13, s) = Up13(s)
         /\ Upgrade(14, s) = Up14(s)
         /\ Upgrade(15, s) = Up15(s)
  BY DEF Upgrade

LEMMA DowngradesAre ==
  ASSUME NEW s
  PROVE  /\ Downgrade(1, s) = Down1(s)
         /\ Downgrade(2, s) = Down2(s)
         /\ Downgrade(3, s) = Down3(s)
         /\ Downgrade(4, s) = Down4(s)
         /\ Downgrade(5, s) = Down5(s)
         /\ Downgrade(6, s) = Down6(s)
         /\ Downgrade(7, s) = Down7(s)
         /\ Downgrade(8, s) = Down8(s)
         /\ Downgrade(9, s) = Down9(s)
         /\ Downgrade(10, s) = Down10(s)
         /\ Downgrade(11, s) = Down11(s)
         /\ Downgrade(12, s) = Down12(s)
         /\ Downgrade(13, s) = Down13(s)
         /\ Downgrade(14, s) = Down14(s)
         /\ Downgrade(15, s) = Down15(s)
  BY DEF Downgrade

\* Each is sound, and the downgrade finds the way back.
LEMMA Chain ==
  /\ SchemaAt[2] = Extensions
  /\ Sound(SchemaAt[3], 2) /\ Down2(SchemaAt[3]) = SchemaAt[2]
  /\ Sound(SchemaAt[4], 3) /\ Down3(SchemaAt[4]) = SchemaAt[3]
  /\ Sound(SchemaAt[5], 4) /\ Down4(SchemaAt[5]) = SchemaAt[4]
  /\ Sound(SchemaAt[6], 5) /\ Down5(SchemaAt[6]) = SchemaAt[5]
  /\ Sound(SchemaAt[7], 6) /\ Down6(SchemaAt[7]) = SchemaAt[6]
  /\ Sound(SchemaAt[8], 7) /\ Down7(SchemaAt[8]) = SchemaAt[7]
  /\ Sound(SchemaAt[9], 8) /\ Down8(SchemaAt[9]) = SchemaAt[8]
  /\ Sound(SchemaAt[10], 9) /\ Down9(SchemaAt[10]) = SchemaAt[9]
  /\ Sound(SchemaAt[11], 10) /\ Down10(SchemaAt[11]) = SchemaAt[10]
  /\ Sound(SchemaAt[12], 11) /\ Down11(SchemaAt[12]) = SchemaAt[11]
  /\ Sound(SchemaAt[13], 12) /\ Down12(SchemaAt[13]) = SchemaAt[12]
  /\ Sound(SchemaAt[14], 13) /\ Down13(SchemaAt[14]) = SchemaAt[13]
  /\ Sound(SchemaAt[15], 14) /\ Down14(SchemaAt[15]) = SchemaAt[14]
  /\ Sound(SchemaAt[16], 15) /\ Down15(SchemaAt[16]) = SchemaAt[15]
  <1>1. SchemaAt[2] = Extensions
    BY SchemasAre, One
  <1>2. Sound(SchemaAt[3], 2) /\ Down2(SchemaAt[3]) = SchemaAt[2]
    BY <1>1, SchemasAre, Two
  <1>3. Sound(SchemaAt[4], 3) /\ Down3(SchemaAt[4]) = SchemaAt[3]
    BY <1>2, SchemasAre, Three
  <1>4. Sound(SchemaAt[5], 4) /\ Down4(SchemaAt[5]) = SchemaAt[4]
    BY <1>3, SchemasAre, Four
  <1>5. Sound(SchemaAt[6], 5) /\ Down5(SchemaAt[6]) = SchemaAt[5]
    BY <1>4, SchemasAre, Five
  <1>6. Sound(SchemaAt[7], 6) /\ Down6(SchemaAt[7]) = SchemaAt[6]
    BY <1>5, SchemasAre, Six
  <1>7. Sound(SchemaAt[8], 7) /\ Down7(SchemaAt[8]) = SchemaAt[7]
    BY <1>6, SchemasAre, Seven
  <1>8. Sound(SchemaAt[9], 8) /\ Down8(SchemaAt[9]) = SchemaAt[8]
    BY <1>7, SchemasAre, Eight
  <1>9. Sound(SchemaAt[10], 9) /\ Down9(SchemaAt[10]) = SchemaAt[9]
    BY <1>8, SchemasAre, Nine
  <1>10. Sound(SchemaAt[11], 10) /\ Down10(SchemaAt[11]) = SchemaAt[10]
    BY <1>9, SchemasAre, Ten
  <1>11. Sound(SchemaAt[12], 11) /\ Down11(SchemaAt[12]) = SchemaAt[11]
    BY <1>10, SchemasAre, Eleven
  <1>12. Sound(SchemaAt[13], 12) /\ Down12(SchemaAt[13]) = SchemaAt[12]
    BY <1>11, SchemasAre, Twelve
  <1>13. Sound(SchemaAt[14], 13) /\ Down13(SchemaAt[14]) = SchemaAt[13]
    BY <1>12, SchemasAre, Thirteen
  <1>14. Sound(SchemaAt[15], 14) /\ Down14(SchemaAt[15]) = SchemaAt[14]
    BY <1>13, SchemasAre, Fourteen
  <1>15. Sound(SchemaAt[16], 15) /\ Down15(SchemaAt[16]) = SchemaAt[15]
    BY <1>14, SchemasAre, Fifteen
  <1> QED BY <1>1, <1>2, <1>3, <1>4, <1>5, <1>6, <1>7, <1>8, <1>9, <1>10, <1>11, <1>12, <1>13, <1>14, <1>15

\* The two directions, for every number.
LEMMA Upward ==
  \A n \in 1..15 : SchemaAt[n + 1] = Upgrade(n, SchemaAt[n])
  <1>1. ASSUME NEW n \in 1..15 PROVE SchemaAt[n + 1] = Upgrade(n, SchemaAt[n])
    <2>1. CASE n = 1
      <3>1. Upgrade(1, SchemaAt[1]) = Up1(SchemaAt[1])
        BY UpgradesAre
      <3>2. n + 1 = 2
        BY <2>1
      <3> QED BY <2>1, <3>1, <3>2, SchemasAre
    <2>2. CASE n = 2
      <3>1. Upgrade(2, SchemaAt[2]) = Up2(SchemaAt[2])
        BY UpgradesAre
      <3>2. n + 1 = 3
        BY <2>2
      <3> QED BY <2>2, <3>1, <3>2, SchemasAre
    <2>3. CASE n = 3
      <3>1. Upgrade(3, SchemaAt[3]) = Up3(SchemaAt[3])
        BY UpgradesAre
      <3>2. n + 1 = 4
        BY <2>3
      <3> QED BY <2>3, <3>1, <3>2, SchemasAre
    <2>4. CASE n = 4
      <3>1. Upgrade(4, SchemaAt[4]) = Up4(SchemaAt[4])
        BY UpgradesAre
      <3>2. n + 1 = 5
        BY <2>4
      <3> QED BY <2>4, <3>1, <3>2, SchemasAre
    <2>5. CASE n = 5
      <3>1. Upgrade(5, SchemaAt[5]) = Up5(SchemaAt[5])
        BY UpgradesAre
      <3>2. n + 1 = 6
        BY <2>5
      <3> QED BY <2>5, <3>1, <3>2, SchemasAre
    <2>6. CASE n = 6
      <3>1. Upgrade(6, SchemaAt[6]) = Up6(SchemaAt[6])
        BY UpgradesAre
      <3>2. n + 1 = 7
        BY <2>6
      <3> QED BY <2>6, <3>1, <3>2, SchemasAre
    <2>7. CASE n = 7
      <3>1. Upgrade(7, SchemaAt[7]) = Up7(SchemaAt[7])
        BY UpgradesAre
      <3>2. n + 1 = 8
        BY <2>7
      <3> QED BY <2>7, <3>1, <3>2, SchemasAre
    <2>8. CASE n = 8
      <3>1. Upgrade(8, SchemaAt[8]) = Up8(SchemaAt[8])
        BY UpgradesAre
      <3>2. n + 1 = 9
        BY <2>8
      <3> QED BY <2>8, <3>1, <3>2, SchemasAre
    <2>9. CASE n = 9
      <3>1. Upgrade(9, SchemaAt[9]) = Up9(SchemaAt[9])
        BY UpgradesAre
      <3>2. n + 1 = 10
        BY <2>9
      <3> QED BY <2>9, <3>1, <3>2, SchemasAre
    <2>10. CASE n = 10
      <3>1. Upgrade(10, SchemaAt[10]) = Up10(SchemaAt[10])
        BY UpgradesAre
      <3>2. n + 1 = 11
        BY <2>10
      <3> QED BY <2>10, <3>1, <3>2, SchemasAre
    <2>11. CASE n = 11
      <3>1. Upgrade(11, SchemaAt[11]) = Up11(SchemaAt[11])
        BY UpgradesAre
      <3>2. n + 1 = 12
        BY <2>11
      <3> QED BY <2>11, <3>1, <3>2, SchemasAre
    <2>12. CASE n = 12
      <3>1. Upgrade(12, SchemaAt[12]) = Up12(SchemaAt[12])
        BY UpgradesAre
      <3>2. n + 1 = 13
        BY <2>12
      <3> QED BY <2>12, <3>1, <3>2, SchemasAre
    <2>13. CASE n = 13
      <3>1. Upgrade(13, SchemaAt[13]) = Up13(SchemaAt[13])
        BY UpgradesAre
      <3>2. n + 1 = 14
        BY <2>13
      <3> QED BY <2>13, <3>1, <3>2, SchemasAre
    <2>14. CASE n = 14
      <3>1. Upgrade(14, SchemaAt[14]) = Up14(SchemaAt[14])
        BY UpgradesAre
      <3>2. n + 1 = 15
        BY <2>14
      <3> QED BY <2>14, <3>1, <3>2, SchemasAre
    <2>15. CASE n = 15
      <3>1. Upgrade(15, SchemaAt[15]) = Up15(SchemaAt[15])
        BY UpgradesAre
      <3>2. n + 1 = 16
        BY <2>15
      <3> QED BY <2>15, <3>1, <3>2, SchemasAre
    <2> QED BY <2>1, <2>2, <2>3, <2>4, <2>5, <2>6, <2>7, <2>8, <2>9, <2>10, <2>11, <2>12, <2>13, <2>14, <2>15
  <1> QED BY <1>1

LEMMA Downward ==
  /\ Downgrade(1, SchemaAt[2]) = SchemaAt[2]
  /\ \A n \in 2..15 : Downgrade(n, SchemaAt[n + 1]) = SchemaAt[n]
  <1>1. Downgrade(1, SchemaAt[2]) = SchemaAt[2]
    BY DowngradesAre DEF Down1
  <1>2. ASSUME NEW n \in 2..15 PROVE Downgrade(n, SchemaAt[n + 1]) = SchemaAt[n]
    <2>2. CASE n = 2
      <3>1. Downgrade(2, SchemaAt[3]) = Down2(SchemaAt[3])
        BY DowngradesAre
      <3>2. n + 1 = 3
        BY <2>2
      <3> QED BY <2>2, <3>1, <3>2, Chain
    <2>3. CASE n = 3
      <3>1. Downgrade(3, SchemaAt[4]) = Down3(SchemaAt[4])
        BY DowngradesAre
      <3>2. n + 1 = 4
        BY <2>3
      <3> QED BY <2>3, <3>1, <3>2, Chain
    <2>4. CASE n = 4
      <3>1. Downgrade(4, SchemaAt[5]) = Down4(SchemaAt[5])
        BY DowngradesAre
      <3>2. n + 1 = 5
        BY <2>4
      <3> QED BY <2>4, <3>1, <3>2, Chain
    <2>5. CASE n = 5
      <3>1. Downgrade(5, SchemaAt[6]) = Down5(SchemaAt[6])
        BY DowngradesAre
      <3>2. n + 1 = 6
        BY <2>5
      <3> QED BY <2>5, <3>1, <3>2, Chain
    <2>6. CASE n = 6
      <3>1. Downgrade(6, SchemaAt[7]) = Down6(SchemaAt[7])
        BY DowngradesAre
      <3>2. n + 1 = 7
        BY <2>6
      <3> QED BY <2>6, <3>1, <3>2, Chain
    <2>7. CASE n = 7
      <3>1. Downgrade(7, SchemaAt[8]) = Down7(SchemaAt[8])
        BY DowngradesAre
      <3>2. n + 1 = 8
        BY <2>7
      <3> QED BY <2>7, <3>1, <3>2, Chain
    <2>8. CASE n = 8
      <3>1. Downgrade(8, SchemaAt[9]) = Down8(SchemaAt[9])
        BY DowngradesAre
      <3>2. n + 1 = 9
        BY <2>8
      <3> QED BY <2>8, <3>1, <3>2, Chain
    <2>9. CASE n = 9
      <3>1. Downgrade(9, SchemaAt[10]) = Down9(SchemaAt[10])
        BY DowngradesAre
      <3>2. n + 1 = 10
        BY <2>9
      <3> QED BY <2>9, <3>1, <3>2, Chain
    <2>10. CASE n = 10
      <3>1. Downgrade(10, SchemaAt[11]) = Down10(SchemaAt[11])
        BY DowngradesAre
      <3>2. n + 1 = 11
        BY <2>10
      <3> QED BY <2>10, <3>1, <3>2, Chain
    <2>11. CASE n = 11
      <3>1. Downgrade(11, SchemaAt[12]) = Down11(SchemaAt[12])
        BY DowngradesAre
      <3>2. n + 1 = 12
        BY <2>11
      <3> QED BY <2>11, <3>1, <3>2, Chain
    <2>12. CASE n = 12
      <3>1. Downgrade(12, SchemaAt[13]) = Down12(SchemaAt[13])
        BY DowngradesAre
      <3>2. n + 1 = 13
        BY <2>12
      <3> QED BY <2>12, <3>1, <3>2, Chain
    <2>13. CASE n = 13
      <3>1. Downgrade(13, SchemaAt[14]) = Down13(SchemaAt[14])
        BY DowngradesAre
      <3>2. n + 1 = 14
        BY <2>13
      <3> QED BY <2>13, <3>1, <3>2, Chain
    <2>14. CASE n = 14
      <3>1. Downgrade(14, SchemaAt[15]) = Down14(SchemaAt[15])
        BY DowngradesAre
      <3>2. n + 1 = 15
        BY <2>14
      <3> QED BY <2>14, <3>1, <3>2, Chain
    <2>15. CASE n = 15
      <3>1. Downgrade(15, SchemaAt[16]) = Down15(SchemaAt[16])
        BY DowngradesAre
      <3>2. n + 1 = 16
        BY <2>15
      <3> QED BY <2>15, <3>1, <3>2, Chain
    <2> QED BY <2>2, <2>3, <2>4, <2>5, <2>6, <2>7, <2>8, <2>9, <2>10, <2>11, <2>12, <2>13, <2>14, <2>15
  <1> QED BY <1>1, <1>2

\* From 0003 on the schemas are guarded.
LEMMA Guards == \A n \in 3..15 : AllGuarded(SchemaAt[n + 1])
  <1>1. ASSUME NEW n \in 3..15 PROVE AllGuarded(SchemaAt[n + 1])
    <2>3. CASE n = 3
      <3>1. n + 1 = 4 /\ 3 >= 3
        BY <2>3
      <3>2. Sound(SchemaAt[4], 3)
        BY Chain
      <3> QED BY <3>1, <3>2 DEF Sound
    <2>4. CASE n = 4
      <3>1. n + 1 = 5 /\ 4 >= 3
        BY <2>4
      <3>2. Sound(SchemaAt[5], 4)
        BY Chain
      <3> QED BY <3>1, <3>2 DEF Sound
    <2>5. CASE n = 5
      <3>1. n + 1 = 6 /\ 5 >= 3
        BY <2>5
      <3>2. Sound(SchemaAt[6], 5)
        BY Chain
      <3> QED BY <3>1, <3>2 DEF Sound
    <2>6. CASE n = 6
      <3>1. n + 1 = 7 /\ 6 >= 3
        BY <2>6
      <3>2. Sound(SchemaAt[7], 6)
        BY Chain
      <3> QED BY <3>1, <3>2 DEF Sound
    <2>7. CASE n = 7
      <3>1. n + 1 = 8 /\ 7 >= 3
        BY <2>7
      <3>2. Sound(SchemaAt[8], 7)
        BY Chain
      <3> QED BY <3>1, <3>2 DEF Sound
    <2>8. CASE n = 8
      <3>1. n + 1 = 9 /\ 8 >= 3
        BY <2>8
      <3>2. Sound(SchemaAt[9], 8)
        BY Chain
      <3> QED BY <3>1, <3>2 DEF Sound
    <2>9. CASE n = 9
      <3>1. n + 1 = 10 /\ 9 >= 3
        BY <2>9
      <3>2. Sound(SchemaAt[10], 9)
        BY Chain
      <3> QED BY <3>1, <3>2 DEF Sound
    <2>10. CASE n = 10
      <3>1. n + 1 = 11 /\ 10 >= 3
        BY <2>10
      <3>2. Sound(SchemaAt[11], 10)
        BY Chain
      <3> QED BY <3>1, <3>2 DEF Sound
    <2>11. CASE n = 11
      <3>1. n + 1 = 12 /\ 11 >= 3
        BY <2>11
      <3>2. Sound(SchemaAt[12], 11)
        BY Chain
      <3> QED BY <3>1, <3>2 DEF Sound
    <2>12. CASE n = 12
      <3>1. n + 1 = 13 /\ 12 >= 3
        BY <2>12
      <3>2. Sound(SchemaAt[13], 12)
        BY Chain
      <3> QED BY <3>1, <3>2 DEF Sound
    <2>13. CASE n = 13
      <3>1. n + 1 = 14 /\ 13 >= 3
        BY <2>13
      <3>2. Sound(SchemaAt[14], 13)
        BY Chain
      <3> QED BY <3>1, <3>2 DEF Sound
    <2>14. CASE n = 14
      <3>1. n + 1 = 15 /\ 14 >= 3
        BY <2>14
      <3>2. Sound(SchemaAt[15], 14)
        BY Chain
      <3> QED BY <3>1, <3>2 DEF Sound
    <2>15. CASE n = 15
      <3>1. n + 1 = 16 /\ 15 >= 3
        BY <2>15
      <3>2. Sound(SchemaAt[16], 15)
        BY Chain
      <3> QED BY <3>1, <3>2 DEF Sound
    <2> QED BY <2>3, <2>4, <2>5, <2>6, <2>7, <2>8, <2>9, <2>10, <2>11, <2>12, <2>13, <2>14, <2>15
  <1> QED BY <1>1

-----------------------------------------------------------------------------
\* A revision done, up or down, leads from the schema of one number to that of the next.
LEMMA UpgradeExact ==
  ASSUME NEW s, NEW n \in 0..14, ExactInv(s, n), NEW m, m = n + 1
  PROVE  ExactInv(Upgrade(m, s), m)
  <1>1. m \in 1..15 /\ m # 0
    OBVIOUS
  <1>2. CASE n = 0
    <2>1. m = 1 /\ m + 1 = 2
      BY <1>2
    <2>2. Upgrade(1, s) = Extensions
      BY <1>2, One, UpgradesAre DEF ExactInv
    <2> QED BY <1>1, <2>1, <2>2, Chain DEF ExactInv
  <1>3. CASE n # 0
    <2>1. s = SchemaAt[m]
      BY <1>3 DEF ExactInv
    <2>2. SchemaAt[m + 1] = Upgrade(m, s)
      BY <1>1, <2>1, Upward
    <2> QED BY <1>1, <2>2 DEF ExactInv
  <1> QED BY <1>2, <1>3

LEMMA DowngradeExact ==
  ASSUME NEW s, NEW n \in 1..15, ExactInv(s, n), NEW m, m = n - 1
  PROVE  ExactInv(Downgrade(n, s), m)
  <1>1. m \in 0..14 /\ n # 0 /\ s = SchemaAt[n + 1]
    BY DEF ExactInv
  <1>2. CASE n = 1
    <2>1. n + 1 = 2 /\ m = 0
      BY <1>2
    <2>2. Downgrade(n, s) = Extensions
      BY <1>1, <1>2, <2>1, Downward, Chain
    <2> QED BY <2>1, <2>2 DEF ExactInv
  <1>3. CASE n # 1
    <2>1. n \in 2..15 /\ m # 0 /\ m + 1 = n
      BY <1>3
    <2>2. Downgrade(n, s) = SchemaAt[n]
      BY <1>1, <2>1, Downward
    <2> QED BY <2>1, <2>2 DEF ExactInv
  <1> QED BY <1>2, <1>3

\* The invariant: at first, at every step, always.
LEMMA ExactInit == Init => Exact
  BY DEF Init, Exact, ExactInv

LEMMA ExactNext == MigrationsInv /\ Exact /\ [Next]_vars => Exact'
  <1> SUFFICES ASSUME MigrationsInv, Exact, [Next]_vars PROVE Exact'
    OBVIOUS
  <1>1. Rests \/ StaysAt \/ Starts \/ Commits \/ Advances
    BY SchemaSteps
  <1>2. CASE Rests
    BY <1>2 DEF Rests, Exact, ExactInv
  <1>3. CASE StaysAt
    BY <1>3 DEF StaysAt, Exact, ExactInv
  <1>4. CASE Starts
    BY <1>4 DEF Starts, Exact, ExactInv
  <1>5. CASE Commits
    BY <1>5 DEF Commits, Exact, ExactInv
  <1>6. CASE Advances
    <2>1. job.at \in 0..15 /\ ExactInv(job.schema, job.at) /\ UNCHANGED <<schema, revision>>
      BY <1>6 DEF Advances, Exact
    <2>2. job'.at \in 0..15 /\ ExactInv(job'.schema, job'.at)
      <3>1. CASE job.at \in 0..14 /\ job'.at = job.at + 1 /\ job'.schema = Upgrade(job.at + 1, job.schema)
        BY <2>1, <3>1, UpgradeExact
      <3>2. CASE job.at \in 1..15 /\ job'.at = job.at - 1 /\ job'.schema = Downgrade(job.at, job.schema)
        BY <2>1, <3>2, DowngradeExact
      <3> QED BY <1>6, <3>1, <3>2 DEF Advances, Revised
    <2> QED BY <2>1, <2>2 DEF Exact, ExactInv
  <1> QED BY <1>1, <1>2, <1>3, <1>4, <1>5, <1>6

LEMMA ExactAlways == Spec => []Exact
  <1>1. MigrationsInv /\ Exact /\ [Next]_vars => Exact'
    BY ExactNext
  <1> QED BY <1>1, ExactInit, MigrationsInductive, PTL DEF Spec

\* 0013, "a downgrade returns the schema it found", for every revision: whatever commands,
\* refusals, crashes and writes led there, the committed catalogue is the one that the upgrades
\* of an empty database reach at the number alembic_version holds, extensions apart.
THEOREM SchemaOfRevisionHolds == Spec => []SchemaOfRevision
  <1>1. Exact => SchemaOfRevision
    <2> SUFFICES ASSUME Exact PROVE schema \ Extensions = SchemaAt[revision + 1] \ Extensions
      BY DEF SchemaOfRevision
    <2>1. CASE revision = 0
      <3>1. revision + 1 = 1 /\ schema \subseteq Extensions
        BY <2>1 DEF Exact, ExactInv
      <3> QED BY <3>1, SchemasAre
    <2>2. CASE revision # 0
      BY <2>2 DEF Exact, ExactInv
    <2> QED BY <2>1, <2>2
  <1> QED BY <1>1, ExactAlways, PTL

\* From 0003 on every table and partition with an organisation's rows has a policy, at every
\* revision a command can leave the database at, the staging table of 0008 never among them.
THEOREM TenantTablesGuardedHolds == Spec => []TenantTablesGuarded
  <1>1. Exact => TenantTablesGuarded
    <2> SUFFICES ASSUME Exact, revision >= 3, NEW t \in Tables(schema), t # "organization",
                        NEW p \in {t} \cup PartitionsOf(schema, t)
                 PROVE  p \in Guarded(schema)
      BY DEF TenantTablesGuarded
    <2>1. revision \in 3..15 /\ revision # 0
      BY DEF Exact
    <2>2. AllGuarded(schema)
      BY <2>1, Guards DEF Exact, ExactInv
    <2>3. PICK f \in schema : f[2] = p /\ ((f[1] = "table" /\ f[2] # "organization") \/ f[1] = "partition")
      BY DEF Tables, PartitionsOf, Kind
    <2>4. Policy(p) \subseteq schema
      BY <2>2, <2>3 DEF AllGuarded
    <2>5. <<"policy", p>> \in schema /\ <<"policy", p>>[1] = "policy" /\ <<"policy", p>>[2] = p
      BY <2>4 DEF Policy
    <2> QED BY <2>5 DEF Guarded, Kind
  <1> QED BY <1>1, ExactAlways, PTL

-----------------------------------------------------------------------------
(***************************************************************************)
(* That the last schema is the one app/models declares: each model's table *)
(* is the union of the clauses the revisions add to it.                    *)
(***************************************************************************)
\* The clauses of app/models are those of the revisions.
LEMMA ClausesAre ==
  /\ \A t, a : /\ Model!Required(t, a) = Required(t, a) /\ Model!Optional(t, a) = Optional(t, a)
               /\ Model!Defaults(t, a) = Defaults(t, a) /\ Model!Unique(t, a) = Unique(t, a)
               /\ Model!Table(t, a) = Table(t, a)
  /\ \A t, a, b : /\ Model!References(t, a, b) = References(t, a, b)
                  /\ Model!UniqueWhere(t, a, b) = UniqueWhere(t, a, b)
                  /\ Model!enum_check(t, a, b) = OneOf(t, a, b)
  /\ \A t, a, b, c : Model!Between(t, a, b, c) = Between(t, a, b, c)
  <1>1. \A t, a : Model!Required(t, a) = Required(t, a)
    BY DEF Model!Required, Required
  <1>2. \A t, a : Model!Optional(t, a) = Optional(t, a)
    BY DEF Model!Optional, Optional
  <1>3. \A t, a : Model!Defaults(t, a) = Defaults(t, a)
    BY DEF Model!Defaults, Defaults
  <1>4. \A t, a : Model!Unique(t, a) = Unique(t, a)
    BY DEF Model!Unique, Unique
  <1>5. \A t, a : Model!Table(t, a) = Table(t, a)
    BY DEF Model!Table, Table
  <1>6. \A t, a, b : Model!References(t, a, b) = References(t, a, b)
    BY DEF Model!References, References
  <1>7. \A t, a, b : Model!UniqueWhere(t, a, b) = UniqueWhere(t, a, b)
    BY DEF Model!UniqueWhere, UniqueWhere
  <1>8. \A t, a, b : Model!enum_check(t, a, b) = OneOf(t, a, b)
    BY DEF Model!enum_check, Model!OneOf, OneOf
  <1>9. \A t, a, b, c : Model!Between(t, a, b, c) = Between(t, a, b, c)
    BY DEF Model!Between, Between
  <1> QED BY <1>1, <1>2, <1>3, <1>4, <1>5, <1>6, <1>7, <1>8, <1>9

\* And its mixins are the helpers of 0002.
LEMMA MixinsAre ==
  \A t : /\ \A f : f \in Pk(t) <=> f \in Table(t, {"id"}) \/ f \in Model!UUIDPrimaryKeyMixin(t)
         /\ Model!CreatedAtMixin(t) = Created(t)
         /\ \A f : f \in Model!TimestampMixin(t) <=> f \in Created(t) \/ f \in Updated(t)
         /\ Model!OrgScopedMixin(t) = OrgId(t)
  <1> TAKE t
  <1> DEFINE i == {"id"}
             c == {"created_at"}
             d == {"updated_at"}
             o == {"org_id"}
             x == {<<"id", "uuid">>}
             y == {<<"created_at", "now">>}
             w == {<<"updated_at", "now">>}
             z == {<<"org_id", "organization">>}
  <1>1. Model!UUIDPrimaryKeyMixin(t) = Model!Required(t, i) \cup Model!Defaults(t, x)
    BY DEF Model!UUIDPrimaryKeyMixin
  <1>2. Model!CreatedAtMixin(t) = Model!Required(t, c) \cup Model!Defaults(t, y)
    BY DEF Model!CreatedAtMixin
  <1>3. Model!TimestampMixin(t) = Model!CreatedAtMixin(t) \cup Model!Required(t, d) \cup Model!Defaults(t, w)
    BY DEF Model!TimestampMixin
  <1>4. Model!OrgScopedMixin(t) = Model!Required(t, o) \cup Model!References(t, "CASCADE", z)
    BY DEF Model!OrgScopedMixin
  <1>5. /\ Pk(t) = Table(t, i) \cup Required(t, i) \cup Defaults(t, x)
        /\ Created(t) = Required(t, c) \cup Defaults(t, y)
        /\ Updated(t) = Required(t, d) \cup Defaults(t, w)
        /\ OrgId(t) = Required(t, o) \cup References(t, "CASCADE", z)
    BY DEF Pk, Created, Updated, OrgId
  <1>6. \A f : f \in Pk(t) <=> f \in Table(t, i) \/ f \in Model!UUIDPrimaryKeyMixin(t)
    <2> HIDE DEF i, x
    <2> QED BY <1>1, <1>5, ClausesAre
  <1>7. Model!CreatedAtMixin(t) = Created(t)
    <2> HIDE DEF c, y
    <2> QED BY <1>2, <1>5, ClausesAre
  <1>8. \A f : f \in Model!TimestampMixin(t) <=> f \in Created(t) \/ f \in Updated(t)
    <2> HIDE DEF d, w
    <2> QED BY <1>3, <1>5, <1>7, ClausesAre
  <1>9. Model!OrgScopedMixin(t) = OrgId(t)
    <2> HIDE DEF o, z
    <2> QED BY <1>4, <1>5, ClausesAre
  <1> QED BY <1>6, <1>7, <1>8, <1>9

Unlisted(f) == f[1] \notin {"words", "range"}

\* What each clause is to the comparison.
LEMMA IncludedClauses ==
  /\ \A t : \A f \in Pk(t) \cup Created(t) \cup Updated(t) \cup OrgId(t) : IncludeObject(f) /\ Unlisted(f)
  /\ \A t, a : \A f \in Required(t, a) \cup Optional(t, a) \cup Defaults(t, a) \cup Unique(t, a)
                          \cup Table(t, a) : IncludeObject(f) /\ Unlisted(f)
  /\ \A t, a, b : \A f \in References(t, a, b) \cup UniqueWhere(t, a, b) : IncludeObject(f) /\ Unlisted(f)
  /\ \A t, a, b : \A f \in OneOf(t, a, b) : IncludeObject(f)
  /\ \A t, a, b, c : \A f \in Between(t, a, b, c) : IncludeObject(f)
  <1>1. \A t : \A f \in Pk(t) \cup Created(t) \cup Updated(t) \cup OrgId(t) : IncludeObject(f) /\ Unlisted(f)
    BY PkIs, CreatedIs, UpdatedIs, OrgIdIs DEF IncludeObject, Unlisted
  <1>2. \A t, a : \A f \in Required(t, a) \cup Optional(t, a) \cup Defaults(t, a) \cup Unique(t, a)
                             \cup Table(t, a) : IncludeObject(f) /\ Unlisted(f)
    BY RequiredIs, OptionalIs, UniqueIs, DefaultsIs, TableClauseIs DEF IncludeObject, Unlisted
  <1>3. \A t, a, b : \A f \in References(t, a, b) \cup UniqueWhere(t, a, b) : IncludeObject(f) /\ Unlisted(f)
    BY ReferencesIs, UniqueWhereIs DEF IncludeObject, Unlisted
  <1>4. \A t, a, b : \A f \in OneOf(t, a, b) : IncludeObject(f)
    BY OneOfIs DEF IncludeObject
  <1>5. \A t, a, b, c : \A f \in Between(t, a, b, c) : IncludeObject(f)
    BY BetweenIs DEF IncludeObject
  <1> QED BY <1>1, <1>2, <1>3, <1>4, <1>5

\* A list of columns given in two parts.
LEMMA Joined ==
  /\ \A t, A, B : Required(t, A \cup B) = Required(t, A) \cup Required(t, B)
  /\ \A t, A, B : Optional(t, A \cup B) = Optional(t, A) \cup Optional(t, B)
  /\ \A t, A, B : Defaults(t, A \cup B) = Defaults(t, A) \cup Defaults(t, B)
  <1>1. \A t, A, B : Required(t, A \cup B) = Required(t, A) \cup Required(t, B)
    BY DEF Required
  <1>2. \A t, A, B : Optional(t, A \cup B) = Optional(t, A) \cup Optional(t, B)
    BY DEF Optional
  <1>3. \A t, A, B : Defaults(t, A \cup B) = Defaults(t, A) \cup Defaults(t, B)
    BY DEF Defaults
  <1> QED BY <1>1, <1>2, <1>3

-----------------------------------------------------------------------------
\* A revision that creates a table creates the one its model declares.
LEMMA OrganizationIs ==
  /\ Of(Model!Organization, "organization")
  /\ Model!Organization =
       Pk("organization") \cup Created("organization") \cup Updated("organization")
           \cup Required("organization", {"name", "slug", "plan"})
           \cup Unique("organization", {"slug"})
           \cup OneOf("organization", "plan", {"free", "pro", "enterprise"})
  <1> DEFINE t == "organization"
             id == {"id"}
             a1 == {"name", "slug", "plan"}
             a2 == {"slug"}
             a3 == "plan"
             a4 == {"free", "pro", "enterprise"}
             A == Pk(t) \cup Created(t) \cup Updated(t) \cup Required(t, a1)
                      \cup Unique(t, a2) \cup OneOf(t, a3, a4)
  <1>1. Model!Organization =
          Model!Table(t, id) \cup Model!UUIDPrimaryKeyMixin(t)
              \cup Model!TimestampMixin(t) \cup Model!Required(t, a1)
              \cup Model!Unique(t, a2) \cup Model!enum_check(t, a3, a4)
    BY DEF Model!Organization, Model!Plan
  <1>2. \A f : f \in Pk(t) <=> f \in Table(t, id) \/ f \in Model!UUIDPrimaryKeyMixin(t)
    BY MixinsAre
  <1> HIDE DEF t, id, a1, a2, a3, a4
  <1>4. Model!Organization = A
    BY <1>1, <1>2, ClausesAre, MixinsAre
  <1>5. Of(A, t)
    BY Located, IncludedClauses DEF Of
  <1> QED BY <1>4, <1>5 DEF t, a1, a2, a3, a4

\* The colleagues.
LEMMA UserIs ==
  /\ Of(Model!User, "app_user")
  /\ Model!User =
       Pk("app_user") \cup Created("app_user") \cup Updated("app_user")
           \cup OrgId("app_user")
           \cup Required("app_user", {"email", "hashed_password", "role", "is_active"})
           \cup Optional("app_user", {"full_name"})
           \cup Unique("app_user", {"email"})
           \cup OneOf("app_user", "role", {"owner", "admin", "member"})
  <1> DEFINE t == "app_user"
             id == {"id"}
             a1 == {"email", "hashed_password", "role", "is_active"}
             a2 == {"full_name"}
             a3 == {"email"}
             a4 == "role"
             a5 == {"owner", "admin", "member"}
             A == Pk(t) \cup Created(t) \cup Updated(t) \cup OrgId(t)
                      \cup Required(t, a1) \cup Optional(t, a2) \cup Unique(t, a3)
                      \cup OneOf(t, a4, a5)
  <1>1. Model!User =
          Model!Table(t, id) \cup Model!UUIDPrimaryKeyMixin(t)
              \cup Model!OrgScopedMixin(t) \cup Model!TimestampMixin(t)
              \cup Model!Required(t, a1) \cup Model!Optional(t, a2)
              \cup Model!Unique(t, a3) \cup Model!enum_check(t, a4, a5)
    BY DEF Model!User, Model!UserRole
  <1>2. \A f : f \in Pk(t) <=> f \in Table(t, id) \/ f \in Model!UUIDPrimaryKeyMixin(t)
    BY MixinsAre
  <1> HIDE DEF t, id, a1, a2, a3, a4, a5
  <1>4. Model!User = A
    BY <1>1, <1>2, ClausesAre, MixinsAre
  <1>5. Of(A, t)
    BY Located, IncludedClauses DEF Of
  <1> QED BY <1>4, <1>5 DEF t, a1, a2, a3, a4, a5

\* The conversations.
LEMMA ConversationIs ==
  /\ Of(Model!Conversation, "conversation")
  /\ Model!Conversation =
       Pk("conversation") \cup Created("conversation") \cup Updated("conversation")
           \cup OrgId("conversation")
           \cup Required("conversation", {"chatbot_id", "external_session_id", "message_count"})
           \cup Optional("conversation", {"title"})
           \cup Defaults("conversation", {<<"message_count", "0">>})
           \cup References("conversation", "CASCADE", {<<"chatbot_id", "chatbot">>})
           \cup Unique("conversation", {"chatbot_id", "external_session_id"})
  <1> DEFINE t == "conversation"
             id == {"id"}
             a1 == {"chatbot_id", "external_session_id", "message_count"}
             a2 == {"title"}
             a3 == {<<"message_count", "0">>}
             a4 == {<<"chatbot_id", "chatbot">>}
             a5 == {"chatbot_id", "external_session_id"}
             A == Pk(t) \cup Created(t) \cup Updated(t) \cup OrgId(t)
                      \cup Required(t, a1) \cup Optional(t, a2) \cup Defaults(t, a3)
                      \cup References(t, "CASCADE", a4) \cup Unique(t, a5)
  <1>1. Model!Conversation =
          Model!Table(t, id) \cup Model!UUIDPrimaryKeyMixin(t)
              \cup Model!OrgScopedMixin(t) \cup Model!TimestampMixin(t)
              \cup Model!Required(t, a1) \cup Model!Optional(t, a2)
              \cup Model!Defaults(t, a3) \cup Model!References(t, "CASCADE", a4)
              \cup Model!Unique(t, a5)
    BY DEF Model!Conversation
  <1>2. \A f : f \in Pk(t) <=> f \in Table(t, id) \/ f \in Model!UUIDPrimaryKeyMixin(t)
    BY MixinsAre
  <1> HIDE DEF t, id, a1, a2, a3, a4, a5
  <1>4. Model!Conversation = A
    BY <1>1, <1>2, ClausesAre, MixinsAre
  <1>5. Of(A, t)
    BY Located, IncludedClauses DEF Of
  <1> QED BY <1>4, <1>5 DEF t, a1, a2, a3, a4, a5

\* 0005: the invitations.
LEMMA InvitationIs ==
  /\ Of(Model!Invitation, "invitation")
  /\ \A s : Up5(s) = (s \cup Model!Invitation) \cup Policy("invitation")
  /\ Model!Invitation =
       Pk("invitation") \cup Created("invitation") \cup Updated("invitation")
           \cup OrgId("invitation")
           \cup Required("invitation", {"email", "role", "token_hash", "status", "expires_at"})
           \cup Optional("invitation", {"invited_by", "accepted_at"})
           \cup References("invitation", "SET NULL", {<<"invited_by", "app_user">>})
           \cup Unique("invitation", {"token_hash"})
           \cup UniqueWhere("invitation", {"org_id", "email"}, "status = 'pending'")
           \cup OneOf("invitation", "role", {"owner", "admin", "member"})
           \cup OneOf("invitation", "status", {"pending", "accepted", "revoked"})
  <1> DEFINE t == "invitation"
             id == {"id"}
             a1 == {"email", "role", "token_hash", "status", "expires_at"}
             a2 == {"invited_by", "accepted_at"}
             a3 == {<<"invited_by", "app_user">>}
             a4 == {"token_hash"}
             a5 == {"org_id", "email"}
             a6 == "status = 'pending'"
             a7 == "role"
             a8 == {"owner", "admin", "member"}
             a9 == "status"
             a10 == {"pending", "accepted", "revoked"}
             A == Pk(t) \cup Created(t) \cup Updated(t) \cup OrgId(t)
                      \cup Required(t, a1) \cup Optional(t, a2)
                      \cup References(t, "SET NULL", a3) \cup Unique(t, a4)
                      \cup UniqueWhere(t, a5, a6) \cup OneOf(t, a7, a8)
                      \cup OneOf(t, a9, a10)
  <1>1. Model!Invitation =
          Model!Table(t, id) \cup Model!UUIDPrimaryKeyMixin(t)
              \cup Model!OrgScopedMixin(t) \cup Model!TimestampMixin(t)
              \cup Model!Required(t, a1) \cup Model!Optional(t, a2)
              \cup Model!References(t, "SET NULL", a3) \cup Model!Unique(t, a4)
              \cup Model!UniqueWhere(t, a5, a6) \cup Model!enum_check(t, a7, a8)
              \cup Model!enum_check(t, a9, a10)
    BY DEF Model!Invitation, Model!UserRole, Model!InvitationStatus
  <1>2. \A f : f \in Pk(t) <=> f \in Table(t, id) \/ f \in Model!UUIDPrimaryKeyMixin(t)
    BY MixinsAre
  <1>3. \A s : Up5(s) = EnableRls(s \cup A, {t})
    BY DEF Up5
  <1> HIDE DEF t, id, a1, a2, a3, a4, a5, a6, a7, a8, a9, a10
  <1>4. Model!Invitation = A
    BY <1>1, <1>2, ClausesAre, MixinsAre
  <1>5. Of(A, t)
    BY Located, IncludedClauses DEF Of
  <1> HIDE DEF A
  <1>6. \A s : EnableRls(s \cup A, {t}) = (s \cup A) \cup Policy(t)
    BY RlsOne
  <1>7. \A s : Up5(s) = (s \cup Model!Invitation) \cup Policy(t)
    BY <1>3, <1>4, <1>6
  <1> QED BY <1>4, <1>5, <1>7 DEF A, t, a1, a2, a3, a4, a5, a6, a7, a8, a9, a10

\* 0007: the providers of a chatbot.
LEMMA AIConfigIs ==
  /\ Of(Model!ChatbotAIConfig, "chatbot_ai_config")
  /\ \A s : Up7(s) = (s \cup Model!ChatbotAIConfig) \cup Policy("chatbot_ai_config")
  /\ Model!ChatbotAIConfig =
       Pk("chatbot_ai_config") \cup Created("chatbot_ai_config")
           \cup Updated("chatbot_ai_config") \cup OrgId("chatbot_ai_config")
           \cup Required("chatbot_ai_config", {"chatbot_id", "chat_provider", "chat_model",
                                               "chat_config_json", "embedding_provider",
                                               "embedding_model", "embedding_config_json"})
           \cup Optional("chatbot_ai_config", {"chat_credentials_encrypted",
                                               "embedding_credentials_encrypted",
                                               "embedding_dimension"})
           \cup Defaults("chatbot_ai_config", {<<"chat_config_json", "{}">>, <<"embedding_config_json", "{}">>})
           \cup References("chatbot_ai_config", "CASCADE", {<<"chatbot_id", "chatbot">>})
           \cup Unique("chatbot_ai_config", {"chatbot_id"})
           \cup OneOf("chatbot_ai_config", "chat_provider", {"azure", "bedrock", "anthropic", "ollama"})
           \cup OneOf("chatbot_ai_config", "embedding_provider", {"azure", "bedrock", "ollama"})
  <1> DEFINE t == "chatbot_ai_config"
             id == {"id"}
             a1 == {"chatbot_id", "chat_provider", "chat_model", "chat_config_json",
                    "embedding_provider", "embedding_model", "embedding_config_json"}
             a2 == {"chat_credentials_encrypted", "embedding_credentials_encrypted", "embedding_dimension"}
             a3 == {<<"chat_config_json", "{}">>, <<"embedding_config_json", "{}">>}
             a4 == {<<"chatbot_id", "chatbot">>}
             a5 == {"chatbot_id"}
             a6 == "chat_provider"
             a7 == {"azure", "bedrock", "anthropic", "ollama"}
             a8 == "embedding_provider"
             a9 == {"azure", "bedrock", "ollama"}
             A == Pk(t) \cup Created(t) \cup Updated(t) \cup OrgId(t)
                      \cup Required(t, a1) \cup Optional(t, a2) \cup Defaults(t, a3)
                      \cup References(t, "CASCADE", a4) \cup Unique(t, a5)
                      \cup OneOf(t, a6, a7) \cup OneOf(t, a8, a9)
  <1>1. Model!ChatbotAIConfig =
          Model!Table(t, id) \cup Model!UUIDPrimaryKeyMixin(t)
              \cup Model!OrgScopedMixin(t) \cup Model!TimestampMixin(t)
              \cup Model!Required(t, a1) \cup Model!Optional(t, a2)
              \cup Model!Defaults(t, a3) \cup Model!References(t, "CASCADE", a4)
              \cup Model!Unique(t, a5) \cup Model!enum_check(t, a6, a7)
              \cup Model!enum_check(t, a8, a9)
    BY DEF Model!ChatbotAIConfig, Model!ChatProviderName, Model!EmbeddingProviderName
  <1>2. \A f : f \in Pk(t) <=> f \in Table(t, id) \/ f \in Model!UUIDPrimaryKeyMixin(t)
    BY MixinsAre
  <1>3. \A s : Up7(s) = EnableRls(s \cup A, {t})
    BY DEF Up7
  <1> HIDE DEF t, id, a1, a2, a3, a4, a5, a6, a7, a8, a9
  <1>4. Model!ChatbotAIConfig = A
    BY <1>1, <1>2, ClausesAre, MixinsAre
  <1>5. Of(A, t)
    BY Located, IncludedClauses DEF Of
  <1> HIDE DEF A
  <1>6. \A s : EnableRls(s \cup A, {t}) = (s \cup A) \cup Policy(t)
    BY RlsOne
  <1>7. \A s : Up7(s) = (s \cup Model!ChatbotAIConfig) \cup Policy(t)
    BY <1>3, <1>4, <1>6
  <1> QED BY <1>4, <1>5, <1>7 DEF A, t, a1, a2, a3, a4, a5, a6, a7, a8, a9

\* The tables of 0014, 0009, 0008 and 0012.
UsageTable ==
  LET t == "chatbot_usage_period" IN
  Table(t, {"chatbot_id", "period_start"}) \cup Created(t) \cup Updated(t) \cup OrgId(t)
    \cup Required(t, {"chatbot_id", "period_start", "ingestion_units_used", "retrieval_calls_used"})
    \cup Defaults(t, {<<"ingestion_units_used", "0">>, <<"retrieval_calls_used", "0">>})
    \cup References(t, "CASCADE", {<<"chatbot_id", "chatbot">>})
    \cup Between(t, "ingestion_units_used", 0, "any")
    \cup Between(t, "retrieval_calls_used", 0, "any")

\* It is the model's.
LEMMA UsageIs == Of(Model!ChatbotUsagePeriod, "chatbot_usage_period") /\ Model!ChatbotUsagePeriod = UsageTable
  <1> DEFINE t == "chatbot_usage_period"
             key == {"chatbot_id", "period_start"}
             a1 == {"chatbot_id", "period_start", "ingestion_units_used", "retrieval_calls_used"}
             a2 == {<<"ingestion_units_used", "0">>, <<"retrieval_calls_used", "0">>}
             a3 == {<<"chatbot_id", "chatbot">>}
             a4 == "ingestion_units_used"
             a5 == "retrieval_calls_used"
             any == "any"
             A == Table(t, key) \cup Created(t) \cup Updated(t) \cup OrgId(t) \cup Required(t, a1)
                    \cup Defaults(t, a2) \cup References(t, "CASCADE", a3)
                    \cup Between(t, a4, 0, any) \cup Between(t, a5, 0, any)
  <1>1. Model!ChatbotUsagePeriod =
          Model!Table(t, key) \cup Model!OrgScopedMixin(t) \cup Model!TimestampMixin(t)
            \cup Model!Required(t, a1) \cup Model!Defaults(t, a2)
            \cup Model!References(t, "CASCADE", a3)
            \cup Model!Between(t, a4, 0, any) \cup Model!Between(t, a5, 0, any)
    BY DEF Model!ChatbotUsagePeriod
  <1>2. UsageTable = A
    BY DEF UsageTable
  <1> HIDE DEF t, key, a1, a2, a3, a4, a5, any
  <1>3. Model!ChatbotUsagePeriod = A
    BY <1>1, ClausesAre, MixinsAre
  <1>4. Of(A, t)
    BY Located, IncludedClauses DEF Of
  <1> QED BY <1>2, <1>3, <1>4 DEF t

\* 0009: the tickets.
TicketTable ==
  LET t == "ticket" IN
  Pk(t) \cup Created(t) \cup Updated(t) \cup OrgId(t)
    \cup Required(t, {"chatbot_id", "conversation_id", "visitor_email", "status", "priority", "source"})
    \cup Optional(t, {"visitor_name", "subject", "escalation_reason", "assigned_to", "resolved_at"})
    \cup References(t, "CASCADE", {<<"chatbot_id", "chatbot">>, <<"conversation_id", "conversation">>})
    \cup References(t, "SET NULL", {<<"assigned_to", "app_user">>})
    \cup OneOf(t, "status", {"open", "pending", "resolved", "closed"})
    \cup OneOf(t, "priority", {"low", "normal", "high", "urgent"})
    \cup OneOf(t, "source", {"ai_escalation", "visitor_contact_form"})

\* They are the model's.
LEMMA TicketIs == Of(Model!Ticket, "ticket") /\ Model!Ticket = TicketTable
  <1> DEFINE t == "ticket"
             id == {"id"}
             a1 == {"chatbot_id", "conversation_id", "visitor_email", "status", "priority", "source"}
             a2 == {"visitor_name", "subject", "escalation_reason", "assigned_to", "resolved_at"}
             a3 == {<<"chatbot_id", "chatbot">>, <<"conversation_id", "conversation">>}
             a4 == {<<"assigned_to", "app_user">>}
             c1 == "status"
             c2 == "priority"
             c3 == "source"
             w1 == {"open", "pending", "resolved", "closed"}
             w2 == {"low", "normal", "high", "urgent"}
             w3 == {"ai_escalation", "visitor_contact_form"}
             A == Pk(t) \cup Created(t) \cup Updated(t) \cup OrgId(t)
                    \cup Required(t, a1) \cup Optional(t, a2)
                    \cup References(t, "CASCADE", a3) \cup References(t, "SET NULL", a4)
                    \cup OneOf(t, c1, w1) \cup OneOf(t, c2, w2) \cup OneOf(t, c3, w3)
  <1>1. Model!Ticket =
          Model!Table(t, id) \cup Model!UUIDPrimaryKeyMixin(t) \cup Model!OrgScopedMixin(t)
            \cup Model!TimestampMixin(t) \cup Model!Required(t, a1) \cup Model!Optional(t, a2)
            \cup Model!References(t, "CASCADE", a3) \cup Model!References(t, "SET NULL", a4)
            \cup Model!enum_check(t, c1, w1) \cup Model!enum_check(t, c2, w2)
            \cup Model!enum_check(t, c3, w3)
    BY DEF Model!Ticket, Model!TicketStatus, Model!TicketPriority, Model!TicketSource
  <1>2. TicketTable = A
    BY DEF TicketTable
  <1>3. \A f : f \in Pk(t) <=> f \in Table(t, id) \/ f \in Model!UUIDPrimaryKeyMixin(t)
    BY MixinsAre
  <1> HIDE DEF t, id, a1, a2, a3, a4, c1, c2, c3, w1, w2, w3
  <1>4. Model!Ticket = A
    BY <1>1, <1>3, ClausesAre, MixinsAre
  <1>5. Of(A, t)
    BY Located, IncludedClauses DEF Of
  <1> QED BY <1>2, <1>4, <1>5 DEF t

\* Indexes and partitions are what the comparison passes over.
LEMMA Excluded ==
  /\ \A t : \A f \in Hnsw(t) \cup Policy(t) : ~IncludeObject(f)
  /\ \A t, p, w : \A f \in Partition(t, p, w) : ~IncludeObject(f)
  BY HnswIs, PolicyIs, PartitionIs DEF IncludeObject

\* The key column and its default, from the mixin or in the list.
KeyListed(a, b) == a = {"id"} \cup b

KeyDefaulted(x, y) == x = {<<"id", "uuid">>} \cup y

LEMMA KeyColumn ==
  ASSUME NEW t, NEW x, NEW y, NEW a, NEW b, KeyDefaulted(x, y), KeyListed(a, b)
  PROVE  \A f : f \in Required(t, a) \cup Defaults(t, x) <=>
                f \in Model!UUIDPrimaryKeyMixin(t) \cup Required(t, b) \cup Defaults(t, y)
  <1> DEFINE i == {"id"}
             u == {<<"id", "uuid">>}
  <1>1. Model!UUIDPrimaryKeyMixin(t) = Model!Required(t, i) \cup Model!Defaults(t, u)
    BY DEF Model!UUIDPrimaryKeyMixin
  <1>2. u \cup y = x /\ i \cup b = a
    BY DEF KeyDefaulted, KeyListed
  <1> HIDE DEF i, u
  <1>3. Required(t, a) = Required(t, i) \cup Required(t, b) /\ Defaults(t, x) = Defaults(t, u) \cup Defaults(t, y)
    BY <1>2, Joined
  <1> QED BY <1>1, <1>3, ClausesAre

\* 0008: the chunks of the models, their partitions and indexes aside.
LEMMA ChunksAreModel ==
  /\ Of(Model!DocumentChunk, "document_chunk")
  /\ \A f : IncludeObject(f) => (f \in PartitionedChunks <=> f \in Model!DocumentChunk)
  <1> DEFINE t == "document_chunk"
             key == {"id", "embedding_dim"}
             p1 == <<"id", "uuid">>
             p2 == <<"token_count", "0">>
             p3 == <<"metadata_json", "{}">>
             x == {p1, p2, p3}
             y == {p2, p3}
             a == {"id", "document_id", "chatbot_id", "chunk_index", "content",
                   "token_count", "embedding_dim", "embedding", "metadata_json"}
             b == {"document_id", "chatbot_id", "chunk_index", "content", "token_count",
                   "embedding_dim", "embedding", "metadata_json"}
             q == {<<"document_id", "document">>, <<"chatbot_id", "chatbot">>}
             k == {"document_id", "chunk_index", "embedding_dim"}
             B == UNION {Partition(t, ChunkPartition(w), w) : w \in Dimensions \cup {Default}}
             C == UNION {Hnsw(ChunkPartition(w)) : w \in Dimensions}
             A == Table(t, key) \cup Created(t) \cup OrgId(t) \cup Required(t, a)
                    \cup Defaults(t, x) \cup References(t, "CASCADE", q) \cup Unique(t, k)
  <1>1. Model!DocumentChunk =
          Model!Table(t, key) \cup Model!UUIDPrimaryKeyMixin(t) \cup Model!OrgScopedMixin(t)
            \cup Model!CreatedAtMixin(t) \cup Model!Required(t, b) \cup Model!Defaults(t, y)
            \cup Model!References(t, "CASCADE", q) \cup Model!Unique(t, k)
    BY DEF Model!DocumentChunk
  <1>2. PartitionedChunks = A \cup B \cup C
    BY DEF PartitionedChunks
  <1>3. \A f \in B \cup C : ~IncludeObject(f)
    BY Excluded
  <1>4. KeyListed(a, b)
    BY DEF KeyListed
  <1>5. KeyDefaulted(x, y)
    <2> HIDE DEF p2, p3
    <2> QED BY DEF KeyDefaulted
  <1> HIDE DEF a, b, x, y
  <1>6. \A f : f \in Required(t, a) \cup Defaults(t, x) <=>
               f \in Model!UUIDPrimaryKeyMixin(t) \cup Required(t, b) \cup Defaults(t, y)
    BY <1>4, <1>5, KeyColumn
  <1> HIDE DEF t, key, q, k, B, C, p1, p2, p3
  <1>7. Model!DocumentChunk = A
    BY <1>1, <1>6, ClausesAre, MixinsAre
  <1>8. Of(A, t)
    BY Located, IncludedClauses DEF Of
  <1> HIDE DEF A
  <1>9. \A f : IncludeObject(f) => (f \in PartitionedChunks <=> f \in A)
    BY <1>2, <1>3
  <1> QED BY <1>7, <1>8, <1>9 DEF t

\* 0012: the notes about a visitor, likewise.
LEMMA NotesAreModel ==
  /\ Of(Model!MemoryEntry, "memory_entry")
  /\ \A f : IncludeObject(f) => (f \in PartitionedMemory <=> f \in Model!MemoryEntry)
  <1> DEFINE t == "memory_entry"
             key == {"id", "embedding_dim"}
             p1 == <<"id", "uuid">>
             p2 == <<"subject_type", "visitor">>
             p3 == <<"memory_type", "fact">>
             p4 == <<"last_referenced_at", "now">>
             x == {p1, p2, p3, p4}
             y == {p2, p3, p4}
             a == {"id", "chatbot_id", "subject_id", "subject_type", "content",
                   "memory_type", "embedding_dim", "embedding", "last_referenced_at"}
             b == {"chatbot_id", "subject_id", "subject_type", "content", "memory_type",
                   "embedding_dim", "embedding", "last_referenced_at"}
             o == {"source_conversation_id"}
             q == {<<"chatbot_id", "chatbot">>}
             r == {<<"source_conversation_id", "conversation">>}
             c1 == "subject_type"
             c2 == "memory_type"
             w1 == {"visitor", "staff_user"}
             w2 == {"preference", "fact", "context"}
             B == UNION {Partition(t, MemoryPartition(w), w) : w \in Dimensions \cup {Default}}
             C == UNION {Hnsw(MemoryPartition(w)) : w \in Dimensions}
             A == Table(t, key) \cup Created(t) \cup OrgId(t) \cup Required(t, a)
                    \cup Optional(t, o) \cup Defaults(t, x) \cup References(t, "CASCADE", q)
                    \cup References(t, "SET NULL", r) \cup OneOf(t, c1, w1) \cup OneOf(t, c2, w2)
  <1>1. Model!MemoryEntry =
          Model!Table(t, key) \cup Model!UUIDPrimaryKeyMixin(t) \cup Model!OrgScopedMixin(t)
            \cup Model!CreatedAtMixin(t) \cup Model!Required(t, b) \cup Model!Optional(t, o)
            \cup Model!Defaults(t, y) \cup Model!References(t, "CASCADE", q)
            \cup Model!References(t, "SET NULL", r) \cup Model!enum_check(t, c1, w1)
            \cup Model!enum_check(t, c2, w2)
    BY DEF Model!MemoryEntry, Model!MemorySubjectType, Model!MemoryType
  <1>2. PartitionedMemory = A \cup B \cup C
    BY DEF PartitionedMemory
  <1>3. \A f \in B \cup C : ~IncludeObject(f)
    BY Excluded
  <1>4. KeyListed(a, b)
    BY DEF KeyListed
  <1>5. KeyDefaulted(x, y)
    <2> HIDE DEF p2, p3, p4
    <2> QED BY DEF KeyDefaulted
  <1> HIDE DEF a, b, x, y, t, key, q, r, o, c1, c2, w1, w2, A, B, C, p1, p2, p3, p4
  <1>6. \A f : f \in Required(t, a) \cup Defaults(t, x) <=>
               f \in Model!UUIDPrimaryKeyMixin(t) \cup Required(t, b) \cup Defaults(t, y)
    BY ONLY <1>4, <1>5, KeyColumn
  <1>7. Model!MemoryEntry = A
    BY <1>1, <1>6, ClausesAre, MixinsAre DEF A
  <1>8. Of(A, t)
    BY Located, IncludedClauses DEF Of, A
  <1>9. \A f : IncludeObject(f) => (f \in PartitionedMemory <=> f \in A)
    BY <1>2, <1>3
  <1> QED BY <1>7, <1>8, <1>9 DEF t

\* The two tables whose check is swapped: the first form with the last list.
SwappedFrom(A, B, t, n) == \A f : f \in B <=> f = ListFact(t, n) \/ (f \in A /\ ~IsList(f, t))

\* The document of 0002, with the file types of 0004.
LEMMA DocumentIsModel ==
  /\ Of(Model!Document, "document")
  /\ SwappedFrom(InitialDocument, Model!Document, "document", 4)
  <1> DEFINE t == "document"
             id == {"id"}
             a1 == {"chatbot_id", "filename", "file_type", "content_type", "storage_path",
                    "size_bytes", "chunk_count", "status"}
             a2 == {"checksum_sha256", "error_message", "uploaded_by"}
             a3 == {<<"chunk_count", "0">>}
             a4 == {<<"chatbot_id", "chatbot">>}
             a5 == {<<"uploaded_by", "app_user">>}
             c1 == "status"
             c2 == "file_type"
             w1 == {"pending", "processing", "ready", "failed"}
             w2 == {"pdf", "docx", "md", "mdx", "txt"}
             w3 == {"pdf", "docx", "md", "txt"}
             L == Pk(t) \cup Created(t) \cup Updated(t) \cup OrgId(t) \cup Required(t, a1)
                    \cup Optional(t, a2) \cup Defaults(t, a3) \cup References(t, "CASCADE", a4)
                    \cup References(t, "SET NULL", a5)
             S == OneOf(t, c1, w1)
  <1>1. Model!Document =
          Model!Table(t, id) \cup Model!UUIDPrimaryKeyMixin(t) \cup Model!OrgScopedMixin(t)
            \cup Model!TimestampMixin(t) \cup Model!Required(t, a1) \cup Model!Optional(t, a2)
            \cup Model!Defaults(t, a3) \cup Model!References(t, "CASCADE", a4)
            \cup Model!References(t, "SET NULL", a5)
            \cup Model!enum_check(t, c1, w1) \cup Model!enum_check(t, c2, w2)
    BY DEF Model!Document, Model!DocumentStatus, Model!FileType
  <1>2. InitialDocument = L \cup S \cup OneOf(t, c2, w3)
    BY DEF InitialDocument
  <1>3. \A f : f \in Pk(t) <=> f \in Table(t, id) \/ f \in Model!UUIDPrimaryKeyMixin(t)
    BY MixinsAre
  <1>4. ListFact(t, 4) = <<"words", t, c2, w2>>
    <2>1. Listed(t) = c2 /\ WordsOf(t, 4) = w2
      BY DEF Listed, WordsOf, FileTypes
    <2> QED BY <2>1 DEF ListFact
  <1>5. /\ \A f \in OneOf(t, c2, w2) : f = ListFact(t, 4)
        /\ ListFact(t, 4) \in OneOf(t, c2, w2)
        /\ \A f \in OneOf(t, c2, w3) : IsList(f, t)
        /\ \A f \in S : ~IsList(f, t)
    BY <1>4 DEF OneOf, IsList, Listed
  <1> HIDE DEF t, id, a1, a2, a3, a4, a5, c1, c2, w1, w2, w3
  <1>6. Model!Document = L \cup S \cup OneOf(t, c2, w2)
    BY <1>1, <1>3, ClausesAre, MixinsAre
  <1>7. Of(L, t) /\ Of(S, t) /\ Of(OneOf(t, c2, w2), t) /\ \A f \in L : Unlisted(f)
    BY Located, IncludedClauses DEF Of
  <1>8. \A f \in L : ~IsList(f, t)
    BY <1>7 DEF Unlisted, IsList
  <1> HIDE DEF L, S
  <1>9. SwappedFrom(InitialDocument, Model!Document, t, 4)
    BY <1>2, <1>5, <1>6, <1>8 DEF SwappedFrom
  <1> QED BY <1>6, <1>7, <1>9 DEF t, Of

\* The messages of 0002, whose table 0009 extends as well.
FirstMessages ==
  LET t == "message" IN
  Pk(t) \cup Created(t) \cup OrgId(t)
    \cup Required(t, {"conversation_id", "chatbot_id", "role", "content"})
    \cup Optional(t, {"sources_json", "prompt_tokens", "completion_tokens", "latency_ms"})
    \cup References(t, "CASCADE", {<<"conversation_id", "conversation">>, <<"chatbot_id", "chatbot">>})
    \cup OneOf(t, "role", {"user", "assistant"})

\* The last block of 0002 is the conversations and the first messages.
LEMMA ConversationsSplit == InitialConversations = Model!Conversation \cup FirstMessages
  <1> DEFINE M == FirstMessages
             c == "conversation"
             x1 == Pk(c)
             x2 == Created(c)
             x3 == Updated(c)
             x4 == OrgId(c)
             x5 == Required(c, {"chatbot_id", "external_session_id", "message_count"})
             x6 == Optional(c, {"title"})
             x7 == Defaults(c, {<<"message_count", "0">>})
             x8 == References(c, "CASCADE", {<<"chatbot_id", "chatbot">>})
             x9 == Unique(c, {"chatbot_id", "external_session_id"})
             t == "message"
             y1 == Pk(t)
             y2 == Created(t)
             y3 == OrgId(t)
             y4 == Required(t, {"conversation_id", "chatbot_id", "role", "content"})
             y5 == Optional(t, {"sources_json", "prompt_tokens", "completion_tokens", "latency_ms"})
             y6 == References(t, "CASCADE", {<<"conversation_id", "conversation">>, <<"chatbot_id", "chatbot">>})
             y7 == OneOf(t, "role", {"user", "assistant"})
  <1>1. M = y1 \cup y2 \cup y3 \cup y4 \cup y5 \cup y6 \cup y7
    BY DEF FirstMessages
  <1>2. Model!Conversation = x1 \cup x2 \cup x3 \cup x4 \cup x5 \cup x6 \cup x7 \cup x8 \cup x9
    BY ConversationIs
  <1>3. InitialConversations = x1 \cup x2 \cup x3 \cup x4 \cup x5 \cup x6 \cup x7 \cup x8 \cup x9
                                 \cup y1 \cup y2 \cup y3 \cup y4 \cup y5 \cup y6 \cup y7
    BY DEF InitialConversations
  <1> HIDE DEF M, x1, x2, x3, x4, x5, x6, x7, x8, x9, y1, y2, y3, y4, y5, y6, y7
  <1>4. InitialConversations = Model!Conversation \cup M
    BY <1>1, <1>2, <1>3
  <1> QED BY <1>4 DEF M

\* The message of 0002, with the roles of 0009 and the author of a staff reply.
LEMMA MessageIsModel ==
  /\ Of(Model!Message, "message")
  /\ \A f : f \in Model!Message <=> \/ f = ListFact("message", 9)
                                    \/ f \in FirstMessages /\ ~IsList(f, "message")
                                    \/ f \in StaffAuthor
  <1> DEFINE t == "message"
             id == {"id"}
             a1 == {"conversation_id", "chatbot_id", "role", "content"}
             a2 == {"staff_user_id", "sources_json", "prompt_tokens", "completion_tokens", "latency_ms"}
             b1 == {"sources_json", "prompt_tokens", "completion_tokens", "latency_ms"}
             b2 == {"staff_user_id"}
             a3 == {<<"conversation_id", "conversation">>, <<"chatbot_id", "chatbot">>}
             a4 == {<<"staff_user_id", "app_user">>}
             c1 == "role"
             w1 == {"user", "assistant"}
             w2 == {"user", "assistant", "staff"}
             L == Pk(t) \cup Created(t) \cup OrgId(t) \cup Required(t, a1) \cup Optional(t, b1)
                    \cup References(t, "CASCADE", a3)
             S == Optional(t, b2) \cup References(t, "SET NULL", a4)
  <1>1. Model!Message =
          Model!Table(t, id) \cup Model!UUIDPrimaryKeyMixin(t) \cup Model!OrgScopedMixin(t)
            \cup Model!CreatedAtMixin(t) \cup Model!Required(t, a1) \cup Model!Optional(t, a2)
            \cup Model!References(t, "CASCADE", a3) \cup Model!References(t, "SET NULL", a4)
            \cup Model!enum_check(t, c1, w2)
    BY DEF Model!Message, Model!MessageRole
  <1>2. FirstMessages = L \cup OneOf(t, c1, w1)
    BY DEF FirstMessages
  <1>3. \A f : f \in Pk(t) <=> f \in Table(t, id) \/ f \in Model!UUIDPrimaryKeyMixin(t)
    BY MixinsAre
  <1>4. ListFact(t, 9) = <<"words", t, c1, w2>>
    <2>1. Listed(t) = c1 /\ WordsOf(t, 9) = w2
      BY DEF Listed, WordsOf, Roles
    <2> QED BY <2>1 DEF ListFact
  <1>5. /\ \A f \in OneOf(t, c1, w2) : f = ListFact(t, 9)
        /\ ListFact(t, 9) \in OneOf(t, c1, w2)
        /\ \A f \in OneOf(t, c1, w1) : IsList(f, t)
    BY <1>4 DEF OneOf, IsList, Listed
  <1>6. a2 = b1 \cup b2
    OBVIOUS
  <1>7. StaffAuthor = S
    BY DEF StaffAuthor
  <1> HIDE DEF t, id, a1, a2, b1, b2, a3, a4, c1, w1, w2
  <1>8. Optional(t, a2) = Optional(t, b1) \cup Optional(t, b2)
    BY <1>6, Joined
  <1>9. Model!Message = L \cup S \cup OneOf(t, c1, w2)
    BY <1>1, <1>3, <1>8, ClausesAre, MixinsAre
  <1>10. Of(L, t) /\ Of(S, t) /\ Of(OneOf(t, c1, w2), t) /\ \A f \in L : Unlisted(f)
    BY Located, IncludedClauses DEF Of
  <1>11. \A f \in L : ~IsList(f, t)
    BY <1>10 DEF Unlisted, IsList
  <1> HIDE DEF L, S
  <1>12. \A f : f \in Model!Message <=> \/ f = ListFact(t, 9)
                                        \/ f \in FirstMessages /\ ~IsList(f, t)
                                        \/ f \in StaffAuthor
    BY <1>2, <1>5, <1>7, <1>9, <1>11
  <1> QED BY <1>9, <1>10, <1>12 DEF t, Of

\* The chatbots of 0002, to which six revisions add columns.
FirstChatbots ==
  LET t == "chatbot" IN
  Pk(t) \cup Created(t) \cup Updated(t) \cup OrgId(t)
    \cup Required(t, {"name", "slug", "system_prompt", "model_config_json",
                      "allowed_origins", "public_key", "secret_key_hash", "status"})
    \cup Optional(t, {"description"})
    \cup Defaults(t, {<<"model_config_json", "{}">>, <<"allowed_origins", "[]">>})
    \cup Unique(t, {"org_id", "slug"}) \cup Unique(t, {"public_key"})
    \cup OneOf(t, "status", {"active", "paused", "archived"})

\* The first block of 0002 is the organisations, the colleagues and the first chatbots.
LEMMA TenantsSplit == InitialTenants = Model!Organization \cup Model!User \cup FirstChatbots
  <1> DEFINE F == FirstChatbots
             o == "organization"
             x1 == Pk(o)
             x2 == Created(o)
             x3 == Updated(o)
             x4 == Required(o, {"name", "slug", "plan"})
             x5 == Unique(o, {"slug"})
             x6 == OneOf(o, "plan", {"free", "pro", "enterprise"})
             v == "app_user"
             y1 == Pk(v)
             y2 == Created(v)
             y3 == Updated(v)
             y4 == OrgId(v)
             y5 == Required(v, {"email", "hashed_password", "role", "is_active"})
             y6 == Optional(v, {"full_name"})
             y7 == Unique(v, {"email"})
             y8 == OneOf(v, "role", {"owner", "admin", "member"})
             t == "chatbot"
             z1 == Pk(t)
             z2 == Created(t)
             z3 == Updated(t)
             z4 == OrgId(t)
             z5 == Required(t, {"name", "slug", "system_prompt", "model_config_json",
                                "allowed_origins", "public_key", "secret_key_hash", "status"})
             z6 == Optional(t, {"description"})
             z7 == Defaults(t, {<<"model_config_json", "{}">>, <<"allowed_origins", "[]">>})
             z8 == Unique(t, {"org_id", "slug"})
             z9 == Unique(t, {"public_key"})
             z10 == OneOf(t, "status", {"active", "paused", "archived"})
  <1>1. F = z1 \cup z2 \cup z3 \cup z4 \cup z5 \cup z6 \cup z7 \cup z8 \cup z9 \cup z10
    BY DEF FirstChatbots
  <1>2. Model!Organization = x1 \cup x2 \cup x3 \cup x4 \cup x5 \cup x6
    BY OrganizationIs
  <1>3. Model!User = y1 \cup y2 \cup y3 \cup y4 \cup y5 \cup y6 \cup y7 \cup y8
    BY UserIs
  <1>4. InitialTenants = x1 \cup x2 \cup x3 \cup x4 \cup x5 \cup x6
                           \cup y1 \cup y2 \cup y3 \cup y4 \cup y5 \cup y6 \cup y7 \cup y8
                           \cup z1 \cup z2 \cup z3 \cup z4 \cup z5 \cup z6 \cup z7 \cup z8 \cup z9 \cup z10
    BY DEF InitialTenants
  <1> HIDE DEF F, x1, x2, x3, x4, x5, x6, y1, y2, y3, y4, y5, y6, y7, y8,
               z1, z2, z3, z4, z5, z6, z7, z8, z9, z10
  <1>5. InitialTenants = Model!Organization \cup Model!User \cup F
    BY <1>1, <1>2, <1>3, <1>4
  <1> QED BY <1>5 DEF F

\* The columns 0006, 0010, 0011, 0012, 0014 and 0015 add.
Theme == Required("chatbot", {"theme_json"}) \cup Defaults("chatbot", {<<"theme_json", "{}">>})
Retention == Optional("chatbot", {"retention_days"}) \cup Between("chatbot", "retention_days", 1, 3650)
Links ==
  Required("chatbot", {"privacy_url", "terms_url"})
    \cup Defaults("chatbot", {<<"privacy_url", "">>, <<"terms_url", "">>})
MemoryWindow ==
  Optional("chatbot", {"nuvrag_mem_retention_days"})
    \cup Between("chatbot", "nuvrag_mem_retention_days", 1, 3650)
Caps ==
  Optional("chatbot", CapColumns)
    \cup (UNION {Between("chatbot", c, 1, CapMax) : c \in CapColumns})
    \cup Required("chatbot", {"usage_cap_message"})
    \cup Defaults("chatbot", {<<"usage_cap_message", "the default message">>})
Floors ==
  Optional("chatbot", ThresholdColumns \cup {TimestampColumn})
    \cup (UNION {Between("chatbot", c, 0, 1) : c \in ThresholdColumns})

\* One check per column of a list.
LEMMA TwoRanges ==
  \A t, a, b, lo, hi : UNION {Between(t, c, lo, hi) : c \in {a, b}} = Between(t, a, lo, hi) \cup Between(t, b, lo, hi)
  OBVIOUS

\* The models' name for them.
LEMMA ModelRanges ==
  \A t, C, lo, hi : UNION {Model!Between(t, c, lo, hi) : c \in C} = UNION {Between(t, c, lo, hi) : c \in C}
  BY ClausesAre

\* All of them, in the order of the revisions.
ColumnsOfChatbot == Theme \cup Retention \cup Links \cup MemoryWindow \cup Caps \cup Floors

\* The chatbot of 0002, with every column added since.
LEMMA ChatbotIsModel ==
  /\ Of(Model!Chatbot, "chatbot")
  /\ Model!Chatbot = FirstChatbots \cup ColumnsOfChatbot
  <1> DEFINE t == "chatbot"
             id == {"id"}
             r1 == {"name", "slug", "system_prompt", "model_config_json",
                    "allowed_origins", "public_key", "secret_key_hash", "status"}
             r2 == {"theme_json"}
             r3 == {"privacy_url", "terms_url"}
             r4 == {"usage_cap_message"}
             r == {"name", "slug", "system_prompt", "model_config_json", "allowed_origins",
                   "theme_json", "usage_cap_message", "privacy_url", "terms_url",
                   "public_key", "secret_key_hash", "status"}
             o1 == {"description"}
             o2 == {"retention_days"}
             o3 == {"nuvrag_mem_retention_days"}
             o4 == CapColumns
             o5 == ThresholdColumns \cup {TimestampColumn}
             o == {"description", "retention_days", "nuvrag_mem_retention_days",
                   "nuvrag_mem_similarity_override", "nuvrag_mem_similarity_calibrated",
                   "nuvrag_mem_similarity_calibrated_at", "monthly_ingestion_unit_cap",
                   "monthly_retrieval_call_cap"}
             p1 == <<"model_config_json", "{}">>
             p2 == <<"allowed_origins", "[]">>
             p3 == <<"theme_json", "{}">>
             p4 == <<"privacy_url", "">>
             p5 == <<"terms_url", "">>
             p6 == <<"usage_cap_message", "the default message">>
             d1 == {p1, p2}
             d2 == {p3}
             d3 == {p4, p5}
             d4 == {p6}
             d == {p1, p2, p3, p4, p5, p6}
             u1 == {"org_id", "slug"}
             u2 == {"public_key"}
             c1 == "status"
             w1 == {"active", "paused", "archived"}
             m == 1000000000
             e1 == "retention_days"
             e2 == "nuvrag_mem_retention_days"
             e == {e1, e2}
             B1 == Between(t, e1, 1, 3650)
             B2 == Between(t, e2, 1, 3650)
             B3 == UNION {Between(t, c, 1, m) : c \in CapColumns}
             B4 == UNION {Between(t, c, 0, 1) : c \in ThresholdColumns}
             L == Pk(t) \cup Created(t) \cup Updated(t) \cup OrgId(t) \cup Required(t, r)
                    \cup Optional(t, o) \cup Defaults(t, d) \cup Unique(t, u1) \cup Unique(t, u2)
                    \cup OneOf(t, c1, w1)
             A == L \cup B1 \cup B2 \cup B3 \cup B4
  <1>1. /\ CapColumns = {"monthly_ingestion_unit_cap", "monthly_retrieval_call_cap"}
        /\ ThresholdColumns = {"nuvrag_mem_similarity_override", "nuvrag_mem_similarity_calibrated"}
        /\ TimestampColumn = "nuvrag_mem_similarity_calibrated_at"
        /\ CapMax = m /\ Model!USAGE_CAP_MAX = m
    BY DEF CapColumns, ThresholdColumns, TimestampColumn, CapMax, Model!USAGE_CAP_MAX
  <1>2. Model!Chatbot =
          Model!Table(t, id) \cup Model!UUIDPrimaryKeyMixin(t) \cup Model!OrgScopedMixin(t)
            \cup Model!TimestampMixin(t) \cup Model!Required(t, r) \cup Model!Optional(t, o)
            \cup Model!Defaults(t, d) \cup Model!Unique(t, u1) \cup Model!Unique(t, u2)
            \cup Model!enum_check(t, c1, w1)
            \cup (UNION {Model!Between(t, c, 1, 3650) : c \in e})
            \cup (UNION {Model!Between(t, c, 1, m) : c \in CapColumns})
            \cup (UNION {Model!Between(t, c, 0, 1) : c \in ThresholdColumns})
    BY DEF Model!Chatbot, Model!ChatbotStatus, Model!USAGE_CAP_MAX, CapColumns, ThresholdColumns
  <1>3. FirstChatbots =
          Pk(t) \cup Created(t) \cup Updated(t) \cup OrgId(t) \cup Required(t, r1)
            \cup Optional(t, o1) \cup Defaults(t, d1) \cup Unique(t, u1) \cup Unique(t, u2)
            \cup OneOf(t, c1, w1)
    BY DEF FirstChatbots
  <1>4. /\ Theme = Required(t, r2) \cup Defaults(t, d2)
        /\ Retention = Optional(t, o2) \cup B1
        /\ Links = Required(t, r3) \cup Defaults(t, d3)
        /\ MemoryWindow = Optional(t, o3) \cup B2
    BY DEF Theme, Retention, Links, MemoryWindow
  <1>5. /\ Caps = Optional(t, o4) \cup B3 \cup Required(t, r4) \cup Defaults(t, d4)
        /\ Floors = Optional(t, o5) \cup B4
    BY DEF Caps, Floors, CapMax
  <1>6. \A f : f \in Pk(t) <=> f \in Table(t, id) \/ f \in Model!UUIDPrimaryKeyMixin(t)
    BY MixinsAre
  <1>7. r = (r1 \cup r2) \cup (r3 \cup r4)
    OBVIOUS
  <1>8. o = ((o1 \cup o2) \cup o3) \cup (o4 \cup o5)
    BY <1>1
  <1>9. d = (d1 \cup d2) \cup (d3 \cup d4)
    <2> HIDE DEF p1, p2, p3, p4, p5, p6
    <2> QED OBVIOUS
  <1>10. UNION {Model!Between(t, c, 1, 3650) : c \in e} = B1 \cup B2
    <2>1. UNION {Between(t, c, 1, 3650) : c \in e} = B1 \cup B2
      <3> HIDE DEF t, e1, e2
      <3> QED BY TwoRanges
    <2>2. UNION {Model!Between(t, c, 1, 3650) : c \in e} = UNION {Between(t, c, 1, 3650) : c \in e}
      <3> HIDE DEF t, e
      <3> QED BY ModelRanges
    <2> QED BY <2>1, <2>2
  <1>11. /\ UNION {Model!Between(t, c, 1, m) : c \in CapColumns} = B3
         /\ UNION {Model!Between(t, c, 0, 1) : c \in ThresholdColumns} = B4
    BY ModelRanges
  <1>12. Of(B1, t) /\ Of(B2, t) /\ Of(B3, t) /\ Of(B4, t)
    <2> HIDE DEF t, e1, e2, m
    <2> QED BY Located, IncludedClauses DEF Of
  <1> HIDE DEF t, id, r1, r2, r3, r4, r, o1, o2, o3, o4, o5, o, d1, d2, d3, d4, d, u1, u2, c1, w1, e,
               m, B1, B2, B3, B4
  <1>13. Of(L, t)
    BY Located, IncludedClauses DEF Of
  <1>14. Required(t, r) = (Required(t, r1) \cup Required(t, r2)) \cup (Required(t, r3) \cup Required(t, r4))
    <2>1. Required(t, r) = Required(t, r1 \cup r2) \cup Required(t, r3 \cup r4)
      BY <1>7, Joined
    <2> QED BY <2>1, Joined
  <1>15. Optional(t, o) = ((Optional(t, o1) \cup Optional(t, o2)) \cup Optional(t, o3))
                             \cup (Optional(t, o4) \cup Optional(t, o5))
    <2>1. Optional(t, o) = Optional(t, (o1 \cup o2) \cup o3) \cup Optional(t, o4 \cup o5)
      BY <1>8, Joined
    <2>2. Optional(t, (o1 \cup o2) \cup o3) = Optional(t, o1 \cup o2) \cup Optional(t, o3)
      BY Joined
    <2> QED BY <2>1, <2>2, Joined
  <1>16. Defaults(t, d) = (Defaults(t, d1) \cup Defaults(t, d2)) \cup (Defaults(t, d3) \cup Defaults(t, d4))
    <2>1. Defaults(t, d) = Defaults(t, d1 \cup d2) \cup Defaults(t, d3 \cup d4)
      BY <1>9, Joined
    <2> QED BY <2>1, Joined
  <1>17. Model!Chatbot = A
    BY <1>2, <1>6, <1>10, <1>11, ClausesAre, MixinsAre
  <1>18. Of(A, t)
    BY <1>12, <1>13 DEF Of
  <1>19. A = FirstChatbots \cup ColumnsOfChatbot
    BY <1>3, <1>4, <1>5, <1>14, <1>15, <1>16 DEF ColumnsOfChatbot
  <1> QED BY <1>17, <1>18, <1>19 DEF t

-----------------------------------------------------------------------------
\* What adds no other policy keeps them.
LEMMA CoversMore ==
  ASSUME NEW s, NEW u, NEW B, Covers(s), Covers(B), Aside(s, u, B)
  PROVE  Covers(u)
  <1> SUFFICES ASSUME NEW f \in u, f[1] = "policy", f[2] \notin Tenants
               PROVE  \E g \in u : g[1] = "partition" /\ g[2] = f[2] /\ g[3] \in Tenants
    BY DEF Covers
  <1>1. f \in s \/ f \in B
    BY DEF Aside, IncludeObject
  <1>2. PICK g \in s \cup B : g[1] = "partition" /\ g[2] = f[2] /\ g[3] \in Tenants
    BY <1>1 DEF Covers
  <1>3. g \in u
    BY <1>2 DEF Aside, IncludeObject
  <1> QED BY <1>2, <1>3

LEMMA CoversNothing == Covers({})
  BY DEF Covers

LEMMA CoversPolicies == \A T : T \subseteq Tenants => Covers(Policies(T))
  BY PoliciesAre DEF Covers

LEMMA CoversPolicy == \A t \in Tenants : Covers(Policy(t))
  BY PolicyIs DEF Covers

\* Its vector index has no policy to answer for.
LEMMA CoversIndex == \A t, B : Covers(B) => Covers(B \cup Hnsw(t))
  <1> SUFFICES ASSUME NEW t, NEW B, Covers(B), NEW f \in B \cup Hnsw(t), f[1] = "policy", f[2] \notin Tenants
               PROVE  \E g \in B \cup Hnsw(t) : g[1] = "partition" /\ g[2] = f[2] /\ g[3] \in Tenants
    BY DEF Covers
  <1>1. f \in B
    BY HnswIs
  <1> QED BY <1>1 DEF Covers

\* A partitioned table comes with the policies of its partitions.
LEMMA CoversPartitions ==
  ASSUME NEW A, NEW t \in Tenants, NEW T, Partitioned(A, t, T)
  PROVE  Covers(A \cup Policies(T))
  <1> SUFFICES ASSUME NEW f \in A \cup Policies(T), f[1] = "policy", f[2] \notin Tenants
               PROVE  \E g \in A \cup Policies(T) : g[1] = "partition" /\ g[2] = f[2] /\ g[3] \in Tenants
    BY DEF Covers
  <1>1. f \notin A
    BY DEF Partitioned, Plain
  <1>2. f[2] \in T /\ f[2] # t
    BY <1>1, PoliciesAre
  <1>3. \E g \in A : g[1] = "partition" /\ g[2] = f[2] /\ g[3] = t
    BY <1>2 DEF Partitioned
  <1> QED BY <1>3

\* TENANT_SCOPED_TABLES by name.
LEMMA TenantsAre11 ==
  /\ TenantTables \subseteq Tenants
  /\ {"invitation", "chatbot_ai_config", "document_chunk", "ticket", "memory_entry",
      "chatbot_usage_period"} \subseteq Tenants
  BY DEF Tenants, Model!TENANT_SCOPED_TABLES, TenantTables

-----------------------------------------------------------------------------
\* 0002: the first seven tables and no policy.
LEMMA TwoShows ==
  /\ \A f : IncludeObject(f) =>
       (f \in Up2(Extensions) <=> \/ f \in InitialTenants \/ f \in InitialDocument
                                  \/ f \in InitialChunks \/ f \in InitialConversations)
  /\ Covers(Up2(Extensions))
  <1> DEFINE E == Extensions
             C == InitialChunks
             a == InitialTenants
             b == InitialDocument
             c == InitialConversations
             u == Up2(E)
  <1>1. \A f : f \in u <=> f \in E \/ f \in a \/ f \in b \/ f \in C \/ f \in c
    BY DEF Up2
  <1>2. \A f \in E : ~IncludeObject(f) /\ f[1] # "policy"
    BY ExtensionNames DEF IncludeObject
  <1>3. \A f \in a \cup b \cup c \cup C : f[1] # "policy"
    BY FirstPlaced, ChunksPlaced DEF OfTable, FirstTable
  <1> HIDE DEF u, E, C, a, b, c
  <1>4. \A f : IncludeObject(f) => (f \in u <=> f \in a \/ f \in b \/ f \in C \/ f \in c)
    BY <1>1, <1>2
  <1>5. Covers(u)
    BY <1>1, <1>2, <1>3 DEF Covers
  <1> QED BY <1>4, <1>5 DEF u, E, C, a, b, c

\* 0003: policies and an index, which the comparison does not see.
LEMMA ThreeShows ==
  ASSUME NEW s, Covers(s)
  PROVE  Compared(s, Up3(s), {}) /\ Covers(Up3(s))
  <1> DEFINE P == Policies(TenantTables)
             H == Hnsw("document_chunk")
             u == Up3(s)
  <1>1. \A f : f \in u <=> f \in s \/ f \in P \/ f \in H
    BY DEF Up3, EnableRls, Policies
  <1>2. \A f \in P \cup H : ~IncludeObject(f)
    BY PoliciesAre, HnswIs DEF IncludeObject
  <1>3. Covers(P \cup H)
    BY TenantsAre11, CoversPolicies, CoversIndex
  <1> HIDE DEF P, H, u
  <1>4. Aside(s, u, P \cup H)
    BY <1>1 DEF Aside
  <1>5. Compared(s, u, {})
    BY <1>1, <1>2 DEF Compared
  <1> QED BY <1>3, <1>4, <1>5, CoversMore DEF u

\* A check swapped for another.
LEMMA SwapShows ==
  ASSUME NEW s, NEW t, NEW n
  PROVE  /\ \A f : f \in NewList(s, t, n) <=> f = ListFact(t, n) \/ (f \in s /\ ~IsList(f, t))
         /\ Aside(s, NewList(s, t, n), {})
  <1>1. ListFact(t, n)[1] = "words"
    BY DEF ListFact
  <1>2. \A f : f = ListFact(t, n) \/ IsList(f, t) => IncludeObject(f)
    BY <1>1 DEF IsList, IncludeObject
  <1> QED BY <1>2, NewListHas DEF Aside

\* 0004: one check.
LEMMA FourShows ==
  ASSUME NEW s, Covers(s)
  PROVE  /\ \A f : f \in Up4(s) <=> f = ListFact("document", 4) \/ (f \in s /\ ~IsList(f, "document"))
         /\ Covers(Up4(s))
  <1>1. Up4(s) = NewList(s, "document", 4)
    BY Lists DEF Up4, SwapFileTypes, NewList, Listed
  <1>2. Covers(NewList(s, "document", 4))
    BY SwapShows, CoversMore, CoversNothing
  <1> QED BY <1>1, <1>2, SwapShows

\* A table with its policy.
LEMMA TableShows ==
  ASSUME NEW s, NEW u, NEW t \in Tenants, NEW A, Of(A, t), u = (s \cup A) \cup Policy(t), Covers(s)
  PROVE  Compared(s, u, A) /\ Covers(u)
  <1>1. \A f \in Policy(t) : ~IncludeObject(f)
    BY Excluded
  <1>2. Compared(s, u, A)
    BY <1>1 DEF Compared
  <1>3. Aside(s, u, Policy(t))
    BY DEF Aside, Of
  <1> QED BY <1>2, <1>3, CoversMore, CoversPolicy

\* More columns for the chatbots.
LEMMA ColumnsShow ==
  ASSUME NEW s, NEW u, NEW A, Of(A, "chatbot"), \A f : f \in u <=> f \in s \/ f \in A, Covers(s)
  PROVE  Compared(s, u, A) /\ Covers(u)
  <1>1. Compared(s, u, A)
    BY DEF Compared
  <1>2. Aside(s, u, {})
    BY DEF Aside, Of
  <1> QED BY <1>1, <1>2, CoversMore, CoversNothing

\* The columns are clauses of the chatbots' table.
LEMMA ColumnsLocated ==
  /\ Of(Theme, "chatbot") /\ Of(Retention, "chatbot") /\ Of(Links, "chatbot")
  /\ Of(MemoryWindow, "chatbot") /\ Of(Caps, "chatbot") /\ Of(Floors, "chatbot")
  /\ Of(FirstChatbots, "chatbot")
  BY ChatbotIsModel DEF Of, ColumnsOfChatbot

\* The revisions that do nothing but add them.
LEMMA ColumnRevisions ==
  ASSUME NEW s
  PROVE  /\ \A f : f \in Up6(s) <=> f \in s \/ f \in Theme
         /\ \A f : f \in Up10(s) <=> f \in s \/ f \in Retention
         /\ \A f : f \in Up11(s) <=> f \in s \/ f \in Links
         /\ \A f : f \in Up15(s) <=> f \in s \/ f \in Floors
  <1>1. \A f : f \in Up6(s) <=> f \in s \/ f \in Theme
    <2> DEFINE x == Required("chatbot", {"theme_json"})
               y == Defaults("chatbot", {<<"theme_json", "{}">>})
    <2>1. Up6(s) = (s \cup x) \cup y
      BY DEF Up6
    <2>2. Theme = x \cup y
      BY DEF Theme
    <2> HIDE DEF x, y
    <2> QED BY <2>1, <2>2
  <1>2. \A f : f \in Up10(s) <=> f \in s \/ f \in Retention
    <2> DEFINE x == Optional("chatbot", {"retention_days"})
               y == Between("chatbot", "retention_days", 1, 3650)
    <2>1. Up10(s) = (s \cup x) \cup y
      BY DEF Up10
    <2>2. Retention = x \cup y
      BY DEF Retention
    <2> HIDE DEF x, y
    <2> QED BY <2>1, <2>2
  <1>3. \A f : f \in Up11(s) <=> f \in s \/ f \in Links
    <2> DEFINE x == Required("chatbot", {"privacy_url", "terms_url"})
               y == Defaults("chatbot", {<<"privacy_url", "">>, <<"terms_url", "">>})
    <2>1. Up11(s) = (s \cup x) \cup y
      BY DEF Up11
    <2>2. Links = x \cup y
      BY DEF Links
    <2> HIDE DEF x, y
    <2> QED BY <2>1, <2>2
  <1>4. \A f : f \in Up15(s) <=> f \in s \/ f \in Floors
    <2> DEFINE x == Optional("chatbot", ThresholdColumns \cup {TimestampColumn})
               y == UNION {Between("chatbot", c, 0, 1) : c \in ThresholdColumns}
    <2>1. Up15(s) = (s \cup x) \cup y
      BY DEF Up15
    <2>2. Floors = x \cup y
      BY DEF Floors
    <2> HIDE DEF x, y
    <2> QED BY <2>1, <2>2
  <1> QED BY <1>1, <1>2, <1>3, <1>4

\* 0005 and 0007.
LEMMA FiveShows ==
  ASSUME NEW s, Covers(s)
  PROVE  Compared(s, Up5(s), Model!Invitation) /\ Covers(Up5(s))
  <1> DEFINE t == "invitation"
             A == Model!Invitation
             u == Up5(s)
  <1>1. Of(A, t) /\ u = (s \cup A) \cup Policy(t)
    BY InvitationIs
  <1>2. t \in Tenants
    BY TenantsAre11
  <1> HIDE DEF t, A, u
  <1>3. Compared(s, u, A) /\ Covers(u)
    BY <1>1, <1>2, TableShows
  <1> QED BY <1>3 DEF A, u

LEMMA SevenShows ==
  ASSUME NEW s, Covers(s)
  PROVE  Compared(s, Up7(s), Model!ChatbotAIConfig) /\ Covers(Up7(s))
  <1> DEFINE t == "chatbot_ai_config"
             A == Model!ChatbotAIConfig
             u == Up7(s)
  <1>1. Of(A, t) /\ u = (s \cup A) \cup Policy(t)
    BY AIConfigIs
  <1>2. t \in Tenants
    BY TenantsAre11
  <1> HIDE DEF t, A, u
  <1>3. Compared(s, u, A) /\ Covers(u)
    BY <1>1, <1>2, TableShows
  <1> QED BY <1>3 DEF A, u

\* 0008 drops every clause of the chunks' table and has no other to drop.
LEMMA EightShows ==
  ASSUME NEW s, Sound(s, 7), Covers(s)
  PROVE  /\ \A f : IncludeObject(f) =>
              (f \in Up8(s) <=> f \in Model!DocumentChunk \/ (f \in s /\ f[2] # "document_chunk"))
         /\ Covers(Up8(s))
  <1> DEFINE c == "document_chunk"
             T == ChunkTables
             A == PartitionedChunks
             r == DropTable(s, c)
             u == Up8(s)
             B == A \cup Policies(T)
  <1>1. u = (r \cup A) \cup Policies(T)
    BY DEF Up8, CreatePartitionedChunks, EnableRls, Policies
  <1>2. \A f \in s : f[1] # "partition"
    BY DEF Sound, Fact
  <1>3. \A f : f \in r <=> f \in s /\ f[2] # c
    BY <1>2 DEF DropTable, PartitionsOf, Kind
  <1>4. \A f \in Policies(T) : ~IncludeObject(f)
    BY PoliciesAre DEF IncludeObject
  <1>5. Partitioned(A, c, T) /\ c \in Tenants
    BY ChunksPartitioned, TenantsAre11
  <1>6. \A f : IncludeObject(f) => (f \in A <=> f \in Model!DocumentChunk)
    BY ChunksAreModel
  <1> HIDE DEF T, A, r, u, c
  <1>7. \A f : IncludeObject(f) => (f \in u <=> f \in Model!DocumentChunk \/ (f \in s /\ f[2] # c))
    BY <1>1, <1>3, <1>4, <1>6
  <1>8. Covers(r)
    BY <1>2, <1>3 DEF Covers
  <1>9. Covers(B)
    BY <1>5, CoversPartitions
  <1>10. Aside(r, u, B)
    BY <1>1 DEF Aside
  <1>11. Covers(u)
    <2> HIDE DEF B
    <2> QED BY <1>8, <1>9, <1>10, CoversMore
  <1> QED BY <1>7, <1>11 DEF u, c

\* 0009: the tickets, the swapped list and the author of a staff reply.
LEMMA NineShows ==
  ASSUME NEW s, Covers(s)
  PROVE  /\ \A f : IncludeObject(f) =>
              (f \in Up9(s) <=> \/ f \in StaffAuthor
                                \/ f = ListFact("message", 9)
                                \/ (f \in s \/ f \in Model!Ticket) /\ ~IsList(f, "message"))
         /\ Covers(Up9(s))
  <1> DEFINE t == "ticket"
             m == "message"
             A == TicketTable
             v == s \cup A
             w == EnableRls(v, {t})
             x == NewList(w, m, 9)
             u == Up9(s)
  <1>1. u = x \cup StaffAuthor
    <2> DEFINE S == {"user", "assistant", "staff"}
    <2>1. u = SwapMessageRoles(w, S) \cup StaffAuthor
      BY DEF Up9, TicketTable
    <2>2. x = SwapMessageRoles(w, S)
      <3> HIDE DEF w
      <3> QED BY Lists DEF SwapMessageRoles, NewList, Listed
    <2> HIDE DEF u, x
    <2> QED BY <2>1, <2>2
  <1>2. w = v \cup Policy(t)
    BY RlsOne
  <1>3. Of(A, t) /\ t \in Tenants /\ Model!Ticket = A
    BY TicketIs, TenantsAre11
  <1>4. Of(StaffAuthor, m)
    BY MessageIsModel DEF Of
  <1> HIDE DEF u, t, m, A, w, x
  <1>5. Compared(s, w, A) /\ Covers(w)
    BY <1>2, <1>3, TableShows
  <1>6. \A f : f \in x <=> f = ListFact(m, 9) \/ (f \in w /\ ~IsList(f, m))
    BY SwapShows DEF x
  <1>7. Covers(x)
    BY <1>5, SwapShows, CoversMore, CoversNothing DEF x
  <1>8. Aside(x, u, {})
    BY <1>1, <1>4 DEF Aside, Of
  <1>9. Covers(u)
    BY <1>7, <1>8, CoversMore, CoversNothing
  <1>10. \A f : IncludeObject(f) =>
           (f \in u <=> \/ f \in StaffAuthor
                        \/ f = ListFact(m, 9)
                        \/ (f \in s \/ f \in A) /\ ~IsList(f, m))
    BY <1>1, <1>5, <1>6 DEF Compared
  <1> QED BY <1>3, <1>9, <1>10 DEF u, m

\* 0012 and 0013: the default the first gave the window is gone after the second.
LEMMA ThirteenShows ==
  ASSUME NEW s, Sound(s, 11), Covers(s)
  PROVE  /\ \A f : IncludeObject(f) =>
              (f \in Up13(Up12(s)) <=> f \in s \/ f \in Model!MemoryEntry \/ f \in MemoryWindow)
         /\ Covers(Up13(Up12(s)))
  <1> DEFINE t == "memory_entry"
             T == MemoryTables
             A == PartitionedMemory
             c == "nuvrag_mem_retention_days"
             P == {RetentionDefault}
             D == Defaults("chatbot", P)
             x == Optional("chatbot", {c})
             y == Between("chatbot", c, 1, 3650)
             u == Up12(s)
             v == Up13(u)
             B == A \cup Policies(T)
  <1>1. u = ((((s \cup A) \cup Policies(T)) \cup x) \cup D) \cup y
    BY DEF Up12, EnableRls, Policies
  <1>2. v = u \ D
    BY DEF Up13
  <1>3. MemoryWindow = x \cup y
    BY DEF MemoryWindow
  <1>4. Partitioned(A, t, T) /\ t \in Tenants
    BY NotesPartitioned, TenantsAre11
  <1>5. \A f : IncludeObject(f) => (f \in A <=> f \in Model!MemoryEntry)
    BY NotesAreModel
  <1>6. \A f \in D : f[1] = "default" /\ f[2] = "chatbot" /\ f[3] = c
    <2>1. \A p \in P : p[1] \in {c}
      BY DEF RetentionDefault
    <2>2. \A f \in D : Names3(f, "chatbot", {c})
      <3> HIDE DEF P, c
      <3> QED BY <2>1, DefaultsNames
    <2> HIDE DEF P
    <2> QED BY <2>2, DefaultsIs DEF Names3
  <1>7. ~ColumnBy(c, 11)
    BY ColumnTimes
  <1>8. \A f \in x \cup y : f[1] \in {"column", "range"}
    <2> HIDE DEF c
    <2> QED BY OptionalIs, BetweenIs
  <1>9. "chatbot" \notin T
    BY PartitionTimes
  <1> HIDE DEF T, A, P, D, x, y, u, v, c
  <1>10. \A f \in D : IncludeObject(f) /\ Mentions(f, "chatbot", c)
    BY <1>6 DEF IncludeObject, Mentions
  <1>11. \A f \in D : f \notin s
    <2>1. "chatbot" \in Growing
      BY DEF Growing
    <2> QED BY <1>7, <1>10, <2>1, NoColumnYet
  <1>12. \A f \in D : f \notin A /\ f \notin Policies(T) /\ f \notin x /\ f \notin y
    <2>1. \A f \in A \cup Policies(T) : f[2] \in T
      BY <1>4, PoliciesAre DEF Partitioned
    <2> QED BY <1>6, <1>8, <1>9, <2>1
  <1>13. \A f : f \in v <=> f \in s \/ f \in A \/ f \in Policies(T) \/ f \in MemoryWindow
    BY <1>1, <1>2, <1>3, <1>11, <1>12
  <1>14. \A f \in Policies(T) : ~IncludeObject(f)
    BY PoliciesAre DEF IncludeObject
  <1>15. \A f : IncludeObject(f) => (f \in v <=> f \in s \/ f \in Model!MemoryEntry \/ f \in MemoryWindow)
    BY <1>5, <1>13, <1>14
  <1>16. Covers(v)
    <2>1. Covers(B)
      BY <1>4, CoversPartitions
    <2>2. \A f \in MemoryWindow : IncludeObject(f)
      BY ColumnsLocated DEF Of
    <2>3. Aside(s, v, B)
      BY <1>13, <2>2 DEF Aside
    <2> HIDE DEF B
    <2> QED BY <2>1, <2>3, CoversMore
  <1> QED BY <1>15, <1>16 DEF v, u

\* 0014: the counters of a month, and the caps.
LEMMA FourteenShows ==
  ASSUME NEW s, Covers(s)
  PROVE  /\ \A f : IncludeObject(f) =>
              (f \in Up14(s) <=> f \in s \/ f \in Model!ChatbotUsagePeriod \/ f \in Caps)
         /\ Covers(Up14(s))
  <1> DEFINE t == "chatbot_usage_period"
             A == UsageTable
             w == EnableRls(s \cup A, {t})
             x == Optional("chatbot", CapColumns)
             y == UNION {Between("chatbot", c, 1, CapMax) : c \in CapColumns}
             z == Required("chatbot", {"usage_cap_message"})
             d == Defaults("chatbot", {<<"usage_cap_message", "the default message">>})
             u == Up14(s)
  <1>1. u = w \cup x \cup y \cup z \cup d
    BY DEF Up14, UsageTable
  <1>2. Caps = x \cup y \cup z \cup d
    BY DEF Caps
  <1>3. w = (s \cup A) \cup Policy(t)
    BY RlsOne
  <1>4. Of(A, t) /\ t \in Tenants /\ Model!ChatbotUsagePeriod = A
    BY UsageIs, TenantsAre11
  <1> HIDE DEF t, A, w, x, y, z, d, u
  <1>5. Compared(s, w, A) /\ Covers(w)
    BY <1>3, <1>4, TableShows
  <1>6. \A f : f \in u <=> f \in w \/ f \in Caps
    BY <1>1, <1>2
  <1>7. Compared(w, u, Caps) /\ Covers(u)
    BY <1>5, <1>6, ColumnsLocated, ColumnsShow
  <1> QED BY <1>4, <1>5, <1>7 DEF u, Compared

-----------------------------------------------------------------------------
\* The head.  Whatever no swap and no drop concerns is of another table.
LEMMA MessagesLocated == Of(FirstMessages, "message") /\ Of(InitialDocument, "document") /\ Of(InitialChunks, "document_chunk")
  <1>1. \A f \in FirstMessages : f \in InitialConversations
    BY ConversationsSplit
  <1>2. \A f \in InitialConversations \cup InitialDocument \cup InitialChunks : IncludeObject(f)
    BY FirstPlaced, ChunksPlaced DEF OfTable, FirstTable, IncludeObject
  <1>3. \A f \in InitialDocument : f[2] = "document"
    BY DocumentPlaced, OfTableIs
  <1>4. \A f \in InitialChunks : f[2] = "document_chunk"
    BY ChunksPlaced, OfTableIs
  <1>5. \A f \in FirstMessages : f[2] = "message"
    <2> DEFINE t == "message"
               y4 == {"conversation_id", "chatbot_id", "role", "content"}
               y5 == {"sources_json", "prompt_tokens", "completion_tokens", "latency_ms"}
               y6 == {<<"conversation_id", "conversation">>, <<"chatbot_id", "chatbot">>}
               y7 == {"user", "assistant"}
               c == "role"
    <2>1. FirstMessages = Pk(t) \cup Created(t) \cup OrgId(t) \cup Required(t, y4) \cup Optional(t, y5)
                            \cup References(t, "CASCADE", y6) \cup OneOf(t, c, y7)
      BY DEF FirstMessages
    <2> HIDE DEF t, y4, y5, y6, y7, c
    <2>2. \A f \in FirstMessages : f[2] = t
      BY <2>1, Located
    <2> QED BY <2>2 DEF t
  <1> QED BY <1>1, <1>2, <1>3, <1>4, <1>5 DEF Of

\* At 0004: the first tables, with the document of the models.
FirstModels(f) ==
  \/ f \in Model!Organization \/ f \in Model!User \/ f \in FirstChatbots
  \/ f \in Model!Document \/ f \in Model!Conversation \/ f \in FirstMessages

LEMMA AtFour ==
  /\ \A f : IncludeObject(f) => (f \in SchemaAt[5] <=> FirstModels(f) \/ f \in InitialChunks)
  /\ Covers(SchemaAt[5])
  <1> DEFINE s2 == SchemaAt[3]
             s3 == SchemaAt[4]
             s4 == SchemaAt[5]
  <1>1. s2 = Up2(Extensions) /\ s3 = Up3(s2) /\ s4 = Up4(s3)
    BY SchemasAre, Chain
  <1> HIDE DEF s2, s3, s4
  <1>2. /\ \A f : IncludeObject(f) =>
             (f \in s2 <=> \/ f \in InitialTenants \/ f \in InitialDocument
                           \/ f \in InitialChunks \/ f \in InitialConversations)
        /\ Covers(s2)
    BY <1>1, TwoShows
  <1>3. Compared(s2, s3, {}) /\ Covers(s3)
    BY <1>1, <1>2, ThreeShows
  <1>4. /\ \A f : f \in s4 <=> f = ListFact("document", 4) \/ (f \in s3 /\ ~IsList(f, "document"))
        /\ Covers(s4)
    BY <1>1, <1>3, FourShows
  <1>5. \A f : IsList(f, "document") => f[2] = "document"
    BY DEF IsList
  <1>6. /\ \A f \in Model!Organization : f[2] = "organization"
        /\ \A f \in Model!User : f[2] = "app_user"
        /\ \A f \in FirstChatbots : f[2] = "chatbot"
        /\ \A f \in InitialChunks : f[2] = "document_chunk"
        /\ \A f \in Model!Conversation : f[2] = "conversation"
        /\ \A f \in FirstMessages : f[2] = "message"
    BY OrganizationIs, UserIs, ColumnsLocated, MessagesLocated, ConversationIs DEF Of
  <1>7. SwappedFrom(InitialDocument, Model!Document, "document", 4)
    BY DocumentIsModel
  <1>8. ASSUME NEW f, IncludeObject(f)
        PROVE  f \in s4 <=> FirstModels(f) \/ f \in InitialChunks
    <2>1. f \in s3 <=> \/ f \in Model!Organization \/ f \in Model!User \/ f \in FirstChatbots
                       \/ f \in InitialDocument \/ f \in InitialChunks
                       \/ f \in Model!Conversation \/ f \in FirstMessages
      BY <1>2, <1>3, <1>8, TenantsSplit, ConversationsSplit DEF Compared
    <2>2. f \in Model!Document <=> f = ListFact("document", 4) \/ (f \in InitialDocument /\ ~IsList(f, "document"))
      BY <1>7 DEF SwappedFrom
    <2> QED BY <1>4, <1>5, <1>6, <2>1, <2>2 DEF FirstModels
  <1> QED BY <1>4, <1>8 DEF s4

\* At 0008: two tables more, and the chunks of the models.
LEMMA AtEight ==
  /\ \A f : IncludeObject(f) =>
       (f \in SchemaAt[9] <=> \/ FirstModels(f) \/ f \in Model!DocumentChunk \/ f \in Model!Invitation
                              \/ f \in Theme \/ f \in Model!ChatbotAIConfig)
  /\ Covers(SchemaAt[9])
  <1> DEFINE s4 == SchemaAt[5]
             s5 == SchemaAt[6]
             s6 == SchemaAt[7]
             s7 == SchemaAt[8]
             s8 == SchemaAt[9]
             c == "document_chunk"
  <1>1. s5 = Up5(s4) /\ s6 = Up6(s5) /\ s7 = Up7(s6) /\ s8 = Up8(s7) /\ Sound(s7, 7)
    BY SchemasAre, Chain
  <1>2. /\ \A f : IncludeObject(f) => (f \in s4 <=> FirstModels(f) \/ f \in InitialChunks)
        /\ Covers(s4)
    BY AtFour
  <1> HIDE DEF s4, s5, s6, s7, s8
  <1>3. Compared(s4, s5, Model!Invitation) /\ Covers(s5)
    BY <1>1, <1>2, FiveShows
  <1>4. Compared(s5, s6, Theme) /\ Covers(s6)
    BY <1>1, <1>3, ColumnRevisions, ColumnsLocated, ColumnsShow
  <1>5. Compared(s6, s7, Model!ChatbotAIConfig) /\ Covers(s7)
    BY <1>1, <1>4, SevenShows
  <1>6. /\ \A f : IncludeObject(f) => (f \in s8 <=> f \in Model!DocumentChunk \/ (f \in s7 /\ f[2] # c))
        /\ Covers(s8)
    BY <1>1, <1>5, EightShows
  <1>7. /\ \A f \in Model!Organization : f[2] # c
        /\ \A f \in Model!User : f[2] # c
        /\ \A f \in FirstChatbots : f[2] # c
        /\ \A f \in Model!Document : f[2] # c
        /\ \A f \in Model!Conversation : f[2] # c
        /\ \A f \in FirstMessages : f[2] # c
    BY OrganizationIs, UserIs, ColumnsLocated, MessagesLocated, ConversationIs, DocumentIsModel DEF Of
  <1>8. /\ \A f \in Model!Invitation : f[2] # c
        /\ \A f \in Theme : f[2] # c
        /\ \A f \in Model!ChatbotAIConfig : f[2] # c
        /\ \A f \in InitialChunks : f[2] = c
    BY InvitationIs, ColumnsLocated, AIConfigIs, MessagesLocated DEF Of
  <1> HIDE DEF c
  <1>9. ASSUME NEW f, IncludeObject(f)
        PROVE  f \in s8 <=> \/ FirstModels(f) \/ f \in Model!DocumentChunk \/ f \in Model!Invitation
                            \/ f \in Theme \/ f \in Model!ChatbotAIConfig
    <2>1. f \in s7 <=> \/ FirstModels(f) \/ f \in InitialChunks \/ f \in Model!Invitation
                       \/ f \in Theme \/ f \in Model!ChatbotAIConfig
      BY <1>2, <1>3, <1>4, <1>5, <1>9 DEF Compared
    <2>2. FirstModels(f) => f[2] # c
      BY <1>7 DEF FirstModels
    <2> QED BY <1>6, <1>8, <1>9, <2>1, <2>2
  <1> QED BY <1>6, <1>9 DEF s8

\* At 0009: the messages of the models, and the tickets.
LaterModels(f) ==
  \/ f \in Model!Organization \/ f \in Model!User \/ f \in FirstChatbots \/ f \in Theme
  \/ f \in Model!Document \/ f \in Model!Conversation \/ f \in Model!Message
  \/ f \in Model!DocumentChunk \/ f \in Model!Invitation \/ f \in Model!ChatbotAIConfig
  \/ f \in Model!Ticket

LEMMA AtNine ==
  /\ \A f : IncludeObject(f) => (f \in SchemaAt[10] <=> LaterModels(f))
  /\ Covers(SchemaAt[10])
  <1> DEFINE s8 == SchemaAt[9]
             s9 == SchemaAt[10]
             m == "message"
  <1>1. s9 = Up9(s8)
    BY SchemasAre
  <1>2. /\ \A f : IncludeObject(f) =>
             (f \in s8 <=> \/ FirstModels(f) \/ f \in Model!DocumentChunk \/ f \in Model!Invitation
                           \/ f \in Theme \/ f \in Model!ChatbotAIConfig)
        /\ Covers(s8)
    BY AtEight
  <1> HIDE DEF s8, s9
  <1>3. /\ \A f : IncludeObject(f) =>
             (f \in s9 <=> \/ f \in StaffAuthor \/ f = ListFact(m, 9)
                           \/ (f \in s8 \/ f \in Model!Ticket) /\ ~IsList(f, m))
        /\ Covers(s9)
    BY <1>1, <1>2, NineShows
  <1>4. \A f : IsList(f, m) => f[2] = m
    BY DEF IsList
  <1>5. /\ \A f \in Model!Organization : f[2] # m
        /\ \A f \in Model!User : f[2] # m
        /\ \A f \in FirstChatbots : f[2] # m
        /\ \A f \in Theme : f[2] # m
        /\ \A f \in Model!Document : f[2] # m
        /\ \A f \in Model!Conversation : f[2] # m
    BY OrganizationIs, UserIs, ColumnsLocated, DocumentIsModel, ConversationIs DEF Of
  <1>6. /\ \A f \in Model!DocumentChunk : f[2] # m
        /\ \A f \in Model!Invitation : f[2] # m
        /\ \A f \in Model!ChatbotAIConfig : f[2] # m
        /\ \A f \in Model!Ticket : f[2] # m
    BY ChunksAreModel, InvitationIs, AIConfigIs, TicketIs DEF Of
  <1>7. \A f : f \in Model!Message <=> \/ f = ListFact(m, 9)
                                       \/ f \in FirstMessages /\ ~IsList(f, m)
                                       \/ f \in StaffAuthor
    BY MessageIsModel
  <1> HIDE DEF m
  <1>8. ASSUME NEW f, IncludeObject(f) PROVE f \in s9 <=> LaterModels(f)
    <2> DEFINE other == \/ f \in Model!Organization \/ f \in Model!User \/ f \in FirstChatbots
                        \/ f \in Theme \/ f \in Model!Document \/ f \in Model!Conversation
                        \/ f \in Model!DocumentChunk \/ f \in Model!Invitation
                        \/ f \in Model!ChatbotAIConfig
    <2>1. other \/ f \in Model!Ticket => ~IsList(f, m)
      BY <1>4, <1>5, <1>6
    <2>2. f \in s8 <=> other \/ f \in FirstMessages
      BY <1>2, <1>8 DEF FirstModels
    <2>3. f \in s9 <=> \/ f \in StaffAuthor \/ f = ListFact(m, 9)
                       \/ (f \in s8 \/ f \in Model!Ticket) /\ ~IsList(f, m)
      BY <1>3, <1>8
    <2>4. LaterModels(f) <=> other \/ f \in Model!Ticket \/ f \in Model!Message
      BY DEF LaterModels
    <2>5. f \in Model!Message <=> \/ f = ListFact(m, 9)
                                  \/ f \in FirstMessages /\ ~IsList(f, m)
                                  \/ f \in StaffAuthor
      BY <1>7
    <2> HIDE DEF other
    <2> QED BY <2>1, <2>2, <2>3, <2>4, <2>5
  <1> QED BY <1>3, <1>8 DEF s9

\* At the head: what app/models declares.
LEMMA AtHead ==
  /\ \A f : IncludeObject(f) => (f \in SchemaAt[16] <=> f \in Model!Metadata)
  /\ \A f \in Model!Metadata : IncludeObject(f)
  /\ Covers(SchemaAt[16])
  <1> DEFINE s9 == SchemaAt[10]
             s10 == SchemaAt[11]
             s11 == SchemaAt[12]
             s13 == SchemaAt[14]
             s14 == SchemaAt[15]
             s15 == SchemaAt[16]
  <1>1. /\ s10 = Up10(s9) /\ s11 = Up11(s10) /\ s13 = Up13(Up12(s11)) /\ s14 = Up14(s13)
        /\ s15 = Up15(s14) /\ Sound(s11, 11)
    BY SchemasAre, Chain
  <1>2. (\A f : IncludeObject(f) => (f \in s9 <=> LaterModels(f))) /\ Covers(s9)
    BY AtNine
  <1> HIDE DEF s9, s10, s11, s13, s14, s15
  <1>3. Compared(s9, s10, Retention) /\ Covers(s10)
    BY <1>1, <1>2, ColumnRevisions, ColumnsLocated, ColumnsShow
  <1>4. Compared(s10, s11, Links) /\ Covers(s11)
    BY <1>1, <1>3, ColumnRevisions, ColumnsLocated, ColumnsShow
  <1>5. /\ \A f : IncludeObject(f) => (f \in s13 <=> f \in s11 \/ f \in Model!MemoryEntry \/ f \in MemoryWindow)
        /\ Covers(s13)
    BY <1>1, <1>4, ThirteenShows
  <1>6. /\ \A f : IncludeObject(f) => (f \in s14 <=> f \in s13 \/ f \in Model!ChatbotUsagePeriod \/ f \in Caps)
        /\ Covers(s14)
    BY <1>1, <1>5, FourteenShows
  <1>7. Compared(s14, s15, Floors) /\ Covers(s15)
    BY <1>1, <1>6, ColumnRevisions, ColumnsLocated, ColumnsShow
  <1>8. \A f : f \in Model!Metadata <=>
               \/ f \in Model!Organization \/ f \in Model!User \/ f \in Model!Invitation
               \/ f \in Model!Chatbot \/ f \in Model!ChatbotAIConfig \/ f \in Model!ChatbotUsagePeriod
               \/ f \in Model!Document \/ f \in Model!DocumentChunk \/ f \in Model!Conversation
               \/ f \in Model!Message \/ f \in Model!Ticket \/ f \in Model!MemoryEntry
    BY DEF Model!Metadata
  <1>9. \A f : f \in Model!Chatbot <=> \/ f \in FirstChatbots \/ f \in Theme \/ f \in Retention
                                       \/ f \in Links \/ f \in MemoryWindow \/ f \in Caps \/ f \in Floors
    BY ChatbotIsModel DEF ColumnsOfChatbot
  <1>10. ASSUME NEW f, IncludeObject(f) PROVE f \in s15 <=> f \in Model!Metadata
    <2>1. f \in s11 <=> LaterModels(f) \/ f \in Retention \/ f \in Links
      BY <1>2, <1>3, <1>4, <1>10 DEF Compared
    <2>2. f \in s15 <=> \/ f \in s11 \/ f \in Model!MemoryEntry \/ f \in MemoryWindow
                        \/ f \in Model!ChatbotUsagePeriod \/ f \in Caps \/ f \in Floors
      BY <1>5, <1>6, <1>7, <1>10 DEF Compared
    <2> QED BY <1>8, <1>9, <2>1, <2>2 DEF LaterModels
  <1>11. \A f \in Model!Metadata : IncludeObject(f)
    BY <1>8, OrganizationIs, UserIs, InvitationIs, ChatbotIsModel, AIConfigIs, UsageIs,
       DocumentIsModel, ChunksAreModel, ConversationIs, MessageIsModel, TicketIs, NotesAreModel DEF Of
  <1> QED BY <1>7, <1>10, <1>11 DEF s15

\* Each tenant-scoped table is one the models declare.
LEMMA TableOf == \A t, key : <<"table", t>> \in Pk(t) /\ <<"table", t>> \in Table(t, key)
  <1> TAKE t, key
  <1> DEFINE g == <<"table", t>>
             k == {"id"}
             x == Required(t, k)
             y == Defaults(t, {<<"id", "uuid">>})
  <1>1. \A c : g \in Table(t, c)
    BY DEF Table
  <1>2. Pk(t) = Table(t, k) \cup x \cup y
    BY DEF Pk
  <1> HIDE DEF g, k, x, y
  <1>3. g \in Pk(t) /\ g \in Table(t, key)
    BY <1>1, <1>2
  <1> QED BY <1>3 DEF g

\* Every tenant-scoped table is one a model declares.
LEMMA TenantsDeclared == \A t \in Tenants : <<"table", t>> \in Model!Metadata
  <1> DEFINE D == Model!Metadata
             D1 == Model!User \cup Model!Invitation \cup Model!ChatbotAIConfig \cup Model!ChatbotUsagePeriod
             D2 == Model!Document \cup Model!DocumentChunk \cup Model!Conversation \cup Model!Message
             D3 == Model!Ticket \cup Model!MemoryEntry \cup Model!Chatbot
  <1>1. D1 \cup D2 \cup D3 \subseteq D
    BY DEF Model!Metadata
  <1>2. <<"table", "app_user">> \in Model!User /\ <<"table", "conversation">> \in Model!Conversation
    BY TableOf, UserIs, ConversationIs
  <1>3. <<"table", "invitation">> \in Model!Invitation
    <2>1. Model!Table("invitation", {"id"}) \subseteq Model!Invitation
      BY DEF Model!Invitation
    <2> QED BY <2>1, TableOf, ClausesAre
  <1>4. <<"table", "chatbot_ai_config">> \in Model!ChatbotAIConfig
    <2>1. Model!Table("chatbot_ai_config", {"id"}) \subseteq Model!ChatbotAIConfig
      BY DEF Model!ChatbotAIConfig
    <2> QED BY <2>1, TableOf, ClausesAre
  <1>5. <<"table", "chatbot_usage_period">> \in Model!ChatbotUsagePeriod
    <2>1. Model!Table("chatbot_usage_period", {"chatbot_id", "period_start"}) \subseteq Model!ChatbotUsagePeriod
      BY DEF Model!ChatbotUsagePeriod
    <2> QED BY <2>1, TableOf, ClausesAre
  <1>6. <<"table", "document">> \in Model!Document
    <2>1. Model!Table("document", {"id"}) \subseteq Model!Document
      BY DEF Model!Document
    <2> QED BY <2>1, TableOf, ClausesAre
  <1>7. <<"table", "document_chunk">> \in Model!DocumentChunk
    <2>1. Model!Table("document_chunk", {"id", "embedding_dim"}) \subseteq Model!DocumentChunk
      BY DEF Model!DocumentChunk
    <2> QED BY <2>1, TableOf, ClausesAre
  <1>8. <<"table", "message">> \in Model!Message
    <2>1. Model!Table("message", {"id"}) \subseteq Model!Message
      BY DEF Model!Message
    <2> QED BY <2>1, TableOf, ClausesAre
  <1>9. <<"table", "ticket">> \in Model!Ticket
    <2>1. Model!Table("ticket", {"id"}) \subseteq Model!Ticket
      BY DEF Model!Ticket
    <2> QED BY <2>1, TableOf, ClausesAre
  <1>10. <<"table", "memory_entry">> \in Model!MemoryEntry
    <2>1. Model!Table("memory_entry", {"id", "embedding_dim"}) \subseteq Model!MemoryEntry
      BY DEF Model!MemoryEntry
    <2> QED BY <2>1, TableOf, ClausesAre
  <1>11. <<"table", "chatbot">> \in Model!Chatbot
    <2>1. Model!Table("chatbot", {"id"}) \subseteq Model!Chatbot
      BY DEF Model!Chatbot
    <2> QED BY <2>1, TableOf, ClausesAre
  <1>12. \A t \in Tenants : \/ t \in {"app_user", "invitation", "chatbot", "chatbot_ai_config"}
                            \/ t \in {"document", "document_chunk", "conversation", "message"}
                            \/ t \in {"ticket", "memory_entry", "chatbot_usage_period"}
    BY DEF Tenants, Model!TENANT_SCOPED_TABLES
  <1> HIDE DEF D
  <1>13. ASSUME NEW t \in Tenants PROVE <<"table", t>> \in D
    <2>1. CASE t \in {"app_user", "invitation", "chatbot", "chatbot_ai_config"}
      BY <1>1, <1>2, <1>3, <1>4, <1>11, <2>1
    <2>2. CASE t \in {"document", "document_chunk", "conversation", "message"}
      BY <1>1, <1>2, <1>6, <1>7, <1>8, <2>2
    <2>3. CASE t \in {"ticket", "memory_entry", "chatbot_usage_period"}
      BY <1>1, <1>5, <1>9, <1>10, <2>3
    <2> QED BY <1>12, <2>1, <2>2, <2>3
  <1> QED BY <1>13 DEF D

\* The tables with a policy at the head: the tenants' and their partitions.
LEMMA HeadGuarded ==
  Guarded(SchemaAt[16]) = UNION {{t} \cup PartitionsOf(SchemaAt[16], t) : t \in Tenants}
  <1> DEFINE s == SchemaAt[16]
             all == UNION {{t} \cup PartitionsOf(s, t) : t \in Tenants}
  <1>1. Covers(s) /\ \A f : IncludeObject(f) => (f \in s <=> f \in Model!Metadata)
    BY AtHead
  <1>2. AllGuarded(s)
    <2>1. 15 \in 3..15 /\ 15 + 1 = 16
      OBVIOUS
    <2> QED BY <2>1, Guards
  <1> HIDE DEF s
  <1>3. \A p : <<"policy", p>> \in s => p \in Guarded(s)
    <2> SUFFICES ASSUME NEW p, <<"policy", p>> \in s PROVE p \in Guarded(s)
      OBVIOUS
    <2> DEFINE f == <<"policy", p>>
    <2>1. f \in s /\ f[1] = "policy" /\ f[2] = p
      OBVIOUS
    <2> HIDE DEF f
    <2> QED BY <2>1 DEF Guarded, Kind
  <1>4. \A p \in Guarded(s) : p \in all
    <2> TAKE p \in Guarded(s)
    <2>1. PICK f \in s : f[1] = "policy" /\ f[2] = p
      BY DEF Guarded, Kind
    <2>2. CASE p \in Tenants
      BY <2>2
    <2>3. CASE p \notin Tenants
      <3>1. PICK g \in s : g[1] = "partition" /\ g[2] = p /\ g[3] \in Tenants
        BY <1>1, <2>1, <2>3 DEF Covers
      <3>2. p \in PartitionsOf(s, g[3])
        BY <3>1 DEF PartitionsOf, Kind
      <3> QED BY <3>1, <3>2
    <2> QED BY <2>2, <2>3
  <1>5. \A t \in Tenants : t \in Guarded(s)
    <2> TAKE t \in Tenants
    <2> DEFINE f == <<"table", t>>
    <2>1. f \in Model!Metadata
      BY TenantsDeclared
    <2>2. f[1] = "table" /\ f[2] = t /\ t # "organization"
      BY DEF Tenants, Model!TENANT_SCOPED_TABLES
    <2> HIDE DEF f
    <2>3. f \in s
      BY <1>1, <2>1, <2>2 DEF IncludeObject
    <2>4. Policy(t) \subseteq s
      BY <1>2, <2>2, <2>3 DEF AllGuarded
    <2> QED BY <1>3, <2>4 DEF Policy
  <1>6. \A t : \A p \in PartitionsOf(s, t) : p \in Guarded(s)
    <2> TAKE t
    <2> TAKE p \in PartitionsOf(s, t)
    <2>1. PICK f \in s : f[1] = "partition" /\ f[2] = p
      BY DEF PartitionsOf, Kind
    <2>2. Policy(p) \subseteq s
      BY <1>2, <2>1 DEF AllGuarded
    <2> QED BY <1>3, <2>2 DEF Policy
  <1>7. Guarded(s) = all
    BY <1>4, <1>5, <1>6
  <1> QED BY <1>7 DEF s

\* At the last revision the database is what app/models declares, whichever commands, refusals
\* and crashes led there: the same clauses, but for those env.py keeps out of the comparison,
\* and a policy on TENANT_SCOPED_TABLES, their partitions and nothing else.
THEOREM HeadIsModelsHolds == Spec => []HeadIsModels
  <1>1. Exact => HeadIsModels
    <2> SUFFICES ASSUME Exact, job = Idle, revision = HeadRevision
                 PROVE  /\ {f \in schema : IncludeObject(f)} = Model!Metadata
                        /\ Guarded(schema) =
                             UNION {{t} \cup PartitionsOf(schema, t) : t \in Model!TENANT_SCOPED_TABLES}
      BY DEF HeadIsModels
    <2>1. schema = SchemaAt[16]
      <3>1. revision = 15 /\ revision # 0 /\ 15 + 1 = 16
        BY DEF HeadRevision
      <3> QED BY <3>1 DEF Exact, ExactInv
    <2>2. {f \in SchemaAt[16] : IncludeObject(f)} = Model!Metadata
      BY AtHead
    <2>3. Guarded(SchemaAt[16]) = UNION {{t} \cup PartitionsOf(SchemaAt[16], t) : t \in Model!TENANT_SCOPED_TABLES}
      BY HeadGuarded DEF Tenants
    <2> QED BY <2>1, <2>2, <2>3
  <1> QED BY <1>1, ExactAlways, PTL

-----------------------------------------------------------------------------
(***************************************************************************)
(* What a deletion takes with it, at every revision.                       *)
(***************************************************************************)

\* It stays among the tables, and grows with what it starts from.
LEMMA WiderIs ==
  ASSUME NEW s, TablesOnly(s)
  PROVE  /\ \A S \in SUBSET Tables(s) : Wider(s, S) \in SUBSET Tables(s) /\ S \subseteq Wider(s, S)
         /\ \A S, R : S \subseteq R => Wider(s, S) \subseteq Wider(s, R)
  <1>1. \A S : \A x \in Wider(s, S) : x \in S \/ x \in Tables(s)
    BY DEF Wider, TablesOnly
  <1>2. \A S : S \subseteq Wider(s, S)
    BY DEF Wider
  <1>3. \A S, R : S \subseteq R => Wider(s, S) \subseteq Wider(s, R)
    BY DEF Wider
  <1> QED BY <1>1, <1>2, <1>3

\* The recursion of Reached has a solution, the least set that takes nothing more with it; so
\* it can be followed from a table to the first such set.
LEMMA ReachedIs ==
  ASSUME NEW s, TablesOnly(s), NEW t \in Tables(s), NEW R, R = Wider(s, {t}), Wider(s, R) = R
  PROVE  Reached(s, t) = R
  <1> DEFINE T == Tables(s)
             D == SUBSET T
             W(S) == Wider(s, S)
             Is(h) == h = [S \in D |-> IF W(S) = S THEN S ELSE h[W(S)]]
             step == CHOOSE h : Is(h)
             Least(S) == {x \in T : \A C \in D : S \subseteq C /\ W(C) = C => x \in C}
             g == [S \in D |-> Least(S)]
  <1>1. Reached(s, t) = step[{t}]
    BY DEF Reached, Wider
  <1>2. /\ \A S \in D : W(S) \in D /\ S \subseteq W(S)
        /\ \A S, C : S \subseteq C => W(S) \subseteq W(C)
    BY WiderIs
  <1>3. {t} \in D /\ R \in D
    <2>1. {t} \in D
      OBVIOUS
    <2> QED BY <1>2, <2>1
  <1> HIDE DEF T, W
  <1>4. Is(g)
    <2>1. ASSUME NEW S \in D, W(S) = S PROVE Least(S) = S
      BY <2>1
    <2>2. ASSUME NEW S \in D, W(S) # S PROVE Least(S) = Least(W(S))
      <3>1. \A C \in D : S \subseteq C /\ W(C) = C <=> W(S) \subseteq C /\ W(C) = C
        BY <1>2
      <3> QED BY <3>1
    <2>3. \A S \in D : Least(S) = IF W(S) = S THEN S ELSE g[W(S)]
      <3> HIDE DEF Least
      <3> QED BY <1>2, <2>1, <2>2
    <2> HIDE DEF Least
    <2> QED BY <2>3
  <1> HIDE DEF g
  <1>5. Is(step)
    <2> HIDE DEF Is
    <2> QED BY <1>4
  <1> HIDE DEF step
  <1>6. \A S \in D : step[S] = IF W(S) = S THEN S ELSE step[W(S)]
    BY <1>5
  <1>7. step[R] = R
    BY <1>3, <1>6 DEF W
  <1>8. step[{t}] = R
    BY <1>3, <1>6, <1>7 DEF W
  <1> QED BY <1>1, <1>8

-----------------------------------------------------------------------------
\* It survives what adds such tables, and what drops one.
LEMMA LinkedMore ==
  ASSUME NEW s, NEW u, NEW A, Linked(s), Linked(A), \A f : Core(f) => (f \in u <=> f \in s \/ f \in A)
  PROVE  Linked(u)
  <1>1. \A t : Core(<<"table", t>>)
    BY DEF Core
  <1>2. \A t, c : Core(<<"column", t, c, "not null">>) /\ Core(<<"reference", t, c, TargetOf(c), "CASCADE">>)
    BY DEF Core
  <1>3. \A f \in u : Core(f) => <<"table", f[2]>> \in u /\ RightKey(f)
    BY <1>1 DEF Linked
  <1>4. ASSUME NEW t, <<"table", t>> \in u, NEW c \in KeysOf(t) PROVE KeyOf(t, c, u)
    <2>1. KeyOf(t, c, s) \/ KeyOf(t, c, A)
      BY <1>1, <1>4 DEF Linked
    <2> QED BY <1>2, <2>1 DEF KeyOf
  <1> QED BY <1>3, <1>4 DEF Linked

LEMMA LinkedNothing == Linked({})
  BY DEF Linked

LEMMA LinkedSame ==
  ASSUME NEW s, NEW u, Linked(s), \A f : Core(f) => (f \in u <=> f \in s)
  PROVE  Linked(u)
  BY LinkedMore, LinkedNothing

LEMMA LinkedLess ==
  ASSUME NEW s, NEW u, NEW t, Linked(s), \A f : f \in u <=> f \in s /\ f[2] # t
  PROVE  Linked(u)
  <1>1. \A f \in u : Core(f) => <<"table", f[2]>> \in u /\ RightKey(f)
    <2> SUFFICES ASSUME NEW f \in u, Core(f) PROVE <<"table", f[2]>> \in u /\ RightKey(f)
      OBVIOUS
    <2> DEFINE g == <<"table", f[2]>>
    <2>1. f \in s /\ f[2] # t
      OBVIOUS
    <2>2. g \in s /\ RightKey(f)
      BY <2>1 DEF Linked
    <2>3. g[2] # t
      BY <2>1
    <2> HIDE DEF g
    <2>4. g \in u
      BY <2>2, <2>3
    <2> QED BY <2>2, <2>4 DEF g
  <1>2. ASSUME NEW v, <<"table", v>> \in u, NEW c \in KeysOf(v) PROVE KeyOf(v, c, u)
    <2> DEFINE g == <<"table", v>>
               x == <<"column", v, c, "not null">>
               y == <<"reference", v, c, TargetOf(c), "CASCADE">>
    <2>1. g \in u /\ g[2] = v /\ x[2] = v /\ y[2] = v
      BY <1>2
    <2> HIDE DEF g, x, y
    <2>2. g \in s /\ v # t
      BY <2>1
    <2>3. x \in s /\ y \in s
      BY <1>2, <2>2 DEF Linked, KeyOf, g, x, y
    <2>4. x \in u /\ y \in u
      BY <2>1, <2>2, <2>3
    <2> QED BY <2>4 DEF KeyOf, x, y
  <1> QED BY <1>1, <1>2 DEF Linked

\* More columns, none of them a key, for a table that is there.
LEMMA LinkedColumns ==
  ASSUME NEW s, NEW u, NEW X, NEW t, Linked(s), <<"table", t>> \in s,
         \A f : f \in u <=> f \in s \/ f \in X,
         \A f \in X : Core(f) => /\ f[2] = t /\ f[1] # "table" /\ RightKey(f)
  PROVE  Linked(u)
  <1>1. \A f \in u : Core(f) => <<"table", f[2]>> \in u /\ RightKey(f)
    BY DEF Linked
  <1>2. ASSUME NEW v, <<"table", v>> \in u, NEW c \in KeysOf(v) PROVE KeyOf(v, c, u)
    <2>1. <<"table", v>> \in s
      <3> DEFINE g == <<"table", v>>
      <3>1. g \in u /\ g[1] = "table" /\ Core(g)
        BY <1>2 DEF Core
      <3> HIDE DEF g
      <3>2. g \in s
        BY <3>1
      <3> QED BY <3>2 DEF g
    <2> QED BY <1>2, <2>1 DEF Linked, KeyOf
  <1> QED BY <1>1, <1>2 DEF Linked

-----------------------------------------------------------------------------
\* A block of clauses of one table that has each key of that table.
LEMMA Shaped ==
  ASSUME NEW A, NEW t, NEW key, NEW r, NEW p, Fine(A, t),
         Table(t, key) \subseteq A, OrgId(t) \subseteq A,
         Required(t, r) \subseteq A, References(t, "CASCADE", p) \subseteq A,
         \A c \in KeysOf(t) : c # "org_id" => c \in r /\ <<c, TargetOf(c)>> \in p
  PROVE  Linked(A)
  <1>1. <<"table", t>> \in A
    BY DEF Table
  <1>2. \A v : <<"table", v>> \in A => v = t
    <2> TAKE v
    <2> DEFINE g == <<"table", v>>
    <2>1. g[1] = "table" /\ g[2] = v /\ Core(g)
      BY DEF Core
    <2> HIDE DEF g
    <2>2. g \in A => v = t
      BY <2>1 DEF Fine
    <2> QED BY <2>2 DEF g
  <1>3. \A f \in A : Core(f) => <<"table", f[2]>> \in A /\ RightKey(f)
    BY <1>1 DEF Fine
  <1>4. KeyOf(t, "org_id", A)
    <2> DEFINE c == "org_id"
               o == "organization"
    <2>1. TargetOf(c) = o
      BY DEF TargetOf
    <2>2. <<"column", t, c, "not null">> \in OrgId(t) /\ <<"reference", t, c, o, "CASCADE">> \in OrgId(t)
      <3>1. OrgId(t) = Required(t, {c}) \cup References(t, "CASCADE", {<<c, o>>})
        BY DEF OrgId
      <3>2. <<"column", t, c, "not null">> \in Required(t, {c})
        BY DEF Required
      <3>3. <<"reference", t, c, o, "CASCADE">> \in References(t, "CASCADE", {<<c, o>>})
        BY DEF References
      <3> QED BY <3>1, <3>2, <3>3
    <2> QED BY <2>1, <2>2 DEF KeyOf
  <1>5. ASSUME NEW c \in KeysOf(t), c # "org_id" PROVE KeyOf(t, c, A)
    <2> DEFINE q == <<c, TargetOf(c)>>
    <2>1. c \in r /\ q \in p /\ q[1] = c /\ q[2] = TargetOf(c)
      BY <1>5
    <2>2. <<"column", t, c, "not null">> \in Required(t, r)
      BY <2>1 DEF Required
    <2> HIDE DEF q
    <2>3. <<"reference", t, q[1], q[2], "CASCADE">> \in References(t, "CASCADE", p)
      BY <2>1 DEF References
    <2> QED BY <2>1, <2>2, <2>3 DEF KeyOf
  <1> QED BY <1>2, <1>3, <1>4, <1>5 DEF Linked

\* Which clauses are fine.
LEMMA FineClauses ==
  ASSUME NEW t
  PROVE  /\ Fine(Pk(t), t) /\ Fine(Created(t), t) /\ Fine(Updated(t), t)
         /\ t # "organization" => Fine(OrgId(t), t)
         /\ \A r : r \cap CascadeKeys \subseteq KeysOf(t) => Fine(Required(t, r), t) /\ Fine(Optional(t, r), t)
         /\ \A p : (\A q \in p : q[1] \in KeysOf(t) /\ q[2] = TargetOf(q[1])) => Fine(References(t, "CASCADE", p), t)
         /\ \A p : Fine(References(t, "SET NULL", p), t) /\ Fine(Defaults(t, p), t) /\ Fine(Unique(t, p), t)
                     /\ Fine(Table(t, p), t)
         /\ \A c, w : Fine(OneOf(t, c, w), t) /\ Fine(UniqueWhere(t, c, w), t)
         /\ \A c, lo, hi : Fine(Between(t, c, lo, hi), t)
  <1>1. \A r : r \cap CascadeKeys \subseteq KeysOf(t) => Fine(Required(t, r), t) /\ Fine(Optional(t, r), t)
    BY RequiredIs, RequiredNames, OptionalIs, OptionalNames DEF Fine, RightKey, Names3
  <1>2. \A p : (\A q \in p : q[1] \in KeysOf(t) /\ q[2] = TargetOf(q[1])) => Fine(References(t, "CASCADE", p), t)
    <2> TAKE p
    <2> HAVE \A q \in p : q[1] \in KeysOf(t) /\ q[2] = TargetOf(q[1])
    <2> SUFFICES ASSUME NEW f \in References(t, "CASCADE", p) PROVE f[2] = t /\ RightKey(f)
      BY DEF Fine
    <2>1. PICK q \in p : f = <<"reference", t, q[1], q[2], "CASCADE">>
      BY DEF References
    <2>2. f[1] = "reference" /\ f[2] = t /\ f[3] = q[1] /\ f[4] = q[2]
      BY <2>1
    <2> QED BY <2>2 DEF RightKey
  <1>3. \A p : Fine(References(t, "SET NULL", p), t)
    <2> TAKE p
    <2> SUFFICES ASSUME NEW f \in References(t, "SET NULL", p) PROVE f[2] = t /\ RightKey(f)
      BY DEF Fine
    <2>1. PICK q \in p : f = <<"reference", t, q[1], q[2], "SET NULL">>
      BY DEF References
    <2>2. f[1] = "reference" /\ f[2] = t /\ f[5] = "SET NULL"
      BY <2>1
    <2> QED BY <2>2 DEF RightKey
  <1>4. \A p : Fine(Defaults(t, p), t) /\ Fine(Unique(t, p), t)
    BY DefaultsIs, UniqueIs DEF Fine, Core
  <1>5. \A p : Fine(Table(t, p), t)
    BY TableClauseIs DEF Fine, RightKey
  <1>6. (\A c, w : Fine(OneOf(t, c, w), t) /\ Fine(UniqueWhere(t, c, w), t))
           /\ (\A c, lo, hi : Fine(Between(t, c, lo, hi), t))
    BY OneOfIs, UniqueWhereIs, BetweenIs DEF Fine, Core
  <1>7. Fine(Created(t), t) /\ Fine(Updated(t), t) /\ Fine(Pk(t), t)
    <2> DEFINE c == {"created_at"}
               d == {"updated_at"}
               i == {"id"}
               P == {<<"created_at", "now">>}
               Q == {<<"updated_at", "now">>}
               R == {<<"id", "uuid">>}
    <2>1. c \cap CascadeKeys = {} /\ d \cap CascadeKeys = {} /\ i \cap CascadeKeys = {}
      BY DEF CascadeKeys
    <2>2. /\ Created(t) = Required(t, c) \cup Defaults(t, P)
          /\ Updated(t) = Required(t, d) \cup Defaults(t, Q)
          /\ Pk(t) = Table(t, i) \cup Required(t, i) \cup Defaults(t, R)
      BY DEF Created, Updated, Pk
    <2> HIDE DEF c, d, i, P, Q, R
    <2>3. Fine(Required(t, c), t) /\ Fine(Required(t, d), t) /\ Fine(Required(t, i), t)
      BY <1>1, <2>1
    <2> QED BY <1>4, <1>5, <2>2, <2>3 DEF Fine
  <1>8. ASSUME t # "organization" PROVE Fine(OrgId(t), t)
    <2> DEFINE c == {"org_id"}
               P == {<<"org_id", "organization">>}
    <2>1. "org_id" \in KeysOf(t) /\ TargetOf("org_id") = "organization"
      BY <1>8 DEF KeysOf, CascadeKeys, TargetOf
    <2>2. OrgId(t) = Required(t, c) \cup References(t, "CASCADE", P)
      BY DEF OrgId
    <2>3. c \cap CascadeKeys \subseteq KeysOf(t) /\ \A q \in P : q[1] \in KeysOf(t) /\ q[2] = TargetOf(q[1])
      BY <2>1
    <2> HIDE DEF c, P
    <2>4. Fine(Required(t, c), t) /\ Fine(References(t, "CASCADE", P), t)
      BY <1>1, <1>2, <2>3
    <2> QED BY <2>2, <2>4 DEF Fine
  <1> QED BY <1>1, <1>2, <1>3, <1>4, <1>5, <1>6, <1>7, <1>8

\* The first tables, and each that a revision creates.
LEMMA UserLinked == Linked(Model!User)
  <1> DEFINE t == "app_user"
             a1 == {"email", "hashed_password", "role", "is_active"}
             a2 == {"full_name"}
             a3 == {"email"}
             a4 == "role"
             a5 == {"owner", "admin", "member"}
             A == Pk(t) \cup Created(t) \cup Updated(t) \cup OrgId(t)
                      \cup Required(t, a1) \cup Optional(t, a2) \cup Unique(t, a3)
                      \cup OneOf(t, a4, a5)
  <1>1. Model!User = A
    BY UserIs
  <1>2. /\ t # "organization"
        /\ a1 \cap CascadeKeys \subseteq KeysOf(t)
        /\ a2 \cap CascadeKeys \subseteq KeysOf(t)
    BY DEF KeysOf, CascadeKeys
  <1>4. \A c \in KeysOf(t) : c = "org_id"
    BY DEF KeysOf, CascadeKeys
  <1> HIDE DEF t, a1, a2, a3, a4, a5
  <1>6. Fine(A, t)
    <2>1. /\ Fine(Pk(t), t)
          /\ Fine(Created(t), t)
          /\ Fine(Updated(t), t)
          /\ Fine(OrgId(t), t)
      BY <1>2, FineClauses
    <2>2. /\ Fine(Required(t, a1), t)
          /\ Fine(Optional(t, a2), t)
          /\ Fine(Unique(t, a3), t)
          /\ Fine(OneOf(t, a4, a5), t)
      BY <1>2, FineClauses
    <2> QED BY <2>1, <2>2 DEF Fine
  <1>7. Linked(A)
    <2>1. Table(t, {"id"}) \subseteq A
      BY DEF Pk
    <2>2. OrgId(t) \subseteq A /\ Required(t, a1) \subseteq A
      OBVIOUS
    <2>3. References(t, "CASCADE", {}) \subseteq A
      BY DEF References
    <2> HIDE DEF A
    <2> QED BY <1>4, <1>6, <2>1, <2>2, <2>3, Shaped
  <1> QED BY <1>1, <1>7

LEMMA ChatbotLinked == Linked(FirstChatbots)
  <1> DEFINE t == "chatbot"
             a1 == {"name", "slug", "system_prompt", "model_config_json", "allowed_origins",
                    "public_key", "secret_key_hash", "status"}
             a2 == {"description"}
             a3 == {<<"model_config_json", "{}">>, <<"allowed_origins", "[]">>}
             a4 == {"org_id", "slug"}
             a5 == {"public_key"}
             a6 == "status"
             a7 == {"active", "paused", "archived"}
             A == Pk(t) \cup Created(t) \cup Updated(t) \cup OrgId(t)
                      \cup Required(t, a1) \cup Optional(t, a2) \cup Defaults(t, a3)
                      \cup Unique(t, a4) \cup Unique(t, a5) \cup OneOf(t, a6, a7)
  <1>1. FirstChatbots = A
    BY DEF FirstChatbots
  <1>2. /\ t # "organization"
        /\ a1 \cap CascadeKeys \subseteq KeysOf(t)
        /\ a2 \cap CascadeKeys \subseteq KeysOf(t)
    BY DEF KeysOf, CascadeKeys
  <1>4. \A c \in KeysOf(t) : c = "org_id"
    BY DEF KeysOf, CascadeKeys
  <1> HIDE DEF t, a1, a2, a3, a4, a5, a6, a7
  <1>6. Fine(A, t)
    <2>1. /\ Fine(Pk(t), t)
          /\ Fine(Created(t), t)
          /\ Fine(Updated(t), t)
          /\ Fine(OrgId(t), t)
      BY <1>2, FineClauses
    <2>2. /\ Fine(Required(t, a1), t)
          /\ Fine(Optional(t, a2), t)
          /\ Fine(Defaults(t, a3), t)
          /\ Fine(Unique(t, a4), t)
          /\ Fine(Unique(t, a5), t)
          /\ Fine(OneOf(t, a6, a7), t)
      BY <1>2, FineClauses
    <2> QED BY <2>1, <2>2 DEF Fine
  <1>7. Linked(A)
    <2>1. Table(t, {"id"}) \subseteq A
      BY DEF Pk
    <2>2. OrgId(t) \subseteq A /\ Required(t, a1) \subseteq A
      OBVIOUS
    <2>3. References(t, "CASCADE", {}) \subseteq A
      BY DEF References
    <2> HIDE DEF A
    <2> QED BY <1>4, <1>6, <2>1, <2>2, <2>3, Shaped
  <1> QED BY <1>1, <1>7

LEMMA DocumentLinked == Linked(InitialDocument)
  <1> DEFINE t == "document"
             a1 == {"chatbot_id", "filename", "file_type", "content_type", "storage_path",
                    "size_bytes", "chunk_count", "status"}
             a2 == {"checksum_sha256", "error_message", "uploaded_by"}
             a3 == {<<"chunk_count", "0">>}
             a4 == {<<"chatbot_id", "chatbot">>}
             a5 == {<<"uploaded_by", "app_user">>}
             a6 == "status"
             a7 == {"pending", "processing", "ready", "failed"}
             a8 == "file_type"
             a9 == {"pdf", "docx", "md", "txt"}
             A == Pk(t) \cup Created(t) \cup Updated(t) \cup OrgId(t)
                      \cup Required(t, a1) \cup Optional(t, a2) \cup Defaults(t, a3)
                      \cup References(t, "CASCADE", a4) \cup References(t, "SET NULL", a5)
                      \cup OneOf(t, a6, a7) \cup OneOf(t, a8, a9)
  <1>1. InitialDocument = A
    BY DEF InitialDocument
  <1>2. /\ t # "organization"
        /\ a1 \cap CascadeKeys \subseteq KeysOf(t)
        /\ a2 \cap CascadeKeys \subseteq KeysOf(t)
    BY DEF KeysOf, CascadeKeys
  <1>3. \A q \in a4 : q[1] \in KeysOf(t) /\ q[2] = TargetOf(q[1])
    BY DEF KeysOf, CascadeKeys, TargetOf
  <1>4. \A c \in KeysOf(t) : c # "org_id" => c \in a1 /\ <<c, TargetOf(c)>> \in a4
    BY DEF KeysOf, CascadeKeys, TargetOf
  <1> HIDE DEF t, a1, a2, a3, a4, a5, a6, a7, a8, a9
  <1>6. Fine(A, t)
    <2>1. /\ Fine(Pk(t), t)
          /\ Fine(Created(t), t)
          /\ Fine(Updated(t), t)
          /\ Fine(OrgId(t), t)
      BY <1>2, FineClauses
    <2>2. /\ Fine(Required(t, a1), t)
          /\ Fine(Optional(t, a2), t)
          /\ Fine(Defaults(t, a3), t)
          /\ Fine(References(t, "CASCADE", a4), t)
          /\ Fine(References(t, "SET NULL", a5), t)
          /\ Fine(OneOf(t, a6, a7), t)
          /\ Fine(OneOf(t, a8, a9), t)
      BY <1>2, <1>3, FineClauses
    <2> QED BY <2>1, <2>2 DEF Fine
  <1>7. Linked(A)
    <2>1. Table(t, {"id"}) \subseteq A
      BY DEF Pk
    <2>2. OrgId(t) \subseteq A /\ Required(t, a1) \subseteq A
      OBVIOUS
    <2>3. References(t, "CASCADE", a4) \subseteq A
      OBVIOUS
    <2> HIDE DEF A
    <2> QED BY <1>4, <1>6, <2>1, <2>2, <2>3, Shaped
  <1> QED BY <1>1, <1>7

LEMMA ConversationLinked == Linked(Model!Conversation)
  <1> DEFINE t == "conversation"
             a1 == {"chatbot_id", "external_session_id", "message_count"}
             a2 == {"title"}
             a3 == {<<"message_count", "0">>}
             a4 == {<<"chatbot_id", "chatbot">>}
             a5 == {"chatbot_id", "external_session_id"}
             A == Pk(t) \cup Created(t) \cup Updated(t) \cup OrgId(t)
                      \cup Required(t, a1) \cup Optional(t, a2) \cup Defaults(t, a3)
                      \cup References(t, "CASCADE", a4) \cup Unique(t, a5)
  <1>1. Model!Conversation = A
    BY ConversationIs
  <1>2. /\ t # "organization"
        /\ a1 \cap CascadeKeys \subseteq KeysOf(t)
        /\ a2 \cap CascadeKeys \subseteq KeysOf(t)
    BY DEF KeysOf, CascadeKeys
  <1>3. \A q \in a4 : q[1] \in KeysOf(t) /\ q[2] = TargetOf(q[1])
    BY DEF KeysOf, CascadeKeys, TargetOf
  <1>4. \A c \in KeysOf(t) : c # "org_id" => c \in a1 /\ <<c, TargetOf(c)>> \in a4
    BY DEF KeysOf, CascadeKeys, TargetOf
  <1> HIDE DEF t, a1, a2, a3, a4, a5
  <1>6. Fine(A, t)
    <2>1. /\ Fine(Pk(t), t)
          /\ Fine(Created(t), t)
          /\ Fine(Updated(t), t)
          /\ Fine(OrgId(t), t)
      BY <1>2, FineClauses
    <2>2. /\ Fine(Required(t, a1), t)
          /\ Fine(Optional(t, a2), t)
          /\ Fine(Defaults(t, a3), t)
          /\ Fine(References(t, "CASCADE", a4), t)
          /\ Fine(Unique(t, a5), t)
      BY <1>2, <1>3, FineClauses
    <2> QED BY <2>1, <2>2 DEF Fine
  <1>7. Linked(A)
    <2>1. Table(t, {"id"}) \subseteq A
      BY DEF Pk
    <2>2. OrgId(t) \subseteq A /\ Required(t, a1) \subseteq A
      OBVIOUS
    <2>3. References(t, "CASCADE", a4) \subseteq A
      OBVIOUS
    <2> HIDE DEF A
    <2> QED BY <1>4, <1>6, <2>1, <2>2, <2>3, Shaped
  <1> QED BY <1>1, <1>7

LEMMA MessageLinked == Linked(FirstMessages)
  <1> DEFINE t == "message"
             a1 == {"conversation_id", "chatbot_id", "role", "content"}
             a2 == {"sources_json", "prompt_tokens", "completion_tokens", "latency_ms"}
             a3 == {<<"conversation_id", "conversation">>, <<"chatbot_id", "chatbot">>}
             a4 == "role"
             a5 == {"user", "assistant"}
             A == Pk(t) \cup Created(t) \cup OrgId(t) \cup Required(t, a1)
                      \cup Optional(t, a2) \cup References(t, "CASCADE", a3)
                      \cup OneOf(t, a4, a5)
  <1>1. FirstMessages = A
    BY DEF FirstMessages
  <1>2. /\ t # "organization"
        /\ a1 \cap CascadeKeys \subseteq KeysOf(t)
        /\ a2 \cap CascadeKeys \subseteq KeysOf(t)
    BY DEF KeysOf, CascadeKeys
  <1>3. \A q \in a3 : q[1] \in KeysOf(t) /\ q[2] = TargetOf(q[1])
    BY DEF KeysOf, CascadeKeys, TargetOf
  <1>4. \A c \in KeysOf(t) : c # "org_id" => c \in a1 /\ <<c, TargetOf(c)>> \in a3
    BY DEF KeysOf, CascadeKeys, TargetOf
  <1> HIDE DEF t, a1, a2, a3, a4, a5
  <1>6. Fine(A, t)
    <2>1. /\ Fine(Pk(t), t)
          /\ Fine(Created(t), t)
          /\ Fine(OrgId(t), t)
      BY <1>2, FineClauses
    <2>2. /\ Fine(Required(t, a1), t)
          /\ Fine(Optional(t, a2), t)
          /\ Fine(References(t, "CASCADE", a3), t)
          /\ Fine(OneOf(t, a4, a5), t)
      BY <1>2, <1>3, FineClauses
    <2> QED BY <2>1, <2>2 DEF Fine
  <1>7. Linked(A)
    <2>1. Table(t, {"id"}) \subseteq A
      BY DEF Pk
    <2>2. OrgId(t) \subseteq A /\ Required(t, a1) \subseteq A
      OBVIOUS
    <2>3. References(t, "CASCADE", a3) \subseteq A
      OBVIOUS
    <2> HIDE DEF A
    <2> QED BY <1>4, <1>6, <2>1, <2>2, <2>3, Shaped
  <1> QED BY <1>1, <1>7

LEMMA InvitationLinked == Linked(Model!Invitation)
  <1> DEFINE t == "invitation"
             a1 == {"email", "role", "token_hash", "status", "expires_at"}
             a2 == {"invited_by", "accepted_at"}
             a3 == {<<"invited_by", "app_user">>}
             a4 == {"token_hash"}
             a5 == {"org_id", "email"}
             a6 == "status = 'pending'"
             a7 == "role"
             a8 == {"owner", "admin", "member"}
             a9 == "status"
             a10 == {"pending", "accepted", "revoked"}
             A == Pk(t) \cup Created(t) \cup Updated(t) \cup OrgId(t)
                      \cup Required(t, a1) \cup Optional(t, a2)
                      \cup References(t, "SET NULL", a3) \cup Unique(t, a4)
                      \cup UniqueWhere(t, a5, a6) \cup OneOf(t, a7, a8)
                      \cup OneOf(t, a9, a10)
  <1>1. Model!Invitation = A
    BY InvitationIs
  <1>2. /\ t # "organization"
        /\ a1 \cap CascadeKeys \subseteq KeysOf(t)
        /\ a2 \cap CascadeKeys \subseteq KeysOf(t)
    BY DEF KeysOf, CascadeKeys
  <1>4. \A c \in KeysOf(t) : c = "org_id"
    BY DEF KeysOf, CascadeKeys
  <1> HIDE DEF t, a1, a2, a3, a4, a5, a6, a7, a8, a9, a10
  <1>6. Fine(A, t)
    <2>1. /\ Fine(Pk(t), t)
          /\ Fine(Created(t), t)
          /\ Fine(Updated(t), t)
          /\ Fine(OrgId(t), t)
      BY <1>2, FineClauses
    <2>2. /\ Fine(Required(t, a1), t)
          /\ Fine(Optional(t, a2), t)
          /\ Fine(References(t, "SET NULL", a3), t)
          /\ Fine(Unique(t, a4), t)
          /\ Fine(UniqueWhere(t, a5, a6), t)
          /\ Fine(OneOf(t, a7, a8), t)
          /\ Fine(OneOf(t, a9, a10), t)
      BY <1>2, FineClauses
    <2> QED BY <2>1, <2>2 DEF Fine
  <1>7. Linked(A)
    <2>1. Table(t, {"id"}) \subseteq A
      BY DEF Pk
    <2>2. OrgId(t) \subseteq A /\ Required(t, a1) \subseteq A
      OBVIOUS
    <2>3. References(t, "CASCADE", {}) \subseteq A
      BY DEF References
    <2> HIDE DEF A
    <2> QED BY <1>4, <1>6, <2>1, <2>2, <2>3, Shaped
  <1> QED BY <1>1, <1>7

LEMMA AIConfigLinked == Linked(Model!ChatbotAIConfig)
  <1> DEFINE t == "chatbot_ai_config"
             a1 == {"chatbot_id", "chat_provider", "chat_model", "chat_config_json",
                    "embedding_provider", "embedding_model", "embedding_config_json"}
             a2 == {"chat_credentials_encrypted", "embedding_credentials_encrypted", "embedding_dimension"}
             a3 == {<<"chat_config_json", "{}">>, <<"embedding_config_json", "{}">>}
             a4 == {<<"chatbot_id", "chatbot">>}
             a5 == {"chatbot_id"}
             a6 == "chat_provider"
             a7 == {"azure", "bedrock", "anthropic", "ollama"}
             a8 == "embedding_provider"
             a9 == {"azure", "bedrock", "ollama"}
             A == Pk(t) \cup Created(t) \cup Updated(t) \cup OrgId(t)
                      \cup Required(t, a1) \cup Optional(t, a2) \cup Defaults(t, a3)
                      \cup References(t, "CASCADE", a4) \cup Unique(t, a5)
                      \cup OneOf(t, a6, a7) \cup OneOf(t, a8, a9)
  <1>1. Model!ChatbotAIConfig = A
    BY AIConfigIs
  <1>2. /\ t # "organization"
        /\ a1 \cap CascadeKeys \subseteq KeysOf(t)
        /\ a2 \cap CascadeKeys \subseteq KeysOf(t)
    BY DEF KeysOf, CascadeKeys
  <1>3. \A q \in a4 : q[1] \in KeysOf(t) /\ q[2] = TargetOf(q[1])
    BY DEF KeysOf, CascadeKeys, TargetOf
  <1>4. \A c \in KeysOf(t) : c # "org_id" => c \in a1 /\ <<c, TargetOf(c)>> \in a4
    BY DEF KeysOf, CascadeKeys, TargetOf
  <1> HIDE DEF t, a1, a2, a3, a4, a5, a6, a7, a8, a9
  <1>6. Fine(A, t)
    <2>1. /\ Fine(Pk(t), t)
          /\ Fine(Created(t), t)
          /\ Fine(Updated(t), t)
          /\ Fine(OrgId(t), t)
      BY <1>2, FineClauses
    <2>2. /\ Fine(Required(t, a1), t)
          /\ Fine(Optional(t, a2), t)
          /\ Fine(Defaults(t, a3), t)
          /\ Fine(References(t, "CASCADE", a4), t)
          /\ Fine(Unique(t, a5), t)
          /\ Fine(OneOf(t, a6, a7), t)
          /\ Fine(OneOf(t, a8, a9), t)
      BY <1>2, <1>3, FineClauses
    <2> QED BY <2>1, <2>2 DEF Fine
  <1>7. Linked(A)
    <2>1. Table(t, {"id"}) \subseteq A
      BY DEF Pk
    <2>2. OrgId(t) \subseteq A /\ Required(t, a1) \subseteq A
      OBVIOUS
    <2>3. References(t, "CASCADE", a4) \subseteq A
      OBVIOUS
    <2> HIDE DEF A
    <2> QED BY <1>4, <1>6, <2>1, <2>2, <2>3, Shaped
  <1> QED BY <1>1, <1>7

LEMMA ChunksLinked == Linked(PartitionedChunks)
  <1> DEFINE t == "document_chunk"
             key == {"id", "embedding_dim"}
             a1 == {"id", "document_id", "chatbot_id", "chunk_index", "content", "token_count",
                    "embedding_dim", "embedding", "metadata_json"}
             a2 == {<<"id", "uuid">>, <<"token_count", "0">>, <<"metadata_json", "{}">>}
             a3 == {<<"document_id", "document">>, <<"chatbot_id", "chatbot">>}
             a4 == {"document_id", "chunk_index", "embedding_dim"}
             A == Table(t, key) \cup Created(t) \cup OrgId(t) \cup Required(t, a1)
                      \cup Defaults(t, a2) \cup References(t, "CASCADE", a3)
                      \cup Unique(t, a4)
             B == UNION {Partition(t, ChunkPartition(w), w) : w \in Dimensions \cup {Default}}
             E == UNION {Hnsw(ChunkPartition(w)) : w \in Dimensions}
  <1>1. PartitionedChunks = A \cup B \cup E
    BY DEF PartitionedChunks
  <1>2. /\ t # "organization"
        /\ a1 \cap CascadeKeys \subseteq KeysOf(t)
    BY DEF KeysOf, CascadeKeys
  <1>3. \A q \in a3 : q[1] \in KeysOf(t) /\ q[2] = TargetOf(q[1])
    BY DEF KeysOf, CascadeKeys, TargetOf
  <1>4. \A c \in KeysOf(t) : c # "org_id" => c \in a1 /\ <<c, TargetOf(c)>> \in a3
    BY DEF KeysOf, CascadeKeys, TargetOf
  <1>5. \A f \in B \cup E : ~Core(f)
    BY PartitionIs, HnswIs DEF Core
  <1> HIDE DEF t, key, a1, a2, a3, a4
  <1>6. Fine(A, t)
    <2>1. /\ Fine(Table(t, key), t)
          /\ Fine(Created(t), t)
          /\ Fine(OrgId(t), t)
      BY <1>2, FineClauses
    <2>2. /\ Fine(Required(t, a1), t)
          /\ Fine(Defaults(t, a2), t)
          /\ Fine(References(t, "CASCADE", a3), t)
          /\ Fine(Unique(t, a4), t)
      BY <1>2, <1>3, FineClauses
    <2> QED BY <2>1, <2>2 DEF Fine
  <1>7. Linked(A)
    <2>1. Table(t, key) \subseteq A
      OBVIOUS
    <2>2. OrgId(t) \subseteq A /\ Required(t, a1) \subseteq A
      OBVIOUS
    <2>3. References(t, "CASCADE", a3) \subseteq A
      OBVIOUS
    <2> HIDE DEF A
    <2> QED BY <1>4, <1>6, <2>1, <2>2, <2>3, Shaped
  <1>8. \A f : Core(f) => (f \in PartitionedChunks <=> f \in A)
    <2> HIDE DEF A, B, E
    <2> QED BY <1>1, <1>5
  <1> HIDE DEF A
  <1> QED BY <1>7, <1>8, LinkedSame

LEMMA TicketLinked == Linked(TicketTable)
  <1> DEFINE t == "ticket"
             a1 == {"chatbot_id", "conversation_id", "visitor_email", "status", "priority", "source"}
             a2 == {"visitor_name", "subject", "escalation_reason", "assigned_to", "resolved_at"}
             a3 == {<<"chatbot_id", "chatbot">>, <<"conversation_id", "conversation">>}
             a4 == {<<"assigned_to", "app_user">>}
             a5 == "status"
             a6 == {"open", "pending", "resolved", "closed"}
             a7 == "priority"
             a8 == {"low", "normal", "high", "urgent"}
             a9 == "source"
             a10 == {"ai_escalation", "visitor_contact_form"}
             A == Pk(t) \cup Created(t) \cup Updated(t) \cup OrgId(t)
                      \cup Required(t, a1) \cup Optional(t, a2)
                      \cup References(t, "CASCADE", a3) \cup References(t, "SET NULL", a4)
                      \cup OneOf(t, a5, a6) \cup OneOf(t, a7, a8) \cup OneOf(t, a9, a10)
  <1>1. TicketTable = A
    BY DEF TicketTable
  <1>2. /\ t # "organization"
        /\ a1 \cap CascadeKeys \subseteq KeysOf(t)
        /\ a2 \cap CascadeKeys \subseteq KeysOf(t)
    BY DEF KeysOf, CascadeKeys
  <1>3. \A q \in a3 : q[1] \in KeysOf(t) /\ q[2] = TargetOf(q[1])
    BY DEF KeysOf, CascadeKeys, TargetOf
  <1>4. \A c \in KeysOf(t) : c # "org_id" => c \in a1 /\ <<c, TargetOf(c)>> \in a3
    BY DEF KeysOf, CascadeKeys, TargetOf
  <1> HIDE DEF t, a1, a2, a3, a4, a5, a6, a7, a8, a9, a10
  <1>6. Fine(A, t)
    <2>1. /\ Fine(Pk(t), t)
          /\ Fine(Created(t), t)
          /\ Fine(Updated(t), t)
          /\ Fine(OrgId(t), t)
      BY <1>2, FineClauses
    <2>2. /\ Fine(Required(t, a1), t)
          /\ Fine(Optional(t, a2), t)
          /\ Fine(References(t, "CASCADE", a3), t)
          /\ Fine(References(t, "SET NULL", a4), t)
          /\ Fine(OneOf(t, a5, a6), t)
          /\ Fine(OneOf(t, a7, a8), t)
          /\ Fine(OneOf(t, a9, a10), t)
      BY <1>2, <1>3, FineClauses
    <2> QED BY <2>1, <2>2 DEF Fine
  <1>7. Linked(A)
    <2>1. Table(t, {"id"}) \subseteq A
      BY DEF Pk
    <2>2. OrgId(t) \subseteq A /\ Required(t, a1) \subseteq A
      OBVIOUS
    <2>3. References(t, "CASCADE", a3) \subseteq A
      OBVIOUS
    <2> HIDE DEF A
    <2> QED BY <1>4, <1>6, <2>1, <2>2, <2>3, Shaped
  <1> QED BY <1>1, <1>7

LEMMA NotesLinked == Linked(PartitionedMemory)
  <1> DEFINE t == "memory_entry"
             key == {"id", "embedding_dim"}
             a1 == {"id", "chatbot_id", "subject_id", "subject_type", "content", "memory_type",
                    "embedding_dim", "embedding", "last_referenced_at"}
             a2 == {"source_conversation_id"}
             a3 == {<<"id", "uuid">>, <<"subject_type", "visitor">>, <<"memory_type", "fact">>,
                    <<"last_referenced_at", "now">>}
             a4 == {<<"chatbot_id", "chatbot">>}
             a5 == {<<"source_conversation_id", "conversation">>}
             a6 == "subject_type"
             a7 == {"visitor", "staff_user"}
             a8 == "memory_type"
             a9 == {"preference", "fact", "context"}
             A == Table(t, key) \cup Created(t) \cup OrgId(t) \cup Required(t, a1)
                      \cup Optional(t, a2) \cup Defaults(t, a3)
                      \cup References(t, "CASCADE", a4) \cup References(t, "SET NULL", a5)
                      \cup OneOf(t, a6, a7) \cup OneOf(t, a8, a9)
             B == UNION {Partition(t, MemoryPartition(w), w) : w \in Dimensions \cup {Default}}
             E == UNION {Hnsw(MemoryPartition(w)) : w \in Dimensions}
  <1>1. PartitionedMemory = A \cup B \cup E
    BY DEF PartitionedMemory
  <1>2. /\ t # "organization"
        /\ a1 \cap CascadeKeys \subseteq KeysOf(t)
        /\ a2 \cap CascadeKeys \subseteq KeysOf(t)
    BY DEF KeysOf, CascadeKeys
  <1>3. \A q \in a4 : q[1] \in KeysOf(t) /\ q[2] = TargetOf(q[1])
    BY DEF KeysOf, CascadeKeys, TargetOf
  <1>4. \A c \in KeysOf(t) : c # "org_id" => c \in a1 /\ <<c, TargetOf(c)>> \in a4
    BY DEF KeysOf, CascadeKeys, TargetOf
  <1>5. \A f \in B \cup E : ~Core(f)
    BY PartitionIs, HnswIs DEF Core
  <1> HIDE DEF t, key, a1, a2, a3, a4, a5, a6, a7, a8, a9
  <1>6. Fine(A, t)
    <2>1. /\ Fine(Table(t, key), t)
          /\ Fine(Created(t), t)
          /\ Fine(OrgId(t), t)
      BY <1>2, FineClauses
    <2>2. /\ Fine(Required(t, a1), t)
          /\ Fine(Optional(t, a2), t)
          /\ Fine(Defaults(t, a3), t)
          /\ Fine(References(t, "CASCADE", a4), t)
          /\ Fine(References(t, "SET NULL", a5), t)
          /\ Fine(OneOf(t, a6, a7), t)
          /\ Fine(OneOf(t, a8, a9), t)
      BY <1>2, <1>3, FineClauses
    <2> QED BY <2>1, <2>2 DEF Fine
  <1>7. Linked(A)
    <2>1. Table(t, key) \subseteq A
      OBVIOUS
    <2>2. OrgId(t) \subseteq A /\ Required(t, a1) \subseteq A
      OBVIOUS
    <2>3. References(t, "CASCADE", a4) \subseteq A
      OBVIOUS
    <2> HIDE DEF A
    <2> QED BY <1>4, <1>6, <2>1, <2>2, <2>3, Shaped
  <1>8. \A f : Core(f) => (f \in PartitionedMemory <=> f \in A)
    <2> HIDE DEF A, B, E
    <2> QED BY <1>1, <1>5
  <1> HIDE DEF A
  <1> QED BY <1>7, <1>8, LinkedSame

LEMMA UsageLinked == Linked(UsageTable)
  <1> DEFINE t == "chatbot_usage_period"
             key == {"chatbot_id", "period_start"}
             a1 == {"chatbot_id", "period_start", "ingestion_units_used", "retrieval_calls_used"}
             a2 == {<<"ingestion_units_used", "0">>, <<"retrieval_calls_used", "0">>}
             a3 == {<<"chatbot_id", "chatbot">>}
             a4 == "ingestion_units_used"
             a5 == "any"
             a6 == "retrieval_calls_used"
             a7 == "any"
             A == Table(t, key) \cup Created(t) \cup Updated(t) \cup OrgId(t)
                      \cup Required(t, a1) \cup Defaults(t, a2)
                      \cup References(t, "CASCADE", a3) \cup Between(t, a4, 0, a5)
                      \cup Between(t, a6, 0, a7)
  <1>1. UsageTable = A
    BY DEF UsageTable
  <1>2. /\ t # "organization"
        /\ a1 \cap CascadeKeys \subseteq KeysOf(t)
    BY DEF KeysOf, CascadeKeys
  <1>3. \A q \in a3 : q[1] \in KeysOf(t) /\ q[2] = TargetOf(q[1])
    BY DEF KeysOf, CascadeKeys, TargetOf
  <1>4. \A c \in KeysOf(t) : c # "org_id" => c \in a1 /\ <<c, TargetOf(c)>> \in a3
    BY DEF KeysOf, CascadeKeys, TargetOf
  <1> HIDE DEF t, key, a1, a2, a3, a4, a5, a6, a7
  <1>6. Fine(A, t)
    <2>1. /\ Fine(Table(t, key), t)
          /\ Fine(Created(t), t)
          /\ Fine(Updated(t), t)
          /\ Fine(OrgId(t), t)
      BY <1>2, FineClauses
    <2>2. /\ Fine(Required(t, a1), t)
          /\ Fine(Defaults(t, a2), t)
          /\ Fine(References(t, "CASCADE", a3), t)
          /\ Fine(Between(t, a4, 0, a5), t)
          /\ Fine(Between(t, a6, 0, a7), t)
      BY <1>2, <1>3, FineClauses
    <2> QED BY <2>1, <2>2 DEF Fine
  <1>7. Linked(A)
    <2>1. Table(t, key) \subseteq A
      OBVIOUS
    <2>2. OrgId(t) \subseteq A /\ Required(t, a1) \subseteq A
      OBVIOUS
    <2>3. References(t, "CASCADE", a3) \subseteq A
      OBVIOUS
    <2> HIDE DEF A
    <2> QED BY <1>4, <1>6, <2>1, <2>2, <2>3, Shaped
  <1> QED BY <1>1, <1>7

LEMMA FirstChunksLinked == Linked(InitialChunks)
  <1> DEFINE t == "document_chunk"
             a1 == {"document_id", "chatbot_id", "chunk_index", "content", "token_count",
                    "embedding", "metadata_json"}
             a2 == {<<"token_count", "0">>, <<"metadata_json", "{}">>}
             a3 == {<<"document_id", "document">>, <<"chatbot_id", "chatbot">>}
             a4 == {"document_id", "chunk_index"}
             A == Pk(t) \cup Created(t) \cup OrgId(t) \cup Required(t, a1)
                      \cup Defaults(t, a2) \cup References(t, "CASCADE", a3)
                      \cup Unique(t, a4)
             B == {<<"width", t, "embedding", LegacyDimension>>}
  <1>1. InitialChunks = A \cup B
    BY DEF InitialChunks
  <1>2. /\ t # "organization"
        /\ a1 \cap CascadeKeys \subseteq KeysOf(t)
    BY DEF KeysOf, CascadeKeys
  <1>3. \A q \in a3 : q[1] \in KeysOf(t) /\ q[2] = TargetOf(q[1])
    BY DEF KeysOf, CascadeKeys, TargetOf
  <1>4. \A c \in KeysOf(t) : c # "org_id" => c \in a1 /\ <<c, TargetOf(c)>> \in a3
    BY DEF KeysOf, CascadeKeys, TargetOf
  <1>5. \A f \in B : ~Core(f)
    BY DEF Core
  <1> HIDE DEF t, a1, a2, a3, a4
  <1>6. Fine(A, t)
    <2>1. /\ Fine(Pk(t), t)
          /\ Fine(Created(t), t)
          /\ Fine(OrgId(t), t)
      BY <1>2, FineClauses
    <2>2. /\ Fine(Required(t, a1), t)
          /\ Fine(Defaults(t, a2), t)
          /\ Fine(References(t, "CASCADE", a3), t)
          /\ Fine(Unique(t, a4), t)
      BY <1>2, <1>3, FineClauses
    <2> QED BY <2>1, <2>2 DEF Fine
  <1>7. Linked(A)
    <2>1. Table(t, {"id"}) \subseteq A
      BY DEF Pk
    <2>2. OrgId(t) \subseteq A /\ Required(t, a1) \subseteq A
      OBVIOUS
    <2>3. References(t, "CASCADE", a3) \subseteq A
      OBVIOUS
    <2> HIDE DEF A
    <2> QED BY <1>4, <1>6, <2>1, <2>2, <2>3, Shaped
  <1>8. \A f : Core(f) => (f \in InitialChunks <=> f \in A)
    <2> HIDE DEF A, B
    <2> QED BY <1>1, <1>5
  <1> HIDE DEF A
  <1> QED BY <1>7, <1>8, LinkedSame

\* The organisation, whose key no other table lacks, has none itself.
LEMMA OrganizationLinked == Linked(Model!Organization)
  <1> DEFINE t == "organization"
             a1 == {"name", "slug", "plan"}
             a2 == {"slug"}
             a3 == "plan"
             a4 == {"free", "pro", "enterprise"}
             A == Pk(t) \cup Created(t) \cup Updated(t) \cup Required(t, a1) \cup Unique(t, a2)
                      \cup OneOf(t, a3, a4)
  <1>1. Model!Organization = A
    BY OrganizationIs
  <1>2. a1 \cap CascadeKeys \subseteq KeysOf(t) /\ KeysOf(t) = {}
    BY DEF KeysOf, CascadeKeys
  <1>3. <<"table", t>> \in Pk(t)
    BY TableOf
  <1>4. <<"table", t>>[2] = t
    OBVIOUS
  <1> HIDE DEF t, a1, a2, a3, a4
  <1>5. Fine(A, t)
    <2>1. Fine(Pk(t), t) /\ Fine(Created(t), t) /\ Fine(Updated(t), t)
      BY FineClauses
    <2>2. Fine(Required(t, a1), t) /\ Fine(Unique(t, a2), t) /\ Fine(OneOf(t, a3, a4), t)
      BY <1>2, FineClauses
    <2> QED BY <2>1, <2>2 DEF Fine
  <1>6. <<"table", t>> \in A
    BY <1>3
  <1> HIDE DEF A
  <1>7. \A f \in A : Core(f) => <<"table", f[2]>> \in A /\ RightKey(f)
    BY <1>5, <1>6 DEF Fine
  <1>8. ASSUME NEW v, <<"table", v>> \in A PROVE v = t
    <2> DEFINE g == <<"table", v>>
    <2>1. Core(g) /\ g \in A /\ g[2] = v
      BY <1>8 DEF Core
    <2> HIDE DEF g
    <2> QED BY <1>5, <2>1 DEF Fine
  <1>9. Linked(A)
    BY <1>2, <1>7, <1>8 DEF Linked
  <1> QED BY <1>1, <1>9

\* Which clauses add no key.
LEMMA ExtraClauses ==
  ASSUME NEW t
  PROVE  /\ \A r : r \cap CascadeKeys = {} => Extra(Required(t, r), t) /\ Extra(Optional(t, r), t)
         /\ \A p : Extra(Defaults(t, p), t) /\ Extra(References(t, "SET NULL", p), t)
         /\ \A A, B : Extra(A, t) /\ Extra(B, t) => Extra(A \cup B, t)
  <1>1. \A r : r \cap CascadeKeys = {} => Extra(Required(t, r), t) /\ Extra(Optional(t, r), t)
    BY RequiredIs, RequiredNames, OptionalIs, OptionalNames DEF Extra, RightKey, Names3
  <1>2. \A p : Extra(Defaults(t, p), t)
    BY DefaultsIs DEF Extra, Core
  <1>3. \A p : Extra(References(t, "SET NULL", p), t)
    BY FineClauses, ReferencesIs DEF Extra, Fine
  <1>4. \A A, B : Extra(A, t) /\ Extra(B, t) => Extra(A \cup B, t)
    BY DEF Extra
  <1> QED BY <1>1, <1>2, <1>3, <1>4

\* The columns of the later revisions do not.
LEMMA NewColumnsExtra ==
  /\ Extra(Theme, "chatbot") /\ Extra(Retention, "chatbot") /\ Extra(Links, "chatbot")
  /\ Extra(MemoryWindow, "chatbot") /\ Extra(Caps, "chatbot") /\ Extra(Floors, "chatbot")
  /\ Extra(StaffAuthor, "message")
  <1> DEFINE t == "chatbot"
             a == {"theme_json"}
             b == {"retention_days"}
             c == {"privacy_url", "terms_url"}
             d == {"nuvrag_mem_retention_days"}
             e == CapColumns
             g == {"usage_cap_message"}
             h == ThresholdColumns \cup {TimestampColumn}
             k == {"staff_user_id"}
             x1 == {<<"theme_json", "{}">>}
             x2 == {<<"privacy_url", "">>, <<"terms_url", "">>}
             x3 == {<<"usage_cap_message", "the default message">>}
             x4 == {<<"staff_user_id", "app_user">>}
             y1 == "retention_days"
             y2 == "nuvrag_mem_retention_days"
  <1>1. /\ a \cap CascadeKeys = {} /\ b \cap CascadeKeys = {} /\ c \cap CascadeKeys = {}
        /\ d \cap CascadeKeys = {} /\ e \cap CascadeKeys = {} /\ g \cap CascadeKeys = {}
        /\ h \cap CascadeKeys = {} /\ k \cap CascadeKeys = {}
    BY DEF CascadeKeys, CapColumns, ThresholdColumns, TimestampColumn
  <1>2. /\ Theme = Required(t, a) \cup Defaults(t, x1)
        /\ Retention = Optional(t, b) \cup Between(t, y1, 1, 3650)
        /\ Links = Required(t, c) \cup Defaults(t, x2)
        /\ MemoryWindow = Optional(t, d) \cup Between(t, y2, 1, 3650)
        /\ Caps = Optional(t, e) \cup (UNION {Between(t, z, 1, CapMax) : z \in CapColumns})
                    \cup Required(t, g) \cup Defaults(t, x3)
        /\ Floors = Optional(t, h) \cup (UNION {Between(t, z, 0, 1) : z \in ThresholdColumns})
        /\ StaffAuthor = Optional("message", k) \cup References("message", "SET NULL", x4)
    BY DEF Theme, Retention, Links, MemoryWindow, Caps, Floors, StaffAuthor
  <1> HIDE DEF t, a, b, c, d, e, g, h, k, x1, x2, x3, x4, y1, y2
  <1>3. Extra(Theme, t) /\ Extra(Links, t)
    BY <1>1, <1>2, ExtraClauses
  <1>4. Extra(Retention, t) /\ Extra(MemoryWindow, t)
    <2> DEFINE q == Between(t, y1, 1, 3650)
               r == Between(t, y2, 1, 3650)
    <2>1. Extra(q, t) /\ Extra(r, t)
      BY BetweenIs DEF Extra, Core
    <2>2. Extra(Optional(t, b), t) /\ Extra(Optional(t, d), t)
      BY <1>1, ExtraClauses
    <2>3. Retention = Optional(t, b) \cup q /\ MemoryWindow = Optional(t, d) \cup r
      BY <1>2
    <2> HIDE DEF q, r
    <2> QED BY <2>1, <2>2, <2>3, ExtraClauses
  <1>5. Extra(Caps, t)
    <2> DEFINE r == UNION {Between(t, z, 1, CapMax) : z \in CapColumns}
    <2>1. Extra(r, t)
      BY BetweenIs DEF Extra, Core
    <2>2. Extra(Optional(t, e), t) /\ Extra(Required(t, g), t) /\ Extra(Defaults(t, x3), t)
      BY <1>1, ExtraClauses
    <2>3. Caps = Optional(t, e) \cup r \cup Required(t, g) \cup Defaults(t, x3)
      BY <1>2
    <2> HIDE DEF r
    <2> QED BY <2>1, <2>2, <2>3, ExtraClauses
  <1>6. Extra(Floors, t)
    <2> DEFINE r == UNION {Between(t, z, 0, 1) : z \in ThresholdColumns}
    <2>1. Extra(r, t)
      BY BetweenIs DEF Extra, Core
    <2>2. Extra(Optional(t, h), t)
      BY <1>1, ExtraClauses
    <2>3. Floors = Optional(t, h) \cup r
      BY <1>2
    <2> HIDE DEF r
    <2> QED BY <2>1, <2>2, <2>3, ExtraClauses
  <1>7. Extra(StaffAuthor, "message")
    BY <1>1, <1>2, ExtraClauses
  <1> QED BY <1>3, <1>4, <1>5, <1>6, <1>7 DEF t

-----------------------------------------------------------------------------
\* No swap of a check, and nothing the comparison overlooks, concerns a key.
LEMMA CoreIs == \A f : Core(f) => IncludeObject(f) /\ \A t : ~IsList(f, t) /\ \A n : f # ListFact(t, n)
  BY DEF Core, IncludeObject, IsList, ListFact
LEMMA CoreTable == \A t : Core(<<"table", t>>)
  BY DEF Core

\* It survives a new table, what is no key, and new columns.
LEMMA BoundMore ==
  ASSUME NEW s, NEW u, NEW A, Bound(s), Linked(A), \A f : Core(f) => (f \in u <=> f \in s \/ f \in A)
  PROVE  Bound(u)
  BY LinkedMore, CoreTable DEF Bound

LEMMA BoundSame ==
  ASSUME NEW s, NEW u, Bound(s), \A f : Core(f) => (f \in u <=> f \in s)
  PROVE  Bound(u)
  BY LinkedSame, CoreTable DEF Bound

LEMMA BoundColumns ==
  ASSUME NEW s, NEW u, NEW X, NEW t \in FirstSeven, Bound(s), Extra(X, t),
         \A f : Core(f) => (f \in u <=> f \in s \/ f \in X)
  PROVE  Bound(u)
  <1> DEFINE w == s \cup X
  <1>1. \A f : f \in w <=> f \in s \/ f \in X
    OBVIOUS
  <1>2. \A f \in X : Core(f) => /\ f[2] = t /\ f[1] # "table" /\ RightKey(f)
    BY DEF Extra
  <1> HIDE DEF w
  <1>3. Linked(w)
    BY <1>1, <1>2, LinkedColumns DEF Bound
  <1>4. Bound(w)
    BY <1>1, <1>3 DEF Bound
  <1> QED BY <1>1, <1>4, BoundSame

\* Up to 0007 the chunks' table is the first one; 0008 replaces it.
LEMMA BoundReplaced ==
  ASSUME NEW s, NEW u, Bound(s),
         \A f : Core(f) => (f \in u <=> f \in PartitionedChunks \/ (f \in s /\ f[2] # "document_chunk"))
  PROVE  Bound(u)
  <1> DEFINE c == "document_chunk"
             w == {f \in s : f[2] # c}
  <1>1. \A f : f \in w <=> f \in s /\ f[2] # c
    OBVIOUS
  <1> HIDE DEF w
  <1>2. Linked(w)
    BY <1>1, LinkedLess DEF Bound
  <1>3. Linked(u)
    BY <1>1, <1>2, ChunksLinked, LinkedMore DEF c
  <1>4. ASSUME NEW t \in FirstSeven PROVE <<"table", t>> \in u
    <2> DEFINE g == <<"table", t>>
    <2>1. Core(g) /\ g[2] = t /\ g \in s
      BY CoreTable DEF Bound
    <2>2. t = c => g \in PartitionedChunks
      BY DEF PartitionedChunks, Table
    <2> HIDE DEF g
    <2>3. g \in u
      BY <2>1, <2>2 DEF c
    <2> QED BY <2>3 DEF g
  <1> QED BY <1>3, <1>4 DEF Bound

\* Every schema from 0002 on.
LEMMA FirstBound == Bound(SchemaAt[3])
  <1> DEFINE a == Model!Organization
             b == Model!User
             c == FirstChatbots
             d == InitialDocument
             e == InitialChunks
             g == Model!Conversation
             h == FirstMessages
             v2 == a \cup b
             v3 == v2 \cup c
             v4 == v3 \cup d
             v5 == v4 \cup e
             v6 == v5 \cup g
             v7 == v6 \cup h
             s == SchemaAt[3]
  <1>1. s = Up2(Extensions)
    BY SchemasAre, Chain
  <1>2. \A f : Core(f) => (f \in s <=> f \in v7)
    <2>1. \A f : IncludeObject(f) =>
            (f \in s <=> \/ f \in InitialTenants \/ f \in InitialDocument
                         \/ f \in InitialChunks \/ f \in InitialConversations)
      BY <1>1, TwoShows
    <2>2. /\ \A f : f \in InitialTenants <=> f \in a \/ f \in b \/ f \in c
          /\ \A f : f \in InitialConversations <=> f \in g \/ f \in h
      BY TenantsSplit, ConversationsSplit
    <2> HIDE DEF a, b, c, g, h, s
    <2> QED BY <2>1, <2>2, CoreIs
  <1>3. Linked(a) /\ Linked(b) /\ Linked(c) /\ Linked(d) /\ Linked(e) /\ Linked(g) /\ Linked(h)
    BY OrganizationLinked, UserLinked, ChatbotLinked, DocumentLinked, FirstChunksLinked,
       ConversationLinked, MessageLinked
  <1>4. /\ <<"table", "organization">> \in a /\ <<"table", "app_user">> \in b
        /\ <<"table", "chatbot">> \in c /\ <<"table", "document">> \in d
        /\ <<"table", "document_chunk">> \in e /\ <<"table", "conversation">> \in g
        /\ <<"table", "message">> \in h
    <2>1. <<"table", "organization">> \in a
      BY OrganizationIs, TableOf
    <2>2. <<"table", "app_user">> \in b
      BY UserIs, TableOf
    <2>3. <<"table", "chatbot">> \in c /\ <<"table", "document">> \in d /\ <<"table", "message">> \in h
      BY TableOf DEF FirstChatbots, InitialDocument, FirstMessages
    <2>4. <<"table", "document_chunk">> \in e
      BY TableOf DEF InitialChunks
    <2>5. <<"table", "conversation">> \in g
      BY ConversationIs, TableOf
    <2> QED BY <2>1, <2>2, <2>3, <2>4, <2>5
  <1> HIDE DEF a, b, c, d, e, g, h, s
  <1>5. \A A, B : Linked(A) /\ Linked(B) => Linked(A \cup B)
    BY LinkedMore
  <1>6. Linked(v7)
    <2> HIDE DEF v2, v3, v4, v5, v6, v7
    <2>1. Linked(v2)
      BY <1>3, <1>5 DEF v2
    <2>2. Linked(v3)
      BY <1>3, <1>5, <2>1 DEF v3
    <2>3. Linked(v4)
      BY <1>3, <1>5, <2>2 DEF v4
    <2>4. Linked(v5)
      BY <1>3, <1>5, <2>3 DEF v5
    <2>5. Linked(v6)
      BY <1>3, <1>5, <2>4 DEF v6
    <2> QED BY <1>3, <1>5, <2>5 DEF v7
  <1>7. \A t \in FirstSeven : <<"table", t>> \in v7
    BY <1>4 DEF FirstSeven, TenantTables
  <1> HIDE DEF v7
  <1>8. Bound(v7)
    BY <1>6, <1>7 DEF Bound
  <1> QED BY <1>2, <1>8, BoundSame DEF s

\* 0003 to 0015, one by one.
LEMMA BoundAt == \A n \in 2..15 : Bound(SchemaAt[n + 1])
  <1> DEFINE s2 == SchemaAt[3]
             s3 == SchemaAt[4]
             s4 == SchemaAt[5]
             s5 == SchemaAt[6]
             s6 == SchemaAt[7]
             s7 == SchemaAt[8]
             s8 == SchemaAt[9]
             s9 == SchemaAt[10]
             s10 == SchemaAt[11]
             s11 == SchemaAt[12]
             s12 == SchemaAt[13]
             s13 == SchemaAt[14]
             s14 == SchemaAt[15]
             s15 == SchemaAt[16]
             c == "chatbot"
  <1>1. /\ s3 = Up3(s2) /\ s4 = Up4(s3) /\ s5 = Up5(s4) /\ s6 = Up6(s5) /\ s7 = Up7(s6)
        /\ s8 = Up8(s7) /\ s9 = Up9(s8) /\ s10 = Up10(s9) /\ s11 = Up11(s10) /\ s12 = Up12(s11)
        /\ s13 = Up13(s12) /\ s14 = Up14(s13) /\ s15 = Up15(s14)
        /\ Sound(s7, 7) /\ Sound(s11, 11)
    BY SchemasAre, Chain
  <1>2. Bound(s2)
    BY FirstBound
  <1>3. Covers(s2)
    BY SchemasAre, Chain, TwoShows
  <1>4. c \in FirstSeven /\ "message" \in FirstSeven
    BY DEF FirstSeven, TenantTables
  <1>5. /\ Extra(Theme, c) /\ Extra(Retention, c) /\ Extra(Links, c) /\ Extra(MemoryWindow, c)
        /\ Extra(Caps, c) /\ Extra(Floors, c) /\ Extra(StaffAuthor, "message")
    BY NewColumnsExtra
  <1> HIDE DEF s2, s3, s4, s5, s6, s7, s8, s9, s10, s11, s12, s13, s14, s15, c
  <1>6. Bound(s3) /\ Covers(s3)
    <2>1. Compared(s2, s3, {}) /\ Covers(s3)
      BY <1>1, <1>3, ThreeShows
    <2> QED BY <1>2, <2>1, CoreIs, BoundSame DEF Compared
  <1>7. Bound(s4) /\ Covers(s4)
    <2>1. /\ \A f : f \in s4 <=> f = ListFact("document", 4) \/ (f \in s3 /\ ~IsList(f, "document"))
          /\ Covers(s4)
      BY <1>1, <1>6, FourShows
    <2>2. \A f : Core(f) => (f \in s4 <=> f \in s3)
      BY <2>1, CoreIs
    <2> QED BY <1>6, <2>1, <2>2, BoundSame
  <1>8. Bound(s5) /\ Covers(s5)
    <2>1. Compared(s4, s5, Model!Invitation) /\ Covers(s5)
      BY <1>1, <1>7, FiveShows
    <2> QED BY <1>7, <2>1, CoreIs, InvitationLinked, BoundMore DEF Compared
  <1>9. Bound(s6) /\ Covers(s6)
    <2>1. \A f : f \in s6 <=> f \in s5 \/ f \in Theme
      BY <1>1, ColumnRevisions
    <2>2. Covers(s6)
      BY <1>8, <2>1, ColumnsLocated, ColumnsShow
    <2> QED BY <1>4, <1>5, <1>8, <2>1, <2>2, BoundColumns
  <1>10. Bound(s7) /\ Covers(s7)
    <2>1. Compared(s6, s7, Model!ChatbotAIConfig) /\ Covers(s7)
      BY <1>1, <1>9, SevenShows
    <2> QED BY <1>9, <2>1, CoreIs, AIConfigLinked, BoundMore DEF Compared
  <1>11. Bound(s8) /\ Covers(s8)
    <2>1. /\ \A f : IncludeObject(f) =>
               (f \in s8 <=> f \in Model!DocumentChunk \/ (f \in s7 /\ f[2] # "document_chunk"))
          /\ Covers(s8)
      BY <1>1, <1>10, EightShows
    <2>2. \A f : Core(f) =>
            (f \in s8 <=> f \in PartitionedChunks \/ (f \in s7 /\ f[2] # "document_chunk"))
      BY <2>1, CoreIs, ChunksAreModel
    <2> QED BY <1>10, <2>1, <2>2, BoundReplaced
  <1>12. Bound(s9) /\ Covers(s9)
    <2> DEFINE w == s8 \cup Model!Ticket
    <2>1. /\ \A f : IncludeObject(f) =>
               (f \in s9 <=> \/ f \in StaffAuthor
                             \/ f = ListFact("message", 9)
                             \/ (f \in s8 \/ f \in Model!Ticket) /\ ~IsList(f, "message"))
          /\ Covers(s9)
      BY <1>1, <1>11, NineShows
    <2>2. \A f : f \in w <=> f \in s8 \/ f \in Model!Ticket
      OBVIOUS
    <2> HIDE DEF w
    <2>3. Linked(Model!Ticket)
      BY TicketIs, TicketLinked
    <2>4. Bound(w)
      BY <1>11, <2>2, <2>3, BoundMore
    <2>5. \A f : Core(f) => (f \in s9 <=> f \in w \/ f \in StaffAuthor)
      BY <2>1, <2>2, CoreIs
    <2>6. Bound(s9)
      BY <1>4, <1>5, <2>4, <2>5, BoundColumns
    <2> QED BY <2>1, <2>6
  <1>13. Bound(s10) /\ Covers(s10)
    <2>1. \A f : f \in s10 <=> f \in s9 \/ f \in Retention
      BY <1>1, ColumnRevisions
    <2>2. Covers(s10)
      BY <1>12, <2>1, ColumnsLocated, ColumnsShow
    <2> QED BY <1>4, <1>5, <1>12, <2>1, <2>2, BoundColumns
  <1>14. Bound(s11) /\ Covers(s11)
    <2>1. \A f : f \in s11 <=> f \in s10 \/ f \in Links
      BY <1>1, ColumnRevisions
    <2>2. Covers(s11)
      BY <1>13, <2>1, ColumnsLocated, ColumnsShow
    <2> QED BY <1>4, <1>5, <1>13, <2>1, <2>2, BoundColumns
  <1>15. Bound(s13) /\ Covers(s13)
    <2> DEFINE w == s11 \cup Model!MemoryEntry
    <2>1. /\ \A f : IncludeObject(f) =>
               (f \in s13 <=> f \in s11 \/ f \in Model!MemoryEntry \/ f \in MemoryWindow)
          /\ Covers(s13)
      BY <1>1, <1>14, ThirteenShows
    <2>2. \A f : f \in w <=> f \in s11 \/ f \in Model!MemoryEntry
      OBVIOUS
    <2> HIDE DEF w
    <2>3. \A f : Core(f) => (f \in Model!MemoryEntry <=> f \in PartitionedMemory)
      BY CoreIs, NotesAreModel
    <2>4. Bound(w)
      BY <1>14, <2>2, <2>3, NotesLinked, BoundMore
    <2>5. \A f : Core(f) => (f \in s13 <=> f \in w \/ f \in MemoryWindow)
      BY <2>1, <2>2, CoreIs
    <2>6. Bound(s13)
      BY <1>4, <1>5, <2>4, <2>5, BoundColumns
    <2> QED BY <2>1, <2>6
  <1>16. Bound(s12)
    <2> DEFINE D == Defaults("chatbot", {RetentionDefault})
    <2>1. s13 = s12 \ D
      BY <1>1 DEF Up13
    <2>2. \A f \in D : ~Core(f)
      BY DefaultsIs DEF Core
    <2> HIDE DEF D
    <2>3. \A f : Core(f) => (f \in s12 <=> f \in s13)
      BY <2>1, <2>2
    <2> QED BY <1>15, <2>3, BoundSame
  <1>17. Bound(s14) /\ Covers(s14)
    <2> DEFINE w == s13 \cup Model!ChatbotUsagePeriod
    <2>1. /\ \A f : IncludeObject(f) =>
               (f \in s14 <=> f \in s13 \/ f \in Model!ChatbotUsagePeriod \/ f \in Caps)
          /\ Covers(s14)
      BY <1>1, <1>15, FourteenShows
    <2>2. \A f : f \in w <=> f \in s13 \/ f \in Model!ChatbotUsagePeriod
      OBVIOUS
    <2> HIDE DEF w
    <2>3. Linked(Model!ChatbotUsagePeriod)
      BY UsageIs, UsageLinked
    <2>4. Bound(w)
      BY <1>15, <2>2, <2>3, BoundMore
    <2>5. \A f : Core(f) => (f \in s14 <=> f \in w \/ f \in Caps)
      BY <2>1, <2>2, CoreIs
    <2>6. Bound(s14)
      BY <1>4, <1>5, <2>4, <2>5, BoundColumns
    <2> QED BY <2>1, <2>6
  <1>18. Bound(s15)
    <2>1. \A f : f \in s15 <=> f \in s14 \/ f \in Floors
      BY <1>1, ColumnRevisions
    <2> QED BY <1>4, <1>5, <1>17, <2>1, BoundColumns
  <1>19. /\ 2 + 1 = 3 /\ 3 + 1 = 4 /\ 4 + 1 = 5 /\ 5 + 1 = 6 /\ 6 + 1 = 7 /\ 7 + 1 = 8 /\ 8 + 1 = 9
         /\ 9 + 1 = 10 /\ 10 + 1 = 11 /\ 11 + 1 = 12 /\ 12 + 1 = 13 /\ 13 + 1 = 14 /\ 14 + 1 = 15
         /\ 15 + 1 = 16
    OBVIOUS
  <1>20. \A n \in 2..15 :
            \/ n = 2 \/ n = 3 \/ n = 4 \/ n = 5 \/ n = 6 \/ n = 7 \/ n = 8 \/ n = 9 \/ n = 10
            \/ n = 11 \/ n = 12 \/ n = 13 \/ n = 14 \/ n = 15
    OBVIOUS
  <1> QED
    BY <1>2, <1>6, <1>7, <1>8, <1>9, <1>10, <1>11, <1>12, <1>13, <1>14, <1>15, <1>16, <1>17, <1>18,
       <1>19, <1>20
    DEF s2, s3, s4, s5, s6, s7, s8, s9, s10, s11, s12, s13, s14, s15

-----------------------------------------------------------------------------
\* The tables are those of which a fact says so.
LEMMA TablesLinked == ASSUME NEW s, Linked(s) PROVE \A t : t \in Tables(s) <=> <<"table", t>> \in s
  <1> TAKE t
  <1>1. ASSUME t \in Tables(s) PROVE <<"table", t>> \in s
    <2>1. PICK f \in s : f[1] = "table" /\ f[2] = t
      BY <1>1 DEF Tables, Kind
    <2>2. Core(f)
      BY <2>1 DEF Core
    <2> QED BY <2>1, <2>2 DEF Linked
  <1>2. ASSUME <<"table", t>> \in s PROVE t \in Tables(s)
    <2> DEFINE g == <<"table", t>>
    <2>1. g \in s /\ g[1] = "table" /\ g[2] = t
      BY <1>2
    <2> HIDE DEF g
    <2> QED BY <2>1 DEF Tables, Kind
  <1> QED BY <1>1, <1>2

\* What the keys say of a deletion: it spreads from a table to those with a key to it, and a
\* column of that name is that key.
LEMMA WiderLinked ==
  ASSUME NEW s, Linked(s)
  PROVE  /\ TablesOnly(s)
         /\ \A S : \A t : t \in Wider(s, S) <=>
                            \/ t \in S
                            \/ t \in Tables(s) /\ \E c \in KeysOf(t) : TargetOf(c) \in S
  <1>1. \A t : t \in Tables(s) <=> <<"table", t>> \in s
    BY TablesLinked
  <1>2. TablesOnly(s)
    <2> SUFFICES ASSUME NEW f \in s, f[1] = "reference" PROVE f[2] \in Tables(s)
      BY DEF TablesOnly, Kind
    <2>1. Core(f)
      BY DEF Core
    <2> QED BY <1>1, <2>1 DEF Linked
  <1>3. ASSUME NEW S, NEW t, t \in Wider(s, S), t \notin S
        PROVE  t \in Tables(s) /\ \E c \in KeysOf(t) : TargetOf(c) \in S
    <2>1. PICK f \in s : f[1] = "reference" /\ f[4] \in S /\ f[5] = "CASCADE" /\ t = f[2]
      BY <1>3 DEF Wider, Kind
    <2>2. Core(f)
      BY <2>1 DEF Core
    <2>3. RightKey(f) /\ <<"table", f[2]>> \in s
      BY <2>2 DEF Linked
    <2> QED BY <1>1, <2>1, <2>3 DEF RightKey
  <1>4. ASSUME NEW S, NEW t \in Tables(s), NEW c \in KeysOf(t), TargetOf(c) \in S
        PROVE  t \in Wider(s, S)
    <2> DEFINE g == <<"reference", t, c, TargetOf(c), "CASCADE">>
    <2>1. g \in s
      BY <1>1 DEF Linked, KeyOf
    <2>2. g[1] = "reference" /\ g[2] = t /\ g[4] \in S /\ g[5] = "CASCADE"
      BY <1>4
    <2> HIDE DEF g
    <2> QED BY <2>1, <2>2 DEF Wider, Kind
  <1>5. \A S : S \subseteq Wider(s, S)
    BY DEF Wider
  <1> QED BY <1>2, <1>3, <1>4, <1>5

\* The tables with a column of that name.
LEMMA OwnersAre ==
  ASSUME NEW s, Linked(s), NEW c \in CascadeKeys
  PROVE  {f[2] : f \in {g \in Kind(s, "column") : g[3] = c}} = {t \in Tables(s) : c \in KeysOf(t)}
  <1> DEFINE X == {f[2] : f \in {g \in Kind(s, "column") : g[3] = c}}
  <1>1. \A t : t \in Tables(s) <=> <<"table", t>> \in s
    BY TablesLinked
  <1>2. ASSUME NEW t \in X PROVE t \in Tables(s) /\ c \in KeysOf(t)
    <2>1. PICK f \in s : f[1] = "column" /\ f[3] = c /\ t = f[2]
      BY <1>2 DEF Kind
    <2>2. Core(f)
      BY <2>1 DEF Core
    <2>3. RightKey(f) /\ <<"table", f[2]>> \in s
      BY <2>2 DEF Linked
    <2> QED BY <1>1, <2>1, <2>3 DEF RightKey
  <1>3. ASSUME NEW t \in Tables(s), c \in KeysOf(t) PROVE t \in X
    <2> DEFINE g == <<"column", t, c, "not null">>
    <2>1. g \in s
      BY <1>1, <1>3 DEF Linked, KeyOf
    <2>2. g[1] = "column" /\ g[2] = t /\ g[3] = c
      OBVIOUS
    <2> HIDE DEF g
    <2> QED BY <2>1, <2>2 DEF Kind
  <1> HIDE DEF X
  <1>4. X = {t \in Tables(s) : c \in KeysOf(t)}
    BY <1>2, <1>3
  <1> QED BY <1>4 DEF X

\* The keys' facts, apart from any schema.
LEMMA KeyTargets ==
  /\ TargetOf("org_id") = "organization" /\ TargetOf("chatbot_id") = "chatbot"
  /\ TargetOf("document_id") = "document" /\ TargetOf("conversation_id") = "conversation"
  /\ \A t : \A c \in KeysOf(t) : c \in CascadeKeys /\ t # "organization"
  /\ \A t : t # "organization" => "org_id" \in KeysOf(t)
  /\ \A t : "document_id" \in KeysOf(t) <=> t = "document_chunk"
  /\ \A t : "conversation_id" \in KeysOf(t) => t \in {"message", "ticket"}
  /\ \A t \in {"document_chunk", "message", "ticket"} : "chatbot_id" \in KeysOf(t)
  /\ "conversation_id" \in KeysOf("message") /\ "chatbot_id" \in KeysOf("document")
  /\ \A c \in CascadeKeys :
        /\ TargetOf(c) = "organization" => c = "org_id"
        /\ TargetOf(c) = "chatbot" => c = "chatbot_id"
        /\ TargetOf(c) = "document" => c = "document_id"
        /\ TargetOf(c) = "conversation" => c = "conversation_id"
        /\ TargetOf(c) \in {"organization", "chatbot", "document", "conversation"}
  BY DEF TargetOf, KeysOf, CascadeKeys

\* The five deletions.
LEMMA ReachOf ==
  ASSUME NEW s, Bound(s)
  PROVE  LET owners(c) == {f[2] : f \in {g \in Kind(s, "column") : g[3] = c}}
         IN  /\ Reached(s, "organization") = Tables(s)
             /\ Reached(s, "chatbot") = {"chatbot"} \cup owners("chatbot_id")
             /\ Reached(s, "document") = {"document", "document_chunk"}
             /\ Reached(s, "conversation") = {"conversation"} \cup owners("conversation_id")
             /\ Reached(s, "app_user") = {"app_user"}
  <1> DEFINE owners(c) == {f[2] : f \in {g \in Kind(s, "column") : g[3] = c}}
             T == Tables(s)
             has(c) == {t \in T : c \in KeysOf(t)}
  <1>1. Linked(s) /\ \A t \in FirstSeven : t \in T
    <2>1. ASSUME NEW t \in FirstSeven PROVE t \in T
      <3> DEFINE g == <<"table", t>>
      <3>1. g \in s /\ g[1] = "table" /\ g[2] = t
        BY DEF Bound
      <3> HIDE DEF g
      <3> QED BY <3>1 DEF Tables, Kind
    <2> QED BY <2>1 DEF Bound
  <1>2. owners("chatbot_id") = has("chatbot_id") /\ owners("conversation_id") = has("conversation_id")
    <2>1. "chatbot_id" \in CascadeKeys /\ "conversation_id" \in CascadeKeys
      BY DEF CascadeKeys
    <2> QED BY <1>1, <2>1, OwnersAre
  <1>3. /\ "organization" \in T /\ "chatbot" \in T /\ "document" \in T /\ "document_chunk" \in T
        /\ "conversation" \in T /\ "message" \in T /\ "app_user" \in T
    BY <1>1 DEF FirstSeven, TenantTables
  <1>4. /\ TablesOnly(s)
        /\ \A S : \A t : t \in Wider(s, S) <=>
                           \/ t \in S
                           \/ t \in T /\ \E c \in KeysOf(t) : TargetOf(c) \in S
    BY <1>1, WiderLinked
  <1> HIDE DEF T
  <1>5. ASSUME NEW t \in T, NEW R, Wider(s, {t}) = R, Wider(s, R) = R PROVE Reached(s, t) = R
    BY <1>4, <1>5, ReachedIs DEF T
  <1>6. Reached(s, "organization") = T
    <2> DEFINE Q == {"organization"}
    <2>1. \A t : (\E c \in KeysOf(t) : TargetOf(c) \in Q) <=> t \notin Q
      BY KeyTargets
    <2>2. Wider(s, Q) = T
      <3>1. \A t : t \in Q => t \in T
        BY <1>3
      <3> HIDE DEF Q
      <3>2. \A t : t \in Wider(s, Q) <=> t \in T
        BY <1>4, <2>1, <3>1
      <3> QED BY <3>2
    <2>3. Wider(s, T) = T
      BY <1>4
    <2> QED BY <1>3, <1>5, <2>2, <2>3
  <1>7. Reached(s, "chatbot") = {"chatbot"} \cup has("chatbot_id")
    <2> DEFINE R == {"chatbot"} \cup has("chatbot_id")
    <2>1. \A t : t \in R <=> t = "chatbot" \/ (t \in T /\ "chatbot_id" \in KeysOf(t))
      OBVIOUS
    <2> HIDE DEF R
    <2>2. Wider(s, {"chatbot"}) = R
      <3> DEFINE Q == {"chatbot"}
      <3>1. \A t : (\E c \in KeysOf(t) : TargetOf(c) \in Q) <=> "chatbot_id" \in KeysOf(t)
        BY KeyTargets
      <3>2. \A t : t \in R <=> t \in Q \/ (t \in T /\ "chatbot_id" \in KeysOf(t))
        BY <2>1
      <3> HIDE DEF Q
      <3>3. \A t : t \in Wider(s, Q) <=> t \in R
        BY <1>4, <3>1, <3>2
      <3>4. Wider(s, Q) = R
        BY <3>3
      <3> QED BY <3>4 DEF Q
    <2>3. ASSUME NEW t \in Wider(s, R), t \notin R PROVE FALSE
      <3>1. PICK c \in KeysOf(t) : t \in T /\ TargetOf(c) \in R
        BY <1>4, <2>3
      <3>2. TargetOf(c) # "organization"
        BY <2>1, <3>1, KeyTargets
      <3>3. c = "chatbot_id" \/ c = "document_id" \/ c = "conversation_id"
        BY <3>2, KeyTargets
      <3> QED BY <2>1, <2>3, <3>1, <3>3, KeyTargets
    <2>4. Wider(s, R) = R
      BY <1>4, <2>3
    <2> QED BY <1>3, <1>5, <2>2, <2>4 DEF R
  <1>8. Reached(s, "document") = {"document", "document_chunk"}
    <2> DEFINE R == {"document", "document_chunk"}
    <2>1. \A t : t \in Wider(s, {"document"}) <=> t \in R
      BY <1>3, <1>4, KeyTargets
    <2>2. \A t : t \in Wider(s, R) <=> t \in R
      BY <1>3, <1>4, KeyTargets
    <2> HIDE DEF R
    <2>3. Wider(s, {"document"}) = R /\ Wider(s, R) = R
      BY <2>1, <2>2
    <2> QED BY <1>3, <1>5, <2>3 DEF R
  <1>9. Reached(s, "conversation") = {"conversation"} \cup has("conversation_id")
    <2> DEFINE R == {"conversation"} \cup has("conversation_id")
    <2>1. \A t : t \in R <=> t = "conversation" \/ (t \in T /\ "conversation_id" \in KeysOf(t))
      OBVIOUS
    <2> HIDE DEF R
    <2>2. Wider(s, {"conversation"}) = R
      BY <1>4, <2>1, KeyTargets
    <2>3. ASSUME NEW t \in Wider(s, R), t \notin R PROVE FALSE
      <3>1. PICK c \in KeysOf(t) : t \in T /\ TargetOf(c) \in R
        BY <1>4, <2>3
      <3>2. TargetOf(c) \in {"conversation", "message", "ticket"}
        BY <2>1, <3>1, KeyTargets
      <3>3. c = "conversation_id"
        BY <3>2, KeyTargets
      <3> QED BY <2>1, <2>3, <3>1, <3>3
    <2>4. Wider(s, R) = R
      BY <1>4, <2>3
    <2> QED BY <1>3, <1>5, <2>2, <2>4 DEF R
  <1>10. Reached(s, "app_user") = {"app_user"}
    <2> DEFINE R == {"app_user"}
    <2>1. \A t : t \in Wider(s, R) <=> t \in R
      BY <1>4, KeyTargets
    <2>2. Wider(s, R) = R
      BY <2>1
    <2> QED BY <1>3, <1>5, <2>2
  <1> QED BY <1>2, <1>6, <1>7, <1>8, <1>9, <1>10 DEF T

\* At every revision with tables, whichever commands, refusals and crashes led there: the
\* deletion of an organisation or a chatbot takes everything that is theirs, that of a document
\* its chunks, that of a conversation its messages and tickets but no note about the visitor,
\* and that of a colleague nothing.
THEOREM DeletionReachHolds == Spec => []DeletionReach
  <1>1. Exact => DeletionReach
    <2> SUFFICES ASSUME Exact, revision >= 2
                 PROVE  LET owners(c) == {f[2] : f \in {g \in Kind(schema, "column") : g[3] = c}}
                        IN  /\ Reached(schema, "organization") = Tables(schema)
                            /\ Reached(schema, "chatbot") = {"chatbot"} \cup owners("chatbot_id")
                            /\ Reached(schema, "document") = {"document", "document_chunk"}
                            /\ Reached(schema, "conversation") =
                                 {"conversation"} \cup owners("conversation_id")
                            /\ Reached(schema, "app_user") = {"app_user"}
      BY DEF DeletionReach
    <2>1. revision \in 2..15 /\ revision # 0
      BY DEF Exact
    <2>2. schema = SchemaAt[revision + 1]
      BY <2>1 DEF Exact, ExactInv
    <2>3. Bound(schema)
      BY <2>1, <2>2, BoundAt
    <2> QED BY <2>3, ReachOf
  <1> QED BY <1>1, ExactAlways, PTL
===============================================================================
