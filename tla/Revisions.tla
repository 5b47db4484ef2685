----------------------------- MODULE Revisions -----------------------------
(***************************************************************************)
(* The revisions of alembic/versions, as functions from the schema they    *)
(* find to the schema they leave.  What revisions 0004, 0008 and 0009 do   *)
(* to the rows is in Migrations.  A revision describes the schema it made  *)
(* even after the models have moved on, so nothing here is shared with     *)
(* Models.                                                                 *)
(***************************************************************************)
EXTENDS Catalog

HeadRevision == 15

(* The helpers of 0002, which the later revisions repeat. *)
Created(t) == Required(t, {"created_at"}) \cup Defaults(t, {<<"created_at", "now">>})
Updated(t) == Required(t, {"updated_at"}) \cup Defaults(t, {<<"updated_at", "now">>})
Pk(t) == Table(t, {"id"}) \cup Required(t, {"id"}) \cup Defaults(t, {<<"id", "uuid">>})
OrgId(t) == Required(t, {"org_id"}) \cup References(t, "CASCADE", {<<"org_id", "organization">>})
EnableRls(schema, tables) == schema \cup UNION {Policy(t) : t \in tables}

Dimensions == {768, 1024, 1536}
Default == 0    \* the partition for every other width
LegacyDimension == 1536

ChunkPartition(width) ==
    CASE width = 768 -> "document_chunk_p768" [] width = 1024 -> "document_chunk_p1024"
      [] width = 1536 -> "document_chunk_p1536" [] OTHER -> "document_chunk_pdefault"
MemoryPartition(width) ==
    CASE width = 768 -> "memory_entry_p768" [] width = 1024 -> "memory_entry_p1024"
      [] width = 1536 -> "memory_entry_p1536" [] OTHER -> "memory_entry_pdefault"

----------------------------------------------------------------------------
(* 0001: extensions, which a downgrade leaves in place. *)

Extensions == {<<"extension", "vector">>, <<"extension", "pgcrypto">>}
Up1(schema) == schema \cup Extensions
Down1(schema) == schema

(* 0002: the first seven tables. *)

InitialTenants ==
    Pk("organization") \cup Created("organization") \cup Updated("organization")
      \cup Required("organization", {"name", "slug", "plan"})
      \cup Unique("organization", {"slug"})
      \cup OneOf("organization", "plan", {"free", "pro", "enterprise"})
      \cup Pk("app_user") \cup Created("app_user") \cup Updated("app_user") \cup OrgId("app_user")
      \cup Required("app_user", {"email", "hashed_password", "role", "is_active"})
      \cup Optional("app_user", {"full_name"})
      \cup Unique("app_user", {"email"})
      \cup OneOf("app_user", "role", {"owner", "admin", "member"})
      \cup Pk("chatbot") \cup Created("chatbot") \cup Updated("chatbot") \cup OrgId("chatbot")
      \cup Required("chatbot", {"name", "slug", "system_prompt", "model_config_json",
                                "allowed_origins", "public_key", "secret_key_hash", "status"})
      \cup Optional("chatbot", {"description"})
      \cup Defaults("chatbot", {<<"model_config_json", "{}">>, <<"allowed_origins", "[]">>})
      \cup Unique("chatbot", {"org_id", "slug"}) \cup Unique("chatbot", {"public_key"})
      \cup OneOf("chatbot", "status", {"active", "paused", "archived"})

InitialDocument ==
    LET t == "document" IN
    Pk(t) \cup Created(t) \cup Updated(t) \cup OrgId(t)
      \cup Required(t, {"chatbot_id", "filename", "file_type", "content_type", "storage_path",
                        "size_bytes", "chunk_count", "status"})
      \cup Optional(t, {"checksum_sha256", "error_message", "uploaded_by"})
      \cup Defaults(t, {<<"chunk_count", "0">>})
      \cup References(t, "CASCADE", {<<"chatbot_id", "chatbot">>})
      \cup References(t, "SET NULL", {<<"uploaded_by", "app_user">>})
      \cup OneOf(t, "status", {"pending", "processing", "ready", "failed"})
      \cup OneOf(t, "file_type", {"pdf", "docx", "md", "txt"})

\* The chunk table of 0002, whose column has the one width the first release wrote.
InitialChunks ==
    LET t == "document_chunk" IN
    Pk(t) \cup Created(t) \cup OrgId(t)
      \cup Required(t, {"document_id", "chatbot_id", "chunk_index", "content", "token_count",
                        "embedding", "metadata_json"})
      \cup Defaults(t, {<<"token_count", "0">>, <<"metadata_json", "{}">>})
      \cup {<<"width", t, "embedding", LegacyDimension>>}
      \cup References(t, "CASCADE", {<<"document_id", "document">>, <<"chatbot_id", "chatbot">>})
      \cup Unique(t, {"document_id", "chunk_index"})

InitialConversations ==
    Pk("conversation") \cup Created("conversation") \cup Updated("conversation")
      \cup OrgId("conversation")
      \cup Required("conversation", {"chatbot_id", "external_session_id", "message_count"})
      \cup Optional("conversation", {"title"})
      \cup Defaults("conversation", {<<"message_count", "0">>})
      \cup References("conversation", "CASCADE", {<<"chatbot_id", "chatbot">>})
      \cup Unique("conversation", {"chatbot_id", "external_session_id"})
      \cup Pk("message") \cup Created("message") \cup OrgId("message")
      \cup Required("message", {"conversation_id", "chatbot_id", "role", "content"})
      \cup Optional("message", {"sources_json", "prompt_tokens", "completion_tokens",
                                "latency_ms"})
      \cup References("message", "CASCADE", {<<"conversation_id", "conversation">>,
                                             <<"chatbot_id", "chatbot">>})
      \cup OneOf("message", "role", {"user", "assistant"})

Up2(schema) ==
    schema \cup InitialTenants \cup InitialDocument \cup InitialChunks \cup InitialConversations

\* The order in which 0002's downgrade drops: nothing may still point at the table.
DropOrder ==
    <<"message", "conversation", "document_chunk", "document", "chatbot", "app_user",
      "organization">>
AfterDrops(schema, n) == {f \in schema : \A i \in 1..n : f[2] # DropOrder[i]}
DropsInOrder(schema) ==
    \A i \in 1..Len(DropOrder) : Droppable(AfterDrops(schema, i - 1), DropOrder[i])
Down2(schema) == AfterDrops(schema, Len(DropOrder))

(* 0003: row-level security, and the vector index. *)

TenantTables ==
    {"app_user", "chatbot", "document", "document_chunk", "conversation", "message"}
Hnsw(t) == {<<"hnsw", t>>}
Up3(schema) == EnableRls(schema, TenantTables) \cup Hnsw("document_chunk")
Down3(schema) ==
    (schema \ UNION {Policy(t) : t \in TenantTables}) \ Hnsw("document_chunk")

(* 0004: a file type more. *)

SwapFileTypes(schema, words) ==
    DropCheck(schema, "document", "file_type") \cup OneOf("document", "file_type", words)
Up4(schema) == SwapFileTypes(schema, {"pdf", "docx", "md", "mdx", "txt"})

\* Mutant: the rows are reclassified and the check is left as wide as it was.
Down4KeepsWide(schema) == schema

Down4(schema) == SwapFileTypes(schema, {"pdf", "docx", "md", "txt"})

(* 0005: invitations, one live one per address. *)

Up5(schema) ==
    LET t == "invitation"
        table == Pk(t) \cup Created(t) \cup Updated(t) \cup OrgId(t)
                   \cup Required(t, {"email", "role", "token_hash", "status", "expires_at"})
                   \cup Optional(t, {"invited_by", "accepted_at"})
                   \cup References(t, "SET NULL", {<<"invited_by", "app_user">>})
                   \cup Unique(t, {"token_hash"})
                   \cup UniqueWhere(t, {"org_id", "email"}, "status = 'pending'")
                   \cup OneOf(t, "role", {"owner", "admin", "member"})
                   \cup OneOf(t, "status", {"pending", "accepted", "revoked"})
    IN  EnableRls(schema \cup table, {t})
Down5(schema) == DropTable(DropPolicy(schema, "invitation"), "invitation")

(* 0006: the widget's theme. *)

Up6(schema) ==
    schema \cup Required("chatbot", {"theme_json"})
           \cup Defaults("chatbot", {<<"theme_json", "{}">>})
Down6(schema) == DropColumn(schema, "chatbot", "theme_json")

(* 0007: each chatbot's own providers. *)

Up7(schema) ==
    LET t == "chatbot_ai_config"
        table == Pk(t) \cup Created(t) \cup Updated(t) \cup OrgId(t)
                   \cup Required(t, {"chatbot_id", "chat_provider", "chat_model",
                                     "chat_config_json", "embedding_provider",
                                     "embedding_model", "embedding_config_json"})
                   \cup Optional(t, {"chat_credentials_encrypted",
                                     "embedding_credentials_encrypted", "embedding_dimension"})
                   \cup Defaults(t, {<<"chat_config_json", "{}">>,
                                     <<"embedding_config_json", "{}">>})
                   \cup References(t, "CASCADE", {<<"chatbot_id", "chatbot">>})
                   \cup Unique(t, {"chatbot_id"})
                   \cup OneOf(t, "chat_provider", {"azure", "bedrock", "anthropic", "ollama"})
                   \cup OneOf(t, "embedding_provider", {"azure", "bedrock", "ollama"})
    IN  EnableRls(schema \cup table, {t})
Down7(schema) == DropTable(DropPolicy(schema, "chatbot_ai_config"), "chatbot_ai_config")

(* 0008: the chunk table, partitioned by the width of its vectors. *)

ChunkTables == {"document_chunk"} \cup {ChunkPartition(w) : w \in Dimensions \cup {Default}}

PartitionedChunks ==
    LET t == "document_chunk" IN
    Table(t, {"id", "embedding_dim"}) \cup Created(t) \cup OrgId(t)
      \cup Required(t, {"id", "document_id", "chatbot_id", "chunk_index", "content",
                        "token_count", "embedding_dim", "embedding", "metadata_json"})
      \cup Defaults(t, {<<"id", "uuid">>, <<"token_count", "0">>, <<"metadata_json", "{}">>})
      \cup References(t, "CASCADE", {<<"document_id", "document">>, <<"chatbot_id", "chatbot">>})
      \cup Unique(t, {"document_id", "chunk_index", "embedding_dim"})
      \cup (UNION {Partition(t, ChunkPartition(w), w) : w \in Dimensions \cup {Default}})
      \cup (UNION {Hnsw(ChunkPartition(w)) : w \in Dimensions})

CreatePartitionedChunks(schema) == EnableRls(schema \cup PartitionedChunks, ChunkTables)
CreateLegacyChunks(schema) ==
    EnableRls(schema \cup InitialChunks \cup Hnsw("document_chunk"), {"document_chunk"})

Up8(schema) == CreatePartitionedChunks(DropTable(schema, "document_chunk"))
Down8(schema) == CreateLegacyChunks(DropTable(schema, "document_chunk"))

(* 0009: tickets, and the third role a message can have. *)

SwapMessageRoles(schema, words) ==
    DropCheck(schema, "message", "role") \cup OneOf("message", "role", words)

\* Mutant: removing a colleague removes what they wrote.
StaffAuthorCascades ==
    Optional("message", {"staff_user_id"})
      \cup References("message", "CASCADE", {<<"staff_user_id", "app_user">>})

\* Who wrote a staff reply: kept for attribution, never in the way of removing the writer.
StaffAuthor ==
    Optional("message", {"staff_user_id"})
      \cup References("message", "SET NULL", {<<"staff_user_id", "app_user">>})

Up9(schema) ==
    LET t == "ticket"
        table == Pk(t) \cup Created(t) \cup Updated(t) \cup OrgId(t)
                   \cup Required(t, {"chatbot_id", "conversation_id", "visitor_email", "status",
                                     "priority", "source"})
                   \cup Optional(t, {"visitor_name", "subject", "escalation_reason",
                                     "assigned_to", "resolved_at"})
                   \cup References(t, "CASCADE", {<<"chatbot_id", "chatbot">>,
                                                  <<"conversation_id", "conversation">>})
                   \cup References(t, "SET NULL", {<<"assigned_to", "app_user">>})
                   \cup OneOf(t, "status", {"open", "pending", "resolved", "closed"})
                   \cup OneOf(t, "priority", {"low", "normal", "high", "urgent"})
                   \cup OneOf(t, "source", {"ai_escalation", "visitor_contact_form"})
    IN  SwapMessageRoles(EnableRls(schema \cup table, {t}), {"user", "assistant", "staff"})
          \cup StaffAuthor
Down9(schema) ==
    LET narrowed == SwapMessageRoles(DropColumn(schema, "message", "staff_user_id"),
                                     {"user", "assistant"})
    IN  DropTable(DropPolicy(narrowed, "ticket"), "ticket")

(* 0010 and 0011: retention, and the links of the widget's footer. *)

Up10(schema) ==
    schema \cup Optional("chatbot", {"retention_days"})
           \cup Between("chatbot", "retention_days", 1, 3650)
Down10(schema) ==
    DropColumn(DropCheck(schema, "chatbot", "retention_days"), "chatbot", "retention_days")

Up11(schema) ==
    schema \cup Required("chatbot", {"privacy_url", "terms_url"})
           \cup Defaults("chatbot", {<<"privacy_url", "">>, <<"terms_url", "">>})
Down11(schema) == DropColumn(DropColumn(schema, "chatbot", "privacy_url"), "chatbot", "terms_url")

(* 0012 and 0013: visitor memory, and the default its window had for one revision. *)

\* Mutant: the default partition is forgotten.
MemoryTablesOfKnownWidths == {"memory_entry"} \cup {MemoryPartition(w) : w \in Dimensions}

MemoryTables == {"memory_entry"} \cup {MemoryPartition(w) : w \in Dimensions \cup {Default}}
RetentionDefault == <<"nuvrag_mem_retention_days", "30">>

PartitionedMemory ==
    LET t == "memory_entry" IN
    Table(t, {"id", "embedding_dim"}) \cup Created(t) \cup OrgId(t)
      \cup Required(t, {"id", "chatbot_id", "subject_id", "subject_type", "content",
                        "memory_type", "embedding_dim", "embedding", "last_referenced_at"})
      \cup Optional(t, {"source_conversation_id"})
      \cup Defaults(t, {<<"id", "uuid">>, <<"subject_type", "visitor">>,
                        <<"memory_type", "fact">>, <<"last_referenced_at", "now">>})
      \cup References(t, "CASCADE", {<<"chatbot_id", "chatbot">>})
      \cup References(t, "SET NULL", {<<"source_conversation_id", "conversation">>})
      \cup OneOf(t, "subject_type", {"visitor", "staff_user"})
      \cup OneOf(t, "memory_type", {"preference", "fact", "context"})
      \cup (UNION {Partition(t, MemoryPartition(w), w) : w \in Dimensions \cup {Default}})
      \cup (UNION {Hnsw(MemoryPartition(w)) : w \in Dimensions})

Up12(schema) ==
    EnableRls(schema \cup PartitionedMemory, MemoryTables)
      \cup Optional("chatbot", {"nuvrag_mem_retention_days"})
      \cup Defaults("chatbot", {RetentionDefault})
      \cup Between("chatbot", "nuvrag_mem_retention_days", 1, 3650)
Down12(schema) ==
    LET c == "nuvrag_mem_retention_days"
    IN  DropTable(DropColumn(DropCheck(schema, "chatbot", c), "chatbot", c), "memory_entry")

\* Mutant: the default stays.
Up13Keeps(schema) == schema

Up13(schema) == schema \ Defaults("chatbot", {RetentionDefault})
Down13(schema) == schema \cup Defaults("chatbot", {RetentionDefault})

(* 0014: usage caps. *)

CapColumns == {"monthly_ingestion_unit_cap", "monthly_retrieval_call_cap"}
CapMax == 1000000000

Up14(schema) ==
    LET t == "chatbot_usage_period"
        table == Table(t, {"chatbot_id", "period_start"}) \cup Created(t) \cup Updated(t)
                   \cup OrgId(t)
                   \cup Required(t, {"chatbot_id", "period_start", "ingestion_units_used",
                                     "retrieval_calls_used"})
                   \cup Defaults(t, {<<"ingestion_units_used", "0">>,
                                     <<"retrieval_calls_used", "0">>})
                   \cup References(t, "CASCADE", {<<"chatbot_id", "chatbot">>})
                   \cup Between(t, "ingestion_units_used", 0, "any")
                   \cup Between(t, "retrieval_calls_used", 0, "any")
    IN  EnableRls(schema \cup table, {t})
          \cup Optional("chatbot", CapColumns)
          \cup (UNION {Between("chatbot", c, 1, CapMax) : c \in CapColumns})
          \cup Required("chatbot", {"usage_cap_message"})
          \cup Defaults("chatbot", {<<"usage_cap_message", "the default message">>})
Down14(schema) ==
    {f \in DropTable(schema, "chatbot_usage_period") :
        \A c \in CapColumns \cup {"usage_cap_message"} : ~Mentions(f, "chatbot", c)}

(* 0015: a similarity floor per chatbot. *)

ThresholdColumns == {"nuvrag_mem_similarity_override", "nuvrag_mem_similarity_calibrated"}
TimestampColumn == "nuvrag_mem_similarity_calibrated_at"

Up15(schema) ==
    schema \cup Optional("chatbot", ThresholdColumns \cup {TimestampColumn})
           \cup (UNION {Between("chatbot", c, 0, 1) : c \in ThresholdColumns})
Down15(schema) ==
    {f \in schema : \A c \in ThresholdColumns \cup {TimestampColumn} : ~Mentions(f, "chatbot", c)}

----------------------------------------------------------------------------
(* `revision` and `down_revision` of each file: one line of history. *)

Upgrade(n, schema) ==
    CASE n = 1 -> Up1(schema) [] n = 2 -> Up2(schema) [] n = 3 -> Up3(schema)
      [] n = 4 -> Up4(schema) [] n = 5 -> Up5(schema) [] n = 6 -> Up6(schema)
      [] n = 7 -> Up7(schema) [] n = 8 -> Up8(schema) [] n = 9 -> Up9(schema)
      [] n = 10 -> Up10(schema) [] n = 11 -> Up11(schema) [] n = 12 -> Up12(schema)
      [] n = 13 -> Up13(schema) [] n = 14 -> Up14(schema) [] n = 15 -> Up15(schema)

Downgrade(n, schema) ==
    CASE n = 1 -> Down1(schema) [] n = 2 -> Down2(schema) [] n = 3 -> Down3(schema)
      [] n = 4 -> Down4(schema) [] n = 5 -> Down5(schema) [] n = 6 -> Down6(schema)
      [] n = 7 -> Down7(schema) [] n = 8 -> Down8(schema) [] n = 9 -> Down9(schema)
      [] n = 10 -> Down10(schema) [] n = 11 -> Down11(schema) [] n = 12 -> Down12(schema)
      [] n = 13 -> Down13(schema) [] n = 14 -> Down14(schema) [] n = 15 -> Down15(schema)
=============================================================================
