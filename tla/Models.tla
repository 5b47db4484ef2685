------------------------------- MODULE Models -------------------------------
(***************************************************************************)
(* What app/models declares: the metadata `alembic check` compares the     *)
(* migrated database with.  One definition per model, the mixins first.    *)
(***************************************************************************)
EXTENDS Catalog

(* enums.py, as the words each checked column may hold. *)
Plan == {"free", "pro", "enterprise"}
UserRole == {"owner", "admin", "member"}
InvitationStatus == {"pending", "accepted", "revoked"}
ChatbotStatus == {"active", "paused", "archived"}
DocumentStatus == {"pending", "processing", "ready", "failed"}
FileType == {"pdf", "docx", "md", "mdx", "txt"}
MessageRole == {"user", "assistant", "staff"}
TicketStatus == {"open", "pending", "resolved", "closed"}
TicketPriority == {"low", "normal", "high", "urgent"}
TicketSource == {"ai_escalation", "visitor_contact_form"}
MemorySubjectType == {"visitor", "staff_user"}
MemoryType == {"preference", "fact", "context"}
ChatProviderName == {"azure", "bedrock", "anthropic", "ollama"}
EmbeddingProviderName == {"azure", "bedrock", "ollama"}

(* base.py: the mixins, and the check every enum column carries. *)
UUIDPrimaryKeyMixin(t) == Required(t, {"id"}) \cup Defaults(t, {<<"id", "uuid">>})
CreatedAtMixin(t) == Required(t, {"created_at"}) \cup Defaults(t, {<<"created_at", "now">>})
TimestampMixin(t) ==
    CreatedAtMixin(t) \cup Required(t, {"updated_at"}) \cup Defaults(t, {<<"updated_at", "now">>})
OrgScopedMixin(t) ==
    Required(t, {"org_id"}) \cup References(t, "CASCADE", {<<"org_id", "organization">>})
enum_check(t, c, words) == OneOf(t, c, words)

TENANT_SCOPED_TABLES ==
    {"app_user", "invitation", "chatbot", "chatbot_ai_config", "document", "document_chunk",
     "conversation", "message", "ticket", "memory_entry", "chatbot_usage_period"}

----------------------------------------------------------------------------

Organization ==
    LET t == "organization" IN
    Table(t, {"id"}) \cup UUIDPrimaryKeyMixin(t) \cup TimestampMixin(t)
      \cup Required(t, {"name", "slug", "plan"})
      \cup Unique(t, {"slug"})
      \cup enum_check(t, "plan", Plan)

User ==
    LET t == "app_user" IN
    Table(t, {"id"}) \cup UUIDPrimaryKeyMixin(t) \cup OrgScopedMixin(t) \cup TimestampMixin(t)
      \cup Required(t, {"email", "hashed_password", "role", "is_active"})
      \cup Optional(t, {"full_name"})
      \cup Unique(t, {"email"})
      \cup enum_check(t, "role", UserRole)

Invitation ==
    LET t == "invitation" IN
    Table(t, {"id"}) \cup UUIDPrimaryKeyMixin(t) \cup OrgScopedMixin(t) \cup TimestampMixin(t)
      \cup Required(t, {"email", "role", "token_hash", "status", "expires_at"})
      \cup Optional(t, {"invited_by", "accepted_at"})
      \cup References(t, "SET NULL", {<<"invited_by", "app_user">>})
      \cup Unique(t, {"token_hash"})
      \cup UniqueWhere(t, {"org_id", "email"}, "status = 'pending'")
      \cup enum_check(t, "role", UserRole) \cup enum_check(t, "status", InvitationStatus)

USAGE_CAP_MAX == 1000000000

\* No default on a column whose NULL means something: a retention window, a cap, a floor.
Chatbot ==
    LET t == "chatbot" IN
    Table(t, {"id"}) \cup UUIDPrimaryKeyMixin(t) \cup OrgScopedMixin(t) \cup TimestampMixin(t)
      \cup Required(t, {"name", "slug", "system_prompt", "model_config_json", "allowed_origins",
                        "theme_json", "usage_cap_message", "privacy_url", "terms_url",
                        "public_key", "secret_key_hash", "status"})
      \cup Optional(t, {"description", "retention_days", "nuvrag_mem_retention_days",
                        "nuvrag_mem_similarity_override", "nuvrag_mem_similarity_calibrated",
                        "nuvrag_mem_similarity_calibrated_at", "monthly_ingestion_unit_cap",
                        "monthly_retrieval_call_cap"})
      \cup Defaults(t, {<<"model_config_json", "{}">>, <<"allowed_origins", "[]">>,
                        <<"theme_json", "{}">>, <<"privacy_url", "">>, <<"terms_url", "">>,
                        <<"usage_cap_message", "the default message">>})
      \cup Unique(t, {"org_id", "slug"}) \cup Unique(t, {"public_key"})
      \cup enum_check(t, "status", ChatbotStatus)
      \cup (UNION {Between(t, c, 1, 3650) : c \in {"retention_days", "nuvrag_mem_retention_days"}})
      \cup (UNION {Between(t, c, 1, USAGE_CAP_MAX) :
                    c \in {"monthly_ingestion_unit_cap", "monthly_retrieval_call_cap"}})
      \cup (UNION {Between(t, c, 0, 1) : c \in {"nuvrag_mem_similarity_override",
                                                "nuvrag_mem_similarity_calibrated"}})

ChatbotAIConfig ==
    LET t == "chatbot_ai_config" IN
    Table(t, {"id"}) \cup UUIDPrimaryKeyMixin(t) \cup OrgScopedMixin(t) \cup TimestampMixin(t)
      \cup Required(t, {"chatbot_id", "chat_provider", "chat_model", "chat_config_json",
                        "embedding_provider", "embedding_model", "embedding_config_json"})
      \cup Optional(t, {"chat_credentials_encrypted", "embedding_credentials_encrypted",
                        "embedding_dimension"})
      \cup Defaults(t, {<<"chat_config_json", "{}">>, <<"embedding_config_json", "{}">>})
      \cup References(t, "CASCADE", {<<"chatbot_id", "chatbot">>})
      \cup Unique(t, {"chatbot_id"})
      \cup enum_check(t, "chat_provider", ChatProviderName)
      \cup enum_check(t, "embedding_provider", EmbeddingProviderName)

ChatbotUsagePeriod ==
    LET t == "chatbot_usage_period" IN
    Table(t, {"chatbot_id", "period_start"}) \cup OrgScopedMixin(t) \cup TimestampMixin(t)
      \cup Required(t, {"chatbot_id", "period_start", "ingestion_units_used",
                        "retrieval_calls_used"})
      \cup Defaults(t, {<<"ingestion_units_used", "0">>, <<"retrieval_calls_used", "0">>})
      \cup References(t, "CASCADE", {<<"chatbot_id", "chatbot">>})
      \cup Between(t, "ingestion_units_used", 0, "any")
      \cup Between(t, "retrieval_calls_used", 0, "any")

Document ==
    LET t == "document" IN
    Table(t, {"id"}) \cup UUIDPrimaryKeyMixin(t) \cup OrgScopedMixin(t) \cup TimestampMixin(t)
      \cup Required(t, {"chatbot_id", "filename", "file_type", "content_type", "storage_path",
                        "size_bytes", "chunk_count", "status"})
      \cup Optional(t, {"checksum_sha256", "error_message", "uploaded_by"})
      \cup Defaults(t, {<<"chunk_count", "0">>})
      \cup References(t, "CASCADE", {<<"chatbot_id", "chatbot">>})
      \cup References(t, "SET NULL", {<<"uploaded_by", "app_user">>})
      \cup enum_check(t, "status", DocumentStatus) \cup enum_check(t, "file_type", FileType)

DocumentChunk ==
    LET t == "document_chunk" IN
    Table(t, {"id", "embedding_dim"})
      \cup UUIDPrimaryKeyMixin(t) \cup OrgScopedMixin(t) \cup CreatedAtMixin(t)
      \cup Required(t, {"document_id", "chatbot_id", "chunk_index", "content", "token_count",
                        "embedding_dim", "embedding", "metadata_json"})
      \cup Defaults(t, {<<"token_count", "0">>, <<"metadata_json", "{}">>})
      \cup References(t, "CASCADE", {<<"document_id", "document">>, <<"chatbot_id", "chatbot">>})
      \cup Unique(t, {"document_id", "chunk_index", "embedding_dim"})

Conversation ==
    LET t == "conversation" IN
    Table(t, {"id"}) \cup UUIDPrimaryKeyMixin(t) \cup OrgScopedMixin(t) \cup TimestampMixin(t)
      \cup Required(t, {"chatbot_id", "external_session_id", "message_count"})
      \cup Optional(t, {"title"})
      \cup Defaults(t, {<<"message_count", "0">>})
      \cup References(t, "CASCADE", {<<"chatbot_id", "chatbot">>})
      \cup Unique(t, {"chatbot_id", "external_session_id"})

Message ==
    LET t == "message" IN
    Table(t, {"id"}) \cup UUIDPrimaryKeyMixin(t) \cup OrgScopedMixin(t) \cup CreatedAtMixin(t)
      \cup Required(t, {"conversation_id", "chatbot_id", "role", "content"})
      \cup Optional(t, {"staff_user_id", "sources_json", "prompt_tokens", "completion_tokens",
                        "latency_ms"})
      \cup References(t, "CASCADE", {<<"conversation_id", "conversation">>,
                                     <<"chatbot_id", "chatbot">>})
      \cup References(t, "SET NULL", {<<"staff_user_id", "app_user">>})
      \cup enum_check(t, "role", MessageRole)

Ticket ==
    LET t == "ticket" IN
    Table(t, {"id"}) \cup UUIDPrimaryKeyMixin(t) \cup OrgScopedMixin(t) \cup TimestampMixin(t)
      \cup Required(t, {"chatbot_id", "conversation_id", "visitor_email", "status", "priority",
                        "source"})
      \cup Optional(t, {"visitor_name", "subject", "escalation_reason", "assigned_to",
                        "resolved_at"})
      \cup References(t, "CASCADE", {<<"chatbot_id", "chatbot">>,
                                     <<"conversation_id", "conversation">>})
      \cup References(t, "SET NULL", {<<"assigned_to", "app_user">>})
      \cup enum_check(t, "status", TicketStatus) \cup enum_check(t, "priority", TicketPriority)
      \cup enum_check(t, "source", TicketSource)

MemoryEntry ==
    LET t == "memory_entry" IN
    Table(t, {"id", "embedding_dim"})
      \cup UUIDPrimaryKeyMixin(t) \cup OrgScopedMixin(t) \cup CreatedAtMixin(t)
      \cup Required(t, {"chatbot_id", "subject_id", "subject_type", "content", "memory_type",
                        "embedding_dim", "embedding", "last_referenced_at"})
      \cup Optional(t, {"source_conversation_id"})
      \cup Defaults(t, {<<"subject_type", "visitor">>, <<"memory_type", "fact">>,
                        <<"last_referenced_at", "now">>})
      \cup References(t, "CASCADE", {<<"chatbot_id", "chatbot">>})
      \cup References(t, "SET NULL", {<<"source_conversation_id", "conversation">>})
      \cup enum_check(t, "subject_type", MemorySubjectType)
      \cup enum_check(t, "memory_type", MemoryType)

Metadata ==
    Organization \cup User \cup Invitation \cup Chatbot \cup ChatbotAIConfig
      \cup ChatbotUsagePeriod \cup Document \cup DocumentChunk \cup Conversation \cup Message
      \cup Ticket \cup MemoryEntry
=============================================================================
