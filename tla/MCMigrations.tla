---------------------------- MODULE MCMigrations ----------------------------
EXTENDS SchemaInvariants

\* Two chunks, so that a count can be right for the wrong rows, one of which may have a width
\* the first release's table refuses; a document and a message of the kind a way down reclassifies.
SmallRows ==
    {[table |-> "document_chunk", id |-> 1, value |-> 768],
     [table |-> "document_chunk", id |-> 1, value |-> 1536],
     [table |-> "document_chunk", id |-> 2, value |-> 1536],
     [table |-> "document", id |-> 1, value |-> "mdx"],
     [table |-> "message", id |-> 1, value |-> "staff"]}
=============================================================================
