--------------------------- MODULE IngestionCorpus ---------------------------
(***************************************************************************)
(* Ingestion implements DocumentCorpus when the provider keeps to one      *)
(* width.  (Module Embeddings shows when it does not.)                  *)
(***************************************************************************)
EXTENDS Ingestion

\* The row and the upload request together tell the phase.
Phase(d) == IF Exists(d) THEN "accepted"
            ELSE IF upload[d] = "recorded" THEN "withdrawn" ELSE "new"

\* The generation a search sees; a mix of two would not be a number.
Published(d) ==
    IF chunks[d] = {} THEN 0
    ELSE IF \E g \in chunks[d] : chunks[d] = {g}
         THEN (CHOOSE g \in chunks[d] : TRUE).gen
         ELSE -1

Corpus == INSTANCE DocumentCorpus WITH
            phase <- [d \in Docs |-> Phase(d)],
            published <- [d \in Docs |-> Published(d)]

\* Every step of uploads, jobs, runs, crashes and time limits is, to a
\* search, one of Accept, Publish and Withdraw, or invisible: reprocessing
\* swaps generations atomically and never shows none or two.
ImplementsCorpus == Corpus!CorpusSpec
=============================================================================
