--------------------------- MODULE DocumentCorpus ---------------------------
(***************************************************************************)
(* What ingestion promises to retrieval.  A document is accepted once; from *)
(* its first publication until its withdrawal a question always searches   *)
(* exactly one complete generation of its passages; every publication is   *)
(* newer than the ones before; a withdrawn document never comes back.      *)
(***************************************************************************)
EXTENDS Naturals

CONSTANT Docs

VARIABLES
    phase,      \* [Docs -> {"new", "accepted", "withdrawn"}]
    published   \* [Docs -> Nat]: the generation in force, 0 for none

corpusVars == <<phase, published>>

CorpusInit ==
    /\ phase = [d \in Docs |-> "new"]
    /\ published = [d \in Docs |-> 0]

Accept(d) ==
    /\ phase[d] = "new"
    /\ phase' = [phase EXCEPT ![d] = "accepted"]
    /\ UNCHANGED published

Publish(d) ==
    /\ phase[d] = "accepted"
    /\ published'[d] > published[d]
    /\ published' = [published EXCEPT ![d] = published'[d]]
    /\ UNCHANGED phase

Withdraw(d) ==
    /\ phase[d] = "accepted"
    /\ phase' = [phase EXCEPT ![d] = "withdrawn"]
    /\ published' = [published EXCEPT ![d] = 0]

CorpusNext == \E d \in Docs : Accept(d) \/ Publish(d) \/ Withdraw(d)

CorpusSpec == CorpusInit /\ [][CorpusNext]_corpusVars
=============================================================================
