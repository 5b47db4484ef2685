---------------------------- MODULE MCIngestion ----------------------------
(* Small instances of Ingestion for TLC. *)
EXTENDS IngestionCorpus

CONSTANTS d1, d2, j1, j2, j3, r1, r2

OneDoc == {d1}
TwoDocs == {d1, d2}
TwoJobs == {j1, j2}
ThreeJobs == {j1, j2, j3}
TwoRuns == {r1, r2}
OneWidth == {768}
TwoWidths == {768, 1024}
AllFaults == FaultKinds
NoLossFaults == FaultKinds \ (LosesWork \cup {"purge"})
ScannerFaults == {"retryable"}
BrokerFaults == {"broker"}
NoFaults == {}
=============================================================================
