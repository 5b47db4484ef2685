--------------------------- MODULE IngestionProofs ---------------------------
(***************************************************************************)
(* Proofs about Ingestion, for any number of documents, messages, workers, *)
(* widths and retries, and any set of faults.                              *)
(***************************************************************************)
EXTENDS IngestionCorpus, TLAPS

Outcomes == {"ok", "missing", "permanent", "retryable", "error"}

LEMMA FreeJobType == FreeJob \in JobRecord
  BY ConstantsAssumption DEF FreeJob, JobRecord, JobState

LEMMA IdleRunType == IdleRun \in RunRecord /\ IdleRun.pc = "idle"
  BY ConstantsAssumption DEF IdleRun, RunRecord, RunStep

\* The task's except clauses turn a message into a message of the same
\* document, and never one that is free, owed or running.
LEMMA AfterAttemptType ==
  ASSUME NEW jr \in JobRecord, NEW o \in Outcomes
  PROVE  /\ AfterAttempt(jr, o) \in JobRecord
         /\ AfterAttempt(jr, o).doc = jr.doc
         /\ AfterAttempt(jr, o).st \in {"queued", "marking", "done"}
  BY ConstantsAssumption DEF AfterAttempt, Outcomes, JobRecord, JobState

LEMMA EndRunType ==
  ASSUME TypeOK, NEW r \in Runs, NEW o \in Outcomes, EndRun(r, o)
  PROVE  run' \in [Runs -> RunRecord] /\ job' \in [Jobs -> JobRecord]
  <1>1. run' \in [Runs -> RunRecord]
    BY IdleRunType DEF EndRun, TypeOK
  <1>2. run[r].job \in Jobs
    BY DEF TypeOK, RunRecord
  <1>3. AfterAttempt(job[run[r].job], o) \in JobRecord
    BY <1>2, AfterAttemptType DEF TypeOK
  <1>4. QED
    BY <1>1, <1>2, <1>3 DEF EndRun, TypeOK

LEMMA DocOfType ==
  ASSUME TypeOK, NEW r \in Runs
  PROVE  run[r].job \in Jobs /\ DocOf(r) \in Docs
  BY DEF TypeOK, RunRecord, JobRecord, DocOf
-----------------------------------------------------------------------------
\* One lemma per group of actions: request steps, job steps, run steps.

LEMMA RequestType ==
  ASSUME TypeOK, NEW d \in Docs, RequestStep(d)
  PROVE  TypeOK'
  <1> USE DEF TypeOK, UploadState, DocumentStatus, PurgeState
  <1>1. CASE UploadStream(d)
    BY <1>1 DEF UploadStream
  <1>2. CASE UploadCharge(d)
    BY <1>2 DEF UploadCharge
  <1>3. CASE UploadRecordFails(d)
    BY <1>3 DEF UploadRecordFails
  <1>4. CASE DeleteDocument(d)
    BY <1>4 DEF DeleteDocument
  <1>5. CASE EnqueuePurge(d)
    BY <1>5 DEF EnqueuePurge
  <1>6. CASE PurgeObject(d)
    BY <1>6 DEF PurgeObject
  <1>7. ASSUME NEW j \in Jobs, UploadRecord(d, j)
        PROVE  TypeOK'
    BY <1>7, ConstantsAssumption DEF UploadRecord, JobRecord, JobState
  <1>8. ASSUME NEW j \in Jobs, Reprocess(d, j)
        PROVE  TypeOK'
    BY <1>8, ConstantsAssumption DEF Reprocess, JobRecord, JobState
  <1>9. QED
    BY <1>1, <1>2, <1>3, <1>4, <1>5, <1>6, <1>7, <1>8 DEF RequestStep

LEMMA KillRunsType ==
  ASSUME TypeOK, NEW j \in Jobs, KillRunsOf(j)
  PROVE  run' \in [Runs -> RunRecord]
  BY IdleRunType DEF KillRunsOf, TypeOK

LEMMA JobType ==
  ASSUME TypeOK, NEW j \in Jobs, JobStep(j)
  PROVE  TypeOK'
  <1> USE DEF JobState, DocumentStatus
  <1>1. CASE EnqueueIngestion(j)
    BY <1>1 DEF EnqueueIngestion, TypeOK, JobRecord
  <1>2. CASE MarkFailed(j)
    BY <1>2 DEF MarkFailed, SetStatus, TypeOK, JobRecord
  <1>3. CASE HardTimeLimit(j)
    BY <1>3, KillRunsType DEF HardTimeLimit, TypeOK, JobRecord
  <1>4. CASE WorkerLost(j)
    BY <1>4, KillRunsType, ConstantsAssumption DEF WorkerLost, TypeOK, JobRecord
  <1>5. ASSUME NEW r \in Runs, StartJob(j, r)
        PROVE  TypeOK'
    <2>1. [IdleRun EXCEPT !.pc = "load", !.job = j, !.owned = TRUE] \in RunRecord
      BY IdleRunType DEF RunRecord, RunStep
    <2>2. QED
      BY <1>5, <2>1 DEF StartJob, TypeOK, JobRecord
  <1>6. QED
    BY <1>1, <1>2, <1>3, <1>4, <1>5 DEF JobStep

LEMMA RunType ==
  ASSUME TypeOK, NEW r \in Runs,
         RunProgress(r) \/ RunFails(r) \/ SoftTimeLimit(r)
  PROVE  TypeOK'
  <1> USE DEF DocumentStatus, RunStep, Outcomes
  <1>1. CASE LoadDocument(r)
    <2>1. CASE Exists(DocOf(r))
      BY <1>1, <2>1 DEF LoadDocument, Advance, TypeOK, RunRecord
    <2>2. CASE ~Exists(DocOf(r))
      BY <1>1, <2>2, EndRunType DEF LoadDocument, TypeOK
    <2>3. QED
      BY <2>1, <2>2
  <1>2. CASE MarkProcessing(r)
    BY <1>2 DEF MarkProcessing, SetStatus, Advance, TypeOK, RunRecord
  <1>3. CASE FetchAndChunk(r)
    BY <1>3, EndRunType DEF FetchAndChunk, Advance, TypeOK, RunRecord
  <1>4. CASE Embed(r)
    BY <1>4, EndRunType DEF Embed, TypeOK, RunRecord
  <1>5. CASE ReplaceDelete(r)
    <2>1. chunks[DocOf(r)] \in SUBSET Generation
      BY DocOfType DEF TypeOK
    <2>2. run'[r] \in RunRecord
      BY <1>5, <2>1 DEF ReplaceDelete, TypeOK, RunRecord
    <2>3. run' \in [Runs -> RunRecord]
      BY <1>5, <2>2 DEF ReplaceDelete, TypeOK
    <2>4. QED
      BY <1>5, <2>3 DEF ReplaceDelete, TypeOK
  <1>6. CASE ReplaceCommit(r)
    <2>1. DocOf(r) \in Docs /\ run[r].dim \in Widths
      BY DocOfType DEF TypeOK, RunRecord
    <2>2. [gen |-> gens[DocOf(r)] + 1, dim |-> run[r].dim] \in Generation
      BY <2>1 DEF TypeOK, Generation
    <2>3. QED
      BY <1>6, <2>1, <2>2, EndRunType DEF ReplaceCommit, Remaining, TypeOK
  <1>7. CASE ReplaceRollback(r)
    BY <1>7, EndRunType DEF ReplaceRollback, TypeOK
  <1>8. CASE RunFails(r)
    BY <1>8, EndRunType DEF RunFails, TypeOK
  <1>9. CASE SoftTimeLimit(r)
    <2>1. run[r].job \in Jobs
      BY DocOfType
    <2>2. AfterAttempt(job[run[r].job], "error") \in JobRecord
      BY <2>1, AfterAttemptType DEF TypeOK
    <2>3. QED
      BY <1>9, <2>1, <2>2 DEF SoftTimeLimit, TypeOK, RunRecord
  <1>10. QED
    BY <1>1, <1>2, <1>3, <1>4, <1>5, <1>6, <1>7, <1>8, <1>9 DEF RunProgress

\* Type correctness: every variable keeps its shape under every step.
THEOREM TypeCorrect == Spec => []TypeOK
  <1>1. Init => TypeOK
    BY FreeJobType, IdleRunType, ConstantsAssumption
       DEF Init, TypeOK, UploadState, PurgeState
  <1>2. TypeOK /\ [Next]_vars => TypeOK'
    <2> SUFFICES ASSUME TypeOK, [Next]_vars
                 PROVE  TypeOK'
      OBVIOUS
    <2>1. CASE UNCHANGED vars
      BY <2>1 DEF TypeOK, vars
    <2>2. QED
      BY <2>1, RequestType, JobType, RunType DEF Next
  <1>3. QED
    BY <1>1, <1>2, PTL DEF Spec
-----------------------------------------------------------------------------
(***************************************************************************)
(* What jobs and runs can do to a document.                                *)
(***************************************************************************)
docVars == <<upload, row, chunks, gens, object, purge>>

\* The status of a document that exists is overwritten, and nothing else.
StatusWrite(d) ==
    /\ Exists(d)
    /\ \E s \in {"processing", "failed"} : row' = [row EXCEPT ![d] = s]
    /\ UNCHANGED <<upload, chunks, gens, object, purge>>

LEMMA JobEffect ==
  ASSUME TypeOK, NEW j \in Jobs, JobStep(j)
  PROVE  UNCHANGED docVars \/ \E d \in Docs : StatusWrite(d)
  <1> USE DEF docVars
  <1>1. CASE MarkFailed(j)
    <2>1. job[j].doc \in Docs
      BY DEF TypeOK, JobRecord
    <2>2. QED
      BY <1>1, <2>1 DEF MarkFailed, SetStatus, StatusWrite
  <1>2. CASE EnqueueIngestion(j)
    BY <1>2 DEF EnqueueIngestion
  <1>3. CASE HardTimeLimit(j)
    BY <1>3 DEF HardTimeLimit
  <1>4. CASE WorkerLost(j)
    BY <1>4 DEF WorkerLost
  <1>5. ASSUME NEW r \in Runs, StartJob(j, r)
        PROVE  UNCHANGED docVars
    BY <1>5 DEF StartJob
  <1>6. QED
    BY <1>1, <1>2, <1>3, <1>4, <1>5 DEF JobStep

LEMMA RunEffect ==
  ASSUME TypeOK, NEW r \in Runs,
         RunProgress(r) \/ RunFails(r) \/ SoftTimeLimit(r)
  PROVE  UNCHANGED docVars \/ (\E d \in Docs : StatusWrite(d)) \/ ReplaceCommit(r)
  <1> USE DEF docVars
  <1>1. CASE MarkProcessing(r)
    BY <1>1, DocOfType DEF MarkProcessing, SetStatus, StatusWrite
  <1>2. CASE LoadDocument(r)
    BY <1>2 DEF LoadDocument
  <1>3. CASE FetchAndChunk(r)
    BY <1>3 DEF FetchAndChunk
  <1>4. CASE Embed(r)
    BY <1>4 DEF Embed
  <1>5. CASE ReplaceDelete(r)
    BY <1>5 DEF ReplaceDelete
  <1>6. CASE ReplaceRollback(r)
    BY <1>6 DEF ReplaceRollback
  <1>7. CASE RunFails(r)
    BY <1>7 DEF RunFails
  <1>8. CASE SoftTimeLimit(r)
    BY <1>8 DEF SoftTimeLimit
  <1>9. QED
    BY <1>1, <1>2, <1>3, <1>4, <1>5, <1>6, <1>7, <1>8 DEF RunProgress

\* Every step, seen from the documents.
LEMMA StepEffect ==
  ASSUME TypeOK, [Next]_vars
  PROVE  \/ UNCHANGED docVars
         \/ \E d \in Docs : RequestStep(d)
         \/ \E d \in Docs : StatusWrite(d)
         \/ \E r \in Runs : ReplaceCommit(r)
  BY JobEffect, RunEffect DEF Next, vars, docVars
-----------------------------------------------------------------------------
(***************************************************************************)
(* The raw file.                                                           *)
(***************************************************************************)
LEMMA StorageStep ==
  ASSUME TypeOK, StorageInv, [Next]_vars
  PROVE  StorageInv'
  <1> USE DEF StorageInv, Exists, TypeOK
  <1>1. CASE UNCHANGED docVars
    BY <1>1 DEF docVars
  <1>2. ASSUME NEW d \in Docs, RequestStep(d)
        PROVE  StorageInv'
    <2>1. CASE UploadStream(d)
      BY <2>1 DEF UploadStream
    <2>2. CASE UploadCharge(d)
      BY <2>2 DEF UploadCharge
    <2>3. CASE UploadRecordFails(d)
      BY <2>3 DEF UploadRecordFails
    <2>4. CASE DeleteDocument(d)
      BY <2>4 DEF DeleteDocument
    <2>5. CASE EnqueuePurge(d)
      BY <2>5 DEF EnqueuePurge
    <2>6. CASE PurgeObject(d)
      BY <2>6 DEF PurgeObject
    <2>7. ASSUME NEW j \in Jobs, UploadRecord(d, j)
          PROVE  StorageInv'
      BY <2>7 DEF UploadRecord
    <2>8. ASSUME NEW j \in Jobs, Reprocess(d, j)
          PROVE  StorageInv'
      BY <2>8 DEF Reprocess
    <2>9. QED
      BY <1>2, <2>1, <2>2, <2>3, <2>4, <2>5, <2>6, <2>7, <2>8 DEF RequestStep
  <1>3. ASSUME NEW d \in Docs, StatusWrite(d)
        PROVE  StorageInv'
    BY <1>3 DEF StatusWrite
  <1>4. ASSUME NEW r \in Runs, ReplaceCommit(r)
        PROVE  StorageInv'
    BY <1>4, DocOfType DEF ReplaceCommit, InsertAllowed
  <1>5. QED
    BY <1>1, <1>2, <1>3, <1>4, StepEffect

LEMMA StorageHolds == Spec => []StorageInv
  <1>1. Init => StorageInv
    BY DEF Init, StorageInv, Exists
  <1>2. QED
    BY <1>1, StorageStep, TypeCorrect, PTL DEF Spec

\* The raw file of a document that exists is in object storage: neither a
\* refused charge nor a purge ever takes it.
THEOREM LiveObjectHolds == Spec => []LiveObject
  <1>1. StorageInv => LiveObject
    BY DEF StorageInv, LiveObject
  <1>2. QED
    BY <1>1, StorageHolds, PTL
-----------------------------------------------------------------------------
(***************************************************************************)
(* The chunks.  The three invariants about them are inductive together     *)
(* with the numbering of the generations.                                  *)
(***************************************************************************)
ChunkInv ==
    /\ ReadyIsSearchable
    /\ ChunksHaveDocument
    /\ OneGenerationPerWidth
    /\ GenerationInv

\* Steps that touch neither chunks nor numbering, and make nothing ready.
LEMMA ChunkFrame ==
  ASSUME ChunkInv, UNCHANGED <<chunks, gens>>,
         \A d \in Docs : row'[d] = "ready" => row[d] = "ready",
         \A d \in Docs : Exists(d) => Exists(d)'
  PROVE  ChunkInv'
  BY DEF ChunkInv, ReadyIsSearchable, ChunksHaveDocument,
         OneGenerationPerWidth, GenerationInv

LEMMA ChunkCommit ==
  ASSUME TypeOK, ChunkInv, NEW r \in Runs, ReplaceCommit(r)
  PROVE  ChunkInv'
  <1> DEFINE d == DocOf(r)
             new == [gen |-> gens[d] + 1, dim |-> run[r].dim]
  <1>1. d \in Docs /\ gens[d] \in Nat
    BY DocOfType DEF TypeOK
  <1>2. /\ chunks' = [chunks EXCEPT ![d] = Remaining(r) \cup {new}]
        /\ gens' = [gens EXCEPT ![d] = gens[d] + 1]
        /\ row' = [row EXCEPT ![d] = "ready"]
        /\ \A g \in Remaining(r) : g.dim # run[r].dim
    BY DEF ReplaceCommit, InsertAllowed
  <1>3. Remaining(r) \subseteq chunks[d]
    BY DEF Remaining
  <1>4. new.gen = gens[d] + 1 /\ new.dim = run[r].dim
    OBVIOUS
  <1>5. /\ chunks'[d] = Remaining(r) \cup {new}
        /\ gens'[d] = gens[d] + 1
        /\ row'[d] = "ready"
        /\ \A e \in Docs \ {d} : /\ chunks'[e] = chunks[e]
                                 /\ gens'[e] = gens[e]
                                 /\ row'[e] = row[e]
    BY <1>1, <1>2 DEF TypeOK
  <1> HIDE DEF d, new
  <1>6. ReadyIsSearchable' /\ ChunksHaveDocument'
    BY <1>5 DEF ChunkInv, ReadyIsSearchable, ChunksHaveDocument, Exists
  <1>7. OneGenerationPerWidth'
    BY <1>2, <1>3, <1>4, <1>5 DEF ChunkInv, OneGenerationPerWidth
  <1>8. GenerationInv'
    <2>1. \A e \in Docs \ {d} : \A g \in chunks'[e] : g.gen \in 1..gens'[e]
      BY <1>5 DEF ChunkInv, GenerationInv
    <2>2. \A g \in Remaining(r) : g.gen \in 1..gens[d]
      BY <1>1, <1>3 DEF ChunkInv, GenerationInv
    <2>3. \A g \in chunks'[d] : g.gen \in 1..gens'[d]
      BY <1>1, <1>4, <1>5, <2>2
    <2>4. QED
      BY <2>1, <2>3 DEF GenerationInv
  <1>9. QED
    BY <1>6, <1>7, <1>8 DEF ChunkInv

LEMMA ChunkStep ==
  ASSUME TypeOK, ChunkInv, [Next]_vars
  PROVE  ChunkInv'
  <1>1. CASE UNCHANGED docVars
    BY <1>1, ChunkFrame DEF docVars, Exists
  <1>2. ASSUME NEW d \in Docs, RequestStep(d)
        PROVE  ChunkInv'
    <2> USE DEF Exists, TypeOK
    <2>1. CASE UploadStream(d)
      BY <2>1, ChunkFrame DEF UploadStream
    <2>2. CASE UploadCharge(d)
      BY <2>2, ChunkFrame DEF UploadCharge
    <2>3. CASE UploadRecordFails(d)
      BY <2>3, ChunkFrame DEF UploadRecordFails
    <2>4. CASE DeleteDocument(d)
      BY <2>4 DEF DeleteDocument, ChunkInv, ReadyIsSearchable,
            ChunksHaveDocument, OneGenerationPerWidth, GenerationInv
    <2>5. CASE EnqueuePurge(d)
      BY <2>5, ChunkFrame DEF EnqueuePurge
    <2>6. CASE PurgeObject(d)
      BY <2>6, ChunkFrame DEF PurgeObject
    <2>7. ASSUME NEW j \in Jobs, UploadRecord(d, j)
          PROVE  ChunkInv'
      BY <2>7, ChunkFrame DEF UploadRecord
    <2>8. ASSUME NEW j \in Jobs, Reprocess(d, j)
          PROVE  ChunkInv'
      BY <2>8, ChunkFrame DEF Reprocess
    <2>9. QED
      BY <1>2, <2>1, <2>2, <2>3, <2>4, <2>5, <2>6, <2>7, <2>8 DEF RequestStep
  <1>3. ASSUME NEW d \in Docs, StatusWrite(d)
        PROVE  ChunkInv'
    BY <1>3, ChunkFrame DEF StatusWrite, Exists, TypeOK
  <1>4. QED
    BY <1>1, <1>2, <1>3, ChunkCommit, StepEffect

LEMMA ChunksHold == Spec => []ChunkInv
  <1>1. Init => ChunkInv
    BY DEF Init, ChunkInv, ReadyIsSearchable, ChunksHaveDocument,
           OneGenerationPerWidth, GenerationInv
  <1>2. QED
    BY <1>1, ChunkStep, TypeCorrect, PTL DEF Spec

\* A ready document has chunks, whatever else is at work on it.
THEOREM ReadyIsSearchableHolds == Spec => []ReadyIsSearchable
  BY ChunksHold, PTL DEF ChunkInv

\* Chunks never outlive their document.
THEOREM ChunksHaveDocumentHolds == Spec => []ChunksHaveDocument
  BY ChunksHold, PTL DEF ChunkInv

\* However many jobs, retries and abandoned runs overlap, a document has at
\* most one generation of each width.
THEOREM OneGenerationPerWidthHolds == Spec => []OneGenerationPerWidth
  BY ChunksHold, PTL DEF ChunkInv
-----------------------------------------------------------------------------
(***************************************************************************)
(* Deletion is final.                                                      *)
(***************************************************************************)
Final(d) == upload[d] = "recorded" /\ ~Exists(d) => ~Exists(d)' /\ chunks'[d] = {}

LEMMA FinalStep ==
  ASSUME TypeOK, ChunkInv, [Next]_vars, NEW d \in Docs
  PROVE  Final(d)
  <1> SUFFICES ASSUME upload[d] = "recorded", row[d] = "none"
               PROVE  row'[d] = "none" /\ chunks'[d] = {}
    BY DEF Final, Exists
  <1> USE DEF Exists, TypeOK
  <1>1. chunks[d] = {}
    BY DEF ChunkInv, ChunksHaveDocument
  <1>2. CASE UNCHANGED docVars
    BY <1>1, <1>2 DEF docVars
  <1>3. ASSUME NEW e \in Docs, RequestStep(e)
        PROVE  row'[d] = "none" /\ chunks'[d] = {}
    <2>1. ASSUME NEW j \in Jobs, UploadRecord(e, j) \/ Reprocess(e, j)
          PROVE  row'[d] = "none" /\ chunks'[d] = {}
      BY <1>1, <2>1 DEF UploadRecord, Reprocess
    <2>2. QED
      BY <1>1, <1>3, <2>1 DEF RequestStep, UploadStream, UploadCharge,
            UploadRecordFails, DeleteDocument, EnqueuePurge, PurgeObject
  <1>4. ASSUME NEW e \in Docs, StatusWrite(e)
        PROVE  row'[d] = "none" /\ chunks'[d] = {}
    BY <1>1, <1>4 DEF StatusWrite
  <1>5. ASSUME NEW r \in Runs, ReplaceCommit(r)
        PROVE  row'[d] = "none" /\ chunks'[d] = {}
    BY <1>1, <1>5, DocOfType DEF ReplaceCommit, InsertAllowed
  <1>6. QED
    BY <1>2, <1>3, <1>4, <1>5, StepEffect

\* No late step of any run brings a deleted document back.
THEOREM NeverResurrectedHolds == Spec => NeverResurrected
  <1>1. TypeOK /\ ChunkInv /\ [Next]_vars =>
            [\A d \in Docs : upload[d] = "recorded" /\ ~Exists(d)
                => ~Exists(d)' /\ chunks'[d] = {}]_vars
    BY FinalStep DEF Final
  <1>2. QED
    BY <1>1, TypeCorrect, ChunksHold, PTL DEF Spec, NeverResurrected
-----------------------------------------------------------------------------
(***************************************************************************)
(* No unfinished document is without a message, as long as no fault of     *)
(* LosesWork occurs.  The message of a run is kept by OwnershipInv: only   *)
(* the run that owns it can end it, and it ends it with the document in a  *)
(* final status, or hands it on.                                           *)
(***************************************************************************)
Owned ==
    /\ \A r \in Runs : Active(r) => run[r].owned /\ job[run[r].job].st = "running"
    /\ \A r, s \in Runs : Active(r) /\ Active(s) /\ run[r].job = run[s].job => r = s

InHand(j) == job[j].st \notin {"free", "done"}
Working(d) == \E j \in Jobs : job[j].doc = d /\ InHand(j)
Unfinished(d) == row[d] \in {"pending", "processing"}

\* Every message in hand stays in hand and keeps its document.
LEMMA WorkKept ==
  ASSUME \A j \in Jobs : InHand(j) => InHand(j)' /\ job'[j].doc = job[j].doc,
         NEW d \in Docs, Working(d)
  PROVE  Working(d)'
  BY DEF Working

LEMMA AttemptKept ==
  ASSUME NEW jr \in JobRecord, NEW o \in {"permanent", "error"}
  PROVE  AfterAttempt(jr, o).st \notin {"free", "done"}
  BY DEF AfterAttempt, JobRecord

\* A run that ends hands its message on, or has nothing left to do.
LEMMA EndRunKept ==
  ASSUME TypeOK, Owned, NEW r \in Runs, Active(r), NEW o \in Outcomes, EndRun(r, o)
  PROVE  /\ Owned'
         /\ \A d \in Docs : /\ Working(d)
                            /\ o \in {"permanent", "error"} \/ d # DocOf(r)
                            => Working(d)'
  <1> DEFINE k == run[r].job
  <1>1. k \in Jobs /\ job[k] \in JobRecord /\ DocOf(r) = job[k].doc
    BY DocOfType DEF TypeOK, DocOf
  <1>2. run' = [run EXCEPT ![r] = IdleRun] /\ job' = [job EXCEPT ![k] = AfterAttempt(job[k], o)]
    BY DEF EndRun, Owned
  <1>3. /\ job'[k] = AfterAttempt(job[k], o)
        /\ \A j \in Jobs \ {k} : job'[j] = job[j]
        /\ run'[r].pc = "idle"
        /\ \A s \in Runs \ {r} : run'[s] = run[s]
    BY <1>1, <1>2, IdleRunType DEF TypeOK
  <1>4. Owned'
    BY <1>3, <1>1 DEF Owned, Active, TypeOK, RunRecord
  <1>5. ASSUME NEW d \in Docs, Working(d), o \in {"permanent", "error"} \/ d # DocOf(r)
        PROVE  Working(d)'
    <2>1. PICK j \in Jobs : job[j].doc = d /\ InHand(j)
      BY <1>5 DEF Working
    <2>2. job'[j].doc = d /\ InHand(j)'
      <3>1. CASE j # k
        BY <1>3, <2>1, <3>1 DEF InHand
      <3>2. CASE j = k
        <4>1. o \in {"permanent", "error"}
          BY <1>1, <1>5, <2>1, <3>2
        <4>2. QED
          BY <1>1, <1>3, <2>1, <3>2, <4>1, AttemptKept, AfterAttemptType DEF InHand
      <3>3. QED
        BY <3>1, <3>2
    <2>3. QED
      BY <2>2 DEF Working
  <1>6. QED
    BY <1>4, <1>5

\* A run that goes on keeps its message.
LEMMA AdvanceKept ==
  ASSUME TypeOK, Owned, NEW r \in Runs, Active(r), UNCHANGED job,
         Active(r)', run'[r].job = run[r].job, run'[r].owned = run[r].owned,
         \A s \in Runs \ {r} : run'[s] = run[s]
  PROVE  Owned'
  BY DEF Owned, Active

WorkInv == Owned /\ \A d \in Docs : Unfinished(d) => Working(d)

\* Enough for WorkInv': nothing becomes unfinished, all messages are kept.
LEMMA WorkFrame ==
  ASSUME WorkInv, Owned',
         \A j \in Jobs : InHand(j) => InHand(j)' /\ job'[j].doc = job[j].doc,
         \A d \in Docs : Unfinished(d)' => Unfinished(d) \/ Working(d)'
  PROVE  WorkInv'
  BY WorkKept DEF WorkInv

LEMMA RequestWork ==
  ASSUME TypeOK, WorkInv, NEW d \in Docs, RequestStep(d)
  PROVE  WorkInv'
  <1> USE DEF TypeOK, Exists
  <1>1. CASE UNCHANGED <<job, run>> /\ \A e \in Docs : row'[e] \in {row[e], "none"}
    BY <1>1 DEF WorkInv, Owned, Active, Unfinished, Working, InHand
  <1>2. ASSUME NEW j \in Jobs, UploadRecord(d, j) \/ Reprocess(d, j)
        PROVE  WorkInv'
    <2>1. /\ job[j].st = "free"
          /\ job'[j].st = "owed" /\ job'[j].doc = d
          /\ \A i \in Jobs \ {j} : job'[i] = job[i]
          /\ row' = [row EXCEPT ![d] = "pending"]
          /\ run' = run
      BY <1>2 DEF UploadRecord, Reprocess
    <2>2. Owned'
      BY <2>1 DEF WorkInv, Owned, Active, RunRecord
    <2>3. \A i \in Jobs : InHand(i) => InHand(i)' /\ job'[i].doc = job[i].doc
      BY <2>1 DEF InHand
    <2>4. Working(d)'
      BY <2>1 DEF Working, InHand
    <2>5. \A e \in Docs : Unfinished(e)' => Unfinished(e) \/ Working(e)'
      BY <2>1, <2>4 DEF Unfinished
    <2>6. QED
      BY <2>2, <2>3, <2>5, WorkFrame
  <1>3. CASE UploadStream(d) \/ UploadCharge(d) \/ UploadRecordFails(d)
    BY <1>1, <1>3 DEF UploadStream, UploadCharge, UploadRecordFails
  <1>4. CASE DeleteDocument(d) \/ EnqueuePurge(d) \/ PurgeObject(d)
    BY <1>1, <1>4 DEF DeleteDocument, EnqueuePurge, PurgeObject
  <1>5. QED
    BY <1>2, <1>3, <1>4 DEF RequestStep

\* A worker that dies takes the owned run of its message with it.
LEMMA KillKept ==
  ASSUME TypeOK, Owned, NEW j \in Jobs, KillRunsOf(j)
  PROVE  \A r \in Runs : Active(r)' =>
            Active(r) /\ run'[r] = run[r] /\ run[r].job # j
  BY IdleRunType DEF KillRunsOf, Owned, Active, TypeOK

LEMMA JobWork ==
  ASSUME TypeOK, WorkInv, LosesWork \cap Faults = {}, NEW j \in Jobs, JobStep(j)
  PROVE  WorkInv'
  <1> USE DEF TypeOK
  <1>1. CASE EnqueueIngestion(j)
    <2>1. job' = [job EXCEPT ![j].st = "queued"] /\ job[j].st = "owed" /\ run' = run /\ row' = row
      BY <1>1 DEF EnqueueIngestion, LosesWork
    <2>2. Owned'
      BY <2>1 DEF WorkInv, Owned, Active, RunRecord, JobRecord
    <2>3. \A i \in Jobs : InHand(i) => InHand(i)' /\ job'[i].doc = job[i].doc
      BY <2>1 DEF InHand, JobRecord
    <2>4. QED
      BY <2>1, <2>2, <2>3, WorkFrame DEF Unfinished
  <1>2. CASE MarkFailed(j)
    <2> DEFINE e == job[j].doc
    <2>1. /\ job' = [job EXCEPT ![j].st = "done"] /\ job[j].st = "marking"
          /\ row' = IF Exists(e) THEN [row EXCEPT ![e] = "failed"] ELSE row
          /\ run' = run
      BY <1>2 DEF MarkFailed, SetStatus, LosesWork
    <2>2. e \in Docs
      BY DEF JobRecord
    <2>3. Owned'
      BY <2>1 DEF WorkInv, Owned, Active, RunRecord, JobRecord
    <2>4. ASSUME NEW d \in Docs, Unfinished(d)'
          PROVE  Working(d)'
      <3>1. d # e /\ Unfinished(d)
        BY <2>1, <2>2, <2>4 DEF Unfinished, Exists
      <3>2. PICK i \in Jobs : job[i].doc = d /\ InHand(i)
        BY <3>1 DEF WorkInv, Working
      <3>3. job'[i] = job[i]
        BY <2>1, <3>1, <3>2
      <3>4. QED
        BY <3>2, <3>3 DEF Working, InHand
    <2>5. QED
      BY <2>3, <2>4 DEF WorkInv
  <1>3. CASE HardTimeLimit(j)
    BY <1>3 DEF HardTimeLimit, LosesWork
  <1>4. CASE WorkerLost(j)
    <2>1. job' = [job EXCEPT ![j].st = "queued"] /\ job[j].st # "free" /\ row' = row
      BY <1>4 DEF WorkerLost
    <2>2. \A r \in Runs : Active(r)' => Active(r) /\ run'[r] = run[r] /\ run[r].job # j
      BY <1>4, KillKept DEF WorkerLost, WorkInv
    <2>3. Owned'
      BY <2>1, <2>2 DEF WorkInv, Owned, RunRecord
    <2>4. \A i \in Jobs : InHand(i) => InHand(i)' /\ job'[i].doc = job[i].doc
      BY <2>1 DEF InHand, JobRecord
    <2>5. QED
      BY <2>1, <2>3, <2>4, WorkFrame DEF Unfinished
  <1>5. ASSUME NEW r \in Runs, StartJob(j, r)
        PROVE  WorkInv'
    <2> DEFINE fresh == [IdleRun EXCEPT !.pc = "load", !.job = j, !.owned = TRUE]
    <2>1. fresh.pc = "load" /\ fresh.job = j /\ fresh.owned
      BY IdleRunType DEF RunRecord
    <2>2. /\ job' = [job EXCEPT ![j].st = "running"] /\ job[j].st = "queued"
          /\ run' = [run EXCEPT ![r] = fresh] /\ row' = row
      BY <1>5 DEF StartJob
    <2> HIDE DEF fresh
    <2>3. Owned'
      BY <2>1, <2>2 DEF WorkInv, Owned, Active, RunRecord, JobRecord
    <2>4. \A i \in Jobs : InHand(i) => InHand(i)' /\ job'[i].doc = job[i].doc
      BY <2>2 DEF InHand, JobRecord
    <2>5. QED
      BY <2>2, <2>3, <2>4, WorkFrame DEF Unfinished
  <1>6. QED
    BY <1>1, <1>2, <1>3, <1>4, <1>5 DEF JobStep

LEMMA RunWork ==
  ASSUME TypeOK, StorageInv, WorkInv, LosesWork \cap Faults = {},
         NEW r \in Runs, RunProgress(r) \/ RunFails(r) \/ SoftTimeLimit(r)
  PROVE  WorkInv'
  <1> PICK d \in Docs : d = DocOf(r)
    BY DocOfType
  <1>1. Owned /\ d = DocOf(r)
    BY DEF WorkInv
  \* The run ends and hands its message on.
  <1>2. ASSUME NEW o \in {"permanent", "error"}, Active(r), EndRun(r, o), row' = row
        PROVE  WorkInv'
    BY <1>1, <1>2, EndRunKept DEF WorkInv, Unfinished, Outcomes
  \* The run ends with nothing left to do for its document.
  <1>3. ASSUME NEW o \in {"ok", "missing"}, Active(r), EndRun(r, o), ~Unfinished(d)',
               \A e \in Docs \ {d} : row'[e] = row[e]
        PROVE  WorkInv'
    BY <1>1, <1>3, EndRunKept DEF WorkInv, Unfinished, Outcomes
  \* The run goes on; only the status of its own document may change.
  <1>4. ASSUME Active(r), UNCHANGED job,
               run'[r].pc # "idle", run'[r].job = run[r].job, run'[r].owned = run[r].owned,
               \A s \in Runs \ {r} : run'[s] = run[s],
               \A e \in Docs \ {d} : row'[e] = row[e]
        PROVE  WorkInv'
    <2>1. Owned'
      BY <1>1, <1>4, AdvanceKept DEF Active
    <2>2. run[r].job \in Jobs /\ InHand(run[r].job) /\ job[run[r].job].doc = d
      BY <1>1, <1>4, DocOfType DEF Owned, InHand, DocOf
    <2>3. Working(d)'
      BY <1>4, <2>2 DEF Working, InHand
    <2>4. \A e \in Docs : Unfinished(e)' => Unfinished(e) \/ Working(e)'
      BY <1>4, <2>3 DEF Unfinished
    <2>5. QED
      BY <1>4, <2>1, <2>4, WorkFrame DEF InHand
  <1>5. CASE LoadDocument(r)
    <2>1. CASE Exists(d)
      BY <1>1, <1>4, <1>5, <2>1 DEF LoadDocument, Advance, Active, TypeOK, RunRecord
    <2>2. CASE ~Exists(d)
      BY <1>1, <1>3, <1>5, <2>2 DEF LoadDocument, Active, Exists, Unfinished
    <2>3. QED
      BY <2>1, <2>2
  <1>6. CASE MarkProcessing(r)
    BY <1>1, <1>4, <1>6 DEF MarkProcessing, SetStatus, Advance, Active, TypeOK, RunRecord
  <1>7. CASE FetchAndChunk(r)
    <2>1. CASE Advance(r, "embed") /\ UNCHANGED job
      BY <1>4, <1>7, <2>1 DEF FetchAndChunk, Advance, Active, TypeOK, RunRecord
    <2>2. CASE ~object[d] /\ EndRun(r, "missing")
      BY <1>1, <1>3, <1>7, <2>2 DEF FetchAndChunk, Active, StorageInv, Exists, Unfinished
    <2>3. CASE EndRun(r, "permanent")
      BY <1>2, <1>7, <2>3 DEF FetchAndChunk, Active
    <2>4. QED
      BY <1>1, <1>7, <2>1, <2>2, <2>3 DEF FetchAndChunk, LosesWork
  <1>8. CASE Embed(r)
    <2>1. CASE EndRun(r, "permanent")
      BY <1>2, <1>8, <2>1 DEF Embed, Active
    <2>2. ASSUME NEW w \in Widths,
                 run' = [run EXCEPT ![r].pc = "replace", ![r].dim = w], UNCHANGED job
          PROVE  WorkInv'
      BY <1>4, <1>8, <2>2 DEF Embed, Active, TypeOK, RunRecord
    <2>3. QED
      BY <1>8, <2>1, <2>2 DEF Embed
  <1>9. CASE ReplaceDelete(r)
    BY <1>4, <1>9 DEF ReplaceDelete, Active, TypeOK, RunRecord
  <1>10. CASE ReplaceCommit(r)
    <2>1. /\ Active(r)
          /\ row' = [row EXCEPT ![d] = "ready"]
          /\ EndRun(r, "ok") \/ EndRun(r, "error")
      BY <1>1, <1>10 DEF ReplaceCommit, Active
    <2>2. ~Unfinished(d)' /\ \A e \in Docs \ {d} : row'[e] = row[e]
      BY <1>1, <2>1 DEF Unfinished, TypeOK
    <2>3. CASE EndRun(r, "ok")
      BY <1>3, <2>1, <2>2, <2>3
    <2>4. CASE EndRun(r, "error")
      BY <1>1, <2>1, <2>2, <2>4, EndRunKept DEF WorkInv, Unfinished, Outcomes
    <2>5. QED
      BY <2>1, <2>3, <2>4
  <1>11. CASE ReplaceRollback(r)
    BY <1>2, <1>11 DEF ReplaceRollback, Active
  <1>12. CASE RunFails(r)
    BY <1>2, <1>12 DEF RunFails
  <1>13. CASE SoftTimeLimit(r)
    BY <1>13 DEF SoftTimeLimit, LosesWork
  <1>14. QED
    BY <1>5, <1>6, <1>7, <1>8, <1>9, <1>10, <1>11, <1>12, <1>13 DEF RunProgress

LEMMA WorkStep ==
  ASSUME TypeOK, StorageInv, WorkInv, LosesWork \cap Faults = {}, [Next]_vars
  PROVE  WorkInv'
  <1>1. CASE UNCHANGED vars
    BY <1>1 DEF vars, WorkInv, Owned, Active, Unfinished, Working, InHand
  <1>2. QED
    BY <1>1, RequestWork, JobWork, RunWork DEF Next

\* Without the faults of LosesWork an unfinished document always has a
\* message that will finish it, and every run has a message of its own.
THEOREM NoLostWorkHolds == Spec => [](NoLostWork /\ OwnershipInv)
  <1> DEFINE Kept == LosesWork \cap Faults = {} => WorkInv
  <1>1. Init => Kept
    BY IdleRunType DEF Init, WorkInv, Owned, Active, Unfinished
  <1>2. TypeOK /\ StorageInv /\ Kept /\ [Next]_vars => Kept'
    BY WorkStep
  <1>3. Kept => NoLostWork /\ OwnershipInv
    BY DEF WorkInv, Owned, Unfinished, Working, InHand, NoLostWork, OwnershipInv
  <1> HIDE DEF Kept
  <1>4. QED
    BY <1>1, <1>2, <1>3, TypeCorrect, StorageHolds, PTL DEF Spec
-----------------------------------------------------------------------------
(***************************************************************************)
(* Ingestion implements DocumentCorpus, for a provider that keeps to one   *)
(* width.                                                                  *)
(***************************************************************************)
OneWidth == \E w : Widths = {w}

phaseBar == [d \in Docs |-> Phase(d)]
publishedBar == [d \in Docs |-> Published(d)]

LEMMA PublishedOne ==
  ASSUME NEW d \in Docs, NEW g, chunks[d] = {g}
  PROVE  Published(d) = g.gen
  BY DEF Published

\* With one width the unique constraint leaves room for one generation.
LEMMA AtMostOne ==
  ASSUME TypeOK, ChunkInv, OneWidth, NEW d \in Docs
  PROVE  /\ chunks[d] = {} \/ \E g \in chunks[d] : chunks[d] = {g}
         /\ Published(d) \in 0..gens[d]
  <1>1. \A g, h \in chunks[d] : g = h
    BY DEF TypeOK, Generation, OneWidth, ChunkInv, OneGenerationPerWidth
  <1>2. CASE chunks[d] = {}
    BY <1>2 DEF Published, TypeOK
  <1>3. CASE chunks[d] # {}
    <2>1. PICK g \in chunks[d] : chunks[d] = {g}
      BY <1>1, <1>3
    <2>2. Published(d) = g.gen
      BY <2>1, PublishedOne
    <2>3. g.gen \in 1..gens[d] /\ gens[d] \in Nat
      BY DEF ChunkInv, GenerationInv, TypeOK
    <2>4. QED
      BY <2>1, <2>2, <2>3
  <1>4. QED
    BY <1>2, <1>3

\* The replacing transaction publishes a newer generation.
LEMMA CommitPublishes ==
  ASSUME TypeOK, ChunkInv, OneWidth, NEW r \in Runs, ReplaceCommit(r)
  PROVE  \E d \in Docs : Corpus!Publish(d)
  <1> PICK d \in Docs : d = DocOf(r)
    BY DocOfType
  <1> DEFINE new == [gen |-> gens[d] + 1, dim |-> run[r].dim]
  <1>1. /\ Exists(d)
        /\ chunks' = [chunks EXCEPT ![d] = Remaining(r) \cup {new}]
        /\ row' = [row EXCEPT ![d] = "ready"]
        /\ upload' = upload
        /\ \A g \in Remaining(r) : g.dim # run[r].dim
    BY DEF ReplaceCommit, InsertAllowed
  <1>2. Remaining(r) = {}
    BY <1>1 DEF Remaining, TypeOK, RunRecord, Generation, OneWidth
  <1>3. chunks'[d] = {new} /\ \A e \in Docs \ {d} : chunks'[e] = chunks[e]
    BY <1>1, <1>2 DEF TypeOK
  <1>4. new.gen = gens[d] + 1
    OBVIOUS
  <1> HIDE DEF new
  <1>5. Published(d)' = gens[d] + 1
    BY <1>3, <1>4 DEF Published
  <1>6. Published(d) \in 0..gens[d] /\ gens[d] \in Nat
    BY AtMostOne DEF TypeOK
  <1>7. \A e \in Docs \ {d} : Published(e)' = Published(e)
    BY <1>3 DEF Published
  <1>8. \A e \in Docs : Phase(e)' = Phase(e)
    BY <1>1 DEF Phase, Exists, TypeOK
  <1>9. phaseBar' = phaseBar /\ phaseBar[d] = "accepted"
    BY <1>1, <1>8 DEF phaseBar, Phase
  <1>10. /\ publishedBar'[d] > publishedBar[d]
         /\ publishedBar' = [publishedBar EXCEPT ![d] = publishedBar'[d]]
    <2> DEFINE P(e) == Published(e)
               Q(e) == Published(e)'
    <2>1. publishedBar = [e \in Docs |-> P(e)] /\ publishedBar' = [e \in Docs |-> Q(e)]
      BY DEF publishedBar
    <2>2. Q(d) > P(d) /\ \A e \in Docs \ {d} : Q(e) = P(e)
      BY <1>5, <1>6, <1>7
    <2> HIDE DEF P, Q
    <2>3. QED
      BY <2>1, <2>2
  <1>11. QED
    BY <1>9, <1>10 DEF Corpus!Publish, phaseBar, publishedBar

LEMMA RequestImplements ==
  ASSUME TypeOK, StorageInv, NEW d \in Docs, RequestStep(d)
  PROVE  \/ Corpus!Accept(d)
         \/ Corpus!Withdraw(d)
         \/ phaseBar' = phaseBar /\ publishedBar' = publishedBar
  <1> USE DEF TypeOK, Exists
  <1>1. ASSUME UNCHANGED <<row, chunks>>,
               \A e \in Docs : upload[e] = "recorded" <=> upload'[e] = "recorded"
        PROVE  phaseBar' = phaseBar /\ publishedBar' = publishedBar
    BY <1>1 DEF phaseBar, publishedBar, Phase, Published
  <1>2. CASE UploadStream(d)
    BY <1>1, <1>2 DEF UploadStream
  <1>3. CASE UploadCharge(d)
    BY <1>1, <1>3 DEF UploadCharge
  <1>4. CASE UploadRecordFails(d)
    BY <1>1, <1>4 DEF UploadRecordFails
  <1>5. CASE EnqueuePurge(d) \/ PurgeObject(d)
    BY <1>1, <1>5 DEF EnqueuePurge, PurgeObject
  <1>6. CASE DeleteDocument(d)
    <2>1. phaseBar[d] = "accepted" /\ phaseBar' = [phaseBar EXCEPT ![d] = "withdrawn"]
      BY <1>6 DEF DeleteDocument, StorageInv, phaseBar, Phase
    <2>2. publishedBar' = [publishedBar EXCEPT ![d] = 0]
      <3> DEFINE P(e) == Published(e)
                 Q(e) == Published(e)'
      <3>1. publishedBar = [e \in Docs |-> P(e)] /\ publishedBar' = [e \in Docs |-> Q(e)]
        BY DEF publishedBar
      <3>2. chunks'[d] = {} /\ \A e \in Docs \ {d} : chunks'[e] = chunks[e]
        BY <1>6 DEF DeleteDocument
      <3>3. Q(d) = 0 /\ \A e \in Docs \ {d} : Q(e) = P(e)
        BY <3>2 DEF Published
      <3> HIDE DEF P, Q
      <3>4. QED
        BY <3>1, <3>3
    <2>3. QED
      BY <2>1, <2>2 DEF Corpus!Withdraw, phaseBar, publishedBar
  <1>7. ASSUME NEW j \in Jobs, UploadRecord(d, j)
        PROVE  Corpus!Accept(d)
    <2>1. phaseBar[d] = "new" /\ phaseBar' = [phaseBar EXCEPT ![d] = "accepted"]
      BY <1>7 DEF UploadRecord, StorageInv, phaseBar, Phase
    <2>2. publishedBar' = publishedBar
      BY <1>7 DEF UploadRecord, publishedBar, Published
    <2>3. QED
      BY <2>1, <2>2 DEF Corpus!Accept, phaseBar, publishedBar
  <1>8. ASSUME NEW j \in Jobs, Reprocess(d, j)
        PROVE  phaseBar' = phaseBar /\ publishedBar' = publishedBar
    BY <1>8 DEF Reprocess, phaseBar, publishedBar, Phase, Published
  <1>9. QED
    BY <1>2, <1>3, <1>4, <1>5, <1>6, <1>7, <1>8 DEF RequestStep

LEMMA StepImplements ==
  ASSUME TypeOK, StorageInv, ChunkInv, OneWidth, [Next]_vars
  PROVE  [Corpus!CorpusNext]_(Corpus!corpusVars)
  <1> SUFFICES \/ Corpus!CorpusNext
               \/ phaseBar' = phaseBar /\ publishedBar' = publishedBar
    BY DEF Corpus!corpusVars, phaseBar, publishedBar
  <1>1. CASE UNCHANGED docVars
    BY <1>1 DEF docVars, phaseBar, publishedBar, Phase, Published, Exists
  <1>2. CASE \E d \in Docs : RequestStep(d)
    BY <1>2, RequestImplements DEF Corpus!CorpusNext
  <1>3. ASSUME NEW d \in Docs, StatusWrite(d)
        PROVE  phaseBar' = phaseBar /\ publishedBar' = publishedBar
    BY <1>3 DEF StatusWrite, TypeOK, phaseBar, publishedBar, Phase, Published, Exists
  <1>4. CASE \E r \in Runs : ReplaceCommit(r)
    BY <1>4, CommitPublishes DEF Corpus!CorpusNext
  <1>5. QED
    BY <1>1, <1>2, <1>3, <1>4, StepEffect

\* To a search, all of uploads, jobs, retries, crashes and time limits is
\* accepting, publishing and withdrawing whole documents.
THEOREM CorpusImplemented ==
  ASSUME OneWidth
  PROVE  Spec => ImplementsCorpus
  <1>1. Init => Corpus!CorpusInit
    BY DEF Init, Corpus!CorpusInit, Phase, Published, Exists
  <1>2. TypeOK /\ StorageInv /\ ChunkInv /\ [Next]_vars
            => [Corpus!CorpusNext]_(Corpus!corpusVars)
    BY StepImplements
  <1>3. QED
    BY <1>1, <1>2, TypeCorrect, StorageHolds, ChunksHold, PTL
       DEF Spec, ImplementsCorpus, Corpus!CorpusSpec
=============================================================================
