------------------------------ MODULE Ingestion ------------------------------
(***************************************************************************)
(* The life of an uploaded document of one chatbot: the upload request     *)
(* (app/services/document.py), the Celery job that extracts, embeds and    *)
(* stores it (app/worker/tasks.py, app/services/ingestion/pipeline.py),    *)
(* reprocessing, deletion and the purge of the raw file.                   *)
(*                                                                         *)
(* A `job' is one Celery message; a `run' is one execution of the          *)
(* process_document coroutine for a job.  Several jobs may name the same   *)
(* document (reprocess), and after a soft time limit the coroutine of an   *)
(* attempt goes on running on the worker's event loop although its task    *)
(* has already been retried: such a run is no longer `owned' by its job.   *)
(*                                                                         *)
(* A chunk row is abstracted to its generation: all rows that one run      *)
(* inserts share a generation number and an embedding width.  Each step    *)
(* of a run is one transaction or one external call; the transaction that  *)
(* replaces the chunks is split at its DELETE, because under READ          *)
(* COMMITTED its DELETE and its INSERT see different snapshots.            *)
(***************************************************************************)
EXTENDS Integers, FiniteSets

CONSTANTS
    Docs,        \* document ids (uuid4: an id is never used twice)
    Jobs,        \* Celery messages that may ever be sent
    Runs,        \* coroutine slots: worker processes, plus abandoned runs
    Widths,      \* widths the embedding provider may return
    MaxRetries,  \* settings.ingestion.max_task_retries
    MaxCrashes,  \* how often a worker is lost in a behaviour (a bound)
    Faults       \* the failures the environment may produce

FaultKinds == {"refused", "aborted", "broker", "permanent", "retryable",
               "error", "crash", "soft_limit", "hard_limit", "mark", "purge"}

ASSUME ConstantsAssumption ==
    /\ Docs # {}
    /\ Jobs # {}
    /\ Widths # {}
    /\ MaxRetries \in Nat
    /\ MaxCrashes \in Nat
    /\ Faults \subseteq FaultKinds

VARIABLES
    upload,   \* [Docs -> UploadState]: progress of upload_document
    row,      \* [Docs -> {"none"} \cup DocumentStatus]: document.status
    chunks,   \* [Docs -> SUBSET Generation]: document_chunk rows
    gens,     \* [Docs -> Nat]: generations written so far
    object,   \* [Docs -> BOOLEAN]: raw file in object storage
    purge,    \* [Docs -> PurgeState]: the purge_document_objects message
    job,      \* [Jobs -> JobRecord]
    run,      \* [Runs -> RunRecord]
    crashes   \* workers lost so far

vars == <<upload, row, chunks, gens, object, purge, job, run, crashes>>

DocumentStatus == {"pending", "processing", "ready", "failed"}
UploadState == {"new", "streamed", "charged", "recorded", "closed"}
PurgeState == {"none", "owed", "queued", "done"}
JobState == {"free", "owed", "queued", "running", "marking", "done"}
RunStep == {"idle", "load", "mark", "fetch", "embed", "replace", "commit"}

Generation == [gen : Nat, dim : Widths]
JobRecord == [st : JobState, doc : Docs, retries : 0..MaxRetries]
RunRecord == [pc : RunStep, job : Jobs, owned : BOOLEAN,
              dim : Widths, doomed : SUBSET Generation]

FreeJob == [st |-> "free", doc |-> CHOOSE d \in Docs : TRUE, retries |-> 0]
IdleRun == [pc |-> "idle", job |-> CHOOSE j \in Jobs : TRUE, owned |-> FALSE,
            dim |-> CHOOSE w \in Widths : TRUE, doomed |-> {}]

Active(r) == run[r].pc # "idle"
DocOf(r) == job[run[r].job].doc
Exists(d) == row[d] # "none"

Init ==
    /\ upload = [d \in Docs |-> "new"]
    /\ row = [d \in Docs |-> "none"]
    /\ chunks = [d \in Docs |-> {}]
    /\ gens = [d \in Docs |-> 0]
    /\ object = [d \in Docs |-> FALSE]
    /\ purge = [d \in Docs |-> "none"]
    /\ job = [j \in Jobs |-> FreeJob]
    /\ run = [r \in Runs |-> IdleRun]
    /\ crashes = 0
-----------------------------------------------------------------------------
(***************************************************************************)
(* upload_document.  The charge (usage.consume) is an environment choice   *)
(* here; module UsageCap models it.                                        *)
(***************************************************************************)

\* Stream to object storage.  A file the metering stream rejects is deleted
\* again; any other failure leaves what was written behind.
UploadStream(d) ==
    /\ upload[d] = "new"
    /\ \/ /\ upload' = [upload EXCEPT ![d] = "streamed"]
          /\ object' = [object EXCEPT ![d] = TRUE]
       \/ /\ "refused" \in Faults
          /\ upload' = [upload EXCEPT ![d] = "closed"]
          /\ UNCHANGED object
       \/ /\ "aborted" \in Faults
          /\ upload' = [upload EXCEPT ![d] = "closed"]
          /\ object' = [object EXCEPT ![d] = TRUE]
    /\ UNCHANGED <<row, chunks, gens, purge, job, run, crashes>>

\* Mutant: the refusal deletes the object but the request carries on.
UploadChargeNoRaise(d) ==
    /\ upload[d] = "streamed"
    /\ upload' = [upload EXCEPT ![d] = "charged"]
    /\ object' \in {object, [object EXCEPT ![d] = FALSE]}
    /\ UNCHANGED <<row, chunks, gens, purge, job, run, crashes>>

\* consume(): a refusal deletes the object and leaves nothing behind.
UploadCharge(d) ==
    /\ upload[d] = "streamed"
    /\ \/ /\ upload' = [upload EXCEPT ![d] = "charged"]
          /\ UNCHANGED object
       \/ /\ "refused" \in Faults
          /\ upload' = [upload EXCEPT ![d] = "closed"]
          /\ object' = [object EXCEPT ![d] = FALSE]
    /\ UNCHANGED <<row, chunks, gens, purge, job, run, crashes>>

\* Insert the PENDING row.  The request still owes the broker a message.
UploadRecord(d, j) ==
    /\ upload[d] = "charged"
    /\ job[j].st = "free"
    /\ upload' = [upload EXCEPT ![d] = "recorded"]
    /\ row' = [row EXCEPT ![d] = "pending"]
    /\ job' = [job EXCEPT ![j] = [st |-> "owed", doc |-> d, retries |-> 0]]
    /\ UNCHANGED <<chunks, gens, object, purge, run, crashes>>

\* The insert fails (chatbot gone, database down): the object stays.
UploadRecordFails(d) ==
    /\ "aborted" \in Faults
    /\ upload[d] = "charged"
    /\ upload' = [upload EXCEPT ![d] = "closed"]
    /\ UNCHANGED <<row, chunks, gens, object, purge, job, run, crashes>>

\* _enqueue_ingestion.  The broker does not look at task_id: every message
\* is delivered.  A broker outage (or an API process lost here) is logged
\* and the message is gone.
EnqueueIngestion(j) ==
    /\ job[j].st = "owed"
    /\ \/ job' = [job EXCEPT ![j].st = "queued"]
       \/ /\ "broker" \in Faults
          /\ job' = [job EXCEPT ![j].st = "done"]
    /\ UNCHANGED <<upload, row, chunks, gens, object, purge, run, crashes>>

\* reprocess_document: back to PENDING, then enqueue again.
Reprocess(d, j) ==
    /\ Exists(d)
    /\ job[j].st = "free"
    /\ row' = [row EXCEPT ![d] = "pending"]
    /\ job' = [job EXCEPT ![j] = [st |-> "owed", doc |-> d, retries |-> 0]]
    /\ UNCHANGED <<upload, chunks, gens, object, purge, run, crashes>>

\* Mutant: the purge is never asked for.
DeleteDocumentNoPurge(d) ==
    /\ Exists(d)
    /\ row' = [row EXCEPT ![d] = "none"]
    /\ chunks' = [chunks EXCEPT ![d] = {}]
    /\ UNCHANGED <<upload, gens, object, purge, job, run, crashes>>

\* delete_document: the row and, by ON DELETE CASCADE, its chunks.
DeleteDocument(d) ==
    /\ Exists(d)
    /\ row' = [row EXCEPT ![d] = "none"]
    /\ chunks' = [chunks EXCEPT ![d] = {}]
    /\ purge' = [purge EXCEPT ![d] = "owed"]
    /\ UNCHANGED <<upload, gens, object, job, run, crashes>>

\* _enqueue_object_purge, after the transaction has committed.
EnqueuePurge(d) ==
    /\ purge[d] = "owed"
    /\ \/ purge' = [purge EXCEPT ![d] = "queued"]
       \/ /\ "broker" \in Faults
          /\ purge' = [purge EXCEPT ![d] = "done"]
    /\ UNCHANGED <<upload, row, chunks, gens, object, job, run, crashes>>

\* purge_document_objects_task.  Not retried when the storage call fails.
PurgeObject(d) ==
    /\ purge[d] = "queued"
    /\ purge' = [purge EXCEPT ![d] = "done"]
    /\ \/ object' = [object EXCEPT ![d] = FALSE]
       \/ "purge" \in Faults /\ UNCHANGED object
    /\ UNCHANGED <<upload, row, chunks, gens, job, run, crashes>>
-----------------------------------------------------------------------------
(***************************************************************************)
(* process_document_task around process_document.                          *)
(***************************************************************************)

\* Mutant: exhausted retries end the task like a retryable error does.
AfterAttemptForgetsFailure(jr, outcome) ==
    IF outcome \in {"retryable", "error"} /\ jr.retries < MaxRetries
    THEN [jr EXCEPT !.st = "queued", !.retries = @ + 1]
    ELSE [jr EXCEPT !.st = IF outcome = "permanent" THEN "marking" ELSE "done"]

\* What the task's except clauses make of an attempt's outcome.  Celery's
\* self.retry re-raises the exception once max_retries is used up, so a
\* retryable DocumentProcessingError then ends the task without mark_failed.
AfterAttempt(jr, outcome) ==
    IF outcome \in {"retryable", "error"} /\ jr.retries < MaxRetries
    THEN [st |-> "queued", doc |-> jr.doc, retries |-> jr.retries + 1]
    ELSE [jr EXCEPT !.st = IF outcome \in {"permanent", "error"}
                           THEN "marking" ELSE "done"]

\* The run ends; nobody looks at the outcome of an abandoned one.
EndRun(r, outcome) ==
    /\ run' = [run EXCEPT ![r] = IdleRun]
    /\ job' = IF run[r].owned
              THEN [job EXCEPT ![run[r].job] = AfterAttempt(@, outcome)]
              ELSE job

Advance(r, pc) == run' = [run EXCEPT ![r].pc = pc]

\* A worker takes a message (acks_late: it is not acknowledged yet).
StartJob(j, r) ==
    /\ job[j].st = "queued"
    /\ ~Active(r)
    /\ job' = [job EXCEPT ![j].st = "running"]
    /\ run' = [run EXCEPT ![r] = [IdleRun EXCEPT !.pc = "load", !.job = j,
                                                 !.owned = TRUE]]
    /\ UNCHANGED <<upload, row, chunks, gens, object, purge, crashes>>

\* Read the row; a document deleted while queued ends the job quietly.
LoadDocument(r) ==
    /\ run[r].pc = "load"
    /\ IF Exists(DocOf(r)) THEN Advance(r, "mark") /\ UNCHANGED job
                           ELSE EndRun(r, "missing")
    /\ UNCHANGED <<upload, row, chunks, gens, object, purge, crashes>>

\* _set_status: does nothing to a row that is gone.
SetStatus(d, status) ==
    row' = IF Exists(d) THEN [row EXCEPT ![d] = status] ELSE row

MarkProcessing(r) ==
    /\ run[r].pc = "mark"
    /\ SetStatus(DocOf(r), "processing")
    /\ Advance(r, "fetch")
    /\ UNCHANGED <<upload, chunks, gens, object, purge, job, crashes>>

\* Download, malware scan, extract, chunk.
FetchAndChunk(r) ==
    /\ run[r].pc = "fetch"
    /\ \/ /\ object[DocOf(r)]
          /\ Advance(r, "embed")
          /\ UNCHANGED job
       \/ ~object[DocOf(r)] /\ EndRun(r, "missing")
       \/ "permanent" \in Faults /\ EndRun(r, "permanent")
       \/ "retryable" \in Faults /\ EndRun(r, "retryable")
    /\ UNCHANGED <<upload, row, chunks, gens, object, purge, crashes>>

\* Embed through the chatbot's provider and settle on one width.
Embed(r) ==
    /\ run[r].pc = "embed"
    /\ \/ /\ \E w \in Widths :
                run' = [run EXCEPT ![r].pc = "replace", ![r].dim = w]
          /\ UNCHANGED job
       \/ "permanent" \in Faults /\ EndRun(r, "permanent")
    /\ UNCHANGED <<upload, row, chunks, gens, object, purge, crashes>>

\* Mutant: the DELETE is a transaction of its own.
ReplaceDeleteCommitted(r) ==
    /\ run[r].pc = "replace"
    /\ run' = [run EXCEPT ![r].pc = "commit", ![r].doomed = chunks[DocOf(r)]]
    /\ chunks' = [chunks EXCEPT ![DocOf(r)] = {}]
    /\ UNCHANGED <<upload, row, gens, object, purge, job, crashes>>

\* First statement of the replacing transaction: DELETE the rows its
\* snapshot shows.  They go when the transaction commits.
ReplaceDelete(r) ==
    /\ run[r].pc = "replace"
    /\ run' = [run EXCEPT ![r].pc = "commit", ![r].doomed = chunks[DocOf(r)]]
    /\ UNCHANGED <<upload, row, chunks, gens, object, purge, job, crashes>>

\* What else is in the table when the INSERT runs.
Remaining(r) == chunks[DocOf(r)] \ run[r].doomed

\* Mutant: a missing unique constraint.
InsertUnconstrained(r) == Exists(DocOf(r))

\* uq_document_chunk_doc_index: chunk 0 of two generations collides when
\* their widths agree.  The foreign key needs the document row.
InsertAllowed(r) ==
    /\ Exists(DocOf(r))
    /\ \A g \in Remaining(r) : g.dim # run[r].dim

\* The rest of the transaction: INSERT, status READY, commit.  When the
\* connection drops during the commit the task sees an error and repeats
\* what is already done.
ReplaceCommit(r) ==
    LET d == DocOf(r) IN
    /\ run[r].pc = "commit"
    /\ InsertAllowed(r)
    /\ chunks' = [chunks EXCEPT ![d] = Remaining(r) \cup
                        {[gen |-> gens[d] + 1, dim |-> run[r].dim]}]
    /\ gens' = [gens EXCEPT ![d] = @ + 1]
    /\ row' = [row EXCEPT ![d] = "ready"]
    /\ EndRun(r, "ok") \/ ("error" \in Faults /\ EndRun(r, "error"))
    /\ UNCHANGED <<upload, object, purge, crashes>>

\* An IntegrityError rolls the transaction back.
ReplaceRollback(r) ==
    /\ run[r].pc = "commit"
    /\ ~InsertAllowed(r)
    /\ EndRun(r, "error")
    /\ UNCHANGED <<upload, row, chunks, gens, object, purge, crashes>>

\* Any other exception: database, storage, provider.
RunFails(r) ==
    /\ "error" \in Faults
    /\ Active(r)
    /\ EndRun(r, "error")
    /\ UNCHANGED <<upload, row, chunks, gens, object, purge, crashes>>

\* mark_failed, the task's last act: when it raises, the task is over all
\* the same.  (Interrupted by the soft limit, its coroutine still runs.)
MarkFailed(j) ==
    /\ job[j].st = "marking"
    /\ \/ SetStatus(job[j].doc, "failed")
       \/ "mark" \in Faults /\ UNCHANGED row
    /\ job' = [job EXCEPT ![j].st = "done"]
    /\ UNCHANGED <<upload, chunks, gens, object, purge, run, crashes>>

\* The soft limit interrupts the thread that waits in runtime.run(), not
\* the coroutine: the task retries, the run goes on unowned.
SoftTimeLimit(r) ==
    /\ "soft_limit" \in Faults
    /\ Active(r) /\ run[r].owned
    /\ run' = [run EXCEPT ![r].owned = FALSE]
    /\ job' = [job EXCEPT ![run[r].job] = AfterAttempt(@, "error")]
    /\ UNCHANGED <<upload, row, chunks, gens, object, purge, crashes>>

\* A dying worker process takes the job's own run with it, and any of the
\* abandoned runs that were on its event loop.
KillRunsOf(j) ==
    \E dead \in SUBSET {r \in Runs : Active(r) /\ (run[r].owned => run[r].job = j)} :
        /\ \A r \in Runs : Active(r) /\ run[r].owned /\ run[r].job = j => r \in dead
        /\ run' = [r \in Runs |-> IF r \in dead THEN IdleRun ELSE run[r]]

\* The hard limit kills the process and acknowledges the message.
HardTimeLimit(j) ==
    /\ "hard_limit" \in Faults
    /\ job[j].st \in {"running", "marking"}
    /\ job' = [job EXCEPT ![j].st = "done"]
    /\ KillRunsOf(j)
    /\ UNCHANGED <<upload, row, chunks, gens, object, purge, crashes>>

\* A lost worker: task_reject_on_worker_lost puts the message back.
WorkerLost(j) ==
    /\ "crash" \in Faults
    /\ crashes < MaxCrashes
    /\ job[j].st \in {"running", "marking"}
    /\ job' = [job EXCEPT ![j].st = "queued"]
    /\ KillRunsOf(j)
    /\ crashes' = crashes + 1
    /\ UNCHANGED <<upload, row, chunks, gens, object, purge>>
-----------------------------------------------------------------------------
RequestStep(d) ==
    \/ UploadStream(d)
    \/ UploadCharge(d)
    \/ UploadRecordFails(d)
    \/ DeleteDocument(d)
    \/ EnqueuePurge(d)
    \/ PurgeObject(d)
    \/ \E j \in Jobs : UploadRecord(d, j) \/ Reprocess(d, j)

RunProgress(r) ==
    \/ LoadDocument(r)
    \/ MarkProcessing(r)
    \/ FetchAndChunk(r)
    \/ Embed(r)
    \/ ReplaceDelete(r)
    \/ ReplaceCommit(r)
    \/ ReplaceRollback(r)

JobStep(j) ==
    \/ EnqueueIngestion(j)
    \/ MarkFailed(j)
    \/ HardTimeLimit(j)
    \/ WorkerLost(j)
    \/ \E r \in Runs : StartJob(j, r)

Next ==
    \/ \E d \in Docs : RequestStep(d)
    \/ \E j \in Jobs : JobStep(j)
    \/ \E r \in Runs : RunProgress(r) \/ RunFails(r) \/ SoftTimeLimit(r)

Spec == Init /\ [][Next]_vars

(***************************************************************************)
(* A request that has begun finishes, workers consume their queue and the  *)
(* event loop runs its coroutines.  Users and failures owe us nothing.     *)
(***************************************************************************)
Fairness ==
    /\ \A j \in Jobs :
        /\ WF_vars(EnqueueIngestion(j))
        /\ WF_vars(\E r \in Runs : StartJob(j, r))
        /\ WF_vars(MarkFailed(j))
    /\ \A r \in Runs : WF_vars(RunProgress(r))
    /\ \A d \in Docs : WF_vars(EnqueuePurge(d)) /\ WF_vars(PurgeObject(d))

FairSpec == Spec /\ Fairness
-----------------------------------------------------------------------------
(***************************************************************************)
(* Properties.                                                             *)
(***************************************************************************)
TypeOK ==
    /\ upload \in [Docs -> UploadState]
    /\ row \in [Docs -> {"none"} \cup DocumentStatus]
    /\ chunks \in [Docs -> SUBSET Generation]
    /\ gens \in [Docs -> Nat]
    /\ object \in [Docs -> BOOLEAN]
    /\ purge \in [Docs -> PurgeState]
    /\ job \in [Jobs -> JobRecord]
    /\ run \in [Runs -> RunRecord]
    /\ crashes \in 0..MaxCrashes

\* A document shown as `ready' has chunks to retrieve, whatever other job,
\* retry, crash or abandoned run is still at work on it: the status and the
\* chunks are written by one transaction and no other step empties them.
ReadyIsSearchable == \A d \in Docs : row[d] = "ready" => chunks[d] # {}

\* No passage of a deleted document can be retrieved, even when the delete
\* falls into the middle of a run's replacing transaction.
ChunksHaveDocument == \A d \in Docs : chunks[d] # {} => Exists(d)

\* Overlapping jobs, retries and abandoned runs never leave two generations
\* of the same width in the table: every passage is retrieved once.
OneGenerationPerWidth ==
    \A d \in Docs : \A g, h \in chunks[d] : g.dim = h.dim => g = h

\* As long as the row exists its raw file is there to be processed again:
\* neither a refused charge nor a purge ever takes the file of a live row.
LiveObject == \A d \in Docs : Exists(d) => object[d]

\* A deleted document stays deleted: no late step of a run, of a task or of
\* an abandoned coroutine brings back its row or its chunks.
NeverResurrected ==
    [][\A d \in Docs : upload[d] = "recorded" /\ ~Exists(d)
            => ~Exists(d)' /\ chunks'[d] = {}]_vars

\* Why LiveObject holds: the file is there from the end of the stream on,
\* and only a document that is gone has a purge under way.
StorageInv ==
    \A d \in Docs :
        /\ Exists(d) => object[d] /\ upload[d] = "recorded" /\ purge[d] = "none"
        /\ upload[d] \in {"streamed", "charged"} => object[d]
        /\ purge[d] # "none" => upload[d] = "recorded" /\ ~Exists(d)

\* Generations are numbered in the order of their commits.
GenerationInv == \A d \in Docs : \A g \in chunks[d] : g.gen \in 1..gens[d]

\* The failures after which nobody is left to finish the document.
LosesWork == {"broker", "retryable", "soft_limit", "hard_limit", "mark"}

\* Without them a run belongs to a message that is still being worked on,
\* and to no other run's.
OwnershipInv ==
    LosesWork \cap Faults = {} =>
        /\ \A r \in Runs : Active(r) =>
                run[r].owned /\ job[run[r].job].st = "running"
        /\ \A r, s \in Runs : Active(r) /\ Active(s) /\ run[r].job = run[s].job
                => r = s

\* Without those, an unfinished document always has a message that will
\* finish it, across crashes, retries, reprocessing and permanent failures.
NoLostWork ==
    LosesWork \cap Faults = {} =>
        \A d \in Docs : row[d] \in {"pending", "processing"} =>
            \E j \in Jobs : job[j].doc = d /\ job[j].st \notin {"free", "done"}

\* A document somebody polls reaches an answer: ready, failed, or gone.
Settles ==
    \A d \in Docs : row[d] \in {"pending", "processing"}
                        ~> row[d] \in {"none", "ready", "failed"}

\* The raw file of a deleted document is eventually removed.
DeletedObjectsGo ==
    \A d \in Docs : (upload[d] = "recorded" /\ ~Exists(d)) ~> ~object[d]

\* document.py:221 says that a duplicate enqueue collapses onto the same
\* job instead of processing the file twice: two jobs of one document are
\* then never both at work.
DuplicatesCollapse ==
    \A i, j \in Jobs : job[i].st = "running" /\ job[j].st = "running"
                            /\ job[i].doc = job[j].doc => i = j

\* README.md:930 says that a scanner that cannot be reached fails the job:
\* the document somebody polls then does not stay `processing' for ever.
ScannerOutageSettles == Settles

\* document.py:285 says that orphaned blobs are swept separately: a file
\* whose purge message was lost is still removed in the end.
OrphansAreSwept == DeletedObjectsGo
=============================================================================
