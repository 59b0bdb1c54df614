------------------------- MODULE KnowledgePipeline -------------------------
(***************************************************************************)
(* The life of a knowledge document: the admin service's upload, delete    *)
(* and retry handlers with the background clean-up                         *)
(* (admin_service/routes/knowledge.py), the pipeline workers that poll     *)
(* PostgreSQL and fill Milvus (knowledge_pipeline/worker.py), and the      *)
(* search with its soft-delete filter                                      *)
(* (chat_service/agent/nodes/rag_engine.py).                               *)
(*                                                                         *)
(* Every SQL statement here runs in a transaction of its own; the worker's *)
(* SELECT ... FOR UPDATE SKIP LOCKED too, so its row lock is gone as soon  *)
(* as the row has been read and has no effect on anybody.                  *)
(***************************************************************************)
EXTENDS Naturals, Sequences, FiniteSets

CONSTANTS
    Docs,             \* uuid4 ids of documents whose text yields a chunk at least
    Workers,          \* KnowledgePipelineWorker processes
    Searches,         \* concurrent RAG searches
    NoDoc,            \* "no document"
    MaxAttempts,      \* max_retries of process_document
    CleanupTries,     \* max_retries of _cleanup_milvus_vectors
    AdminRetries,     \* bound on repeated admin requests (retry, second delete)
    MaxWorkerCrashes, \* bound on worker processes that end
    PipelineFaults    \* which faults may happen

Stages == <<"parsing", "chunking", "embedding", "storing">>

AllPipelineFaults == {"work", "late", "database", "crash", "milvus", "admin"}

ASSUME PipelineAssumption ==
    /\ NoDoc \notin Docs
    /\ MaxAttempts \in Nat \ {0}
    /\ CleanupTries \in Nat
    /\ AdminRetries \in Nat
    /\ MaxWorkerCrashes \in Nat
    /\ PipelineFaults \subseteq AllPipelineFaults

VARIABLES
    uploads,       \* knowledge_docs in the order of created_at
    docStatus,     \* knowledge_docs.status
    deleted,       \* documents with deleted_at set
    vectors,       \* Milvus: insertions of the document's chunks still stored
    cleanup,       \* tries left of the document's background clean-up
    retries,       \* repeated admin requests so far
    wpc,           \* per worker: position in run / process_document
    wdoc,          \* per worker: the document it processes
    stage,         \* per worker: index in Stages
    attempts,      \* per worker: attempt of process_document
    workerCrashes, \* worker processes that ended so far
    hits,          \* per query: documents Milvus returned
    qdeleted,      \* per query: documents deleted before it began
    shown          \* per query: documents that reach the prompt

docVars      == <<uploads, docStatus, deleted>>
workerVars   == <<wpc, wdoc, stage, attempts>>
queryVars    == <<hits, qdeleted, shown>>
pipelineVars ==
    <<docVars, vectors, cleanup, retries, workerVars, workerCrashes, queryVars>>

PipelineInit ==
    /\ uploads = <<>>
    /\ docStatus = [d \in Docs |-> "none"]
    /\ deleted = {}
    /\ vectors = [d \in Docs |-> 0]
    /\ cleanup = [d \in Docs |-> 0]
    /\ retries = 0
    /\ wpc = [w \in Workers |-> "poll"]
    /\ wdoc = [w \in Workers |-> NoDoc]
    /\ stage = [w \in Workers |-> 1]
    /\ attempts = [w \in Workers |-> 0]
    /\ workerCrashes = 0
    /\ hits = [q \in Searches |-> {}]
    /\ qdeleted = [q \in Searches |-> {}]
    /\ shown = [q \in Searches |-> {}]

(***************************************************************************)
(* The admin service.                                                      *)
(***************************************************************************)
Upload(d) ==
    /\ docStatus[d] = "none"
    /\ uploads' = Append(uploads, d)
    /\ docStatus' = [docStatus EXCEPT ![d] = "pending"]
    /\ UNCHANGED <<deleted, vectors, cleanup, retries, workerVars, workerCrashes, queryVars>>

\* Mutant: only the vectors are deleted, the row keeps no mark.
Delete_OnlyCleanup(d) ==
    /\ docStatus[d] # "none"
    /\ d \notin deleted
    /\ cleanup' = [cleanup EXCEPT ![d] = CleanupTries]
    /\ UNCHANGED <<docVars, vectors, retries, workerVars, workerCrashes, queryVars>>

\* The mark is set (a second call sets nothing), and the clean-up is queued.
Delete(d) ==
    /\ docStatus[d] # "none"
    /\ d \notin deleted
    /\ deleted' = deleted \cup {d}
    /\ cleanup' = [cleanup EXCEPT ![d] = CleanupTries]
    /\ UNCHANGED <<uploads, docStatus, vectors, retries, workerVars, workerCrashes, queryVars>>

\* Deleting again only runs the clean-up again.
DeleteAgain(d) ==
    /\ d \in deleted
    /\ cleanup[d] = 0
    /\ retries < AdminRetries
    /\ retries' = retries + 1
    /\ cleanup' = [cleanup EXCEPT ![d] = CleanupTries]
    /\ UNCHANGED <<docVars, vectors, workerVars, workerCrashes, queryVars>>

\* UPDATE ... SET status = 'pending' WHERE id = $1, whatever the status is.
RetryDoc(d) ==
    /\ docStatus[d] # "none"
    /\ retries < AdminRetries
    /\ retries' = retries + 1
    /\ docStatus' = [docStatus EXCEPT ![d] = "pending"]
    /\ UNCHANGED <<uploads, deleted, vectors, cleanup, workerVars, workerCrashes, queryVars>>

Cleanup(d) ==
    /\ cleanup[d] > 0
    /\ vectors' = [vectors EXCEPT ![d] = 0]
    /\ cleanup' = [cleanup EXCEPT ![d] = 0]
    /\ UNCHANGED <<docVars, retries, workerVars, workerCrashes, queryVars>>

\* Milvus refuses: one try less; after the last one the error is logged.
CleanupFails(d) ==
    /\ "milvus" \in PipelineFaults
    /\ cleanup[d] > 0
    /\ cleanup' = [cleanup EXCEPT ![d] = @ - 1]
    /\ UNCHANGED <<docVars, vectors, retries, workerVars, workerCrashes, queryVars>>

\* Background tasks live in memory: they die with the admin process.
AdminCrash ==
    /\ "admin" \in PipelineFaults
    /\ \E d \in Docs : cleanup[d] > 0
    /\ cleanup' = [d \in Docs |-> 0]
    /\ UNCHANGED <<docVars, vectors, retries, workerVars, workerCrashes, queryVars>>

(***************************************************************************)
(* The worker.                                                             *)
(***************************************************************************)
Pending == {i \in DOMAIN uploads : docStatus[uploads[i]] = "pending"}

\* ORDER BY created_at LIMIT 1; deleted documents are not left out.
Poll(w) ==
    /\ wpc[w] = "poll"
    /\ \E i \in Pending :
          /\ \A j \in Pending : i <= j
          /\ wdoc' = [wdoc EXCEPT ![w] = uploads[i]]
    /\ wpc' = [wpc EXCEPT ![w] = "update"]
    /\ stage' = [stage EXCEPT ![w] = 1]
    /\ attempts' = [attempts EXCEPT ![w] = 1]
    /\ UNCHANGED <<docVars, vectors, cleanup, retries, workerCrashes, queryVars>>

WorkerIdle(w) ==
    /\ wpc' = [wpc EXCEPT ![w] = "poll"]
    /\ wdoc' = [wdoc EXCEPT ![w] = NoDoc]
    /\ stage' = [stage EXCEPT ![w] = 1]
    /\ attempts' = [attempts EXCEPT ![w] = 0]

\* _update_status(doc_id, "processing", stage=...)
StageUpdate(w) ==
    /\ wpc[w] = "update"
    /\ docStatus' = [docStatus EXCEPT ![wdoc[w]] = "processing"]
    /\ wpc' = [wpc EXCEPT ![w] = "work"]
    /\ UNCHANGED <<uploads, deleted, vectors, cleanup, retries, wdoc, stage,
                   attempts, workerCrashes, queryVars>>

\* Parsing, chunking and embedding change nothing outside the worker.
StageWork(w) ==
    /\ wpc[w] = "work"
    /\ stage[w] < Len(Stages)
    /\ stage' = [stage EXCEPT ![w] = @ + 1]
    /\ wpc' = [wpc EXCEPT ![w] = "update"]
    /\ UNCHANGED <<docVars, vectors, cleanup, retries, wdoc, attempts, workerCrashes, queryVars>>

\* Mutant: the document is completed before its chunks are stored.
Insert_Skipped(w) ==
    /\ wpc[w] = "work"
    /\ stage[w] = Len(Stages)
    /\ wpc' = [wpc EXCEPT ![w] = "complete"]
    /\ UNCHANGED <<docVars, vectors, cleanup, retries, wdoc, stage, attempts, workerCrashes, queryVars>>

\* Fresh uuid4 ids: an insertion adds to what earlier ones stored.
Insert(w) ==
    /\ wpc[w] = "work"
    /\ stage[w] = Len(Stages)
    /\ vectors' = [vectors EXCEPT ![wdoc[w]] = @ + 1]
    /\ wpc' = [wpc EXCEPT ![w] = "complete"]
    /\ UNCHANGED <<docVars, cleanup, retries, wdoc, stage, attempts, workerCrashes, queryVars>>

Complete(w) ==
    /\ wpc[w] = "complete"
    /\ docStatus' = [docStatus EXCEPT ![wdoc[w]] = "completed"]
    /\ WorkerIdle(w)
    /\ UNCHANGED <<uploads, deleted, vectors, cleanup, retries, workerCrashes, queryVars>>

\* process_document catches any exception of _do_process.
AfterError(w) ==
    wpc' = [wpc EXCEPT ![w] = IF attempts[w] < MaxAttempts THEN "retry" ELSE "fail"]

\* A stage's work or a status update raises.
AttemptFails(w) ==
    /\ \/ "work" \in PipelineFaults /\ wpc[w] = "work"
       \/ "database" \in PipelineFaults /\ wpc[w] \in {"update", "complete"}
    /\ AfterError(w)
    /\ UNCHANGED <<docVars, vectors, cleanup, retries, wdoc, stage, attempts, workerCrashes, queryVars>>

\* Milvus stores the chunks but its answer is lost.
InsertAnswerLost(w) ==
    /\ "late" \in PipelineFaults
    /\ wpc[w] = "work"
    /\ stage[w] = Len(Stages)
    /\ vectors' = [vectors EXCEPT ![wdoc[w]] = @ + 1]
    /\ AfterError(w)
    /\ UNCHANGED <<docVars, cleanup, retries, wdoc, stage, attempts, workerCrashes, queryVars>>

\* The status says so, the worker sleeps, and starts over at the first stage.
RetryAttempt(w) ==
    /\ wpc[w] = "retry"
    /\ docStatus' = [docStatus EXCEPT ![wdoc[w]] = "processing"]
    /\ wpc' = [wpc EXCEPT ![w] = "update"]
    /\ stage' = [stage EXCEPT ![w] = 1]
    /\ attempts' = [attempts EXCEPT ![w] = @ + 1]
    /\ UNCHANGED <<uploads, deleted, vectors, cleanup, retries, wdoc, workerCrashes, queryVars>>

\* Mutant: after the last attempt the document is queued again.
FailDoc_Requeue(w) ==
    /\ wpc[w] = "fail"
    /\ docStatus' = [docStatus EXCEPT ![wdoc[w]] = "pending"]
    /\ WorkerIdle(w)
    /\ UNCHANGED <<uploads, deleted, vectors, cleanup, retries, workerCrashes, queryVars>>

\* The last attempt has failed.
FailDoc(w) ==
    /\ wpc[w] = "fail"
    /\ docStatus' = [docStatus EXCEPT ![wdoc[w]] = "failed"]
    /\ WorkerIdle(w)
    /\ UNCHANGED <<uploads, deleted, vectors, cleanup, retries, workerCrashes, queryVars>>

\* The process ends, whatever it had in hand, and is started again.
WorkerEnds(w) ==
    /\ workerCrashes < MaxWorkerCrashes
    /\ workerCrashes' = workerCrashes + 1
    /\ WorkerIdle(w)
    /\ UNCHANGED <<docVars, vectors, cleanup, retries, queryVars>>

\* An exception in the status update of an except block leaves run().
HandlerFails(w) ==
    /\ "database" \in PipelineFaults
    /\ wpc[w] \in {"retry", "fail"}
    /\ WorkerEnds(w)

\* The worker process is killed.
WorkerCrash(w) ==
    /\ "crash" \in PipelineFaults
    /\ wpc[w] # "poll"
    /\ WorkerEnds(w)

(***************************************************************************)
(* The search: Milvus first, then the soft-delete filter in PostgreSQL.    *)
(***************************************************************************)
Stored == {d \in Docs : vectors[d] > 0}

\* limit=5: any part of what is stored.
Search(q) ==
    /\ hits[q] = {}
    /\ \E found \in SUBSET Stored :
          /\ found # {}
          /\ hits' = [hits EXCEPT ![q] = found]
    /\ qdeleted' = [qdeleted EXCEPT ![q] = deleted]
    /\ shown' = [shown EXCEPT ![q] = {}]
    /\ UNCHANGED <<docVars, vectors, cleanup, retries, workerVars, workerCrashes>>

\* Mutant: the filter keeps what Milvus returned.
GetActiveDocIds_All(ids) == ids

\* get_active_doc_ids
GetActiveDocIds(ids) == ids \ deleted

Filter(q) ==
    /\ hits[q] # {}
    /\ shown' = [shown EXCEPT ![q] = GetActiveDocIds(hits[q])]
    /\ hits' = [hits EXCEPT ![q] = {}]
    /\ UNCHANGED <<docVars, vectors, cleanup, retries, workerVars, workerCrashes, qdeleted>>

WorkerStep(w) ==
    \/ Poll(w) \/ StageUpdate(w) \/ StageWork(w) \/ Insert(w) \/ Complete(w)
    \/ AttemptFails(w) \/ InsertAnswerLost(w) \/ RetryAttempt(w) \/ FailDoc(w)
    \/ HandlerFails(w)

CleanupStep(d) == Cleanup(d) \/ CleanupFails(d)

PipelineNext ==
    \/ \E d \in Docs : Upload(d) \/ Delete(d) \/ DeleteAgain(d) \/ RetryDoc(d)
    \/ \E d \in Docs : CleanupStep(d)
    \/ AdminCrash
    \/ \E w \in Workers : WorkerStep(w) \/ WorkerCrash(w)
    \/ \E q \in Searches : Search(q) \/ Filter(q)

PipelineSpec == PipelineInit /\ [][PipelineNext]_pipelineVars

(***************************************************************************)
(* Fairness: workers keep polling and processing, and the admin service    *)
(* runs its background tasks; nobody has to upload, delete or ask.         *)
(***************************************************************************)
FairPipelineSpec ==
    /\ PipelineSpec
    /\ \A w \in Workers : WF_pipelineVars(WorkerStep(w))
    /\ \A d \in Docs : WF_pipelineVars(CleanupStep(d))
-----------------------------------------------------------------------------
(***************************************************************************)
(* Properties                                                              *)
(***************************************************************************)
PipelineTypeOK ==
    /\ uploads \in Seq(Docs)
    /\ docStatus \in [Docs -> {"none", "pending", "processing", "completed", "failed"}]
    /\ deleted \subseteq Docs
    /\ vectors \in [Docs -> Nat]
    /\ cleanup \in [Docs -> Nat]
    /\ retries \in Nat
    /\ wpc \in [Workers -> {"poll", "update", "work", "complete", "retry", "fail"}]
    /\ wdoc \in [Workers -> Docs \cup {NoDoc}]
    /\ stage \in [Workers -> 1..Len(Stages)]
    /\ attempts \in [Workers -> Nat]
    /\ workerCrashes \in Nat
    /\ hits \in [Searches -> SUBSET Docs]
    /\ qdeleted \in [Searches -> SUBSET Docs]
    /\ shown \in [Searches -> SUBSET Docs]

\* A search that begins after the DELETE request has been answered never
\* brings the document into a prompt, although its vectors may still be, or
\* come back, in Milvus (get_active_doc_ids).
DeletedNeverShown == \A q \in Searches : shown[q] \cap qdeleted[q] = {}

\* "completed" means searchable: whatever workers, retries and clean-ups run
\* at the same time, a completed document that is not deleted has its chunks
\* in Milvus (the status is written after the insertion, and only the
\* clean-up of a deleted document removes vectors).
CompletedIsSearchable ==
    \A d \in Docs : docStatus[d] = "completed" /\ d \notin deleted => vectors[d] > 0

\* What makes these two inductive.
Busy(w) == wpc[w] # "poll"

WorkerShape ==
    \A w \in Workers :
        /\ Busy(w) => wdoc[w] \in Docs
        /\ wpc[w] = "complete" /\ wdoc[w] \notin deleted => vectors[wdoc[w]] > 0

CleanupShape == \A d \in Docs : cleanup[d] > 0 => d \in deleted

QueryShape == \A q \in Searches : qdeleted[q] \subseteq deleted

PipelineInv ==
    /\ PipelineTypeOK
    /\ DeletedNeverShown
    /\ CompletedIsSearchable
    /\ WorkerShape
    /\ CleanupShape
    /\ QueryShape

\* A pending document is completed or failed in the end: an attempt, a retry
\* or an error path never leaves it half-way.  The one way out is a worker
\* process that ends with the document in hand: nobody looks at "processing"
\* again.
Abandoned(d) ==
    workerCrashes > 0 /\ docStatus[d] = "processing" /\ \A w \in Workers : wdoc[w] # d

DocSettles ==
    \A d \in Docs :
        docStatus[d] = "pending" ~> docStatus[d] \in {"completed", "failed"} \/ Abandoned(d)

\* docs/api.md:276: the vectors of a deleted document are cleaned up in the end.
DeletedIsCleaned == \A d \in Docs : d \in deleted ~> [](vectors[d] = 0)
=============================================================================
