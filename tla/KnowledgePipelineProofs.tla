----------------------- MODULE KnowledgePipelineProofs -----------------------
(***************************************************************************)
(* KnowledgePipeline: the soft-delete filter hides a deleted document from *)
(* every later search, and a completed document is searchable, for any     *)
(* number of documents, workers, searches and attempts, and any fault.     *)
(***************************************************************************)
EXTENDS KnowledgePipeline, TLAPS

\* Empty tables satisfy the inductive invariant.
LEMMA PipelineStarts == PipelineInit => PipelineInv
  BY PipelineAssumption
     DEF PipelineInit, PipelineInv, PipelineTypeOK, DeletedNeverShown, CompletedIsSearchable,
         WorkerShape, CleanupShape, QueryShape, Busy, Stages

\* The requests of the admin service and its background tasks.
LEMMA EndpointStep ==
    ASSUME PipelineInv, NEW d \in Docs,
           \/ Upload(d) \/ Delete(d) \/ DeleteAgain(d) \/ RetryDoc(d)
           \/ CleanupStep(d) \/ AdminCrash
    PROVE  PipelineInv'
<1> USE PipelineAssumption
        DEF PipelineInv, PipelineTypeOK, DeletedNeverShown, CompletedIsSearchable,
            WorkerShape, CleanupShape, QueryShape, Busy, docVars, workerVars,
            queryVars
<1>1. CASE Upload(d)
  BY <1>1 DEF Upload
<1>2. CASE Delete(d)
  BY <1>2 DEF Delete
<1>3. CASE DeleteAgain(d)
  BY <1>3 DEF DeleteAgain
<1>4. CASE RetryDoc(d)
  BY <1>4 DEF RetryDoc
<1>5. CASE Cleanup(d)
  BY <1>5 DEF Cleanup
<1>6. CASE CleanupFails(d)
  BY <1>6 DEF CleanupFails
<1>7. CASE AdminCrash
  BY <1>7 DEF AdminCrash
<1>8. QED
  BY <1>1, <1>2, <1>3, <1>4, <1>5, <1>6, <1>7, Zenon DEF CleanupStep

\* The steps of a worker, and its death.
LEMMA WorkerSteps ==
    ASSUME PipelineInv, NEW w \in Workers, WorkerStep(w) \/ WorkerCrash(w)
    PROVE  PipelineInv'
<1> USE PipelineAssumption
        DEF PipelineInv, PipelineTypeOK, DeletedNeverShown, CompletedIsSearchable,
            WorkerShape, CleanupShape, QueryShape, Busy, docVars, workerVars,
            queryVars
<1>0. Len(Stages) = 4
  BY DEF Stages
<1>1. CASE Poll(w)
  <2>1. PICK i \in Pending : wdoc' = [wdoc EXCEPT ![w] = uploads[i]]
    BY <1>1 DEF Poll
  <2>2. uploads[i] \in Docs
    BY <2>1 DEF Pending
  <2>3. QED
    BY <1>0, <1>1, <2>1, <2>2 DEF Poll
<1>2. CASE StageUpdate(w)
  BY <1>2 DEF StageUpdate
<1>3. CASE StageWork(w)
  <2>1. stage[w] \in 1..4 /\ stage[w] < 4
    BY <1>0, <1>3 DEF StageWork
  <2>2. stage[w] + 1 \in 1..Len(Stages)
    BY <1>0, <2>1
  <2>3. QED
    BY <1>3, <2>2 DEF StageWork
<1>4. CASE Insert(w)
  BY <1>4 DEF Insert
<1>5. CASE Complete(w)
  BY <1>0, <1>5 DEF Complete, WorkerIdle
<1>6. CASE AttemptFails(w)
  BY <1>6 DEF AttemptFails, AfterError
<1>7. CASE InsertAnswerLost(w)
  BY <1>7 DEF InsertAnswerLost, AfterError
<1>8. CASE RetryAttempt(w)
  BY <1>0, <1>8 DEF RetryAttempt
<1>9. CASE FailDoc(w)
  BY <1>0, <1>9 DEF FailDoc, WorkerIdle
<1>10. CASE HandlerFails(w)
  BY <1>0, <1>10 DEF HandlerFails, WorkerEnds, WorkerIdle
<1>11. CASE WorkerCrash(w)
  BY <1>0, <1>11 DEF WorkerCrash, WorkerEnds, WorkerIdle
<1>12. QED
  BY <1>1, <1>2, <1>3, <1>4, <1>5, <1>6, <1>7, <1>8, <1>9, <1>10, <1>11, Zenon
     DEF WorkerStep

\* The two halves of a search.
LEMMA SearchSteps ==
    ASSUME PipelineInv, NEW q \in Searches, Search(q) \/ Filter(q)
    PROVE  PipelineInv'
<1> USE DEF PipelineInv, PipelineTypeOK, DeletedNeverShown, CompletedIsSearchable,
            WorkerShape, CleanupShape, QueryShape, Busy, docVars, workerVars,
            queryVars
<1>1. CASE Search(q)
  <2>1. PICK found \in SUBSET Stored : hits' = [hits EXCEPT ![q] = found]
    BY <1>1 DEF Search
  <2>2. found \in SUBSET Docs
    BY <2>1 DEF Stored
  <2>3. QED
    BY <1>1, <2>1, <2>2 DEF Search
<1>2. CASE Filter(q)
  BY <1>2 DEF Filter, GetActiveDocIds
<1>3. QED
  BY <1>1, <1>2

\* PipelineInv is an invariant of KnowledgePipeline.
THEOREM PipelineInvariant == PipelineSpec => []PipelineInv
<1>1. PipelineInv /\ [PipelineNext]_pipelineVars => PipelineInv'
  <2> SUFFICES ASSUME PipelineInv, [PipelineNext]_pipelineVars PROVE PipelineInv'
    OBVIOUS
  <2>1. CASE UNCHANGED pipelineVars
    BY <2>1 DEF pipelineVars, docVars, workerVars, queryVars, PipelineInv, PipelineTypeOK,
                DeletedNeverShown, CompletedIsSearchable, WorkerShape,
                CleanupShape, QueryShape, Busy
  <2>2. CASE AdminCrash
    <3>1. PICK d \in Docs : cleanup[d] > 0
      BY <2>2 DEF AdminCrash
    <3>2. QED
      BY <2>2, <3>1, EndpointStep
  <2>3. QED
    BY <2>1, <2>2, EndpointStep, WorkerSteps, SearchSteps DEF PipelineNext
<1>2. QED
  BY PipelineStarts, <1>1, PTL DEF PipelineSpec

\* get_active_doc_ids: a document deleted before a search began is not shown.
THEOREM FilterHidesDeleted == PipelineSpec => []DeletedNeverShown
<1>1. PipelineInv => DeletedNeverShown
  BY DEF PipelineInv
<1>2. QED
  BY <1>1, PipelineInvariant, PTL

\* _do_process writes "completed" only after the insertion, and vectors go
\* only after the document has been deleted.
THEOREM CompletedStaysSearchable == PipelineSpec => []CompletedIsSearchable
<1>1. PipelineInv => CompletedIsSearchable
  BY DEF PipelineInv
<1>2. QED
  BY <1>1, PipelineInvariant, PTL
=============================================================================
