---------------------------- MODULE Experiments ----------------------------
(***************************************************************************)
(* A tenant's A/B experiments: the endpoints of                            *)
(* chat_service/routes/experiment.py over the service of                   *)
(* chat_service/services/experiment.py.  A handler is one transaction, but *)
(* for the update, which commits and then reads the row again.             *)
(*                                                                         *)
(* No migration creates the tables.  A row carries its variants as JSON,   *)
(* which asyncpg hands out as text unless a codec is installed; the code   *)
(* installs none and indexes the value as a list of objects, so reading a  *)
(* row may fail altogether: the model has both drivers.                    *)
(***************************************************************************)
EXTENDS Naturals, Sequences, FiniteSets

CONSTANTS
    Exps,       \* creation requests, and the experiments they create
    Updates,    \* update requests
    MaxMetrics  \* bound on the measurements tracked

Statuses == {"draft", "running", "paused", "completed"}

\* What the body of a creation may be: fields missing, a variant without id
\* or weight, a weight outside 0..100, or none of these.
Bodies == {"incomplete", "unlabelled", "overweight", "proper"}

ASSUME ExperimentAssumption == MaxMetrics \in Nat

VARIABLES
    decoded,   \* the driver hands out JSON as lists
    body,      \* body of each creation
    status,    \* experiment table: status of each experiment, "none" or "deleted"
    created,   \* what each creation was answered
    target,    \* experiment and status of each update
    update,    \* where each update is, then its answer
    touched,   \* updates that changed a row
    broken,    \* updates with an id that is no UUID, or that met a database error
    listing,   \* answer of the last list request, the rows behind it, any database error
    report,    \* the last request of results: its experiment, then its answer
    samples    \* experiment_metrics: number of rows of each experiment

inputVars  == <<decoded, body, target>>
updateVars == <<update, touched, broken>>
expVars    == <<inputVars, updateVars, status, created, listing, report, samples>>

Stored == {e \in Exps : status[e] \in Statuses}

ExpInit ==
    /\ decoded \in BOOLEAN
    /\ body \in [Exps -> Bodies]
    /\ status = [e \in Exps |-> "none"]
    /\ created = [e \in Exps |-> "unasked"]
    /\ target \in [Updates -> Exps \X {"running", "completed"}]
    /\ update = [u \in Updates |-> "new"]
    /\ touched = {}
    /\ broken = {}
    /\ listing = [answer |-> "none", rows |-> {}, error |-> FALSE]
    /\ report \in [of : Exps, answer : {"none"}]
    /\ samples = [e \in Exps |-> 0]

(***************************************************************************)
(* Creation: 400 without a name, a known type, two variants and a metric;  *)
(* 500 before anything is stored if a variant lacks its id or its weight;  *)
(* otherwise the row is inserted and committed, and then the response is   *)
(* built, where VariantRequest refuses a weight outside 0..100 (500).  The *)
(* database may fail before its commit, or the answer to it be lost.       *)
(***************************************************************************)
\* Mutant: the response does not validate the weights.
CreateAnswer_Unchecked(e) == "ok"

CreateAnswer(e) == IF body[e] = "proper" THEN "ok" ELSE "failed"

Create(e) ==
    /\ created[e] = "unasked"
    /\ \/ /\ body[e] \in {"incomplete", "unlabelled"}
          /\ created' = [created EXCEPT ![e] = IF body[e] = "incomplete" THEN "refused" ELSE "failed"]
          /\ UNCHANGED status
       \/ /\ body[e] \in {"overweight", "proper"}
          /\ \/ /\ created' = [created EXCEPT ![e] = CreateAnswer(e)]
                /\ status' = [status EXCEPT ![e] = "draft"]
             \/ /\ created' = [created EXCEPT ![e] = "failed"]
                /\ status' \in {status, [status EXCEPT ![e] = "draft"]}
    /\ UNCHANGED <<inputVars, updateVars, listing, report, samples>>

(***************************************************************************)
(* get_experiment: 404 without a row; 500 if the row cannot be decoded or  *)
(* its weights are refused by the response; else its status.               *)
(***************************************************************************)
Readable(e) == decoded /\ body[e] = "proper"

\* Mutant: the row that was not found is not noticed.
Got_Unchecked(e) == IF Readable(e) THEN "ok" ELSE "failed"

Got(e) == IF e \notin Stored THEN "missing" ELSE IF Readable(e) THEN "ok" ELSE "failed"

\* Mutant: an experiment that cannot be shown is left out of the list.
ListAnswer_Skipping(rows) == "ok"

ListAnswer(rows) == IF \A e \in rows : Readable(e) THEN "ok" ELSE "failed"

\* The list of all, or of those with a given status; or the database fails.
List ==
    /\ \/ \E rows \in {Stored} \cup {{e \in Stored : status[e] = s} : s \in Statuses} :
             listing' = [answer |-> ListAnswer(rows), rows |-> rows, error |-> FALSE]
       \/ listing' = [answer |-> "failed", rows |-> {}, error |-> TRUE]
    /\ UNCHANGED <<inputVars, updateVars, status, created, report, samples>>

(***************************************************************************)
(* update_experiment_status: the UPDATE commits, whether or not it finds a *)
(* row and whatever the status was; then get_experiment makes the answer.  *)
(* Ids are random, so a client has one only of a row that was stored.      *)
(***************************************************************************)
WriteStatus(u, e, s) ==
    /\ status[e] # "none"
    /\ status' = IF e \in Stored THEN [status EXCEPT ![e] = s] ELSE status
    /\ touched' = IF e \in Stored THEN touched \cup {u} ELSE touched

StartUpdate(u) ==
    /\ update[u] = "new"
    /\ WriteStatus(u, target[u][1], target[u][2])
    /\ update' = [update EXCEPT ![u] = "read"]
    /\ UNCHANGED <<inputVars, broken, created, listing, report, samples>>

\* 500: the id is no UUID, the database fails, or it commits and its answer is lost.
BreakUpdate(u) ==
    /\ update[u] = "new"
    /\ \/ WriteStatus(u, target[u][1], target[u][2])
       \/ UNCHANGED <<status, touched>>
    /\ update' = [update EXCEPT ![u] = "failed"]
    /\ broken' = broken \cup {u}
    /\ UNCHANGED <<inputVars, created, listing, report, samples>>

\* The row is read again, or the database fails.
FinishUpdate(u) ==
    /\ update[u] = "read"
    /\ \/ update' = [update EXCEPT ![u] = Got(target[u][1])] /\ UNCHANGED broken
       \/ update' = [update EXCEPT ![u] = "failed"] /\ broken' = broken \cup {u}
    /\ UNCHANGED <<inputVars, status, created, touched, listing, report, samples>>

DeletedRow(e) == IF e \in Stored THEN [status EXCEPT ![e] = "deleted"] ELSE status

\* 404 if the row is gone, which changes nothing.
Delete(e) ==
    /\ status[e] # "none"
    /\ status' = DeletedRow(e)
    /\ UNCHANGED <<inputVars, updateVars, created, listing, report, samples>>

\* track_metric does not look whether the experiment exists.
TrackMetric(e) ==
    /\ created[e] # "unasked"
    /\ samples[e] < MaxMetrics
    /\ samples' = [samples EXCEPT ![e] = @ + 1]
    /\ UNCHANGED <<inputVars, updateVars, status, created, listing, report>>

(***************************************************************************)
(* get_experiment_results reads the experiment, then the measurements in   *)
(* another transaction; the experiment may be deleted in between, and the  *)
(* database may fail in either.                                            *)
(***************************************************************************)
AskResults(e) ==
    /\ status[e] # "none"
    /\ report.answer # "reading"
    /\ \E answer \in {"failed", IF Got(e) = "ok" THEN "reading" ELSE Got(e)} :
         report' = [of |-> e, answer |-> answer]
    /\ UNCHANGED <<inputVars, updateVars, status, created, listing, samples>>

ReadMetrics ==
    /\ report.answer = "reading"
    /\ \E answer \in {"ok", "failed"} : report' = [report EXCEPT !.answer = answer]
    /\ UNCHANGED <<inputVars, updateVars, status, created, listing, samples>>

ExpNext ==
    \/ \E e \in Exps : Create(e) \/ Delete(e) \/ TrackMetric(e) \/ AskResults(e)
    \/ List \/ ReadMetrics
    \/ \E u \in Updates : StartUpdate(u) \/ BreakUpdate(u) \/ FinishUpdate(u)

ExpSpec == ExpInit /\ [][ExpNext]_expVars

-----------------------------------------------------------------------------
ExpTypeOK ==
    /\ decoded \in BOOLEAN
    /\ body \in [Exps -> Bodies]
    /\ status \in [Exps -> Statuses \cup {"none", "deleted"}]
    /\ created \in [Exps -> {"unasked", "refused", "failed", "ok"}]
    /\ target \in [Updates -> Exps \X Statuses]
    /\ update \in [Updates -> {"new", "read", "ok", "missing", "failed"}]
    /\ touched \subseteq Updates
    /\ broken \subseteq Updates
    /\ listing \in [answer : {"none", "ok", "failed"}, rows : SUBSET Exps, error : BOOLEAN]
    /\ report \in [of : Exps, answer : {"none", "reading", "ok", "missing", "failed"}]
    /\ samples \in [Exps -> 0..MaxMetrics]

(***************************************************************************)
(* A list that the database serves fails (500) because of an experiment    *)
(* whose creation was answered 500 although its row was stored, or with a  *)
(* driver that hands out JSON as text; one that is answered shows only     *)
(* experiments that can be read.                                           *)
(***************************************************************************)
ListingBlame ==
    /\ listing.answer = "failed" /\ ~listing.error =>
           \E e \in listing.rows : ~decoded \/ created[e] = "failed"
    /\ listing.answer = "ok" => \A e \in listing.rows : Readable(e)

(***************************************************************************)
(* An update that is answered 200 was made, and so was one answered 500    *)
(* with an id that is a UUID and no database error; 404 says that the row  *)
(* is gone, perhaps after it was made, and for ever.  Results are answered *)
(* 200 only for an experiment that can be read.                            *)
(***************************************************************************)
AnswersAreTrue ==
    /\ report.answer = "missing" => status[report.of] = "deleted"
    /\ report.answer = "ok" => Readable(report.of)
    /\ \A u \in Updates :
        /\ update[u] = "ok" => u \in touched
        /\ update[u] = "failed" => u \in touched \cup broken
        /\ update[u] = "missing" => status[target[u][1]] = "deleted"

\* Types, and the answers of lists, updates and results.
ExpInv == ExpTypeOK /\ ListingBlame /\ AnswersAreTrue
=============================================================================
