----------------------------- MODULE ImportJobs -----------------------------
(***************************************************************************)
(* A CSV import job (domains/imports, handlers/importJobHandlers.js) over  *)
(* the racks, categories and documents of ReferenceData.                   *)
(*                                                                         *)
(* A page sends one request after another; each takes the first pending    *)
(* row.  The row is looked up and judged first; one transaction claims it, *)
(* makes its document and closes the row.  Two pages may work on one job,  *)
(* so that both have looked up the same row, while racks and categories go *)
(* out of use and documents with the same number appear.                   *)
(***************************************************************************)
EXTENDS ReferenceData

CONSTANTS
    Pages,     \* browsers that work on the job
    RowCount,  \* rows of the file
    MaxFaults  \* bound: requests lost or failed by the database

ASSUME ImportAssumption == RowCount \in Nat \ {0} /\ MaxFaults \in Nat

Rows == 1..RowCount

VARIABLES
    job,    \* document_import_jobs: status, completed_count, failed_count
    item,   \* document_import_items: status, created_document_id
    wanted, \* payload_json of the rows
    ipc,    \* what a page's request does next
    work,   \* the row it has read, 0 for none
    faults  \* faults so far

imports == <<job, item, wanted, ipc, work, faults>>
allvars == <<rack, category, doc, edition, locked, pc, form, job, item, wanted, ipc, work, faults>>

NoItem == [status |-> "pending", made |-> NoDoc]
Open == job.status \in {"ready", "processing"}
Pending(table) == {r \in Rows : table[r].status = "pending"}
With(table, status) == Cardinality({r \in Rows : table[r].status = status})

ImportInit ==
    /\ Init
    /\ job = [status |-> "none", completed |-> 0, failed |-> 0]
    /\ item = [r \in Rows |-> NoItem]
    /\ wanted = [r \in Rows |-> NoRow]
    /\ ipc = [g \in Pages |-> "idle"]
    /\ work = [g \in Pages |-> 0]
    /\ faults = 0

IGoto(g, a, r) == ipc' = [ipc EXCEPT ![g] = a] /\ work' = [work EXCEPT ![g] = r]
IDone(g) == IGoto(g, "idle", 0)

-----------------------------------------------------------------------------
\* What the rows of a file may ask for.
Files == [Rows -> [state : {"current"}, ident : Idents, place : Places, row : {0}]]

\* prepareDocumentImportRows has judged the rows with the options of that moment.
CreateJob(w) ==
    /\ job.status = "none"
    /\ category.active /\ \A r \in Rows : Usable(w[r].place)
    /\ wanted' = [r \in Rows |-> [w[r] EXCEPT !.row = r]]
    /\ job' = [job EXCEPT !.status = "ready"]
    /\ UNCHANGED <<base, pc, form, item, ipc, work, faults>>

\* aggregateImportJobStatement: counted anew, and completed once no row is pending.
StatusEarly(table) ==
    IF ~Open THEN job.status ELSE IF With(table, "pending") <= 1 THEN "completed" ELSE "processing"
StatusUncompleted(table) == IF Open THEN "processing" ELSE job.status
Status(table) ==
    IF ~Open THEN job.status ELSE IF Pending(table) = {} THEN "completed" ELSE "processing"
Made(table) == With(table, "completed")
Aggregated(table) ==
    [status |-> Status(table), completed |-> Made(table), failed |-> With(table, "failed")]

\* validateWorkPayload
Valid(r) == category.active /\ Usable(wanted[r].place)

\* getNextImportWork, validateWorkPayload.  A job has a row, and is completed in the
\* transaction that closes its last, so that an open job has a pending row.
ProcessRead(g) ==
    /\ ipc[g] = "idle" /\ Open
    /\ \E r \in Pending(item) :
        /\ \A q \in Pending(item) : r <= q
        /\ IGoto(g, IF Valid(r) THEN "process" ELSE "fail", r)
    /\ UNCHANGED <<base, pc, form, job, item, wanted, faults>>

\* The claim of the row: pending, and its job neither completed nor cancelled.
ClaimableAnyJob(r) == item[r].status = "pending"
ClaimableAnyRow(r) == Open
Claimable(r) == item[r].status = "pending" /\ Open

Taken(i) == \E d \in Current : doc[d].ident = i

\* The triggers that abort the INSERT of a document: the ledger holds as many as it
\* may, or a bootstrap load is under way.
Refused == Full \/ locked

\* The row becomes a document ...
ProcessMakes(g) ==
    LET r == work[g]
        d == NextId
        table == [item EXCEPT ![r] = [status |-> "completed", made |-> d]]
    IN  /\ ipc[g] = "process" /\ Claimable(r)
        /\ Valid(r) /\ ~Refused /\ ~Taken(wanted[r].ident) /\ Unused # {}
        /\ doc' = [doc EXCEPT ![d] = wanted[r]]
        /\ item' = table
        /\ job' = Aggregated(table)
        /\ edition' = edition + 1
        /\ IDone(g)
        /\ UNCHANGED <<rack, category, locked, pc, form, wanted, faults>>

\* ... or fails in the same transaction, its category or place being out of use ...
ProcessRefuses(g) ==
    LET r == work[g]
        table == [item EXCEPT ![r].status = "failed"]
    IN  /\ ipc[g] = "process" /\ Claimable(r) /\ ~Valid(r)
        /\ item' = table
        /\ job' = Aggregated(table)
        /\ IDone(g)
        /\ UNCHANGED <<base, pc, form, wanted, faults>>

\* ... or breaks off at the unique index, and another transaction will fail the row ...
ProcessAborts(g) ==
    LET r == work[g]
    IN  /\ ipc[g] = "process" /\ Claimable(r)
        /\ Valid(r) /\ ~Refused /\ Taken(wanted[r].ident)
        /\ IGoto(g, "fail", r)
        /\ UNCHANGED <<base, pc, form, job, item, wanted, faults>>

\* ... or breaks off at a trigger, an error friendlyImportFailure does not know: the row
\* stays pending and the page reports the error ...
ProcessThrows(g) ==
    /\ ipc[g] = "process" /\ Claimable(work[g])
    /\ Valid(work[g]) /\ Refused
    /\ IDone(g)
    /\ UNCHANGED <<base, pc, form, job, item, wanted, faults>>

\* ... or was taken by the other page: only the counts are brought up to date.
ProcessSkips(g) ==
    /\ ipc[g] = "process" /\ ~Claimable(work[g])
    /\ job' = Aggregated(item)
    /\ IDone(g)
    /\ UNCHANGED <<base, pc, form, item, wanted, faults>>

\* failDocumentImportItem
Failed(r) == IF Claimable(r) THEN [item EXCEPT ![r].status = "failed"] ELSE item

FailItem(g) ==
    /\ ipc[g] = "fail"
    /\ item' = Failed(work[g])
    /\ job' = Aggregated(Failed(work[g]))
    /\ IDone(g)
    /\ UNCHANGED <<base, pc, form, wanted, faults>>

\* cancelDocumentImportJob: its transaction repeats what it has read.
CancelJob ==
    /\ Open
    /\ job' = [job EXCEPT !.status = "cancelled"]
    /\ UNCHANGED <<base, pc, form, item, wanted, ipc, work, faults>>

\* The runtime ends the request, or the database fails for a reason of its own; the
\* page reports it and its user presses the button again.
PageFault(g) ==
    /\ ipc[g] # "idle" /\ faults < MaxFaults
    /\ faults' = faults + 1
    /\ IDone(g)
    /\ UNCHANGED <<base, pc, form, job, item, wanted>>

PageStep(g) ==
    \/ ProcessRead(g)
    \/ ProcessMakes(g) \/ ProcessRefuses(g)
    \/ ProcessAborts(g) \/ ProcessThrows(g) \/ ProcessSkips(g)
    \/ FailItem(g)

ImportNext ==
    \/ \E w \in Files : CreateJob(w)
    \/ CancelJob
    \/ \E g \in Pages : PageStep(g) \/ PageFault(g)
    \/ ReferenceStep /\ UNCHANGED imports

ImportSpec == ImportInit /\ [][ImportNext]_allvars

\* The script of the job's page sends the next request as soon as the last is answered,
\* and its user starts it again after a fault or an error.
Fairness == \A g \in Pages : WF_allvars(PageStep(g))
FairSpec == ImportSpec /\ Fairness

-----------------------------------------------------------------------------
(* Properties *)

\* However many pages work on a job, a row that is reported as completed has made the
\* one document that it names, and any other row none.
RowsMakeOneDocument ==
    \A r \in Rows : {d \in Docs : doc[d].row = r} =
        IF item[r].status = "completed" THEN {item[r].made} ELSE {}

\* A job that is reported as completed has no row left, and its report adds up.
CompletedIsCounted ==
    job.status = "completed" =>
        /\ Pending(item) = {}
        /\ job.completed = With(item, "completed")
        /\ job.failed = With(item, "failed")

\* Cancelling a job ends it: no document is made and no row is closed afterwards, not
\* even by a request that was already under way.
CancelEndsIt ==
    [][job.status = "cancelled" =>
        /\ item' = item /\ job'.status = "cancelled"
        /\ \A d \in Docs : doc'[d].row # 0 => doc[d].row = doc'[d].row]_allvars

\* A job on which somebody keeps working is completed, whatever rows fail, unless the
\* ledger is full, or reserved for a load, again and again: then its next row stays
\* pending for good.
ImportEnds ==
    <>[]~Refused => (job.status = "ready" ~> job.status \in {"completed", "cancelled"})
=============================================================================
