-------------------------- MODULE LedgerSnapshots ---------------------------
(***************************************************************************)
(* Excel synchronisation of the document ledger                            *)
(* (cloudflare-app/src/domains/snapshots), together with the operations on *)
(* single documents that go on meanwhile (DocumentLedger).                 *)
(*                                                                         *)
(* A workbook holds the whole ledger as exported, page by page, at one     *)
(* edition and edited since.  It is uploaded in chunks, compared with the  *)
(* tables, reviewed, and applied in one batch.  Nothing is locked: the     *)
(* edition the workbook was exported at must still be in force when the    *)
(* export ends, when the workbook is created, when it becomes ready and    *)
(* when it is applied.                                                     *)
(*                                                                         *)
(* Rows that the user has not touched are not sent; they stand for the     *)
(* document as the server finds it.  Managed workbooks only: the one       *)
(* bootstrap load is in BootstrapLoad.                                     *)
(***************************************************************************)
EXTENDS DocumentLedger

CONSTANTS
    Workbooks,   \* rows of document_snapshots
    NoWorkbook,  \* what an idle operator works on
    Operators,   \* requests of the synchronisation page
    Kept,        \* a row of the workbook that the user has not touched
    Left         \* a document that is not in the workbook

Entry == [standing : {"active", "disposed"}, ident : Idents, place : Places]

ASSUME SnapshotsAssumption ==
    NoWorkbook \notin Workbooks /\ Kept # Left /\ Kept \notin Entry /\ Left \notin Entry

Book == [Docs -> Entry \cup {Kept, Left}]
NoBook == [d \in Docs |-> Left]
NoPlan == [update |-> {}, create |-> {}, exclude |-> {}, expected |-> [d \in Docs |-> 0]]
NoReview == [edition |-> 0, result |-> NoBook]

VARIABLES
    stage,     \* status of the export and then of the row of document_snapshots
    base,      \* base_version of both
    paged,     \* the documents on the pages exported so far
    origin,    \* what those pages say
    book,      \* document_snapshot_rows and document_snapshot_membership
    plan,      \* the reviewed actions: rows by action, exclusions, row versions
    step,      \* what each operator's request does next
    task,      \* the workbook it works on
    table,     \* documents, as the request has read them
    review     \* a history variable: the edition and result the workbook was reviewed with

snapshots == <<stage, base, paged, origin, book, plan, review>>
operators == <<step, task, table>>
allVars == <<vars, snapshots, operators>>

\* What a row of the export, or a kept row, says of a document.
EntryOf(row) == [standing |-> row.standing, ident |-> row.ident, place |-> row.place]
Contents(t) == [d \in Docs |-> IF t[d].listed THEN EntryOf(t[d]) ELSE Left]

SyncInit ==
    /\ Init
    /\ stage = [w \in Workbooks |-> "none"]
    /\ base = [w \in Workbooks |-> 0]
    /\ paged = [w \in Workbooks |-> {}]
    /\ origin = [w \in Workbooks |-> NoBook]
    /\ book = [w \in Workbooks |-> NoBook]
    /\ plan = [w \in Workbooks |-> NoPlan]
    /\ step = [o \in Operators |-> "idle"]
    /\ task = [o \in Operators |-> NoWorkbook]
    /\ table = [o \in Operators |-> NoRows]
    /\ review = [w \in Workbooks |-> NoReview]

-----------------------------------------------------------------------------
(* What a request goes through *)

Proceed(o, w, a, t) ==
    /\ step' = [step EXCEPT ![o] = a]
    /\ task' = [task EXCEPT ![o] = w]
    /\ table' = [table EXCEPT ![o] = t]

Finish(o) == Proceed(o, NoWorkbook, "idle", NoRows)

\* UPDATE document_snapshots SET status = b WHERE status IN A
Transition(w, A, b) ==
    /\ stage' = [stage EXCEPT ![w] = IF @ \in A THEN b ELSE @]
    /\ review' = [review EXCEPT ![w] = IF stage[w] \in A THEN NoReview ELSE @]
    /\ UNCHANGED <<base, paged, origin, book, plan>>

-----------------------------------------------------------------------------
(* Export *)

\* createDocumentSnapshotExport
StartExport(w) ==
    /\ stage[w] = "none"
    /\ stage' = [stage EXCEPT ![w] = "exporting"]
    /\ base' = [base EXCEPT ![w] = edition]
    /\ UNCHANGED <<vars, operators, paged, origin, book, plan, review>>

\* getDocumentSnapshotExport reads the whole ledger at once.  A read that another
\* edition overtakes ends like the pages of one: see EndExport and ExportStale.
ExportAtOnce(w) ==
    /\ stage[w] = "none"
    /\ stage' = [stage EXCEPT ![w] = "exporting"]
    /\ base' = [base EXCEPT ![w] = edition]
    /\ paged' = [paged EXCEPT ![w] = Docs]
    /\ origin' = [origin EXCEPT ![w] = Contents(doc)]
    /\ UNCHANGED <<vars, operators, book, plan, review>>

\* getDocumentSnapshotExportPage looks at the edition before it reads the page: the
\* page may be one of a later edition.
ExportPage(w, d) ==
    /\ stage[w] = "exporting" /\ d \notin paged[w]
    /\ paged' = [paged EXCEPT ![w] = @ \cup {d}]
    /\ origin' = [origin EXCEPT ![w][d] = Contents(doc)[d]]
    /\ UNCHANGED <<vars, operators, stage, base, book, plan, review>>

\* ... AND base_version = (SELECT current_version ...)
InForce(w) == base[w] = edition

\* finalizeDocumentSnapshotExport
EndExport(w) ==
    /\ stage[w] = "exporting" /\ paged[w] = Docs /\ InForce(w)
    /\ stage' = [stage EXCEPT ![w] = "exported"]
    /\ UNCHANGED <<vars, operators, base, paged, origin, book, plan, review>>

\* SNAPSHOT_STALE: the page, the end of the export or the upload is refused, and
\* the user exports anew.
ExportStale(w) ==
    /\ stage[w] \in {"exporting", "exported"} /\ ~InForce(w)
    /\ stage' = [stage EXCEPT ![w] = "none"]
    /\ base' = [base EXCEPT ![w] = 0]
    /\ paged' = [paged EXCEPT ![w] = {}]
    /\ origin' = [origin EXCEPT ![w] = NoBook]
    /\ UNCHANGED <<vars, operators, book, plan, review>>

-----------------------------------------------------------------------------
(* Upload: createDocumentSnapshot, stageDocumentSnapshotRows, -Membership   *)

CreateWorkbook(w) ==
    /\ stage[w] = "exported" /\ InForce(w)
    /\ stage' = [stage EXCEPT ![w] = "staging"]
    /\ UNCHANGED <<vars, operators, base, paged, origin, book, plan, review>>

\* The page sends the rows that differ from those of the export; the others are kept.
Untouched(w, B) == \A d \in Docs : B[d] = Kept => origin[w][d] # Left

\* The chunks arrive, each only while the workbook is staging; sending one again
\* changes nothing.
StageRows(w, B) ==
    /\ stage[w] = "staging" /\ book[w] = NoBook
    /\ B # NoBook /\ Untouched(w, B)
    /\ book' = [book EXCEPT ![w] = B]
    /\ UNCHANGED <<vars, operators, stage, base, paged, origin, plan, review>>

-----------------------------------------------------------------------------
(* prepareDocumentSnapshot *)

\* The rows the workbook amounts to, given what the tables say.
Target(B, t) == [d \in Docs |-> IF B[d] = Kept THEN Contents(t)[d] ELSE B[d]]

\* matchCanonicalSnapshotRows: every row names a document of the tables or a new
\* one, and no two rows have one identity.
IdentitiesApart(T) ==
    \A d, e \in Docs : d # e /\ T[d] # Left /\ T[e] # Left /\ T[d].ident = T[e].ident
        => T[d].ident \in Unnumbered

\* A new identity is one that no other document of the ledger has, a new document's
\* not even one that has been excluded.
IdentitiesFree(T, t) ==
    \A d, e \in Docs :
        /\ d # e /\ T[d] # Left /\ t[e].standing \in {"active", "disposed"}
        /\ T[d].ident = t[e].ident /\ T[d].ident \notin Unnumbered
        => t[d].standing # "none" /\ (t[e].listed => t[d].ident = T[d].ident)

\* A kept row names a document of the ledger.  (Its row version is compared too,
\* which says no more than the edition does.)
Matchable(B, t) ==
    LET T == Target(B, t)
    IN  /\ \A d \in Docs : B[d] = Kept => t[d].listed
        /\ \A d \in Docs : T[d] # Left => t[d].standing # "deleted"
        /\ IdentitiesApart(T) /\ IdentitiesFree(T, t)

\* prepareCanonicalSnapshotRows: an active place, or the one the document has.
Located(B, t) ==
    \A d \in Docs : B[d] \notin {Kept, Left} => B[d].place \in usable \/ B[d].place = t[d].place

\* validateRevisionHistorySnapshotChanges
HistoryKept(B, t) ==
    \A d \in Docs : B[d] \notin {Kept, Left} /\ t[d].standing # "none" =>
        /\ Linked(d) => B[d].ident = t[d].ident
        /\ t[d].standing = "disposed" /\ B[d].standing = "active" => newer[d] = NoDoc

\* computeChangedFields: the row and the document differ.
Changed(B, t) ==
    {d \in Docs : t[d].standing \in {"active", "disposed"} /\ B[d] \notin {Kept, Left}
                    /\ B[d] # Contents(t)[d]}

\* A row without a document, and a document of the ledger without a row.
Created(B, t) == {d \in Docs : t[d].standing = "none" /\ B[d] # Left}
Excluded(B, t) == {d \in Docs : t[d].listed /\ B[d] = Left}

\* What is stored of the comparison: the action and the row version of each.
PlanOf(B, t) ==
    [update |-> Changed(B, t), create |-> Created(B, t), exclude |-> Excluded(B, t),
     expected |-> [d \in Docs |->
                    IF d \in Changed(B, t) \cup Excluded(B, t) THEN t[d].version ELSE 0]]

\* The statements that read rows, documents and the edition are not one
\* transaction; the early check of the edition repeats the one below.
PrepareRead(o, w) ==
    /\ step[o] = "idle"
    /\ stage[w] = "staging" /\ book[w] # NoBook
    /\ IF edition = base[w]
         THEN Proceed(o, w, "prepare", doc)
         ELSE Proceed(o, w, "fail", NoRows)
    /\ UNCHANGED <<vars, snapshots>>

PrepareCommit(o) ==
    LET w == task[o]
        B == book[w]
        t == table[o]
    IN  /\ step[o] = "prepare"
        /\ IF Matchable(B, t) /\ Located(B, t) /\ HistoryKept(B, t)
                /\ stage[w] = "staging" /\ InForce(w)
             THEN /\ stage' = [stage EXCEPT ![w] = "ready"]
                  /\ plan' = [plan EXCEPT ![w] = PlanOf(B, t)]
                  /\ review' = [review EXCEPT ![w] =
                                    [edition |-> edition, result |-> Target(B, t)]]
                  /\ Finish(o)
             ELSE Proceed(o, w, "fail", NoRows) /\ UNCHANGED <<stage, plan, review>>
        /\ UNCHANGED <<vars, base, paged, origin, book>>

\* failSnapshotValidation
PrepareFail(o) ==
    /\ step[o] = "fail"
    /\ Transition(task[o], {"staging"}, "failed")
    /\ Finish(o)
    /\ UNCHANGED vars

-----------------------------------------------------------------------------
(* applyDocumentSnapshot *)

\* The checks on the snapshot, its authorization and the user's confirmation.
ApplyRead(o, w) ==
    /\ step[o] = "idle"
    /\ stage[w] = "ready"
    /\ Proceed(o, w, IF edition = base[w] THEN "apply" ELSE "stale", NoRows)
    /\ UNCHANGED <<vars, snapshots>>

\* Claim of the first statement.
ClaimableAtAnyEdition(w) == stage[w] = "ready"
Claimable(w) == stage[w] = "ready" /\ base[w] = edition

\* The conditions of the UPDATE and the exclusion; their exact counts abort the
\* batch when one of the rows does not meet them.
Applicable(w) ==
    /\ \A d \in plan[w].update :
        /\ doc[d].version = plan[w].expected[d]
        /\ Linked(d) => book[w][d].ident = doc[d].ident
        /\ doc[d].standing = "disposed" /\ book[w][d].standing = "active" => newer[d] = NoDoc
    /\ \A d \in plan[w].exclude : doc[d].listed /\ doc[d].version = plan[w].expected[d]
    /\ \A d \in plan[w].create : doc[d].standing = "none"

RowOf(entry, v) ==
    [standing |-> entry.standing, listed |-> TRUE, ident |-> entry.ident,
     place |-> entry.place, version |-> v]

\* Updates and new rows come before the exclusions, and the index and the limit
\* are checked at every row.
BeforeExclusions(w) ==
    [d \in Docs |->
        IF d \in plan[w].update THEN RowOf(book[w][d], NextVersion(doc[d].version))
        ELSE IF d \in plan[w].create THEN RowOf(book[w][d], 1)
        ELSE doc[d]]
AfterExclusions(w) ==
    [d \in Docs |->
        IF d \in plan[w].exclude
        THEN [doc[d] EXCEPT !.listed = FALSE, !.version = NextVersion(@)]
        ELSE BeforeExclusions(w)[d]]

Accepted(w) ==
    /\ IdentityFree(BeforeExclusions(w))
    /\ Count(BeforeExclusions(w)).current <= Capacity

\* Rows are updated one by one: an identity that one document gives up may still
\* be taken when a re-included one claims it.
Contended(w) ==
    \E d, e \in plan[w].update :
        d # e /\ ~doc[d].listed /\ doc[e].listed /\ book[w][d].ident = doc[e].ident
            /\ doc[e].ident \notin Unnumbered

ApplyCommit(o) ==
    LET w == task[o]
    IN  /\ step[o] = "apply"
        /\ Claimable(w) /\ Applicable(w) /\ Accepted(w)
        /\ doc' = AfterExclusions(w)
        /\ counted' = Count(AfterExclusions(w))
        /\ NextEdition
        /\ stage' = [stage EXCEPT ![w] = "completed"]
        /\ Finish(o)
        /\ UNCHANGED <<newer, usable, requests, base, paged, origin, book, plan, review>>

\* The claim or a count does not hold: the batch is aborted.
ApplyAbort(o) ==
    /\ step[o] = "apply"
    /\ ~(Claimable(task[o]) /\ Applicable(task[o]))
    /\ Proceed(o, task[o], "stale", NoRows)
    /\ UNCHANGED <<vars, snapshots>>

\* The index or the limit stops the batch: the request ends with an error, and
\* the workbook stays ready.
ApplyRefused(o) ==
    /\ step[o] = "apply"
    /\ Claimable(task[o]) /\ Applicable(task[o])
    /\ ~Accepted(task[o]) \/ Contended(task[o])
    /\ Finish(o)
    /\ UNCHANGED <<vars, snapshots>>

\* markSnapshotStale
MarkStale(o) ==
    /\ step[o] = "stale"
    /\ Transition(task[o], {"ready", "applying"}, "failed")
    /\ Finish(o)
    /\ UNCHANGED vars

-----------------------------------------------------------------------------
\* cancelDocumentSnapshot: the batch checks again all that the request has read.
Cancel(w) ==
    /\ stage[w] \in {"staging", "ready"}
    /\ Transition(w, {"staging", "ready"}, "cancelled")
    /\ UNCHANGED <<vars, operators>>

OperatorLost(o) ==
    /\ step[o] # "idle"
    /\ Finish(o)
    /\ UNCHANGED <<vars, snapshots>>

DocumentStep == Next /\ UNCHANGED <<snapshots, operators>>

OperatorStep(o) ==
    \/ \E w \in Workbooks : PrepareRead(o, w) \/ ApplyRead(o, w)
    \/ PrepareCommit(o) \/ PrepareFail(o)
    \/ ApplyCommit(o) \/ ApplyAbort(o) \/ ApplyRefused(o) \/ MarkStale(o)
    \/ OperatorLost(o)

\* The page exports, and uploads what the user has made of it.
ExportStep(w) ==
    \/ StartExport(w) \/ ExportAtOnce(w) \/ \E d \in Docs : ExportPage(w, d)
    \/ EndExport(w) \/ ExportStale(w)
UploadStep(w) == CreateWorkbook(w) \/ \E B \in Book : StageRows(w, B)

SyncNext ==
    \/ DocumentStep
    \/ \E w \in Workbooks : ExportStep(w) \/ UploadStep(w) \/ Cancel(w)
    \/ \E o \in Operators : OperatorStep(o)

SyncSpec == SyncInit /\ [][SyncNext]_allVars

-----------------------------------------------------------------------------
(* Properties *)

Stages == {"none", "exporting", "exported", "staging", "ready", "completed", "failed", "cancelled"}

\* Every variable stays within its type.
Said == [standing : {"none", "active", "disposed", "deleted"},
         ident : Idents \cup {NoIdent}, place : Places \cup {NoPlace}]
SyncTypeOK ==
    /\ TypeOK
    /\ stage \in [Workbooks -> Stages]
    /\ base \in [Workbooks -> 0..MaxEdition]
    /\ paged \in [Workbooks -> SUBSET Docs]
    /\ origin \in [Workbooks -> [Docs -> Said \cup {Left}]]
    /\ book \in [Workbooks -> Book]
    /\ plan \in [Workbooks -> [update : SUBSET Docs, create : SUBSET Docs,
                               exclude : SUBSET Docs, expected : [Docs -> Nat]]]
    /\ step \in [Operators -> {"idle", "prepare", "fail", "apply", "stale"}]
    /\ task \in [Operators -> Workbooks \cup {NoWorkbook}]
    /\ table \in [Operators -> [Docs -> Row]]
    /\ review \in [Workbooks -> [edition : 0..MaxEdition, result : [Docs -> Said \cup Entry \cup {Left}]]]

\* A workbook that is ready at the edition in force says of every document what
\* a fresh comparison would say: the batch that applies it finds every row in the
\* version that was reviewed.
ReviewHolds ==
    \A w \in Workbooks : stage[w] = "ready" /\ base[w] = edition =>
        Applicable(w) /\ plan[w] = PlanOf(book[w], doc)

\* Applying a workbook makes the ledger what the workbook says: the rows the user
\* edited as edited, the others as they were exported, and no other document.
LedgerIsWorkbook ==
    [][\A w \in Workbooks : stage[w] = "ready" /\ stage'[w] = "completed" =>
        Contents(doc') = [d \in Docs |-> IF book[w][d] = Kept THEN origin[w][d]
                                         ELSE book[w][d]]]_allVars

\* The synchronisation implements LedgerVersions: review and application of a
\* workbook are single steps against one edition, however its chunks, reads and
\* batches interleave with those of others.
Versions == INSTANCE LedgerVersions WITH
    Unreviewed <- NoReview,
    content <- Contents(doc),
    reviewed <- review,
    applied <- {w \in Workbooks : stage[w] = "completed"}
ImplementsVersions == Versions!Spec
=============================================================================
