--------------------------- MODULE DocumentLedger ---------------------------
(***************************************************************************)
(* The document ledger: the operations on single documents                 *)
(* (cloudflare-app/src/domains/documents, handlers/documents) and the      *)
(* triggers of migrations 0053 and 0059 that watch over them.              *)
(*                                                                         *)
(* Nobody locks a document.  A form carries the version of the document it *)
(* was filled from, the handler reads the document again, and one batch    *)
(* whose statements all carry the same guard makes the change.  The form,  *)
(* the handler's reads and the batch are separate steps here, and the      *)
(* requests of several users interleave.                                   *)
(*                                                                         *)
(* A document is a row: its document and revision numbers are one value,   *)
(* the identity; updated_at and row_version are one version; its other     *)
(* attributes change with the identity or not at all.                      *)
(***************************************************************************)
EXTENDS Integers, FiniteSets

CONSTANTS
    Docs,        \* document ids
    NoDoc,       \* no document
    Idents,      \* document number with revision number
    Unnumbered,  \* the identities with number N/A, which may be shared
    NoIdent,     \* the identity of a row that does not exist
    Places,      \* rack slots with a face
    NoPlace,     \* the place of a row that does not exist
    Users,       \* requests under way
    Capacity,    \* capacity_policy.hard_document_count
    BulkMax,     \* FREE_TIER_BUDGET.directBulkDisposeMaxItems
    MaxExcluded, \* bound: documents that are out of the ledger at the start
    MaxEdition   \* bound: committed changes of the ledger

ASSUME LedgerAssumption ==
    /\ IsFiniteSet(Docs) /\ NoDoc \notin Docs
    /\ Unnumbered \subseteq Idents /\ NoIdent \notin Idents /\ NoPlace \notin Places
    /\ Capacity \in Nat /\ BulkMax \in Nat /\ MaxExcluded \in Nat /\ MaxEdition \in Nat \ {0}

Row == [standing : {"none", "active", "disposed", "deleted"}, listed : BOOLEAN,
        ident : Idents \cup {NoIdent}, place : Places \cup {NoPlace}, version : Nat]

NoRow == [standing |-> "none", listed |-> FALSE, ident |-> NoIdent, place |-> NoPlace,
          version |-> 0]
NoRows == [d \in Docs |-> NoRow]

VARIABLES
    doc,      \* the table documents
    newer,    \* document_revision_links: the revision that replaces a document
    usable,   \* places on an active slot of an active rack
    edition,  \* document_sync_state.current_version
    counted,  \* document_capacity_state
    pc,       \* what each request does next
    on,       \* the documents a request works on
    form,     \* the row as the user's page showed it
    rows      \* the rows a request has read

ledger == <<doc, newer, usable, edition, counted>>
requests == <<pc, on, form, rows>>
vars == <<doc, newer, usable, edition, counted, pc, on, form, rows>>

\* Every statement that changes a document gives it another row_version.
NextVersion(v) == v + 1

Listed == {d \in Docs : doc[d].listed}
Count(table) ==
    [current |-> Cardinality({d \in Docs : table[d].listed}),
     active |-> Cardinality({d \in Docs : table[d].listed /\ table[d].standing = "active"}),
     disposed |-> Cardinality({d \in Docs : table[d].listed /\ table[d].standing = "disposed"})]

\* A ledger with some documents, some that a workbook has excluded from it, and all
\* places in use.
Init ==
    /\ doc \in [Docs -> {NoRow} \cup
                        [standing : {"active"}, listed : BOOLEAN, ident : Idents,
                         place : Places, version : {1}]]
    /\ \A d, e \in Listed : d # e => doc[d].ident # doc[e].ident
    /\ Cardinality(Listed) <= Capacity
    /\ Cardinality({d \in Docs : doc[d].standing # "none" /\ ~doc[d].listed}) <= MaxExcluded
    /\ newer = [d \in Docs |-> NoDoc]
    /\ usable = Places
    /\ edition = 1
    /\ counted = Count(doc)
    /\ pc = [u \in Users |-> "idle"]
    /\ on = [u \in Users |-> {}]
    /\ form = [u \in Users |-> NoRow]
    /\ rows = [u \in Users |-> NoRows]

-----------------------------------------------------------------------------
(* What the triggers see to *)

\* idx_documents_current_identity
IdentityFree(table) ==
    \A d, e \in Docs : d # e /\ table[d].listed /\ table[e].listed
        /\ table[d].ident = table[e].ident => table[d].ident \in Unnumbered

\* trg_revision_linked_identity_no_update, trg_revision_previous_no_restore
Linked(d) == newer[d] # NoDoc \/ \E e \in Docs : newer[e] = d
IdentityKept(d, row) == Linked(d) => row.ident = doc[d].ident
RestoredAnyway(d, row) == TRUE
NotRestored(d, row) ==
    doc[d].standing = "disposed" /\ row.standing = "active" => newer[d] = NoDoc

\* trg_document_capacity_state_*: the counters follow the row.
In(row, standing) == IF row.listed /\ row.standing = standing THEN 1 ELSE 0
RecountedByStanding(old, new) ==
    [current |-> (counted.current + In(new, "active")) - In(old, "active"),
     active |-> (counted.active + In(new, "active")) - In(old, "active"),
     disposed |-> (counted.disposed + In(new, "disposed")) - In(old, "disposed")]
Recounted(old, new) ==
    [current |-> (counted.current + (IF new.listed THEN 1 ELSE 0))
                    - (IF old.listed THEN 1 ELSE 0),
     active |-> (counted.active + In(new, "active")) - In(old, "active"),
     disposed |-> (counted.disposed + In(new, "disposed")) - In(old, "disposed")]

\* trg_document_sync_version_*
SameEdition == UNCHANGED edition
NextEdition == edition < MaxEdition /\ edition' = edition + 1

\* A document is changed to row, or the batch is aborted.
Permitted(d, row) ==
    /\ IdentityKept(d, row) /\ NotRestored(d, row)
    /\ IdentityFree([doc EXCEPT ![d] = row])
Put(d, row) ==
    /\ doc' = [doc EXCEPT ![d] = row]
    /\ counted' = Recounted(doc[d], row)
    /\ NextEdition

NoChange == UNCHANGED <<doc, newer, edition, counted>>

-----------------------------------------------------------------------------
(* What a request goes through *)

\* The request goes on to step a, knowing the rows of the documents D.
Goto(u, a, D) ==
    /\ pc' = [pc EXCEPT ![u] = a]
    /\ on' = [on EXCEPT ![u] = D]
    /\ rows' = [rows EXCEPT ![u] = [d \in Docs |-> IF d \in D THEN doc[d] ELSE NoRow]]

Done(u) ==
    /\ pc' = [pc EXCEPT ![u] = "idle"]
    /\ on' = [on EXCEPT ![u] = {}]
    /\ form' = [form EXCEPT ![u] = NoRow]
    /\ rows' = [rows EXCEPT ![u] = NoRows]

Exists(d) == doc[d].standing \in {"active", "disposed"}

\* The guard of a form's batch: the row is active and as the form showed it.
AsFormShowedAtAnyVersion(u, d) == doc[d].standing = "active"
AsFormShowed(u, d) == doc[d].standing = "active" /\ doc[d].version = form[u].version

\* The guard of a batch without a form: the row is as the handler read it.
AsRead(u, d) == doc[d].standing = rows[u][d].standing /\ doc[d].version = rows[u][d].version

-----------------------------------------------------------------------------
(* createDocument *)

NewRow(i, p) ==
    [standing |-> "active", listed |-> TRUE, ident |-> i, place |-> p, version |-> 1]

\* validateDocumentReferences; findDuplicateDocument sees the current documents only.
ReferencesValid(p) == p \in usable
NoDuplicate(i) == \A d \in Listed : doc[d].ident # i

\* handleCreateDocument up to its transaction
CreateCheck(u, i, p) ==
    /\ pc[u] = "idle"
    /\ ReferencesValid(p) /\ NoDuplicate(i)
    /\ pc' = [pc EXCEPT ![u] = "create"]
    /\ form' = [form EXCEPT ![u] = NewRow(i, p)]
    /\ UNCHANGED <<ledger, on, rows>>

\* INSERT ... WHERE NOT EXISTS: a document out of the ledger counts as well.
NotRegistered(i) == \A d \in Docs : Exists(d) => doc[d].ident # i

CreateCommit(u, d) ==
    /\ pc[u] = "create"
    /\ doc[d].standing = "none"
    /\ IF NotRegistered(form[u].ident) /\ counted.current < Capacity
         THEN Put(d, form[u]) /\ UNCHANGED newer
         ELSE NoChange
    /\ Done(u)
    /\ UNCHANGED usable

-----------------------------------------------------------------------------
(* The forms of a document: information, movement, revision *)

\* The GET handlers show the form of a document that is not disposed of.
OpenForm(u, d) ==
    /\ pc[u] = "idle"
    /\ doc[d].standing = "active"
    /\ pc' = [pc EXCEPT ![u] = "form"]
    /\ on' = [on EXCEPT ![u] = {d}]
    /\ form' = [form EXCEPT ![u] = doc[d]]
    /\ UNCHANGED <<ledger, rows>>

\* The POST handler reads the document again and refuses one that is gone or
\* disposed of.
Submit(u, a) ==
    /\ pc[u] = "form"
    /\ \E d \in on[u] :
        IF doc[d].standing = "active" THEN Goto(u, a, {d}) /\ UNCHANGED form ELSE Done(u)
    /\ UNCHANGED ledger

SubmitEdit(u) == Submit(u, "edit")
SubmitMove(u) == Submit(u, "move")

\* reviseDocument also wants it in the ledger and not yet replaced.
SubmitRevision(u) ==
    /\ pc[u] = "form"
    /\ \E d \in on[u] :
        IF doc[d].standing = "active" /\ doc[d].listed /\ newer[d] = NoDoc
        THEN Goto(u, "revise", {d}) /\ UNCHANGED form
        ELSE Done(u)
    /\ UNCHANGED ledger

\* updateDocument keeps the place that it has read.
EditCommit(u, i) ==
    /\ pc[u] = "edit"
    /\ \E d \in on[u] :
        LET row == [doc[d] EXCEPT !.ident = i, !.place = rows[u][d].place, !.version = NextVersion(@)]
        IN  IF AsFormShowed(u, d) /\ Permitted(d, row)
            THEN Put(d, row) /\ UNCHANGED newer
            ELSE NoChange
    /\ Done(u)
    /\ UNCHANGED usable

\* moveDocument: the target is still in use, the source as it was read.
MoveCommit(u, p) ==
    /\ pc[u] = "move"
    /\ \E d \in on[u] :
        LET row == [doc[d] EXCEPT !.place = p, !.version = NextVersion(@)]
        IN  /\ p # rows[u][d].place
            /\ IF AsFormShowed(u, d) /\ p \in usable /\ doc[d].place = rows[u][d].place
               THEN Put(d, row) /\ UNCHANGED newer
               ELSE NoChange
    /\ Done(u)
    /\ UNCHANGED usable

\* reviseDocument: the new revision takes the place of the old one, which is
\* disposed of in the same batch.
Replaceable(u, d) == AsFormShowed(u, d) /\ doc[d].listed /\ newer[d] = NoDoc
Revised(d, i) == [doc[d] EXCEPT !.ident = i, !.version = 1]
Superseded(d) == [doc[d] EXCEPT !.standing = "disposed", !.version = NextVersion(@)]

ReviseCommit(u, n, i) ==
    /\ pc[u] = "revise"
    /\ doc[n].standing = "none"
    /\ \E d \in on[u] :
        /\ i # rows[u][d].ident
        /\ IF /\ Replaceable(u, d)
              /\ NoDuplicate(i)
              /\ counted.current < Capacity
           THEN /\ doc' = [doc EXCEPT ![n] = Revised(d, i), ![d] = Superseded(d)]
                /\ newer' = [newer EXCEPT ![d] = n]
                /\ counted' = [current |-> counted.current + 1, active |-> counted.active,
                               disposed |-> counted.disposed + 1]
                /\ NextEdition
           ELSE NoChange
    /\ Done(u)
    /\ UNCHANGED usable

-----------------------------------------------------------------------------
(* Disposal, restoration, deletion *)

\* disposeDocument and disposeDocumentsBulk read the documents and skip those
\* that are not active.
DisposeRead(u, D) ==
    /\ pc[u] = "idle"
    /\ D # {} /\ Cardinality(D) <= BulkMax
    /\ \A d \in D : doc[d].standing = "active"
    /\ Goto(u, "dispose", D)
    /\ UNCHANGED <<ledger, form>>

\* Each document has its own guard: the batch may dispose of some and not others.
DisposeCommit(u) ==
    LET D == {d \in on[u] : AsRead(u, d)}
    IN  /\ pc[u] = "dispose"
        /\ IF D = {}
             THEN UNCHANGED <<doc, edition, counted>>
             ELSE /\ doc' = [d \in Docs |->
                                IF d \in D
                                THEN [doc[d] EXCEPT !.standing = "disposed", !.version = NextVersion(@)]
                                ELSE doc[d]]
                  /\ counted' = [current |-> counted.current,
                                 active |-> counted.active - Cardinality(D \cap Listed),
                                 disposed |-> counted.disposed + Cardinality(D \cap Listed)]
                  /\ NextEdition
        /\ Done(u)
        /\ UNCHANGED <<newer, usable>>

\* restoreDocument looks for a revision that replaces the document ...
RestoreCheck(u, d) ==
    /\ pc[u] = "idle"
    /\ Exists(d) /\ newer[d] = NoDoc
    /\ Goto(u, "check", {d})
    /\ UNCHANGED <<ledger, form>>

\* ... and only then reads the document.
RestoreRead(u) ==
    /\ pc[u] = "check"
    /\ \E d \in on[u] :
        IF doc[d].standing = "disposed" THEN Goto(u, "restore", {d}) /\ UNCHANGED form ELSE Done(u)
    /\ UNCHANGED ledger

RestoreCommit(u) ==
    /\ pc[u] = "restore"
    /\ \E d \in on[u] :
        LET row == [doc[d] EXCEPT !.standing = "active", !.version = NextVersion(@)]
        IN  IF AsRead(u, d) /\ Permitted(d, row)
            THEN Put(d, row) /\ UNCHANGED newer
            ELSE NoChange
    /\ Done(u)
    /\ UNCHANGED usable

\* permanentlyDeleteDocument: disposed of, and part of no revision history.  No route of
\* this release calls it; it is kept for a Worker rolled back to an earlier one.
DeleteRead(u, d) ==
    /\ pc[u] = "idle"
    /\ doc[d].standing = "disposed" /\ ~Linked(d)
    /\ Goto(u, "delete", {d})
    /\ UNCHANGED <<ledger, form>>

\* AUTOINCREMENT: the id is not used again.
DeleteCommit(u) ==
    /\ pc[u] = "delete"
    /\ \E d \in on[u] :
        IF AsRead(u, d) /\ ~Linked(d)
        THEN Put(d, [NoRow EXCEPT !.standing = "deleted"]) /\ UNCHANGED newer
        ELSE NoChange
    /\ Done(u)
    /\ UNCHANGED usable

-----------------------------------------------------------------------------
\* A rack or slot is put out of use or back into use.
ToggleUse(p) ==
    /\ usable' = IF p \in usable THEN usable \ {p} ELSE usable \cup {p}
    /\ UNCHANGED <<doc, newer, edition, counted, requests>>

\* The user leaves the form, or the runtime ends a request.
RequestLost(u) ==
    /\ pc[u] # "idle"
    /\ Done(u)
    /\ UNCHANGED ledger

DocumentRequest(u) ==
    \/ \E i \in Idents, p \in Places : CreateCheck(u, i, p)
    \/ \E d \in Docs :
        CreateCommit(u, d) \/ OpenForm(u, d) \/ RestoreCheck(u, d) \/ DeleteRead(u, d)
    \/ SubmitEdit(u) \/ SubmitMove(u) \/ SubmitRevision(u)
    \/ \E i \in Idents : EditCommit(u, i)
    \/ \E p \in Places : MoveCommit(u, p)
    \/ \E n \in Docs, i \in Idents : ReviseCommit(u, n, i)
    \/ \E D \in SUBSET Docs : DisposeRead(u, D)
    \/ DisposeCommit(u)
    \/ RestoreRead(u) \/ RestoreCommit(u) \/ DeleteCommit(u)
    \/ RequestLost(u)

Next ==
    \/ \E u \in Users : DocumentRequest(u)
    \/ \E p \in Places : ToggleUse(p)

Spec == Init /\ [][Next]_vars

-----------------------------------------------------------------------------
(* Properties *)

\* Every variable stays within its type.  That no counter goes below zero is
\* CountersMatch.
TypeOK ==
    /\ doc \in [Docs -> Row]
    /\ newer \in [Docs -> Docs \cup {NoDoc}]
    /\ usable \subseteq Places
    /\ edition \in 1..MaxEdition
    /\ counted \in [current : Int, active : Int, disposed : Int]
    /\ pc \in [Users -> {"idle", "create", "form", "edit", "move", "revise", "dispose", "check",
                         "restore", "delete"}]
    /\ on \in [Users -> SUBSET Docs]
    /\ form \in [Users -> Row]
    /\ rows \in [Users -> [Docs -> Row]]

\* No lost update: what a form changes, it changes in the row that its user saw,
\* although the handler reads some of the fields anew and others work meanwhile.
NoLostUpdate ==
    [][\A u \in Users, d \in Docs :
        /\ pc[u] \in {"edit", "move", "revise"} /\ pc'[u] = "idle"
        /\ d \in on[u] /\ doc'[d] # doc[d]
        => /\ doc[d] = form[u]
           /\ pc[u] = "edit" => doc'[d].place = form[u].place]_vars

\* A revision history stays what it says: a document that a revision replaces is
\* disposed of and stays so, no revision replaces two documents, and none of
\* them is deleted, whatever restore, delete and revise requests race.
HistoryStands ==
    /\ \A d \in Docs : newer[d] # NoDoc =>
        doc[d].standing = "disposed" /\ Exists(newer[d])
    /\ \A d, e \in Docs : newer[d] # NoDoc /\ newer[d] = newer[e] => d = e

\* The counters that the capacity limit is checked against are those of the
\* table, and the limit is kept.
CountersMatch == counted = Count(doc) /\ counted.current <= Capacity
=============================================================================
