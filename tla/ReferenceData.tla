---------------------------- MODULE ReferenceData ----------------------------
(***************************************************************************)
(* What documents refer to: the racks of a zone (domains/racks,            *)
(* handlers/rackHandlers.js) and a category or tag (domains/masters).      *)
(*                                                                         *)
(* Racks and categories carry a row_version that a form has to bring back. *)
(* That protects the row itself; whether documents stand in a rack is      *)
(* another matter, which the handlers look up before the transaction.  The *)
(* form that sets the number of racks of a zone carries the version of the *)
(* whole ledger instead.                                                   *)
(*                                                                         *)
(* All racks have the same shape (rackHandlers.js), so that the columns    *)
(* and shelves of a rack are left out; the zones are alike, so that there  *)
(* is one.                                                                 *)
(***************************************************************************)
EXTENDS Naturals, FiniteSets

CONSTANTS
    RackCount,  \* racks of the zone, the one not added yet included
    Docs,       \* ids of documents
    NoDoc,      \* no document
    Idents,     \* document numbers with revision numbers
    Users,      \* requests under way
    Limit,      \* capacity_policy.hard_document_count
    MaxEdition  \* bound: committed changes other than those of import jobs

ASSUME ReferenceAssumption ==
    /\ RackCount \in Nat \ {0} /\ IsFiniteSet(Docs) /\ Docs \subseteq Nat /\ Idents # {}
    /\ NoDoc \notin Docs /\ Limit \in Nat \ {0} /\ MaxEdition \in Nat \ {0}

Racks == 1..RackCount    \* the ids
Numbers == 1..RackCount
Faces == {"A", "B"}
Places == Racks \X Faces

\* A rack whose number is 0 does not exist.
NoRack == [number |-> 0, active |-> FALSE, single |-> FALSE, version |-> 0]

VARIABLES
    rack,      \* the table racks
    category,  \* a category: in use, and its row_version
    doc,       \* the table documents, with the row of the import job behind each, 0 for none
    edition,   \* document_sync_state.current_version
    locked,    \* a scheduled bootstrap load is under way
    pc,        \* what each request does next
    form       \* what a request brings along

base == <<rack, category, doc, edition, locked>>
vars == <<rack, category, doc, edition, locked, pc, form>>

Exists(r) == rack[r].number # 0
Current == {d \in Docs : doc[d].state = "current"}
Inside(r) == {d \in Current : doc[d].place[1] = r}
Unused == {d \in Docs : doc[d].state = "none"}
NextId == CHOOSE d \in Unused : \A e \in Unused : d <= e    \* AUTOINCREMENT
Full == Cardinality(Current) >= Limit
OnFaceB(r) == {d \in Inside(r) : doc[d].place[2] = "B"}

\* What the forms and the INSERT of an import ask of a place.
Usable(p) == rack[p[1]].active /\ (p[2] = "B" => ~rack[p[1]].single)
Numbered(n) == {r \in Racks : rack[r].number = n}

NoPlace == CHOOSE p \in Places : TRUE
NoRow == [state |-> "none", ident |-> CHOOSE i \in Idents : TRUE, place |-> NoPlace, row |-> 0]

\* A form: the rack it is about and the version shown, what it asks for (a rack row or
\* a number of racks), or the document to register.
NoForm == [rack |-> NoPlace[1], version |-> 0, want |-> NoRack, count |-> 0, doc |-> NoRow]

\* All racks but one are there and in use; no document is.
Init ==
    /\ rack = [r \in Racks |->
                 IF r = RackCount THEN NoRack
                 ELSE [number |-> r, active |-> TRUE, single |-> FALSE, version |-> 1]]
    /\ category = [active |-> TRUE, version |-> 1]
    /\ doc = [d \in Docs |-> NoRow]
    /\ edition = 1
    /\ locked = FALSE
    /\ pc = [u \in Users |-> "idle"]
    /\ form = [u \in Users |-> NoForm]

\* trg_rack_sync_version_*, trg_category_sync_version_*, trg_document_sync_version_*
Imported == {d \in Docs : doc[d].row # 0}
Raise == edition < MaxEdition + Cardinality(Imported) /\ edition' = edition + 1

\* trg_bootstrap_lock_*: while a load is under way the database aborts any other batch
\* that changes something, whose request then ends without an effect (RequestLost).
Commit == ~locked /\ Raise /\ UNCHANGED locked

Goto(u, a, f) == pc' = [pc EXCEPT ![u] = a] /\ form' = [form EXCEPT ![u] = f]
Done(u) == Goto(u, "idle", NoForm)

-----------------------------------------------------------------------------
(* One rack: handleSaveRack, upsertRack *)

\* GET /racks/:id/edit
OpenRackForm(u, r) ==
    /\ pc[u] = "idle" /\ Exists(r)
    /\ Goto(u, "form", [NoForm EXCEPT !.rack = r, !.version = rack[r].version])
    /\ UNCHANGED base

\* The handler looks for documents in a rack that is to be put out of use, and on the
\* second face of one that is to become single sided.
MayBecome(r, want) ==
    /\ ~want.active => Inside(r) = {}
    /\ want.single => OnFaceB(r) = {}

SaveRack(u, want) ==
    /\ pc[u] = "form"
    /\ LET f == form[u]
       IN IF MayBecome(f.rack, want) /\ rack[f.rack].version = f.version
          THEN Goto(u, "save", [f EXCEPT !.want = want])
          ELSE Done(u)
    /\ UNCHANGED base

\* POST /racks: a rack out of use with that number is taken back into use.
AddRack(u, want) ==
    /\ pc[u] = "idle"
    /\ LET old == Numbered(want.number)
       IN \/ /\ old = {}
             /\ Goto(u, "add", [NoForm EXCEPT !.want = want])
          \/ \E r \in old :
                /\ ~rack[r].active
                /\ Goto(u, "save", [NoForm EXCEPT !.rack = r, !.version = rack[r].version,
                                                  !.want = want])
    /\ UNCHANGED base

SaveRackCommit(u) ==
    /\ pc[u] = "save"
    /\ LET f == form[u]
       IN IF rack[f.rack].version = f.version /\ Numbered(f.want.number) \subseteq {f.rack}
          THEN /\ rack' = [rack EXCEPT ![f.rack] = [f.want EXCEPT !.version = f.version + 1]]
               /\ Commit
          ELSE UNCHANGED <<rack, edition, locked>>
    /\ Done(u)
    /\ UNCHANGED <<category, doc>>

AddRackCommit(u, r) ==
    /\ pc[u] = "add" /\ ~Exists(r)
    /\ IF Numbered(form[u].want.number) = {}
       THEN rack' = [rack EXCEPT ![r] = [form[u].want EXCEPT !.version = 1]] /\ Commit
       ELSE UNCHANGED <<rack, edition, locked>>
    /\ Done(u)
    /\ UNCHANGED <<category, doc>>

-----------------------------------------------------------------------------
(* All racks of the zone: handleRackConfigure, configureRackCounts *)

\* GET /racks/configure
OpenCounts(u) ==
    /\ pc[u] = "idle"
    /\ Goto(u, "counts", [NoForm EXCEPT !.version = edition])
    /\ UNCHANGED base

\* MAX(rack_number) over the racks with documents must not exceed the count.
Configure(u, n) ==
    /\ pc[u] = "counts"
    /\ IF \A d \in Current : rack[doc[d].place[1]].number <= n
       THEN Goto(u, "configure", [form[u] EXCEPT !.count = n])
       ELSE Done(u)
    /\ UNCHANGED base

\* The claim of the version that the form showed.
ClaimedAnyway(u) == TRUE
Claimed(u) == edition = form[u].version

\* The missing racks are inserted, and all are put into or out of use.
ConfigureCommit(u, f) ==
    /\ pc[u] = "configure"
    /\ \A r \in Racks : IF Exists(r) THEN f[r] = rack[r].number
                        ELSE Numbered(f[r]) = {} /\ \A q \in Racks : f[q] = f[r] => q = r
    /\ IF Claimed(u)
       THEN /\ rack' = [r \in Racks |->
                  [number |-> f[r], active |-> f[r] <= form[u].count,
                   single |-> rack[r].single, version |-> rack[r].version + 1]]
            /\ Commit
       ELSE UNCHANGED <<rack, edition, locked>>
    /\ Done(u)
    /\ UNCHANGED <<category, doc>>

-----------------------------------------------------------------------------
(* Categories and tags: saveMaster, deactivateMaster *)

OpenCategory(u) ==
    /\ pc[u] = "idle"
    /\ Goto(u, "category", [NoForm EXCEPT !.version = category.version])
    /\ UNCHANGED base

SaveCategory(u, active) ==
    /\ pc[u] = "category"
    /\ IF category.version = form[u].version
       THEN category' = [active |-> active, version |-> form[u].version + 1] /\ Commit
       ELSE UNCHANGED <<category, edition, locked>>
    /\ Done(u)
    /\ UNCHANGED <<rack, doc>>

-----------------------------------------------------------------------------
(* Documents, as far as they stand in racks *)

\* validateDocumentReferences and findDuplicateDocument, some time before the INSERT.
CreateCheck(u, i, p) ==
    /\ pc[u] = "idle"
    /\ category.active /\ Usable(p)
    /\ \A d \in Current : doc[d].ident # i
    /\ Goto(u, "create", [NoForm EXCEPT !.doc = [NoRow EXCEPT !.state = "current", !.ident = i, !.place = p]])
    /\ UNCHANGED base

\* createDocument: the INSERT looks at the document number alone, the trigger at the
\* number of documents.
CreateCommit(u) ==
    /\ pc[u] = "create" /\ Unused # {}
    /\ IF ~Full /\ \A e \in Docs : doc[e].state # "none" => doc[e].ident # form[u].doc.ident
       THEN doc' = [doc EXCEPT ![NextId] = form[u].doc] /\ Commit
       ELSE UNCHANGED <<doc, edition, locked>>
    /\ Done(u)
    /\ UNCHANGED <<rack, category>>

\* moveDocument, and the workbook that moves documents: the transaction looks at the rack.
MoveDocument(d, p) ==
    /\ d \in Current /\ p # doc[d].place /\ Usable(p)
    /\ doc' = [doc EXCEPT ![d].place = p]
    /\ Commit
    /\ UNCHANGED <<rack, category, pc, form>>

\* A workbook takes a document out of the ledger.
ExcludeDocument(d) ==
    /\ d \in Current
    /\ doc' = [doc EXCEPT ![d].state = "excluded"]
    /\ Commit
    /\ UNCHANGED <<rack, category, pc, form>>

\* A bootstrap load is scheduled over a ledger without documents (the samples are left
\* out here), and its last batch publishes them: one stands for all.
LoadBegins ==
    /\ ~locked /\ edition < MaxEdition
    /\ Unused = Docs /\ Docs # {}
    /\ locked' = TRUE
    /\ UNCHANGED <<rack, category, doc, edition, pc, form>>

LoadEnds(i, p) ==
    /\ locked /\ Usable(p) /\ Unused # {}
    /\ doc' = [doc EXCEPT ![NextId] = [NoRow EXCEPT !.state = "current", !.ident = i, !.place = p]]
    /\ Raise
    /\ locked' = FALSE
    /\ UNCHANGED <<rack, category, pc, form>>

RequestLost(u) ==
    /\ pc[u] # "idle" /\ Done(u)
    /\ UNCHANGED base

ReferenceStep ==
    \/ \E u \in Users :
        \/ \E r \in Racks : OpenRackForm(u, r) \/ AddRackCommit(u, r)
        \/ \E n \in Numbers, a, s \in BOOLEAN :
            LET want == [number |-> n, active |-> a, single |-> s, version |-> 0]
            IN SaveRack(u, want) \/ (a /\ AddRack(u, want))
        \/ SaveRackCommit(u)
        \/ OpenCounts(u)
        \/ \E n \in {0} \cup Numbers : Configure(u, n)
        \/ \E f \in [Racks -> Numbers] : ConfigureCommit(u, f)
        \/ OpenCategory(u) \/ \E a \in BOOLEAN : SaveCategory(u, a)
        \/ \E i \in Idents, p \in Places : CreateCheck(u, i, p)
        \/ CreateCommit(u) \/ RequestLost(u)
    \/ \E d \in Docs : ExcludeDocument(d) \/ \E p \in Places : MoveDocument(d, p)
    \/ LoadBegins \/ \E i \in Idents, p \in Places : LoadEnds(i, p)

-----------------------------------------------------------------------------
(* Properties *)

\* Setting the number of racks of a zone takes no rack out of use in which a document
\* stands, although the documents are looked up before the transaction.
CountsSpareDocuments ==
    [][\A u \in Users : pc[u] = "configure" /\ pc'[u] = "idle" =>
        \A r \in Racks : rack[r].active /\ ~rack'[r].active => Inside(r) = {}]_vars
=============================================================================
