----------------------------- MODULE LedgerProofs -----------------------------
(***************************************************************************)
(* Proofs about the document ledger, for any number of documents, users    *)
(* and places and any limits, and then about its Excel synchronisation:    *)
(* that it implements LedgerVersions, for any number of workbooks and      *)
(* operators.                                                              *)
(*                                                                         *)
(* DocumentLedger.  Whatever a request has read of a document stays        *)
(* comparable with the table: RequestOK says that the row read has a       *)
(* version at most that of the table, and is the row of the table if the   *)
(* versions agree.  It is kept because every step that touches a row gives *)
(* it a higher version or ends it (Evolves).  Effects sums up what the     *)
(* fourteen steps of the requests do to the table; the counters and the    *)
(* revision history follow from the summary alone.                         *)
(*                                                                         *)
(* LedgerSnapshots.  The argument is optimistic concurrency: the table     *)
(* changes only together with the edition (LedgerMoves), so what was read  *)
(* at an edition still in force is what the table says.  BookOK carries    *)
(* this from the pages of the export over the review to the batch that     *)
(* applies the workbook, and OperatorOK across the reads of                *)
(* prepareDocumentSnapshot, which are no transaction.                      *)
(***************************************************************************)
EXTENDS LedgerSnapshots, FiniteSetTheorems, TLAPS

-----------------------------------------------------------------------------
(* DocumentLedger: the requests on one document at a time.                 *)

Gone == [NoRow EXCEPT !.standing = "deleted"]

\* What a request has read of a document, against the row that the table has by now.
Comparable(read, now) ==
    /\ now.standing # "none"
    /\ read.version >= 1
    /\ now.standing # "deleted" => read.version <= now.version
    /\ read.version = now.version => read = now

RequestOK(u) ==
    /\ pc[u] \in {"idle", "create"} => on[u] = {}
    /\ pc[u] = "create" =>
        form[u].standing = "active" /\ form[u].listed /\ form[u].version = 1
    /\ pc[u] \in {"form", "edit", "move", "revise"} =>
        \A d \in on[u] : Comparable(form[u], doc[d])
    /\ pc[u] \in {"edit", "move", "revise", "dispose", "check", "restore", "delete"} =>
        \A d \in on[u] : Comparable(rows[u][d], doc[d])
    /\ pc[u] \in {"edit", "move", "revise"} =>
        \A d \in on[u] : form[u].version <= rows[u][d].version
    /\ pc[u] = "dispose" => \A d \in on[u] : rows[u][d].standing = "active"
    /\ pc[u] \in {"restore", "delete"} => \A d \in on[u] : rows[u][d].standing = "disposed"

\* What is said of a row by its standing.
RowOK(d) ==
    /\ doc[d].listed => Exists(d)
    /\ Exists(d) => doc[d].version >= 1
    /\ doc[d].standing = "deleted" => doc[d] = Gone

LedgerInv ==
    /\ TypeOK
    /\ \A d \in Docs : RowOK(d)
    /\ \A u \in Users : RequestOK(u)

-----------------------------------------------------------------------------
(* What a step does to the table *)

Inserts(d, row) ==
    /\ doc[d].standing = "none"
    /\ counted.current < Capacity
    /\ row.standing = "active" /\ row.listed /\ row.version = 1
    /\ Put(d, row) /\ UNCHANGED newer

Changes(d, row) ==
    /\ Exists(d)
    /\ row.standing \in {"active", "disposed"}
    /\ row.listed = doc[d].listed
    /\ row.version = doc[d].version + 1
    /\ NotRestored(d, row)
    /\ Put(d, row) /\ UNCHANGED newer

Deletes(d) ==
    /\ Exists(d) /\ ~Linked(d)
    /\ Put(d, Gone) /\ UNCHANGED newer

Replaces(d, n, i) ==
    /\ doc[d].standing = "active" /\ doc[d].listed /\ newer[d] = NoDoc
    /\ doc[n].standing = "none"
    /\ counted.current < Capacity
    /\ doc' = [doc EXCEPT ![n] = Revised(d, i), ![d] = Superseded(d)]
    /\ newer' = [newer EXCEPT ![d] = n]
    /\ counted' = [current |-> counted.current + 1, active |-> counted.active,
                   disposed |-> counted.disposed + 1]
    /\ NextEdition

Closes(D) ==
    /\ D # {}
    /\ \A d \in D : doc[d].standing = "active"
    /\ doc' = [d \in Docs |->
                IF d \in D
                THEN [doc[d] EXCEPT !.standing = "disposed", !.version = NextVersion(@)]
                ELSE doc[d]]
    /\ counted' = [current |-> counted.current,
                   active |-> counted.active - Cardinality(D \cap Listed),
                   disposed |-> counted.disposed + Cardinality(D \cap Listed)]
    /\ NextEdition /\ UNCHANGED newer

Effects ==
    \/ NoChange
    \/ \E d \in Docs, row \in Row : Inserts(d, row) \/ Changes(d, row)
    \/ \E d \in Docs : Deletes(d)
    \/ \E d, n \in Docs, i \in Idents : Replaces(d, n, i)
    \/ \E D \in SUBSET Docs : Closes(D)

LEMMA GoneIsRow == Gone \in Row /\ NoRow \in Row /\ Gone.standing = "deleted"
                    /\ ~Gone.listed /\ Gone.version = 0
BY DEF Gone, NoRow, Row

\* A row of a document stays one when its fields are changed.
LEMMA RowChanged ==
    ASSUME NEW r \in Row, NEW p \in Places \cup {NoPlace}, NEW i \in Idents \cup {NoIdent},
           NEW s \in {"active", "disposed"}
    PROVE  /\ r.version \in Nat /\ r.place \in Places \cup {NoPlace}
           /\ [r EXCEPT !.ident = i, !.place = p, !.version = NextVersion(@)] \in Row
           /\ [r EXCEPT !.place = p, !.version = NextVersion(@)] \in Row
           /\ [r EXCEPT !.standing = s, !.version = NextVersion(@)] \in Row
           /\ [r EXCEPT !.ident = i, !.version = 1] \in Row
           /\ [r EXCEPT !.listed = FALSE, !.version = NextVersion(@)] \in Row
<1>1. r.version \in Nat /\ r.version + 1 \in Nat /\ r.place \in Places \cup {NoPlace}
    BY DEF Row
<1>2. [r EXCEPT !.ident = i, !.place = p, !.version = NextVersion(@)] \in Row
    BY <1>1 DEF Row, NextVersion
<1>3. [r EXCEPT !.place = p, !.version = NextVersion(@)] \in Row
    BY <1>1 DEF Row, NextVersion
<1>4. [r EXCEPT !.standing = s, !.version = NextVersion(@)] \in Row
    BY <1>1 DEF Row, NextVersion
<1>5. [r EXCEPT !.ident = i, !.version = 1] \in Row
    BY <1>1 DEF Row, NextVersion
<1>6. [r EXCEPT !.listed = FALSE, !.version = NextVersion(@)] \in Row
    BY <1>1 DEF Row, NextVersion
<1> QED
    BY <1>1, <1>2, <1>3, <1>4, <1>5, <1>6

\* Every step of the requests has one of these effects.
LEMMA StepEffects == LedgerInv /\ Next => Effects
<1> SUFFICES ASSUME LedgerInv, Next PROVE Effects
    OBVIOUS
<1> USE DEF LedgerInv
<1>1. ASSUME NEW u \in Users, DocumentRequest(u) PROVE Effects
    <2>0. TypeOK /\ rows[u] \in [Docs -> Row] /\ on[u] \subseteq Docs
        BY DEF TypeOK
    <2>1. ASSUME NEW i \in Idents, NEW p \in Places, CreateCheck(u, i, p) PROVE Effects
        BY <2>1 DEF CreateCheck, ledger, NoChange, Effects
    <2>2. ASSUME NEW d \in Docs, CreateCommit(u, d) PROVE Effects
        <3>1. form[u] \in Row /\ form[u].standing = "active" /\ form[u].listed /\ form[u].version = 1
            BY <2>2 DEF CreateCommit, TypeOK, RequestOK
        <3>2. CASE NoChange
            BY <3>2 DEF Effects
        <3>3. CASE counted.current < Capacity /\ Put(d, form[u]) /\ UNCHANGED newer
            BY <3>1, <3>3, <2>2 DEF Effects, Inserts, CreateCommit
        <3> QED
            BY <2>2, <3>2, <3>3 DEF CreateCommit
    <2>3. ASSUME NEW d \in Docs, OpenForm(u, d) \/ RestoreCheck(u, d) \/ DeleteRead(u, d)
          PROVE Effects
        BY <2>3 DEF OpenForm, RestoreCheck, DeleteRead, ledger, NoChange, Effects
    <2>4. CASE SubmitEdit(u) \/ SubmitMove(u) \/ SubmitRevision(u) \/ RestoreRead(u) \/ RequestLost(u)
        BY <2>4 DEF SubmitEdit, SubmitMove, Submit, SubmitRevision, RestoreRead, RequestLost,
            ledger, NoChange, Effects
    <2>5. ASSUME NEW i \in Idents, EditCommit(u, i) PROVE Effects
        <3>1. PICK d \in on[u] : LET row == [doc[d] EXCEPT !.ident = i, !.place = rows[u][d].place,
                                                           !.version = NextVersion(@)]
                                 IN  \/ AsFormShowed(u, d) /\ Permitted(d, row) /\ Put(d, row)
                                            /\ UNCHANGED newer
                                     \/ NoChange
            BY <2>5 DEF EditCommit
        <3> DEFINE row == [doc[d] EXCEPT !.ident = i, !.place = rows[u][d].place,
                                         !.version = NextVersion(@)]
        <3>2. d \in Docs /\ row \in Row
            <4>1. d \in Docs /\ doc[d] \in Row /\ rows[u][d] \in Row
                BY <2>0 DEF TypeOK
            <4> QED BY <4>1, RowChanged
        <3>3. CASE NoChange
            BY <3>3 DEF Effects
        <3>4. CASE AsFormShowed(u, d) /\ Permitted(d, row) /\ Put(d, row) /\ UNCHANGED newer
            <4>1. Changes(d, row)
                BY <3>2, <3>4 DEF Changes, AsFormShowed, Permitted, Exists, NextVersion, TypeOK, Row
            <4> QED BY <4>1, <3>2 DEF Effects
        <3> QED
            BY <3>1, <3>3, <3>4
    <2>6. ASSUME NEW p \in Places, MoveCommit(u, p) PROVE Effects
        <3>1. PICK d \in on[u] : LET row == [doc[d] EXCEPT !.place = p, !.version = NextVersion(@)]
                                 IN  \/ AsFormShowed(u, d) /\ Put(d, row) /\ UNCHANGED newer
                                     \/ NoChange
            BY <2>6 DEF MoveCommit
        <3> DEFINE row == [doc[d] EXCEPT !.place = p, !.version = NextVersion(@)]
        <3>2. d \in Docs /\ row \in Row
            <4>1. d \in Docs /\ doc[d] \in Row /\ rows[u][d] \in Row
                BY <2>0 DEF TypeOK
            <4> QED BY <4>1, RowChanged
        <3>3. CASE NoChange
            BY <3>3 DEF Effects
        <3>4. CASE AsFormShowed(u, d) /\ Put(d, row) /\ UNCHANGED newer
            <4>1. Changes(d, row)
                BY <3>2, <3>4 DEF Changes, AsFormShowed, NotRestored, Exists, NextVersion, TypeOK, Row
            <4> QED BY <4>1, <3>2 DEF Effects
        <3> QED
            BY <3>1, <3>3, <3>4
    <2>7. ASSUME NEW n \in Docs, NEW i \in Idents, ReviseCommit(u, n, i) PROVE Effects
        <3>1. PICK d \in on[u] :
                \/ /\ Replaceable(u, d) /\ counted.current < Capacity
                   /\ doc' = [doc EXCEPT ![n] = Revised(d, i), ![d] = Superseded(d)]
                   /\ newer' = [newer EXCEPT ![d] = n]
                   /\ counted' = [current |-> counted.current + 1, active |-> counted.active,
                                  disposed |-> counted.disposed + 1]
                   /\ NextEdition
                \/ NoChange
            BY <2>7 DEF ReviseCommit
        <3>2. d \in Docs /\ doc[n].standing = "none"
            BY <2>7 DEF TypeOK, ReviseCommit
        <3>3. NoChange \/ Replaces(d, n, i)
            BY <3>1, <3>2 DEF Replaces, Replaceable, AsFormShowed
        <3> QED
            BY <3>2, <3>3 DEF Effects
    <2>8. ASSUME NEW D \in SUBSET Docs, DisposeRead(u, D) PROVE Effects
        BY <2>8 DEF DisposeRead, ledger, NoChange, Effects
    <2>9. CASE DisposeCommit(u)
        <3> DEFINE D == {d \in on[u] : AsRead(u, d)}
        <3>1. D \in SUBSET Docs /\ \A d \in D : doc[d].standing = "active"
            BY <2>9 DEF DisposeCommit, TypeOK, RequestOK, AsRead
        <3>2. NoChange \/ Closes(D)
            <4> HIDE DEF D
            <4> QED BY <2>9, <3>1 DEF DisposeCommit, NoChange, Closes, D
        <3> QED
            BY <3>1, <3>2 DEF Effects
    <2>10. CASE RestoreCommit(u)
        <3>1. PICK d \in on[u] : LET row == [doc[d] EXCEPT !.standing = "active", !.version = NextVersion(@)]
                                 IN  \/ AsRead(u, d) /\ Permitted(d, row) /\ Put(d, row)
                                            /\ UNCHANGED newer
                                     \/ NoChange
            BY <2>10 DEF RestoreCommit
        <3> DEFINE row == [doc[d] EXCEPT !.standing = "active", !.version = NextVersion(@)]
        <3>2. d \in Docs /\ row \in Row
            <4>1. d \in Docs /\ doc[d] \in Row /\ rows[u][d] \in Row
                BY <2>0 DEF TypeOK
            <4> QED BY <4>1, RowChanged
        <3>3. CASE NoChange
            BY <3>3 DEF Effects
        <3>4. CASE AsRead(u, d) /\ Permitted(d, row) /\ Put(d, row) /\ UNCHANGED newer
            <4>1. doc[d].standing = "disposed"
                BY <3>4, <2>10 DEF AsRead, RestoreCommit, RequestOK
            <4>2. Changes(d, row)
                BY <3>2, <3>4, <4>1 DEF Changes, Permitted, Exists, NextVersion, TypeOK, Row
            <4> QED BY <4>2, <3>2 DEF Effects
        <3> QED
            BY <3>1, <3>3, <3>4
    <2>11. CASE DeleteCommit(u)
        <3>1. PICK d \in on[u] : \/ AsRead(u, d) /\ ~Linked(d) /\ Put(d, Gone) /\ UNCHANGED newer
                                 \/ NoChange
            BY <2>11 DEF DeleteCommit, Gone
        <3>2. d \in Docs /\ rows[u][d].standing = "disposed"
            BY <2>11 DEF TypeOK, RequestOK, DeleteCommit
        <3>3. NoChange \/ Deletes(d)
            BY <3>1, <3>2 DEF Deletes, AsRead, Exists
        <3> QED
            BY <3>2, <3>3 DEF Effects
    <2> QED
        BY <1>1, <2>1, <2>2, <2>3, <2>4, <2>5, <2>6, <2>7, <2>8, <2>9, <2>10, <2>11
        DEF DocumentRequest
<1>2. ASSUME NEW p \in Places, ToggleUse(p) PROVE Effects
    BY <1>2 DEF ToggleUse, NoChange, Effects
<1> QED
    BY <1>1, <1>2 DEF Next

-----------------------------------------------------------------------------
(* How rows evolve *)

\* A row is left alone, created with version 1, given the next version, or ended.
Evolves(d) ==
    \/ doc'[d] = doc[d]
    \/ doc[d].standing = "none" /\ Exists(d)' /\ doc'[d].version = 1
    \/ Exists(d) /\ Exists(d)' /\ doc'[d].version = doc[d].version + 1
    \/ Exists(d) /\ doc'[d] = Gone

TableTyped ==
    /\ doc \in [Docs -> Row]
    /\ newer \in [Docs -> Docs \cup {NoDoc}]
    /\ edition \in 1..MaxEdition
    /\ counted \in [current : Int, active : Int, disposed : Int]

LEMMA NextEditionTyped == TypeOK /\ NextEdition => edition' \in 1..MaxEdition
BY LedgerAssumption DEF TypeOK, NextEdition

\* A statement on one row.
LEMMA PutTyped ==
    ASSUME TypeOK, NEW d \in Docs, NEW row \in Row, Put(d, row), UNCHANGED newer
    PROVE  TableTyped' /\ doc'[d] = row /\ \A e \in Docs \ {d} : doc'[e] = doc[e]
<1>1. doc' \in [Docs -> Row] /\ doc'[d] = row /\ \A e \in Docs \ {d} : doc'[e] = doc[e]
    BY DEF Put, TypeOK
<1>2. counted' \in [current : Int, active : Int, disposed : Int]
    BY DEF Put, Recounted, In, TypeOK
<1>3. newer' \in [Docs -> Docs \cup {NoDoc}] /\ edition' \in 1..MaxEdition
    BY NextEditionTyped DEF Put, TypeOK
<1> QED
    BY <1>1, <1>2, <1>3 DEF TableTyped

LEMMA EffectsEvolve ==
    ASSUME LedgerInv, Effects
    PROVE  TableTyped' /\ \A d \in Docs : Evolves(d) /\ RowOK(d)'
<1>0. TypeOK /\ \A d \in Docs : RowOK(d)
    BY DEF LedgerInv
<1>1. CASE NoChange
    BY <1>0, <1>1 DEF NoChange, TypeOK, TableTyped, Evolves, RowOK, Exists
<1>2. ASSUME NEW d \in Docs, NEW row \in Row, Inserts(d, row)
      PROVE  TableTyped' /\ \A e \in Docs : Evolves(e) /\ RowOK(e)'
    <2>1. TableTyped' /\ doc'[d] = row /\ \A e \in Docs \ {d} : doc'[e] = doc[e]
        BY <1>0, <1>2, PutTyped DEF Inserts
    <2> QED
        BY <1>0, <1>2, <2>1 DEF Inserts, Evolves, RowOK, Exists
<1>3. ASSUME NEW d \in Docs, NEW row \in Row, Changes(d, row)
      PROVE  TableTyped' /\ \A e \in Docs : Evolves(e) /\ RowOK(e)'
    <2>1. TableTyped' /\ doc'[d] = row /\ \A e \in Docs \ {d} : doc'[e] = doc[e]
        BY <1>0, <1>3, PutTyped DEF Changes
    <2>2. doc[d].version \in Nat
        BY <1>0, RowChanged DEF TypeOK
    <2> QED
        BY <1>0, <1>3, <2>1, <2>2 DEF Changes, Evolves, RowOK, Exists
<1>4. ASSUME NEW d \in Docs, Deletes(d)
      PROVE  TableTyped' /\ \A e \in Docs : Evolves(e) /\ RowOK(e)'
    <2>1. TableTyped' /\ doc'[d] = Gone /\ \A e \in Docs \ {d} : doc'[e] = doc[e]
        BY <1>0, <1>4, PutTyped, GoneIsRow DEF Deletes
    <2> QED
        BY <1>0, <1>4, <2>1, GoneIsRow DEF Deletes, Evolves, RowOK, Exists
<1>5. ASSUME NEW d \in Docs, NEW n \in Docs, NEW i \in Idents, Replaces(d, n, i)
      PROVE  TableTyped' /\ \A e \in Docs : Evolves(e) /\ RowOK(e)'
    <2>1. d # n /\ doc[d] \in Row /\ doc[d].version \in Nat
        BY <1>0, <1>5, RowChanged DEF Replaces, TypeOK
    <2>2. Revised(d, i) \in Row /\ Superseded(d) \in Row
        BY <2>1, RowChanged DEF Revised, Superseded
    <2>3. /\ doc' \in [Docs -> Row]
          /\ doc'[n] = Revised(d, i) /\ doc'[d] = Superseded(d)
          /\ \A e \in Docs \ {d, n} : doc'[e] = doc[e]
        BY <1>0, <1>5, <2>1, <2>2 DEF Replaces, TypeOK
    <2>4. TableTyped'
        <3>1. counted' \in [current : Int, active : Int, disposed : Int]
            BY <1>0, <1>5 DEF Replaces, TypeOK
        <3>2. newer' \in [Docs -> Docs \cup {NoDoc}]
            BY <1>0, <1>5 DEF Replaces, TypeOK
        <3> QED
            BY <1>0, <1>5, <2>3, <3>1, <3>2, NextEditionTyped DEF Replaces, TableTyped
    <2>5. /\ Revised(d, i).standing = "active" /\ Revised(d, i).version = 1
          /\ Superseded(d).standing = "disposed" /\ Superseded(d).version = doc[d].version + 1
        BY <1>5, <2>1 DEF Revised, Superseded, Replaces, Row, NextVersion
    <2> QED
        BY <1>0, <1>5, <2>1, <2>3, <2>4, <2>5 DEF Replaces, Evolves, RowOK, Exists
<1>6. ASSUME NEW D \in SUBSET Docs, Closes(D)
      PROVE  TableTyped' /\ \A e \in Docs : Evolves(e) /\ RowOK(e)'
    <2>1. ASSUME NEW d \in D
          PROVE  /\ doc'[d] = [doc[d] EXCEPT !.standing = "disposed", !.version = NextVersion(@)]
                 /\ doc'[d] \in Row
                 /\ doc'[d].standing = "disposed" /\ doc'[d].listed = doc[d].listed
                 /\ doc[d].version \in Nat /\ doc'[d].version = doc[d].version + 1
        <3>1. doc[d] \in Row
            BY <1>0 DEF TypeOK
        <3>2. doc'[d] = [doc[d] EXCEPT !.standing = "disposed", !.version = NextVersion(@)]
            BY <1>6 DEF Closes
        <3>3. doc'[d] \in Row /\ doc[d].version \in Nat
            BY <3>1, <3>2, RowChanged
        <3> QED
            BY <3>1, <3>2, <3>3 DEF Row, NextVersion
    <2>2. \A d \in Docs \ D : doc'[d] = doc[d]
        BY <1>6 DEF Closes
    <2>3. doc' \in [Docs -> Row]
        BY <1>0, <1>6, <2>1, <2>2 DEF Closes, TypeOK
    <2>4. D \cap Listed \in SUBSET Docs /\ Cardinality(D \cap Listed) \in Nat
        BY LedgerAssumption, FS_Subset, FS_CardinalityType
    <2>5. TableTyped'
        <3>1. PICK n \in Nat : counted' = [current |-> counted.current,
                                              active |-> counted.active - n,
                                              disposed |-> counted.disposed + n]
            BY <1>6, <2>4 DEF Closes
        <3>2. counted' \in [current : Int, active : Int, disposed : Int]
            BY <1>0, <3>1 DEF TypeOK
        <3> QED
            BY <1>0, <1>6, <2>3, <3>2, NextEditionTyped DEF Closes, TableTyped, TypeOK
    <2>6. ASSUME NEW e \in Docs PROVE Evolves(e) /\ RowOK(e)'
        <3>1. CASE e \in D
            <4>1. doc[e].standing = "active"
                BY <1>6, <3>1 DEF Closes
            <4>2. /\ doc'[e].standing = "disposed" /\ doc'[e].listed = doc[e].listed
                  /\ doc[e].version \in Nat /\ doc'[e].version = doc[e].version + 1
                BY <2>1, <3>1
            <4>3. RowOK(e)
                BY <1>0
            <4> QED
                BY <4>1, <4>2, <4>3 DEF Evolves, RowOK, Exists
        <3>2. CASE e \notin D
            BY <1>0, <2>2, <3>2 DEF Evolves, RowOK, Exists
        <3> QED
            BY <3>1, <3>2
    <2> QED
        BY <2>5, <2>6
<1> QED
    BY <1>1, <1>2, <1>3, <1>4, <1>5, <1>6 DEF Effects

-----------------------------------------------------------------------------
(* What the requests know *)

LEMMA ComparableStays ==
    ASSUME LedgerInv, NEW d \in Docs, NEW row \in Row, Evolves(d), Comparable(row, doc[d])
    PROVE  Comparable(row, doc'[d])
<1>1. doc[d] \in Row /\ RowOK(d) /\ row.version \in Nat /\ doc[d].version \in Nat
    BY RowChanged DEF LedgerInv, TypeOK
<1>2. Gone.version = 0 /\ Gone.standing = "deleted"
    BY GoneIsRow
<1> QED
    BY <1>1, <1>2 DEF Comparable, Evolves, RowOK, Exists

RequestTyped(u) ==
    /\ pc[u] \in {"idle", "create", "form", "edit", "move", "revise", "dispose", "check",
                  "restore", "delete"}
    /\ on[u] \in SUBSET Docs
    /\ form[u] \in Row
    /\ rows[u] \in [Docs -> Row]

\* A request that does not take the step keeps what it knows.
Rests(v) == pc'[v] = pc[v] /\ on'[v] = on[v] /\ form'[v] = form[v] /\ rows'[v] = rows[v]

LEMMA OthersRest ==
    ASSUME LedgerInv, NEW v \in Users, Rests(v), \A d \in Docs : Evolves(d)
    PROVE  RequestOK(v)' /\ RequestTyped(v)'
<1>1. RequestOK(v) /\ RequestTyped(v)
    BY DEF LedgerInv, TypeOK, RequestTyped
<1>2. ASSUME NEW d \in on[v], Comparable(form[v], doc[d]) PROVE Comparable(form[v], doc'[d])
    BY <1>1, <1>2, ComparableStays DEF RequestTyped
<1>3. ASSUME NEW d \in on[v], Comparable(rows[v][d], doc[d]) PROVE Comparable(rows[v][d], doc'[d])
    BY <1>1, <1>3, ComparableStays DEF RequestTyped
<1>4. \A d \in on[v] : /\ Comparable(form[v], doc[d]) => Comparable(form'[v], doc'[d])
                       /\ Comparable(rows[v][d], doc[d]) => Comparable(rows'[v][d], doc'[d])
    BY <1>2, <1>3 DEF Rests
<1> QED
    BY <1>1, <1>4 DEF Rests, RequestOK, RequestTyped

\* The steps of request u, as far as its own state goes.
Starts(u) ==
    /\ \E i \in Idents, p \in Places : form'[u] = NewRow(i, p)
    /\ pc'[u] = "create" /\ pc[u] = "idle" /\ on'[u] = on[u] /\ rows'[u] = rows[u]
Opens(u) ==
    \E d \in Docs :
        /\ doc[d].standing = "active" /\ form'[u] = doc[d]
        /\ pc'[u] = "form" /\ on'[u] = {d} /\ rows'[u] = rows[u]
Submits(u) ==
    \E d \in on[u] :
        /\ pc[u] = "form" /\ doc[d].standing = "active"
        /\ pc'[u] \in {"edit", "move", "revise"} /\ on'[u] = {d} /\ form'[u] = form[u]
        /\ rows'[u] = [e \in Docs |-> IF e \in {d} THEN doc[e] ELSE NoRow]
Reads(u) ==
    \E D \in SUBSET Docs :
        /\ form'[u] = form[u] /\ on'[u] = D
        /\ rows'[u] = [e \in Docs |-> IF e \in D THEN doc[e] ELSE NoRow]
        /\ \A d \in D : Exists(d)
        /\ \/ pc'[u] = "dispose" /\ \A d \in D : doc[d].standing = "active"
           \/ pc'[u] = "check"
           \/ pc'[u] \in {"restore", "delete"} /\ \A d \in D : doc[d].standing = "disposed"
Ends(u) == pc'[u] = "idle" /\ on'[u] = {} /\ form'[u] = NoRow /\ rows'[u] = [d \in Docs |-> NoRow]

RequestActs(u) ==
    \/ UNCHANGED ledger /\ (Starts(u) \/ Opens(u) \/ Submits(u) \/ Reads(u))
    \/ Ends(u)

LEMMA RequestSteps ==
    ASSUME LedgerInv, NEW u \in Users, DocumentRequest(u)
    PROVE  RequestActs(u) /\ \A v \in Users \ {u} : Rests(v)
<1>0. TypeOK /\ on[u] \in SUBSET Docs
    BY DEF LedgerInv, TypeOK
<1>1. ASSUME NEW i \in Idents, NEW p \in Places, CreateCheck(u, i, p)
      PROVE  RequestActs(u) /\ \A v \in Users \ {u} : Rests(v)
    <2>1. form' = [form EXCEPT ![u] = NewRow(i, p)] /\ pc' = [pc EXCEPT ![u] = "create"]
          /\ pc[u] = "idle" /\ UNCHANGED <<ledger, on, rows>>
        BY <1>1 DEF CreateCheck
    <2>2. form'[u] = NewRow(i, p) /\ \A v \in Users \ {u} : form'[v] = form[v]
        BY <1>0, <2>1 DEF TypeOK
    <2>3. pc'[u] = "create" /\ \A v \in Users \ {u} : pc'[v] = pc[v]
        BY <1>0, <2>1 DEF TypeOK
    <2> QED
        BY <2>1, <2>2, <2>3 DEF RequestActs, Starts, Rests
<1>2. ASSUME NEW d \in Docs, OpenForm(u, d)
      PROVE  RequestActs(u) /\ \A v \in Users \ {u} : Rests(v)
    BY <1>0, <1>2 DEF OpenForm, TypeOK, RequestActs, Opens, Rests
<1>3. ASSUME Done(u)
      PROVE  RequestActs(u) /\ \A v \in Users \ {u} : Rests(v)
    BY <1>0, <1>3 DEF Done, NoRows, TypeOK, RequestActs, Ends, Rests
<1>4. ASSUME NEW D \in SUBSET Docs, NEW a, Goto(u, a, D), UNCHANGED form
      PROVE  /\ pc'[u] = a /\ on'[u] = D /\ form'[u] = form[u]
             /\ rows'[u] = [e \in Docs |-> IF e \in D THEN doc[e] ELSE NoRow]
             /\ \A v \in Users \ {u} : Rests(v)
    BY <1>0, <1>4 DEF Goto, TypeOK, Rests
<1>5. ASSUME NEW d \in on[u], NEW a \in {"edit", "move", "revise"}, pc[u] = "form",
             doc[d].standing = "active", Goto(u, a, {d}), UNCHANGED form, UNCHANGED ledger
      PROVE  RequestActs(u) /\ \A v \in Users \ {u} : Rests(v)
    <2>1. {d} \in SUBSET Docs
        BY <1>0
    <2> QED
        BY <1>4, <1>5, <2>1 DEF RequestActs, Submits
<1>6. CASE SubmitEdit(u) \/ SubmitMove(u)
    BY <1>3, <1>5, <1>6 DEF SubmitEdit, SubmitMove, Submit
<1>7. CASE SubmitRevision(u)
    BY <1>3, <1>5, <1>7 DEF SubmitRevision
<1>8. ASSUME NEW d \in Docs, RestoreCheck(u, d)
      PROVE  RequestActs(u) /\ \A v \in Users \ {u} : Rests(v)
    <2>1. {d} \in SUBSET Docs
        OBVIOUS
    <2> QED
        BY <1>4, <1>8, <2>1 DEF RestoreCheck, RequestActs, Reads
<1>9. CASE RestoreRead(u)
    <2>1. PICK d \in on[u] : IF doc[d].standing = "disposed"
                             THEN Goto(u, "restore", {d}) /\ UNCHANGED form ELSE Done(u)
        BY <1>9 DEF RestoreRead
    <2>2. {d} \in SUBSET Docs /\ UNCHANGED ledger
        BY <1>0, <1>9 DEF RestoreRead
    <2>3. CASE doc[d].standing = "disposed"
        BY <1>4, <2>1, <2>2, <2>3 DEF RequestActs, Reads, Exists
    <2> QED
        BY <1>3, <2>1, <2>3
<1>10. ASSUME NEW d \in Docs, DeleteRead(u, d)
       PROVE  RequestActs(u) /\ \A v \in Users \ {u} : Rests(v)
    <2>1. {d} \in SUBSET Docs
        OBVIOUS
    <2> QED
        BY <1>4, <1>10, <2>1 DEF DeleteRead, RequestActs, Reads, Exists
<1>11. ASSUME NEW D \in SUBSET Docs, DisposeRead(u, D)
       PROVE  RequestActs(u) /\ \A v \in Users \ {u} : Rests(v)
    <2>1. /\ \A d \in D : Exists(d) /\ doc[d].standing = "active"
          /\ UNCHANGED ledger /\ UNCHANGED form /\ Goto(u, "dispose", D)
        BY <1>11 DEF DisposeRead, Exists
    <2> QED
        BY <1>4, <2>1 DEF RequestActs, Reads
<1>12. ASSUME \/ \E d \in Docs : CreateCommit(u, d)
              \/ \E i \in Idents : EditCommit(u, i)
              \/ \E p \in Places : MoveCommit(u, p)
              \/ \E n \in Docs, i \in Idents : ReviseCommit(u, n, i)
              \/ DisposeCommit(u) \/ RestoreCommit(u) \/ DeleteCommit(u) \/ RequestLost(u)
       PROVE  Done(u)
    BY <1>12 DEF CreateCommit, EditCommit, MoveCommit, ReviseCommit, DisposeCommit, RestoreCommit,
        DeleteCommit, RequestLost
<1> QED
    BY <1>1, <1>2, <1>3, <1>6, <1>7, <1>8, <1>9, <1>10, <1>11, <1>12 DEF DocumentRequest

LEMMA ActorKnows ==
    ASSUME LedgerInv, NEW u \in Users, RequestActs(u), \A d \in Docs : Evolves(d)
    PROVE  RequestOK(u)' /\ RequestTyped(u)'
<1>0. /\ RequestOK(u) /\ RequestTyped(u)
      /\ \A d \in Docs : doc[d] \in Row /\ RowOK(d) /\ doc[d].version \in Nat
      /\ NoRow \in Row
    BY RowChanged, GoneIsRow DEF LedgerInv, TypeOK, RequestTyped
<1>1. ASSUME UNCHANGED ledger, NEW d \in Docs, Exists(d)
      PROVE  Comparable(doc[d], doc'[d])
    BY <1>0, <1>1 DEF ledger, Comparable, Exists, RowOK
<1>2. CASE UNCHANGED ledger /\ Starts(u)
    <2>1. PICK i \in Idents, p \in Places : form'[u] = NewRow(i, p)
        BY <1>2 DEF Starts
    <2>2. /\ form'[u] \in Row
          /\ form'[u].standing = "active" /\ form'[u].listed /\ form'[u].version = 1
        BY <2>1 DEF NewRow, Row
    <2> QED
        BY <1>0, <1>2, <2>2 DEF Starts, RequestOK, RequestTyped
<1>3. CASE UNCHANGED ledger /\ Opens(u)
    <2>1. PICK d \in Docs : /\ doc[d].standing = "active" /\ form'[u] = doc[d]
                            /\ pc'[u] = "form" /\ on'[u] = {d} /\ rows'[u] = rows[u]
        BY <1>3 DEF Opens
    <2>2. Comparable(form'[u], doc'[d])
        BY <1>1, <1>3, <2>1 DEF Exists, Comparable, ledger
    <2> QED
        BY <1>0, <2>1, <2>2 DEF RequestOK, RequestTyped
<1>4. CASE UNCHANGED ledger /\ Submits(u)
    <2>1. PICK d \in on[u] : /\ pc[u] = "form" /\ doc[d].standing = "active"
                             /\ pc'[u] \in {"edit", "move", "revise"} /\ on'[u] = {d}
                             /\ form'[u] = form[u]
                             /\ rows'[u] = [e \in Docs |-> IF e \in {d} THEN doc[e] ELSE NoRow]
        BY <1>4 DEF Submits
    <2>2. d \in Docs /\ rows'[u] \in [Docs -> Row] /\ rows'[u][d] = doc[d]
        BY <1>0, <2>1 DEF RequestTyped
    <2>3. Comparable(form[u], doc[d]) /\ form[u].version <= rows'[u][d].version
        BY <1>0, <2>1, <2>2 DEF RequestOK, Comparable
    <2>4. Comparable(rows'[u][d], doc'[d]) /\ Comparable(form'[u], doc'[d])
        BY <1>1, <1>4, <2>1, <2>2, <2>3 DEF Exists, Comparable, ledger
    <2> QED
        BY <1>0, <2>1, <2>2, <2>3, <2>4 DEF RequestOK, RequestTyped
<1>5. CASE UNCHANGED ledger /\ Reads(u)
    <2>1. PICK D \in SUBSET Docs :
            /\ form'[u] = form[u] /\ on'[u] = D
            /\ rows'[u] = [e \in Docs |-> IF e \in D THEN doc[e] ELSE NoRow]
            /\ \A d \in D : Exists(d)
            /\ \/ pc'[u] = "dispose" /\ \A d \in D : doc[d].standing = "active"
               \/ pc'[u] = "check"
               \/ pc'[u] \in {"restore", "delete"} /\ \A d \in D : doc[d].standing = "disposed"
        BY <1>5 DEF Reads
    <2>2. rows'[u] \in [Docs -> Row] /\ \A d \in D : rows'[u][d] = doc[d]
        BY <1>0, <2>1
    <2>3. \A d \in D : Comparable(rows'[u][d], doc'[d])
        BY <1>1, <1>5, <2>1, <2>2 DEF Comparable, ledger
    <2> QED
        BY <1>0, <2>1, <2>2, <2>3 DEF RequestOK, RequestTyped
<1>6. CASE Ends(u)
    BY <1>0, <1>6 DEF Ends, RequestOK, RequestTyped
<1> QED
    BY <1>2, <1>3, <1>4, <1>5, <1>6 DEF RequestActs

-----------------------------------------------------------------------------
(* The invariant *)

LEMMA PlacesTyped ==
    ASSUME usable \subseteq Places, Next
    PROVE  usable' \subseteq Places
<1>1. ASSUME NEW u \in Users, DocumentRequest(u) PROVE usable' = usable
    BY <1>1 DEF DocumentRequest, CreateCheck, CreateCommit, OpenForm, RestoreCheck, DeleteRead,
        SubmitEdit, SubmitMove, Submit, SubmitRevision, EditCommit, MoveCommit, ReviseCommit,
        DisposeRead, DisposeCommit, RestoreRead, RestoreCommit, DeleteCommit, RequestLost, ledger
<1>2. ASSUME NEW p \in Places, ToggleUse(p) PROVE usable' \subseteq Places
    BY <1>2 DEF ToggleUse
<1> QED
    BY <1>1, <1>2 DEF Next

\* The functions of the requests are those of their types.
LEMMA RequestsTyped ==
    ASSUME TypeOK, Next \/ UNCHANGED vars, \A u \in Users : RequestTyped(u)'
    PROVE  /\ pc' \in [Users -> {"idle", "create", "form", "edit", "move", "revise", "dispose",
                                 "check", "restore", "delete"}]
           /\ on' \in [Users -> SUBSET Docs]
           /\ form' \in [Users -> Row]
           /\ rows' \in [Users -> [Docs -> Row]]
<1>1. ASSUME NEW u \in Users, DocumentRequest(u)
      PROVE  /\ pc' = [v \in Users |-> pc'[v]] /\ on' = [v \in Users |-> on'[v]]
             /\ form' = [v \in Users |-> form'[v]] /\ rows' = [v \in Users |-> rows'[v]]
    <2>1. ASSUME NEW a, NEW D, Goto(u, a, D)
          PROVE  /\ pc' = [v \in Users |-> pc'[v]] /\ on' = [v \in Users |-> on'[v]]
                 /\ rows' = [v \in Users |-> rows'[v]]
        BY <2>1 DEF Goto, TypeOK
    <2>2. ASSUME Done(u)
          PROVE  /\ pc' = [v \in Users |-> pc'[v]] /\ on' = [v \in Users |-> on'[v]]
                 /\ form' = [v \in Users |-> form'[v]] /\ rows' = [v \in Users |-> rows'[v]]
        BY <2>2 DEF Done, TypeOK
    <2>3. ASSUME UNCHANGED form PROVE form' = [v \in Users |-> form'[v]]
        BY <2>3 DEF TypeOK
    <2>4. ASSUME NEW i \in Idents, NEW p \in Places, CreateCheck(u, i, p)
          PROVE  /\ pc' = [v \in Users |-> pc'[v]] /\ on' = [v \in Users |-> on'[v]]
                 /\ form' = [v \in Users |-> form'[v]] /\ rows' = [v \in Users |-> rows'[v]]
        BY <2>4 DEF CreateCheck, TypeOK
    <2>5. ASSUME NEW d \in Docs, OpenForm(u, d)
          PROVE  /\ pc' = [v \in Users |-> pc'[v]] /\ on' = [v \in Users |-> on'[v]]
                 /\ form' = [v \in Users |-> form'[v]] /\ rows' = [v \in Users |-> rows'[v]]
        BY <2>5 DEF OpenForm, TypeOK
    <2>6. CASE SubmitEdit(u) \/ SubmitMove(u) \/ SubmitRevision(u) \/ RestoreRead(u)
        BY <2>1, <2>2, <2>3, <2>6 DEF SubmitEdit, SubmitMove, Submit, SubmitRevision, RestoreRead
    <2>7. CASE \/ \E d \in Docs : RestoreCheck(u, d) \/ DeleteRead(u, d)
               \/ \E D \in SUBSET Docs : DisposeRead(u, D)
        BY <2>1, <2>3, <2>7 DEF RestoreCheck, DeleteRead, DisposeRead
    <2> QED
        BY <1>1, <2>2, <2>4, <2>5, <2>6, <2>7 DEF DocumentRequest, CreateCommit, EditCommit,
            MoveCommit, ReviseCommit, DisposeCommit, RestoreCommit, DeleteCommit, RequestLost
<1>2. CASE UNCHANGED requests
    BY <1>2 DEF requests, TypeOK
<1>3. \/ /\ pc' = [v \in Users |-> pc'[v]] /\ on' = [v \in Users |-> on'[v]]
         /\ form' = [v \in Users |-> form'[v]] /\ rows' = [v \in Users |-> rows'[v]]
      \/ UNCHANGED requests
    BY <1>1 DEF Next, ToggleUse, vars, requests
<1> QED
    BY <1>2, <1>3 DEF RequestTyped

LEMMA LedgerInit == Init => LedgerInv
<1> SUFFICES ASSUME Init PROVE LedgerInv
    OBVIOUS
<1>1. ASSUME NEW d \in Docs PROVE doc[d] \in Row /\ RowOK(d)
    <2>1. CASE doc[d] = NoRow
        BY <2>1, GoneIsRow DEF NoRow, RowOK, Exists
    <2>2. CASE doc[d] \in [standing : {"active"}, listed : BOOLEAN, ident : Idents,
                           place : Places, version : {1}]
        BY <2>2 DEF Row, RowOK, Exists
    <2> QED
        BY <1>1, <2>1, <2>2 DEF Init
<1>2. ASSUME NEW P \in SUBSET Docs PROVE Cardinality(P) \in Int
    BY LedgerAssumption, FS_Subset, FS_CardinalityType
<1>3. Count(doc) \in [current : Int, active : Int, disposed : Int]
    <2>1. /\ Cardinality({d \in Docs : doc[d].listed}) \in Int
          /\ Cardinality({d \in Docs : doc[d].listed /\ doc[d].standing = "active"}) \in Int
          /\ Cardinality({d \in Docs : doc[d].listed /\ doc[d].standing = "disposed"}) \in Int
        BY <1>2
    <2> QED
        BY <2>1 DEF Count
<1>4. TypeOK
    BY <1>1, <1>3, GoneIsRow, LedgerAssumption DEF Init, TypeOK, NoRows
<1>5. \A u \in Users : RequestOK(u)
    BY DEF Init, RequestOK
<1> QED
    BY <1>1, <1>4, <1>5 DEF LedgerInv

LEMMA LedgerStep == LedgerInv /\ [Next]_vars => LedgerInv'
<1> SUFFICES ASSUME LedgerInv, [Next]_vars PROVE LedgerInv'
    OBVIOUS
<1>0. TypeOK
    BY DEF LedgerInv
<1>1. Effects
    BY StepEffects DEF vars, Effects, NoChange
<1>2. TableTyped' /\ \A d \in Docs : Evolves(d) /\ RowOK(d)'
    BY <1>1, EffectsEvolve
<1>3. ASSUME NEW u \in Users PROVE RequestOK(u)' /\ RequestTyped(u)'
    <2>1. CASE \E v \in Users : DocumentRequest(v)
        BY <1>2, <2>1, RequestSteps, ActorKnows, OthersRest
    <2>2. CASE UNCHANGED requests
        BY <1>2, <2>2, OthersRest DEF requests, Rests
    <2> QED
        BY <2>1, <2>2 DEF Next, ToggleUse, vars, requests
<1>4. usable' \subseteq Places
    BY <1>0, PlacesTyped DEF TypeOK, vars
<1>5. TypeOK'
    BY <1>0, <1>2, <1>3, <1>4, RequestsTyped DEF TypeOK, TableTyped
<1> QED
    BY <1>2, <1>3, <1>5 DEF LedgerInv

\* Every reachable state of the ledger and its requests is well typed, a row in the
\* ledger is one of a document that exists, and what a request has read of a document
\* is the row of the table or an older version of it.
THEOREM LedgerCorrect == Spec => []LedgerInv
BY LedgerInit, LedgerStep, PTL DEF Spec

-----------------------------------------------------------------------------
(* The revision history *)

\* What Effects do to the history.  A new revision is a new document, so nothing
\* precedes it; a replaced document is neither restored nor deleted.
LEMMA HistoryStep == LedgerInv /\ HistoryStands /\ Effects => HistoryStands'
<1> SUFFICES ASSUME LedgerInv, HistoryStands, Effects PROVE HistoryStands'
    OBVIOUS
<1>0. /\ \A d \in Docs : doc[d] \in Row /\ newer[d] \in Docs \cup {NoDoc}
      /\ doc \in [Docs -> Row] /\ newer \in [Docs -> Docs \cup {NoDoc}]
      /\ NoDoc \notin Docs /\ TypeOK
    BY LedgerAssumption DEF LedgerInv, TypeOK
<1>1. CASE NoChange
    BY <1>1 DEF NoChange, HistoryStands, Exists
<1>2. ASSUME NEW d \in Docs, NEW row \in Row, Inserts(d, row) PROVE HistoryStands'
    <2>1. doc'[d] = row /\ \A e \in Docs \ {d} : doc'[e] = doc[e]
        BY <1>0, <1>2, PutTyped DEF Inserts
    <2> QED
        BY <1>0, <1>2, <2>1 DEF Inserts, HistoryStands, Exists
<1>3. ASSUME NEW d \in Docs, NEW row \in Row, Changes(d, row) PROVE HistoryStands'
    <2>1. doc'[d] = row /\ \A e \in Docs \ {d} : doc'[e] = doc[e]
        BY <1>0, <1>3, PutTyped DEF Changes
    <2> QED
        BY <1>0, <1>3, <2>1 DEF Changes, NotRestored, HistoryStands, Exists
<1>4. ASSUME NEW d \in Docs, Deletes(d) PROVE HistoryStands'
    <2>1. doc'[d] = Gone /\ \A e \in Docs \ {d} : doc'[e] = doc[e]
        BY <1>0, <1>4, PutTyped, GoneIsRow DEF Deletes
    <2> QED
        BY <1>0, <1>4, <2>1 DEF Deletes, Linked, HistoryStands, Exists
<1>5. ASSUME NEW d \in Docs, NEW n \in Docs, NEW i \in Idents, Replaces(d, n, i)
      PROVE  HistoryStands'
    <2>1. d # n /\ doc'[n] = Revised(d, i) /\ doc'[d] = Superseded(d)
          /\ \A e \in Docs \ {d, n} : doc'[e] = doc[e]
        BY <1>0, <1>5 DEF Replaces
    <2>2. doc'[n].standing = "active" /\ doc'[d].standing = "disposed"
        BY <1>0, <1>5, <2>1 DEF Replaces, Revised, Superseded, Row
    <2>3. newer'[d] = n /\ \A e \in Docs \ {d} : newer'[e] = newer[e]
        BY <1>0, <1>5 DEF Replaces
    <2> QED
        BY <1>0, <1>5, <2>1, <2>2, <2>3 DEF Replaces, HistoryStands, Exists
<1>6. ASSUME NEW D \in SUBSET Docs, Closes(D) PROVE HistoryStands'
    <2>1. \A d \in D : doc'[d].standing = "disposed"
        BY <1>0, <1>6 DEF Closes, Row
    <2>2. \A d \in Docs \ D : doc'[d] = doc[d]
        BY <1>6 DEF Closes
    <2> QED
        BY <1>0, <1>6, <2>1, <2>2 DEF Closes, HistoryStands, Exists
<1> QED
    BY <1>1, <1>2, <1>3, <1>4, <1>5, <1>6 DEF Effects

\* A document that a revision replaces is disposed of and stays so, no revision
\* replaces two documents and none of them is deleted, whatever requests race
\* (reviseDocument, restoreDocument, permanentlyDeleteDocument).
THEOREM HistoryCorrect == Spec => []HistoryStands
<1>1. Init => HistoryStands
    BY LedgerAssumption DEF Init, HistoryStands
<1>2. LedgerInv /\ HistoryStands /\ [Next]_vars => HistoryStands'
    BY StepEffects, HistoryStep DEF vars, Effects, NoChange
<1> QED
    BY <1>1, <1>2, LedgerCorrect, PTL DEF Spec

-----------------------------------------------------------------------------
(* No lost update *)

LEMMA UpdateIsKnowing ==
    ASSUME LedgerInv, Next, NEW u \in Users, NEW d \in on[u],
           pc[u] \in {"edit", "move", "revise"}, pc'[u] = "idle", doc'[d] # doc[d]
    PROVE  doc[d] = form[u] /\ (pc[u] = "edit" => doc'[d].place = form[u].place)
<1>0. TypeOK /\ RequestOK(u) /\ d \in Docs /\ doc[d] \in Row /\ form[u] \in Row
        /\ rows[u][d] \in Row
    BY DEF LedgerInv, TypeOK
<1>1. /\ Comparable(form[u], doc[d]) /\ Comparable(rows[u][d], doc[d])
      /\ form[u].version <= rows[u][d].version
      /\ form[u].version \in Nat /\ rows[u][d].version \in Nat /\ doc[d].version \in Nat
    BY <1>0, RowChanged DEF RequestOK
<1>2. ASSUME AsFormShowed(u, d)
      PROVE  doc[d] = form[u] /\ doc[d] = rows[u][d]
    BY <1>1, <1>2 DEF AsFormShowed, Comparable
<1>3. DocumentRequest(u)
    <2>1. ASSUME NEW v \in Users \ {u}, DocumentRequest(v) PROVE FALSE
        BY <2>1, RequestSteps DEF Rests
    <2>2. ASSUME NEW p \in Places, ToggleUse(p) PROVE FALSE
        BY <2>2 DEF ToggleUse
    <2> QED
        BY <2>1, <2>2 DEF Next
<1>4. ASSUME NEW i \in Idents, EditCommit(u, i)
      PROVE  doc[d] = form[u] /\ doc'[d].place = form[u].place
    <2>1. PICK e \in on[u] :
            /\ AsFormShowed(u, e)
            /\ doc' = [doc EXCEPT ![e] = [doc[e] EXCEPT !.ident = i, !.place = rows[u][e].place,
                                                        !.version = NextVersion(@)]]
        BY <1>4 DEF EditCommit, Put, NoChange
    <2>2. e = d
        BY <1>0, <2>1 DEF TypeOK
    <2>3. doc'[d].place = rows[u][d].place
        BY <1>0, <2>1, <2>2 DEF TypeOK, Row
    <2> QED
        BY <1>2, <2>1, <2>2, <2>3
<1>5. ASSUME NEW p \in Places, MoveCommit(u, p) PROVE doc[d] = form[u] /\ pc[u] = "move"
    <2>1. PICK e \in on[u] :
            /\ AsFormShowed(u, e)
            /\ doc' = [doc EXCEPT ![e] = [doc[e] EXCEPT !.place = p, !.version = NextVersion(@)]]
        BY <1>5 DEF MoveCommit, Put, NoChange
    <2>2. e = d
        BY <1>0, <2>1 DEF TypeOK
    <2> QED
        BY <1>2, <1>5, <2>1, <2>2 DEF MoveCommit
<1>6. ASSUME NEW n \in Docs, NEW i \in Idents, ReviseCommit(u, n, i)
      PROVE  doc[d] = form[u] /\ pc[u] = "revise"
    <2>1. PICK e \in on[u] :
            /\ AsFormShowed(u, e)
            /\ doc' = [doc EXCEPT ![n] = Revised(e, i), ![e] = Superseded(e)]
        BY <1>6 DEF ReviseCommit, Replaceable, NoChange
    <2>2. d # n
        BY <1>1, <1>6 DEF ReviseCommit, Comparable
    <2>3. e = d
        BY <1>0, <2>1, <2>2 DEF TypeOK
    <2> QED
        BY <1>2, <1>6, <2>1, <2>3 DEF ReviseCommit
<1>7. UNCHANGED ledger \/ pc[u] \notin {"edit", "move", "revise"}
        \/ (\E i \in Idents : EditCommit(u, i)) \/ (\E p \in Places : MoveCommit(u, p))
        \/ \E n \in Docs, i \in Idents : ReviseCommit(u, n, i)
    BY <1>3 DEF DocumentRequest, CreateCheck, CreateCommit, OpenForm, RestoreCheck, DeleteRead,
        SubmitEdit, SubmitMove, Submit, SubmitRevision, DisposeRead, DisposeCommit, RestoreRead,
        RestoreCommit, DeleteCommit, RequestLost
<1> QED
    BY <1>4, <1>5, <1>6, <1>7 DEF ledger

\* What a form changes, it changes in the row that its user saw, although the handler
\* reads some of the fields anew: updateDocument, moveDocument and reviseDocument
\* compare the version of the form with the row in the statement that changes it.
THEOREM UpdatesCorrect == Spec => NoLostUpdate
<1>1. LedgerInv /\ [Next]_vars =>
        [\A u \in Users, d \in Docs :
            /\ pc[u] \in {"edit", "move", "revise"} /\ pc'[u] = "idle"
            /\ d \in on[u] /\ doc'[d] # doc[d]
            => /\ doc[d] = form[u]
               /\ pc[u] = "edit" => doc'[d].place = form[u].place]_vars
    BY UpdateIsKnowing
<1> QED
    BY <1>1, LedgerCorrect, PTL DEF Spec, NoLostUpdate

-----------------------------------------------------------------------------
(* The counters *)

\* Two sets of documents that agree on all but one.
LEMMA CountOne ==
    ASSUME NEW P \in SUBSET Docs, NEW Q \in SUBSET Docs, NEW d \in Docs,
           \A e \in Docs \ {d} : e \in P <=> e \in Q
    PROVE  /\ Cardinality(P) \in Nat /\ Cardinality(Q) \in Nat
           /\ Cardinality(Q) = (Cardinality(P) + (IF d \in Q THEN 1 ELSE 0))
                                    - (IF d \in P THEN 1 ELSE 0)
<1>1. /\ IsFiniteSet(P) /\ IsFiniteSet(Q)
      /\ Cardinality(P) \in Nat /\ Cardinality(Q) \in Nat
    BY LedgerAssumption, FS_Subset, FS_CardinalityType
<1>2. CASE d \in P /\ d \notin Q
    <2>1. Q = P \ {d}
        BY <1>2
    <2> QED
        BY <1>1, <1>2, <2>1, FS_RemoveElement
<1>3. CASE d \notin P /\ d \in Q
    <2>1. Q = P \cup {d}
        BY <1>3
    <2> QED
        BY <1>1, <1>3, <2>1, FS_AddElement
<1>4. CASE d \in P <=> d \in Q
    <2>1. Q = P
        BY <1>4
    <2> QED
        BY <1>1, <1>4, <2>1
<1> QED
    BY <1>2, <1>3, <1>4

\* The counters of a table that differs in one row.
SameBut(old, new, e) == \A d \in Docs \ {e} : new[d] = old[d]

LEMMA CountPut ==
    ASSUME NEW old \in [Docs -> Row], NEW new \in [Docs -> Row], NEW d \in Docs,
           SameBut(old, new, d)
    PROVE  /\ Count(new) = [current |-> (Count(old).current + (IF new[d].listed THEN 1 ELSE 0))
                                            - (IF old[d].listed THEN 1 ELSE 0),
                            active |-> (Count(old).active + In(new[d], "active"))
                                            - In(old[d], "active"),
                            disposed |-> (Count(old).disposed + In(new[d], "disposed"))
                                            - In(old[d], "disposed")]
           /\ Count(old).current \in Nat
<1> DEFINE L(t) == {e \in Docs : t[e].listed}
           S(t, s) == {e \in Docs : t[e].listed /\ t[e].standing = s}
<1>1. /\ Cardinality(L(old)) \in Nat
      /\ Cardinality(L(new)) = (Cardinality(L(old)) + (IF new[d].listed THEN 1 ELSE 0))
                                    - (IF old[d].listed THEN 1 ELSE 0)
    <2>1. /\ L(old) \in SUBSET Docs /\ L(new) \in SUBSET Docs
          /\ \A e \in Docs \ {d} : e \in L(old) <=> e \in L(new)
          /\ d \in L(new) <=> new[d].listed
          /\ d \in L(old) <=> old[d].listed
        BY DEF SameBut
    <2> HIDE DEF L
    <2> QED
        BY <2>1, CountOne
<1>2. ASSUME NEW s
      PROVE  Cardinality(S(new, s)) = (Cardinality(S(old, s)) + In(new[d], s)) - In(old[d], s)
    <2>1. /\ S(old, s) \in SUBSET Docs /\ S(new, s) \in SUBSET Docs
          /\ \A e \in Docs \ {d} : e \in S(old, s) <=> e \in S(new, s)
          /\ d \in S(new, s) <=> new[d].listed /\ new[d].standing = s
          /\ d \in S(old, s) <=> old[d].listed /\ old[d].standing = s
        BY DEF SameBut
    <2> HIDE DEF S
    <2> QED
        BY <2>1, CountOne DEF In
<1>3. \A t : Count(t) = [current |-> Cardinality(L(t)), active |-> Cardinality(S(t, "active")),
                        disposed |-> Cardinality(S(t, "disposed"))]
    BY DEF Count
<1> HIDE DEF L, S
<1> QED
    BY <1>1, <1>2, <1>3

LEMMA PutCounts ==
    ASSUME LedgerInv, NEW d \in Docs, NEW row \in Row, Put(d, row), UNCHANGED newer,
           counted = Count(doc)
    PROVE  counted' = Count(doc')
<1>1. /\ doc \in [Docs -> Row] /\ doc' \in [Docs -> Row] /\ doc'[d] = row
      /\ SameBut(doc, doc', d)
    BY PutTyped DEF LedgerInv, TypeOK, TableTyped, SameBut
<1>2. counted' = Recounted(doc[d], row)
    BY DEF Put
<1> QED
    BY <1>1, <1>2, CountPut DEF Recounted

\* trg_document_capacity_state_*: the counters follow every change of a row, and a
\* document enters the ledger only below the limit.
LEMMA CountersStep == LedgerInv /\ CountersMatch /\ Effects => CountersMatch'
<1> SUFFICES ASSUME LedgerInv, CountersMatch, Effects PROVE CountersMatch'
    OBVIOUS
<1>0. /\ TypeOK /\ doc \in [Docs -> Row]
      /\ counted.current \in Int /\ counted.active \in Int /\ counted.disposed \in Int
      /\ counted = Count(doc) /\ counted.current <= Capacity /\ Capacity \in Nat
      /\ \A d \in Docs : RowOK(d)
    BY LedgerAssumption DEF LedgerInv, CountersMatch, TypeOK
<1>1. CASE NoChange
    BY <1>0, <1>1 DEF NoChange, CountersMatch
<1>2. ASSUME NEW d \in Docs, NEW row \in Row, Inserts(d, row) PROVE CountersMatch'
    <2>1. counted' = Count(doc')
        BY <1>0, <1>2, PutCounts DEF Inserts
    <2>2. counted'.current \in Int /\ counted'.current <= counted.current + 1
        BY <1>0, <1>2 DEF Inserts, Put, Recounted
    <2> QED
        BY <1>0, <1>2, <2>1, <2>2 DEF Inserts, CountersMatch
<1>3. ASSUME NEW d \in Docs, NEW row \in Row, Changes(d, row) PROVE CountersMatch'
    <2>1. counted' = Count(doc')
        BY <1>0, <1>3, PutCounts DEF Changes
    <2>2. counted'.current = counted.current
        BY <1>0, <1>3 DEF Changes, Put, Recounted
    <2> QED
        BY <1>0, <2>1, <2>2 DEF CountersMatch
<1>4. ASSUME NEW d \in Docs, Deletes(d) PROVE CountersMatch'
    <2>1. counted' = Count(doc')
        BY <1>0, <1>4, PutCounts, GoneIsRow DEF Deletes
    <2>2. counted'.current \in Int /\ counted'.current <= counted.current
        BY <1>0, <1>4, GoneIsRow DEF Deletes, Put, Recounted
    <2> QED
        BY <1>0, <2>1, <2>2 DEF CountersMatch
<1>5. ASSUME NEW d \in Docs, NEW n \in Docs, NEW i \in Idents, Replaces(d, n, i)
      PROVE  CountersMatch'
    <2> DEFINE mid == [doc EXCEPT ![n] = Revised(d, i)]
    <2>1. /\ d # n /\ ~doc[n].listed /\ doc[d].listed /\ doc[d].standing = "active"
          /\ Revised(d, i) \in Row /\ Superseded(d) \in Row
        BY <1>0, <1>5, RowChanged DEF Replaces, RowOK, Exists, Revised, Superseded
    <2>2. /\ Revised(d, i).listed /\ Revised(d, i).standing = "active"
          /\ Superseded(d).listed /\ Superseded(d).standing = "disposed"
        BY <1>0, <2>1 DEF Revised, Superseded, Row
    <2>3. /\ mid \in [Docs -> Row] /\ mid[n] = Revised(d, i) /\ SameBut(doc, mid, n)
          /\ mid[d] = doc[d]
        BY <1>0, <2>1 DEF SameBut
    <2>4. /\ doc' \in [Docs -> Row] /\ doc'[d] = Superseded(d) /\ SameBut(mid, doc', d)
        BY <1>0, <1>5, <2>1 DEF Replaces, SameBut
    <2> HIDE DEF mid
    <2>5. Count(mid) = [current |-> counted.current + 1, active |-> counted.active + 1,
                        disposed |-> counted.disposed]
        BY <1>0, <2>1, <2>2, <2>3, CountPut DEF In
    <2>6. Count(doc') = [current |-> counted.current + 1, active |-> counted.active,
                         disposed |-> counted.disposed + 1]
        BY <1>0, <2>1, <2>2, <2>3, <2>4, <2>5, CountPut DEF In
    <2> QED
        BY <1>0, <1>5, <2>6 DEF Replaces, CountersMatch
<1>6. ASSUME NEW D \in SUBSET Docs, Closes(D) PROVE CountersMatch'
    <2> DEFINE L(t) == {e \in Docs : t[e].listed}
               S(t, s) == {e \in Docs : t[e].listed /\ t[e].standing = s}
               C == D \cap Listed
    <2>1. /\ \A e \in D : doc'[e].standing = "disposed" /\ doc'[e].listed = doc[e].listed
          /\ \A e \in Docs \ D : doc'[e] = doc[e]
          /\ \A e \in D : doc[e].standing = "active"
        BY <1>0, <1>6 DEF Closes, Row
    <2>2. L(doc') = L(doc)
        BY <2>1
    <2>3. S(doc', "active") = S(doc, "active") \ C /\ S(doc, "active") \cap C = C
        BY <2>1 DEF Listed
    <2>4. S(doc', "disposed") = S(doc, "disposed") \cup C /\ S(doc, "disposed") \cap C = {}
        BY <2>1 DEF Listed
    <2>5. IsFiniteSet(S(doc, "active")) /\ IsFiniteSet(S(doc, "disposed")) /\ IsFiniteSet(C)
        BY LedgerAssumption, FS_Subset
    <2>6. /\ Count(doc).current = Cardinality(L(doc))
          /\ Count(doc).active = Cardinality(S(doc, "active"))
          /\ Count(doc).disposed = Cardinality(S(doc, "disposed"))
          /\ Count(doc') = [current |-> Cardinality(L(doc')),
                            active |-> Cardinality(S(doc', "active")),
                            disposed |-> Cardinality(S(doc', "disposed"))]
        BY DEF Count
    <2> HIDE DEF L, S, C
    <2>7. Cardinality(S(doc', "active")) = Cardinality(S(doc, "active")) - Cardinality(C)
        BY <2>3, <2>5, FS_Difference
    <2>8. Cardinality(S(doc', "disposed")) = Cardinality(S(doc, "disposed")) + Cardinality(C)
        <3>1. /\ Cardinality(S(doc, "disposed")) \in Nat /\ Cardinality(C) \in Nat
              /\ Cardinality({}) = 0
            BY <2>5, FS_CardinalityType, FS_EmptySet
        <3>2. Cardinality(S(doc, "disposed") \cup C)
                = Cardinality(S(doc, "disposed")) + Cardinality(C) - Cardinality(S(doc, "disposed") \cap C)
            BY <2>5, FS_Union
        <3>3. Cardinality(S(doc, "disposed") \cap C) = 0
            BY <2>4, <3>1
        <3>4. Cardinality(S(doc, "disposed") \cup C) = Cardinality(S(doc, "disposed")) + Cardinality(C)
            BY <3>1, <3>2, <3>3
        <3> QED
            BY <2>4, <3>4
    <2>9. counted' = [current |-> counted.current, active |-> counted.active - Cardinality(C),
                      disposed |-> counted.disposed + Cardinality(C)]
        BY <1>6 DEF Closes, C
    <2>10. counted' = Count(doc') /\ counted'.current = counted.current
        BY <1>0, <2>2, <2>6, <2>7, <2>8, <2>9
    <2> QED
        BY <1>0, <2>10 DEF CountersMatch
<1> QED
    BY <1>1, <1>2, <1>3, <1>4, <1>5, <1>6 DEF Effects

\* The counters that the capacity limit is checked against are those of the table,
\* and the ledger never holds more documents than hard_document_count.
THEOREM CountersCorrect == Spec => []CountersMatch
<1>1. Init => CountersMatch
    BY DEF Init, CountersMatch, Count, Listed
<1>2. LedgerInv /\ CountersMatch /\ [Next]_vars => CountersMatch'
    BY StepEffects, CountersStep DEF vars, Effects, NoChange
<1> QED
    BY <1>1, <1>2, LedgerCorrect, PTL DEF Spec

-----------------------------------------------------------------------------
(* LedgerSnapshots: the whole ledger as a workbook.                        *)

BookOK(w) ==
    /\ base[w] <= edition
    /\ stage[w] = "none" => base[w] = 0 /\ paged[w] = {}
    /\ base[w] = edition => \A d \in paged[w] : origin[w][d] = Contents(doc)[d]
    /\ stage[w] \notin {"none", "exporting"} => paged[w] = Docs
    /\ review[w] # NoReview <=> stage[w] \in {"ready", "completed"}
    /\ stage[w] = "ready" => review[w].edition = base[w]
    /\ stage[w] = "ready" /\ base[w] = edition =>
        /\ plan[w] = PlanOf(book[w], doc)
        /\ Matchable(book[w], doc)
        /\ HistoryKept(book[w], doc)
        /\ review[w].result = Target(book[w], doc)

OperatorOK(o) ==
    /\ step[o] # "idle" => task[o] \in Workbooks
    /\ step[o] = "prepare" =>
        /\ stage[task[o]] \notin {"none", "exporting", "exported"}
        /\ base[task[o]] = edition => table[o] = doc

SyncInv ==
    /\ LedgerInv
    /\ SyncTypeOK
    /\ \A w \in Workbooks : BookOK(w)
    /\ \A o \in Operators : OperatorOK(o)

-----------------------------------------------------------------------------
(* What a workbook makes of the table it was compared with *)

LEMMA EntryOfRow ==
    ASSUME NEW b \in Entry, NEW v \in Nat
    PROVE  /\ RowOf(b, v) \in Row /\ EntryOf(RowOf(b, v)) = b /\ RowOf(b, v).listed
           /\ RowOf(b, v).version = v /\ RowOf(b, v).standing = b.standing
           /\ b.standing \in {"active", "disposed"} /\ b # Kept /\ b # Left
<1>1. /\ b.standing \in {"active", "disposed"} /\ b.ident \in Idents /\ b.place \in Places
      /\ b = [standing |-> b.standing, ident |-> b.ident, place |-> b.place]
    BY DEF Entry
<1>2. b # Kept /\ b # Left
    BY SnapshotsAssumption
<1> QED
    BY <1>1, <1>2 DEF RowOf, EntryOf, Row

LEMMA ContentsTyped ==
    ASSUME NEW t \in [Docs -> Row]
    PROVE  Contents(t) \in [Docs -> Said \cup {Left}]
<1>1. ASSUME NEW d \in Docs PROVE EntryOf(t[d]) \in Said
    BY DEF EntryOf, Row, Said
<1> QED
    BY <1>1 DEF Contents

\* The row that document d gets.
After(w, d) == AfterExclusions(w)[d]

LEMMA AppliedRow ==
    ASSUME LedgerInv, SyncTypeOK, NEW w \in Workbooks, NEW d \in Docs,
           plan[w] = PlanOf(book[w], doc), Matchable(book[w], doc)
    PROVE  /\ After(w, d) \in Row
           /\ \/ After(w, d) = doc[d]
              \/ /\ doc[d].standing = "none" /\ After(w, d).version = 1
                 /\ After(w, d).standing \in {"active", "disposed"}
              \/ /\ Exists(d) /\ After(w, d).standing \in {"active", "disposed"}
                 /\ After(w, d).version = doc[d].version + 1
           /\ Target(book[w], doc)[d]
                = IF After(w, d).listed THEN EntryOf(After(w, d)) ELSE Left
<1> DEFINE B == book[w]
<1>0. /\ doc[d] \in Row /\ doc[d].version \in Nat /\ NextVersion(doc[d].version) \in Nat
      /\ RowOK(d) /\ B[d] \in Entry \cup {Kept, Left}
      /\ NextVersion(doc[d].version) = doc[d].version + 1
    <2>1. doc[d] \in Row /\ RowOK(d) /\ B[d] \in Entry \cup {Kept, Left}
        BY DEF LedgerInv, TypeOK, SyncTypeOK, Book
    <2>2. doc[d].version \in Nat
        BY <2>1 DEF Row
    <2> QED
        BY <2>1, <2>2 DEF NextVersion
<1>1. /\ plan[w].update = Changed(B, doc) /\ plan[w].create = Created(B, doc)
      /\ plan[w].exclude = Excluded(B, doc)
    BY DEF PlanOf
<1>2. After(w, d) = IF d \in Excluded(B, doc)
                    THEN [doc[d] EXCEPT !.listed = FALSE, !.version = NextVersion(@)]
                    ELSE IF d \in Changed(B, doc) THEN RowOf(B[d], NextVersion(doc[d].version))
                    ELSE IF d \in Created(B, doc) THEN RowOf(B[d], 1)
                    ELSE doc[d]
    BY <1>1 DEF After, AfterExclusions, BeforeExclusions
<1>3. Target(B, doc)[d] = IF B[d] = Kept THEN Contents(doc)[d] ELSE B[d]
    BY DEF Target
<1>4. Contents(doc)[d] = IF doc[d].listed THEN EntryOf(doc[d]) ELSE Left
    BY DEF Contents
<1>5. /\ d \in Changed(B, doc) <=> /\ doc[d].standing \in {"active", "disposed"}
                                   /\ B[d] \notin {Kept, Left} /\ B[d] # Contents(doc)[d]
      /\ d \in Created(B, doc) <=> doc[d].standing = "none" /\ B[d] # Left
      /\ d \in Excluded(B, doc) <=> doc[d].listed /\ B[d] = Left
    BY DEF Changed, Created, Excluded
<1>6. /\ B[d] = Kept => doc[d].listed
      /\ Target(B, doc)[d] # Left => doc[d].standing # "deleted"
    BY DEF Matchable
<1>7. Kept # Left
    BY SnapshotsAssumption
<1>8. CASE B[d] = Kept
    <2>1. doc[d].listed /\ doc[d].standing # "none"
        BY <1>0, <1>6, <1>8 DEF RowOK, Exists
    <2>2. After(w, d) = doc[d]
        BY <1>2, <1>5, <1>7, <1>8, <2>1
    <2>3. Target(B, doc)[d] = IF doc[d].listed THEN EntryOf(doc[d]) ELSE Left
        BY <1>3, <1>4, <1>8
    <2> QED
        BY <1>0, <2>2, <2>3
<1>9. CASE B[d] = Left /\ doc[d].listed
    <2>1. After(w, d) = [doc[d] EXCEPT !.listed = FALSE, !.version = NextVersion(@)]
        BY <1>2, <1>5, <1>9
    <2>2. /\ After(w, d) \in Row /\ ~After(w, d).listed
          /\ After(w, d).standing = doc[d].standing
          /\ After(w, d).version = doc[d].version + 1
        <3>1. After(w, d) \in Row
            BY <1>0, <2>1, RowChanged
        <3> QED
            BY <1>0, <2>1, <3>1 DEF Row
    <2>3. Exists(d) /\ Target(B, doc)[d] = Left
        BY <1>0, <1>3, <1>7, <1>9 DEF RowOK
    <2> QED
        BY <2>2, <2>3 DEF Exists
<1>10. CASE B[d] = Left /\ ~doc[d].listed
    <2>1. After(w, d) = doc[d] /\ Target(B, doc)[d] = Left
        BY <1>2, <1>3, <1>5, <1>7, <1>10
    <2> QED
        BY <1>0, <1>10, <2>1
<1>11. CASE B[d] \in Entry
    <2>1. B[d] # Kept /\ B[d] # Left /\ doc[d].standing # "deleted"
        BY <1>3, <1>6, <1>11, EntryOfRow
    <2>2. d \notin Excluded(B, doc) /\ Target(B, doc)[d] = B[d]
        BY <1>3, <1>5, <2>1
    <2>3. CASE doc[d].standing = "none"
        <3>1. After(w, d) = RowOf(B[d], 1)
            BY <1>2, <1>5, <2>1, <2>2, <2>3
        <3>2. /\ After(w, d) \in Row /\ EntryOf(After(w, d)) = B[d] /\ After(w, d).listed
              /\ After(w, d).version = 1 /\ After(w, d).standing \in {"active", "disposed"}
            BY <1>11, <3>1, EntryOfRow
        <3> QED
            BY <2>2, <2>3, <3>2
    <2>4. CASE doc[d].standing \in {"active", "disposed"} /\ B[d] # Contents(doc)[d]
        <3>1. After(w, d) = RowOf(B[d], NextVersion(doc[d].version))
            BY <1>2, <1>5, <2>1, <2>2, <2>4
        <3>2. /\ After(w, d) \in Row /\ EntryOf(After(w, d)) = B[d] /\ After(w, d).listed
              /\ After(w, d).version = doc[d].version + 1
              /\ After(w, d).standing \in {"active", "disposed"}
            BY <1>0, <1>11, <3>1, EntryOfRow
        <3> QED
            BY <2>2, <2>4, <3>2 DEF Exists
    <2>5. CASE doc[d].standing \in {"active", "disposed"} /\ B[d] = Contents(doc)[d]
        <3>1. After(w, d) = doc[d] /\ doc[d].listed /\ EntryOf(doc[d]) = B[d]
            BY <1>2, <1>4, <1>5, <2>1, <2>2, <2>5
        <3> QED
            BY <1>0, <2>2, <3>1
    <2> QED
        BY <1>0, <2>1, <2>3, <2>4, <2>5 DEF Row
<1> QED
    BY <1>0, <1>8, <1>9, <1>10, <1>11

-----------------------------------------------------------------------------
(* The table changes only together with the edition *)

Same == doc' = doc /\ newer' = newer /\ edition' = edition
Moves == edition' \in 1..MaxEdition /\ (Same \/ edition' > edition)

LEMMA EditionMoves ==
    ASSUME LedgerInv, NextEdition
    PROVE  edition' > edition /\ edition' \in 1..MaxEdition
BY LedgerAssumption DEF LedgerInv, TypeOK, NextEdition

LEMMA LedgerMoves ==
    ASSUME LedgerInv, [Next]_vars
    PROVE  Moves
<1>1. Effects /\ edition \in 1..MaxEdition
    BY StepEffects DEF vars, Effects, NoChange, LedgerInv, TypeOK
<1> QED
    BY <1>1, EditionMoves DEF Moves, Same, Effects, NoChange, Inserts, Changes, Deletes, Replaces,
        Closes, Put

LEMMA ApplyChanges ==
    ASSUME SyncInv, NEW o \in Operators, ApplyCommit(o)
    PROVE  /\ LedgerInv' /\ Moves /\ edition' > edition
           /\ task[o] \in Workbooks /\ stage[task[o]] = "ready" /\ base[task[o]] = edition
           /\ Contents(doc') = Target(book[task[o]], doc)
<1> DEFINE w == task[o]
<1>0. /\ LedgerInv /\ TypeOK /\ SyncTypeOK /\ w \in Workbooks
      /\ stage[w] = "ready" /\ base[w] = edition
      /\ plan[w] = PlanOf(book[w], doc) /\ Matchable(book[w], doc)
      /\ doc' = AfterExclusions(w) /\ counted' = Count(AfterExclusions(w)) /\ NextEdition
      /\ UNCHANGED <<newer, usable, requests>>
    <2>1. w \in Workbooks
        BY DEF SyncInv, OperatorOK, ApplyCommit
    <2> QED
        BY <2>1 DEF SyncInv, LedgerInv, BookOK, ApplyCommit, Claimable
<1> HIDE DEF w
<1>1. ASSUME NEW d \in Docs
      PROVE  /\ doc'[d] \in Row
             /\ \/ doc'[d] = doc[d]
                \/ /\ doc[d].standing = "none" /\ doc'[d].version = 1
                   /\ doc'[d].standing \in {"active", "disposed"}
                \/ /\ Exists(d) /\ doc'[d].standing \in {"active", "disposed"}
                   /\ doc'[d].version = doc[d].version + 1
             /\ Target(book[w], doc)[d] = IF doc'[d].listed THEN EntryOf(doc'[d]) ELSE Left
    BY <1>0, AppliedRow DEF After
<1>2. doc' \in [Docs -> Row] /\ Contents(doc') = Target(book[w], doc)
    <2>1. doc' = [d \in Docs |-> doc'[d]]
        BY <1>0 DEF AfterExclusions
    <2>2. Target(book[w], doc) = [d \in Docs |-> Target(book[w], doc)[d]]
        BY DEF Target
    <2> QED
        BY <1>1, <2>1, <2>2 DEF Contents
<1>3. ASSUME NEW d \in Docs PROVE Evolves(d) /\ RowOK(d)'
    <2>1. doc[d] \in Row /\ RowOK(d) /\ doc[d].version \in Nat /\ doc'[d] \in Row
        BY <1>0, <1>1 DEF LedgerInv, TypeOK, Row
    <2>2. Evolves(d)
        BY <1>1 DEF Evolves, Exists
    <2>3. CASE doc'[d] = doc[d]
        BY <2>1, <2>2, <2>3 DEF RowOK, Exists
    <2>4. CASE doc'[d].standing \in {"active", "disposed"} /\ doc'[d].version >= 1
        BY <2>2, <2>4 DEF RowOK, Exists
    <2> QED
        BY <1>1, <2>1, <2>2, <2>3, <2>4
<1>4. counted' \in [current : Int, active : Int, disposed : Int]
    <2>1. \A P \in SUBSET Docs : Cardinality(P) \in Int
        BY LedgerAssumption, FS_Subset, FS_CardinalityType
    <2>2. \A t : /\ Cardinality({d \in Docs : t[d].listed}) \in Int
                /\ Cardinality({d \in Docs : t[d].listed /\ t[d].standing = "active"}) \in Int
                /\ Cardinality({d \in Docs : t[d].listed /\ t[d].standing = "disposed"}) \in Int
        BY <2>1
    <2> QED
        BY <1>0, <2>2 DEF Count
<1>5. edition' > edition /\ Moves
    BY <1>0, EditionMoves DEF Moves
<1>6. TypeOK'
    BY <1>0, <1>2, <1>4, <1>5 DEF TypeOK, Moves, requests
<1>7. \A u \in Users : RequestOK(u)'
    BY <1>0, <1>3, OthersRest DEF requests, Rests
<1> QED
    BY <1>0, <1>2, <1>3, <1>5, <1>6, <1>7 DEF LedgerInv, w

-----------------------------------------------------------------------------
(* What a step leaves alone *)

BookRests(w) ==
    /\ stage'[w] = stage[w] /\ base'[w] = base[w] /\ paged'[w] = paged[w]
    /\ origin'[w] = origin[w] /\ book'[w] = book[w] /\ plan'[w] = plan[w]
    /\ review'[w] = review[w]

LEMMA BookKept ==
    ASSUME SyncInv, NEW w \in Workbooks, BookRests(w), Moves
    PROVE  BookOK(w)'
<1>0. BookOK(w) /\ base[w] \in Nat /\ edition \in Nat /\ edition' \in Nat
    BY DEF SyncInv, LedgerInv, TypeOK, SyncTypeOK, Moves
<1>1. CASE edition' > edition
    BY <1>0, <1>1 DEF BookRests, BookOK
<1>2. CASE Same
    <2>1. HistoryKept(book[w], doc) => HistoryKept(book[w], doc)'
        BY <1>2 DEF BookRests, Same, HistoryKept, Linked
    <2> QED
        BY <1>0, <1>2, <2>1 DEF BookRests, BookOK, Same
<1> QED
    BY <1>1, <1>2 DEF Moves

OperatorRests(o) == step'[o] = step[o] /\ task'[o] = task[o] /\ table'[o] = table[o]

\* A workbook that has been created keeps its edition.
BookHolds(w) ==
    stage[w] \notin {"none", "exporting", "exported"} =>
        stage'[w] \notin {"none", "exporting", "exported"} /\ base'[w] = base[w]

LEMMA OperatorKept ==
    ASSUME SyncInv, NEW o \in Operators, OperatorRests(o), Moves,
           \A w \in Workbooks : BookHolds(w)
    PROVE  OperatorOK(o)'
<1>0. /\ OperatorOK(o) /\ edition \in Nat /\ edition' \in Nat
      /\ \A w \in Workbooks : base[w] \in Nat /\ base[w] <= edition
    BY DEF SyncInv, LedgerInv, TypeOK, SyncTypeOK, Moves, BookOK
<1>1. CASE step[o] # "prepare"
    BY <1>0, <1>1 DEF OperatorRests, OperatorOK
<1>2. CASE step[o] = "prepare"
    BY <1>0, <1>2 DEF OperatorRests, OperatorOK, BookHolds, Moves, Same
<1> QED
    BY <1>1, <1>2

-----------------------------------------------------------------------------
(* The steps of a workbook: only rows of that workbook change *)

\* The invariant after a step, and what the step is in LedgerVersions.
Upheld == SyncTypeOK' /\ (\A w \in Workbooks : BookOK(w)') /\ \A o \in Operators : OperatorOK(o)'
Implements == [Versions!Next]_(Versions!vars)

\* The edited rows of a workbook that is applied, and the exported ones.
WorkbookApplied ==
    \A w \in Workbooks : stage[w] = "ready" /\ stage'[w] = "completed" =>
        Contents(doc') = [d \in Docs |-> IF book[w][d] = Kept THEN origin[w][d]
                                         ELSE book[w][d]]

\* A step on workbook w before its review.
LEMMA BookStep ==
    ASSUME SyncInv, NEW w \in Workbooks, UNCHANGED vars, UNCHANGED operators,
           UNCHANGED review, UNCHANGED plan, SyncTypeOK', BookOK(w)', BookHolds(w),
           \A v \in Workbooks \ {w} : BookRests(v),
           stage[w] \notin {"ready", "completed"}, stage'[w] \notin {"ready", "completed"}
    PROVE  Upheld /\ Implements /\ WorkbookApplied
<1>1. Moves
    BY DEF SyncInv, LedgerInv, TypeOK, vars, Moves, Same
<1>2. \A v \in Workbooks : BookOK(v)'
    BY <1>1, BookKept
<1>3. \A o \in Operators : OperatorOK(o)'
    <2>1. \A v \in Workbooks : BookHolds(v)
        BY DEF BookRests, BookHolds
    <2> QED
        BY <1>1, <2>1, OperatorKept DEF operators, OperatorRests
<1>4. Implements
    <2>1. {v \in Workbooks : stage'[v] = "completed"} = {v \in Workbooks : stage[v] = "completed"}
        BY DEF BookRests
    <2>2. doc' = doc /\ edition' = edition /\ review' = review
        BY DEF vars
    <2> QED
        BY <2>1, <2>2 DEF Implements, Versions!vars
<1>5. WorkbookApplied
    BY DEF BookRests, WorkbookApplied
<1> QED
    BY <1>2, <1>3, <1>4, <1>5 DEF Upheld

LEMMA ExportSteps ==
    ASSUME SyncInv, NEW w \in Workbooks, ExportStep(w) \/ UploadStep(w)
    PROVE  UNCHANGED vars /\ Upheld /\ Implements /\ WorkbookApplied
<1>0. /\ SyncTypeOK /\ TypeOK /\ BookOK(w) /\ edition \in 1..MaxEdition /\ MaxEdition \in Nat
      /\ doc \in [Docs -> Row] /\ base[w] \in Nat
    BY LedgerAssumption DEF SyncInv, LedgerInv, TypeOK, SyncTypeOK
<1>1. /\ Contents(doc) \in [Docs -> Said \cup {Left}] /\ NoBook \in [Docs -> Said \cup {Left}]
      /\ edition \in 0..MaxEdition /\ 0 \in 0..MaxEdition
    BY <1>0, ContentsTyped DEF NoBook
<1>2. CASE StartExport(w)
    <2>1. SyncTypeOK'
        BY <1>0, <1>1, <1>2 DEF StartExport, SyncTypeOK, Stages, vars, operators, TypeOK
    <2>2. BookOK(w)'
        BY <1>0, <1>2 DEF StartExport, SyncTypeOK, BookOK, vars
    <2>3. \A v \in Workbooks \ {w} : BookRests(v)
        BY <1>0, <1>2 DEF StartExport, SyncTypeOK, BookRests
    <2> QED
        BY <1>0, <1>2, <2>1, <2>2, <2>3, BookStep DEF StartExport, SyncTypeOK, BookHolds
<1>3. CASE ExportAtOnce(w)
    <2>1. SyncTypeOK'
        BY <1>0, <1>1, <1>3 DEF ExportAtOnce, SyncTypeOK, Stages, vars, operators, TypeOK
    <2>2. BookOK(w)'
        BY <1>0, <1>3 DEF ExportAtOnce, SyncTypeOK, BookOK, vars
    <2>3. \A v \in Workbooks \ {w} : BookRests(v)
        BY <1>0, <1>3 DEF ExportAtOnce, SyncTypeOK, BookRests
    <2> QED
        BY <1>0, <1>3, <2>1, <2>2, <2>3, BookStep DEF ExportAtOnce, SyncTypeOK, BookHolds
<1>4. ASSUME NEW d \in Docs, ExportPage(w, d)
      PROVE  UNCHANGED vars /\ Upheld /\ Implements /\ WorkbookApplied
    <2>0. /\ paged'[w] = paged[w] \cup {d} /\ origin'[w][d] = Contents(doc)[d]
          /\ \A e \in Docs \ {d} : origin'[w][e] = origin[w][e]
          /\ origin' \in [Workbooks -> [Docs -> Said \cup {Left}]]
          /\ paged' \in [Workbooks -> SUBSET Docs]
        BY <1>0, <1>1, <1>4 DEF ExportPage, SyncTypeOK
    <2>1. SyncTypeOK'
        BY <1>0, <1>1, <1>4, <2>0 DEF ExportPage, SyncTypeOK, Stages, vars, operators, TypeOK
    <2>2. BookOK(w)'
        BY <1>0, <1>4, <2>0 DEF ExportPage, SyncTypeOK, BookOK, vars
    <2>3. \A v \in Workbooks \ {w} : BookRests(v)
        BY <1>0, <1>4 DEF ExportPage, SyncTypeOK, BookRests
    <2> QED
        BY <1>0, <1>4, <2>1, <2>2, <2>3, BookStep DEF ExportPage, SyncTypeOK, BookHolds
<1>5. CASE EndExport(w)
    <2>1. SyncTypeOK'
        BY <1>0, <1>1, <1>5 DEF EndExport, SyncTypeOK, Stages, vars, operators, TypeOK
    <2>2. BookOK(w)'
        BY <1>0, <1>5 DEF EndExport, SyncTypeOK, BookOK, vars
    <2>3. \A v \in Workbooks \ {w} : BookRests(v)
        BY <1>0, <1>5 DEF EndExport, SyncTypeOK, BookRests
    <2> QED
        BY <1>0, <1>5, <2>1, <2>2, <2>3, BookStep DEF EndExport, SyncTypeOK, BookHolds
<1>6. CASE ExportStale(w)
    <2>1. SyncTypeOK'
        BY <1>0, <1>1, <1>6 DEF ExportStale, SyncTypeOK, Stages, vars, operators, TypeOK
    <2>2. BookOK(w)'
        BY <1>0, <1>6 DEF ExportStale, SyncTypeOK, BookOK, vars
    <2>3. \A v \in Workbooks \ {w} : BookRests(v)
        BY <1>0, <1>6 DEF ExportStale, SyncTypeOK, BookRests
    <2> QED
        BY <1>0, <1>6, <2>1, <2>2, <2>3, BookStep DEF ExportStale, SyncTypeOK, BookHolds
<1>7. CASE CreateWorkbook(w)
    <2>1. SyncTypeOK'
        BY <1>0, <1>1, <1>7 DEF CreateWorkbook, SyncTypeOK, Stages, vars, operators, TypeOK
    <2>2. BookOK(w)'
        BY <1>0, <1>7 DEF CreateWorkbook, SyncTypeOK, BookOK, vars
    <2>3. \A v \in Workbooks \ {w} : BookRests(v)
        BY <1>0, <1>7 DEF CreateWorkbook, SyncTypeOK, BookRests
    <2> QED
        BY <1>0, <1>7, <2>1, <2>2, <2>3, BookStep DEF CreateWorkbook, SyncTypeOK, BookHolds
<1>8. ASSUME NEW B \in Book, StageRows(w, B)
      PROVE  UNCHANGED vars /\ Upheld /\ Implements /\ WorkbookApplied
    <2>1. SyncTypeOK'
        BY <1>0, <1>1, <1>8 DEF StageRows, SyncTypeOK, Stages, vars, operators, TypeOK
    <2>2. BookOK(w)'
        BY <1>0, <1>8 DEF StageRows, SyncTypeOK, BookOK, vars
    <2>3. \A v \in Workbooks \ {w} : BookRests(v)
        BY <1>0, <1>8 DEF StageRows, SyncTypeOK, BookRests
    <2> QED
        BY <1>0, <1>8, <2>1, <2>2, <2>3, BookStep DEF StageRows, SyncTypeOK, BookHolds
<1> QED
    BY <1>2, <1>3, <1>4, <1>5, <1>6, <1>7, <1>8 DEF ExportStep, UploadStep

-----------------------------------------------------------------------------
(* The steps of an operator *)

OperatorsOK ==
    /\ step' \in [Operators -> {"idle", "prepare", "fail", "apply", "stale"}]
    /\ task' \in [Operators -> Workbooks \cup {NoWorkbook}]
    /\ table' \in [Operators -> [Docs -> Row]]
    /\ \A o \in Operators : OperatorOK(o)'

LEMMA ProceedStep ==
    ASSUME SyncInv, Moves, \A v \in Workbooks : BookHolds(v),
           NEW o \in Operators, NEW w \in Workbooks \cup {NoWorkbook},
           NEW a \in {"idle", "fail", "apply", "stale"}, a = "idle" \/ w \in Workbooks,
           Proceed(o, w, a, NoRows)
    PROVE  OperatorsOK
<1>0. SyncTypeOK /\ NoRows \in [Docs -> Row]
    BY GoneIsRow DEF SyncInv, NoRows
<1>1. /\ step' \in [Operators -> {"idle", "prepare", "fail", "apply", "stale"}]
      /\ task' \in [Operators -> Workbooks \cup {NoWorkbook}]
      /\ table' \in [Operators -> [Docs -> Row]]
      /\ step'[o] = a /\ task'[o] = w
      /\ \A p \in Operators \ {o} : OperatorRests(p)
    BY <1>0 DEF Proceed, SyncTypeOK, OperatorRests
<1>2. OperatorOK(o)'
    BY <1>1 DEF OperatorOK
<1>3. \A p \in Operators \ {o} : OperatorOK(p)'
    BY <1>1, OperatorKept
<1> QED
    BY <1>1, <1>2, <1>3 DEF OperatorsOK

LEMMA FinishStep ==
    ASSUME SyncInv, Moves, \A v \in Workbooks : BookHolds(v), NEW o \in Operators, Finish(o)
    PROVE  OperatorsOK
BY ProceedStep DEF Finish

\* The workbooks do not change.
LEMMA BooksRest ==
    ASSUME SyncInv, UNCHANGED snapshots, Moves
    PROVE  /\ \A w \in Workbooks : BookOK(w)' /\ BookHolds(w)
           /\ WorkbookApplied
           /\ Same => Implements
<1>1. \A w \in Workbooks : BookRests(w) /\ BookHolds(w)
    BY DEF snapshots, BookRests, BookHolds
<1>2. Same => Implements
    BY DEF snapshots, Same, Implements, Versions!vars
<1> QED
    BY <1>1, <1>2, BookKept DEF snapshots, WorkbookApplied

LEMMA StandStill == SyncInv /\ UNCHANGED vars => Moves /\ Same
BY DEF SyncInv, LedgerInv, TypeOK, vars, Moves, Same

LEMMA RequestsOfOperators ==
    ASSUME SyncInv, NEW o \in Operators,
           \/ \E w \in Workbooks : ApplyRead(o, w)
           \/ ApplyAbort(o) \/ ApplyRefused(o) \/ OperatorLost(o)
    PROVE  UNCHANGED vars /\ Upheld /\ Implements /\ WorkbookApplied
<1>0. UNCHANGED vars /\ UNCHANGED snapshots
    BY DEF ApplyRead, ApplyAbort, ApplyRefused, OperatorLost
<1>1. Moves /\ Same
    BY <1>0, StandStill
<1>2. /\ \A w \in Workbooks : BookOK(w)' /\ BookHolds(w)
      /\ WorkbookApplied /\ Implements
    BY <1>0, <1>1, BooksRest
<1>3. OperatorsOK
    <2>1. ASSUME NEW w \in Workbooks, ApplyRead(o, w) PROVE OperatorsOK
        BY <1>1, <1>2, <2>1, ProceedStep DEF ApplyRead
    <2>2. CASE ApplyAbort(o)
        <3>1. task[o] \in Workbooks
            BY <2>2 DEF ApplyAbort, SyncInv, OperatorOK
        <3> QED
            BY <1>1, <1>2, <2>2, <3>1, ProceedStep DEF ApplyAbort
    <2>3. CASE ApplyRefused(o) \/ OperatorLost(o)
        BY <1>1, <1>2, <2>3, FinishStep DEF ApplyRefused, OperatorLost
    <2> QED
        BY <2>1, <2>2, <2>3
<1>4. SyncTypeOK'
    BY <1>0, <1>3 DEF SyncInv, SyncTypeOK, TypeOK, vars, snapshots, OperatorsOK
<1> QED
    BY <1>0, <1>2, <1>3, <1>4 DEF Upheld, OperatorsOK

\* The read sees the table at the edition of the workbook.
LEMMA PrepareReadStep ==
    ASSUME SyncInv, NEW o \in Operators, NEW w \in Workbooks, PrepareRead(o, w)
    PROVE  UNCHANGED vars /\ Upheld /\ Implements /\ WorkbookApplied
<1>0. UNCHANGED vars /\ UNCHANGED snapshots /\ SyncTypeOK /\ TypeOK
    BY DEF PrepareRead, SyncInv, LedgerInv
<1>1. Moves /\ Same
    BY <1>0, StandStill
<1>2. /\ \A v \in Workbooks : BookOK(v)' /\ BookHolds(v)
      /\ WorkbookApplied /\ Implements
    BY <1>0, <1>1, BooksRest
<1>3. OperatorsOK
    <2>1. CASE edition # base[w]
        BY <1>1, <1>2, <2>1, ProceedStep DEF PrepareRead
    <2>2. CASE edition = base[w]
        <3>1. /\ step' = [step EXCEPT ![o] = "prepare"]
              /\ task' = [task EXCEPT ![o] = w]
              /\ table' = [table EXCEPT ![o] = doc]
              /\ stage[w] = "staging"
            BY <2>2 DEF PrepareRead, Proceed
        <3>2. /\ step' \in [Operators -> {"idle", "prepare", "fail", "apply", "stale"}]
              /\ task' \in [Operators -> Workbooks \cup {NoWorkbook}]
              /\ table' \in [Operators -> [Docs -> Row]]
              /\ step'[o] = "prepare" /\ task'[o] = w /\ table'[o] = doc
              /\ \A p \in Operators \ {o} : OperatorRests(p)
            BY <1>0, <3>1 DEF SyncTypeOK, TypeOK, OperatorRests
        <3>3. OperatorOK(o)'
            BY <1>0, <3>1, <3>2 DEF OperatorOK, vars, snapshots
        <3>4. \A p \in Operators \ {o} : OperatorOK(p)'
            BY <1>1, <1>2, <3>2, OperatorKept
        <3> QED
            BY <3>2, <3>3, <3>4 DEF OperatorsOK
    <2> QED
        BY <2>1, <2>2
<1>4. SyncTypeOK'
    BY <1>0, <1>3 DEF SyncTypeOK, TypeOK, vars, snapshots, OperatorsOK
<1> QED
    BY <1>0, <1>2, <1>3, <1>4 DEF Upheld, OperatorsOK

\* UPDATE document_snapshots ... WHERE status IN A: a workbook that was up for
\* application is discarded, any other change means nothing to LedgerVersions.
LEMMA TransitionStep ==
    ASSUME SyncInv, UNCHANGED vars, NEW w \in Workbooks,
           NEW A \in SUBSET {"staging", "ready", "applying"}, NEW b \in {"failed", "cancelled"},
           Transition(w, A, b)
    PROVE  /\ stage' \in [Workbooks -> Stages]
           /\ review' \in [Workbooks -> [edition : 0..MaxEdition,
                                         result : [Docs -> Said \cup Entry \cup {Left}]]]
           /\ \A v \in Workbooks : BookOK(v)' /\ BookHolds(v)
           /\ Implements /\ WorkbookApplied
<1>0. /\ SyncTypeOK /\ TypeOK /\ BookOK(w) /\ Moves /\ Same /\ MaxEdition \in Nat
      /\ UNCHANGED <<base, paged, origin, book, plan>>
      /\ NoReview \in [edition : 0..MaxEdition, result : [Docs -> Said \cup Entry \cup {Left}]]
    BY StandStill, LedgerAssumption DEF SyncInv, LedgerInv, Transition, NoReview, NoBook
<1>1. CASE stage[w] \notin A
    <2>1. stage' = stage /\ review' = review
        BY <1>0, <1>1 DEF Transition, SyncTypeOK
    <2> QED
        BY <1>0, <2>1, BooksRest DEF snapshots, SyncTypeOK
<1>2. CASE stage[w] \in A
    <2>1. /\ stage' = [stage EXCEPT ![w] = b] /\ review' = [review EXCEPT ![w] = NoReview]
          /\ stage[w] \in {"staging", "ready"}
        BY <1>0, <1>2 DEF Transition, SyncTypeOK, Stages
    <2>2. /\ stage' \in [Workbooks -> Stages]
          /\ review' \in [Workbooks -> [edition : 0..MaxEdition,
                                        result : [Docs -> Said \cup Entry \cup {Left}]]]
        BY <1>0, <2>1 DEF SyncTypeOK, Stages
    <2>3. \A v \in Workbooks \ {w} : BookRests(v) /\ BookHolds(v)
        BY <1>0, <2>1 DEF SyncTypeOK, BookRests, BookHolds
    <2>4. stage'[w] = b /\ review'[w] = NoReview
        BY <1>0, <2>1 DEF SyncTypeOK
    <2>5. BookOK(w)' /\ BookHolds(w)
        BY <1>0, <2>1, <2>4 DEF BookOK, BookHolds, Same
    <2>6. WorkbookApplied
        BY <2>3, <2>4 DEF BookRests, WorkbookApplied
    <2>7. {v \in Workbooks : stage'[v] = "completed"} = {v \in Workbooks : stage[v] = "completed"}
        BY <2>1, <2>3, <2>4 DEF BookRests
    <2>8. Implements
        <3>1. CASE review[w] = NoReview
            <4>1. review' = review
                BY <1>0, <2>1, <3>1 DEF SyncTypeOK
            <4> QED
                BY <1>0, <2>7, <4>1 DEF Implements, Versions!vars, Same
        <3>2. CASE review[w] # NoReview
            <4>1. Versions!Discard(w)
                BY <1>0, <2>1, <2>7, <3>2 DEF Versions!Discard, Same
            <4> QED
                BY <4>1 DEF Implements, Versions!Next
        <3> QED
            BY <3>1, <3>2
    <2> QED
        BY <1>0, <2>2, <2>3, <2>5, <2>6, <2>8, BookKept
<1> QED
    BY <1>1, <1>2

LEMMA DiscardSteps ==
    ASSUME SyncInv,
           \/ \E w \in Workbooks : Cancel(w)
           \/ \E o \in Operators : PrepareFail(o) \/ MarkStale(o)
    PROVE  UNCHANGED vars /\ Upheld /\ Implements /\ WorkbookApplied
<1>0. SyncTypeOK /\ TypeOK
    BY DEF SyncInv, LedgerInv
<1>1. ASSUME NEW w \in Workbooks, Cancel(w)
      PROVE  UNCHANGED vars /\ Upheld /\ Implements /\ WorkbookApplied
    <2>1. /\ UNCHANGED vars /\ UNCHANGED operators
          /\ UNCHANGED <<base, paged, origin, book, plan>>
          /\ Transition(w, {"staging", "ready"}, "cancelled")
        BY <1>1 DEF Cancel, Transition
    <2>2. /\ stage' \in [Workbooks -> Stages]
          /\ review' \in [Workbooks -> [edition : 0..MaxEdition,
                                        result : [Docs -> Said \cup Entry \cup {Left}]]]
          /\ \A v \in Workbooks : BookOK(v)' /\ BookHolds(v)
          /\ Implements /\ WorkbookApplied
        BY <2>1, TransitionStep
    <2>3. \A o \in Operators : OperatorOK(o)'
        BY <2>1, <2>2, StandStill, OperatorKept DEF operators, OperatorRests
    <2>4. SyncTypeOK'
        BY <1>0, <2>1, <2>2 DEF SyncTypeOK, TypeOK, vars, operators
    <2> QED
        BY <2>1, <2>2, <2>3, <2>4 DEF Upheld
<1>2. ASSUME NEW o \in Operators, PrepareFail(o) \/ MarkStale(o)
      PROVE  UNCHANGED vars /\ Upheld /\ Implements /\ WorkbookApplied
    <2>0. task[o] \in Workbooks
        BY <1>2 DEF SyncInv, OperatorOK, PrepareFail, MarkStale
    <2>1. /\ UNCHANGED vars /\ Finish(o)
          /\ UNCHANGED <<base, paged, origin, book, plan>>
          /\ \/ Transition(task[o], {"staging"}, "failed")
             \/ Transition(task[o], {"ready", "applying"}, "failed")
        BY <1>2 DEF PrepareFail, MarkStale, Transition
    <2>2. /\ stage' \in [Workbooks -> Stages]
          /\ review' \in [Workbooks -> [edition : 0..MaxEdition,
                                        result : [Docs -> Said \cup Entry \cup {Left}]]]
          /\ \A v \in Workbooks : BookOK(v)' /\ BookHolds(v)
          /\ Implements /\ WorkbookApplied
        BY <2>0, <2>1, TransitionStep
    <2>3. OperatorsOK
        BY <2>1, <2>2, StandStill, FinishStep
    <2>4. SyncTypeOK'
        BY <1>0, <2>1, <2>2, <2>3 DEF SyncTypeOK, TypeOK, vars, OperatorsOK
    <2> QED
        BY <2>1, <2>2, <2>3, <2>4 DEF Upheld, OperatorsOK
<1> QED
    BY <1>1, <1>2

LEMMA PlanTyped ==
    ASSUME NEW B \in Book, NEW t \in [Docs -> Row]
    PROVE  /\ PlanOf(B, t) \in [update : SUBSET Docs, create : SUBSET Docs,
                                exclude : SUBSET Docs, expected : [Docs -> Nat]]
           /\ Target(B, t) \in [Docs -> Said \cup Entry \cup {Left}]
<1>1. Target(B, t) \in [Docs -> Said \cup Entry \cup {Left}]
    <2>1. ASSUME NEW d \in Docs PROVE Target(B, t)[d] \in Said \cup Entry \cup {Left}
        BY ContentsTyped DEF Target, Book
    <2> QED
        BY <2>1 DEF Target
<1>2. /\ Changed(B, t) \in SUBSET Docs /\ Created(B, t) \in SUBSET Docs
      /\ Excluded(B, t) \in SUBSET Docs
    BY DEF Changed, Created, Excluded
<1>3. \A d \in Docs : t[d].version \in Nat
    BY DEF Row
<1> QED
    BY <1>1, <1>2, <1>3 DEF PlanOf

\* The review finds the table as it was read, or the workbook fails.
LEMMA PrepareCommitStep ==
    ASSUME SyncInv, NEW o \in Operators, PrepareCommit(o)
    PROVE  UNCHANGED vars /\ Upheld /\ Implements /\ WorkbookApplied
<1>w. PICK w \in Workbooks : w = task[o]
    BY DEF PrepareCommit, SyncInv, OperatorOK
<1>0. /\ UNCHANGED vars /\ UNCHANGED <<base, paged, origin, book>>
      /\ SyncTypeOK /\ TypeOK /\ OperatorOK(o) /\ step[o] = "prepare" /\ w = task[o]
      /\ BookOK(w) /\ Moves /\ Same
    BY <1>w, StandStill DEF PrepareCommit, SyncInv, LedgerInv, OperatorOK
<1>1. CASE Proceed(o, w, "fail", NoRows) /\ UNCHANGED <<stage, plan, review>>
    <2>1. UNCHANGED snapshots
        BY <1>0, <1>1 DEF snapshots
    <2>2. /\ \A v \in Workbooks : BookOK(v)' /\ BookHolds(v)
          /\ WorkbookApplied /\ Implements
        BY <1>0, <2>1, BooksRest
    <2>3. OperatorsOK
        BY <1>0, <1>1, <2>2, ProceedStep
    <2>4. SyncTypeOK'
        BY <1>0, <1>1, <2>3 DEF SyncTypeOK, TypeOK, vars, OperatorsOK
    <2> QED
        BY <1>0, <2>2, <2>3, <2>4 DEF Upheld, OperatorsOK
<1>2. CASE /\ Matchable(book[w], table[o]) /\ HistoryKept(book[w], table[o])
           /\ stage[w] = "staging" /\ InForce(w)
           /\ stage' = [stage EXCEPT ![w] = "ready"]
           /\ plan' = [plan EXCEPT ![w] = PlanOf(book[w], table[o])]
           /\ review' = [review EXCEPT ![w] =
                            [edition |-> edition, result |-> Target(book[w], table[o])]]
           /\ Finish(o)
    <2>1. table[o] = doc /\ base[w] = edition
        BY <1>0, <1>2 DEF OperatorOK, InForce
    <2>2. /\ PlanOf(book[w], doc) \in [update : SUBSET Docs, create : SUBSET Docs,
                                       exclude : SUBSET Docs, expected : [Docs -> Nat]]
          /\ Target(book[w], doc) \in [Docs -> Said \cup Entry \cup {Left}]
          /\ edition \in 0..MaxEdition /\ edition # 0
        BY <1>0, PlanTyped, LedgerAssumption DEF SyncTypeOK, TypeOK
    <2>3. /\ stage'[w] = "ready" /\ plan'[w] = PlanOf(book[w], doc)
          /\ review'[w] = [edition |-> edition, result |-> Target(book[w], doc)]
          /\ \A v \in Workbooks \ {w} : BookRests(v)
        BY <1>0, <1>2, <2>1 DEF SyncTypeOK, BookRests
    <2>4. /\ review'[w].edition = edition /\ review'[w].result = Target(book[w], doc)
          /\ review'[w] # NoReview
        BY <2>2, <2>3 DEF NoReview
    <2>5. HistoryKept(book[w], doc)'
        BY <1>0, <1>2, <2>1 DEF Same, HistoryKept, Linked
    <2>6. BookOK(w)'
        BY <1>0, <1>2, <2>1, <2>3, <2>4, <2>5 DEF BookOK, Same
    <2>7. \A v \in Workbooks : BookHolds(v)
        BY <1>0, <1>2, <2>3 DEF BookRests, BookHolds
    <2>8. OperatorsOK
        BY <1>0, <1>2, <2>7, FinishStep
    <2>9. SyncTypeOK'
        <3>1. /\ stage' \in [Workbooks -> Stages]
              /\ plan' \in [Workbooks -> [update : SUBSET Docs, create : SUBSET Docs,
                                          exclude : SUBSET Docs, expected : [Docs -> Nat]]]
              /\ review' \in [Workbooks -> [edition : 0..MaxEdition,
                                            result : [Docs -> Said \cup Entry \cup {Left}]]]
            BY <1>0, <1>2, <2>1, <2>2 DEF SyncTypeOK, Stages
        <3> QED
            BY <1>0, <2>8, <3>1 DEF SyncTypeOK, TypeOK, vars, OperatorsOK
    <2>10. Implements
        <3>1. {v \in Workbooks : stage'[v] = "completed"} = {v \in Workbooks : stage[v] = "completed"}
            BY <1>2, <2>3 DEF BookRests
        <3>2. review[w] = NoReview /\ w \notin {v \in Workbooks : stage[v] = "completed"}
            BY <1>0, <1>2 DEF BookOK
        <3>3. \A v \in Workbooks \ {w} : review'[v] = review[v]
            BY <2>3 DEF BookRests
        <3>4. Versions!Review(w)
            BY <1>0, <2>4, <3>1, <3>2, <3>3 DEF Versions!Review, Same
        <3> QED
            BY <1>0, <3>4 DEF Implements, Versions!Next
    <2>11. WorkbookApplied
        BY <2>3 DEF BookRests, WorkbookApplied
    <2> QED
        BY <1>0, <2>3, <2>6, <2>8, <2>9, <2>10, <2>11, BookKept DEF Upheld, OperatorsOK
<1> QED
    BY <1>0, <1>1, <1>2 DEF PrepareCommit

\* The batch finds the table that the workbook was reviewed against.
LEMMA ApplyCommitStep ==
    ASSUME SyncInv, NEW o \in Operators, ApplyCommit(o)
    PROVE  LedgerInv' /\ Upheld /\ Implements /\ WorkbookApplied
<1>w. PICK w \in Workbooks : w = task[o]
    BY ApplyChanges
<1>0. /\ LedgerInv' /\ TypeOK' /\ Moves /\ edition' > edition
      /\ stage[w] = "ready" /\ base[w] = edition
      /\ Contents(doc') = Target(book[w], doc)
      /\ SyncTypeOK /\ BookOK(w) /\ edition' \in Nat /\ edition \in Nat
      /\ stage' = [stage EXCEPT ![w] = "completed"] /\ Finish(o)
      /\ UNCHANGED <<base, paged, origin, book, plan, review>>
    <2>1. LedgerInv' /\ LedgerInv /\ Moves /\ edition' > edition
        BY ApplyChanges DEF SyncInv
    <2>2. stage[w] = "ready" /\ base[w] = edition /\ Contents(doc') = Target(book[w], doc)
        BY <1>w, ApplyChanges
    <2>3. edition' \in Nat /\ edition \in Nat /\ TypeOK'
        BY <2>1, LedgerAssumption DEF LedgerInv, TypeOK
    <2>4. SyncTypeOK /\ BookOK(w)
        BY DEF SyncInv
    <2> QED
        BY <1>w, <2>1, <2>2, <2>3, <2>4 DEF ApplyCommit
<1>1. /\ stage'[w] = "completed" /\ stage' \in [Workbooks -> Stages]
      /\ \A v \in Workbooks \ {w} : BookRests(v)
    BY <1>0 DEF SyncTypeOK, Stages, BookRests
<1>2. BookOK(w)'
    BY <1>0, <1>1 DEF BookOK
<1>3. \A v \in Workbooks : BookHolds(v)
    BY <1>0, <1>1 DEF BookRests, BookHolds
<1>4. OperatorsOK
    BY <1>0, <1>3, FinishStep
<1>5. SyncTypeOK'
    BY <1>0, <1>1, <1>4 DEF SyncTypeOK, OperatorsOK
<1>6. Implements
    <2>1. {v \in Workbooks : stage'[v] = "completed"}
            = {v \in Workbooks : stage[v] = "completed"} \cup {w}
        BY <1>0, <1>1 DEF BookRests
    <2>2. w \notin {v \in Workbooks : stage[v] = "completed"}
        BY <1>0
    <2>3. review[w] # NoReview /\ review[w].edition = edition
            /\ review[w].result = Target(book[w], doc)
        BY <1>0 DEF BookOK
    <2>4. Versions!Apply(w)
        BY <1>0, <2>1, <2>2, <2>3 DEF Versions!Apply
    <2> QED
        BY <1>0, <2>4 DEF Implements, Versions!Next
<1>7. WorkbookApplied
    <2>1. ASSUME NEW d \in Docs
          PROVE  Contents(doc')[d] = IF book[w][d] = Kept THEN origin[w][d] ELSE book[w][d]
        BY <1>0, SnapshotsAssumption DEF BookOK, Target
    <2>2. Contents(doc') = [d \in Docs |-> Contents(doc')[d]]
        BY DEF Contents
    <2>3. Contents(doc') = [d \in Docs |-> IF book[w][d] = Kept THEN origin[w][d] ELSE book[w][d]]
        BY <2>1, <2>2
    <2> QED
        BY <1>1, <2>3 DEF BookRests, WorkbookApplied
<1> QED
    BY <1>0, <1>1, <1>2, <1>4, <1>5, <1>6, <1>7, BookKept DEF Upheld, OperatorsOK

-----------------------------------------------------------------------------
(* The operations on single documents *)

LEMMA DocumentSteps ==
    ASSUME SyncInv, [Next]_vars, UNCHANGED snapshots, UNCHANGED operators
    PROVE  LedgerInv' /\ Upheld /\ Implements /\ WorkbookApplied
<1>0. SyncTypeOK /\ LedgerInv /\ LedgerInv' /\ TypeOK' /\ Moves
    BY LedgerStep, LedgerMoves DEF SyncInv, LedgerInv
<1>1. /\ \A w \in Workbooks : BookOK(w)' /\ BookHolds(w)
      /\ WorkbookApplied
      /\ Same => Implements
    BY <1>0, BooksRest
<1>2. \A o \in Operators : OperatorOK(o)'
    BY <1>0, <1>1, OperatorKept DEF operators, OperatorRests
<1>3. edition' > edition => Implements
    <2>1. ASSUME edition' > edition PROVE Versions!Change
        BY <2>1 DEF snapshots, Versions!Change
    <2> QED
        BY <2>1 DEF Implements, Versions!Next
<1>4. SyncTypeOK'
    BY <1>0 DEF SyncTypeOK, snapshots, operators
<1> QED
    BY <1>0, <1>1, <1>2, <1>3, <1>4 DEF Upheld, Moves

-----------------------------------------------------------------------------
(* The theorems *)

LEMMA SyncInitially == SyncInit => SyncInv /\ Versions!Init
<1> SUFFICES ASSUME SyncInit PROVE SyncInv /\ Versions!Init
    OBVIOUS
<1>1. LedgerInv /\ TypeOK /\ edition = 1
    BY LedgerInit DEF SyncInit, LedgerInv, Init
<1>2. /\ NoBook \in [Docs -> Said \cup {Left}] /\ NoBook \in Book /\ 0 \in 0..MaxEdition
      /\ NoRows \in [Docs -> Row]
      /\ NoPlan \in [update : SUBSET Docs, create : SUBSET Docs,
                     exclude : SUBSET Docs, expected : [Docs -> Nat]]
      /\ NoReview \in [edition : 0..MaxEdition, result : [Docs -> Said \cup Entry \cup {Left}]]
    BY LedgerAssumption, GoneIsRow DEF NoBook, Book, NoRows, NoPlan, NoReview
<1>3. SyncTypeOK
    BY <1>1, <1>2 DEF SyncInit, SyncTypeOK, Stages
<1>4. (\A w \in Workbooks : BookOK(w)) /\ \A o \in Operators : OperatorOK(o)
    BY <1>1 DEF SyncInit, BookOK, OperatorOK
<1>5. Versions!Init
    BY <1>1 DEF SyncInit, Versions!Init
<1> QED
    BY <1>1, <1>3, <1>4, <1>5 DEF SyncInv

LEMMA SyncStep == SyncInv /\ [SyncNext]_allVars => SyncInv' /\ Implements /\ [WorkbookApplied]_allVars
<1> SUFFICES ASSUME SyncInv, [SyncNext]_allVars
             PROVE  SyncInv' /\ Implements /\ WorkbookApplied
    OBVIOUS
<1>1. CASE DocumentStep \/ UNCHANGED allVars
    BY <1>1, DocumentSteps DEF DocumentStep, allVars, SyncInv, Upheld
<1>2. ASSUME UNCHANGED vars, Upheld, Implements, WorkbookApplied
      PROVE  SyncInv' /\ Implements /\ WorkbookApplied
    BY <1>2, LedgerStep DEF SyncInv, Upheld
<1>3. ASSUME NEW w \in Workbooks, ExportStep(w) \/ UploadStep(w) \/ Cancel(w)
      PROVE  SyncInv' /\ Implements /\ WorkbookApplied
    BY <1>2, <1>3, ExportSteps, DiscardSteps
<1>4. ASSUME NEW o \in Operators, OperatorStep(o)
      PROVE  SyncInv' /\ Implements /\ WorkbookApplied
    <2>1. CASE ApplyCommit(o)
        BY <2>1, ApplyCommitStep DEF SyncInv, Upheld
    <2>2. CASE PrepareCommit(o)
        BY <1>2, <2>2, PrepareCommitStep
    <2>3. CASE PrepareFail(o) \/ MarkStale(o)
        BY <1>2, <2>3, DiscardSteps
    <2>4. CASE (\E w \in Workbooks : ApplyRead(o, w)) \/ ApplyAbort(o) \/ ApplyRefused(o)
                \/ OperatorLost(o)
        BY <1>2, <2>4, RequestsOfOperators
    <2>5. CASE \E w \in Workbooks : PrepareRead(o, w)
        BY <1>2, <2>5, PrepareReadStep
    <2> QED
        BY <1>4, <2>1, <2>2, <2>3, <2>4, <2>5 DEF OperatorStep
<1> QED
    BY <1>1, <1>3, <1>4 DEF SyncNext

\* The invariant of the synchronisation, with that of the ledger below it.
THEOREM SyncCorrect == SyncSpec => []SyncInv
BY SyncInitially, SyncStep, PTL DEF SyncSpec

\* prepareDocumentSnapshot and applyDocumentSnapshot: what was reviewed is what a
\* fresh comparison would say as long as the edition is in force, and the batch
\* then finds every row as it was reviewed.
THEOREM ReviewCorrect == SyncSpec => []ReviewHolds
<1>1. SyncInv => ReviewHolds
    <2> SUFFICES ASSUME SyncInv, NEW w \in Workbooks, stage[w] = "ready", base[w] = edition
                 PROVE  Applicable(w) /\ plan[w] = PlanOf(book[w], doc)
        BY DEF ReviewHolds
    <2>1. plan[w] = PlanOf(book[w], doc) /\ HistoryKept(book[w], doc)
        BY DEF SyncInv, BookOK
    <2>2. /\ plan[w].update = Changed(book[w], doc) /\ plan[w].create = Created(book[w], doc)
          /\ plan[w].exclude = Excluded(book[w], doc)
          /\ \A d \in Changed(book[w], doc) \cup Excluded(book[w], doc) :
                plan[w].expected[d] = doc[d].version
        BY <2>1 DEF PlanOf, Changed, Excluded
    <2> QED
        BY <2>1, <2>2 DEF Applicable, HistoryKept, Changed, Created, Excluded
<1> QED
    BY <1>1, SyncCorrect, PTL

\* Applying a workbook makes the ledger what the workbook says, its kept rows as
\* they were exported, although pages, review and batch are separate requests.
THEOREM WorkbookCorrect == SyncSpec => LedgerIsWorkbook
<1>1. SyncInv /\ [SyncNext]_allVars => [\A w \in Workbooks :
        stage[w] = "ready" /\ stage'[w] = "completed" =>
        Contents(doc') = [d \in Docs |-> IF book[w][d] = Kept THEN origin[w][d]
                                         ELSE book[w][d]]]_allVars
    BY SyncStep DEF WorkbookApplied
<1> QED
    BY <1>1, SyncCorrect, PTL DEF SyncSpec, LedgerIsWorkbook

\* The synchronisation implements LedgerVersions: review and application of a
\* workbook are single steps against one edition of the ledger.
THEOREM VersionsImplemented == SyncSpec => ImplementsVersions
<1>1. SyncInv /\ [SyncNext]_allVars => [Versions!Next]_(Versions!vars)
    BY SyncStep DEF Implements
<1> QED
    BY <1>1, SyncInitially, SyncCorrect, PTL DEF SyncSpec, ImplementsVersions, Versions!Spec
=============================================================================
