---------------------------- MODULE ImportJobsProofs ----------------------------
(***************************************************************************)
(* Proofs about ImportJobs over ReferenceData, for any racks, documents,   *)
(* pages and rows of a file.                                               *)
(*                                                                         *)
(* RowsOK ties the three tables of a job together: a row is completed by   *)
(* the transaction that makes its document, and the claim lets no other    *)
(* transaction touch it again.  ConfigOK is about the racks: as long as    *)
(* the version that the form has shown is in force, the look at the        *)
(* documents before the transaction still holds.                           *)
(***************************************************************************)
EXTENDS ImportJobs, FiniteSetTheorems, WellFoundedInduction, TLAPS

RackRow == [number : 0..RackCount, active : BOOLEAN, single : BOOLEAN, version : Nat]
DocRow == [state : {"none", "current", "excluded"}, ident : Idents, place : Places, row : Nat]
FormRow == [rack : Racks, version : Nat, want : RackRow, count : Nat, doc : DocRow]
JobRow == [status : {"none", "ready", "processing", "completed", "cancelled"},
           completed : Nat, failed : Nat]
ItemRow == [status : {"pending", "completed", "failed"}, made : Docs \cup {NoDoc}]
PageStates == {"idle", "process", "fail"}
Asked == {"idle", "form", "save", "add", "counts", "configure", "category", "create"}

TypedBase ==
    /\ rack \in [Racks -> RackRow] /\ doc \in [Docs -> DocRow] /\ edition \in Nat
    /\ category.version \in Nat
    /\ pc \in [Users -> Asked] /\ form \in [Users -> FormRow]
TypedImports ==
    /\ job \in JobRow /\ item \in [Rows -> ItemRow] /\ wanted \in [Rows -> DocRow]
    /\ ipc \in [Pages -> PageStates] /\ work \in [Pages -> 0..RowCount]

\* A rack in use exists, and only imports make documents with a row behind them.
RacksOK == \A r \in Racks : rack[r].active => rack[r].number # 0
FormOK(u) == (form[u].want.active => form[u].want.number # 0) /\ form[u].doc.row = 0
DocsOK == \A d \in Docs : doc[d].state = "none" => doc[d].row = 0

ConfigOK(u) ==
    /\ pc[u] \in {"counts", "configure"} => form[u].version <= edition
    /\ pc[u] = "configure" /\ form[u].version = edition =>
        \A d \in Current : rack[doc[d].place[1]].number <= form[u].count

WantedOK ==
    job.status # "none" => \A r \in Rows : wanted[r].row = r /\ wanted[r].state = "current"
WorkOK ==
    \A g \in Pages : ipc[g] # "idle" => work[g] \in Rows /\ job.status # "none"
RowsOK == WantedOK /\ WorkOK /\ RowsMakeOneDocument /\ CompletedIsCounted

BaseInv ==
    /\ TypedBase /\ RacksOK /\ DocsOK
    /\ \A u \in Users : FormOK(u) /\ ConfigOK(u)

ImportInv == BaseInv /\ TypedImports /\ RowsOK

-----------------------------------------------------------------------------
LEMMA NoPlaceTyped == NoPlace \in Places /\ NoPlace[1] \in Racks
<1>1. <<1, "A">> \in Places
    BY ReferenceAssumption DEF Places, Racks, Faces
<1>2. NoPlace \in Places
    BY <1>1 DEF NoPlace
<1> QED
    BY <1>2 DEF Places

LEMMA NoRowTyped == /\ NoRow \in DocRow /\ NoRow.row = 0 /\ NoRow.state = "none"
<1>1. (CHOOSE i \in Idents : TRUE) \in Idents
    BY ReferenceAssumption
<1> QED
    BY <1>1, NoPlaceTyped DEF NoRow, DocRow

LEMMA NoRackTyped == NoRack \in RackRow /\ NoRack.number = 0 /\ ~NoRack.active
BY ReferenceAssumption DEF NoRack, RackRow

LEMMA NoFormTyped ==
    /\ NoForm \in FormRow /\ ~NoForm.want.active /\ NoForm.doc.row = 0
BY NoPlaceTyped, NoRowTyped, NoRackTyped DEF NoForm, FormRow

\* The id of a new document is one that was not used.
LEMMA NextIdUnused == Unused # {} => NextId \in Unused
<1> SUFFICES ASSUME Unused # {} PROVE NextId \in Unused
    OBVIOUS
<1>1. Unused \in SUBSET Nat
    BY ReferenceAssumption DEF Unused
<1>2. PICK R : IsWellFoundedOn(R, Nat) /\ \A d, e \in Nat : e < d => <<e, d>> \in R
    <2>1. \A d, e \in Nat : e < d => <<e, d>> \in OpToRel(<, Nat)
        BY DEF OpToRel
    <2> QED
        BY <2>1, NatLessThanWellFounded
<1>3. PICK d \in Unused : \A e \in Unused : ~(<<e, d>> \in R)
    BY <1>1, <1>2, WFMin
<1>4. ASSUME NEW e \in Unused PROVE d <= e
    <2>1. d \in Nat /\ e \in Nat
        BY <1>1
    <2>2. ~(e < d)
        BY <1>2, <1>3, <2>1, Zenon
    <2> QED
        BY <2>1, <2>2
<1> QED
    BY <1>4 DEF NextId

LEMMA CountTyped == ASSUME NEW table, NEW status PROVE With(table, status) \in Nat
<1>1. IsFiniteSet(Rows)
    BY ImportAssumption, FS_Interval DEF Rows
<1>2. IsFiniteSet({r \in Rows : table[r].status = status})
    BY <1>1, FS_Subset
<1> QED
    BY <1>2, FS_CardinalityType DEF With

LEMMA ImportsInit == ImportInit => ImportInv
<1> SUFFICES ASSUME ImportInit PROVE ImportInv
    OBVIOUS
<1>1. \A r \in Racks : rack[r] \in RackRow /\ (rack[r].active => rack[r].number # 0)
    <2> SUFFICES ASSUME NEW r \in Racks
                 PROVE  rack[r] \in RackRow /\ (rack[r].active => rack[r].number # 0)
        OBVIOUS
    <2>1. CASE r = RackCount
        BY <2>1, NoRackTyped DEF ImportInit, Init
    <2>2. CASE r # RackCount
        <3>1. rack[r] = [number |-> r, active |-> TRUE, single |-> FALSE, version |-> 1]
            BY <2>2 DEF ImportInit, Init
        <3>2. r \in 0..RackCount /\ r # 0
            BY ReferenceAssumption DEF Racks
        <3> QED
            BY <3>1, <3>2 DEF RackRow
    <2> QED
        BY <2>1, <2>2
<1>2. TypedBase /\ RacksOK /\ DocsOK
    BY <1>1, NoRowTyped, NoFormTyped DEF ImportInit, Init, TypedBase, RacksOK, DocsOK, Asked
<1>3. \A u \in Users : FormOK(u) /\ ConfigOK(u)
    BY NoFormTyped DEF ImportInit, Init, FormOK, ConfigOK
<1>4. TypedImports
    BY ImportAssumption, NoRowTyped DEF ImportInit, TypedImports, JobRow, ItemRow, NoItem, PageStates
<1>5. RowsOK
    <2>1. \A d \in Docs : doc[d].row = 0
        BY NoRowTyped DEF ImportInit, Init
    <2>2. \A r \in Rows : r # 0 /\ item[r].status = "pending"
        BY DEF ImportInit, NoItem, Rows
    <2>3. job.status = "none"
        BY DEF ImportInit
    <2>4. WorkOK
        BY DEF ImportInit, WorkOK
    <2> QED
        BY <2>1, <2>2, <2>3, <2>4 DEF RowsOK, WantedOK, RowsMakeOneDocument, CompletedIsCounted
<1> QED
    BY <1>2, <1>3, <1>4, <1>5 DEF ImportInv, BaseInv

-----------------------------------------------------------------------------
\* What was found at a version that is still in force is still so, since whatever
\* changes racks or documents raises the version.
Later ==
    /\ edition <= edition'
    /\ edition' = edition => UNCHANGED <<rack, doc>>
FormStays(u) == pc'[u] = pc[u] /\ form'[u] = form[u]

LEMMA BaseKept ==
    ASSUME BaseInv, TypedBase', Later, RacksOK', DocsOK',
           \A u \in Users : FormStays(u) \/ (FormOK(u)' /\ ConfigOK(u)')
    PROVE  BaseInv'
<1> SUFFICES ASSUME NEW u \in Users, FormStays(u)
             PROVE  FormOK(u)' /\ ConfigOK(u)'
    BY DEF BaseInv
<1>1. FormOK(u) /\ ConfigOK(u)
    BY DEF BaseInv
<1>2. FormOK(u)'
    BY <1>1 DEF FormOK, FormStays
<1>3. form[u].version \in Nat /\ edition \in Nat /\ edition' \in Nat
    BY DEF BaseInv, TypedBase, FormRow
<1>4. pc[u] \in {"counts", "configure"} => form[u].version <= edition'
    BY <1>1, <1>3 DEF ConfigOK, Later
<1>5. ASSUME pc[u] = "configure", form[u].version = edition'
      PROVE  \A d \in Current' : rack'[doc'[d].place[1]].number <= form[u].count
    <2>1. edition' = edition
        BY <1>1, <1>3, <1>5 DEF ConfigOK, Later
    <2>2. rack' = rack /\ doc' = doc /\ Current' = Current
        BY <2>1 DEF Later, Current
    <2> QED
        BY <1>1, <1>5, <2>1, <2>2 DEF ConfigOK
<1> QED
    BY <1>2, <1>4, <1>5 DEF ConfigOK, FormStays

LEMMA GotoTyped ==
    ASSUME BaseInv, NEW u \in Users, NEW a \in Asked, NEW f \in FormRow, Goto(u, a, f)
    PROVE  /\ pc' \in [Users -> Asked] /\ form' \in [Users -> FormRow]
           /\ pc'[u] = a /\ form'[u] = f
           /\ \A v \in Users \ {u} : FormStays(v)
BY DEF Goto, BaseInv, TypedBase, FormStays

\* A request goes on to a step other than those of the form of all racks.
LEMMA GotoKept ==
    ASSUME BaseInv, NEW u \in Users, NEW a \in Asked \ {"counts", "configure"},
           NEW f \in FormRow, Goto(u, a, f),
           f.want.active => f.want.number # 0, f.doc.row = 0,
           rack' \in [Racks -> RackRow], doc' \in [Docs -> DocRow], edition' \in Nat,
           category'.version \in Nat,
           Later, RacksOK', DocsOK'
    PROVE  BaseInv'
<1>1. /\ pc' \in [Users -> Asked] /\ form' \in [Users -> FormRow]
      /\ pc'[u] = a /\ form'[u] = f
      /\ \A v \in Users \ {u} : FormStays(v)
    BY GotoTyped
<1>2. FormOK(u)' /\ ConfigOK(u)'
    BY <1>1 DEF FormOK, ConfigOK
<1>3. TypedBase'
    BY <1>1 DEF TypedBase
<1> QED
    BY <1>1, <1>2, <1>3, BaseKept

LEMMA BaseStays ==
    ASSUME BaseInv, UNCHANGED base
    PROVE  /\ rack' \in [Racks -> RackRow] /\ doc' \in [Docs -> DocRow] /\ edition' \in Nat
           /\ category'.version \in Nat /\ Later /\ RacksOK' /\ DocsOK'
BY DEF BaseInv, TypedBase, base, Later, RacksOK, DocsOK

LEMMA DoneKept ==
    ASSUME BaseInv, NEW u \in Users, Done(u),
           rack' \in [Racks -> RackRow], doc' \in [Docs -> DocRow], edition' \in Nat,
           category'.version \in Nat,
           Later, RacksOK', DocsOK'
    PROVE  BaseInv'
<1>1. Goto(u, "idle", NoForm) /\ "idle" \in Asked \ {"counts", "configure"}
    BY DEF Done, Asked
<1> QED
    BY <1>1, GotoKept, NoFormTyped

\* The steps that read.
LEMMA ReadSteps ==
    ASSUME BaseInv, NEW u \in Users,
           \/ \E r \in Racks : OpenRackForm(u, r)
           \/ \E n \in Numbers, a, s \in BOOLEAN :
                \/ SaveRack(u, [number |-> n, active |-> a, single |-> s, version |-> 0])
                \/ AddRack(u, [number |-> n, active |-> a, single |-> s, version |-> 0])
           \/ OpenCounts(u)
           \/ \E n \in {0} \cup Numbers : Configure(u, n)
           \/ OpenCategory(u)
           \/ \E i \in Idents, p \in Places : CreateCheck(u, i, p)
           \/ RequestLost(u)
    PROVE  BaseInv' /\ UNCHANGED base
<1>0. UNCHANGED base
    BY DEF OpenRackForm, SaveRack, AddRack, OpenCounts, Configure, OpenCategory, CreateCheck, RequestLost
<1>1. CASE Done(u)
    BY <1>0, <1>1, BaseStays, DoneKept
<1>2. ASSUME NEW a \in Asked \ {"counts", "configure"}, NEW f \in FormRow, Goto(u, a, f),
             f.want.active => f.want.number # 0, f.doc.row = 0
      PROVE  BaseInv'
    BY <1>0, <1>2, BaseStays, GotoKept
<1>3. ASSUME NEW r \in Racks, OpenRackForm(u, r) PROVE BaseInv'
    <2> PICK f : f = [NoForm EXCEPT !.rack = r, !.version = rack[r].version]
        OBVIOUS
    <2>1. f \in FormRow /\ f.want = NoForm.want /\ f.doc = NoForm.doc
        BY NoFormTyped DEF FormRow, BaseInv, TypedBase, RackRow
    <2>2. Goto(u, "form", f) /\ "form" \in Asked \ {"counts", "configure"}
        BY <1>3 DEF OpenRackForm, Asked
    <2> QED
        BY <1>2, <2>1, <2>2, NoFormTyped
<1>4. ASSUME NEW n \in Numbers, NEW a \in BOOLEAN, NEW s \in BOOLEAN, NEW want,
             want = [number |-> n, active |-> a, single |-> s, version |-> 0],
             SaveRack(u, want) \/ AddRack(u, want), ~Done(u)
      PROVE  BaseInv'
    <2>1. want \in RackRow /\ want.number # 0
        BY <1>4, ReferenceAssumption DEF RackRow, Numbers
    <2>2. form[u] \in FormRow /\ form[u].doc.row = 0 /\ \A r \in Racks : rack[r].version \in Nat
        BY DEF BaseInv, TypedBase, FormOK, RackRow
    <2>3. ASSUME NEW f \in FormRow, NEW b \in {"save", "add"}, Goto(u, b, f),
                 f.want = want, f.doc.row = 0
          PROVE  BaseInv'
        BY <1>2, <2>1, <2>3 DEF Asked
    <2>4. CASE SaveRack(u, want)
        <3> PICK f : f = [form[u] EXCEPT !.want = want]
            OBVIOUS
        <3>1. f \in FormRow /\ f.want = want /\ f.doc = form[u].doc
            BY <2>1, <2>2 DEF FormRow
        <3>2. Goto(u, "save", f)
            BY <1>4, <2>4 DEF SaveRack
        <3> QED
            BY <2>2, <2>3, <3>1, <3>2
    <2>5. CASE AddRack(u, want) /\ Goto(u, "add", [NoForm EXCEPT !.want = want])
        <3> PICK f : f = [NoForm EXCEPT !.want = want]
            OBVIOUS
        <3>1. f \in FormRow /\ f.want = want /\ f.doc.row = 0
            BY <2>1, NoFormTyped DEF FormRow
        <3> QED
            BY <2>3, <2>5, <3>1
    <2>6. ASSUME NEW r \in Racks,
                 Goto(u, "save", [NoForm EXCEPT !.rack = r, !.version = rack[r].version, !.want = want])
          PROVE  BaseInv'
        <3> PICK f : f = [NoForm EXCEPT !.rack = r, !.version = rack[r].version, !.want = want]
            OBVIOUS
        <3>1. f \in FormRow /\ f.want = want /\ f.doc.row = 0
            BY <2>1, <2>2, NoFormTyped DEF FormRow
        <3> QED
            BY <2>3, <2>6, <3>1
    <2> QED
        BY <1>4, <2>4, <2>5, <2>6 DEF AddRack, Numbered
<1>5. CASE OpenCategory(u)
    <2> PICK f : f = [NoForm EXCEPT !.version = category.version]
        OBVIOUS
    <2>1. f \in FormRow /\ f.want = NoForm.want /\ f.doc = NoForm.doc
        BY NoFormTyped DEF FormRow, BaseInv, TypedBase
    <2>2. Goto(u, "category", f) /\ "category" \in Asked \ {"counts", "configure"}
        BY <1>5 DEF OpenCategory, Asked
    <2> QED
        BY <1>0, <1>2, <2>1, <2>2, NoFormTyped
<1>6. ASSUME NEW i \in Idents, NEW p \in Places, CreateCheck(u, i, p) PROVE BaseInv'
    <2> PICK row : row = [NoRow EXCEPT !.state = "current", !.ident = i, !.place = p]
        OBVIOUS
    <2>1. row \in DocRow /\ row.row = 0
        BY NoRowTyped DEF DocRow
    <2> PICK f : f = [NoForm EXCEPT !.doc = row]
        OBVIOUS
    <2>2. f \in FormRow /\ f.want = NoForm.want /\ f.doc = row
        BY <2>1, NoFormTyped DEF FormRow
    <2>3. Goto(u, "create", f) /\ "create" \in Asked \ {"counts", "configure"}
        BY <1>6 DEF CreateCheck, Asked
    <2> QED
        BY <1>2, <2>1, <2>2, <2>3, NoFormTyped
\* The form of all racks shows the version in force, and its request looks at the
\* documents while the version that it shows may still be that.
<1>7. ASSUME NEW a \in {"counts", "configure"}, NEW f \in FormRow, Goto(u, a, f),
             f.want.active => f.want.number # 0, f.doc.row = 0, f.version <= edition,
             a = "configure" => \A d \in Current : rack[doc[d].place[1]].number <= f.count
      PROVE  BaseInv'
    <2>1. a \in Asked
        BY DEF Asked
    <2>2. /\ pc' \in [Users -> Asked] /\ form' \in [Users -> FormRow]
          /\ pc'[u] = a /\ form'[u] = f
          /\ \A v \in Users \ {u} : FormStays(v)
        BY <1>7, <2>1, GotoTyped
    <2>3. TypedBase'
        BY <1>0, <2>2, BaseStays DEF TypedBase
    <2>4. FormOK(u)' /\ ConfigOK(u)'
        BY <1>0, <1>7, <2>2 DEF FormOK, ConfigOK, base, Current
    <2> QED
        BY <1>0, <2>2, <2>3, <2>4, BaseStays, BaseKept
<1>8. CASE OpenCounts(u)
    <2> PICK f : f = [NoForm EXCEPT !.version = edition]
        OBVIOUS
    <2>1. f \in FormRow /\ f.want = NoForm.want /\ f.doc = NoForm.doc /\ f.version = edition
        BY NoFormTyped DEF FormRow, BaseInv, TypedBase
    <2>2. Goto(u, "counts", f) /\ edition <= edition
        BY <1>8 DEF OpenCounts, BaseInv, TypedBase
    <2> QED
        BY <1>0, <1>7, <2>1, <2>2, NoFormTyped
<1>9. ASSUME NEW n \in {0} \cup Numbers, Configure(u, n), ~Done(u) PROVE BaseInv'
    <2> PICK f : f = [form[u] EXCEPT !.count = n]
        OBVIOUS
    <2>1. /\ Goto(u, "configure", f) /\ pc[u] = "counts"
          /\ \A d \in Current : rack[doc[d].place[1]].number <= n
        BY <1>9 DEF Configure
    <2>2. form[u] \in FormRow /\ FormOK(u) /\ form[u].version <= edition /\ n \in Nat
        BY <2>1, ReferenceAssumption DEF BaseInv, TypedBase, ConfigOK, Numbers
    <2>3. /\ f \in FormRow /\ f.want = form[u].want /\ f.doc = form[u].doc
          /\ f.version = form[u].version /\ f.count = n
        BY <2>2 DEF FormRow
    <2> QED
        BY <1>7, <2>1, <2>2, <2>3 DEF FormOK
<1> QED
    BY <1>0, <1>1, <1>3, <1>4, <1>5, <1>6, <1>8, <1>9 DEF RequestLost

\* The batches of the requests.  Each raises the version if it changes anything.
LEMMA CommitLater ==
    ASSUME BaseInv, Commit
    PROVE  edition' \in Nat /\ Later
BY DEF BaseInv, TypedBase, Commit, Raise, Later

LEMMA RackCommits ==
    ASSUME BaseInv, NEW u \in Users,
           \/ SaveRackCommit(u)
           \/ \E r \in Racks : AddRackCommit(u, r)
           \/ \E f \in [Racks -> Numbers] : ConfigureCommit(u, f)
    PROVE  BaseInv' /\ UNCHANGED doc
<1>0. /\ UNCHANGED <<category, doc>> /\ Done(u)
      /\ rack \in [Racks -> RackRow] /\ doc \in [Docs -> DocRow] /\ edition \in Nat
      /\ category.version \in Nat /\ DocsOK
    BY DEF SaveRackCommit, AddRackCommit, ConfigureCommit, BaseInv, TypedBase
<1>1. CASE UNCHANGED <<rack, edition, locked>>
    BY <1>0, <1>1, BaseStays, DoneKept DEF base
<1>2. ASSUME Commit, rack' \in [Racks -> RackRow], RacksOK'
      PROVE  BaseInv'
    <2>1. DocsOK'
        BY <1>0 DEF DocsOK
    <2> QED
        BY <1>0, <1>2, <2>1, CommitLater, DoneKept
<1>3. ASSUME Commit, NEW r \in Racks, NEW row \in RackRow, rack' = [rack EXCEPT ![r] = row],
             row.active => row.number # 0
      PROVE  BaseInv'
    <2>1. rack' \in [Racks -> RackRow] /\ \A q \in Racks : rack'[q] = IF q = r THEN row ELSE rack[q]
        BY <1>0, <1>3
    <2>2. RacksOK'
        BY <1>3, <2>1 DEF BaseInv, RacksOK
    <2> QED
        BY <1>2, <1>3, <2>1, <2>2
<1>4. form[u] \in FormRow /\ form[u].rack \in Racks /\ form[u].want \in RackRow
      /\ form[u].version + 1 \in Nat /\ FormOK(u)
    BY DEF BaseInv, TypedBase, FormRow
<1>5. ASSUME NEW v \in Nat, NEW row, row = [form[u].want EXCEPT !.version = v]
      PROVE  row \in RackRow /\ (row.active => row.number # 0)
    BY <1>4, <1>5 DEF RackRow, FormOK
<1>6. CASE SaveRackCommit(u) /\ ~UNCHANGED <<rack, edition, locked>>
    <2>1. Commit /\ rack' = [rack EXCEPT ![form[u].rack] = [form[u].want EXCEPT !.version = form[u].version + 1]]
        BY <1>6 DEF SaveRackCommit
    <2> QED
        BY <1>0, <1>3, <1>4, <1>5, <2>1
<1>7. ASSUME NEW r \in Racks, AddRackCommit(u, r), ~UNCHANGED <<rack, edition, locked>>
      PROVE  BaseInv'
    <2>1. Commit /\ rack' = [rack EXCEPT ![r] = [form[u].want EXCEPT !.version = 1]]
        BY <1>7 DEF AddRackCommit
    <2> QED
        BY <1>0, <1>3, <1>4, <1>5, <2>1
<1>8. ASSUME NEW f \in [Racks -> Numbers], ConfigureCommit(u, f), ~UNCHANGED <<rack, edition, locked>>
      PROVE  BaseInv'
    <2>1. /\ Commit
          /\ rack' = [r \in Racks |->
                  [number |-> f[r], active |-> f[r] <= form[u].count,
                   single |-> rack[r].single, version |-> rack[r].version + 1]]
        BY <1>8 DEF ConfigureCommit
    <2>2. ASSUME NEW r \in Racks PROVE rack'[r] \in RackRow /\ rack'[r].number # 0
        <3>1. f[r] \in 0..RackCount /\ f[r] # 0 /\ (f[r] <= form[u].count) \in BOOLEAN
            BY ReferenceAssumption DEF Numbers
        <3>2. rack[r].single \in BOOLEAN /\ rack[r].version + 1 \in Nat
            BY <1>0 DEF RackRow
        <3> QED
            BY <2>1, <3>1, <3>2 DEF RackRow
    <2> QED
        BY <1>2, <2>1, <2>2 DEF RacksOK
<1> QED
    BY <1>0, <1>1, <1>6, <1>7, <1>8

\* The rows of import jobs behind the documents stay when others change documents.
SameRows ==
    \A d \in Docs : doc'[d].row = doc[d].row

LEMMA OtherCommits ==
    ASSUME BaseInv,
           \/ \E u \in Users, active \in BOOLEAN : SaveCategory(u, active)
           \/ \E u \in Users : CreateCommit(u)
           \/ \E d \in Docs : ExcludeDocument(d) \/ \E p \in Places : MoveDocument(d, p)
    PROVE  BaseInv' /\ SameRows
<1>0. /\ UNCHANGED rack /\ RacksOK'
      /\ rack \in [Racks -> RackRow] /\ doc \in [Docs -> DocRow] /\ edition \in Nat
      /\ category.version \in Nat /\ DocsOK
    BY DEF SaveCategory, CreateCommit, ExcludeDocument, MoveDocument, BaseInv, TypedBase, RacksOK
<1>1. ASSUME NEW u \in Users, NEW active \in BOOLEAN, SaveCategory(u, active)
      PROVE  BaseInv' /\ SameRows
    <2>1. Done(u) /\ UNCHANGED doc /\ DocsOK' /\ form[u].version \in Nat
        BY <1>0, <1>1 DEF SaveCategory, DocsOK, BaseInv, TypedBase, FormRow
    <2>2. CASE category'.version = form[u].version + 1 /\ Commit
        BY <1>0, <2>1, <2>2, CommitLater, DoneKept DEF SameRows
    <2>3. CASE UNCHANGED <<category, edition, locked>>
        BY <1>0, <2>1, <2>3, BaseStays, DoneKept DEF SameRows, base
    <2> QED
        BY <1>1, <2>2, <2>3 DEF SaveCategory
<1>2. ASSUME NEW u \in Users, CreateCommit(u) PROVE BaseInv' /\ SameRows
    <2>1. Done(u) /\ UNCHANGED category /\ NextId \in Unused
        BY <1>2, NextIdUnused DEF CreateCommit
    <2>2. CASE UNCHANGED <<doc, edition, locked>>
        BY <1>0, <2>1, <2>2, BaseStays, DoneKept DEF SameRows, base
    <2>3. CASE Commit /\ doc' = [doc EXCEPT ![NextId] = form[u].doc]
        <3> PICK d \in Docs : d = NextId
            BY <2>1 DEF Unused
        <3>1. doc[d].state = "none" /\ doc[d].row = 0 /\ form[u].doc \in DocRow /\ form[u].doc.row = 0
            BY <2>1 DEF Unused, BaseInv, DocsOK, TypedBase, FormRow, FormOK
        <3>2. doc' \in [Docs -> DocRow] /\ \A e \in Docs : doc'[e] = IF e = d THEN form[u].doc ELSE doc[e]
            BY <1>0, <2>3, <3>1
        <3>3. SameRows /\ DocsOK'
            BY <1>0, <3>1, <3>2 DEF SameRows, DocsOK
        <3> QED
            BY <1>0, <2>1, <2>3, <3>2, <3>3, CommitLater, DoneKept
    <2> QED
        BY <1>2, <2>2, <2>3 DEF CreateCommit
<1>3. ASSUME NEW d \in Docs, NEW row \in DocRow, row.row = doc[d].row, row.state # "none",
             doc' = [doc EXCEPT ![d] = row], Commit, UNCHANGED <<category, pc, form>>
      PROVE  BaseInv' /\ SameRows
    <2>1. doc' \in [Docs -> DocRow] /\ \A e \in Docs : doc'[e] = IF e = d THEN row ELSE doc[e]
        BY <1>0, <1>3
    <2>2. SameRows /\ DocsOK'
        BY <1>0, <1>3, <2>1 DEF SameRows, DocsOK
    <2>3. TypedBase'
        BY <1>0, <1>3, <2>1, CommitLater DEF BaseInv, TypedBase
    <2> QED
        BY <1>0, <1>3, <2>2, <2>3, CommitLater, BaseKept DEF FormStays
<1>4. ASSUME NEW d \in Docs, ExcludeDocument(d) \/ \E p \in Places : MoveDocument(d, p)
      PROVE  BaseInv' /\ SameRows
    <2>1. /\ doc[d].state = "current" /\ doc[d] \in DocRow
          /\ Commit /\ UNCHANGED <<category, pc, form>>
        BY <1>0, <1>4 DEF ExcludeDocument, MoveDocument, Current
    <2>2. PICK row : /\ doc' = [doc EXCEPT ![d] = row]
                     /\ \/ row = [doc[d] EXCEPT !.state = "excluded"]
                        \/ \E p \in Places : row = [doc[d] EXCEPT !.place = p]
        BY <1>4 DEF ExcludeDocument, MoveDocument
    <2>3. row \in DocRow /\ row.row = doc[d].row /\ row.state # "none"
        BY <2>1, <2>2 DEF DocRow
    <2> QED
        BY <1>3, <2>1, <2>2, <2>3
<1> QED
    BY <1>1, <1>2, <1>4

\* A load reserves the ledger, and adds a document that no import has made.
LEMMA LoadCommits ==
    ASSUME BaseInv, LoadBegins \/ \E i \in Idents, p \in Places : LoadEnds(i, p)
    PROVE  BaseInv' /\ SameRows
<1>0. /\ UNCHANGED <<rack, category, pc, form>> /\ RacksOK'
      /\ rack \in [Racks -> RackRow] /\ doc \in [Docs -> DocRow] /\ edition \in Nat
      /\ category.version \in Nat /\ DocsOK
    BY DEF LoadBegins, LoadEnds, BaseInv, TypedBase, RacksOK
<1>1. CASE LoadBegins
    <2>1. UNCHANGED <<doc, edition>> /\ SameRows /\ DocsOK' /\ Later /\ TypedBase'
        BY <1>0, <1>1 DEF LoadBegins, SameRows, DocsOK, Later, BaseInv, TypedBase
    <2> QED
        BY <1>0, <2>1, BaseKept DEF FormStays
<1>2. ASSUME NEW i \in Idents, NEW p \in Places, LoadEnds(i, p)
      PROVE  BaseInv' /\ SameRows
    <2> PICK row : row = [NoRow EXCEPT !.state = "current", !.ident = i, !.place = p]
        OBVIOUS
    <2>1. row \in DocRow /\ row.row = 0 /\ row.state = "current"
        BY NoRowTyped DEF DocRow
    <2> PICK d \in Docs : d = NextId /\ doc[d].state = "none" /\ doc[d].row = 0
        BY <1>0, <1>2, NextIdUnused DEF LoadEnds, Unused, DocsOK
    <2>2. doc' = [doc EXCEPT ![d] = row] /\ Raise
        BY <1>2 DEF LoadEnds
    <2>3. doc' \in [Docs -> DocRow] /\ \A e \in Docs : doc'[e] = IF e = d THEN row ELSE doc[e]
        BY <1>0, <2>1, <2>2
    <2>4. edition' \in Nat /\ Later
        BY <1>0, <2>2 DEF Raise, Later
    <2>5. SameRows /\ DocsOK'
        BY <1>0, <2>1, <2>3 DEF SameRows, DocsOK
    <2>6. TypedBase'
        BY <1>0, <2>3, <2>4 DEF BaseInv, TypedBase
    <2> QED
        BY <1>0, <2>4, <2>5, <2>6, BaseKept DEF FormStays
<1> QED
    BY <1>1, <1>2

\* The requests of ReferenceData, which know nothing of the job.
LEMMA ReferenceKept ==
    ASSUME BaseInv, ReferenceStep
    PROVE  BaseInv' /\ SameRows
<1>1. UNCHANGED doc => SameRows
    BY DEF SameRows
<1>2. ASSUME NEW u \in Users, NEW n \in Numbers, NEW a \in BOOLEAN, NEW s \in BOOLEAN,
             LET want == [number |-> n, active |-> a, single |-> s, version |-> 0]
             IN  SaveRack(u, want) \/ (a /\ AddRack(u, want))
      PROVE  BaseInv' /\ UNCHANGED base
    BY <1>2, ReadSteps
<1>3. ASSUME NEW u \in Users,
             \/ \E r \in Racks : OpenRackForm(u, r) \/ AddRackCommit(u, r)
             \/ SaveRackCommit(u) \/ OpenCounts(u)
             \/ \E n \in {0} \cup Numbers : Configure(u, n)
             \/ \E f \in [Racks -> Numbers] : ConfigureCommit(u, f)
             \/ OpenCategory(u) \/ \E a \in BOOLEAN : SaveCategory(u, a)
             \/ \E i \in Idents, p \in Places : CreateCheck(u, i, p)
             \/ CreateCommit(u) \/ RequestLost(u)
      PROVE  BaseInv' /\ SameRows
    BY <1>1, <1>3, ReadSteps, RackCommits, OtherCommits DEF base
<1> QED
    BY <1>1, <1>2, <1>3, OtherCommits, LoadCommits DEF ReferenceStep, base

-----------------------------------------------------------------------------
(* The steps of the job *)

LEMMA RowsStay ==
    ASSUME ImportInv, SameRows, UNCHANGED imports
    PROVE  TypedImports' /\ RowsOK'
<1>1. \A r \in Rows : {d \in Docs : doc'[d].row = r} = {d \in Docs : doc[d].row = r}
    BY DEF SameRows
<1>2. RowsMakeOneDocument'
    BY <1>1 DEF ImportInv, RowsOK, RowsMakeOneDocument, imports
<1> QED
    BY <1>2 DEF ImportInv, TypedImports, RowsOK, WantedOK, WorkOK, CompletedIsCounted, imports, Pending, With

\* The base is not touched, and no row is completed.
LEMMA JobKept ==
    ASSUME ImportInv, UNCHANGED <<base, pc, form>>, TypedImports',
           WantedOK', WorkOK',
           \A r \in Rows : \/ item'[r] = item[r]
                           \/ item[r].status = "pending" /\ item'[r].status = "failed",
           CompletedIsCounted'
    PROVE  ImportInv'
<1>1. BaseInv'
    BY DEF ImportInv, BaseInv, base, TypedBase, RacksOK, DocsOK, FormOK, ConfigOK, Current
<1>2. RowsMakeOneDocument'
    BY DEF ImportInv, RowsOK, RowsMakeOneDocument, base
<1> QED
    BY <1>1, <1>2 DEF ImportInv, RowsOK

\* The aggregate of a table is right if no row of a completed job is pending in it.
LEMMA AggregateRight ==
    ASSUME ImportInv, NEW table \in [Rows -> ItemRow], job.status # "none",
           job.status = "completed" => Pending(table) = {},
           item' = table, job' = Aggregated(table)
    PROVE  /\ job' \in JobRow /\ CompletedIsCounted' /\ job'.status # "none"
           /\ job.status = "cancelled" => job'.status = "cancelled"
<1>1. With(table, "failed") \in Nat /\ Made(table) \in Nat
    BY CountTyped DEF Made
<1>2. job.status \in {"none", "ready", "processing", "completed", "cancelled"}
    BY DEF ImportInv, TypedImports, JobRow
<1>3. /\ Status(table) \in {"ready", "processing", "completed", "cancelled"}
      /\ Status(table) = "completed" => Pending(table) = {}
      /\ job.status = "cancelled" => Status(table) = "cancelled"
    BY <1>2 DEF Status, Open
<1>4. /\ job'.status = Status(table) /\ job'.completed = With(table, "completed")
      /\ job'.failed = With(table, "failed") /\ job' \in JobRow
    BY <1>1, <1>3 DEF Aggregated, Made, JobRow
<1> QED
    BY <1>3, <1>4 DEF CompletedIsCounted

\* A job that is under way has rows with their numbers behind what they want.
LEMMA PagesKnow ==
    ASSUME ImportInv
    PROVE  /\ Open => job.status # "none" /\ job.status # "completed" /\ job.status # "cancelled"
           /\ job.status = "completed" => Pending(item) = {}
           /\ item \in [Rows -> ItemRow] /\ job \in JobRow
BY DEF ImportInv, RowsOK, CompletedIsCounted, Open, TypedImports

\* A page goes on with a row of the job, or is done.
LEMMA WorkKept ==
    ASSUME ImportInv, NEW g \in Pages, NEW a \in PageStates, NEW r \in 0..RowCount, IGoto(g, a, r),
           a # "idle" => r \in Rows /\ job.status # "none",
           job.status # "none" => job'.status # "none"
    PROVE  WorkOK' /\ work' \in [Pages -> 0..RowCount] /\ ipc' \in [Pages -> PageStates]
BY DEF ImportInv, RowsOK, TypedImports, WorkOK, IGoto

LEMMA DoneOK ==
    ASSUME ImportInv, NEW g \in Pages, IDone(g), job'.status # "none"
    PROVE  WorkOK' /\ work' \in [Pages -> 0..RowCount] /\ ipc' \in [Pages -> PageStates]
<1>1. "idle" \in PageStates /\ 0 \in 0..RowCount
    BY ImportAssumption DEF PageStates
<1>2. IGoto(g, "idle", 0)
    BY DEF IDone
<1> QED
    BY <1>1, <1>2, WorkKept

\* The steps that leave the documents alone.
LEMMA QuietSteps ==
    ASSUME ImportInv,
           \/ \E w \in Files : CreateJob(w)
           \/ CancelJob
           \/ \E g \in Pages : \/ ProcessRead(g) \/ ProcessRefuses(g) \/ ProcessAborts(g)
                               \/ ProcessThrows(g) \/ ProcessSkips(g) \/ FailItem(g) \/ PageFault(g)
    PROVE  /\ ImportInv' /\ UNCHANGED doc
           /\ job.status = "cancelled" => item' = item /\ job'.status = "cancelled"
<1>0. UNCHANGED <<base, pc, form>> /\ UNCHANGED doc
    BY DEF CreateJob, CancelJob, ProcessRead, ProcessRefuses, ProcessAborts, ProcessThrows,
        ProcessSkips, FailItem, PageFault, base
<1>1. TypedImports /\ RowsOK /\ \A r \in Rows : r \in 0..RowCount
    BY ImportAssumption DEF ImportInv, Rows
<1>2. /\ UNCHANGED wanted /\ (job.status # "none") => WantedOK'
      /\ UNCHANGED <<wanted, job>> => WantedOK'
      /\ UNCHANGED <<item, job>> => CompletedIsCounted'
    BY <1>1 DEF RowsOK, WantedOK, CompletedIsCounted, Pending, With
<1>3. ASSUME NEW w \in Files, CreateJob(w)
      PROVE  ImportInv' /\ UNCHANGED item /\ job.status # "cancelled"
    <2>1. ASSUME NEW r \in Rows
          PROVE  wanted'[r] \in DocRow /\ wanted'[r].row = r /\ wanted'[r].state = "current"
        <3>1. r \in Nat
            BY ImportAssumption DEF Rows
        <3>2. w[r] \in DocRow /\ w[r].state = "current"
            BY DEF Files, DocRow
        <3>3. wanted'[r] = [w[r] EXCEPT !.row = r]
            BY <1>3 DEF CreateJob
        <3> QED
            BY <3>1, <3>2, <3>3 DEF DocRow
    <2>2. wanted' \in [Rows -> DocRow] /\ WantedOK'
        BY <1>3, <2>1 DEF CreateJob, WantedOK
    <2>3. /\ job' \in JobRow /\ job'.status = "ready" /\ job.status = "none"
          /\ UNCHANGED <<item, ipc, work>>
        BY <1>1, <1>3 DEF CreateJob, TypedImports, JobRow
    <2>4. TypedImports' /\ WorkOK' /\ CompletedIsCounted'
        BY <1>1, <2>2, <2>3 DEF TypedImports, RowsOK, WorkOK, CompletedIsCounted
    <2> QED
        BY <1>0, <2>2, <2>3, <2>4, JobKept
<1>4. CASE CancelJob
    <2>1. /\ job' \in JobRow /\ job'.status = "cancelled" /\ job.status # "none"
          /\ UNCHANGED <<item, wanted, ipc, work>>
        BY <1>1, <1>4 DEF CancelJob, TypedImports, JobRow, Open
    <2>2. TypedImports' /\ WorkOK' /\ CompletedIsCounted'
        BY <1>1, <2>1 DEF TypedImports, RowsOK, WorkOK, CompletedIsCounted
    <2> QED
        BY <1>0, <1>2, <2>1, <2>2, JobKept
<1>5. ASSUME NEW g \in Pages, ProcessRead(g) \/ ProcessAborts(g) \/ ProcessThrows(g) \/ PageFault(g)
      PROVE  ImportInv' /\ UNCHANGED <<job, item>>
    <2>1. UNCHANGED <<job, item, wanted>>
        BY <1>5 DEF ProcessRead, ProcessAborts, ProcessThrows, PageFault
    <2>2. PICK a, r : IGoto(g, a, r) /\ \/ a = "idle" /\ r = 0
                                        \/ a \in PageStates /\ r \in Rows /\ job.status # "none"
        BY <1>1, <1>5, PagesKnow DEF ProcessRead, ProcessAborts, ProcessThrows, PageFault, IDone, Pending, PageStates,
            RowsOK, WorkOK
    <2>3. a \in PageStates /\ r \in 0..RowCount
        BY <1>1, <2>2, ImportAssumption DEF PageStates
    <2>4. WorkOK' /\ work' \in [Pages -> 0..RowCount] /\ ipc' \in [Pages -> PageStates]
        BY <2>1, <2>2, <2>3, WorkKept
    <2>5. TypedImports'
        BY <1>1, <2>1, <2>4 DEF TypedImports
    <2> QED
        BY <1>0, <1>2, <2>1, <2>4, <2>5, JobKept
\* A page closes its row as failed, or finds it closed, and counts anew.
<1>6. ASSUME NEW g \in Pages, NEW table \in [Rows -> ItemRow], IDone(g), UNCHANGED wanted,
             item' = table, job' = Aggregated(table), job.status # "none",
             job.status = "completed" => Pending(table) = {},
             \A r \in Rows : \/ table[r] = item[r]
                             \/ item[r].status = "pending" /\ table[r].status = "failed"
      PROVE  ImportInv' /\ (job.status = "cancelled" => job'.status = "cancelled")
    <2>1. /\ job' \in JobRow /\ CompletedIsCounted' /\ job'.status # "none"
          /\ job.status = "cancelled" => job'.status = "cancelled"
        BY <1>6, AggregateRight
    <2>2. WorkOK' /\ work' \in [Pages -> 0..RowCount] /\ ipc' \in [Pages -> PageStates]
        BY <1>6, <2>1, DoneOK
    <2>3. TypedImports'
        BY <1>1, <1>6, <2>1, <2>2 DEF TypedImports
    <2> QED
        BY <1>0, <1>2, <1>6, <2>1, <2>2, <2>3, JobKept
<1>7. ASSUME NEW g \in Pages, NEW table, NEW r \in Rows, IDone(g), UNCHANGED wanted,
             item' = table, job' = Aggregated(table),
             Claimable(r), table = [item EXCEPT ![r].status = "failed"]
      PROVE  ImportInv' /\ job.status # "cancelled"
    <2>1. /\ item[r] \in ItemRow /\ item[r].status = "pending"
          /\ job.status # "none" /\ job.status # "completed" /\ job.status # "cancelled"
        BY <1>1, <1>7 DEF TypedImports, Claimable, Open
    <2>2. /\ table[r] \in ItemRow /\ table[r].status = "failed"
          /\ \A q \in Rows \ {r} : table[q] = item[q]
        BY <1>1, <1>7, <2>1 DEF TypedImports, ItemRow
    <2>3. table \in [Rows -> ItemRow]
        BY <1>1, <1>7, <2>2 DEF TypedImports
    <2> QED
        BY <1>6, <1>7, <2>1, <2>2, <2>3
<1>8. ASSUME NEW g \in Pages, IDone(g), UNCHANGED wanted, job.status # "none",
             UNCHANGED item, job' = Aggregated(item)
      PROVE  ImportInv' /\ (job.status = "cancelled" => job'.status = "cancelled")
    BY <1>6, <1>8, PagesKnow
<1>9. ASSUME NEW g \in Pages, ProcessRefuses(g) \/ ProcessSkips(g) \/ FailItem(g)
      PROVE  ImportInv' /\ (job.status = "cancelled" => item' = item /\ job'.status = "cancelled")
    <2>1. work[g] \in Rows /\ job.status # "none" /\ IDone(g) /\ UNCHANGED wanted
        BY <1>1, <1>9 DEF RowsOK, WorkOK, ProcessRefuses, ProcessSkips, FailItem
    <2>2. CASE item' = item /\ job' = Aggregated(item)
        BY <1>8, <2>1, <2>2
    <2>3. CASE /\ Claimable(work[g]) /\ item' = [item EXCEPT ![work[g]].status = "failed"]
               /\ job' = Aggregated(item')
        BY <1>7, <2>1, <2>3
    <2> QED
        BY <1>9, <2>2, <2>3 DEF ProcessRefuses, ProcessSkips, FailItem, Failed
<1> QED
    BY <1>0, <1>3, <1>4, <1>5, <1>9 DEF CancelJob, Open

\* The row that a page makes a document of was pending, and the document was not there.
LEMMA MakesStep ==
    ASSUME ImportInv, NEW g \in Pages, ProcessMakes(g)
    PROVE  ImportInv' /\ job.status # "cancelled"
<1>1. TypedImports /\ RowsOK /\ BaseInv
    BY DEF ImportInv
<1> PICK r \in Rows : r = work[g]
    BY <1>1 DEF RowsOK, WorkOK, ProcessMakes
<1>2. PICK d \in Docs : d = NextId /\ doc[d].state = "none" /\ doc[d].row = 0
    BY <1>1, NextIdUnused DEF ProcessMakes, Unused, BaseInv, DocsOK
<1> PICK table : table = [item EXCEPT ![r] = [status |-> "completed", made |-> d]]
    OBVIOUS
<1>3. /\ Claimable(r) /\ doc' = [doc EXCEPT ![d] = wanted[r]] /\ item' = table
      /\ job' = Aggregated(table) /\ edition' = edition + 1 /\ IDone(g)
      /\ UNCHANGED <<rack, category, pc, form, wanted>>
    BY <1>2 DEF ProcessMakes
<1>4. /\ item[r].status = "pending"
      /\ job.status # "none" /\ job.status # "completed" /\ job.status # "cancelled"
    BY <1>3 DEF Claimable, Open
<1>5. /\ table \in [Rows -> ItemRow]
      /\ \A q \in Rows : table[q] = IF q = r THEN [status |-> "completed", made |-> d] ELSE item[q]
    BY <1>1, <1>2 DEF TypedImports, ItemRow
<1>6. wanted[r] \in DocRow /\ wanted[r].row = r /\ wanted[r].state = "current"
    BY <1>1, <1>4 DEF TypedImports, RowsOK, WantedOK
<1>7. /\ doc' \in [Docs -> DocRow]
      /\ \A e \in Docs : doc'[e] = IF e = d THEN wanted[r] ELSE doc[e]
    BY <1>1, <1>3, <1>6 DEF BaseInv, TypedBase
<1>8. BaseInv'
    <2>1. TypedBase' /\ Later
        BY <1>1, <1>3, <1>7 DEF BaseInv, TypedBase, Later
    <2>2. RacksOK' /\ DocsOK'
        BY <1>1, <1>3, <1>6, <1>7 DEF BaseInv, RacksOK, DocsOK
    <2> QED
        BY <1>1, <1>3, <2>1, <2>2, BaseKept DEF FormStays
<1>9. /\ job' \in JobRow /\ CompletedIsCounted' /\ job'.status # "none"
    BY <1>3, <1>4, <1>5, AggregateRight
<1>10. WorkOK' /\ work' \in [Pages -> 0..RowCount] /\ ipc' \in [Pages -> PageStates]
    BY <1>3, <1>9, DoneOK
<1>11. TypedImports' /\ WantedOK'
    BY <1>1, <1>3, <1>4, <1>5, <1>9, <1>10 DEF TypedImports, RowsOK, WantedOK
<1>12. RowsMakeOneDocument'
    <2> SUFFICES ASSUME NEW q \in Rows
                 PROVE  {e \in Docs : doc'[e].row = q} =
                            IF item'[q].status = "completed" THEN {item'[q].made} ELSE {}
        BY DEF RowsMakeOneDocument
    <2>1. {e \in Docs : doc[e].row = q} = IF item[q].status = "completed" THEN {item[q].made} ELSE {}
        BY <1>1 DEF RowsOK, RowsMakeOneDocument
    <2>2. q # 0
        BY DEF Rows
    <2>3. CASE q = r
        BY <1>3, <1>4, <1>5, <1>6, <1>7, <2>1, <2>3
    <2>4. CASE q # r
        <3>1. {e \in Docs : doc'[e].row = q} = {e \in Docs : doc[e].row = q}
            BY <1>2, <1>6, <1>7, <2>2, <2>4
        <3> QED
            BY <1>3, <1>5, <2>1, <2>4, <3>1
    <2> QED
        BY <2>3, <2>4
<1> QED
    BY <1>4, <1>8, <1>9, <1>10, <1>11, <1>12 DEF ImportInv, RowsOK

LEMMA ImportsNext == ImportInv /\ [ImportNext]_allvars => ImportInv'
<1> SUFFICES ASSUME ImportInv, [ImportNext]_allvars PROVE ImportInv'
    OBVIOUS
<1>1. CASE UNCHANGED allvars
    BY <1>1 DEF allvars, ImportInv, BaseInv, TypedBase, RacksOK, DocsOK, FormOK, ConfigOK, Current,
        TypedImports, RowsOK, WantedOK, WorkOK, RowsMakeOneDocument, CompletedIsCounted, Pending, With
<1>2. CASE ReferenceStep /\ UNCHANGED imports
    BY <1>2, ReferenceKept, RowsStay DEF ImportInv
<1> QED
    BY <1>1, <1>2, QuietSteps, MakesStep DEF ImportNext, PageStep

-----------------------------------------------------------------------------
(* The properties *)

\* The inductive invariant holds for any racks, documents, pages and rows.
THEOREM ImportsCorrect == ImportSpec => []ImportInv
BY ImportsInit, ImportsNext, PTL DEF ImportSpec

\* Exactly the completed rows of a job have made documents, one each.
THEOREM RowsCorrect == ImportSpec => []RowsMakeOneDocument
<1>1. ImportInv => RowsMakeOneDocument
    BY DEF ImportInv, RowsOK
<1> QED
    BY <1>1, ImportsCorrect, PTL

\* A job reported as completed has no pending row, and its counts are those of its rows.
THEOREM CountedCorrect == ImportSpec => []CompletedIsCounted
<1>1. ImportInv => CompletedIsCounted
    BY DEF ImportInv, RowsOK
<1> QED
    BY <1>1, ImportsCorrect, PTL

\* No row of a cancelled job is closed and no document made of one.
THEOREM CancelCorrect == ImportSpec => CancelEndsIt
<1>1. ASSUME ImportInv, [ImportNext]_allvars, job.status = "cancelled"
      PROVE  /\ item' = item /\ job'.status = "cancelled"
             /\ \A d \in Docs : doc'[d].row # 0 => doc[d].row = doc'[d].row
    <2>1. CASE UNCHANGED allvars
        BY <1>1, <2>1 DEF allvars
    <2>2. CASE ReferenceStep /\ UNCHANGED imports
        BY <1>1, <2>2, ReferenceKept DEF ImportInv, imports, SameRows
    <2>3. CASE UNCHANGED doc /\ (job.status = "cancelled" => item' = item /\ job'.status = "cancelled")
        BY <1>1, <2>3
    <2> QED
        BY <1>1, <2>1, <2>2, <2>3, QuietSteps, MakesStep DEF ImportNext, PageStep
<1>2. ImportInv /\ [ImportNext]_allvars =>
        [job.status = "cancelled" =>
            /\ item' = item /\ job'.status = "cancelled"
            /\ \A d \in Docs : doc'[d].row # 0 => doc[d].row = doc'[d].row]_allvars
    BY <1>1
<1> QED
    BY <1>2, ImportsCorrect, PTL DEF ImportSpec, CancelEndsIt

\* Setting the number of racks takes no rack with documents out of use: the version that
\* the form shows still holds when its transaction claims it, and so does the look at
\* the documents.
THEOREM CountsSpareCorrect == ImportSpec => CountsSpareDocuments
<1>1. ASSUME ImportInv, ImportNext, NEW u \in Users, pc[u] = "configure", pc'[u] = "idle",
             NEW r \in Racks, rack[r].active, ~rack'[r].active
      PROVE  Inside(r) = {}
    <2>1. BaseInv /\ rack'[r] # rack[r]
        BY <1>1 DEF ImportInv
    <2>2. ReferenceStep
        BY <1>1, <2>1, QuietSteps DEF ImportNext, PageStep, ProcessMakes, CreateJob, CancelJob,
            ProcessRead, ProcessRefuses, ProcessAborts, ProcessThrows, ProcessSkips, FailItem, PageFault, base
    <2>3. \A v \in Users : \A a, f : Goto(v, a, f) /\ v # u => pc'[u] = pc[u]
        BY <2>1 DEF Goto, BaseInv, TypedBase
    <2>4. \A v \in Users : Done(v) => v = u
        BY <1>1, <2>3 DEF Done
    <2>5. ~UNCHANGED base
        BY <2>1 DEF base
    <2>6. ASSUME NEW v \in Users, NEW n \in Numbers, NEW a \in BOOLEAN, NEW s \in BOOLEAN,
                 LET want == [number |-> n, active |-> a, single |-> s, version |-> 0]
                 IN  SaveRack(v, want) \/ (a /\ AddRack(v, want))
          PROVE  FALSE
        BY <2>1, <2>5, <2>6, ReadSteps
    <2>7. ASSUME NEW v \in Users, SaveRackCommit(v) \/ \E q \in Racks : AddRackCommit(v, q)
          PROVE  FALSE
        BY <1>1, <2>4, <2>7 DEF SaveRackCommit, AddRackCommit
    <2>8. ASSUME NEW v \in Users,
                 \/ \E q \in Racks : OpenRackForm(v, q)
                 \/ OpenCounts(v)
                 \/ \E n \in {0} \cup Numbers : Configure(v, n)
                 \/ OpenCategory(v)
                 \/ \E i \in Idents, p \in Places : CreateCheck(v, i, p)
                 \/ RequestLost(v)
          PROVE  FALSE
        BY <2>1, <2>5, <2>8, ReadSteps
    <2>9. ASSUME \/ \E v \in Users : CreateCommit(v) \/ \E a \in BOOLEAN : SaveCategory(v, a)
                 \/ \E d \in Docs : ExcludeDocument(d) \/ \E p \in Places : MoveDocument(d, p)
                 \/ LoadBegins \/ \E i \in Idents, p \in Places : LoadEnds(i, p)
          PROVE  FALSE
        BY <2>1, <2>9 DEF CreateCommit, SaveCategory, ExcludeDocument, MoveDocument, LoadBegins, LoadEnds
    <2>10. PICK v \in Users, f \in [Racks -> Numbers] : ConfigureCommit(v, f)
        BY <2>2, <2>6, <2>7, <2>8, <2>9 DEF ReferenceStep
    <2>11. v = u
        BY <2>4, <2>10 DEF ConfigureCommit
    <2>12. /\ edition = form[u].version
           /\ \A q \in Racks : IF Exists(q) THEN f[q] = rack[q].number
                               ELSE Numbered(f[q]) = {} /\ \A t \in Racks : f[t] = f[q] => t = q
           /\ rack' = [q \in Racks |->
                  [number |-> f[q], active |-> f[q] <= form[u].count,
                   single |-> rack[q].single, version |-> rack[q].version + 1]]
        BY <2>1, <2>10, <2>11 DEF ConfigureCommit, Claimed
    <2>13. Exists(r)
        BY <1>1, <2>1 DEF BaseInv, RacksOK, Exists
    <2>14. f[r] = rack[r].number /\ ~(f[r] <= form[u].count)
        BY <1>1, <2>12, <2>13
    <2>15. \A d \in Current : rack[doc[d].place[1]].number <= form[u].count
        BY <1>1, <2>1, <2>12 DEF BaseInv, ConfigOK
    <2> QED
        BY <2>14, <2>15 DEF Inside
<1>2. ImportInv /\ [ImportNext]_allvars =>
        [\A u \in Users : pc[u] = "configure" /\ pc'[u] = "idle" =>
            \A r \in Racks : rack[r].active /\ ~rack'[r].active => Inside(r) = {}]_vars
    BY <1>1 DEF allvars, vars
<1> QED
    BY <1>2, ImportsCorrect, PTL DEF ImportSpec, CountsSpareDocuments
=============================================================================
