--------------------------- MODULE DocumentSetsProofs ---------------------------
(***************************************************************************)
(* Proofs about DocumentSets, for any sets, names, documents and requests. *)
(*                                                                         *)
(* Versions only rise, and rise whenever a request changes a set.  So a    *)
(* page whose version is still that of the set shows the set as it is      *)
(* (PageOK), except for documents deleted meanwhile, which leave the sets  *)
(* without a new version.                                                  *)
(***************************************************************************)
EXTENDS DocumentSets, TLAPS

\* What a request holds of its set while it has a page.
PageOK(u) ==
    pc[u] # "idle" =>
        /\ on[u] \in Sets
        /\ 1 <= shown[u].version /\ shown[u].version <= set[on[u]].version
        /\ set[on[u]].version = shown[u].version =>
            /\ set[on[u]].name = shown[u].name /\ set[on[u]].locked = shown[u].locked
            /\ pc[u] # "open" =>
                set[on[u]].members = {d \in shown[u].members : doc[d] # "deleted"}

\* A document in a set has not been deleted, and a set that exists or is
\* locked has a version.
SetOK(s) ==
    /\ \A d \in set[s].members : doc[d] # "deleted"
    /\ Exists(s) \/ set[s].locked => 1 <= set[s].version

SetsInv ==
    /\ TypeOK
    /\ \A u \in Users : PageOK(u)
    /\ \A s \in Sets : SetOK(s)

\* How a step may change the row of a set: a request raises the version, a deletion of
\* a document takes it out.
RowEvolves(s) ==
    \/ set'[s] = set[s]
    \/ set'[s].version = set[s].version + 1
    \/ set[s].version = 0 /\ set'[s].version = 1
    \/ set'[s] = [set[s] EXCEPT !.members = {d \in @ : doc'[d] # "deleted"}]

DocEvolves == \A d \in Docs : doc[d] = "deleted" => doc'[d] = "deleted"

\* How a step may change a request's page: it is kept, dropped, opened or completed.
PageEvolves(u) ==
    \/ pc'[u] = "idle"
    \/ /\ pc[u] \notin {"idle", "open"} /\ pc'[u] \notin {"idle", "open"}
       /\ on'[u] = on[u] /\ shown'[u] = shown[u]
    \/ pc'[u] = pc[u] /\ on'[u] = on[u] /\ shown'[u] = shown[u]

LEMMA SetsInit == Init => SetsInv
<1> SUFFICES ASSUME Init PROVE SetsInv
    OBVIOUS
<1>1. NoRow \in SetRow /\ NoRow.name = NoName /\ NoRow.members = {} /\ ~NoRow.locked
    BY DEF NoRow, SetRow
<1>2. TypeOK
    BY <1>1 DEF Init, TypeOK, States
<1> QED
    BY <1>1, <1>2 DEF Init, SetsInv, PageOK, SetOK, Exists

\* A step that changes rows and pages in these ways keeps the pages right.
LEMMA PagesKept ==
    ASSUME SetsInv, TypeOK', \A s \in Sets : SetOK(s)', DocEvolves, \A s \in Sets : RowEvolves(s),
           NEW u \in Users, PageEvolves(u)
    PROVE  PageOK(u)'
<1> SUFFICES ASSUME pc'[u] # "idle"
             PROVE  PageOK(u)'
    BY DEF PageOK
<1>1. /\ pc[u] # "idle" /\ on'[u] = on[u] /\ shown'[u] = shown[u]
      /\ pc'[u] # "open" => pc[u] # "open"
    BY DEF PageEvolves
<1>2. PageOK(u) /\ on[u] \in Sets
    BY <1>1 DEF SetsInv, PageOK
<1> PICK s \in Sets : s = on[u]
    BY <1>2
<1>3. /\ set[s] \in SetRow /\ set'[s] \in SetRow /\ shown[u] \in SetRow
      /\ set[s].version \in Nat /\ set'[s].version \in Nat /\ shown[u].version \in Nat
      /\ set[s].members \subseteq Docs /\ shown[u].members \subseteq Docs
    BY DEF SetsInv, TypeOK, SetRow
<1>4. /\ 1 <= shown[u].version /\ shown[u].version <= set[s].version
      /\ set[s].version = shown[u].version =>
            /\ set[s].name = shown[u].name /\ set[s].locked = shown[u].locked
            /\ pc[u] # "open" => set[s].members = {d \in shown[u].members : doc[d] # "deleted"}
    BY <1>1, <1>2 DEF PageOK
<1>5. CASE set'[s].version # set[s].version
    <2>1. RowEvolves(s)
        OBVIOUS
    <2>2. set'[s] # [set[s] EXCEPT !.members = {d \in @ : doc'[d] # "deleted"}]
        BY <1>3, <1>5 DEF SetRow
    <2>3. set'[s].version = set[s].version + 1 \/ set[s].version = 0
        BY <1>5, <2>1, <2>2 DEF RowEvolves
    <2>4. shown[u].version < set'[s].version
        BY <1>3, <1>4, <2>3
    <2> QED
        BY <1>1, <1>3, <1>4, <2>4 DEF PageOK
<1>6. CASE set'[s].version = set[s].version
    <2>1. \/ set'[s] = set[s]
          \/ set'[s] = [set[s] EXCEPT !.members = {d \in @ : doc'[d] # "deleted"}]
        BY <1>3, <1>6 DEF RowEvolves
    <2>2. set'[s].name = set[s].name /\ set'[s].locked = set[s].locked
        BY <1>3, <2>1 DEF SetRow
    <2>3. /\ \A d \in set'[s].members : doc'[d] # "deleted"
          /\ set'[s].members = {d \in set[s].members : doc'[d] # "deleted"}
        BY <1>3, <2>1 DEF SetOK, SetRow
    <2>4. ASSUME set[s].members = {d \in shown[u].members : doc[d] # "deleted"}
          PROVE  set'[s].members = {d \in shown[u].members : doc'[d] # "deleted"}
        BY <1>3, <2>3, <2>4 DEF DocEvolves
    <2> QED
        BY <1>1, <1>4, <1>6, <2>2, <2>4 DEF PageOK
<1> QED
    BY <1>5, <1>6

\* What a step must be shown to do, for the invariant to hold after it.
Kept ==
    /\ TypeOK' /\ DocEvolves
    /\ \A s \in Sets : SetOK(s)' /\ RowEvolves(s)

LEMMA InvKept ==
    ASSUME SetsInv, Kept, \A u \in Users : PageEvolves(u)
    PROVE  SetsInv'
BY PagesKept DEF Kept, SetsInv

\* A request that gives up or has done its work drops its page.
LEMMA Dropped ==
    ASSUME SetsInv, NEW u \in Users, Done(u)
    PROVE  /\ \A v \in Users : PageEvolves(v)
           /\ pc' \in [Users -> States] /\ on' \in [Users -> Sets \cup {NoSet}]
           /\ shown' \in [Users -> SetRow]
<1>1. NoRow \in SetRow
    BY DEF NoRow, SetRow
<1>2. \A v \in Users \ {u} : pc'[v] = pc[v] /\ on'[v] = on[v] /\ shown'[v] = shown[v]
    BY DEF Done, SetsInv, TypeOK
<1>3. pc'[u] = "idle"
    BY DEF Done, SetsInv, TypeOK
<1>4. /\ pc' \in [Users -> States] /\ on' \in [Users -> Sets \cup {NoSet}]
      /\ shown' \in [Users -> SetRow]
    BY <1>1 DEF Done, SetsInv, TypeOK, States
<1> QED
    BY <1>2, <1>3, <1>4 DEF PageEvolves

\* The row of one set is replaced by one with the next version, and pages of others and
\* documents stay.
LEMMA OneRow ==
    ASSUME SetsInv, NEW s \in Sets, NEW row \in SetRow,
           set' = [set EXCEPT ![s] = row], UNCHANGED doc,
           row.version = set[s].version + 1,
           \A d \in row.members : doc[d] # "deleted"
    PROVE  /\ set' \in [Sets -> SetRow]
           /\ \A t \in Sets : SetOK(t)' /\ RowEvolves(t)
<1>1. set' \in [Sets -> SetRow] /\ set'[s] = row /\ \A t \in Sets \ {s} : set'[t] = set[t]
    BY DEF SetsInv, TypeOK
<1>2. set[s].version \in Nat
    BY DEF SetsInv, TypeOK, SetRow
<1>3. \A t \in Sets : RowEvolves(t)
    BY <1>1, <1>2 DEF RowEvolves
<1>4. SetOK(s)'
    BY <1>1, <1>2 DEF SetOK, Exists
<1>5. \A t \in Sets \ {s} : SetOK(t)'
    BY <1>1 DEF SetsInv, SetOK, Exists
<1> QED
    BY <1>1, <1>3, <1>4, <1>5

\* A batch that writes one set and drops the page, or only drops the page.
LEMMA WriteKept ==
    ASSUME SetsInv, NEW u \in Users, NEW s \in Sets, NEW row \in SetRow,
           set' = set \/ set' = [set EXCEPT ![s] = row], UNCHANGED doc, Done(u),
           row.version = set[s].version + 1,
           \A d \in row.members : doc[d] # "deleted"
    PROVE  SetsInv'
<1>1. DocEvolves
    BY DEF DocEvolves
<1>2. CASE set' = set
    <2>1. \A t \in Sets : SetOK(t)' /\ RowEvolves(t)
        BY <1>2 DEF SetsInv, SetOK, Exists, RowEvolves
    <2>2. TypeOK'
        BY <1>2, Dropped DEF SetsInv, TypeOK
    <2> QED
        BY <1>1, <2>1, <2>2, Dropped, InvKept DEF Kept
<1>3. CASE set' = [set EXCEPT ![s] = row]
    <2>1. /\ set' \in [Sets -> SetRow]
          /\ \A t \in Sets : SetOK(t)' /\ RowEvolves(t)
        BY <1>3, OneRow
    <2>2. TypeOK'
        BY <2>1, Dropped DEF SetsInv, TypeOK
    <2> QED
        BY <1>1, <2>1, <2>2, Dropped, InvKept DEF Kept
<1> QED
    BY <1>2, <1>3

\* Write raises the version of the row that it is given.
LEMMA WriteStep ==
    ASSUME SetsInv, NEW u \in Users, NEW s \in Sets, NEW guard \in BOOLEAN, NEW row \in SetRow,
           Write(u, s, guard, row), row.version = set[s].version,
           \A d \in row.members : doc[d] # "deleted"
    PROVE  SetsInv'
<1>1. set[s].version \in Nat
    BY DEF SetsInv, TypeOK, SetRow
<1> PICK next : next = [row EXCEPT !.version = NextVersion(@)]
    OBVIOUS
<1>2. /\ next \in SetRow /\ next.version = set[s].version + 1 /\ next.members = row.members
    BY <1>1 DEF SetRow, NextVersion
<1>3. /\ set' = set \/ set' = [set EXCEPT ![s] = next]
      /\ UNCHANGED doc /\ Done(u)
    BY DEF Write
<1>4. \A d \in next.members : doc[d] # "deleted"
    BY <1>2
<1> QED
    BY <1>2, <1>3, <1>4, WriteKept

\* The batches that change an existing set.
LEMMA BatchSteps ==
    ASSUME SetsInv, NEW u \in Users, NEW s \in Sets,
           \/ \E n \in Names : Rename(u, s, n)
           \/ \E D \in SUBSET Docs : Add(u, s, D)
           \/ \E d \in Docs : Remove(u, s, d)
           \/ Lock(u, s) \/ Delete(u, s)
    PROVE  SetsInv'
<1>0. /\ set[s] \in SetRow /\ set[s].members \subseteq Docs /\ set[s].version \in Nat
      /\ set[s].locked \in BOOLEAN
      /\ \A d \in set[s].members : doc[d] # "deleted"
    BY DEF SetsInv, TypeOK, SetRow, SetOK
<1>1. ASSUME NEW n \in Names, Rename(u, s, n) PROVE SetsInv'
    <2> PICK row : row = [set[s] EXCEPT !.name = n]
        OBVIOUS
    <2>1. row \in SetRow /\ row.version = set[s].version /\ row.members = set[s].members
        BY <1>0 DEF SetRow
    <2>2. AtVersionUnlessLocked(u, s) \in BOOLEAN
        BY DEF AtVersionUnlessLocked, AtVersion, Exists
    <2>3. Write(u, s, AtVersionUnlessLocked(u, s), row)
        BY <1>1 DEF Rename
    <2> QED
        BY <1>0, <2>1, <2>2, <2>3, WriteStep
<1>2. ASSUME NEW D \in SUBSET Docs, Add(u, s, D) PROVE SetsInv'
    <2> PICK row : row = [set[s] EXCEPT !.members = @ \cup Addable(s, D)]
        OBVIOUS
    <2>1. row \in SetRow /\ row.version = set[s].version
          /\ row.members = set[s].members \cup Addable(s, D)
        BY <1>0 DEF SetRow, Addable, Current
    <2>2. (AtVersionUnlessLocked(u, s) /\ Addable(s, D) # {}) \in BOOLEAN
        BY DEF AtVersionUnlessLocked, AtVersion, Exists
    <2>3. Write(u, s, AtVersionUnlessLocked(u, s) /\ Addable(s, D) # {}, row)
        BY <1>2 DEF Add
    <2>4. \A d \in row.members : doc[d] # "deleted"
        BY <1>0, <2>1 DEF Addable, Current
    <2> QED
        BY <2>1, <2>2, <2>3, <2>4, WriteStep
<1>3. ASSUME NEW d \in Docs, Remove(u, s, d) PROVE SetsInv'
    <2> PICK row : row = [set[s] EXCEPT !.members = @ \ {d}]
        OBVIOUS
    <2>1. row \in SetRow /\ row.version = set[s].version /\ row.members = set[s].members \ {d}
        BY <1>0 DEF SetRow
    <2>2. (AtVersionUnlessLocked(u, s) /\ d \in set[s].members) \in BOOLEAN
        BY DEF AtVersionUnlessLocked, AtVersion, Exists
    <2>3. Write(u, s, AtVersionUnlessLocked(u, s) /\ d \in set[s].members, row)
        BY <1>3 DEF Remove
    <2>4. \A e \in row.members : doc[e] # "deleted"
        BY <1>0, <2>1
    <2> QED
        BY <2>1, <2>2, <2>3, <2>4, WriteStep
<1>4. CASE Lock(u, s)
    <2> PICK row : row = [set[s] EXCEPT !.locked = ~@]
        OBVIOUS
    <2>1. row \in SetRow /\ row.version = set[s].version /\ row.members = set[s].members
        BY <1>0 DEF SetRow
    <2>2. AtVersion(u, s) \in BOOLEAN
        BY DEF AtVersion, Exists
    <2>3. Write(u, s, AtVersion(u, s), row)
        BY <1>4 DEF Lock
    <2> QED
        BY <1>0, <2>1, <2>2, <2>3, WriteStep
<1>5. CASE Delete(u, s)
    <2>0. set[s].version + 1 \in Nat
        BY <1>0
    <2> PICK next \in Nat : next = set[s].version + 1
        BY <2>0
    <2> PICK row : row = [NoRow EXCEPT !.version = next]
        OBVIOUS
    <2>1. NoRow \in SetRow /\ NoRow.members = {}
        BY DEF NoRow, SetRow
    <2>3. row \in SetRow /\ row.version = set[s].version + 1 /\ row.members = {}
        BY <2>1 DEF SetRow
    <2>2. /\ set' = set \/ set' = [set EXCEPT ![s] = row]
          /\ UNCHANGED doc /\ Done(u)
        BY <1>5 DEF Delete
    <2> QED
        BY <2>3, <2>2, WriteKept
<1> QED
    BY <1>1, <1>2, <1>3, <1>4, <1>5

\* A new row, of a created or a cloned set, where there was none.
LEMMA NewRow ==
    ASSUME SetsInv, NEW t \in Sets, set[t].version = 0,
           NEW n \in Names \cup {NoName}, NEW D \in SUBSET Docs, UNCHANGED doc,
           set' = [set EXCEPT ![t] = NewSet(n, D)],
           \A d \in D : doc[d] # "deleted"
    PROVE  /\ set' \in [Sets -> SetRow]
           /\ \A s \in Sets : SetOK(s)' /\ RowEvolves(s)
<1> PICK row : row = NewSet(n, D)
    OBVIOUS
<1>1. row \in SetRow /\ row.version = set[t].version + 1 /\ row.members = D
    BY DEF SetRow, NewSet
<1> QED
    BY <1>1, OneRow

LEMMA NewSteps ==
    ASSUME SetsInv, NEW u \in Users, NEW s \in Sets, NEW n \in Names,
           CreateSet(u, s, n) \/ \E t \in Sets : Clone(u, s, t, n)
    PROVE  SetsInv'
<1>0. DocEvolves /\ UNCHANGED doc
    BY DEF DocEvolves, CreateSet, Clone
<1>1. CASE CreateSet(u, s, n)
    <2>1. /\ set[s].version = 0 /\ UNCHANGED <<pc, on, shown>>
          /\ set' = [set EXCEPT ![s] = NewSet(n, {})]
        BY <1>1 DEF CreateSet
    <2>2. /\ set' \in [Sets -> SetRow]
          /\ \A t \in Sets : SetOK(t)' /\ RowEvolves(t)
        <3>1. {} \in SUBSET Docs /\ \A d \in {} : doc[d] # "deleted"
            OBVIOUS
        <3> QED
            BY <1>0, <2>1, <3>1, NewRow
    <2>3. TypeOK'
        BY <1>0, <2>1, <2>2 DEF SetsInv, TypeOK
    <2>4. \A v \in Users : PageEvolves(v)
        BY <2>1 DEF PageEvolves
    <2> QED
        BY <1>0, <2>2, <2>3, <2>4, InvKept DEF Kept
<1>2. ASSUME NEW t \in Sets, Clone(u, s, t, n) PROVE SetsInv'
    <2>1. Done(u)
        BY <1>2 DEF Clone
    <2>2. /\ set' \in [Sets -> SetRow]
          /\ \A r \in Sets : SetOK(r)' /\ RowEvolves(r)
        <3>1. CASE UNCHANGED set
            BY <1>0, <3>1 DEF SetsInv, TypeOK, SetOK, Exists, RowEvolves
        <3>2. CASE ~UNCHANGED set
            <4>1. /\ set[t].version = 0
                  /\ set' = [set EXCEPT ![t] = NewSet(n, set[s].members)]
                BY <1>2, <3>2 DEF Clone
            <4>2. set[s].members \in SUBSET Docs /\ \A d \in set[s].members : doc[d] # "deleted"
                BY DEF SetsInv, TypeOK, SetRow, SetOK
            <4> QED
                BY <1>0, <4>1, <4>2, NewRow
        <3> QED
            BY <3>1, <3>2
    <2>3. TypeOK'
        BY <1>0, <2>1, <2>2, Dropped DEF SetsInv, TypeOK
    <2> QED
        BY <1>0, <2>1, <2>2, <2>3, Dropped, InvKept DEF Kept
<1> QED
    BY <1>1, <1>2

\* The steps that only read, and those that open a page.
LEMMA ReadSteps ==
    ASSUME SetsInv, NEW u \in Users, NEW s \in Sets,
           \/ OpenSet(u, s) \/ ReadMembers(u, s)
           \/ \E a \in {"add", "remove", "lock", "delete"} : Submit(u, a, s)
           \/ SubmitClone(u, s)
    PROVE  SetsInv'
<1>0. /\ set[s] \in SetRow /\ set[s].members \subseteq Docs /\ set[s].version \in Nat
      /\ \A d \in set[s].members : doc[d] # "deleted"
      /\ Exists(s) => 1 <= set[s].version
    BY DEF SetsInv, TypeOK, SetRow, SetOK
<1>1. UNCHANGED <<set, doc>>
    BY DEF OpenSet, ReadMembers, Submit, SubmitClone, tables
<1>2. DocEvolves /\ \A t \in Sets : SetOK(t)' /\ RowEvolves(t)
    BY <1>1 DEF DocEvolves, SetsInv, SetOK, Exists, RowEvolves
<1>3. ASSUME TypeOK', \A v \in Users \ {u} : PageEvolves(v), PageOK(u)' PROVE SetsInv'
    BY <1>2, <1>3, PagesKept DEF SetsInv
<1>4. CASE OpenSet(u, s)
    <2> PICK page : page = [set[s] EXCEPT !.members = {}]
        OBVIOUS
    <2>1. /\ page \in SetRow /\ page.version = set[s].version /\ page.name = set[s].name
          /\ page.locked = set[s].locked
        BY <1>0 DEF SetRow
    <2>2. /\ pc' = [pc EXCEPT ![u] = "open"] /\ on' = [on EXCEPT ![u] = s]
          /\ shown' = [shown EXCEPT ![u] = page] /\ Exists(s)
        BY <1>4 DEF OpenSet
    <2>3. TypeOK' /\ pc'[u] = "open" /\ on'[u] = s /\ shown'[u] = page
        BY <1>1, <2>1, <2>2 DEF SetsInv, TypeOK, States
    <2>4. \A v \in Users \ {u} : PageEvolves(v)
        BY <2>2 DEF SetsInv, TypeOK, PageEvolves
    <2>5. set'[s] = set[s] /\ 1 <= set[s].version
        BY <1>0, <1>1, <2>2
    <2>6. PageOK(u)'
        BY <1>0, <2>1, <2>3, <2>5 DEF PageOK
    <2> QED
        BY <1>3, <2>3, <2>4, <2>6
<1>5. CASE ReadMembers(u, s)
    <2>0. pc[u] = "open" /\ on[u] = s /\ shown[u] \in SetRow
        BY <1>5 DEF ReadMembers, SetsInv, TypeOK
    <2> PICK page : page = [shown[u] EXCEPT !.members = set[s].members]
        OBVIOUS
    <2>1. /\ page \in SetRow /\ page.version = shown[u].version /\ page.name = shown[u].name
          /\ page.locked = shown[u].locked /\ page.members = set[s].members
        BY <1>0, <2>0 DEF SetRow
    <2>2. /\ pc' = [pc EXCEPT ![u] = "page"] /\ shown' = [shown EXCEPT ![u] = page] /\ on' = on
        BY <1>5 DEF ReadMembers
    <2>3. TypeOK' /\ pc'[u] = "page" /\ on'[u] = s /\ shown'[u] = page
        BY <1>1, <2>0, <2>1, <2>2 DEF SetsInv, TypeOK, States
    <2>4. \A v \in Users \ {u} : PageEvolves(v)
        BY <2>2 DEF SetsInv, TypeOK, PageEvolves
    <2>5. set[s].members = {d \in set[s].members : doc[d] # "deleted"}
        BY <1>0
    <2>6. /\ 1 <= shown[u].version /\ shown[u].version <= set[s].version
          /\ set[s].version = shown[u].version =>
                set[s].name = shown[u].name /\ set[s].locked = shown[u].locked
        BY <2>0 DEF SetsInv, PageOK
    <2>7. PageOK(u)'
        BY <1>1, <2>1, <2>3, <2>5, <2>6 DEF PageOK
    <2> QED
        BY <1>3, <2>3, <2>4, <2>7
<1>6. CASE Done(u)
    <2>1. TypeOK'
        BY <1>1, <1>6, Dropped DEF SetsInv, TypeOK
    <2> QED
        BY <1>2, <1>6, <2>1, Dropped, InvKept DEF Kept
<1>7. ASSUME NEW a \in {"add", "remove", "lock", "delete", "clone"},
             pc[u] = "page", pc' = [pc EXCEPT ![u] = a], UNCHANGED <<on, shown>>
      PROVE  SetsInv'
    <2>1. pc' \in [Users -> States] /\ pc'[u] = a /\ \A v \in Users \ {u} : pc'[v] = pc[v]
        BY <1>7 DEF SetsInv, TypeOK, States
    <2>2. TypeOK'
        BY <1>1, <1>7, <2>1 DEF SetsInv, TypeOK
    <2>3. \A v \in Users : PageEvolves(v)
        BY <1>7, <2>1 DEF PageEvolves
    <2> QED
        BY <1>2, <2>2, <2>3, InvKept DEF Kept
<1> QED
    BY <1>4, <1>5, <1>6, <1>7 DEF Submit, SubmitClone

\* What happens to documents outside the sets.
LEMMA DocumentSteps ==
    ASSUME SetsInv, NEW d \in Docs, SyncDocument(d) \/ DeleteDocument(d)
    PROVE  SetsInv'
<1>0. UNCHANGED <<pc, on, shown>> /\ \A u \in Users : PageEvolves(u)
    BY DEF SyncDocument, DeleteDocument, PageEvolves
<1>1. CASE SyncDocument(d)
    <2>1. /\ UNCHANGED set /\ doc[d] # "deleted" /\ doc'[d] # "deleted"
          /\ doc' \in [Docs -> {"current", "excluded", "deleted"}]
          /\ \A e \in Docs \ {d} : doc'[e] = doc[e]
        BY <1>1 DEF SyncDocument, SetsInv, TypeOK
    <2>2. TypeOK' /\ DocEvolves
        BY <1>0, <2>1 DEF SetsInv, TypeOK, DocEvolves
    <2>3. \A s \in Sets : set[s].members \subseteq Docs
        BY DEF SetsInv, TypeOK, SetRow
    <2>4. \A s \in Sets : SetOK(s)' /\ RowEvolves(s)
        BY <2>1, <2>3 DEF SetsInv, SetOK, Exists, RowEvolves
    <2> QED
        BY <1>0, <2>2, <2>4, InvKept DEF Kept
<1>2. CASE DeleteDocument(d)
    <2>1. /\ doc' = [doc EXCEPT ![d] = "deleted"]
          /\ set' = [s \in Sets |-> [set[s] EXCEPT !.members = @ \ {d}]]
        BY <1>2 DEF DeleteDocument
    <2>2. doc' \in [Docs -> {"current", "excluded", "deleted"}] /\ DocEvolves
        BY <2>1 DEF SetsInv, TypeOK, DocEvolves
    <2>3. ASSUME NEW s \in Sets
          PROVE  set'[s] \in SetRow /\ SetOK(s)' /\ RowEvolves(s)
        <3>1. /\ set[s] \in SetRow /\ set[s].members \subseteq Docs
              /\ \A e \in set[s].members : doc[e] # "deleted"
              /\ Exists(s) \/ set[s].locked => 1 <= set[s].version
            BY DEF SetsInv, TypeOK, SetRow, SetOK
        <3>2. set'[s] = [set[s] EXCEPT !.members = @ \ {d}]
            BY <2>1
        <3>3. set[s].members \ {d} = {e \in set[s].members : doc'[e] # "deleted"}
            <4>1. \A e \in Docs : doc'[e] = IF e = d THEN "deleted" ELSE doc[e]
                BY <2>1 DEF SetsInv, TypeOK
            <4>2. \A e \in set[s].members : doc'[e] # "deleted" <=> e # d
                BY <3>1, <4>1
            <4> QED
                BY <4>2
        <3>4. /\ set'[s] \in SetRow /\ set'[s].members = set[s].members \ {d}
              /\ set'[s].name = set[s].name /\ set'[s].version = set[s].version
              /\ set'[s].locked = set[s].locked
            BY <3>1, <3>2 DEF SetRow
        <3>5. RowEvolves(s)
            BY <3>2, <3>3 DEF RowEvolves
        <3>6. SetOK(s)'
            <4>1. \A e \in set'[s].members : doc'[e] # "deleted"
                BY <3>3, <3>4
            <4>2. Exists(s)' \/ set'[s].locked => 1 <= set'[s].version
                <5>1. Exists(s)' <=> Exists(s)
                    BY <3>4 DEF Exists
                <5> QED
                    BY <3>1, <3>4, <5>1
            <4> QED
                BY <4>1, <4>2 DEF SetOK
        <3> QED
            BY <3>4, <3>5, <3>6
    <2>4. TypeOK'
        BY <1>0, <2>1, <2>2, <2>3 DEF SetsInv, TypeOK
    <2> QED
        BY <1>0, <2>2, <2>3, <2>4, InvKept DEF Kept
<1> QED
    BY <1>1, <1>2

\* Pages and sets agree as PageOK and SetOK say.
THEOREM SetsCorrect == Spec => []SetsInv
<1>1. SetsInv /\ [Next]_vars => SetsInv'
    <2> SUFFICES ASSUME SetsInv, [Next]_vars PROVE SetsInv'
        OBVIOUS
    <2>1. CASE UNCHANGED vars
        BY <2>1 DEF vars, tables, SetsInv, TypeOK, PageOK, SetOK, Exists
    <2>2. CASE \E u \in Users : RequestLost(u)
        <3>1. PICK u \in Users : RequestLost(u)
            BY <2>2
        <3>2. Done(u) /\ UNCHANGED <<set, doc>>
            BY <3>1 DEF RequestLost, tables
        <3>3. TypeOK'
            BY <3>2, Dropped DEF SetsInv, TypeOK
        <3>4. DocEvolves /\ \A s \in Sets : SetOK(s)' /\ RowEvolves(s)
            BY <3>2 DEF DocEvolves, SetsInv, SetOK, Exists, RowEvolves
        <3> QED
            BY <3>2, <3>3, <3>4, Dropped, InvKept DEF Kept
    <2> QED
        BY <2>1, <2>2, BatchSteps, NewSteps, ReadSteps, DocumentSteps DEF Next
<1> QED
    BY <1>1, SetsInit, PTL DEF Spec

\* Every request and every deletion, as it changes the row of a set.
LEMMA LockedRows ==
    ASSUME SetsInv, [Next]_vars, NEW s \in Sets, set[s].locked, set'[s] # set[s]
    PROVE  \/ set'[s] = [set[s] EXCEPT !.locked = FALSE, !.version = @ + 1]
           \/ set'[s] = [set[s] EXCEPT !.members = {d \in @ : doc'[d] # "deleted"}]
<1>0. /\ set[s] \in SetRow /\ set[s].members \subseteq Docs /\ set[s].version \in Nat
      /\ \A d \in set[s].members : doc[d] # "deleted"
    BY DEF SetsInv, TypeOK, SetRow, SetOK
<1>1. CASE UNCHANGED vars
    BY <1>1 DEF vars, tables
<1>2. ASSUME NEW u \in Users, NEW t \in Sets, Lock(u, t)
      PROVE  set'[s] = [set[s] EXCEPT !.locked = FALSE, !.version = @ + 1]
    <2> PICK row : row = [set[t] EXCEPT !.locked = ~@]
        OBVIOUS
    <2> PICK next : next = [row EXCEPT !.version = NextVersion(@)]
        OBVIOUS
    <2>1. set' = set \/ set' = [set EXCEPT ![t] = next]
        BY <1>2 DEF Lock, Write
    <2>2. s = t /\ set'[s] = next
        BY <2>1 DEF SetsInv, TypeOK
    <2>3. /\ row.locked = FALSE /\ row.version = set[s].version /\ row.name = set[s].name
          /\ row.members = set[s].members /\ row \in SetRow
        BY <1>0, <2>2 DEF SetRow
    <2> QED
        BY <1>0, <2>2, <2>3 DEF SetRow, NextVersion
<1>3. ASSUME NEW u \in Users, NEW t \in Sets,
             \/ \E n \in Names : Rename(u, t, n)
             \/ \E D \in SUBSET Docs : Add(u, t, D)
             \/ \E d \in Docs : Remove(u, t, d)
             \/ Delete(u, t)
      PROVE  FALSE
    <2>1. t # s => set'[s] = set[s]
        BY <1>3 DEF Rename, Add, Remove, Delete, Write, SetsInv, TypeOK
    <2>2. ~AtVersionUnlessLocked(u, s)
        BY DEF AtVersionUnlessLocked
    <2>3. t = s => set' = set
        BY <1>3, <2>2 DEF Rename, Add, Remove, Delete, Write
    <2> QED
        BY <2>1, <2>3
<1>4. ASSUME NEW u \in Users, NEW t \in Sets, NEW n \in Names,
             CreateSet(u, t, n) \/ \E r \in Sets : Clone(u, t, r, n)
      PROVE  FALSE
    <2>0. set[s].version # 0
        BY <1>0 DEF SetsInv, SetOK
    <2>1. ASSUME CreateSet(u, t, n) PROVE t # s /\ set'[s] = set[s]
        BY <2>0, <2>1 DEF CreateSet, SetsInv, TypeOK
    <2>2. ASSUME NEW r \in Sets, Clone(u, t, r, n) PROVE set'[s] = set[s]
        BY <2>0, <2>2 DEF Clone, SetsInv, TypeOK
    <2> QED
        BY <1>4, <2>1, <2>2
<1>5. ASSUME NEW d \in Docs, DeleteDocument(d)
      PROVE  set'[s] = [set[s] EXCEPT !.members = {e \in @ : doc'[e] # "deleted"}]
    <2>1. /\ doc' = [doc EXCEPT ![d] = "deleted"]
          /\ set'[s] = [set[s] EXCEPT !.members = @ \ {d}]
        BY <1>5 DEF DeleteDocument
    <2>2. \A e \in set[s].members : doc'[e] # "deleted" <=> e # d
        BY <1>0, <2>1 DEF SetsInv, TypeOK
    <2>3. set[s].members \ {d} = {e \in set[s].members : doc'[e] # "deleted"}
        BY <2>2
    <2> QED
        BY <2>1, <2>3
<1>6. CASE \/ \E u \in Users, t \in Sets :
                \/ OpenSet(u, t) \/ ReadMembers(u, t) \/ SubmitClone(u, t)
                \/ \E a \in {"add", "remove", "lock", "delete"} : Submit(u, a, t)
           \/ \E u \in Users : RequestLost(u)
           \/ \E d \in Docs : SyncDocument(d)
    BY <1>6 DEF OpenSet, ReadMembers, SubmitClone, Submit, RequestLost, SyncDocument, tables
<1> QED
    BY <1>1, <1>2, <1>3, <1>4, <1>5, <1>6 DEF Next

\* While a set is locked, no request that had seen it unlocked changes it: the batch
\* asks again whether it is locked.  Deletion of a document passes the lock.
THEOREM LockCorrect == Spec => LockedStays
<1>1. SetsInv /\ [Next]_vars =>
        [\A s \in Sets : set[s].locked /\ set'[s] # set[s] =>
            \/ set'[s] = [set[s] EXCEPT !.locked = FALSE, !.version = @ + 1]
            \/ set'[s] = [set[s] EXCEPT !.members = {d \in @ : doc'[d] # "deleted"}]]_vars
    BY LockedRows
<1> QED
    BY <1>1, SetsCorrect, PTL DEF Spec, LockedStays

\* What a clone has copied is what the page showed on which it was asked for.
LEMMA CloneRows ==
    ASSUME SetsInv, Next, NEW u \in Users, NEW t \in Sets,
           pc[u] = "clone", pc'[u] = "idle", set'[t] # set[t]
    PROVE  set'[t].members = {d \in shown[u].members : doc[d] # "deleted"}
<1>1. PICK s \in Sets, r \in Sets, n \in Names : Clone(u, s, r, n)
    <2>1. ASSUME NEW v \in Users \ {u}, NEW s \in Sets,
                 \/ \E n \in Names : CreateSet(v, s, n) \/ Rename(v, s, n)
                 \/ OpenSet(v, s) \/ ReadMembers(v, s)
                 \/ \E a \in {"add", "remove", "lock", "delete"} : Submit(v, a, s)
                 \/ \E D \in SUBSET Docs : Add(v, s, D)
                 \/ \E d \in Docs : Remove(v, s, d)
                 \/ Lock(v, s) \/ SubmitClone(v, s) \/ Delete(v, s)
                 \/ \E r \in Sets, n \in Names : Clone(v, s, r, n)
          PROVE  FALSE
        BY <2>1 DEF CreateSet, Rename, OpenSet, ReadMembers, Submit, Add, Remove, Lock, SubmitClone,
            Delete, Clone, Write, Done, SetsInv, TypeOK
    <2>2. ASSUME NEW s \in Sets,
                 \/ \E n \in Names : CreateSet(u, s, n) \/ Rename(u, s, n)
                 \/ OpenSet(u, s) \/ ReadMembers(u, s)
                 \/ \E a \in {"add", "remove", "lock", "delete"} : Submit(u, a, s)
                 \/ \E D \in SUBSET Docs : Add(u, s, D)
                 \/ \E d \in Docs : Remove(u, s, d)
                 \/ Lock(u, s) \/ SubmitClone(u, s) \/ Delete(u, s)
          PROVE  FALSE
        BY <2>2 DEF CreateSet, Rename, OpenSet, ReadMembers, Submit, Add, Remove, Lock, SubmitClone,
            Delete
    <2>3. ASSUME \/ \E v \in Users : RequestLost(v)
                 \/ \E d \in Docs : SyncDocument(d) \/ DeleteDocument(d)
          PROVE  FALSE
        BY <2>3 DEF RequestLost, SyncDocument, DeleteDocument, tables
    <2> QED
        BY <2>1, <2>2, <2>3 DEF Next
<1>2. /\ AtVersion(u, s) /\ on[u] = s
      /\ set' = [set EXCEPT ![r] = NewSet(n, set[s].members)]
    BY <1>1 DEF Clone
<1>3. r = t /\ set'[t] = NewSet(n, set[s].members)
    BY <1>2 DEF SetsInv, TypeOK
<1>4. set[s].members = {d \in shown[u].members : doc[d] # "deleted"}
    BY <1>2 DEF SetsInv, PageOK, AtVersion
<1> QED
    BY <1>3, <1>4 DEF NewSet

\* cloneDocumentSet copies the rows that the set has when its batch runs; its guard on
\* the version makes them those that the page showed.
THEOREM CloneCorrect == Spec => ClonedAsShown
<1>1. SetsInv /\ [Next]_vars =>
        [\A u \in Users, t \in Sets : pc[u] = "clone" /\ pc'[u] = "idle" /\ set'[t] # set[t] =>
            set'[t].members = {d \in shown[u].members : doc[d] # "deleted"}]_vars
    BY CloneRows
<1> QED
    BY <1>1, SetsCorrect, PTL DEF Spec, ClonedAsShown
=============================================================================
