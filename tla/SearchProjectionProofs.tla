----------------------- MODULE SearchProjectionProofs -----------------------
(***************************************************************************)
(* Proofs about SearchProjection, for every number of documents, workers   *)
(* and texts: the types, the agreement of the full-text index with the     *)
(* projection, the protection the version check on dirty rows gives, and   *)
(* that the walk in place drops no document and, when it ends, has missed  *)
(* none.                                                                   *)
(***************************************************************************)
EXTENDS SearchProjection, TLAPS

\* Every step keeps every variable in its type.
LEMMA TypeStep == TypeOK /\ [Next]_vars => TypeOK'
<1> SUFFICES ASSUME TypeOK, [Next]_vars PROVE TypeOK'
    OBVIOUS
<1> USE DocsAssumption, SeedsAssumption, AbsentAssumption, BoundsAssumption
        DEF TypeOK, Workers, Content
<1>1. ASSUME NEW d \in Docs, NEW text \in Content, NEW n \in 1..MaxFirings,
             ChangeDocument(d, text, n)
      PROVE  TypeOK'
    BY <1>1 DEF ChangeDocument, Bumped, MadeAvailable, Taint, local
<1>2. ASSUME NEW D \in SUBSET Docs, NEW text \in [D -> Text], RenameReference(D, text)
      PROVE  TypeOK'
    BY <1>2 DEF RenameReference, Bumped, MadeAvailable, Taint, local
<1>3. CASE BootstrapFirstChunk
    BY <1>3 DEF BootstrapFirstChunk, SilentChange, Taint, local
<1>4. ASSUME NEW D \in SUBSET Docs, NEW text \in [D -> Text], BootstrapApply(D, text)
      PROVE  TypeOK'
    BY <1>4 DEF BootstrapApply, RestartReindex, SilentChange, Taint, local
<1>5. ASSUME NEW D \in SUBSET Docs, NEW text \in [D -> Text], BootstrapFinalize(D, text)
      PROVE  TypeOK'
    BY <1>5 DEF BootstrapFinalize, RestartReindex, SilentChange, Taint, local
<1>6. ASSUME NEW w \in Drainers, NEW D \in SUBSET Docs, DrainRead(w, D)
      PROVE  TypeOK'
  <2>1. [d \in Docs |-> IF d \in D THEN dirty[d] ELSE 0] \in [Docs -> Nat]
    OBVIOUS
  <2>2. entry' \in [Workers -> [Docs -> Nat]]
    BY <1>6, <2>1 DEF DrainRead
  <2>3. QED BY <1>6, <2>2 DEF DrainRead, store, history
<1>7. ASSUME NEW w \in Drainers, NEW D \in SUBSET Docs, DrainCommit(w, D)
      PROVE  TypeOK'
  <2>1. projection' \in [Docs -> Content] /\ fts' \in [Docs -> SUBSET Text]
    BY <1>7 DEF DrainCommit, WriteProjection, Written, FtsAfterWrite
  <2>2. exposed' \subseteq Docs /\ unindexed' \subseteq Docs
    BY <1>7 DEF DrainCommit, WriteProjection
  <2>3. dirty' \in [Docs -> Nat] /\ available' \in [Docs -> BOOLEAN]
    BY <1>7 DEF DrainCommit, MadeAvailable
  <2>4. tainted' \in [Workers -> SUBSET Docs]
    <3>1. Taint(Drainers, D) \in [Workers -> SUBSET Docs]
      BY DEF Taint
    <3>2. CASE D = todo[w]
      <4>1. tainted' = [Taint(Drainers, D) EXCEPT ![w] = {}]
        BY <1>7, <3>2 DEF DrainCommit
      <4>2. QED BY <3>1, <4>1
    <3>3. CASE D # todo[w]
      <4>1. tainted' = [Taint(Drainers, D) EXCEPT ![w] = tainted[w] \ D]
        BY <1>7, <3>3 DEF DrainCommit
      <4>2. QED BY <3>1, <4>1
    <3>4. QED BY <3>2, <3>3
  <2>5. /\ pc' \in [Workers -> {"idle", "source", "drain", "claim", "scan", "rewrite",
                                "advance", "finalize"}]
        /\ todo' \in [Workers -> SUBSET Docs]
        /\ entry' \in [Workers -> [Docs -> Nat]]
        /\ payload' \in [Workers -> [Docs -> Content]]
        /\ seen' \in [Workers -> Docs \cup {0}]
    <3>1. CASE D = todo[w]
      <4>1. Forget(w)
        BY <1>7, <3>1 DEF DrainCommit
      <4>2. QED BY <4>1 DEF Forget, NoRows, Nothing
    <3>2. CASE D # todo[w]
      <4>1. todo' = [todo EXCEPT ![w] = @ \ D] /\ UNCHANGED <<pc, entry, payload, seen>>
        BY <1>7, <3>2 DEF DrainCommit
      <4>2. QED BY <4>1
    <3>3. QED BY <3>1, <3>2
  <2>6. QED BY <1>7, <2>1, <2>2, <2>3, <2>4, <2>5 DEF DrainCommit
<1>8. ASSUME NEW w \in Drainers, NEW D \in SUBSET Docs, DrainAbort(w, D)
      PROVE  TypeOK'
    BY <1>8 DEF DrainAbort, Rest, Forget, NoRows, Nothing, store
<1>9. ASSUME NEW w \in Drainers, DrainSource(w)
      PROVE  TypeOK'
    BY <1>9 DEF DrainSource, store, history
<1>10. ASSUME NEW w \in Drainers, DrainFail(w)
      PROVE  TypeOK'
    BY <1>10 DEF DrainFail, Rest, Forget, NoRows, Nothing
<1>11. ASSUME NEW w \in Reindexers, ReindexRead(w)
      PROVE  TypeOK'
    BY <1>11 DEF ReindexRead, store, history
<1>12. ASSUME NEW w \in Reindexers, ReindexClaim(w)
      PROVE  TypeOK'
    BY <1>12 DEF ReindexClaim
<1>13. ASSUME NEW w \in Reindexers, ReindexScan(w)
      PROVE  TypeOK'
  <2>1. CASE Remaining(seen[w]) = {}
    BY <1>13, <2>1 DEF ReindexScan, store, history
  <2>2. CASE Remaining(seen[w]) # {}
    <3>1. PICK D \in NextChunks(seen[w]) :
            /\ pc' = [pc EXCEPT ![w] = "rewrite"]
            /\ todo' = [todo EXCEPT ![w] = D]
            /\ payload' = [payload EXCEPT ![w] =
                            [d \in Docs |-> IF d \in D THEN source[d] ELSE Absent]]
      BY <1>13, <2>2 DEF ReindexScan
    <3>2. D \subseteq Docs
      BY <3>1 DEF NextChunks, Remaining, Current
    <3>3. QED BY <1>13, <3>1, <3>2 DEF ReindexScan, store, history
  <2>3. QED BY <2>1, <2>2
<1>14. ASSUME NEW w \in Reindexers, NEW D \in SUBSET Docs, ReindexWrite(w, D)
      PROVE  TypeOK'
  <2>1. projection' \in [Docs -> Content] /\ fts' \in [Docs -> SUBSET Text]
    BY <1>14 DEF ReindexWrite, WriteProjection, Written, FtsAfterWrite
  <2>2. exposed' \subseteq Docs /\ unindexed' \subseteq Docs
    BY <1>14 DEF ReindexWrite, WriteProjection
  <2>3. QED BY <1>14, <2>1, <2>2 DEF ReindexWrite
<1>15. ASSUME NEW w \in Reindexers, ReindexAdvance(w)
      PROVE  TypeOK'
    BY <1>15 DEF ReindexAdvance, Rest, Forget, NoRows, Nothing
<1>16. ASSUME NEW w \in Reindexers, ReindexFinalize(w)
      PROVE  TypeOK'
    BY <1>16 DEF ReindexFinalize, Rest, Forget, NoRows, Nothing, Written, FtsAfterWrite
<1>17. ASSUME NEW w \in Reindexers, ReindexConflict(w)
      PROVE  TypeOK'
    BY <1>17 DEF ReindexConflict, Rest, Forget, NoRows, Nothing, store
<1>18. ASSUME NEW d \in Docs, BackoffExpires(d)
      PROVE  TypeOK'
    BY <1>18 DEF BackoffExpires, local, history
<1>19. ASSUME NEW w \in Workers, WorkerLost(w)
      PROVE  TypeOK'
    BY <1>19 DEF WorkerLost, Rest, Forget, NoRows, Nothing, store
<1>20. CASE UNCHANGED vars
    BY <1>20 DEF vars
<1>21. QED
  <2> HIDE DEF TypeOK, Workers, Content
  <2> QED
    BY <1>1, <1>2, <1>3, <1>4, <1>5, <1>6, <1>7, <1>8, <1>9, <1>10, <1>11, <1>12, <1>13,
       <1>14, <1>15, <1>16, <1>17, <1>18, <1>19, <1>20
    DEF Next, DocumentStep, BootstrapStep, DrainStep, ReindexStep

\* The database starts in its types.
LEMMA TypeInit == Init => TypeOK
<1> SUFFICES ASSUME Init PROVE TypeOK
    OBVIOUS
<1> USE BoundsAssumption DEF Init, Content
<1>1. projection \in [Docs -> Content]
    BY DEF Nothing
<1>2. fts \in [Docs -> SUBSET Text]
    BY <1>1
<1>3. dirty \in [Docs -> Nat] /\ entry \in [Workers -> [Docs -> Nat]]
    BY DEF NoRows
<1>4. payload \in [Workers -> [Docs -> Content]]
    BY DEF Nothing
<1>5. unindexed \subseteq Docs /\ exposed \subseteq Docs /\ lapped \subseteq Reindexers
    OBVIOUS
<1>6. /\ source \in [Docs -> Content] /\ bootstrap = "none"
      /\ available \in [Docs -> BOOLEAN] /\ cursor = 0
      /\ status \in {"pending", "building", "ready"}
    OBVIOUS
<1>7. /\ pc \in [Workers -> {"idle", "source", "drain", "claim", "scan", "rewrite", "advance",
                            "finalize"}]
      /\ todo \in [Workers -> SUBSET Docs]
      /\ seen \in [Workers -> Docs \cup {0}]
      /\ tainted \in [Workers -> SUBSET Docs]
    OBVIOUS
<1>8. changes \in 0..MaxChanges /\ faults \in 0..MaxFaults
    OBVIOUS
<1>9. crossed \in BOOLEAN
    BY Zenon
<1> HIDE DEF Init
<1>10. QED BY <1>1, <1>2, <1>3, <1>4, <1>5, <1>6, <1>7, <1>8, <1>9 DEF TypeOK

\* Every variable keeps its type.
THEOREM TypeCorrect == Spec => []TypeOK
BY TypeInit, TypeStep, PTL DEF Spec

-----------------------------------------------------------------------------
(* The full-text index.  The two texts of a row in the index are told apart *)
(* only by what the projection row says, so the agreement needs nothing but *)
(* itself and the types.                                                    *)

\* Taking out the text of the row and putting in the new one keeps the index and
\* the projection in agreement.
LEMMA RewriteAgrees ==
    ASSUME TypeOK, FtsMatchesProjection, NEW D \in SUBSET Docs, NEW new \in [Docs -> Content],
           projection' = Written(D, new), fts' = FtsAfterWrite(D, new)
    PROVE  FtsMatchesProjection'
BY AbsentAssumption DEF TypeOK, FtsMatchesProjection, Written, FtsAfterWrite, Content

LEMMA FtsStep == TypeOK /\ FtsMatchesProjection /\ [Next]_vars => FtsMatchesProjection'
<1> SUFFICES ASSUME TypeOK, FtsMatchesProjection, [Next]_vars PROVE FtsMatchesProjection'
    OBVIOUS
<1>1. ASSUME UNCHANGED <<projection, fts>> PROVE FtsMatchesProjection'
    BY <1>1 DEF FtsMatchesProjection
<1>2. ASSUME NEW w \in Drainers, NEW D \in SUBSET Docs, DrainCommit(w, D)
      PROVE  FtsMatchesProjection'
  <2>1. payload[w] \in [Docs -> Content]
    BY DEF TypeOK, Workers
  <2>2. QED BY <1>2, <2>1, RewriteAgrees DEF DrainCommit, WriteProjection
<1>3. ASSUME NEW w \in Reindexers, NEW D \in SUBSET Docs, ReindexWrite(w, D)
      PROVE  FtsMatchesProjection'
  <2>1. payload[w] \in [Docs -> Content]
    BY DEF TypeOK, Workers
  <2>2. QED BY <1>3, <2>1, RewriteAgrees DEF ReindexWrite, WriteProjection
<1>4. ASSUME NEW w \in Reindexers, ReindexFinalize(w)
      PROVE  FtsMatchesProjection'
  <2>1. Nothing \in [Docs -> Content] /\ Swept \in SUBSET Docs
    BY DEF Nothing, Content, Swept
  <2>2. QED BY <1>4, <2>1, RewriteAgrees DEF ReindexFinalize
<1>5. CASE DocumentStep \/ BootstrapStep
    BY <1>1, <1>5 DEF DocumentStep, BootstrapStep, ChangeDocument, RenameReference,
        BootstrapFirstChunk, BootstrapApply, BootstrapFinalize, SilentChange
<1>6. ASSUME NEW w \in Drainers, DrainStep(w)
      PROVE  FtsMatchesProjection'
    BY <1>1, <1>2, <1>6 DEF DrainStep, DrainRead, DrainAbort, DrainSource, DrainFail, store
<1>7. ASSUME NEW w \in Reindexers, ReindexStep(w)
      PROVE  FtsMatchesProjection'
    BY <1>1, <1>3, <1>4, <1>7 DEF ReindexStep, ReindexRead, ReindexClaim, ReindexScan,
        ReindexAdvance, ReindexConflict, store
<1>8. ASSUME NEW d \in Docs, BackoffExpires(d)
      PROVE  FtsMatchesProjection'
    BY <1>1, <1>8 DEF BackoffExpires
<1>9. ASSUME NEW w \in Workers, WorkerLost(w)
      PROVE  FtsMatchesProjection'
    BY <1>1, <1>9 DEF WorkerLost, store
<1>10. CASE UNCHANGED vars
    BY <1>1, <1>10 DEF vars
<1>11. QED BY <1>5, <1>6, <1>7, <1>8, <1>9, <1>10 DEF Next

\* The index holds exactly the text of each projection row.
THEOREM FtsCorrect == Spec => []FtsMatchesProjection
<1>1. Init => FtsMatchesProjection
    BY DEF Init, FtsMatchesProjection
<1>2. QED BY <1>1, TypeCorrect, FtsStep, PTL DEF Spec

-----------------------------------------------------------------------------
(* The reads of the workers.  ReadsProtected is inductive: every step that  *)
(* changes a document either moves on the version of its row, which is then *)
(* above every version read, or taints the reads that nothing protects.     *)

\* A step that changes no document, version or read.
LEMMA ReadsFrame ==
    ASSUME ReadsProtected, UNCHANGED <<source, dirty, pc, todo, entry, payload, tainted>>
    PROVE  ReadsProtected'
BY DEF ReadsProtected

\* A worker that rests holds no read.
LEMMA ReadsRest ==
    ASSUME TypeOK, ReadsProtected, NEW w \in Workers, Rest(w), UNCHANGED <<source, dirty>>
    PROVE  ReadsProtected'
BY DEF TypeOK, ReadsProtected, Rest, Forget, Workers

\* A transaction that bumps the rows of the documents it changes.
LEMMA ReadsBump ==
    ASSUME TypeOK, ReadsProtected, NEW D \in SUBSET Docs, NEW n \in Nat \ {0},
           \A d \in Docs \ D : source'[d] = source[d],
           dirty' = Bumped(D, n), tainted' = Taint(Reindexers, D), UNCHANGED local
    PROVE  ReadsProtected'
<1>1. ASSUME NEW w \in Drainers, NEW d \in todo'[w] \ tainted'[w]
      PROVE  /\ dirty'[d] >= entry'[w][d]
             /\ pc'[w] = "drain" /\ dirty'[d] = entry'[w][d] => payload'[w][d] = source'[d]
  <2>1. d \in todo[w] \ tainted[w] /\ w \notin Reindexers /\ d \in Docs
    BY WorkersAssumption DEF local, Taint, TypeOK, Workers
  <2>2. dirty[d] >= entry[w][d] /\ dirty[d] \in Nat /\ entry[w][d] \in Nat
    BY <2>1 DEF ReadsProtected, TypeOK, Workers
  <2>3. CASE d \in D
    <3>1. dirty'[d] = dirty[d] + n
      BY <2>1, <2>3 DEF Bumped
    <3>2. QED BY <2>2, <3>1 DEF local
  <2>4. CASE d \notin D
    <3>1. dirty'[d] = dirty[d] /\ source'[d] = source[d]
      BY <2>1, <2>4 DEF Bumped
    <3>2. QED BY <2>1, <3>1 DEF local, ReadsProtected
  <2>5. QED BY <2>3, <2>4
<1>2. ASSUME NEW w \in Reindexers, NEW d \in todo'[w] \ tainted'[w]
      PROVE  payload'[w][d] = source'[d]
  <2>1. d \in todo[w] \ tainted[w] /\ d \in Docs \ D
    BY DEF local, Taint, TypeOK, Workers
  <2>2. QED BY <2>1 DEF local, ReadsProtected
<1>3. QED BY <1>1, <1>2 DEF ReadsProtected

\* A load with the triggers suppressed taints every read of what it changes.
LEMMA ReadsSilent ==
    ASSUME TypeOK, ReadsProtected, NEW D \in SUBSET Docs, SilentChange(D),
           \A d \in Docs \ D : source'[d] = source[d]
    PROVE  ReadsProtected'
<1>1. ASSUME NEW w \in Workers, NEW d \in todo'[w] \ tainted'[w]
      PROVE  d \in todo[w] \ tainted[w] /\ source'[d] = source[d]
    BY DEF SilentChange, Taint, local, TypeOK
<1>2. QED BY <1>1 DEF ReadsProtected, SilentChange, local, Workers

LEMMA ReadsStep == TypeOK /\ ReadsProtected /\ [Next]_vars => ReadsProtected'
<1> SUFFICES ASSUME TypeOK, ReadsProtected, [Next]_vars PROVE ReadsProtected'
    OBVIOUS
<1>1. ASSUME NEW d \in Docs, NEW text \in Content, NEW n \in 1..MaxFirings,
             ChangeDocument(d, text, n)
      PROVE  ReadsProtected'
  <2>1. n \in Nat \ {0} /\ \A e \in Docs \ {d} : source'[e] = source[e]
    BY <1>1, BoundsAssumption DEF ChangeDocument, TypeOK
  <2>2. QED BY <1>1, <2>1, ReadsBump DEF ChangeDocument
<1>2. ASSUME NEW D \in SUBSET Docs, NEW text \in [D -> Text], RenameReference(D, text)
      PROVE  ReadsProtected'
    BY <1>2, ReadsBump DEF RenameReference
<1>3. CASE BootstrapFirstChunk
  <2>1. \A d \in Docs \ Seeds : source'[d] = source[d]
    BY <1>3 DEF BootstrapFirstChunk, Current
  <2>2. QED BY <1>3, <2>1, SeedsAssumption, ReadsSilent DEF BootstrapFirstChunk
<1>4. ASSUME NEW D \in SUBSET Docs, NEW text \in [D -> Text], BootstrapApply(D, text)
      PROVE  ReadsProtected'
  <2>1. \A d \in Docs \ (D \cup Seeds) : source'[d] = source[d]
    BY <1>4 DEF BootstrapApply, Current
  <2>2. QED BY <1>4, <2>1, SeedsAssumption, ReadsSilent DEF BootstrapApply
<1>5. ASSUME NEW D \in SUBSET Docs, NEW text \in [D -> Text], BootstrapFinalize(D, text)
      PROVE  ReadsProtected'
    BY <1>5, ReadsSilent DEF BootstrapFinalize
<1>6. ASSUME NEW w \in Drainers, NEW D \in SUBSET Docs, DrainRead(w, D)
      PROVE  ReadsProtected'
    BY <1>6, WorkersAssumption DEF DrainRead, store, history, ReadsProtected, TypeOK, Workers
<1>7. ASSUME NEW w \in Drainers, DrainSource(w)
      PROVE  ReadsProtected'
  <2>1. w \notin Reindexers /\ todo[w] \subseteq Docs
    BY WorkersAssumption DEF TypeOK, Workers
  <2>2. QED BY <1>7, <2>1 DEF DrainSource, store, history, ReadsProtected, TypeOK, Workers
<1>8. ASSUME NEW w \in Drainers, NEW D \in SUBSET Docs, DrainCommit(w, D)
      PROVE  ReadsProtected'
  <2>1. ASSUME NEW x \in Drainers, NEW d \in todo'[x] \ tainted'[x]
        PROVE  /\ d \in todo[x] \ tainted[x] /\ d \notin D
               /\ pc'[x] = pc[x] /\ entry'[x] = entry[x] /\ payload'[x] = payload[x]
    <3>1. CASE D = todo[w]
      <4>1. Forget(w) /\ tainted' = [Taint(Drainers, D) EXCEPT ![w] = {}]
        BY <1>8, <3>1 DEF DrainCommit
      <4>2. x # w
        BY <4>1 DEF Forget, TypeOK, Workers
      <4>3. todo'[x] = todo[x] /\ tainted'[x] = tainted[x] \cup (D \cap todo[x])
        BY <4>1, <4>2 DEF Forget, Taint, TypeOK, Workers
      <4>4. pc'[x] = pc[x] /\ entry'[x] = entry[x] /\ payload'[x] = payload[x]
        BY <4>1, <4>2 DEF Forget, TypeOK, Workers
      <4>5. QED BY <4>3, <4>4
    <3>2. CASE D # todo[w]
      <4>1. /\ todo' = [todo EXCEPT ![w] = @ \ D]
            /\ tainted' = [Taint(Drainers, D) EXCEPT ![w] = tainted[w] \ D]
            /\ UNCHANGED <<pc, entry, payload>>
        BY <1>8, <3>2 DEF DrainCommit
      <4>2. CASE x = w
        BY <4>1, <4>2 DEF Taint, TypeOK, Workers
      <4>3. CASE x # w
        BY <4>1, <4>3 DEF Taint, TypeOK, Workers
      <4>4. QED BY <4>2, <4>3
    <3>3. QED BY <3>1, <3>2
  <2>2. ASSUME NEW x \in Reindexers
        PROVE  todo'[x] = todo[x] /\ tainted'[x] = tainted[x] /\ payload'[x] = payload[x]
    <3>1. x # w /\ x \in Workers /\ x \notin Drainers
      BY WorkersAssumption DEF Workers
    <3>2. CASE D = todo[w]
      <4>1. Forget(w) /\ tainted' = [Taint(Drainers, D) EXCEPT ![w] = {}]
        BY <1>8, <3>2 DEF DrainCommit
      <4>2. QED BY <3>1, <4>1 DEF Forget, Taint, TypeOK
    <3>3. CASE D # todo[w]
      <4>1. /\ todo' = [todo EXCEPT ![w] = @ \ D]
            /\ tainted' = [Taint(Drainers, D) EXCEPT ![w] = tainted[w] \ D]
            /\ UNCHANGED payload
        BY <1>8, <3>3 DEF DrainCommit
      <4>2. QED BY <3>1, <4>1 DEF Taint, TypeOK
    <3>4. QED BY <3>2, <3>3
  <2>3. source' = source /\ \A d \in Docs \ D : dirty'[d] = dirty[d]
    BY <1>8 DEF DrainCommit
  <2>4. \A x \in Drainers : todo[x] \subseteq Docs
    BY DEF TypeOK, Workers
  <2>5. QED BY <2>1, <2>2, <2>3, <2>4 DEF ReadsProtected
<1>9. ASSUME NEW w \in Drainers, NEW D \in SUBSET Docs, DrainAbort(w, D) \/ DrainFail(w)
      PROVE  ReadsProtected'
    BY <1>9, ReadsRest DEF DrainAbort, DrainFail, store, Workers
<1>10. ASSUME NEW w \in Reindexers, ReindexRead(w) \/ ReindexClaim(w)
       PROVE  ReadsProtected'
    BY <1>10, WorkersAssumption
    DEF ReindexRead, ReindexClaim, ReadsProtected, TypeOK, Workers, store, history
<1>11. ASSUME NEW w \in Reindexers, ReindexScan(w)
       PROVE  ReadsProtected'
  <2>1. w \notin Drainers /\ w \in Workers
    BY WorkersAssumption DEF Workers
  <2>2. CASE Remaining(seen[w]) = {}
    <3>1. /\ UNCHANGED <<source, dirty, todo, entry, payload, tainted>>
          /\ pc' = [pc EXCEPT ![w] = "finalize"]
      BY <1>11, <2>2 DEF ReindexScan, store, history
    <3>2. \A x \in Drainers : pc'[x] = pc[x]
      BY <2>1, <3>1 DEF TypeOK, Workers
    <3>3. QED BY <3>1, <3>2 DEF ReadsProtected
  <2>3. CASE Remaining(seen[w]) # {}
    <3>1. PICK D \in NextChunks(seen[w]) :
            /\ pc' = [pc EXCEPT ![w] = "rewrite"]
            /\ todo' = [todo EXCEPT ![w] = D]
            /\ payload' = [payload EXCEPT ![w] =
                            [d \in Docs |-> IF d \in D THEN source[d] ELSE Absent]]
      BY <1>11, <2>3 DEF ReindexScan
    <3>2. D \subseteq Docs
      BY <3>1 DEF NextChunks, Remaining, Current
    <3>3. UNCHANGED <<source, dirty, entry, tainted>>
      BY <1>11 DEF ReindexScan, store, history
    <3>4. QED BY <2>1, <3>1, <3>2, <3>3 DEF ReadsProtected, TypeOK, Workers
  <2>4. QED BY <2>2, <2>3
<1>12. ASSUME NEW w \in Reindexers, NEW D \in SUBSET Docs, ReindexWrite(w, D)
       PROVE  ReadsProtected'
  <2>1. w \notin Drainers /\ w \in Workers
    BY WorkersAssumption DEF Workers
  <2>2. QED BY <1>12, <2>1 DEF ReindexWrite, ReadsProtected, TypeOK, Workers
<1>13. ASSUME NEW w \in Reindexers,
              ReindexAdvance(w) \/ ReindexFinalize(w) \/ ReindexConflict(w)
       PROVE  ReadsProtected'
    BY <1>13, ReadsRest DEF ReindexAdvance, ReindexFinalize, ReindexConflict, store, Workers
<1>14. ASSUME NEW d \in Docs, BackoffExpires(d)
       PROVE  ReadsProtected'
    BY <1>14, ReadsFrame DEF BackoffExpires, local, history
<1>15. ASSUME NEW w \in Workers, WorkerLost(w)
       PROVE  ReadsProtected'
    BY <1>15, ReadsRest DEF WorkerLost, store
<1>16. CASE UNCHANGED vars
    BY <1>16, ReadsFrame DEF vars
<1>17. QED
    BY <1>1, <1>2, <1>3, <1>4, <1>5, <1>6, <1>7, <1>8, <1>9, <1>10, <1>11, <1>12, <1>13,
       <1>14, <1>15, <1>16
    DEF Next, DocumentStep, BootstrapStep, DrainStep, ReindexStep

\* What a worker will write from a protected read is what the document says.
THEOREM ReadsCorrect == Spec => []ReadsProtected
<1>1. Init => ReadsProtected
    BY DEF Init, ReadsProtected, Workers
<1>2. QED BY <1>1, TypeCorrect, ReadsStep, PTL DEF Spec

-----------------------------------------------------------------------------
(* Freshness.  It rests on ReadsProtected: a write of the projection from a *)
(* protected read leaves the row as the document is, any other write puts   *)
(* the row among the exposed ones.                                          *)

\* A step that does not touch the projection and marks what it changes.
LEMMA FreshMark ==
    ASSUME TypeOK, FreshOrDirty, NEW D \in SUBSET Docs,
           UNCHANGED <<projection, exposed, unindexed>>,
           \A d \in D : dirty'[d] > 0,
           \A d \in Docs \ D : source'[d] = source[d] /\ dirty'[d] = dirty[d]
    PROVE  FreshOrDirty'
BY DEF FreshOrDirty, Fresh, Dirty

\* A load that changes documents behind the triggers.
LEMMA FreshSilent ==
    ASSUME TypeOK, FreshOrDirty, NEW D \in SUBSET Docs, SilentChange(D),
           \A d \in Docs \ D : source'[d] = source[d]
    PROVE  FreshOrDirty'
BY DEF FreshOrDirty, Fresh, Dirty, SilentChange

\* A write of documents D by worker w, whose unspoilt reads are current.
LEMMA FreshWrite ==
    ASSUME TypeOK, FreshOrDirty, NEW w \in Workers, NEW D \in SUBSET Docs,
           WriteProjection(w, D), source' = source,
           \A d \in D \ tainted[w] : payload[w][d] = source[d],
           \A d \in Docs \ D : dirty'[d] = dirty[d]
    PROVE  FreshOrDirty'
<1> SUFFICES ASSUME NEW d \in Docs \ (exposed' \cup unindexed') PROVE Fresh(d)' \/ Dirty(d)'
    BY DEF FreshOrDirty
<1>1. CASE d \in D
  <2>1. d \notin tainted[w]
    BY <1>1 DEF WriteProjection
  <2>2. projection'[d] = payload[w][d]
    BY <1>1 DEF WriteProjection, Written
  <2>3. QED BY <1>1, <2>1, <2>2 DEF Fresh
<1>2. CASE d \notin D
  <2>1. d \in Docs \ (exposed \cup unindexed) /\ projection'[d] = projection[d]
    BY <1>2 DEF WriteProjection, Written
  <2>2. QED BY <1>2, <2>1 DEF FreshOrDirty, Fresh, Dirty
<1>3. QED BY <1>1, <1>2

LEMMA FreshStep == TypeOK /\ ReadsProtected /\ FreshOrDirty /\ [Next]_vars => FreshOrDirty'
<1> SUFFICES ASSUME TypeOK, ReadsProtected, FreshOrDirty, [Next]_vars PROVE FreshOrDirty'
    OBVIOUS
<1>1. ASSUME UNCHANGED <<source, projection, dirty, exposed, unindexed>>
      PROVE  FreshOrDirty'
    BY <1>1 DEF FreshOrDirty, Fresh, Dirty
<1>2. ASSUME NEW d \in Docs, NEW text \in Content, NEW n \in 1..MaxFirings,
             ChangeDocument(d, text, n)
      PROVE  FreshOrDirty'
  <2>1. dirty'[d] > 0 /\ \A e \in Docs \ {d} : source'[e] = source[e] /\ dirty'[e] = dirty[e]
    BY <1>2, BoundsAssumption DEF ChangeDocument, Bumped, TypeOK
  <2>2. QED BY <1>2, <2>1, FreshMark DEF ChangeDocument
<1>3. ASSUME NEW D \in SUBSET Docs, NEW text \in [D -> Text], RenameReference(D, text)
      PROVE  FreshOrDirty'
  <2>1. \A d \in D : dirty'[d] > 0
    BY <1>3 DEF RenameReference, Bumped, TypeOK
  <2>2. \A d \in Docs \ D : source'[d] = source[d] /\ dirty'[d] = dirty[d]
    BY <1>3 DEF RenameReference, Bumped, TypeOK
  <2>3. QED BY <1>3, <2>1, <2>2, FreshMark DEF RenameReference
<1>4. CASE BootstrapFirstChunk
  <2>1. \A d \in Docs \ Seeds : source'[d] = source[d]
    BY <1>4 DEF BootstrapFirstChunk, Current
  <2>2. QED BY <1>4, <2>1, SeedsAssumption, FreshSilent DEF BootstrapFirstChunk
<1>5. ASSUME NEW D \in SUBSET Docs, NEW text \in [D -> Text], BootstrapApply(D, text)
      PROVE  FreshOrDirty'
  <2>1. \A d \in Docs \ (D \cup Seeds) : source'[d] = source[d]
    BY <1>5 DEF BootstrapApply, Current
  <2>2. QED BY <1>5, <2>1, SeedsAssumption, FreshSilent DEF BootstrapApply
<1>6. ASSUME NEW D \in SUBSET Docs, NEW text \in [D -> Text], BootstrapFinalize(D, text)
      PROVE  FreshOrDirty'
    BY <1>6, FreshSilent DEF BootstrapFinalize
<1>7. ASSUME NEW w \in Drainers, NEW D \in SUBSET Docs, DrainCommit(w, D)
      PROVE  FreshOrDirty'
  <2>1. \A d \in D \ tainted[w] : payload[w][d] = source[d]
    BY <1>7 DEF DrainCommit, EntriesUnchanged, ReadsProtected
  <2>2. QED BY <1>7, <2>1, FreshWrite DEF DrainCommit, Workers
<1>8. ASSUME NEW w \in Reindexers, NEW D \in SUBSET Docs, ReindexWrite(w, D)
      PROVE  FreshOrDirty'
  <2>1. \A d \in D \ tainted[w] : payload[w][d] = source[d]
    BY <1>8 DEF ReindexWrite, ReadsProtected
  <2>2. QED BY <1>8, <2>1, FreshWrite DEF ReindexWrite, Workers
<1>9. ASSUME NEW w \in Reindexers, ReindexFinalize(w)
      PROVE  FreshOrDirty'
  <2>1. ASSUME NEW d \in Swept PROVE Fresh(d)'
    BY <1>9, <2>1 DEF ReindexFinalize, Swept, Written, Nothing, Fresh
  <2>2. ASSUME NEW d \in Docs \ (Swept \cup exposed' \cup unindexed')
        PROVE  Fresh(d)' \/ Dirty(d)'
    <3>1. d \in Docs \ (exposed \cup unindexed) /\ projection'[d] = projection[d]
      BY <1>9, <2>2 DEF ReindexFinalize, Written
    <3>2. QED BY <1>9, <3>1 DEF ReindexFinalize, FreshOrDirty, Fresh, Dirty
  <2>3. QED BY <2>1, <2>2 DEF FreshOrDirty
<1>10. ASSUME NEW w \in Drainers, DrainStep(w)
       PROVE  FreshOrDirty'
    BY <1>1, <1>7, <1>10
    DEF DrainStep, DrainRead, DrainAbort, DrainSource, DrainFail, store, history
<1>11. ASSUME NEW w \in Reindexers, ReindexStep(w)
       PROVE  FreshOrDirty'
    BY <1>1, <1>8, <1>9, <1>11
    DEF ReindexStep, ReindexRead, ReindexClaim, ReindexScan, ReindexAdvance,
        ReindexConflict, store, history
<1>12. ASSUME NEW d \in Docs, BackoffExpires(d)
       PROVE  FreshOrDirty'
    BY <1>1, <1>12 DEF BackoffExpires, history
<1>13. ASSUME NEW w \in Workers, WorkerLost(w)
       PROVE  FreshOrDirty'
    BY <1>1, <1>13 DEF WorkerLost, store
<1>14. CASE UNCHANGED vars
    BY <1>1, <1>14 DEF vars
<1>15. QED
    BY <1>2, <1>3, <1>4, <1>5, <1>6, <1>10, <1>11, <1>12, <1>13, <1>14
    DEF Next, DocumentStep, BootstrapStep

\* A row of the projection is as its document is, or queued, unless it was changed
\* behind the triggers or last written from an unprotected read.
THEOREM FreshCorrect == Spec => []FreshOrDirty
<1>1. Init => FreshOrDirty
    BY DEF Init, FreshOrDirty, Fresh
<1>2. QED BY <1>1, TypeCorrect, ReadsCorrect, ReadsStep, FreshStep, PTL DEF Spec

-----------------------------------------------------------------------------
(* In-place rebuilds.  A write that takes a row out of the projection was    *)
(* made from a read that found no current document; if nothing has spoilt    *)
(* the read, there is none at the moment of the write either.                *)

LEMMA UnlistedStep ==
    TypeOK /\ ReadsProtected /\ [Next]_vars =>
        \A d \in Docs : projection[d] # Absent /\ projection'[d] = Absent =>
            source[d] = Absent \/ d \in exposed'
<1> SUFFICES ASSUME TypeOK, ReadsProtected, [Next]_vars, NEW d \in Docs,
                    projection[d] # Absent, projection'[d] = Absent
             PROVE  source[d] = Absent \/ d \in exposed'
    OBVIOUS
<1>1. ASSUME NEW w \in Workers, NEW D \in SUBSET Docs, WriteProjection(w, D),
             \A e \in D \ tainted[w] : payload[w][e] = source[e]
      PROVE  source[d] = Absent \/ d \in exposed'
    BY <1>1 DEF WriteProjection, Written
<1>2. ASSUME NEW w \in Drainers, NEW D \in SUBSET Docs, DrainCommit(w, D)
      PROVE  source[d] = Absent \/ d \in exposed'
  <2>1. \A e \in D \ tainted[w] : payload[w][e] = source[e]
    BY <1>2 DEF DrainCommit, EntriesUnchanged, ReadsProtected
  <2>2. QED BY <1>1, <1>2, <2>1 DEF DrainCommit, Workers
<1>3. ASSUME NEW w \in Reindexers, NEW D \in SUBSET Docs, ReindexWrite(w, D)
      PROVE  source[d] = Absent \/ d \in exposed'
  <2>1. \A e \in D \ tainted[w] : payload[w][e] = source[e]
    BY <1>3 DEF ReindexWrite, ReadsProtected
  <2>2. QED BY <1>1, <1>3, <2>1 DEF ReindexWrite, Workers
<1>4. ASSUME NEW w \in Reindexers, ReindexFinalize(w)
      PROVE  source[d] = Absent \/ d \in exposed'
    BY <1>4 DEF ReindexFinalize, Written, Swept
<1>5. projection' # projection
    OBVIOUS
<1>6. ~(DocumentStep \/ BootstrapStep)
    BY <1>5 DEF DocumentStep, BootstrapStep, ChangeDocument, RenameReference,
        BootstrapFirstChunk, BootstrapApply, BootstrapFinalize, SilentChange
<1>7. ASSUME NEW w \in Drainers, DrainStep(w)
      PROVE  source[d] = Absent \/ d \in exposed'
    BY <1>2, <1>5, <1>7 DEF DrainStep, DrainRead, DrainAbort, DrainSource, DrainFail, store
<1>8. ASSUME NEW w \in Reindexers, ReindexStep(w)
      PROVE  source[d] = Absent \/ d \in exposed'
    BY <1>3, <1>4, <1>5, <1>8 DEF ReindexStep, ReindexRead, ReindexClaim, ReindexScan,
        ReindexAdvance, ReindexConflict, store
<1>9. QED BY <1>5, <1>6, <1>7, <1>8 DEF Next, vars, BackoffExpires, WorkerLost, store

\* A document of the ledger that search can find never drops out of the
\* projection while it is rebuilt, except by a write from an unprotected read.
THEOREM ListedCorrect == Spec => NeverUnlisted
<1> DEFINE Listed == \A d \in Docs : projection[d] # Absent /\ projection'[d] = Absent =>
                       source[d] = Absent \/ d \in exposed'
<1>1. TypeOK /\ ReadsProtected /\ [Next]_vars => [Listed]_vars
    BY UnlistedStep
<1>2. QED BY <1>1, TypeCorrect, ReadsCorrect, PTL DEF NeverUnlisted, Spec

-----------------------------------------------------------------------------
(* The cursor of the walk.                                                   *)

\* A run holds contents only between its scan and its end, and only of documents
\* past the cursor it has read: the cursor it will set is further on.
ChunkPastCursor ==
    \A w \in Reindexers :
        /\ pc[w] \in {"idle", "claim", "scan", "finalize"} => payload[w] = Nothing
        /\ \A d \in Docs : payload[w][d] # Absent => d > seen[w]

LEMMA ChunkFrame ==
    ASSUME ChunkPastCursor, UNCHANGED <<pc, payload, seen>> PROVE ChunkPastCursor'
BY DEF ChunkPastCursor

\* A worker that forgets what it has read, and a drainer whatever it reads.
LEMMA ChunkForget ==
    ASSUME TypeOK, ChunkPastCursor, NEW w \in Workers, Forget(w) PROVE ChunkPastCursor'
<1>1. ASSUME NEW x \in Reindexers
      PROVE  /\ pc'[x] \in {"idle", "claim", "scan", "finalize"} => payload'[x] = Nothing
             /\ \A d \in Docs : payload'[x][d] # Absent => d > seen'[x]
  <2>1. CASE x = w
    BY <2>1 DEF Forget, TypeOK, Workers, Nothing
  <2>2. CASE x # w
    BY <2>2 DEF Forget, TypeOK, Workers, ChunkPastCursor
  <2>3. QED BY <2>1, <2>2
<1>2. QED BY <1>1 DEF ChunkPastCursor

LEMMA ChunkStep == TypeOK /\ ChunkPastCursor /\ [Next]_vars => ChunkPastCursor'
<1> SUFFICES ASSUME TypeOK, ChunkPastCursor, [Next]_vars PROVE ChunkPastCursor'
    OBVIOUS
<1>1. CASE DocumentStep \/ BootstrapStep
    BY <1>1, ChunkFrame DEF DocumentStep, BootstrapStep, ChangeDocument, RenameReference,
        BootstrapFirstChunk, BootstrapApply, BootstrapFinalize, SilentChange, local
<1>2. ASSUME NEW w \in Drainers, DrainStep(w) PROVE ChunkPastCursor'
  <2>1. w \notin Reindexers /\ w \in Workers
    BY WorkersAssumption DEF Workers
  <2>2. ASSUME \A x \in Reindexers : pc'[x] = pc[x] /\ payload'[x] = payload[x] /\ seen'[x] = seen[x]
        PROVE  ChunkPastCursor'
    BY <2>2 DEF ChunkPastCursor
  <2>3. ASSUME NEW D \in SUBSET Docs, DrainRead(w, D) PROVE ChunkPastCursor'
    BY <2>1, <2>2, <2>3 DEF DrainRead, TypeOK, Workers
  <2>4. ASSUME DrainSource(w) PROVE ChunkPastCursor'
    BY <2>1, <2>2, <2>4 DEF DrainSource, TypeOK, Workers
  <2>5. ASSUME NEW D \in SUBSET Docs, DrainCommit(w, D) PROVE ChunkPastCursor'
    BY <2>1, <2>5, ChunkForget, ChunkFrame DEF DrainCommit
  <2>6. QED BY <1>2, <2>1, <2>3, <2>4, <2>5, ChunkForget DEF DrainStep, DrainAbort, DrainFail, Rest
<1>3. ASSUME NEW w \in Reindexers, ReindexRead(w) \/ ReindexClaim(w) PROVE ChunkPastCursor'
  <2>1. pc[w] \in {"idle", "claim"} /\ payload[w] = Nothing /\ UNCHANGED payload
    BY <1>3 DEF ReindexRead, ReindexClaim, ChunkPastCursor
  <2>2. \A x \in Reindexers : x # w => pc'[x] = pc[x] /\ seen'[x] = seen[x]
    BY <1>3 DEF ReindexRead, ReindexClaim, TypeOK, Workers
  <2>3. \A d \in Docs : payload'[w][d] = Absent
    BY <2>1 DEF Nothing
  <2>4. QED BY <2>1, <2>2, <2>3 DEF ChunkPastCursor
<1>4. ASSUME NEW w \in Reindexers, ReindexScan(w) PROVE ChunkPastCursor'
  <2>1. CASE Remaining(seen[w]) = {}
    BY <1>4, <2>1 DEF ReindexScan, ChunkPastCursor, TypeOK, Workers
  <2>2. CASE Remaining(seen[w]) # {}
    <3>1. PICK D \in NextChunks(seen[w]) :
            /\ pc' = [pc EXCEPT ![w] = "rewrite"]
            /\ payload' = [payload EXCEPT ![w] =
                            [d \in Docs |-> IF d \in D THEN source[d] ELSE Absent]]
      BY <1>4, <2>2 DEF ReindexScan
    <3>2. \A d \in D : d > seen[w]
      BY <3>1 DEF NextChunks, Remaining
    <3>3. UNCHANGED seen /\ w \in Workers
      BY <1>4 DEF ReindexScan, Workers
    <3>4. pc'[w] = "rewrite" /\ \A d \in Docs : payload'[w][d] # Absent => d > seen'[w]
      BY <3>1, <3>2, <3>3 DEF TypeOK
    <3>5. \A x \in Reindexers : x # w => pc'[x] = pc[x] /\ payload'[x] = payload[x]
      BY <3>1 DEF TypeOK, Workers
    <3>6. QED BY <3>3, <3>4, <3>5 DEF ChunkPastCursor
  <2>3. QED BY <2>1, <2>2
<1>5. ASSUME NEW w \in Reindexers, NEW D \in SUBSET Docs, ReindexWrite(w, D) PROVE ChunkPastCursor'
    BY <1>5 DEF ReindexWrite, ChunkPastCursor, TypeOK, Workers
<1>6. ASSUME NEW w \in Reindexers, ReindexAdvance(w) \/ ReindexFinalize(w) \/ ReindexConflict(w)
      PROVE  ChunkPastCursor'
    BY <1>6, ChunkForget DEF ReindexAdvance, ReindexFinalize, ReindexConflict, Rest, Workers
<1>7. ASSUME NEW d \in Docs, BackoffExpires(d) PROVE ChunkPastCursor'
    BY <1>7, ChunkFrame DEF BackoffExpires, local
<1>8. ASSUME NEW w \in Workers, WorkerLost(w) PROVE ChunkPastCursor'
    BY <1>8, ChunkForget DEF WorkerLost, Rest
<1>9. CASE UNCHANGED vars
    BY <1>9, ChunkFrame DEF vars
<1>10. QED BY <1>1, <1>2, <1>3, <1>4, <1>5, <1>6, <1>7, <1>8, <1>9 DEF Next, ReindexStep

LEMMA ChunkInit == Init => ChunkPastCursor
BY DEF Init, ChunkPastCursor, Nothing, Workers

\* A step within one walk moves the cursor on or leaves it.
LEMMA CursorStep ==
    TypeOK /\ ChunkPastCursor /\ [Next]_vars =>
        (status = "building" /\ status' = "building" => cursor' >= cursor)
<1> SUFFICES ASSUME TypeOK, ChunkPastCursor, [Next]_vars,
                    status = "building", status' = "building"
             PROVE  cursor' >= cursor
    OBVIOUS
<1>1. cursor \in Nat
    BY DocsAssumption DEF TypeOK
<1>2. ASSUME UNCHANGED cursor PROVE cursor' >= cursor
    BY <1>1, <1>2
<1>3. ASSUME NEW w \in Reindexers, ReindexAdvance(w) PROVE cursor' >= cursor
  <2>1. PICK d \in Docs : payload[w][d] # Absent /\ cursor' = d
    BY <1>3 DEF ReindexAdvance, NextCursor
  <2>2. d > cursor /\ d \in Nat
    BY <1>3, <2>1, DocsAssumption DEF ReindexAdvance, BuildingAtSeen, ChunkPastCursor
  <2>3. QED BY <1>1, <2>1, <2>2
<1>4. ASSUME NEW w \in Reindexers, ReindexStep(w) PROVE cursor' >= cursor
    BY <1>2, <1>3, <1>4 DEF ReindexStep, ReindexRead, ReindexClaim, PendingAtSeen, ReindexScan,
        ReindexWrite, ReindexFinalize, ReindexConflict, store
<1>5. CASE DocumentStep \/ BootstrapStep
    BY <1>2, <1>5 DEF DocumentStep, BootstrapStep, ChangeDocument, RenameReference,
        BootstrapFirstChunk, BootstrapApply, BootstrapFinalize, RestartReindex
<1>6. ASSUME NEW w \in Drainers, DrainStep(w) PROVE cursor' >= cursor
    BY <1>2, <1>6 DEF DrainStep, DrainRead, DrainCommit, DrainAbort, DrainSource, DrainFail, store
<1>7. QED BY <1>2, <1>4, <1>5, <1>6 DEF Next, vars, BackoffExpires, WorkerLost, store

\* However many runs of the walk overlap, its cursor only goes forward.
THEOREM CursorCorrect == Spec => CursorNeverGoesBack
<1> DEFINE Forward == status = "building" /\ status' = "building" => cursor' >= cursor
<1>1. TypeOK /\ ChunkPastCursor /\ [Next]_vars => [Forward]_vars
    BY CursorStep
<1>2. QED BY <1>1, TypeCorrect, ChunkInit, ChunkStep, PTL DEF CursorNeverGoesBack, Spec

-----------------------------------------------------------------------------
(* The walk covers everything.  A document is accounted for when search has  *)
(* it as it is, will have it once its dirty row is drained, or has it from   *)
(* an unprotected write.  Only a load behind the triggers ends that, and it  *)
(* either hides the document or starts the walk again; so what is not        *)
(* accounted for lies ahead of the cursor, or is hidden, and a run that      *)
(* began in this walk has accounted for its chunk when it moves the cursor.  *)

Accounted(d) == Fresh(d) \/ Dirty(d) \/ d \in exposed

\* What the walk has passed: everything when it is over, what the cursor has
\* reached while it lasts.
WalkPassed ==
    ~crossed =>
        /\ status = "building" => \A d \in Docs : Accounted(d) \/ source[d] = Absent \/ d > cursor
        /\ status = "ready" /\ bootstrap # "staging" => \A d \in Docs : Accounted(d)

\* The chunk of a run of this walk: the documents up to its last one are accounted
\* for or still to be written; a run that found none left was right.
ChunkPassed(w) ==
    /\ pc[w] \in {"rewrite", "advance"} =>
        \A d, e \in Docs :
            d > seen[w] /\ source[d] # Absent /\ payload[w][e] # Absent /\ d <= e
            => Accounted(d) \/ d \in todo[w]
    /\ pc[w] = "advance" => todo[w] = {}
    /\ pc[w] = "finalize" => \A d \in Docs : d > seen[w] /\ source[d] # Absent => Accounted(d)

WalkCovers == WalkPassed /\ \A w \in Reindexers \ lapped : ChunkPassed(w)

\* Steps after which nothing current has come to be unaccounted for.
Keeps == \A d \in Docs : source'[d] # Absent /\ ~Accounted(d)' => ~Accounted(d) /\ source[d] # Absent
KeepsHidden == \A d \in Docs : ~Accounted(d)' => ~Accounted(d)

\* A step that loses no document and leaves the state of the walk and the runs of
\* W as they are.
LEMMA PassedFrame ==
    ASSUME WalkPassed, Keeps, KeepsHidden, UNCHANGED <<bootstrap, status, cursor, crossed>>
    PROVE  WalkPassed'
BY DEF WalkPassed, Keeps, KeepsHidden

LEMMA ChunkPassedFrame ==
    ASSUME NEW w \in Reindexers, ChunkPassed(w), Keeps,
           pc'[w] = pc[w], todo'[w] = todo[w], payload'[w] = payload[w], seen'[w] = seen[w]
    PROVE  ChunkPassed(w)'
BY DEF ChunkPassed, Keeps

LEMMA CoversFrame ==
    ASSUME WalkCovers, Keeps, KeepsHidden, lapped \subseteq lapped',
           UNCHANGED <<bootstrap, status, cursor, crossed, pc, todo, payload, seen>>
    PROVE  WalkCovers'
BY PassedFrame, ChunkPassedFrame DEF WalkCovers

\* A run that forgets what it has read.
LEMMA CoversForget ==
    ASSUME TypeOK, WalkCovers, NEW w \in Workers, Forget(w), Keeps, lapped' = lapped \ {w}
    PROVE  \A x \in Reindexers \ lapped' : ChunkPassed(x)'
<1> SUFFICES ASSUME NEW x \in Reindexers \ lapped' PROVE ChunkPassed(x)'
    OBVIOUS
<1>1. CASE x = w
  <2>1. pc'[x] = "idle"
    BY <1>1 DEF Forget, TypeOK
  <2>2. QED BY <2>1 DEF ChunkPassed
<1>2. CASE x # w
  <2>1. x \in Workers /\ x \notin lapped
    BY <1>2 DEF Workers
  <2>2. pc'[x] = pc[x] /\ todo'[x] = todo[x] /\ payload'[x] = payload[x] /\ seen'[x] = seen[x]
    BY <1>2, <2>1 DEF Forget, TypeOK
  <2>3. QED BY <2>1, <2>2, ChunkPassedFrame DEF WalkCovers
<1>3. QED BY <1>1, <1>2

LEMMA CoversRest ==
    ASSUME TypeOK, WalkCovers, NEW w \in Workers, Rest(w),
           UNCHANGED <<source, bootstrap, projection, dirty, status, cursor, exposed, crossed>>
    PROVE  WalkCovers'
<1>1. Keeps /\ KeepsHidden
    BY DEF Keeps, KeepsHidden, Accounted, Fresh, Dirty
<1>2. QED BY <1>1, PassedFrame, CoversForget DEF WalkCovers, Rest

\* A write of the projection accounts for the documents it writes.
LEMMA WriteAccounts ==
    ASSUME TypeOK, NEW w \in Workers, NEW D \in SUBSET Docs, WriteProjection(w, D),
           UNCHANGED source,
           \A d \in D \ tainted[w] : payload[w][d] = source[d],
           \A d \in Docs \ D : dirty'[d] = dirty[d]
    PROVE  Keeps /\ KeepsHidden /\ \A d \in D : Accounted(d)'
<1>1. ASSUME NEW d \in D PROVE Accounted(d)'
  <2>1. CASE d \in tainted[w]
    BY <2>1 DEF WriteProjection, Accounted
  <2>2. CASE d \notin tainted[w]
    BY <2>2 DEF WriteProjection, Written, Accounted, Fresh
  <2>3. QED BY <2>1, <2>2
<1>2. ASSUME NEW d \in Docs \ D, Accounted(d) PROVE Accounted(d)'
    BY <1>2 DEF WriteProjection, Written, Accounted, Fresh, Dirty
<1>3. QED BY <1>1, <1>2 DEF Keeps, KeepsHidden

\* A change that marks its documents dirty, and one made behind the triggers.
LEMMA MarkKeeps ==
    ASSUME NEW D \in SUBSET Docs, UNCHANGED <<projection, exposed>>,
           \A d \in D : dirty'[d] > 0,
           \A d \in Docs \ D : source'[d] = source[d] /\ dirty'[d] = dirty[d]
    PROVE  Keeps /\ KeepsHidden
BY DEF Keeps, KeepsHidden, Accounted, Fresh, Dirty

\* The restart of the walk laps every run that is under way.
LEMMA CoversRestart ==
    ASSUME RestartReindex, UNCHANGED <<pc, todo, payload, seen>>
    PROVE  WalkCovers'
BY DEF RestartReindex, WalkCovers, WalkPassed, ChunkPassed

LEMMA CoversStep == TypeOK /\ ReadsProtected /\ WalkCovers /\ [Next]_vars => WalkCovers'
<1> SUFFICES ASSUME TypeOK, ReadsProtected, WalkCovers, [Next]_vars PROVE WalkCovers'
    OBVIOUS
<1>1. ASSUME NEW d \in Docs, NEW text \in Content, NEW n \in 1..MaxFirings,
             ChangeDocument(d, text, n)
      PROVE  WalkCovers'
  <2>1. dirty'[d] > 0 /\ \A e \in Docs \ {d} : source'[e] = source[e] /\ dirty'[e] = dirty[e]
    BY <1>1, BoundsAssumption DEF ChangeDocument, Bumped, TypeOK
  <2>2. Keeps /\ KeepsHidden
    BY <1>1, <2>1, MarkKeeps DEF ChangeDocument
  <2>3. QED BY <1>1, <2>2, CoversFrame DEF ChangeDocument, local
<1>2. ASSUME NEW D \in SUBSET Docs, NEW text \in [D -> Text], RenameReference(D, text)
      PROVE  WalkCovers'
  <2>1. \A d \in D : dirty'[d] > 0
    BY <1>2 DEF RenameReference, Bumped, TypeOK
  <2>2. \A d \in Docs \ D : source'[d] = source[d] /\ dirty'[d] = dirty[d]
    BY <1>2 DEF RenameReference, Bumped, TypeOK
  <2>3. Keeps /\ KeepsHidden
    BY <1>2, <2>1, <2>2, MarkKeeps DEF RenameReference
  <2>4. QED BY <1>2, <2>3, CoversFrame DEF RenameReference, local
<1>3. CASE BootstrapFirstChunk
  <2>1. \A d \in Docs : source'[d] = Absent
    BY <1>3 DEF BootstrapFirstChunk
  <2>2. bootstrap' = "staging"
        /\ UNCHANGED <<status, cursor, lapped, crossed, pc, todo, payload, seen>>
    BY <1>3 DEF BootstrapFirstChunk, SilentChange, local
  <2>3. WalkPassed'
    BY <2>1, <2>2 DEF WalkPassed
  <2>4. Keeps
    BY <2>1 DEF Keeps
  <2>5. QED BY <2>2, <2>3, <2>4, ChunkPassedFrame DEF WalkCovers
<1>4. ASSUME NEW D \in SUBSET Docs, NEW text \in [D -> Text],
             BootstrapApply(D, text) \/ BootstrapFinalize(D, text)
      PROVE  WalkCovers'
    BY <1>4, CoversRestart DEF BootstrapApply, BootstrapFinalize, SilentChange, local
<1>5. ASSUME NEW w \in Drainers, NEW D \in SUBSET Docs, DrainCommit(w, D)
      PROVE  WalkCovers'
  <2>1. \A d \in D \ tainted[w] : payload[w][d] = source[d]
    BY <1>5 DEF DrainCommit, EntriesUnchanged, ReadsProtected
  <2>2. Keeps /\ KeepsHidden
    BY <1>5, <2>1, WriteAccounts DEF DrainCommit, Workers
  <2>3. WalkPassed'
    BY <1>5, <2>2, PassedFrame DEF DrainCommit, WalkCovers
  <2>4. ASSUME NEW x \in Reindexers
        PROVE  pc'[x] = pc[x] /\ todo'[x] = todo[x] /\ payload'[x] = payload[x] /\ seen'[x] = seen[x]
    <3>1. x # w /\ x \in Workers
      BY WorkersAssumption DEF Workers
    <3>2. QED BY <1>5, <3>1 DEF DrainCommit, Forget, TypeOK
  <2>5. lapped' = lapped
    BY <1>5 DEF DrainCommit
  <2>6. QED BY <2>2, <2>3, <2>4, <2>5, ChunkPassedFrame DEF WalkCovers
<1>6. ASSUME NEW w \in Drainers, NEW D \in SUBSET Docs, DrainRead(w, D) \/ DrainSource(w)
      PROVE  WalkCovers'
  <2>1. Keeps /\ KeepsHidden
    BY <1>6 DEF DrainRead, DrainSource, store, history, Keeps, KeepsHidden, Accounted, Fresh, Dirty
  <2>2. WalkPassed' /\ lapped' = lapped
    BY <1>6, <2>1, PassedFrame DEF DrainRead, DrainSource, store, history, WalkCovers
  <2>3. ASSUME NEW x \in Reindexers
        PROVE  pc'[x] = pc[x] /\ todo'[x] = todo[x] /\ payload'[x] = payload[x] /\ seen'[x] = seen[x]
    <3>1. x # w /\ x \in Workers
      BY WorkersAssumption DEF Workers
    <3>2. QED BY <1>6, <3>1 DEF DrainRead, DrainSource, TypeOK
  <2>4. QED BY <2>1, <2>2, <2>3, ChunkPassedFrame DEF WalkCovers
<1>7. ASSUME NEW w \in Drainers, NEW D \in SUBSET Docs, DrainAbort(w, D) \/ DrainFail(w)
      PROVE  WalkCovers'
    BY <1>7, CoversRest DEF DrainAbort, DrainFail, store, Workers
<1>8. ASSUME NEW w \in Reindexers, ReindexRead(w) \/ ReindexClaim(w)
      PROVE  WalkCovers'
  <2>1. w \in Workers /\ pc'[w] \notin {"rewrite", "advance", "finalize"}
    BY <1>8 DEF ReindexRead, ReindexClaim, TypeOK, Workers
  <2>2. Keeps /\ KeepsHidden
    BY <1>8 DEF ReindexRead, ReindexClaim, store, history, Keeps, KeepsHidden, Accounted, Fresh, Dirty
  <2>3. WalkPassed'
    <3>1. CASE ReindexRead(w)
      BY <2>2, <3>1, PassedFrame DEF ReindexRead, store, history, WalkCovers
    <3>2. CASE ReindexClaim(w)
      BY <3>2, DocsAssumption DEF ReindexClaim, WalkPassed
    <3>3. QED BY <1>8, <3>1, <3>2
  <2>4. ASSUME NEW x \in Reindexers, x # w
        PROVE  pc'[x] = pc[x] /\ todo'[x] = todo[x] /\ payload'[x] = payload[x] /\ seen'[x] = seen[x]
    BY <1>8, <2>4 DEF ReindexRead, ReindexClaim, TypeOK, Workers
  <2>5. lapped' \in {lapped, lapped \ {w}}
    BY <1>8 DEF ReindexRead, ReindexClaim, history
  <2>6. ChunkPassed(w)'
    BY <2>1 DEF ChunkPassed
  <2>7. QED BY <2>2, <2>3, <2>4, <2>5, <2>6, ChunkPassedFrame DEF WalkCovers
<1>9. ASSUME NEW w \in Reindexers, ReindexScan(w)
      PROVE  WalkCovers'
  <2>1. UNCHANGED <<source, bootstrap, projection, dirty, status, cursor, exposed, lapped,
                    crossed, seen>>
    BY <1>9 DEF ReindexScan, store, history
  <2>2. Keeps /\ KeepsHidden
    BY <2>1 DEF Keeps, KeepsHidden, Accounted, Fresh, Dirty
  <2>3. WalkPassed'
    BY <2>1, <2>2, PassedFrame DEF WalkCovers
  <2>4. ASSUME NEW x \in Reindexers, x # w
        PROVE  pc'[x] = pc[x] /\ todo'[x] = todo[x] /\ payload'[x] = payload[x] /\ seen'[x] = seen[x]
    BY <1>9, <2>1, <2>4 DEF ReindexScan, TypeOK, Workers
  <2>5. ChunkPassed(w)'
    <3>1. CASE Remaining(seen[w]) = {}
      <4>1. pc'[w] = "finalize"
        BY <1>9, <3>1 DEF ReindexScan, TypeOK, Workers
      <4>2. \A d \in Docs : ~(d > seen'[w] /\ source'[d] # Absent)
        BY <2>1, <3>1 DEF Remaining, Current
      <4>3. QED BY <4>1, <4>2 DEF ChunkPassed
    <3>2. CASE Remaining(seen[w]) # {}
      <4>1. PICK D \in NextChunks(seen[w]) :
              /\ pc' = [pc EXCEPT ![w] = "rewrite"]
              /\ todo' = [todo EXCEPT ![w] = D]
              /\ payload' = [payload EXCEPT ![w] =
                              [d \in Docs |-> IF d \in D THEN source[d] ELSE Absent]]
        BY <1>9, <3>2 DEF ReindexScan
      <4>2. /\ pc'[w] = "rewrite" /\ todo'[w] = D
            /\ \A e \in Docs : payload'[w][e] # Absent => e \in D
        BY <4>1 DEF TypeOK, Workers
      <4>3. ASSUME NEW d \in Docs, NEW e \in D, d > seen[w], source[d] # Absent, d <= e
            PROVE  d \in D
        <5>1. d \in Remaining(seen[w]) /\ e \in Docs
          BY <4>1, <4>3 DEF Remaining, Current, NextChunks
        <5>2. d \notin D => e < d
          BY <4>1, <4>3, <5>1 DEF NextChunks
        <5>3. QED BY <4>3, <5>1, <5>2, DocsAssumption
      <4>4. QED BY <2>1, <4>2, <4>3 DEF ChunkPassed
    <3>3. QED BY <3>1, <3>2
  <2>6. QED BY <2>1, <2>2, <2>3, <2>4, <2>5, ChunkPassedFrame DEF WalkCovers
<1>10. ASSUME NEW w \in Reindexers, NEW D \in SUBSET Docs, ReindexWrite(w, D)
       PROVE  WalkCovers'
  <2>1. \A d \in D \ tainted[w] : payload[w][d] = source[d]
    BY <1>10 DEF ReindexWrite, ReadsProtected
  <2>2. Keeps /\ KeepsHidden /\ \A d \in D : Accounted(d)'
    BY <1>10, <2>1, WriteAccounts DEF ReindexWrite, Workers
  <2>3. WalkPassed'
    BY <1>10, <2>2, PassedFrame DEF ReindexWrite, WalkCovers
  <2>4. UNCHANGED <<source, seen, payload, lapped>>
    BY <1>10 DEF ReindexWrite
  <2>5. ASSUME NEW x \in Reindexers, x # w
        PROVE  pc'[x] = pc[x] /\ todo'[x] = todo[x]
    BY <1>10, <2>5 DEF ReindexWrite, TypeOK, Workers
  <2>6. ASSUME ChunkPassed(w) PROVE ChunkPassed(w)'
    <3>1. /\ pc[w] = "rewrite" /\ todo'[w] = todo[w] \ D
          /\ pc'[w] = IF D = todo[w] THEN "advance" ELSE "rewrite"
      BY <1>10 DEF ReindexWrite, TypeOK, Workers
    <3>2. ASSUME NEW d \in Docs, NEW e \in Docs,
                 d > seen[w], source[d] # Absent, payload[w][e] # Absent, d <= e
          PROVE  Accounted(d)' \/ d \in todo'[w]
      <4>1. Accounted(d) \/ d \in todo[w]
        BY <2>6, <3>1, <3>2 DEF ChunkPassed
      <4>2. QED BY <2>2, <2>4, <3>1, <3>2, <4>1 DEF Keeps
    <3>3. QED BY <2>4, <3>1, <3>2 DEF ChunkPassed
  <2>7. QED BY <2>2, <2>3, <2>4, <2>5, <2>6, ChunkPassedFrame DEF WalkCovers
<1>11. ASSUME NEW w \in Reindexers, ReindexAdvance(w)
       PROVE  WalkCovers'
  <2>1. Keeps /\ UNCHANGED <<source, bootstrap, status>> /\ status = "building" /\ cursor = seen[w]
        /\ \A d \in Docs : Accounted(d) => Accounted(d)'
    BY <1>11 DEF ReindexAdvance, BuildingAtSeen, Keeps, Accounted, Fresh, Dirty
  <2>2. PICK m \in Docs : payload[w][m] # Absent /\ cursor' = m
    BY <1>11 DEF ReindexAdvance, NextCursor
  <2>3. ASSUME ~crossed', NEW d \in Docs, source[d] # Absent, ~Accounted(d)
        PROVE  d > cursor'
    <3>1. ~crossed /\ w \notin lapped
      BY <1>11, <2>3 DEF ReindexAdvance
    <3>2. d > seen[w]
      BY <2>1, <2>3, <3>1 DEF WalkCovers, WalkPassed
    <3>3. ~(d <= m)
      BY <1>11, <2>2, <2>3, <3>1, <3>2 DEF WalkCovers, ChunkPassed, ReindexAdvance
    <3>4. QED BY <2>2, <3>3, DocsAssumption
  <2>4. WalkPassed'
    BY <2>1, <2>3 DEF WalkPassed
  <2>5. QED BY <1>11, <2>1, <2>4, CoversForget DEF ReindexAdvance, Rest, WalkCovers, Workers
<1>12. ASSUME NEW w \in Reindexers, ReindexFinalize(w)
       PROVE  WalkCovers'
  <2>1. /\ \A d \in Docs : Accounted(d) => Accounted(d)'
        /\ \A d \in Swept : Accounted(d)'
    BY <1>12 DEF ReindexFinalize, Written, Nothing, Swept, Accounted, Fresh, Dirty
  <2>2. Keeps /\ UNCHANGED source /\ status' = "ready"
    BY <1>12, <2>1 DEF ReindexFinalize, Keeps
  <2>3. ASSUME ~crossed', NEW d \in Docs, source[d] # Absent
        PROVE  Accounted(d)
    <3>1. ~crossed /\ w \notin lapped /\ status = "building" /\ cursor = seen[w]
      BY <1>12, <2>3 DEF ReindexFinalize, BuildingAtSeen
    <3>2. d > seen[w] => Accounted(d)
      BY <1>12, <2>3, <3>1 DEF WalkCovers, ChunkPassed, ReindexFinalize
    <3>3. QED BY <2>3, <3>1, <3>2 DEF WalkCovers, WalkPassed
  <2>4. WalkPassed'
    BY <2>1, <2>2, <2>3 DEF WalkPassed, Swept
  <2>5. QED BY <1>12, <2>2, <2>4, CoversForget DEF ReindexFinalize, Rest, WalkCovers, Workers
<1>13. ASSUME NEW w \in Reindexers, ReindexConflict(w)
       PROVE  WalkCovers'
    BY <1>13, CoversRest DEF ReindexConflict, store, Workers
<1>14. ASSUME NEW d \in Docs, BackoffExpires(d)
       PROVE  WalkCovers'
  <2>1. Keeps /\ KeepsHidden
    BY <1>14 DEF BackoffExpires, history, Keeps, KeepsHidden, Accounted, Fresh, Dirty
  <2>2. QED BY <1>14, <2>1, CoversFrame DEF BackoffExpires, local, history
<1>15. ASSUME NEW w \in Workers, WorkerLost(w)
       PROVE  WalkCovers'
    BY <1>15, CoversRest DEF WorkerLost, store
<1>16. CASE UNCHANGED vars
  <2>1. Keeps /\ KeepsHidden
    BY <1>16 DEF vars, Keeps, KeepsHidden, Accounted, Fresh, Dirty
  <2>2. QED BY <1>16, <2>1, CoversFrame DEF vars
<1>17. QED
    BY <1>1, <1>2, <1>3, <1>4, <1>5, <1>6, <1>7, <1>8, <1>9, <1>10, <1>11, <1>12, <1>13,
       <1>14, <1>15, <1>16
    DEF Next, DocumentStep, BootstrapStep, DrainStep, ReindexStep

\* After a walk that no run of an earlier one has disturbed, search misses nothing.
THEOREM ReadyCorrect == Spec => []ReadyMeansSearchable
<1>1. Init => WalkCovers
  <2>1. Init => WalkPassed
    BY DEF Init, WalkPassed, Accounted, Fresh
  <2>2. Init => \A w \in Reindexers : ChunkPassed(w)
    BY DEF Init, ChunkPassed, Workers
  <2>3. QED BY <2>1, <2>2 DEF WalkCovers
<1>2. WalkCovers => ReadyMeansSearchable
    BY DEF WalkCovers, WalkPassed, ReadyMeansSearchable, Accounted
<1>3. QED BY <1>1, <1>2, TypeCorrect, ReadsCorrect, CoversStep, PTL DEF Spec
=============================================================================
