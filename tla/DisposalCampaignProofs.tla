----------------------- MODULE DisposalCampaignProofs -----------------------
(***************************************************************************)
(* Proofs about DisposalCampaign, for every number of documents, campaigns *)
(* and users: the types with the limit on items; that no campaign disposes *)
(* of a document changed since it was frozen; that its set, its exclusions *)
(* and its totals stay those that were reviewed and add up.                *)
(***************************************************************************)
EXTENDS DisposalCampaign, FiniteSetTheorems, TLAPS

\* Sets of documents are finite, and a smaller one has no more members.
LEMMA DocsFinite ==
    ASSUME NEW D \in SUBSET Docs
    PROVE  /\ IsFiniteSet(D)
           /\ Cardinality(D) \in Nat
           /\ \A E \in SUBSET D : Cardinality(E) <= Cardinality(D)
BY DocsAssumption, FS_Subset, FS_CardinalityType

LEMMA CountedType ==
    ASSUME NEW c \in Campaigns, NEW I PROVE Counted(c, I) \in [Outcomes -> Nat]
<1>1. \A o \in Outcomes : Cardinality({d \in Docs : I[d] = o}) \in Nat
  <2> SUFFICES ASSUME NEW o \in Outcomes PROVE Cardinality({d \in Docs : I[d] = o}) \in Nat
    OBVIOUS
  <2> QED BY DocsFinite
<1>2. QED BY <1>1 DEF Counted

\* A read and the end of a request keep the request's variables in their types.
LEMMA ReadType ==
    ASSUME TypeOK, NEW u \in Users, NEW c \in Campaigns,
           NEW a \in {"edit", "review", "exclude", "include", "start", "cancel", "process"},
           NEW D \in SUBSET Docs, Cardinality(D) <= Chunk, Read(u, c, a, D)
    PROVE  TypeOK'
BY DEF TypeOK, Read, documents, campaigns

LEMMA DoneType ==
    ASSUME TypeOK, NEW u \in Users, Done(u)
    PROVE  /\ pc' \in [Users -> {"idle", "edit", "review", "count", "freeze", "select",
                                 "exclude", "include", "start", "cancel", "process"}]
           /\ on' \in [Users -> Campaigns \cup {NoCampaign}]
           /\ saw' \in [Users -> [stamp : Nat, terms : SUBSET Groups]]
           /\ picked' \in [Users -> {D \in SUBSET Docs : Cardinality(D) <= Chunk}]
           /\ reviewed' \in [Users -> SUBSET SUBSET Groups]
<1>1. {} \in {D \in SUBSET Docs : Cardinality(D) <= Chunk}
    BY FS_EmptySet, BoundsAssumption
<1>2. QED BY <1>1 DEF TypeOK, Done, NothingSeen

\* A request past its read works on a campaign.
Working ==
    \A u \in Users : pc[u] \notin {"idle", "select"} => on[u] \in Campaigns

LEMMA SmallSets ==
    /\ Cardinality({}) <= Chunk
    /\ \A d \in Docs : {d} \in SUBSET Docs /\ Cardinality({d}) <= Chunk
BY FS_EmptySet, FS_Singleton, BoundsAssumption

LEMMA WorkingStep == TypeOK /\ Working /\ [Next]_vars => Working'
<1> SUFFICES ASSUME TypeOK, Working, [Next]_vars PROVE Working'
    OBVIOUS
<1>1. ASSUME NEW u \in Users, pc' = [pc EXCEPT ![u] = "idle"],
             on' = [on EXCEPT ![u] = NoCampaign]
      PROVE  Working'
    BY <1>1 DEF Working, TypeOK
<1>2. ASSUME UNCHANGED <<pc, on>> PROVE Working'
    BY <1>2 DEF Working
<1>3. ASSUME NEW u \in Users, NEW c \in Campaigns, NEW a, NEW D, Read(u, c, a, D)
      PROVE  Working'
    BY <1>3 DEF Read, Working, TypeOK
<1>4. ASSUME NEW u \in Users,
             FreezeRead(u) \/ \E confirmed \in 0..MaxItems : FreezeCount(u, confirmed)
      PROVE  Working'
    BY <1>1, <1>4 DEF FreezeRead, FreezeCount, Done, Working, TypeOK
<1>5. ASSUME NEW u \in Users, NEW D \in SUBSET Docs, SelectRead(u, D) PROVE Working'
    BY <1>5 DEF SelectRead, Working, TypeOK
<1>6. ASSUME NEW u \in Users, NEW c \in Campaigns, CampaignRead(u, c) PROVE Working'
    BY <1>3, <1>6 DEF CampaignRead, EditRead, FreezePage, StartRead, CancelRead, ProcessRead,
        ExcludeRead, IncludeRead
<1>7. ASSUME NEW u \in Users, RequestStep(u) PROVE Working'
    BY <1>1, <1>4, <1>5, <1>7 DEF RequestStep, EditCommit, FreezeCommit, SelectCommit,
        ExcludeCommit, IncludeCommit, ExcludeOrInclude, StartCommit, CancelCommit,
        ProcessCommit, RequestLost, Done
<1>8. CASE DocumentStep
    BY <1>2, <1>8 DEF DocumentStep, ChangeDocument, SyncDocument, AddDocument, RemoveSeeds,
        requests
<1>9. ASSUME NEW c \in Campaigns, NEW G \in SUBSET Groups, CreateDraft(c, G) PROVE Working'
    BY <1>2, <1>9 DEF CreateDraft, requests
<1>10. CASE UNCHANGED vars
    BY <1>2, <1>10 DEF vars
<1>11. QED BY <1>6, <1>7, <1>8, <1>9, <1>10 DEF Next

\* What Aggregate and Audit leave of the types.
LEMMA AggregateType ==
    ASSUME TypeOK, NEW c \in Campaigns, NEW I, Aggregate(c, I)
    PROVE  tally' \in [Campaigns -> [Outcomes -> Nat]] /\ status' \in [Campaigns -> States]
<1>1. Counted(c, I) \in [Outcomes -> Nat]
    BY CountedType
<1>2. QED BY <1>1 DEF Aggregate, TypeOK, States

LEMMA AuditType ==
    ASSUME TypeOK, NEW c \in Campaigns, NEW a \in Actions, NEW g, Audit(c, a, g)
    PROVE  trail' \in [Campaigns -> SUBSET Actions]
<1>1. CASE g
    BY <1>1 DEF Audit, TypeOK
<1>2. CASE ~g
    BY <1>2 DEF Audit, TypeOK
<1>3. QED BY <1>1, <1>2

LEMMA FreezeItemsType ==
    ASSUME TypeOK, NEW c \in Campaigns, NEW D \in SUBSET Docs, FreezeItems(c, D)
    PROVE  /\ item' \in [Campaigns -> [Docs -> ItemStates]]
           /\ expected' \in [Campaigns -> [Docs -> Nat]]
BY DEF TypeOK, FreezeItems, ItemStates

LEMMA TypeStep == TypeOK /\ Working /\ [Next]_vars => TypeOK'
<1> SUFFICES ASSUME TypeOK, Working, [Next]_vars PROVE TypeOK'
    OBVIOUS
<1>1. ASSUME NEW u \in Users, NEW c \in Campaigns, CampaignRead(u, c)
      PROVE  TypeOK'
    BY <1>1, ReadType, SmallSets
    DEF CampaignRead, EditRead, FreezePage, StartRead, CancelRead, ProcessRead,
        ExcludeRead, IncludeRead
<1>2. ASSUME NEW c \in Campaigns, NEW G \in SUBSET Groups, CreateDraft(c, G)
      PROVE  TypeOK'
  <2>1. trail' \in [Campaigns -> SUBSET Actions]
    BY <1>2, AuditType DEF CreateDraft, Actions
  <2>2. QED BY <1>2, <2>1 DEF CreateDraft, TypeOK, States, documents, requests
<1>3. ASSUME NEW u \in Users, NEW G \in SUBSET Groups, NEW later \in BOOLEAN,
             EditCommit(u, G, later)
      PROVE  TypeOK'
  <2>1. on[u] \in Campaigns
    BY <1>3 DEF EditCommit, Working
  <2>2. /\ pc' = [pc EXCEPT ![u] = "idle"] /\ on' = [on EXCEPT ![u] = NoCampaign]
        /\ saw' = [saw EXCEPT ![u] = NothingSeen]
        /\ NothingSeen \in [stamp : Nat, terms : SUBSET Groups]
        /\ reviewed' \in [Users -> SUBSET SUBSET Groups]
    BY <1>3 DEF EditCommit, NothingSeen, TypeOK
  <2>3. terms' \in [Campaigns -> SUBSET Groups] /\ stamp' \in [Campaigns -> Nat]
    BY <1>3, <2>1 DEF EditCommit, TypeOK
  <2>4. edits' \in [Campaigns -> 0..MaxEdits]
    BY <1>3, <2>1, BoundsAssumption DEF EditCommit, TypeOK
  <2>5. QED BY <1>3, <2>2, <2>3, <2>4 DEF EditCommit, TypeOK, documents
<1>4. ASSUME NEW u \in Users, NEW confirmed \in 0..MaxItems, FreezeCount(u, confirmed)
      PROVE  TypeOK'
  <2>1. CASE /\ pc' = [pc EXCEPT ![u] = "freeze"]
             /\ UNCHANGED <<on, saw, picked, reviewed>>
    BY <1>4, <2>1 DEF FreezeCount, TypeOK, documents, campaigns
  <2>2. CASE Done(u)
    BY <1>4, <2>2, DoneType DEF FreezeCount, TypeOK, documents, campaigns
  <2>3. QED BY <1>4, <2>1, <2>2 DEF FreezeCount
<1>4a. ASSUME NEW u \in Users, FreezeRead(u)
       PROVE  TypeOK'
  <2>1. on[u] \in Campaigns /\ pc[u] = "review"
    BY <1>4a DEF FreezeRead, Working
  <2>2. CASE Done(u)
    BY <1>4a, <2>2, DoneType DEF FreezeRead, TypeOK, documents, campaigns
  <2>3. CASE /\ pc' = [pc EXCEPT ![u] = "count"]
             /\ saw' = [saw EXCEPT ![u] = [stamp |-> saw[u].stamp, terms |-> terms[on[u]]]]
             /\ UNCHANGED <<on, picked, reviewed>>
    BY <1>4a, <2>1, <2>3 DEF FreezeRead, TypeOK, documents, campaigns
  <2>4. QED BY <1>4a, <2>2, <2>3 DEF FreezeRead
<1>5. ASSUME NEW u \in Users, FreezeCommit(u)
      PROVE  TypeOK'
  <2> DEFINE c == on[u]
             D == Candidates(terms[c])
  <2>1. c \in Campaigns /\ D \in SUBSET Docs /\ Cardinality(D) \in Nat
    BY <1>5, DocsFinite DEF FreezeCommit, Working, Candidates
  <2>2. Done(u) /\ Audit(c, "freeze", Freezable(u, c))
    BY <1>5 DEF FreezeCommit
  <2>3. trail' \in [Campaigns -> SUBSET Actions]
    BY <2>1, <2>2, AuditType DEF Actions, Freezable
  <2>4. CASE Freezable(u, c)
    <3>1. FreezeItems(c, D) /\ Cardinality(D) \in 0..MaxItems
      BY <1>5, <2>4 DEF FreezeCommit, Freezable
    <3>2. /\ status' = [status EXCEPT ![c] = "frozen"]
          /\ target' = [target EXCEPT ![c] = Cardinality(D)]
          /\ touched' = [touched EXCEPT ![c] = {}]
      BY <1>5, <2>4 DEF FreezeCommit
    <3>3. /\ status' \in [Campaigns -> States] /\ target' \in [Campaigns -> 0..MaxItems]
          /\ touched' \in [Campaigns -> SUBSET Docs]
      BY <2>1, <3>1, <3>2 DEF TypeOK, States
    <3>4. QED BY <1>5, <2>1, <2>2, <2>3, <3>1, <3>3, DoneType, FreezeItemsType
          DEF FreezeCommit, TypeOK, documents
  <2>5. CASE ~Freezable(u, c)
    BY <1>5, <2>2, <2>3, <2>5, DoneType DEF FreezeCommit, TypeOK, documents
  <2>6. QED BY <2>4, <2>5
<1>6. ASSUME NEW u \in Users, NEW D \in SUBSET Docs, SelectRead(u, D)
      PROVE  TypeOK'
    BY <1>6 DEF SelectRead, TypeOK, documents, campaigns
<1>7. ASSUME NEW u \in Users, NEW c \in Campaigns, SelectCommit(u, c)
      PROVE  TypeOK'
  <2> DEFINE D == picked[u] \cap Candidates(Groups)
  <2>1. picked[u] \in SUBSET Docs /\ D \in SUBSET picked[u] /\ Cardinality(picked[u]) <= Chunk
    BY DEF TypeOK
  <2>2. Cardinality(D) \in 0..MaxItems
    BY <2>1, DocsFinite, BoundsAssumption
  <2>3. Done(u) /\ Audit(c, "create", D \in {picked[u], {}})
    BY <1>7 DEF SelectCommit
  <2>4. trail' \in [Campaigns -> SUBSET Actions]
    BY <2>3, AuditType DEF Actions
  <2>5. CASE D \in {picked[u], {}}
    <3>1. FreezeItems(c, D)
      BY <1>7, <2>5 DEF SelectCommit
    <3>2. /\ status' = [status EXCEPT ![c] = IF D = {} THEN "draft" ELSE "frozen"]
          /\ stamp' = [stamp EXCEPT ![c] = 1]
          /\ target' = [target EXCEPT ![c] = Cardinality(D)]
          /\ touched' = [touched EXCEPT ![c] = {}]
      BY <1>7, <2>5 DEF SelectCommit
    <3>3. /\ status' \in [Campaigns -> States] /\ target' \in [Campaigns -> 0..MaxItems]
          /\ stamp' \in [Campaigns -> Nat]
          /\ touched' \in [Campaigns -> SUBSET Docs]
      BY <2>2, <3>2 DEF TypeOK, States
    <3>4. QED BY <1>7, <2>1, <2>3, <2>4, <3>1, <3>3, DoneType, FreezeItemsType
          DEF SelectCommit, TypeOK, documents
  <2>6. CASE D \notin {picked[u], {}}
    BY <1>7, <2>3, <2>4, <2>6, DoneType DEF SelectCommit, TypeOK, documents
  <2>7. QED BY <2>5, <2>6
<1>8. ASSUME NEW u \in Users, NEW a \in {"exclude", "include"},
             NEW from \in {"pending", "excluded"}, NEW to \in {"pending", "excluded"},
             ExcludeOrInclude(u, a, from, to)
      PROVE  TypeOK'
  <2> DEFINE c == on[u]
             I == Moved(c, picked[u], from, to)
             g == \E d \in picked[u] : MayMove(c, d, from)
  <2>1. c \in Campaigns /\ I \in [Docs -> ItemStates]
    <3>1. c \in Campaigns
      BY <1>8 DEF ExcludeOrInclude, Working
    <3>2. item[c] \in [Docs -> ItemStates]
      BY <3>1 DEF TypeOK
    <3>3. to \in ItemStates
      BY DEF ItemStates, Outcomes
    <3>4. I \in [Docs -> ItemStates]
      BY <3>2, <3>3 DEF Moved
    <3>5. QED BY <3>1, <3>4
  <2>2. Done(u) /\ Audit(c, a, g) /\ Aggregate(c, I) /\ item' = [item EXCEPT ![c] = I]
    BY <1>8 DEF ExcludeOrInclude
  <2>3. trail' \in [Campaigns -> SUBSET Actions]
    BY <2>1, <2>2, AuditType DEF Actions
  <2>4. item' \in [Campaigns -> [Docs -> ItemStates]]
    BY <2>1, <2>2 DEF TypeOK
  <2>5. QED BY <1>8, <2>1, <2>2, <2>3, <2>4, DoneType, AggregateType
        DEF ExcludeOrInclude, TypeOK, documents
<1>9. ASSUME NEW u \in Users, StartCommit(u) \/ CancelCommit(u)
      PROVE  TypeOK'
  <2>1. on[u] \in Campaigns /\ Done(u)
    BY <1>9 DEF StartCommit, CancelCommit, Working
  <2>2. trail' \in [Campaigns -> SUBSET Actions]
    <3>1. CASE StartCommit(u)
      BY <2>1, <3>1, AuditType DEF StartCommit, Actions
    <3>2. CASE CancelCommit(u)
      BY <2>1, <3>2, AuditType DEF CancelCommit, Actions
    <3>3. QED BY <1>9, <3>1, <3>2
  <2>3. status' \in [Campaigns -> States]
    <3>1. CASE StartCommit(u)
      BY <3>1 DEF StartCommit, TypeOK, States
    <3>2. CASE CancelCommit(u)
      BY <3>2 DEF CancelCommit, TypeOK, States
    <3>3. QED BY <1>9, <3>1, <3>2
  <2>4. QED BY <1>9, <2>1, <2>2, <2>3, DoneType DEF StartCommit, CancelCommit, TypeOK, documents
<1>10. ASSUME NEW u \in Users, NEW D \in SUBSET Docs, ProcessCommit(u, D)
       PROVE  TypeOK'
  <2> DEFINE c == on[u]
             disposed == {d \in D : FrozenUnchanged(c, d)}
             I == [d \in Docs |->
                    IF d \in disposed THEN "completed"
                    ELSE IF d \in D THEN (IF standing[d] = "none" THEN "failed" ELSE "changed")
                    ELSE item[c][d]]
             g == status[c] = "processing" /\ \A d \in Docs : I[d] # "pending"
  <2>1. c \in Campaigns /\ I \in [Docs -> ItemStates]
    <3>1. c \in Campaigns
      BY <1>10 DEF ProcessCommit, Working
    <3>2. item[c] \in [Docs -> ItemStates] /\ {"completed", "failed", "changed"} \subseteq ItemStates
      BY <3>1 DEF TypeOK, ItemStates, Outcomes
    <3>3. I \in [Docs -> ItemStates]
      BY <3>2
    <3>4. QED BY <3>1, <3>3
  <2>2. Done(u) /\ Audit(c, "complete", g) /\ Aggregate(c, I) /\ item' = [item EXCEPT ![c] = I]
    BY <1>10 DEF ProcessCommit
  <2>3. trail' \in [Campaigns -> SUBSET Actions]
    BY <2>1, <2>2, AuditType DEF Actions
  <2>4. item' \in [Campaigns -> [Docs -> ItemStates]]
    BY <2>1, <2>2 DEF TypeOK
  <2>5. standing' \in [Docs -> {"none", "active", "disposed"}] /\ version' \in [Docs -> Nat]
    BY <1>10 DEF ProcessCommit, TypeOK
  <2>6. touched' \in [Campaigns -> SUBSET Docs]
    BY <1>10 DEF ProcessCommit, TypeOK
  <2>7. QED BY <1>10, <2>1, <2>2, <2>3, <2>4, <2>5, <2>6, DoneType, AggregateType
        DEF ProcessCommit, TypeOK
<1>11. ASSUME NEW u \in Users, RequestLost(u)
       PROVE  TypeOK'
    BY <1>11, DoneType DEF RequestLost, TypeOK, documents, campaigns
<1>12. ASSUME NEW d \in Docs, NEW st \in {"active", "disposed"}, NEW g \in Groups,
              ChangeDocument(d, st, g)
       PROVE  TypeOK'
    BY <1>12, BoundsAssumption
    DEF ChangeDocument, BumpedVersion, TypeOK, campaigns, requests
<1>13. ASSUME NEW d \in Docs, NEW current \in BOOLEAN, NEW st \in {"active", "disposed"},
              NEW g \in Groups, SyncDocument(d, current, st, g)
       PROVE  TypeOK'
    BY <1>13, BoundsAssumption DEF SyncDocument, BumpedVersion, TypeOK, campaigns, requests
<1>14. ASSUME NEW d \in Docs, NEW g \in Groups, AddDocument(d, g)
       PROVE  TypeOK'
    BY <1>14, BoundsAssumption DEF AddDocument, TypeOK, campaigns, requests
<1>15. CASE RemoveSeeds
    BY <1>15, DocsAssumption, BoundsAssumption DEF RemoveSeeds, TypeOK, campaigns, requests
<1>16. CASE UNCHANGED vars
    BY <1>16 DEF vars, TypeOK
<1>17. QED
    BY <1>1, <1>2, <1>3, <1>4, <1>5, <1>6, <1>7, <1>8, <1>9, <1>10, <1>11, <1>12, <1>13,
       <1>14, <1>15, <1>16, <1>4a
    DEF Next, RequestStep, DocumentStep, ExcludeCommit, IncludeCommit

LEMMA TypeInit == Init => TypeOK /\ Working
<1> SUFFICES ASSUME Init PROVE TypeOK /\ Working
    OBVIOUS
<1>1. NoTally \in [Outcomes -> Nat] /\ NoItems \in [Docs -> ItemStates]
    BY DEF NoTally, NoItems, ItemStates
<1>2. NothingSeen \in [stamp : Nat, terms : SUBSET Groups]
    BY DEF NothingSeen
<1>3. QED BY <1>1, <1>2, SmallSets, BoundsAssumption DEF Init, TypeOK, Working, States

\* Every variable keeps its type, and no campaign ever exceeds its limit of items.
THEOREM TypeCorrect == Spec => []TypeOK
<1>1. TypeOK /\ Working /\ [Next]_vars => (TypeOK /\ Working)'
    BY TypeStep, WorkingStep
<1>2. QED BY <1>1, TypeInit, PTL DEF Spec

-----------------------------------------------------------------------------
(* Changed documents.  A campaign compares versions; that this tells whether *)
(* a document was changed is not an assumption of the code but a discipline  *)
(* of every transaction on documents, and it is what has to be carried along *)
(* the steps: the version frozen is never ahead, it falls behind with the    *)
(* first change, and a document of a campaign vanishes only with the samples.*)

\* A campaign that is not frozen yet holds no documents.
OpenIsEmpty == \A c \in Campaigns : status[c] \in {"none", "draft"} => item[c] = NoItems

\* What the version of document d tells campaign c.
Tells(c, d) ==
    /\ expected[c][d] <= version[d]
    /\ standing[d] = "none" => d \in Seeds
    /\ d \in touched[c] => expected[c][d] < version[d] \/ standing[d] = "none"

VersionsTell == \A c \in Campaigns, d \in Docs : item[c][d] # "none" => Tells(c, d)

\* Freezing, by terms or by selection, records versions that tell.
LEMMA FreezeTells ==
    ASSUME TypeOK, OpenIsEmpty, VersionsTell, NEW c \in Campaigns,
           status[c] \in {"none", "draft"}, NEW D \in SUBSET Docs,
           \A d \in D : standing[d] = "active",
           FreezeItems(c, D), touched' = [touched EXCEPT ![c] = {}], UNCHANGED documents
    PROVE  VersionsTell'
<1> SUFFICES ASSUME NEW b \in Campaigns, NEW d \in Docs, item'[b][d] # "none"
             PROVE  Tells(b, d)'
    BY DEF VersionsTell
<1>1. CASE b = c
  <2>1. item[c][d] = "none"
    BY DEF OpenIsEmpty, NoItems
  <2>2. d \in D /\ expected'[c][d] = version[d] /\ touched'[c] = {}
    BY <1>1, <2>1 DEF FreezeItems, TypeOK
  <2>3. version[d] \in Nat
    BY DEF TypeOK
  <2>4. QED BY <1>1, <2>2, <2>3 DEF Tells, documents
<1>2. CASE b # c
    BY <1>2 DEF VersionsTell, Tells, FreezeItems, TypeOK, documents
<1>3. QED BY <1>1, <1>2

\* A step that leaves the campaigns' sets alone and either leaves a document as
\* it is, or touches it for every campaign and moves its version on.
LEMMA ChangeTells ==
    ASSUME TypeOK, VersionsTell,
           \A c \in Campaigns, d \in Docs : item'[c][d] # "none" => item[c][d] # "none",
           UNCHANGED expected,
           NEW D \in SUBSET Docs,
           touched' = [c \in Campaigns |-> touched[c] \cup D],
           \A d \in D : version'[d] = version[d] + 1 /\ standing'[d] # "none",
           \A d \in Docs \ D : version'[d] = version[d] /\ standing'[d] = standing[d]
    PROVE  VersionsTell'
<1> SUFFICES ASSUME NEW c \in Campaigns, NEW d \in Docs, item'[c][d] # "none"
             PROVE  Tells(c, d)'
    BY DEF VersionsTell
<1>1. Tells(c, d) /\ version[d] \in Nat /\ expected[c][d] \in Nat
    BY DEF VersionsTell, TypeOK
<1>2. CASE d \in D
    BY <1>1, <1>2 DEF Tells
<1>3. CASE d \notin D
    BY <1>1, <1>3 DEF Tells
<1>4. QED BY <1>2, <1>3

\* A step that leaves documents and the campaigns' sets alone.
LEMMA SameTells ==
    ASSUME VersionsTell, UNCHANGED <<documents, expected, touched>>,
           \A c \in Campaigns, d \in Docs : item'[c][d] # "none" => item[c][d] # "none"
    PROVE  VersionsTell'
BY DEF VersionsTell, Tells, documents

LEMMA OpenStep == TypeOK /\ Working /\ OpenIsEmpty /\ [Next]_vars => OpenIsEmpty'
<1> SUFFICES ASSUME TypeOK, Working, OpenIsEmpty, [Next]_vars PROVE OpenIsEmpty'
    OBVIOUS
<1>1. ASSUME UNCHANGED item,
             \A c \in Campaigns : status'[c] \in {"none", "draft"} => status[c] \in {"none", "draft"}
      PROVE  OpenIsEmpty'
    BY <1>1 DEF OpenIsEmpty
<1>2. ASSUME NEW c \in Campaigns, NEW u \in Users, CampaignRead(u, c) PROVE OpenIsEmpty'
    BY <1>1, <1>2 DEF CampaignRead, EditRead, FreezePage, StartRead, CancelRead, ProcessRead,
        ExcludeRead, IncludeRead, Read, campaigns
<1>3. ASSUME NEW c \in Campaigns, NEW G \in SUBSET Groups, CreateDraft(c, G) PROVE OpenIsEmpty'
    BY <1>3 DEF CreateDraft, OpenIsEmpty, TypeOK
<1>4. ASSUME NEW u \in Users, FreezeCommit(u) PROVE OpenIsEmpty'
  <2>1. on[u] \in Campaigns
    BY <1>4 DEF FreezeCommit, Working
  <2>2. CASE Freezable(u, on[u])
    BY <1>4, <2>1, <2>2 DEF FreezeCommit, FreezeItems, OpenIsEmpty, TypeOK
  <2>3. CASE ~Freezable(u, on[u])
    BY <1>1, <1>4, <2>3 DEF FreezeCommit
  <2>4. QED BY <2>2, <2>3
<1>5. ASSUME NEW u \in Users, NEW c \in Campaigns, SelectCommit(u, c) PROVE OpenIsEmpty'
  <2> DEFINE D == picked[u] \cap Candidates(Groups)
  <2>1. CASE D \notin {picked[u], {}}
    BY <1>1, <1>5, <2>1 DEF SelectCommit
  <2>2. CASE D \in {picked[u], {}}
    <3>1. /\ FreezeItems(c, D)
          /\ status' = [status EXCEPT ![c] = IF D = {} THEN "draft" ELSE "frozen"]
      BY <1>5, <2>2 DEF SelectCommit
    <3>2. item[c] = NoItems
      BY <1>5 DEF SelectCommit, OpenIsEmpty
    <3>3. CASE D = {}
      <4>1. item'[c] = NoItems
        BY <3>1, <3>2, <3>3 DEF FreezeItems, NoItems, TypeOK
      <4>2. QED BY <3>1, <4>1 DEF FreezeItems, OpenIsEmpty, TypeOK
    <3>4. CASE D # {}
      BY <3>1, <3>4 DEF FreezeItems, OpenIsEmpty, TypeOK
    <3>5. QED BY <3>3, <3>4
  <2>3. QED BY <2>1, <2>2
<1>6. ASSUME NEW u \in Users, ExcludeCommit(u) \/ IncludeCommit(u) PROVE OpenIsEmpty'
  <2>1. PICK a \in {"exclude", "include"}, from \in {"pending", "excluded"},
             to \in {"pending", "excluded"} : ExcludeOrInclude(u, a, from, to)
    BY <1>6 DEF ExcludeCommit, IncludeCommit
  <2> DEFINE c == on[u]
             I == Moved(c, picked[u], from, to)
  <2>2. c \in Campaigns
    BY <2>1 DEF ExcludeOrInclude, Working
  <2>3. item' = [item EXCEPT ![c] = I] /\ Aggregate(c, I)
    BY <2>1 DEF ExcludeOrInclude
  <2>4. ASSUME NEW b \in Campaigns, status'[b] \in {"none", "draft"} PROVE item'[b] = NoItems
    <3>1. status[b] \in {"none", "draft"} /\ item[b] = NoItems
      BY <2>3, <2>4 DEF Aggregate, TypeOK, OpenIsEmpty
    <3>2. CASE b # c
      BY <2>3, <3>1, <3>2 DEF TypeOK
    <3>3. CASE b = c
      <4>1. I = NoItems
        BY <3>1, <3>3 DEF Moved, MayMove, NoItems
      <4>2. QED BY <2>2, <2>3, <3>3, <4>1 DEF TypeOK
    <3>4. QED BY <3>2, <3>3
  <2>5. QED BY <2>4 DEF OpenIsEmpty
<1>7. ASSUME NEW u \in Users, StartCommit(u) \/ CancelCommit(u) PROVE OpenIsEmpty'
  <2>1. UNCHANGED item
    BY <1>7 DEF StartCommit, CancelCommit
  <2>2. CASE StartCommit(u)
    BY <1>1, <2>1, <2>2 DEF StartCommit, TypeOK
  <2>3. CASE CancelCommit(u)
    BY <1>1, <2>1, <2>3 DEF CancelCommit, TypeOK
  <2>4. QED BY <1>7, <2>2, <2>3
<1>8. ASSUME NEW u \in Users, NEW D \in SUBSET Docs, ProcessCommit(u, D) PROVE OpenIsEmpty'
  <2> DEFINE c == on[u]
  <2>1. c \in Campaigns
    BY <1>8 DEF ProcessCommit, Working
  <2>2. PICK I : item' = [item EXCEPT ![c] = I] /\ Aggregate(c, I)
                 /\ I = [d \in Docs |->
                          IF d \in {e \in D : FrozenUnchanged(c, e)} THEN "completed"
                          ELSE IF d \in D
                               THEN (IF standing[d] = "none" THEN "failed" ELSE "changed")
                               ELSE item[c][d]]
    BY <1>8 DEF ProcessCommit
  <2>3. ASSUME NEW b \in Campaigns, status'[b] \in {"none", "draft"} PROVE item'[b] = NoItems
    <3>1. status[b] \in {"none", "draft"} /\ item[b] = NoItems
      BY <2>2, <2>3 DEF Aggregate, TypeOK, OpenIsEmpty
    <3>2. CASE b # c
      BY <2>2, <3>1, <3>2 DEF TypeOK
    <3>3. CASE b = c
      <4>1. D = {}
        BY <1>8, <3>1, <3>3 DEF ProcessCommit, NextItems
      <4>2. I = NoItems
        BY <2>2, <3>1, <3>3, <4>1 DEF NoItems
      <4>3. QED BY <2>1, <2>2, <3>3, <4>2 DEF TypeOK
    <3>4. QED BY <3>2, <3>3
  <2>4. QED BY <2>3 DEF OpenIsEmpty
<1>9. ASSUME NEW u \in Users, RequestStep(u) PROVE OpenIsEmpty'
    BY <1>1, <1>4, <1>5, <1>6, <1>7, <1>8, <1>9
    DEF RequestStep, EditCommit, FreezeRead, FreezeCount, SelectRead, RequestLost, campaigns
<1>10. CASE DocumentStep
    BY <1>1, <1>10 DEF DocumentStep, ChangeDocument, SyncDocument, AddDocument, RemoveSeeds,
        campaigns
<1>11. CASE UNCHANGED vars
    BY <1>1, <1>11 DEF vars
<1>12. QED BY <1>2, <1>3, <1>9, <1>10, <1>11 DEF Next

\* The items of a claimed chunk are pending.
LEMMA ClaimedArePending ==
    ASSUME NEW c \in Campaigns, NEW D \in NextItems(c) PROVE D \subseteq Pending(c)
BY DEF NextItems

\* Which items move, and how: an exclude or include request moves an item of a
\* frozen campaign, a chunk closes a pending one of a processing campaign and
\* completes it only when its document stands as frozen.
LEMMA MovedWhenFrozen ==
    ASSUME TypeOK, Working, NEW u \in Users, ExcludeCommit(u) \/ IncludeCommit(u)
    PROVE  \A c \in Campaigns, d \in Docs :
             \/ item'[c][d] = item[c][d]
             \/ /\ status[c] = "frozen"
                /\ {item[c][d], item'[c][d]} \subseteq {"pending", "excluded"}
<1>1. PICK a \in {"exclude", "include"}, from \in {"pending", "excluded"},
           to \in {"pending", "excluded"} : ExcludeOrInclude(u, a, from, to)
    BY DEF ExcludeCommit, IncludeCommit
<1>2. on[u] \in Campaigns
    BY <1>1 DEF ExcludeOrInclude, Working
<1>3. item' = [item EXCEPT ![on[u]] = Moved(on[u], picked[u], from, to)]
    BY <1>1 DEF ExcludeOrInclude
<1>4. QED BY <1>2, <1>3 DEF Moved, MayMove, TypeOK

LEMMA ProcessedWhenProcessing ==
    ASSUME TypeOK, Working, NEW u \in Users, NEW D \in SUBSET Docs, ProcessCommit(u, D)
    PROVE  \A c \in Campaigns, d \in Docs :
             \/ item'[c][d] = item[c][d]
             \/ /\ status[c] = "processing" /\ item[c][d] = "pending"
                /\ \/ item'[c][d] = "completed" /\ FrozenUnchanged(c, d)
                   \/ item'[c][d] \in {"changed", "failed"}
<1> DEFINE c == on[u]
           I == [d \in Docs |->
                   IF d \in {e \in D : FrozenUnchanged(c, e)} THEN "completed"
                   ELSE IF d \in D THEN (IF standing[d] = "none" THEN "failed" ELSE "changed")
                   ELSE item[c][d]]
<1>1. c \in Campaigns /\ item' = [item EXCEPT ![c] = I]
    BY DEF ProcessCommit, Working
<1>2. \A d \in D : item[c][d] = "pending" /\ status[c] = "processing"
    BY <1>1, ClaimedArePending DEF ProcessCommit, Pending, NextItems
<1>3. QED BY <1>1, <1>2 DEF TypeOK

LEMMA VersionsStep ==
    TypeOK /\ Working /\ OpenIsEmpty /\ VersionsTell /\ [Next]_vars => VersionsTell'
<1> SUFFICES ASSUME TypeOK, Working, OpenIsEmpty, VersionsTell, [Next]_vars
             PROVE  VersionsTell'
    OBVIOUS
<1>1. ASSUME UNCHANGED <<documents, item, expected, touched>> PROVE VersionsTell'
    BY <1>1, SameTells
<1>2. ASSUME NEW c \in Campaigns, NEW u \in Users, CampaignRead(u, c) PROVE VersionsTell'
    BY <1>1, <1>2 DEF CampaignRead, EditRead, FreezePage, StartRead, CancelRead, ProcessRead,
        ExcludeRead, IncludeRead, Read, campaigns
<1>3. ASSUME NEW c \in Campaigns, NEW G \in SUBSET Groups, CreateDraft(c, G) PROVE VersionsTell'
    BY <1>1, <1>3 DEF CreateDraft
<1>4. ASSUME NEW u \in Users, FreezeCommit(u) PROVE VersionsTell'
  <2> DEFINE c == on[u]
             D == Candidates(terms[c])
  <2>1. CASE Freezable(u, c)
    <3>1. c \in Campaigns /\ status[c] \in {"none", "draft"}
      BY <1>4, <2>1 DEF FreezeCommit, Freezable, Working
    <3>2. D \in SUBSET Docs /\ \A d \in D : standing[d] = "active"
      BY DEF Candidates
    <3>3. FreezeItems(c, D) /\ touched' = [touched EXCEPT ![c] = {}] /\ UNCHANGED documents
      BY <1>4, <2>1 DEF FreezeCommit
    <3>4. QED BY <3>1, <3>2, <3>3, FreezeTells
  <2>2. CASE ~Freezable(u, c)
    BY <1>1, <1>4, <2>2 DEF FreezeCommit
  <2>3. QED BY <2>1, <2>2
<1>5. ASSUME NEW u \in Users, NEW c \in Campaigns, SelectCommit(u, c) PROVE VersionsTell'
  <2> DEFINE D == picked[u] \cap Candidates(Groups)
  <2>1. CASE D \in {picked[u], {}}
    <3>1. status[c] \in {"none", "draft"}
      BY <1>5 DEF SelectCommit
    <3>2. D \in SUBSET Docs /\ \A d \in D : standing[d] = "active"
      BY DEF Candidates
    <3>3. FreezeItems(c, D) /\ touched' = [touched EXCEPT ![c] = {}] /\ UNCHANGED documents
      BY <1>5, <2>1 DEF SelectCommit
    <3>4. QED BY <3>1, <3>2, <3>3, FreezeTells
  <2>2. CASE D \notin {picked[u], {}}
    BY <1>1, <1>5, <2>2 DEF SelectCommit
  <2>3. QED BY <2>1, <2>2
<1>6. ASSUME NEW u \in Users, ExcludeCommit(u) \/ IncludeCommit(u) PROVE VersionsTell'
  <2>1. \A c \in Campaigns, d \in Docs : item'[c][d] # "none" => item[c][d] # "none"
    BY <1>6, MovedWhenFrozen
  <2>2. UNCHANGED <<documents, expected, touched>>
    BY <1>6 DEF ExcludeCommit, IncludeCommit, ExcludeOrInclude
  <2>3. QED BY <2>1, <2>2, SameTells
<1>7. ASSUME NEW u \in Users, NEW D \in SUBSET Docs, ProcessCommit(u, D) PROVE VersionsTell'
  <2> DEFINE disposed == {d \in D : FrozenUnchanged(on[u], d)}
  <2>1. \A c \in Campaigns, d \in Docs : item'[c][d] # "none" => item[c][d] # "none"
    BY <1>7, ProcessedWhenProcessing
  <2>2. disposed \in SUBSET Docs /\ UNCHANGED expected
        /\ touched' = [c \in Campaigns |-> touched[c] \cup disposed]
    BY <1>7 DEF ProcessCommit
  <2>3. /\ standing' = [d \in Docs |-> IF d \in disposed THEN "disposed" ELSE standing[d]]
        /\ version' = [d \in Docs |-> IF d \in disposed THEN version[d] + 1 ELSE version[d]]
    BY <1>7 DEF ProcessCommit
  <2>4. /\ \A d \in disposed : version'[d] = version[d] + 1 /\ standing'[d] # "none"
        /\ \A d \in Docs \ disposed : version'[d] = version[d] /\ standing'[d] = standing[d]
    BY <2>3
  <2>5. QED BY <2>1, <2>2, <2>4, ChangeTells
<1>8. ASSUME NEW u \in Users, RequestStep(u) PROVE VersionsTell'
    BY <1>1, <1>4, <1>5, <1>6, <1>7, <1>8
    DEF RequestStep, EditCommit, FreezeRead, FreezeCount, SelectRead, StartCommit, CancelCommit,
        RequestLost, campaigns
<1>9. ASSUME NEW d \in Docs, NEW st \in {"active", "disposed"}, NEW g \in Groups,
             ChangeDocument(d, st, g)
      PROVE  VersionsTell'
  <2>1. /\ standing' = [standing EXCEPT ![d] = st] /\ version' = [version EXCEPT ![d] = @ + 1]
        /\ touched' = [c \in Campaigns |-> touched[c] \cup {d}]
        /\ UNCHANGED <<item, expected>>
    BY <1>9 DEF ChangeDocument, BumpedVersion, campaigns
  <2>2. /\ \A e \in {d} : version'[e] = version[e] + 1 /\ standing'[e] # "none"
        /\ \A e \in Docs \ {d} : version'[e] = version[e] /\ standing'[e] = standing[e]
    BY <2>1 DEF TypeOK
  <2>3. {d} \in SUBSET Docs
    OBVIOUS
  <2>4. QED BY <2>1, <2>2, <2>3, ChangeTells
<1>10. ASSUME NEW d \in Docs, NEW current \in BOOLEAN, NEW st \in {"active", "disposed"},
              NEW g \in Groups, SyncDocument(d, current, st, g)
       PROVE  VersionsTell'
  <2>1. /\ standing' = [standing EXCEPT ![d] = st] /\ UNCHANGED <<item, expected>>
        /\ version' = [version EXCEPT ![d] = @ + 1]
        /\ touched' = [c \in Campaigns |-> touched[c] \cup {d}]
    BY <1>10 DEF SyncDocument, BumpedVersion, campaigns
  <2>2. /\ \A e \in {d} : version'[e] = version[e] + 1 /\ standing'[e] # "none"
        /\ \A e \in Docs \ {d} : version'[e] = version[e] /\ standing'[e] = standing[e]
    BY <2>1 DEF TypeOK
  <2>3. {d} \in SUBSET Docs
    OBVIOUS
  <2>4. QED BY <2>1, <2>2, <2>3, ChangeTells
<1>11. ASSUME NEW d \in Docs, NEW g \in Groups, AddDocument(d, g) PROVE VersionsTell'
  <2>1. /\ standing[d] = "none" /\ d \notin Seeds /\ standing' = [standing EXCEPT ![d] = "active"]
        /\ UNCHANGED <<version, item, expected, touched>>
    BY <1>11 DEF AddDocument, campaigns
  <2>2. \A c \in Campaigns : item[c][d] = "none"
    BY <2>1 DEF VersionsTell, Tells
  <2>3. QED BY <2>1, <2>2 DEF VersionsTell, Tells, TypeOK
<1>12. CASE RemoveSeeds
  <2>1. /\ {d \in Docs : standing[d] # "none"} = Seeds /\ standing' = [d \in Docs |-> "none"]
        /\ UNCHANGED <<version, item, expected>>
    BY <1>12 DEF RemoveSeeds, campaigns
  <2>2. QED BY <2>1 DEF VersionsTell, Tells
<1>13. CASE UNCHANGED vars
    BY <1>1, <1>13 DEF vars, documents
<1>14. QED BY <1>2, <1>3, <1>8, <1>9, <1>10, <1>11, <1>12, <1>13 DEF Next, DocumentStep

\* A step that completes an item finds its document as it was frozen.
LEMMA CompletedIsUntouched ==
    TypeOK /\ Working /\ OpenIsEmpty /\ VersionsTell /\ [Next]_vars =>
        \A c \in Campaigns, d \in Docs :
            item[c][d] # "completed" /\ item'[c][d] = "completed" => d \notin touched[c]
<1> SUFFICES ASSUME TypeOK, Working, OpenIsEmpty, VersionsTell, [Next]_vars,
                    NEW c \in Campaigns, NEW d \in Docs,
                    item[c][d] # "completed", item'[c][d] = "completed"
             PROVE  d \notin touched[c]
    OBVIOUS
<1>1. item' # item
    OBVIOUS
<1>2. PICK u \in Users : RequestStep(u)
  <2>1. ~UNCHANGED vars
    BY <1>1 DEF vars
  <2>2. ~DocumentStep
    BY <1>1 DEF DocumentStep, ChangeDocument, SyncDocument, AddDocument, RemoveSeeds, campaigns
  <2>3. ~\E v \in Users, b \in Campaigns : CampaignRead(v, b)
    BY <1>1 DEF CampaignRead, EditRead, FreezePage, StartRead, CancelRead, ProcessRead,
        ExcludeRead, IncludeRead, Read, campaigns
  <2>4. ~\E b \in Campaigns, G \in SUBSET Groups : CreateDraft(b, G)
    BY <1>1 DEF CreateDraft
  <2>5. QED BY <2>1, <2>2, <2>3, <2>4 DEF Next
<1>3. ASSUME NEW b \in Campaigns, NEW D, FreezeItems(b, D) PROVE FALSE
    BY <1>3 DEF FreezeItems, TypeOK
<1>4. ~(ExcludeCommit(u) \/ IncludeCommit(u))
    BY MovedWhenFrozen
<1>5. ~FreezeCommit(u)
    BY <1>1, <1>3 DEF FreezeCommit, Working
<1>6. ~\E b \in Campaigns : SelectCommit(u, b)
    BY <1>1, <1>3 DEF SelectCommit
<1>7. PICK D \in SUBSET Docs : ProcessCommit(u, D)
    BY <1>1, <1>2, <1>4, <1>5, <1>6 DEF RequestStep, EditCommit, FreezeRead, FreezeCount, SelectRead,
        StartCommit, CancelCommit, RequestLost, campaigns
<1>8. item[c][d] = "pending" /\ FrozenUnchanged(c, d)
    BY <1>7, ProcessedWhenProcessing
<1>9. Tells(c, d) /\ version[d] = expected[c][d] /\ version[d] \in Nat /\ standing[d] = "active"
    BY <1>8 DEF VersionsTell, FrozenUnchanged, TypeOK
<1>10. QED BY <1>9 DEF Tells

LEMMA TellsInit == Init => OpenIsEmpty /\ VersionsTell
BY DEF Init, OpenIsEmpty, VersionsTell, NoItems

\* No campaign disposes of a document that anyone has changed since the campaign
\* was frozen, however many requests and campaigns overlap.
THEOREM UntouchedCorrect == Spec => NeverDisposesTouched
<1> DEFINE Inv == TypeOK /\ Working /\ OpenIsEmpty /\ VersionsTell
           Untouched == \A c \in Campaigns, d \in Docs :
                          item[c][d] # "completed" /\ item'[c][d] = "completed"
                          => d \notin touched[c]
<1>1. Init => Inv
    BY TypeInit, TellsInit
<1>2. Inv /\ [Next]_vars => Inv'
    BY TypeStep, WorkingStep, OpenStep, VersionsStep
<1>3. Inv /\ [Next]_vars => [Untouched]_vars
    BY CompletedIsUntouched
<1>4. QED BY <1>1, <1>2, <1>3, PTL DEF Spec, NeverDisposesTouched

-----------------------------------------------------------------------------
(* The frozen set.                                                           *)

LEMMA FixedStep ==
    TypeOK /\ Working /\ [Next]_vars =>
        \A c \in Campaigns : status[c] \notin {"none", "draft"} =>
            expected'[c] = expected[c] /\ Members(c)' = Members(c)
<1> SUFFICES ASSUME TypeOK, Working, [Next]_vars,
                    NEW c \in Campaigns, status[c] \notin {"none", "draft"}
             PROVE  expected'[c] = expected[c] /\ Members(c)' = Members(c)
    OBVIOUS
<1> DEFINE Goal == expected'[c] = expected[c] /\ Members(c)' = Members(c)
<1>1. ASSUME UNCHANGED <<item, expected>> PROVE Goal
    BY <1>1 DEF Members
<1>2. ASSUME UNCHANGED expected,
             \A d \in Docs : item'[c][d] # "none" <=> item[c][d] # "none"
      PROVE  Goal
    BY <1>2 DEF Members
<1>3. ASSUME NEW b \in Campaigns, NEW D, b # c, FreezeItems(b, D) PROVE Goal
    BY <1>3 DEF FreezeItems, Members, TypeOK
<1>4. ASSUME NEW u \in Users, NEW b \in Campaigns, CampaignRead(u, b) PROVE Goal
    BY <1>1, <1>4 DEF CampaignRead, EditRead, FreezePage, StartRead, CancelRead, ProcessRead,
        ExcludeRead, IncludeRead, Read, campaigns
<1>5. ASSUME NEW b \in Campaigns, NEW G \in SUBSET Groups, CreateDraft(b, G) PROVE Goal
    BY <1>1, <1>5 DEF CreateDraft
<1>6. ASSUME NEW u \in Users, FreezeCommit(u) PROVE Goal
  <2>1. CASE Freezable(u, on[u])
    BY <1>3, <1>6, <2>1 DEF FreezeCommit, Freezable, Working
  <2>2. CASE ~Freezable(u, on[u])
    BY <1>1, <1>6, <2>2 DEF FreezeCommit
  <2>3. QED BY <2>1, <2>2
<1>7. ASSUME NEW u \in Users, NEW b \in Campaigns, SelectCommit(u, b) PROVE Goal
  <2>1. b # c
    BY <1>7 DEF SelectCommit
  <2>2. FreezeItems(b, picked[u] \cap Candidates(Groups)) \/ UNCHANGED <<item, expected>>
    BY <1>7 DEF SelectCommit
  <2>3. QED BY <1>1, <1>3, <2>1, <2>2
<1>8. ASSUME NEW u \in Users, ExcludeCommit(u) \/ IncludeCommit(u) PROVE Goal
  <2>1. \A d \in Docs : item'[c][d] # "none" <=> item[c][d] # "none"
    BY <1>8, MovedWhenFrozen
  <2>2. UNCHANGED expected
    BY <1>8 DEF ExcludeCommit, IncludeCommit, ExcludeOrInclude
  <2>3. QED BY <1>2, <2>1, <2>2
<1>9. ASSUME NEW u \in Users, NEW D \in SUBSET Docs, ProcessCommit(u, D) PROVE Goal
  <2>1. \A d \in Docs : item'[c][d] # "none" <=> item[c][d] # "none"
    BY <1>9, ProcessedWhenProcessing
  <2>2. UNCHANGED expected
    BY <1>9 DEF ProcessCommit
  <2>3. QED BY <1>2, <2>1, <2>2
<1>10. ASSUME NEW u \in Users, RequestStep(u) PROVE Goal
    BY <1>1, <1>6, <1>7, <1>8, <1>9, <1>10
    DEF RequestStep, EditCommit, FreezeRead, FreezeCount, SelectRead, StartCommit, CancelCommit,
        RequestLost, campaigns
<1>11. CASE DocumentStep
    BY <1>1, <1>11 DEF DocumentStep, ChangeDocument, SyncDocument, AddDocument, RemoveSeeds,
        campaigns
<1>12. CASE UNCHANGED vars
    BY <1>1, <1>12 DEF vars
<1>13. QED BY <1>4, <1>5, <1>10, <1>11, <1>12 DEF Next

\* Once a campaign is frozen, no request changes which documents it holds or the
\* versions it expects of them.
THEOREM FixedCorrect == Spec => FrozenSetFixed
<1> DEFINE Fixed == \A c \in Campaigns : status[c] \notin {"none", "draft"} =>
                      expected'[c] = expected[c] /\ Members(c)' = Members(c)
<1>1. TypeOK /\ Working /\ [Next]_vars => (TypeOK /\ Working)'
    BY TypeStep, WorkingStep
<1>2. TypeOK /\ Working /\ [Next]_vars => [Fixed]_vars
    BY FixedStep
<1>3. QED BY <1>1, <1>2, TypeInit, PTL DEF Spec, FrozenSetFixed

-----------------------------------------------------------------------------
(* Exclusions and cancellation.                                              *)

\* Nothing is closed before a campaign is processing.
NothingClosedEarly ==
    \A c \in Campaigns : status[c] \notin {"processing", "completed"} =>
        \A d \in Docs : item[c][d] \in {"none", "pending", "excluded"}

\* What Aggregate may do to a status.
LEMMA AggregateMoves ==
    ASSUME TypeOK, NEW c \in Campaigns, NEW I, Aggregate(c, I)
    PROVE  \A b \in Campaigns :
             status'[b] = status[b] \/ (status[b] = "processing" /\ status'[b] = "completed")
BY DEF Aggregate, TypeOK

LEMMA ClosedStep ==
    TypeOK /\ Working /\ OpenIsEmpty /\ NothingClosedEarly /\ [Next]_vars => NothingClosedEarly'
<1> SUFFICES ASSUME TypeOK, Working, OpenIsEmpty, NothingClosedEarly, [Next]_vars
             PROVE  NothingClosedEarly'
    OBVIOUS
<1>1. ASSUME \A c \in Campaigns :
               status'[c] \notin {"processing", "completed"}
               => status[c] \notin {"processing", "completed"},
             \A c \in Campaigns, d \in Docs :
               item'[c][d] # item[c][d] /\ status'[c] \notin {"processing", "completed"}
               => item'[c][d] \in {"none", "pending", "excluded"}
      PROVE  NothingClosedEarly'
    BY <1>1 DEF NothingClosedEarly
<1>2. ASSUME NEW u \in Users, NEW c \in Campaigns, CampaignRead(u, c) PROVE NothingClosedEarly'
    BY <1>1, <1>2 DEF CampaignRead, EditRead, FreezePage, StartRead, CancelRead, ProcessRead,
        ExcludeRead, IncludeRead, Read, campaigns
<1>3. ASSUME NEW c \in Campaigns, NEW G \in SUBSET Groups, CreateDraft(c, G)
      PROVE  NothingClosedEarly'
    BY <1>1, <1>3 DEF CreateDraft, TypeOK
<1>4. ASSUME NEW c \in Campaigns, NEW D \in SUBSET Docs, FreezeItems(c, D) PROVE
        \A b \in Campaigns, d \in Docs : item'[b][d] = item[b][d] \/ item'[b][d] = "pending"
    BY <1>4 DEF FreezeItems, TypeOK
<1>5. ASSUME NEW u \in Users, FreezeCommit(u) PROVE NothingClosedEarly'
  <2> DEFINE c == on[u]
  <2>1. CASE Freezable(u, c)
    <3>1. c \in Campaigns /\ status[c] = "draft" /\ status' = [status EXCEPT ![c] = "frozen"]
      BY <1>5, <2>1 DEF FreezeCommit, Freezable, Working
    <3>2. FreezeItems(c, Candidates(terms[c])) /\ Candidates(terms[c]) \in SUBSET Docs
      BY <1>5, <2>1 DEF FreezeCommit, Candidates
    <3>3. \A b \in Campaigns, d \in Docs : item'[b][d] = item[b][d] \/ item'[b][d] = "pending"
      BY <1>4, <3>1, <3>2
    <3>4. QED BY <1>1, <3>1, <3>3 DEF TypeOK
  <2>2. CASE ~Freezable(u, c)
    BY <1>1, <1>5, <2>2 DEF FreezeCommit
  <2>3. QED BY <2>1, <2>2
<1>6. ASSUME NEW u \in Users, NEW c \in Campaigns, SelectCommit(u, c) PROVE NothingClosedEarly'
  <2> DEFINE D == picked[u] \cap Candidates(Groups)
  <2>1. CASE D \in {picked[u], {}}
    <3>1. status[c] = "none" /\ D \in SUBSET Docs /\ FreezeItems(c, D)
          /\ status' = [status EXCEPT ![c] = IF D = {} THEN "draft" ELSE "frozen"]
      BY <1>6, <2>1 DEF SelectCommit, Candidates
    <3>2. \A b \in Campaigns, d \in Docs : item'[b][d] = item[b][d] \/ item'[b][d] = "pending"
      BY <1>4, <3>1
    <3>3. QED BY <1>1, <3>1, <3>2 DEF TypeOK
  <2>2. CASE D \notin {picked[u], {}}
    BY <1>1, <1>6, <2>2 DEF SelectCommit
  <2>3. QED BY <2>1, <2>2
<1>7. ASSUME NEW u \in Users, ExcludeCommit(u) \/ IncludeCommit(u) PROVE NothingClosedEarly'
  <2>1. PICK c \in Campaigns : \E I : Aggregate(c, I)
    BY <1>7 DEF ExcludeCommit, IncludeCommit, ExcludeOrInclude, Working
  <2>2. QED BY <1>1, <1>7, <2>1, AggregateMoves, MovedWhenFrozen
<1>8. ASSUME NEW u \in Users, StartCommit(u) PROVE NothingClosedEarly'
    BY <1>1, <1>8 DEF StartCommit, TypeOK
<1>9. ASSUME NEW u \in Users, CancelCommit(u) PROVE NothingClosedEarly'
    BY <1>1, <1>9 DEF CancelCommit, Cancellable, TypeOK
<1>10. ASSUME NEW u \in Users, NEW D \in SUBSET Docs, ProcessCommit(u, D)
       PROVE  NothingClosedEarly'
  <2>1. PICK c \in Campaigns : \E I : Aggregate(c, I)
    BY <1>10 DEF ProcessCommit, Working
  <2>2. QED BY <1>1, <1>10, <2>1, AggregateMoves, ProcessedWhenProcessing
<1>11. ASSUME NEW u \in Users, RequestStep(u) PROVE NothingClosedEarly'
    BY <1>1, <1>5, <1>6, <1>7, <1>8, <1>9, <1>10, <1>11
    DEF RequestStep, EditCommit, FreezeRead, FreezeCount, SelectRead, RequestLost, campaigns
<1>12. CASE DocumentStep
    BY <1>1, <1>12 DEF DocumentStep, ChangeDocument, SyncDocument, AddDocument, RemoveSeeds,
        campaigns
<1>13. CASE UNCHANGED vars
    BY <1>1, <1>13 DEF vars
<1>14. QED BY <1>2, <1>3, <1>11, <1>12, <1>13 DEF Next

\* A cancelled campaign has closed no item, whatever raced with its cancellation.
THEOREM CancelledCorrect == Spec => []CancelledIsHarmless
<1> DEFINE Inv == TypeOK /\ Working /\ OpenIsEmpty /\ NothingClosedEarly
<1>1. Init => Inv
  <2>1. Init => NothingClosedEarly
    BY DEF Init, NothingClosedEarly, NoItems
  <2>2. QED BY <2>1, TypeInit, TellsInit
<1>2. Inv /\ [Next]_vars => Inv'
    BY TypeStep, WorkingStep, OpenStep, ClosedStep
<1>3. Inv => CancelledIsHarmless
    BY DEF NothingClosedEarly, CancelledIsHarmless
<1>4. QED BY <1>1, <1>2, <1>3, PTL DEF Spec

\* An exclusion moves only while its campaign is frozen.
LEMMA ExclusionStep ==
    TypeOK /\ Working /\ OpenIsEmpty /\ [Next]_vars =>
        \A c \in Campaigns, d \in Docs : status[c] \notin {"draft", "frozen"} =>
            (item[c][d] = "excluded" <=> item'[c][d] = "excluded")
<1> SUFFICES ASSUME TypeOK, Working, OpenIsEmpty, [Next]_vars,
                    NEW c \in Campaigns, NEW d \in Docs, status[c] \notin {"draft", "frozen"}
             PROVE  item[c][d] = "excluded" <=> item'[c][d] = "excluded"
    OBVIOUS
<1> DEFINE Goal == item[c][d] = "excluded" <=> item'[c][d] = "excluded"
<1>1. ASSUME UNCHANGED item PROVE Goal
    BY <1>1
<1>2. ASSUME NEW u \in Users, NEW b \in Campaigns, CampaignRead(u, b) PROVE Goal
    BY <1>1, <1>2 DEF CampaignRead, EditRead, FreezePage, StartRead, CancelRead, ProcessRead,
        ExcludeRead, IncludeRead, Read, campaigns
<1>3. ASSUME NEW b \in Campaigns, NEW G \in SUBSET Groups, CreateDraft(b, G) PROVE Goal
    BY <1>1, <1>3 DEF CreateDraft
<1>4. ASSUME NEW b \in Campaigns, NEW D, FreezeItems(b, D), status[b] \in {"none", "draft"}
      PROVE  Goal
  <2>1. item[b] = NoItems
    BY <1>4 DEF OpenIsEmpty
  <2>2. QED BY <1>4, <2>1 DEF FreezeItems, NoItems, TypeOK
<1>5. ASSUME NEW u \in Users, FreezeCommit(u) PROVE Goal
  <2>1. CASE Freezable(u, on[u])
    BY <1>4, <1>5, <2>1 DEF FreezeCommit, Freezable, Working
  <2>2. CASE ~Freezable(u, on[u])
    BY <1>1, <1>5, <2>2 DEF FreezeCommit
  <2>3. QED BY <2>1, <2>2
<1>6. ASSUME NEW u \in Users, NEW b \in Campaigns, SelectCommit(u, b) PROVE Goal
  <2>1. FreezeItems(b, picked[u] \cap Candidates(Groups)) \/ UNCHANGED item
    BY <1>6 DEF SelectCommit
  <2>2. status[b] = "none"
    BY <1>6 DEF SelectCommit
  <2>3. QED BY <1>1, <1>4, <2>1, <2>2
<1>7. ASSUME NEW u \in Users, ExcludeCommit(u) \/ IncludeCommit(u) PROVE Goal
    BY <1>7, MovedWhenFrozen
<1>8. ASSUME NEW u \in Users, NEW D \in SUBSET Docs, ProcessCommit(u, D) PROVE Goal
    BY <1>8, ProcessedWhenProcessing
<1>9. ASSUME NEW u \in Users, RequestStep(u) PROVE Goal
    BY <1>1, <1>5, <1>6, <1>7, <1>8, <1>9
    DEF RequestStep, EditCommit, FreezeRead, FreezeCount, SelectRead, StartCommit, CancelCommit,
        RequestLost, campaigns
<1>10. CASE DocumentStep
    BY <1>1, <1>10 DEF DocumentStep, ChangeDocument, SyncDocument, AddDocument, RemoveSeeds,
        campaigns
<1>11. CASE UNCHANGED vars
    BY <1>1, <1>11 DEF vars
<1>12. QED BY <1>2, <1>3, <1>9, <1>10, <1>11 DEF Next

\* The exclusions that stand when processing begins are final.
THEOREM ExclusionsCorrect == Spec => ExclusionsFinal
<1> DEFINE Inv == TypeOK /\ Working /\ OpenIsEmpty
           Final == \A c \in Campaigns, d \in Docs : status[c] \notin {"draft", "frozen"} =>
                      (item[c][d] = "excluded" <=> item'[c][d] = "excluded")
<1>1. Init => Inv
    BY TypeInit, TellsInit
<1>2. Inv /\ [Next]_vars => Inv'
    BY TypeStep, WorkingStep, OpenStep
<1>3. Inv /\ [Next]_vars => [Final]_vars
    BY ExclusionStep
<1>4. QED BY <1>1, <1>2, <1>3, PTL DEF Spec, ExclusionsFinal

-----------------------------------------------------------------------------
(* Totals.  target_count is written once, from the set that is frozen, and   *)
(* the four counters only by the aggregation, from the items it sees: what   *)
(* carries the reconciliation over every other step is that no step moves an *)
(* item without it, and that freezing finds a campaign without items.        *)

\* A step that moves no item and completes no campaign.
LEMMA TotalsFrame ==
    ASSUME TotalsAddUp, UNCHANGED <<target, tally, item>>,
           \A c \in Campaigns : status'[c] = "completed" => status[c] = "completed"
    PROVE  TotalsAddUp'
BY DEF TotalsAddUp, Members, Pending

\* Freezing the documents D into an empty campaign.
LEMMA TotalsFreeze ==
    ASSUME TypeOK, OpenIsEmpty, TotalsAddUp, NEW c \in Campaigns,
           status[c] \in {"none", "draft"}, NEW D \in SUBSET Docs, FreezeItems(c, D),
           target' = [target EXCEPT ![c] = Cardinality(D)], UNCHANGED tally,
           NEW s \in {"draft", "frozen"}, status' = [status EXCEPT ![c] = s]
    PROVE  TotalsAddUp'
<1>1. item[c] = NoItems
    BY DEF OpenIsEmpty
<1>2. \A d \in Docs : item'[c][d] = IF d \in D THEN "pending" ELSE "none"
    BY <1>1 DEF FreezeItems, NoItems, TypeOK
<1>3. ASSUME NEW b \in Campaigns, b # c
      PROVE  /\ item'[b] = item[b] /\ target'[b] = target[b] /\ status'[b] = status[b]
    BY <1>3 DEF FreezeItems, TypeOK
<1>4. Members(c)' = D
    BY <1>2 DEF Members
<1>5. target'[c] = Cardinality(Members(c)')
    BY <1>4 DEF TypeOK
<1>6. ASSUME NEW o \in Outcomes
      PROVE  {d \in Docs : item'[c][d] = o} = {d \in Docs : item[c][d] = o}
    BY <1>1, <1>2 DEF NoItems, Outcomes
<1>7. status'[c] # "completed"
    BY DEF TypeOK
<1>8. ASSUME NEW b \in Campaigns
      PROVE  /\ target'[b] = Cardinality(Members(b)')
             /\ \A o \in Outcomes : tally'[b][o] = Cardinality({d \in Docs : item'[b][d] = o})
             /\ status'[b] = "completed" => Pending(b)' = {}
  <2>1. CASE b = c
    BY <1>5, <1>6, <1>7, <2>1 DEF TotalsAddUp
  <2>2. CASE b # c
    BY <1>3, <2>2 DEF TotalsAddUp, Members, Pending
  <2>3. QED BY <2>1, <2>2
<1>9. QED BY <1>8 DEF TotalsAddUp

\* Items that move within their campaign, with the aggregation over them.
LEMMA TotalsAggregate ==
    ASSUME TypeOK, TotalsAddUp, NEW c \in Campaigns, NEW I \in [Docs -> ItemStates],
           item' = [item EXCEPT ![c] = I], Aggregate(c, I), UNCHANGED target,
           \A d \in Docs : I[d] # "none" <=> item[c][d] # "none",
           status[c] = "completed" => I = item[c]
    PROVE  TotalsAddUp'
<1>1. item'[c] = I /\ tally'[c] = Counted(c, I)
    BY DEF Aggregate, TypeOK
<1>2. Members(c)' = Members(c)
    BY <1>1 DEF Members
<1>3. \A o \in Outcomes : tally'[c][o] = Cardinality({d \in Docs : item'[c][d] = o})
    BY <1>1 DEF Counted
<1>4. status'[c] = "completed" => Pending(c)' = {}
  <2>1. CASE status[c] = "completed"
    BY <1>1, <2>1 DEF TotalsAddUp, Pending
  <2>2. CASE status[c] # "completed"
    <3>1. status'[c] = "completed" => \A d \in Docs : I[d] # "pending"
      BY <2>2 DEF Aggregate, TypeOK
    <3>2. QED BY <1>1, <3>1 DEF Pending
  <2>3. QED BY <2>1, <2>2
<1>5. ASSUME NEW b \in Campaigns, b # c
      PROVE  /\ item'[b] = item[b] /\ tally'[b] = tally[b] /\ status'[b] = status[b]
    BY <1>5 DEF Aggregate, TypeOK
<1>6. ASSUME NEW b \in Campaigns
      PROVE  /\ target'[b] = Cardinality(Members(b)')
             /\ \A o \in Outcomes : tally'[b][o] = Cardinality({d \in Docs : item'[b][d] = o})
             /\ status'[b] = "completed" => Pending(b)' = {}
  <2>1. CASE b = c
    BY <1>2, <1>3, <1>4, <2>1 DEF TotalsAddUp
  <2>2. CASE b # c
    BY <1>5, <2>2 DEF TotalsAddUp, Members, Pending
  <2>3. QED BY <2>1, <2>2
<1>7. QED BY <1>6 DEF TotalsAddUp

LEMMA TotalsStep ==
    TypeOK /\ Working /\ OpenIsEmpty /\ TotalsAddUp /\ [Next]_vars => TotalsAddUp'
<1> SUFFICES ASSUME TypeOK, Working, OpenIsEmpty, TotalsAddUp, [Next]_vars
             PROVE  TotalsAddUp'
    OBVIOUS
<1>1. ASSUME NEW u \in Users, NEW c \in Campaigns, CampaignRead(u, c) PROVE TotalsAddUp'
    BY <1>1, TotalsFrame DEF CampaignRead, EditRead, FreezePage, StartRead, CancelRead,
        ProcessRead, ExcludeRead, IncludeRead, Read, campaigns
<1>2. ASSUME NEW c \in Campaigns, NEW G \in SUBSET Groups, CreateDraft(c, G) PROVE TotalsAddUp'
    BY <1>2, TotalsFrame DEF CreateDraft, TypeOK
<1>3. ASSUME NEW u \in Users, FreezeCommit(u) PROVE TotalsAddUp'
  <2>1. CASE Freezable(u, on[u])
    <3>1. on[u] \in Campaigns /\ status[on[u]] = "draft" /\ Candidates(terms[on[u]]) \in SUBSET Docs
      BY <1>3, <2>1 DEF FreezeCommit, Freezable, Working, Candidates
    <3>2. QED BY <1>3, <2>1, <3>1, TotalsFreeze DEF FreezeCommit
  <2>2. CASE ~Freezable(u, on[u])
    BY <1>3, <2>2, TotalsFrame DEF FreezeCommit
  <2>3. QED BY <2>1, <2>2
<1>4. ASSUME NEW u \in Users, NEW c \in Campaigns, SelectCommit(u, c) PROVE TotalsAddUp'
  <2> DEFINE D == picked[u] \cap Candidates(Groups)
  <2>1. CASE D \in {picked[u], {}}
    <3>1. PICK s \in {"draft", "frozen"} : status' = [status EXCEPT ![c] = s]
      BY <1>4, <2>1 DEF SelectCommit
    <3>2. D \in SUBSET Docs /\ status[c] = "none" /\ UNCHANGED tally
      BY <1>4 DEF SelectCommit, Candidates
    <3>3. FreezeItems(c, D) /\ target' = [target EXCEPT ![c] = Cardinality(D)]
      BY <1>4, <2>1 DEF SelectCommit
    <3> HIDE DEF D
    <3>4. QED BY <3>1, <3>2, <3>3, TotalsFreeze
  <2>2. CASE D \notin {picked[u], {}}
    BY <1>4, <2>2, TotalsFrame DEF SelectCommit
  <2>3. QED BY <2>1, <2>2
<1>5. ASSUME NEW u \in Users, ExcludeCommit(u) \/ IncludeCommit(u) PROVE TotalsAddUp'
  <2>1. PICK a \in {"exclude", "include"}, from \in {"pending", "excluded"},
             to \in {"pending", "excluded"} : ExcludeOrInclude(u, a, from, to)
    BY <1>5 DEF ExcludeCommit, IncludeCommit
  <2>2. PICK I : I = Moved(on[u], picked[u], from, to)
    OBVIOUS
  <2>3. on[u] \in Campaigns /\ item' = [item EXCEPT ![on[u]] = I] /\ Aggregate(on[u], I)
        /\ UNCHANGED target
    BY <2>1, <2>2 DEF ExcludeOrInclude, Working
  <2>4. item[on[u]] \in [Docs -> ItemStates] /\ to \in ItemStates
    <3>1. to \in ItemStates
      BY DEF ItemStates, Outcomes
    <3>2. QED BY <2>3, <3>1 DEF TypeOK
  <2>5. I \in [Docs -> ItemStates] /\ \A d \in Docs : I[d] # "none" <=> item[on[u]][d] # "none"
    BY <2>2, <2>4 DEF Moved, MayMove
  <2>6. status[on[u]] # "frozen" => I = item[on[u]]
    BY <2>2, <2>4 DEF Moved, MayMove
  <2>7. QED BY <2>3, <2>5, <2>6, TotalsAggregate
<1>6. ASSUME NEW u \in Users, NEW D \in SUBSET Docs, ProcessCommit(u, D) PROVE TotalsAddUp'
  <2> DEFINE c == on[u]
  <2>1. PICK I : item' = [item EXCEPT ![c] = I] /\ Aggregate(c, I)
                 /\ I = [d \in Docs |->
                          IF d \in {e \in D : FrozenUnchanged(c, e)} THEN "completed"
                          ELSE IF d \in D
                               THEN (IF standing[d] = "none" THEN "failed" ELSE "changed")
                               ELSE item[c][d]]
    BY <1>6 DEF ProcessCommit
  <2>2. c \in Campaigns /\ UNCHANGED target /\ D \in NextItems(c)
    BY <1>6 DEF ProcessCommit, Working
  <2>3. item[c] \in [Docs -> ItemStates] /\ {"completed", "failed", "changed"} \subseteq ItemStates
    BY <2>2 DEF TypeOK, ItemStates, Outcomes
  <2>4. I \in [Docs -> ItemStates]
    BY <2>1, <2>3
  <2>5. \A d \in D : item[c][d] = "pending"
    BY <2>2, ClaimedArePending DEF Pending
  <2>6. \A d \in Docs : I[d] # "none" <=> item[c][d] # "none"
    BY <2>1, <2>5
  <2>7. status[c] = "completed" => I = item[c]
    <3>1. status[c] = "completed" => D = {}
      BY <2>2 DEF NextItems
    <3>2. QED BY <2>1, <2>3, <3>1
  <2>8. QED BY <2>1, <2>2, <2>4, <2>6, <2>7, TotalsAggregate
<1>7. ASSUME NEW u \in Users, StartCommit(u) \/ CancelCommit(u) PROVE TotalsAddUp'
    BY <1>7, TotalsFrame DEF StartCommit, CancelCommit, TypeOK
<1>8. ASSUME NEW u \in Users, RequestStep(u) PROVE TotalsAddUp'
    BY <1>3, <1>4, <1>5, <1>6, <1>7, <1>8, TotalsFrame
    DEF RequestStep, EditCommit, FreezeRead, FreezeCount, SelectRead, RequestLost, campaigns
<1>9. CASE DocumentStep
    BY <1>9, TotalsFrame DEF DocumentStep, ChangeDocument, SyncDocument, AddDocument,
        RemoveSeeds, campaigns
<1>10. CASE UNCHANGED vars
    BY <1>10, TotalsFrame DEF vars
<1>11. QED BY <1>1, <1>2, <1>8, <1>9, <1>10 DEF Next

\* The stored totals are those of the items at every moment, and a completed
\* campaign has accounted for its whole target.
THEOREM TotalsCorrect == Spec => []TotalsAddUp
<1> DEFINE Inv == TypeOK /\ Working /\ OpenIsEmpty /\ TotalsAddUp
<1>1. Init => Inv
  <2>1. ASSUME Init PROVE TotalsAddUp
    <3>1. \A c \in Campaigns : Members(c) = {} /\ item[c] = NoItems
      BY <2>1 DEF Init, Members, NoItems
    <3>2. \A c \in Campaigns : \A o \in Outcomes : {d \in Docs : item[c][d] = o} = {}
      BY <3>1 DEF NoItems, Outcomes
    <3>3. \A c \in Campaigns : /\ target[c] = 0 /\ status[c] = "none"
                               /\ \A o \in Outcomes : tally[c][o] = 0
      BY <2>1 DEF Init, NoTally
    <3>4. QED BY <3>1, <3>2, <3>3, FS_EmptySet DEF TotalsAddUp
  <2>2. QED BY <2>1, TypeInit, TellsInit
<1>2. Inv /\ [Next]_vars => Inv'
    BY TypeStep, WorkingStep, OpenStep, TotalsStep
<1>3. QED BY <1>1, <1>2, PTL DEF Spec

-----------------------------------------------------------------------------
(* What is frozen is what was reviewed.                                      *)

\* The terms of the page, and those of the edits its stamp does not tell from it,
\* are met by a request on its way and kept once it has read them.
Met ==
    \A u \in Users :
        /\ pc[u] = "review" =>
            /\ status[on[u]] # "none" /\ saw[u].stamp <= stamp[on[u]]
            /\ saw[u].stamp = stamp[on[u]] => terms[on[u]] \in reviewed[u]
        /\ pc[u] \in {"count", "freeze"} => saw[u].terms \in reviewed[u]

\* A step that changes the draft of no campaign there is, and leaves every request
\* on its way to freeze one as it was.
LEMMA MetFrame ==
    ASSUME TypeOK, Working, Met,
           \A c \in Campaigns : status[c] # "none" =>
                status'[c] # "none" /\ stamp'[c] = stamp[c] /\ terms'[c] = terms[c],
           \A u \in Users : pc'[u] \in {"review", "count", "freeze"} =>
                /\ pc'[u] = pc[u] /\ on'[u] = on[u]
                /\ saw'[u] = saw[u] /\ reviewed'[u] = reviewed[u]
    PROVE  Met'
<1> SUFFICES ASSUME NEW u \in Users, pc'[u] \in {"review", "count", "freeze"}
             PROVE  /\ pc'[u] = "review" =>
                        /\ status'[on'[u]] # "none" /\ saw'[u].stamp <= stamp'[on'[u]]
                        /\ saw'[u].stamp = stamp'[on'[u]] => terms'[on'[u]] \in reviewed'[u]
                    /\ pc'[u] \in {"count", "freeze"} => saw'[u].terms \in reviewed'[u]
    BY DEF Met
<1>1. on[u] \in Campaigns
    BY DEF Working
<1>2. QED BY <1>1 DEF Met

LEMMA MetStep == TypeOK /\ Working /\ Met /\ [Next]_vars => Met'
<1> SUFFICES ASSUME TypeOK, Working, Met, [Next]_vars PROVE Met'
    OBVIOUS
<1>1. ASSUME NEW u \in Users, Done(u),
             \A c \in Campaigns : status[c] # "none" =>
                status'[c] # "none" /\ stamp'[c] = stamp[c] /\ terms'[c] = terms[c]
      PROVE  Met'
  <2>1. \A v \in Users : pc'[v] \in {"review", "count", "freeze"} =>
            /\ pc'[v] = pc[v] /\ on'[v] = on[v]
            /\ saw'[v] = saw[v] /\ reviewed'[v] = reviewed[v]
    BY <1>1 DEF Done, TypeOK
  <2>2. QED BY <1>1, <2>1, MetFrame
<1>2. ASSUME UNCHANGED requests,
             \A c \in Campaigns : status[c] # "none" =>
                status'[c] # "none" /\ stamp'[c] = stamp[c] /\ terms'[c] = terms[c]
      PROVE  Met'
    BY <1>2, MetFrame DEF requests
<1>3. ASSUME NEW u \in Users, NEW c \in Campaigns, NEW D, NEW a, Read(u, c, a, D),
             a \notin {"count", "freeze"}, a = "review" => status[c] = "draft"
      PROVE  Met'
  <2>1. /\ UNCHANGED <<status, stamp, terms>> /\ stamp[c] \in Nat
        /\ pc' = [pc EXCEPT ![u] = a] /\ on' = [on EXCEPT ![u] = c]
        /\ saw' = [saw EXCEPT ![u] = [stamp |-> stamp[c], terms |-> terms[c]]]
        /\ reviewed' = [reviewed EXCEPT ![u] = {terms[c]}]
    BY <1>3 DEF Read, campaigns, TypeOK
  <2>2. CASE a = "review"
    BY <1>3, <2>1, <2>2 DEF Met, TypeOK
  <2>3. CASE a # "review"
    BY <1>3, <2>1, <2>3 DEF Met, TypeOK
  <2>4. QED BY <2>2, <2>3
<1>4. ASSUME NEW u \in Users, NEW c \in Campaigns, CampaignRead(u, c) PROVE Met'
  <2>1. ASSUME NEW a \in {"edit", "start", "cancel", "process"}, Read(u, c, a, {}) PROVE Met'
    BY <1>3, <2>1
  <2>2. ASSUME NEW a \in {"exclude", "include"}, NEW d \in Docs, Read(u, c, a, {d}) PROVE Met'
    BY <1>3, <2>2
  <2>3. CASE FreezePage(u, c)
    BY <1>3, <2>3 DEF FreezePage
  <2>4. QED BY <1>4, <2>1, <2>2, <2>3 DEF CampaignRead, EditRead, StartRead, CancelRead,
            ProcessRead, ExcludeRead, IncludeRead
<1>5. ASSUME NEW u \in Users, FreezeRead(u) PROVE Met'
  <2>1. on[u] \in Campaigns /\ pc[u] = "review" /\ UNCHANGED <<status, stamp, terms>>
    BY <1>5 DEF FreezeRead, Working, campaigns
  <2>2. CASE Done(u)
    BY <1>1, <2>1, <2>2
  <2>3. CASE /\ stamp[on[u]] = saw[u].stamp
             /\ pc' = [pc EXCEPT ![u] = "count"]
             /\ saw' = [saw EXCEPT ![u] = [stamp |-> saw[u].stamp, terms |-> terms[on[u]]]]
             /\ UNCHANGED <<on, picked, reviewed>>
    <3>1. terms[on[u]] \in reviewed[u]
      BY <2>1, <2>3 DEF Met
    <3>2. QED BY <2>1, <2>3, <3>1 DEF Met, TypeOK
  <2>4. QED BY <1>5, <2>2, <2>3 DEF FreezeRead
<1>6. ASSUME NEW u \in Users, NEW confirmed \in 0..MaxItems, FreezeCount(u, confirmed) PROVE Met'
  <2>1. UNCHANGED <<status, stamp, terms>> /\ pc[u] = "count"
    BY <1>6 DEF FreezeCount, campaigns
  <2>2. CASE Done(u)
    BY <1>1, <2>1, <2>2
  <2>3. CASE /\ pc' = [pc EXCEPT ![u] = "freeze"]
             /\ UNCHANGED <<on, saw, picked, reviewed>>
    BY <2>1, <2>3 DEF Met, TypeOK
  <2>4. QED BY <1>6, <2>2, <2>3 DEF FreezeCount
<1>7. ASSUME NEW u \in Users, NEW G \in SUBSET Groups, NEW later \in BOOLEAN,
             EditCommit(u, G, later)
      PROVE  Met'
  <2> DEFINE c == on[u]
             open == status[c] = "draft" /\ stamp[c] = saw[u].stamp
             here(v) == pc[v] = "review" /\ on[v] = c /\ saw[v].stamp = stamp[c]
  <2>1. /\ c \in Campaigns /\ UNCHANGED status
        /\ terms' = IF open THEN [terms EXCEPT ![c] = G] ELSE terms
        /\ stamp' = IF open /\ later THEN [stamp EXCEPT ![c] = @ + 1] ELSE stamp
        /\ pc' = [pc EXCEPT ![u] = "idle"] /\ on' = [on EXCEPT ![u] = NoCampaign]
        /\ saw' = [saw EXCEPT ![u] = NothingSeen]
        /\ \A v \in Users : v # u =>
            reviewed'[v] = IF open /\ ~later /\ here(v) THEN reviewed[v] \cup {G} ELSE reviewed[v]
    BY <1>7 DEF EditCommit, Working
  <2> SUFFICES ASSUME NEW v \in Users, pc'[v] \in {"review", "count", "freeze"}
               PROVE  /\ pc'[v] = "review" =>
                          /\ status'[on'[v]] # "none" /\ saw'[v].stamp <= stamp'[on'[v]]
                          /\ saw'[v].stamp = stamp'[on'[v]] => terms'[on'[v]] \in reviewed'[v]
                      /\ pc'[v] \in {"count", "freeze"} => saw'[v].terms \in reviewed'[v]
      BY DEF Met
  <2>2. v # u /\ pc'[v] = pc[v] /\ on'[v] = on[v] /\ saw'[v] = saw[v]
    BY <2>1 DEF TypeOK
  <2>3. reviewed[v] \subseteq reviewed'[v]
    BY <2>1, <2>2
  <2>4. on[v] \in Campaigns /\ stamp[on[v]] \in Nat /\ saw[v].stamp \in Nat
    BY <2>2 DEF Working, TypeOK
  <2>5. CASE pc[v] # "review"
    BY <2>2, <2>3, <2>5 DEF Met
  <2>6. CASE pc[v] = "review" /\ ~(open /\ on[v] = c)
    <3>1. terms'[on[v]] = terms[on[v]] /\ stamp'[on[v]] = stamp[on[v]]
      BY <2>1, <2>4, <2>6 DEF TypeOK
    <3>2. QED BY <2>1, <2>2, <2>3, <2>6, <3>1 DEF Met
  <2>7. CASE pc[v] = "review" /\ open /\ on[v] = c /\ later
    <3>1. stamp'[on[v]] = stamp[on[v]] + 1
      BY <2>1, <2>7 DEF TypeOK
    <3>2. saw[v].stamp <= stamp[on[v]] /\ status[on[v]] # "none"
      BY <2>7 DEF Met
    <3>3. QED BY <2>1, <2>2, <2>4, <2>7, <3>1, <3>2
  <2>8. CASE pc[v] = "review" /\ open /\ on[v] = c /\ ~later
    <3>1. terms'[on[v]] = G /\ stamp'[on[v]] = stamp[on[v]]
      BY <2>1, <2>8 DEF TypeOK
    <3>2. saw[v].stamp = stamp[on[v]] => G \in reviewed'[v]
      BY <2>1, <2>2, <2>8
    <3>3. saw[v].stamp <= stamp[on[v]] /\ status[on[v]] # "none"
      BY <2>8 DEF Met
    <3>4. QED BY <2>1, <2>2, <2>8, <3>1, <3>2, <3>3
  <2>9. QED BY <2>5, <2>6, <2>7, <2>8
<1>8. ASSUME NEW c \in Campaigns, NEW G \in SUBSET Groups, CreateDraft(c, G) PROVE Met'
  <2>1. \A b \in Campaigns : status[b] # "none" =>
            status'[b] # "none" /\ stamp'[b] = stamp[b] /\ terms'[b] = terms[b]
    BY <1>8 DEF CreateDraft, TypeOK
  <2>2. QED BY <1>2, <1>8, <2>1 DEF CreateDraft
<1>9. ASSUME NEW u \in Users, NEW c \in Campaigns, SelectCommit(u, c) PROVE Met'
  <2>1. \A b \in Campaigns : status[b] # "none" =>
            status'[b] # "none" /\ stamp'[b] = stamp[b] /\ terms'[b] = terms[b]
    BY <1>9 DEF SelectCommit, TypeOK
  <2>2. QED BY <1>1, <1>9, <2>1 DEF SelectCommit
<1>10. ASSUME NEW u \in Users, NEW D \in SUBSET Docs, SelectRead(u, D) PROVE Met'
  <2>1. \A v \in Users : pc'[v] \in {"review", "count", "freeze"} =>
            /\ pc'[v] = pc[v] /\ on'[v] = on[v]
            /\ saw'[v] = saw[v] /\ reviewed'[v] = reviewed[v]
    BY <1>10 DEF SelectRead, TypeOK
  <2>2. QED BY <1>10, <2>1, MetFrame DEF SelectRead, campaigns
<1>11. ASSUME NEW u \in Users,
              \/ FreezeCommit(u) \/ ExcludeCommit(u) \/ IncludeCommit(u)
              \/ StartCommit(u) \/ CancelCommit(u) \/ RequestLost(u)
              \/ \E D \in SUBSET Docs : ProcessCommit(u, D)
       PROVE  Met'
  <2>1. Done(u) /\ UNCHANGED <<stamp, terms>>
    BY <1>11 DEF FreezeCommit, ExcludeCommit, IncludeCommit, ExcludeOrInclude, StartCommit,
        CancelCommit, RequestLost, ProcessCommit, campaigns
  <2>2. \A b \in Campaigns : status[b] # "none" => status'[b] # "none"
    <3>1. ASSUME NEW c, NEW I, Aggregate(c, I)
          PROVE  \A b \in Campaigns : status[b] # "none" => status'[b] # "none"
      BY <3>1 DEF Aggregate, TypeOK
    <3>2. CASE ExcludeCommit(u) \/ IncludeCommit(u) \/ \E D \in SUBSET Docs : ProcessCommit(u, D)
      <4>1. \E I : Aggregate(on[u], I)
        BY <3>2 DEF ExcludeCommit, IncludeCommit, ExcludeOrInclude, ProcessCommit
      <4>2. QED BY <3>1, <4>1
    <3>3. CASE FreezeCommit(u) \/ StartCommit(u) \/ CancelCommit(u) \/ RequestLost(u)
      BY <3>3 DEF FreezeCommit, StartCommit, CancelCommit, RequestLost, campaigns, TypeOK
    <3>4. QED BY <1>11, <3>2, <3>3
  <2>3. QED BY <1>1, <2>1, <2>2
<1>12. ASSUME NEW u \in Users, RequestStep(u) PROVE Met'
    BY <1>5, <1>6, <1>7, <1>9, <1>10, <1>11, <1>12 DEF RequestStep
<1>13. CASE DocumentStep \/ UNCHANGED vars
    BY <1>2, <1>13 DEF DocumentStep, ChangeDocument, SyncDocument, AddDocument, RemoveSeeds,
        campaigns, requests, vars
<1>14. QED BY <1>4, <1>8, <1>12, <1>13 DEF Next

\* A request between its count and its transaction ends by that transaction or
\* not at all: only its own steps move it.
LEMMA ReviewedStep ==
    TypeOK /\ Working /\ OpenIsEmpty /\ Met /\ [Next]_vars =>
        \A u \in Users, c \in Campaigns :
            /\ pc[u] = "freeze" /\ on[u] = c /\ pc'[u] = "idle"
            /\ status[c] = "draft" /\ status'[c] = "frozen"
            => \E G \in reviewed[u] : Members(c)' = Candidates(G)
<1> SUFFICES ASSUME TypeOK, Working, OpenIsEmpty, Met, [Next]_vars,
                    NEW u \in Users, NEW c \in Campaigns,
                    pc[u] = "freeze", on[u] = c, pc'[u] = "idle",
                    status[c] = "draft", status'[c] = "frozen"
             PROVE  \E G \in reviewed[u] : Members(c)' = Candidates(G)
    OBVIOUS
<1>1. pc' # pc /\ status' # status
    OBVIOUS
<1>2. ASSUME NEW v \in Users, NEW b \in Campaigns, CampaignRead(v, b) PROVE FALSE
    BY <1>1, <1>2 DEF CampaignRead, EditRead, FreezePage, StartRead, CancelRead,
        ProcessRead, ExcludeRead, IncludeRead, Read, campaigns
<1>3. PICK v \in Users : RequestStep(v)
    BY <1>1, <1>2 DEF Next, vars, CreateDraft, DocumentStep, ChangeDocument, SyncDocument,
        AddDocument, RemoveSeeds, requests
<1>4. v = u
  <2>1. ASSUME NEW w \in Users, pc' = [pc EXCEPT ![w] = "idle"] PROVE w = u
    BY <2>1 DEF TypeOK
  <2>2. QED BY <1>1, <1>3, <2>1
        DEF RequestStep, EditCommit, FreezeRead, FreezeCount, FreezeCommit, SelectRead, SelectCommit,
            ExcludeCommit, IncludeCommit, ExcludeOrInclude, StartCommit, CancelCommit,
            ProcessCommit, RequestLost, Done, campaigns
<1>5. FreezeCommit(u)
    BY <1>1, <1>3, <1>4 DEF RequestStep, EditCommit, FreezeRead, FreezeCount, SelectRead, SelectCommit,
        ExcludeCommit, IncludeCommit, ExcludeOrInclude, StartCommit, CancelCommit,
        ProcessCommit, RequestLost, campaigns
<1>6. Freezable(u, c)
    BY <1>1, <1>5 DEF FreezeCommit
<1>7. FreezeItems(c, Candidates(terms[c])) /\ terms[c] = saw[u].terms
    BY <1>5, <1>6 DEF FreezeCommit, Freezable
<1>8. item[c] = NoItems /\ Candidates(terms[c]) \subseteq Docs
    BY DEF OpenIsEmpty, Candidates
<1>9. \A d \in Docs : item'[c][d] = IF d \in Candidates(terms[c]) THEN "pending" ELSE "none"
    BY <1>7, <1>8 DEF FreezeItems, NoItems, TypeOK
<1>10. Members(c)' = Candidates(saw[u].terms)
    BY <1>7, <1>8, <1>9 DEF Members
<1>11. QED BY <1>10 DEF Met

\* A campaign is frozen with the documents of the page its user sent the form of, or
\* of an edit that its stamp does not tell from it and that was there on arrival.
THEOREM ReviewedCorrect == Spec => FrozenAsReviewed
<1> DEFINE Inv == TypeOK /\ Working /\ OpenIsEmpty /\ Met
           AsReviewed ==
             \A u \in Users, c \in Campaigns :
               /\ pc[u] = "freeze" /\ on[u] = c /\ pc'[u] = "idle"
               /\ status[c] = "draft" /\ status'[c] = "frozen"
               => \E G \in reviewed[u] : Members(c)' = Candidates(G)
<1>1. Init => Inv
    BY TypeInit, TellsInit DEF Init, Met
<1>2. Inv /\ [Next]_vars => Inv'
    BY TypeStep, WorkingStep, OpenStep, MetStep
<1>3. Inv /\ [Next]_vars => [AsReviewed]_vars
    BY ReviewedStep
<1>4. QED BY <1>1, <1>2, <1>3, PTL DEF Spec, FrozenAsReviewed
=============================================================================
