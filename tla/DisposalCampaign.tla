-------------------------- MODULE DisposalCampaign --------------------------
(***************************************************************************)
(* Disposal campaigns                                                      *)
(* (cloudflare-app/src/domains/disposal/infrastructure/repository.js).     *)
(*                                                                         *)
(* A campaign starts as a draft with selection terms, freezes the set of   *)
(* documents that meet them together with the version of each, and then    *)
(* disposes of them chunk by chunk, skipping any that has changed since.   *)
(* Every operation first reads the campaign and checks it, then sends one  *)
(* transaction that carries its own guards; between the two, other users   *)
(* and the rest of the application act.  Read and transaction are separate *)
(* steps here.                                                             *)
(*                                                                         *)
(* The terms a campaign selects by are one value, the group; updated_at of *)
(* a draft is a stamp that an edit within the same second leaves as it is. *)
(* updated_at and row_version of a document are one version.               *)
(***************************************************************************)
EXTENDS Naturals, FiniteSets

CONSTANTS
    Docs,        \* document ids
    Seeds,       \* the sample documents that the bootstrap load replaces
    Campaigns,   \* disposal campaigns
    NoCampaign,  \* what an idle request works on
    Users,       \* requests under way
    Groups,      \* what a document's attributes amount to for selection terms
    Chunk,       \* FREE_TIER_BUDGET.disposalProcessChunkSize
    MaxItems,    \* FREE_TIER_BUDGET.disposalBatchMaxItems
    MaxChanges,  \* bound: document transactions outside campaigns
    MaxEdits     \* bound: edits of one draft

ASSUME DocsAssumption == IsFiniteSet(Docs) /\ Seeds \subseteq Docs
ASSUME CampaignsAssumption == NoCampaign \notin Campaigns
ASSUME BoundsAssumption ==
    /\ Chunk \in Nat \ {0} /\ MaxItems \in Nat /\ Chunk <= MaxItems
    /\ MaxChanges \in Nat /\ MaxEdits \in Nat

VARIABLES
    standing,    \* documents.status; "none" when there is no such row
    listed,      \* documents.sync_state = 'current'
    group,       \* the attributes the selection terms look at
    version,     \* documents.row_version with updated_at
    status,      \* disposal_batches.status; "none" when there is no such row
    terms,       \* disposal_batches.criteria_json
    stamp,       \* disposal_batches.updated_at while the campaign is a draft
    target,      \* disposal_batches.target_count
    tally,       \* completed_count, excluded_count, changed_count, failed_count
    item,        \* disposal_batch_items.status; "none" when there is no such row
    expected,    \* disposal_batch_items.expected_document_version
    trail,       \* the campaign's rows in system_audit_logs
    pc,          \* what each request does next
    on,          \* the campaign a request works on
    saw,         \* the stamp and terms a request has read
    picked,      \* the documents a request names
    changes,     \* document transactions so far
    edits,       \* draft edits so far
    \* History variables: they guard no step.
    touched,     \* documents changed since a campaign froze them
    reviewed     \* the terms the draft has had in the second of a request's page

documents == <<standing, listed, group, version>>
campaigns == <<status, terms, stamp, target, tally, item, expected, trail>>
requests == <<pc, on, saw, picked, reviewed>>
vars == <<standing, listed, group, version, status, terms, stamp, target, tally, item, expected,
          trail, pc, on, saw, picked, changes, edits, touched, reviewed>>

Outcomes == {"completed", "excluded", "changed", "failed"}
NoTally == [o \in Outcomes |-> 0]
NoItems == [d \in Docs |-> "none"]
NothingSeen == [stamp |-> 0, terms |-> {}]

Init ==
    /\ standing \in [Docs -> {"none", "active", "disposed"}]
    /\ listed = [d \in Docs |-> standing[d] # "none"]
    /\ group \in [Docs -> Groups]
    /\ version = [d \in Docs |-> 1]
    /\ status = [c \in Campaigns |-> "none"]
    /\ terms = [c \in Campaigns |-> {}]
    /\ stamp = [c \in Campaigns |-> 0]
    /\ target = [c \in Campaigns |-> 0]
    /\ tally = [c \in Campaigns |-> NoTally]
    /\ item = [c \in Campaigns |-> NoItems]
    /\ expected = [c \in Campaigns |-> [d \in Docs |-> 0]]
    /\ trail = [c \in Campaigns |-> {}]
    /\ pc = [u \in Users |-> "idle"]
    /\ on = [u \in Users |-> NoCampaign]
    /\ saw = [u \in Users |-> NothingSeen]
    /\ picked = [u \in Users |-> {}]
    /\ changes = 0
    /\ edits = [c \in Campaigns |-> 0]
    /\ touched = [c \in Campaigns |-> {}]
    /\ reviewed = [u \in Users |-> {}]

-----------------------------------------------------------------------------
(* What the steps are made of *)

\* candidateTablesSql and buildCandidateWhere
Candidates(G) == {d \in Docs : standing[d] = "active" /\ listed[d] /\ group[d] \in G}

\* The joined conditions of the process statements on a document and its item.
FrozenIgnoringVersion(c, d) == standing[d] = "active" /\ listed[d]
FrozenUnchanged(c, d) ==
    standing[d] = "active" /\ listed[d] /\ version[d] = expected[c][d]

\* INSERT INTO disposal_batch_items ... SELECT ... FROM documents, for D.
FreezeItems(c, D) ==
    /\ item' = [item EXCEPT ![c] = [d \in Docs |-> IF d \in D THEN "pending" ELSE @[d]]]
    /\ expected' = [expected EXCEPT ![c] = [d \in Docs |-> IF d \in D THEN version[d] ELSE @[d]]]

\* A system audit row with action a, inserted when the guard g holds.
Audit(c, a, g) == trail' = [trail EXCEPT ![c] = IF g THEN @ \cup {a} ELSE @]

Pending(c) == {d \in Docs : item[c][d] = "pending"}

\* aggregateDisposalBatchStatement, over the items I of the campaign.
CountedBeforeMove(c, I) == [o \in Outcomes |-> Cardinality({d \in Docs : item[c][d] = o})]
Counted(c, I) == [o \in Outcomes |-> Cardinality({d \in Docs : I[d] = o})]
AggregateAllCompleted(c, I) ==
    /\ tally' = [tally EXCEPT ![c] = Counted(c, I)]
    /\ status' = [status EXCEPT ![c] =
                    IF @ = "processing" /\ \A d \in Docs : I[d] \in {"none", "completed"}
                    THEN "completed" ELSE @]
Aggregate(c, I) ==
    /\ tally' = [tally EXCEPT ![c] = Counted(c, I)]
    /\ status' = [status EXCEPT ![c] =
                    IF @ = "processing" /\ \A d \in Docs : I[d] # "pending" THEN "completed" ELSE @]

\* A request reads campaign c, finds nothing against action a and will send its
\* transaction; afterwards it forgets everything.
Read(u, c, a, D) ==
    /\ pc[u] = "idle"
    /\ pc' = [pc EXCEPT ![u] = a]
    /\ on' = [on EXCEPT ![u] = c]
    /\ picked' = [picked EXCEPT ![u] = D]
    /\ saw' = [saw EXCEPT ![u] = [stamp |-> stamp[c], terms |-> terms[c]]]
    /\ reviewed' = [reviewed EXCEPT ![u] = {terms[c]}]
    /\ UNCHANGED <<documents, campaigns, changes, edits, touched>>

Done(u) ==
    /\ pc' = [pc EXCEPT ![u] = "idle"]
    /\ on' = [on EXCEPT ![u] = NoCampaign]
    /\ saw' = [saw EXCEPT ![u] = NothingSeen]
    /\ picked' = [picked EXCEPT ![u] = {}]
    /\ reviewed' = [reviewed EXCEPT ![u] = {}]

-----------------------------------------------------------------------------
(* Creating and editing a draft *)

\* createDisposalBatch: one transaction, nothing read before.
CreateDraft(c, G) ==
    /\ status[c] = "none"
    /\ G # {}
    /\ status' = [status EXCEPT ![c] = "draft"]
    /\ terms' = [terms EXCEPT ![c] = G]
    /\ stamp' = [stamp EXCEPT ![c] = 1]
    /\ Audit(c, "create", TRUE)
    /\ UNCHANGED <<documents, requests, target, tally, item, expected, changes, edits, touched>>

\* updateDisposalBatch: the form carries the updated_at of the page it was on.
EditRead(u, c) == status[c] = "draft" /\ edits[c] < MaxEdits /\ Read(u, c, "edit", {})

\* The guard on draft and updated_at decides; later says whether the clock has
\* moved on to another second since the draft's last change.
EditCommit(u, G, later) ==
    LET c == on[u]
        open == status[c] = "draft" /\ stamp[c] = saw[u].stamp
    IN  /\ pc[u] = "edit"
        /\ edits[c] < MaxEdits
        /\ G # {}
        /\ terms' = IF open THEN [terms EXCEPT ![c] = G] ELSE terms
        /\ stamp' = IF open /\ later THEN [stamp EXCEPT ![c] = @ + 1] ELSE stamp
        /\ edits' = IF open THEN [edits EXCEPT ![c] = @ + 1] ELSE edits
        /\ pc' = [pc EXCEPT ![u] = "idle"]
        /\ on' = [on EXCEPT ![u] = NoCampaign]
        /\ saw' = [saw EXCEPT ![u] = NothingSeen]
        /\ reviewed' = [v \in Users |->
                IF v = u THEN {}
                ELSE IF /\ open /\ ~later
                        /\ pc[v] = "review" /\ on[v] = c /\ saw[v].stamp = stamp[c]
                THEN reviewed[v] \cup {G} ELSE reviewed[v]]
        /\ UNCHANGED <<documents, status, target, tally, item, expected, trail, picked, changes,
                       touched>>

-----------------------------------------------------------------------------
(* freezeDisposalBatch *)

\* The draft's page: its form carries updated_at and a number, not the terms.
\* (The action on the search page reads the draft it has made in the same way.)
FreezePage(u, c) == status[c] = "draft" /\ Read(u, c, "review", {})

\* getDisposalBatch and the checks on status, criteria and expectedUpdatedAt: from
\* here on the terms are those of this read.
FreezeRead(u) ==
    LET c == on[u]
    IN  /\ pc[u] = "review"
        /\ IF status[c] = "draft" /\ terms[c] # {} /\ stamp[c] = saw[u].stamp
             THEN /\ pc' = [pc EXCEPT ![u] = "count"]
                  /\ saw' = [saw EXCEPT ![u] = [stamp |-> saw[u].stamp, terms |-> terms[c]]]
                  /\ UNCHANGED <<on, picked, reviewed>>
             ELSE Done(u)
        /\ UNCHANGED <<documents, campaigns, changes, edits, touched>>

\* countDisposalCandidates: the number confirmed is compared with this count only,
\* not with that of the transaction.
FreezeCount(u, confirmed) ==
    LET n == Cardinality(Candidates(saw[u].terms))
    IN  /\ pc[u] = "count"
        /\ IF n \in 1..MaxItems /\ confirmed = n
             THEN /\ pc' = [pc EXCEPT ![u] = "freeze"]
                  /\ UNCHANGED <<on, saw, picked, reviewed>>
             ELSE Done(u)
        /\ UNCHANGED <<documents, campaigns, changes, edits, touched>>

\* The guards that all three statements of the transaction carry.
FreezableUncounted(u, c) ==
    status[c] = "draft" /\ stamp[c] = saw[u].stamp /\ terms[c] = saw[u].terms
FreezableAnyTerms(u, c) ==
    /\ status[c] = "draft" /\ stamp[c] = saw[u].stamp
    /\ Cardinality(Candidates(terms[c])) \in 1..MaxItems
FreezableAnyStatus(u, c) ==
    /\ stamp[c] = saw[u].stamp /\ terms[c] = saw[u].terms
    /\ Cardinality(Candidates(terms[c])) \in 1..MaxItems
Freezable(u, c) ==
    /\ status[c] = "draft" /\ stamp[c] = saw[u].stamp /\ terms[c] = saw[u].terms
    /\ Cardinality(Candidates(terms[c])) \in 1..MaxItems

FreezeCommit(u) ==
    LET c == on[u]
        D == Candidates(terms[c])
    IN  /\ pc[u] = "freeze"
        /\ IF Freezable(u, c)
             THEN /\ FreezeItems(c, D)
                  /\ status' = [status EXCEPT ![c] = "frozen"]
                  /\ target' = [target EXCEPT ![c] = Cardinality(D)]
                  /\ touched' = [touched EXCEPT ![c] = {}]
             ELSE UNCHANGED <<item, expected, status, target, touched>>
        /\ Audit(c, "freeze", Freezable(u, c))
        /\ Done(u)
        /\ UNCHANGED <<documents, terms, stamp, tally, changes, edits>>

-----------------------------------------------------------------------------
(* createSelectedDisposalBatch: documents picked on the search page *)

\* The documents named are all in the ledger and not disposed of.
SelectRead(u, D) ==
    /\ pc[u] = "idle"
    /\ D # {} /\ Cardinality(D) <= Chunk
    /\ D \subseteq Candidates(Groups)
    /\ pc' = [pc EXCEPT ![u] = "select"]
    /\ picked' = [picked EXCEPT ![u] = D]
    /\ UNCHANGED <<documents, campaigns, on, saw, changes, edits, touched, reviewed>>

\* The new campaign gets its items and is frozen.  target_count becomes NULL, and
\* the transaction fails, when only some of the documents are still candidates;
\* when none is, the last statement does not apply and a draft remains.
SelectCommit(u, c) ==
    LET D == picked[u] \cap Candidates(Groups)
    IN  /\ pc[u] = "select" /\ status[c] = "none"
        /\ IF D \in {picked[u], {}}
             THEN /\ FreezeItems(c, D)
                  /\ status' = [status EXCEPT ![c] = IF D = {} THEN "draft" ELSE "frozen"]
                  /\ stamp' = [stamp EXCEPT ![c] = 1]
                  /\ target' = [target EXCEPT ![c] = Cardinality(D)]
                  /\ touched' = [touched EXCEPT ![c] = {}]
             ELSE UNCHANGED <<item, expected, status, stamp, target, touched>>
        /\ Audit(c, "create", D \in {picked[u], {}})
        /\ Done(u)
        /\ UNCHANGED <<documents, terms, tally, changes, edits>>

-----------------------------------------------------------------------------
(* setDisposalBatchItemExcluded *)

ExcludeRead(u, c, d) == status[c] = "frozen" /\ item[c][d] # "none" /\ Read(u, c, "exclude", {d})
IncludeRead(u, c, d) == status[c] = "frozen" /\ item[c][d] # "none" /\ Read(u, c, "include", {d})

\* The item moves when it is where the request expects it and the campaign is
\* still frozen; the aggregation runs in any case.
MayMoveUnfrozen(c, d, from) == item[c][d] = from
MayMove(c, d, from) == item[c][d] = from /\ status[c] = "frozen"

Moved(c, D, from, to) ==
    [d \in Docs |-> IF d \in D /\ MayMove(c, d, from) THEN to ELSE item[c][d]]

ExcludeOrInclude(u, a, from, to) ==
    LET c == on[u]
        I == Moved(c, picked[u], from, to)
    IN  /\ pc[u] = a
        /\ item' = [item EXCEPT ![c] = I]
        /\ Aggregate(c, I)
        /\ Audit(c, a, \E d \in picked[u] : MayMove(c, d, from))
        /\ Done(u)
        /\ UNCHANGED <<documents, terms, stamp, target, expected, changes, edits, touched>>

ExcludeCommit(u) == ExcludeOrInclude(u, "exclude", "pending", "excluded")
IncludeCommit(u) == ExcludeOrInclude(u, "include", "excluded", "pending")

-----------------------------------------------------------------------------
(* startDisposalBatch and cancelDisposalBatch *)

\* The user confirms target_count, which a frozen campaign does not change.
StartRead(u, c) == status[c] = "frozen" /\ Read(u, c, "start", {})

StartCommit(u) ==
    LET c == on[u]
    IN  /\ pc[u] = "start"
        /\ status' = [status EXCEPT ![c] = IF @ = "frozen" THEN "processing" ELSE @]
        /\ Audit(c, "start", status[c] = "frozen")
        /\ Done(u)
        /\ UNCHANGED <<documents, terms, stamp, target, tally, item, expected, changes, edits,
                       touched>>

CancelRead(u, c) == status[c] \in {"draft", "frozen"} /\ Read(u, c, "cancel", {})

OpenOrProcessing(c) == status[c] \in {"draft", "frozen", "processing"}
Cancellable(c) == status[c] \in {"draft", "frozen"}

CancelCommit(u) ==
    LET c == on[u]
    IN  /\ pc[u] = "cancel"
        /\ status' = [status EXCEPT ![c] = IF Cancellable(c) THEN "cancelled" ELSE @]
        /\ Audit(c, "cancel", Cancellable(c))
        /\ Done(u)
        /\ UNCHANGED <<documents, terms, stamp, target, tally, item, expected, changes, edits,
                       touched>>

-----------------------------------------------------------------------------
(* processDisposalBatch *)

ProcessRead(u, c) == status[c] = "processing" /\ Read(u, c, "process", {})

\* The first statement claims the next Chunk pending items of a processing
\* campaign, in the order the items were inserted, which no ORDER BY fixes.
NextItems(c) ==
    IF status[c] # "processing" THEN {{}}
    ELSE {D \in SUBSET Pending(c) :
            Cardinality(D) = Chunk \/ (D = Pending(c) /\ Cardinality(D) < Chunk)}

\* Items whose document stands as frozen are logged, audited, disposed of and
\* completed; the others are closed with what became of their document.
ProcessCommit(u, D) ==
    LET c == on[u]
        disposed == {d \in D : FrozenUnchanged(c, d)}
        I == [d \in Docs |->
                IF d \in disposed THEN "completed"
                ELSE IF d \in D THEN (IF standing[d] = "none" THEN "failed" ELSE "changed")
                ELSE item[c][d]]
    IN  /\ pc[u] = "process"
        /\ D \in NextItems(c)
        /\ standing' = [d \in Docs |-> IF d \in disposed THEN "disposed" ELSE standing[d]]
        /\ version' = [d \in Docs |-> IF d \in disposed THEN version[d] + 1 ELSE version[d]]
        /\ touched' = [b \in Campaigns |-> touched[b] \cup disposed]
        /\ item' = [item EXCEPT ![c] = I]
        /\ Audit(c, "complete", status[c] = "processing" /\ \A d \in Docs : I[d] # "pending")
        /\ Aggregate(c, I)
        /\ Done(u)
        /\ UNCHANGED <<listed, group, terms, stamp, target, expected, changes, edits>>

-----------------------------------------------------------------------------
(* The rest of the application *)

\* Any update of a document moves its row_version on.
BumpedVersion(d) == version[d] + 1

\* updateDocument and moveDocument give an active document other attributes;
\* disposeDocument, reviseDocument and restoreDocument change its status.
ChangeDocument(d, st, g) ==
    /\ changes < MaxChanges
    /\ standing[d] # "none"
    /\ \/ standing[d] = "active" /\ st = "active"
       \/ standing[d] # st /\ g = group[d]
    /\ standing' = [standing EXCEPT ![d] = st]
    /\ group' = [group EXCEPT ![d] = g]
    /\ version' = [version EXCEPT ![d] = BumpedVersion(d)]
    /\ changes' = changes + 1
    /\ touched' = [c \in Campaigns |-> touched[c] \cup {d}]
    /\ UNCHANGED <<listed, campaigns, requests, edits>>

\* A ledger snapshot is applied: its update gives a document the workbook's
\* attributes and status and returns it to the ledger, its exclusion only takes
\* it out.
SyncDocument(d, current, st, g) ==
    /\ changes < MaxChanges
    /\ standing[d] # "none"
    /\ ~current => listed[d] /\ st = standing[d] /\ g = group[d]
    /\ standing' = [standing EXCEPT ![d] = st]
    /\ listed' = [listed EXCEPT ![d] = current]
    /\ group' = [group EXCEPT ![d] = g]
    /\ version' = [version EXCEPT ![d] = BumpedVersion(d)]
    /\ changes' = changes + 1
    /\ touched' = [c \in Campaigns |-> touched[c] \cup {d}]
    /\ UNCHANGED <<campaigns, requests, edits>>

\* createDocument and its like.
AddDocument(d, g) ==
    /\ changes < MaxChanges
    /\ standing[d] = "none" /\ d \notin Seeds
    /\ standing' = [standing EXCEPT ![d] = "active"]
    /\ listed' = [listed EXCEPT ![d] = TRUE]
    /\ group' = [group EXCEPT ![d] = g]
    /\ changes' = changes + 1
    /\ UNCHANGED <<version, campaigns, requests, edits, touched>>

\* The bootstrap load replaces a ledger of nothing but the samples.
RemoveSeeds ==
    /\ changes < MaxChanges
    /\ Seeds # {} /\ {d \in Docs : standing[d] # "none"} = Seeds
    /\ standing' = [d \in Docs |-> "none"]
    /\ listed' = [d \in Docs |-> FALSE]
    /\ changes' = changes + 1
    /\ touched' = [c \in Campaigns |-> touched[c] \cup Seeds]
    /\ UNCHANGED <<group, version, campaigns, requests, edits>>

\* The runtime stops a request between its read and its transaction.
RequestLost(u) ==
    /\ pc[u] # "idle"
    /\ Done(u)
    /\ UNCHANGED <<documents, campaigns, changes, edits, touched>>

-----------------------------------------------------------------------------
CampaignRead(u, c) ==
    \/ EditRead(u, c) \/ FreezePage(u, c) \/ StartRead(u, c) \/ CancelRead(u, c)
    \/ ProcessRead(u, c)
    \/ \E d \in Docs : ExcludeRead(u, c, d) \/ IncludeRead(u, c, d)

RequestStep(u) ==
    \/ \E G \in SUBSET Groups, later \in BOOLEAN : EditCommit(u, G, later)
    \/ FreezeRead(u) \/ FreezeCommit(u)
    \/ \E confirmed \in 0..MaxItems : FreezeCount(u, confirmed)
    \/ \E D \in SUBSET Docs : SelectRead(u, D)
    \/ \E c \in Campaigns : SelectCommit(u, c)
    \/ ExcludeCommit(u) \/ IncludeCommit(u)
    \/ StartCommit(u) \/ CancelCommit(u)
    \/ \E D \in SUBSET Docs : ProcessCommit(u, D)
    \/ RequestLost(u)

DocumentStep ==
    \/ \E d \in Docs, st \in {"active", "disposed"}, g \in Groups :
            ChangeDocument(d, st, g) \/ \E current \in BOOLEAN : SyncDocument(d, current, st, g)
    \/ \E d \in Docs, g \in Groups : AddDocument(d, g)
    \/ RemoveSeeds

Next ==
    \/ \E c \in Campaigns, G \in SUBSET Groups : CreateDraft(c, G)
    \/ \E u \in Users, c \in Campaigns : CampaignRead(u, c)
    \/ \E u \in Users : RequestStep(u)
    \/ DocumentStep

Spec == Init /\ [][Next]_vars

\* The page of a processing campaign sends one chunk after another, and whoever
\* opens it again resumes it; a request ends, and not every one of these is
\* stopped halfway.
Fairness ==
    /\ \A u \in Users : WF_vars(pc[u] # "idle" /\ RequestStep(u))
    /\ \A c \in Campaigns :
        /\ SF_vars(\E u \in Users : ProcessRead(u, c))
        /\ SF_vars(\E u \in Users, D \in SUBSET Docs : on[u] = c /\ ProcessCommit(u, D))

FairSpec == Spec /\ Fairness

-----------------------------------------------------------------------------
(* Properties *)

States == {"none", "draft", "frozen", "processing", "completed", "cancelled"}
ItemStates == Outcomes \cup {"none", "pending"}
Actions == {"create", "freeze", "exclude", "include", "start", "complete", "cancel"}

\* Every variable stays within its type; a campaign never holds more items than
\* it may, however many documents join the candidates before it is frozen.
TypeOK ==
    /\ standing \in [Docs -> {"none", "active", "disposed"}]
    /\ listed \in [Docs -> BOOLEAN]
    /\ group \in [Docs -> Groups]
    /\ version \in [Docs -> Nat]
    /\ status \in [Campaigns -> States]
    /\ terms \in [Campaigns -> SUBSET Groups]
    /\ stamp \in [Campaigns -> Nat]
    /\ target \in [Campaigns -> 0..MaxItems]
    /\ tally \in [Campaigns -> [Outcomes -> Nat]]
    /\ item \in [Campaigns -> [Docs -> ItemStates]]
    /\ expected \in [Campaigns -> [Docs -> Nat]]
    /\ trail \in [Campaigns -> SUBSET Actions]
    /\ pc \in [Users -> {"idle", "edit", "review", "count", "freeze", "select", "exclude",
                         "include", "start", "cancel", "process"}]
    /\ on \in [Users -> Campaigns \cup {NoCampaign}]
    /\ saw \in [Users -> [stamp : Nat, terms : SUBSET Groups]]
    /\ picked \in [Users -> {D \in SUBSET Docs : Cardinality(D) <= Chunk}]
    /\ changes \in 0..MaxChanges
    /\ edits \in [Campaigns -> 0..MaxEdits]
    /\ touched \in [Campaigns -> SUBSET Docs]
    /\ reviewed \in [Users -> SUBSET SUBSET Groups]

Members(c) == {d \in Docs : item[c][d] # "none"}

\* A campaign never disposes of a document that anyone, another campaign
\* included, has changed since it was frozen (README: such documents are left).
NeverDisposesTouched ==
    [][\A c \in Campaigns, d \in Docs :
        item[c][d] # "completed" /\ item'[c][d] = "completed" => d \notin touched[c]]_vars

\* The documents and versions of a campaign are fixed once it is frozen, whatever
\* stale request to freeze it again is still on its way.
FrozenSetFixed ==
    [][\A c \in Campaigns : status[c] \notin {"none", "draft"} =>
        expected'[c] = expected[c] /\ Members(c)' = Members(c)]_vars

\* A campaign is frozen with the documents that meet the terms of the page its user
\* sent the form of.  The form carries only updated_at, which an edit within the
\* same second leaves as it is: such an edit may be frozen in their place, but only
\* one the request has met on its arrival, none that comes after.
FrozenAsReviewed ==
    [][\A u \in Users, c \in Campaigns :
        /\ pc[u] = "freeze" /\ on[u] = c /\ pc'[u] = "idle"
        /\ status[c] = "draft" /\ status'[c] = "frozen"
        => \E G \in reviewed[u] : Members(c)' = Candidates(G)]_vars

\* What the user has excluded when processing begins stays excluded, and nothing
\* is excluded later: a late exclude or include request has no effect.
ExclusionsFinal ==
    [][\A c \in Campaigns, d \in Docs : status[c] \notin {"draft", "frozen"} =>
        (item[c][d] = "excluded" <=> item'[c][d] = "excluded")]_vars

\* A cancelled campaign has disposed of nothing and closed no item, even when a
\* request to start it raced with the cancellation.
CancelledIsHarmless ==
    \A c \in Campaigns : status[c] = "cancelled" =>
        \A d \in Docs : item[c][d] \in {"none", "pending", "excluded"}

\* The stored totals are those of the items, and the totals of a completed
\* campaign add up to its target (the reconciliation of OPERATIONS.md).
TotalsAddUp ==
    \A c \in Campaigns :
        /\ target[c] = Cardinality(Members(c))
        /\ \A o \in Outcomes : tally[c][o] = Cardinality({d \in Docs : item[c][d] = o})
        /\ status[c] = "completed" => Pending(c) = {}

\* A campaign that has started is completed: every document in it is disposed of
\* or accounted for.
ProcessingCompletes ==
    \A c \in Campaigns : status[c] = "processing" ~> status[c] = "completed"
=============================================================================
