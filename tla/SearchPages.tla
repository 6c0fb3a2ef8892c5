---------------------------- MODULE SearchPages ----------------------------
(***************************************************************************)
(* The instant search of the archive: one browser page                     *)
(* (views/clientScript/instantSearch.js) that asks for the results of the  *)
(* conditions in its form page by page, and the server that answers each   *)
(* page with several separate reads (getViewerSearchPayload in             *)
(* domains/search/infrastructure/repository.js).                           *)
(*                                                                         *)
(* Documents change, and the projection follows them later; a cursor names *)
(* an offset, the conditions and the generation it was made for.  A search *)
(* gives up its predecessor, whose answer may still arrive.                *)
(*                                                                         *)
(* The conditions are one value.  A document is its rank in the results,   *)
(* 0 when it does not match or is not current; the order of a list is by   *)
(* rank and id.                                                            *)
(***************************************************************************)
EXTENDS Naturals, Sequences, FiniteSets, SequencesExt

CONSTANTS
    Docs,          \* document ids
    Seeds,         \* the sample documents that the bootstrap load replaces
    Conditions,    \* what the user may search for
    Exact,         \* answered from the core tables: no text, or a document's name
    Fuzzy,         \* no literal match: ranked, filtered and only then cut
    Requests,      \* fetches under way, given up or not
    NoRequest,
    NoCursor,
    PageSize,      \* FREE_TIER_BUDGET.searchResponseMaxItems
    MaxRank,       \* bound: the ranks of matching documents
    MaxChanges,    \* bound: document transactions and loads
    MaxInputs,     \* bound: changes of the conditions
    MaxFaults      \* bound: fetches that fail

ASSUME DocsAssumption == Docs \subseteq Nat /\ IsFiniteSet(Docs) /\ Seeds \subseteq Docs
ASSUME ConditionsAssumption == Exact \cup Fuzzy \subseteq Conditions
ASSUME NoneAssumption == NoRequest \notin Requests
ASSUME BoundsAssumption ==
    /\ PageSize \in Nat \ {0} /\ MaxRank \in Nat \ {0}
    /\ MaxChanges \in Nat /\ MaxInputs \in Nat /\ MaxFaults \in Nat

\* The score of a document for the conditions, or its place in the index.
Ranks == 0..MaxRank

VARIABLES
    core,         \* the rank of each document by the core tables
    projected,    \* its rank by the projection, 0 when it is not there
    ready,        \* search_projection_state.reindex_status = 'ready'
    generation,   \* search_projection_state.generation
    dirty,        \* search_projection_dirty
    removed,      \* the samples that the load has removed
    loading,      \* a scheduled load is between its first chunk and its end
    request,      \* what each fetch has asked, read and got
    query,        \* the conditions in the form
    composing,    \* an input method is composing
    timer,        \* renderTimer is set
    newest,       \* the fetch that carries searchSequence, if any
    busy,         \* aria-busy
    shown,        \* currentItems
    screen,       \* "results", "error", "start"
    buttons,      \* under the results: "more", and "retry" with its alert
    cursor,       \* currentCursor
    retry,        \* retryCursor
    wanted,       \* restoreState.count, 0 when there is nothing to restore
    changes, inputs, faults,
    \* History variables: they guard no step.
    shownFor,     \* the conditions the results on screen were asked for
    drift         \* documents changed since the first page on screen was begun

store == <<core, projected, ready, generation, dirty, removed, loading>>
form == <<query, composing, timer>>
page == <<shown, screen, buttons, cursor, shownFor, drift>>
counts == <<changes, inputs, faults>>
vars == <<core, projected, ready, generation, dirty, removed, loading, request, query, composing,
          timer, newest, busy, shown, screen, buttons, cursor, retry, wanted, changes, inputs,
          faults, shownFor, drift>>

Idle == [pc |-> "idle"]

-----------------------------------------------------------------------------
(* What the steps are made of *)

\* The members of S one after another, as the pairs in before order them.
InOrder(S, before) ==
    CHOOSE s \in SetToSeqs(S) : \A i, j \in DOMAIN s : i < j => <<s[i], s[j]>> \in before

\* The matching documents in their order: ORDER BY search_rank, document_id.
Precedes(rank) ==
    {p \in Docs \X Docs : rank[p[1]] < rank[p[2]] \/ (rank[p[1]] = rank[p[2]] /\ p[1] < p[2])}
Listed(rank) == InOrder({d \in Docs : rank[d] > 0}, Precedes(rank))
PageOf(list, offset) == SubSeq(list, offset + 1, Min({offset + PageSize, Len(list)}))

\* The check of the cursor: it was made for these conditions, and no document,
\* tag or reference has changed since.
CursorForConditions(c, q) == c = NoCursor \/ c.query = q
CursorHolds(c, q) == c = NoCursor \/ (c.query = q /\ c.generation = generation)

Offset(c) == IF c = NoCursor THEN 0 ELSE c.offset

\* nextCursor: where the next page begins, while there is more.
CursorAfter(r, consumed, total) ==
    LET next == Offset(request[r].cursor) + consumed
    IN  IF next < total
          THEN [query |-> request[r].query, generation |-> request[r].generation, offset |-> next]
          ELSE NoCursor

\* Core documents that still meet the conditions; the projection may lag.
Unchecked(list) == list
StillMatching(list) ==
    LET kept == {i \in DOMAIN list : core[list[i]] > 0}
    IN  [k \in 1..Cardinality(kept) |-> list[InOrder(kept, {p \in kept \X kept : p[1] < p[2]})[k]]]

Answer(r, items, next) ==
    request' = [request EXCEPT ![r] = [@ EXCEPT !.pc = "answered", !.items = items, !.next = next,
                                                !.list = <<>>, !.total = 0]]

\* A fetch begins: its sequence number makes every other one obsolete.
Begin(r, q, c, append, again) ==
    [pc |-> "check", query |-> q, cursor |-> c, append |-> append, again |-> again,
     generation |-> 0, total |-> 0, list |-> <<>>, items |-> <<>>, next |-> NoCursor,
     kind |-> "ok",
     drift |-> IF append THEN drift ELSE {}, gone |-> {d \in Docs : core[d] = 0}, late |-> FALSE]

\* Fetches differ by their names only: the next one has the first that is free.
Free == {r \in Requests : request[r].pc = "idle"}
NextFree(r) == r \in Free /\ r = CHOOSE s \in Free : TRUE

\* requestSearch up to its first await.  It does nothing while an input method
\* is composing.
Ask(r, q, c, append, again, table) ==
    /\ request' = [table EXCEPT ![r] = Begin(r, q, c, append, again)]
    /\ newest' = r
    /\ timer' = FALSE
    /\ busy' = TRUE
    /\ retry' = IF append THEN c ELSE NoCursor

Init ==
    /\ core \in [Docs -> Ranks]
    /\ projected = core
    /\ ready = TRUE
    /\ generation = 1
    /\ dirty = {} /\ removed = {} /\ loading = FALSE
    /\ request = [r \in Requests |-> Idle]
    /\ query \in Conditions
    /\ composing = FALSE
    /\ timer = FALSE
    /\ newest = NoRequest
    /\ busy = FALSE
    /\ shown = <<>>
    /\ screen = "start" /\ buttons = {}
    /\ cursor = NoCursor
    /\ retry = NoCursor
    /\ wanted \in {0, Cardinality(Docs)}
    /\ changes = 0 /\ inputs = 0 /\ faults = 0
    /\ shownFor = query
    /\ drift = {}

-----------------------------------------------------------------------------
(* Documents and their projection *)

\* The core tables become C; what has changed is noted for the page and the
\* fetches, and which documents have still not matched.
Become(C) ==
    LET changed == {d \in Docs : C[d] # core[d]}
    IN  /\ core' = C
        /\ drift' = drift \cup changed
        /\ request' = [r \in Requests |->
                IF request[r].pc = "idle" THEN Idle
                ELSE [request[r] EXCEPT !.drift = request[r].drift \cup changed,
                                        !.gone = {d \in request[r].gone : C[d] = 0}]]
        /\ UNCHANGED <<projected, form, newest, busy, shown, screen, buttons, cursor, retry, wanted,
                       inputs, faults, shownFor>>

\* A transaction on a document, or on a reference it carries: the triggers move
\* the generation on and mark the document dirty.  None runs during a load.
NextGeneration == generation + 1

ChangeDocument(d, rank) ==
    /\ changes < MaxChanges /\ ~loading
    /\ rank # core[d] /\ d \notin removed
    /\ Become([core EXCEPT ![d] = rank])
    /\ generation' = NextGeneration
    /\ dirty' = dirty \cup {d}
    /\ changes' = changes + 1
    /\ UNCHANGED <<ready, removed, loading>>

\* A drain writes a dirty document; the generation stays.
DrainDocument(d) ==
    /\ d \in dirty
    /\ projected' = [projected EXCEPT ![d] = core[d]]
    /\ dirty' = dirty \ {d}
    /\ UNCHANGED <<core, ready, generation, removed, loading, request, form, newest, busy, page,
                   retry, wanted, counts>>

\* The bootstrap load finds a ledger of the samples alone.
OnlySamples == removed = {} /\ \A d \in Docs \ Seeds : core[d] = 0
Instead(rank) == [d \in Docs |-> IF d \in Seeds THEN 0 ELSE rank[d]]

\* The first chunk of a scheduled load removes them behind the triggers: neither
\* the generation nor the projection nor the dirty rows say so.
RemoveSamples ==
    /\ changes < MaxChanges /\ ~loading
    /\ OnlySamples
    /\ Become(Instead(core))
    /\ removed' = Seeds
    /\ loading' = TRUE
    /\ changes' = changes + 1
    /\ UNCHANGED <<ready, generation, dirty>>

\* Its last step makes the new documents current, moves the generation on and
\* asks for a rebuild: until that has ended the projection serves no search.
EndLoad(rank) ==
    /\ loading
    /\ Become(Instead(rank))
    /\ generation' = NextGeneration
    /\ ready' = FALSE
    /\ loading' = FALSE
    /\ UNCHANGED <<dirty, removed, changes>>

\* A load that is not scheduled does both in one transaction.
LoadAtOnce(rank) ==
    /\ changes < MaxChanges /\ ~loading
    /\ OnlySamples
    /\ Become(Instead(rank))
    /\ generation' = NextGeneration
    /\ ready' = FALSE
    /\ removed' = Seeds
    /\ changes' = changes + 1
    /\ UNCHANGED <<dirty, loading>>

\* The walk over all documents that a load has asked for ends.
EndRebuild ==
    /\ ~ready
    /\ projected' = core
    /\ ready' = TRUE
    /\ UNCHANGED <<core, generation, dirty, removed, loading, request, form, newest, busy, page,
                   retry, wanted, counts>>

-----------------------------------------------------------------------------
(* getViewerSearchPayload: every read sees the database of its own moment *)

\* The generation is read first and compared with the cursor's.
Check(r) ==
    /\ request[r].pc = "check"
    /\ request' = [request EXCEPT ![r] =
            IF CursorHolds(@.cursor, @.query)
              THEN [@ EXCEPT !.pc = "count", !.generation = generation,
                             !.drift = IF request[r].append THEN request[r].drift ELSE {},
                             !.late = request[r].append /\ ~(request[r].drift \subseteq removed)]
              ELSE [@ EXCEPT !.pc = "answered", !.kind = "stale"]]
    /\ UNCHANGED <<store, form, newest, busy, page, retry, wanted, counts>>

\* getExactDocumentNamePage: a document has the text as its name.
Named(r) == request[r].query \in Exact /\ Listed(core) # <<>>

\* getDocumentPageWindow
CorePage(r) == PageOf(Listed(core), Offset(request[r].cursor))

\* Without text, or through searchDocuments while the projection cannot be read:
\* one list gives the page and what comes after it.
FromCore(r) ==
    /\ request[r].pc = "count"
    /\ Named(r) \/ ~ready
    /\ Answer(r, CorePage(r), CursorAfter(r, Len(CorePage(r)), Len(Listed(core))))
    /\ UNCHANGED <<store, form, newest, busy, page, retry, wanted, counts>>

\* With a document's name the matches are counted first ...
CountNamed(r) ==
    /\ request[r].pc = "count"
    /\ Named(r)
    /\ request' = [request EXCEPT ![r].pc = "page", ![r].total = Len(Listed(core))]
    /\ UNCHANGED <<store, form, newest, busy, page, retry, wanted, counts>>

\* ... and then their page is read.
ReadNamed(r) ==
    /\ request[r].pc = "page"
    /\ Answer(r, CorePage(r), CursorAfter(r, Len(CorePage(r)), request[r].total))
    /\ UNCHANGED <<store, form, newest, busy, page, retry, wanted, counts>>

FromProjection(r) == ready /\ ~Named(r)

\* getProjectionViewerPage counts the matches, ...
Count(r) ==
    /\ request[r].pc = "count"
    /\ FromProjection(r)
    /\ request' = [request EXCEPT ![r].pc = "rank", ![r].total = Len(Listed(projected))]
    /\ UNCHANGED <<store, form, newest, busy, page, retry, wanted, counts>>

\* ... reads one page of them, or all when none matched literally, ...
Rank(r) ==
    /\ request[r].pc = "rank"
    /\ request' = [request EXCEPT ![r].pc = "core",
            ![r].list = IF request[r].query \in Fuzzy THEN Listed(projected)
                        ELSE PageOf(Listed(projected), Offset(request[r].cursor))]
    /\ UNCHANGED <<store, form, newest, busy, page, retry, wanted, counts>>

\* ... and reads the documents themselves, which drops those that have left.
ReadCore(r) ==
    /\ request[r].pc = "core"
    /\ LET kept == StillMatching(request[r].list)
       IN  IF request[r].query \in Fuzzy
             THEN LET items == PageOf(kept, Offset(request[r].cursor))
                  IN  Answer(r, items, CursorAfter(r, Len(items), Len(kept)))
             ELSE Answer(r, kept, CursorAfter(r, Len(request[r].list), request[r].total))
    /\ UNCHANGED <<store, form, newest, busy, page, retry, wanted, counts>>

\* The latest fetch fails: the network, or an answer that is no page.  What becomes
\* of one given up makes no difference (Ignore).
Fail(r) ==
    /\ request[r].pc \notin {"idle", "answered"} /\ r = newest
    /\ faults < MaxFaults
    /\ faults' = faults + 1
    /\ request' = [request EXCEPT ![r] =
            [@ EXCEPT !.pc = "answered", !.kind = "failed", !.list = <<>>, !.total = 0]]
    /\ UNCHANGED <<store, form, newest, busy, page, retry, wanted, changes, inputs>>

-----------------------------------------------------------------------------
(* The browser *)

\* invalidateSearch
Invalidate == newest' = NoRequest /\ wanted' = 0

\* Typing: the search waits 180 ms.
Type(q) ==
    /\ inputs < MaxInputs
    /\ ~composing
    /\ query' = q
    /\ timer' = TRUE
    /\ Invalidate
    /\ inputs' = inputs + 1
    /\ UNCHANGED <<store, request, composing, busy, page, retry, changes, faults>>

StartComposing ==
    /\ inputs < MaxInputs
    /\ ~composing
    /\ composing' = TRUE
    /\ timer' = FALSE
    /\ Invalidate
    /\ inputs' = inputs + 1
    /\ UNCHANGED <<store, request, query, busy, page, retry, changes, faults>>

EndComposing(q) ==
    /\ composing
    /\ composing' = FALSE
    /\ query' = q
    /\ timer' = TRUE
    /\ Invalidate
    /\ UNCHANGED <<store, request, busy, page, retry, counts>>

\* The 180 ms are over.
Debounced(r) ==
    /\ timer /\ NextFree(r)
    /\ Ask(r, query, NoCursor, FALSE, FALSE, request)
    /\ UNCHANGED <<store, query, composing, page, wanted, counts>>

\* A filter, the submit key, a chip or a reset: the search starts at once.
ChangeConditions(q, r) ==
    /\ inputs < MaxInputs
    /\ inputs' = inputs + 1
    /\ query' = q
    /\ wanted' = 0
    /\ \/ composing /\ newest' = NoRequest /\ UNCHANGED <<request, timer, busy, retry>>
       \/ ~composing /\ NextFree(r) /\ Ask(r, q, NoCursor, FALSE, FALSE, request)
    /\ UNCHANGED <<store, composing, page, changes, faults>>

\* The page opens without results of its own, or comes back to be restored.
Open(r) ==
    /\ screen = "start" /\ newest = NoRequest /\ ~timer /\ ~composing
    /\ NextFree(r)
    /\ Ask(r, query, NoCursor, FALSE, FALSE, request)
    /\ UNCHANGED <<store, query, composing, page, wanted, counts>>

\* The button for the next page: its cursor may be that of older conditions.
More(r) ==
    /\ inputs < MaxInputs
    /\ "more" \in buttons /\ cursor # NoCursor
    /\ ~composing /\ NextFree(r)
    /\ Ask(r, query, cursor, TRUE, FALSE, request)
    /\ inputs' = inputs + 1
    /\ UNCHANGED <<store, query, composing, page, wanted, changes, faults>>

\* The button of an alert, which stays under a list after a retry that went well.
Retry(r) ==
    /\ inputs < MaxInputs
    /\ "retry" \in buttons
    /\ ~composing /\ NextFree(r)
    /\ Ask(r, query, retry, retry # NoCursor, FALSE, request)
    /\ inputs' = inputs + 1
    /\ UNCHANGED <<store, query, composing, page, wanted, changes, faults>>

\* sequence === searchSequence
AnyAnswer(r) == TRUE
Latest(r) == r = newest

\* The search is over: no fetch is the latest, the list is no longer busy.
OverStillBusy == newest' = NoRequest /\ UNCHANGED busy
Over == newest' = NoRequest /\ busy' = FALSE

Dropped(r) == [request EXCEPT ![r] = Idle]

\* A given-up fetch ends, aborted or answered, and nothing comes of it.
Ignore(r) ==
    /\ request[r].pc # "idle" /\ ~Latest(r)
    /\ request' = Dropped(r)
    /\ UNCHANGED <<store, form, newest, busy, page, retry, wanted, counts>>

\* SEARCH_CURSOR_STALE: once more from the first page.
StartAgain(r) ==
    /\ request[r].pc = "answered" /\ Latest(r)
    /\ request[r].kind = "stale" /\ ~request[r].again
    /\ Ask(r, query, NoCursor, FALSE, TRUE, Dropped(r))
    /\ UNCHANGED <<store, query, composing, page, wanted, counts>>

\* renderError replaces the list on screen; for a next page that did not come the
\* list stays, with an alert under it.
Failed(r) == request[r].kind = "failed" \/ (request[r].kind = "stale" /\ request[r].again)

ShowError(r) ==
    /\ request[r].pc = "answered" /\ Latest(r)
    /\ Failed(r)
    /\ screen' = IF request[r].append THEN screen ELSE "error"
    /\ buttons' = {"retry"}
    /\ request' = Dropped(r)
    /\ Over
    /\ UNCHANGED <<store, form, shown, cursor, shownFor, drift, retry, wanted, counts>>

\* renderPayload, and the next page at once while the page left earlier is being
\* restored.
Appended(r) == IF request[r].append THEN shown \o request[r].items ELSE request[r].items
Restoring(r) ==
    /\ request[r].next # NoCursor
    /\ Len(Appended(r)) < wanted
    /\ request[r].items # <<>>

\* A new page brings its button; an alert with its own goes with the list only.
ButtonsAfter(r) ==
    (IF request[r].append THEN buttons \ {"more"} ELSE {})
        \cup (IF request[r].next # NoCursor /\ Appended(r) # <<>> THEN {"more"} ELSE {})

Render(r) ==
    /\ request[r].pc = "answered" /\ Latest(r)
    /\ request[r].kind = "ok"
    /\ shown' = Appended(r)
    /\ cursor' = request[r].next
    /\ screen' = "results"
    /\ buttons' = ButtonsAfter(r)
    /\ shownFor' = request[r].query
    /\ drift' = request[r].drift
    /\ IF Restoring(r)
         THEN /\ request' = [request EXCEPT ![r] =
                    [Begin(r, query, request[r].next, TRUE, FALSE) EXCEPT !.drift = request[r].drift]]
              /\ newest' = r
              /\ retry' = request[r].next
              /\ UNCHANGED <<busy, wanted>>
         ELSE /\ request' = Dropped(r)
              /\ Over
              /\ wanted' = 0
              /\ UNCHANGED retry
    /\ UNCHANGED <<store, form, counts>>

ServerStep(r) ==
    \/ Check(r) \/ FromCore(r) \/ CountNamed(r) \/ ReadNamed(r)
    \/ Count(r) \/ Rank(r) \/ ReadCore(r)
Receive(r) == StartAgain(r) \/ ShowError(r) \/ Render(r)

Next ==
    \/ \E d \in Docs : DrainDocument(d) \/ \E rank \in Ranks : ChangeDocument(d, rank)
    \/ RemoveSamples \/ EndRebuild
    \/ \E rank \in [Docs \ Seeds -> Ranks] : EndLoad(rank) \/ LoadAtOnce(rank)
    \/ StartComposing
    \/ \E q \in Conditions :
        \/ Type(q) \/ EndComposing(q)
        \/ \E r \in Requests : ChangeConditions(q, r)
    \/ \E r \in Requests :
        \/ ServerStep(r) \/ Fail(r) \/ Ignore(r) \/ Receive(r)
        \/ Open(r) \/ Debounced(r) \/ More(r) \/ Retry(r)

Spec == Init /\ [][Next]_vars

\* The latest fetch ends in one way or another and is handled, one given up ends as
\* well, a timer fires; what the user does is not assumed.
Fairness ==
    /\ WF_vars(\E r \in Requests : Latest(r) /\ (ServerStep(r) \/ Receive(r)))
    /\ WF_vars(\E r \in Requests : Ignore(r))
    /\ WF_vars(\E r \in Requests : Open(r) \/ Debounced(r))

FairSpec == Spec /\ Fairness

-----------------------------------------------------------------------------
(* Properties *)

\* When the screen rests with results and no alert stands under them, they are those
\* of the conditions in the form, whatever answers of earlier searches came late.
\* (With the alert of a next page that did not come they may be those of before.)
ShownFits ==
    ~busy /\ ~timer /\ ~composing /\ screen = "results" /\ "retry" \notin buttons
        => shownFor = query

\* A document that has not matched at any time since the search was begun is not
\* in its answer, although the projection may still list it.
AnswersAreCurrent ==
    \A r \in Requests : request[r].pc = "answered" =>
        ToSet(request[r].items) \cap request[r].gone = {}

\* A page is appended only to a list of which nothing had changed when the page was
\* begun, except that the first chunk of a load may have removed the samples.
PagesOfOneLedger ==
    \A r \in Requests : request[r].pc # "idle" => ~request[r].late

\* A search that has begun comes to rest, unless the user is composing.
SearchRests == busy ~> (~busy \/ composing)
=============================================================================
