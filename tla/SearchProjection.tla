-------------------------- MODULE SearchProjection --------------------------
(***************************************************************************)
(* The search projection of the document archive and its maintenance       *)
(* (cloudflare-app/src/domains/search/infrastructure/projection.js and the *)
(* triggers of migrations 0048 and 0050).                                  *)
(*                                                                         *)
(* Documents live in the core tables; search reads a derived copy, the     *)
(* projection, and a full-text index over it.  SQL triggers only mark a    *)
(* document dirty.  Requests and the cron drain the dirty rows: they read  *)
(* the rows, read the documents, and in one transaction write the          *)
(* projection and delete the rows, which aborts when a row has changed.    *)
(* The cron also walks all documents in id order to rebuild the projection *)
(* after a bulk change made with the triggers suppressed.  No lease keeps  *)
(* two workers apart, so every read and every transaction is one step.     *)
(*                                                                         *)
(* A document's searchable text is one value; Absent stands for a document *)
(* that is not in the current ledger (never created, excluded, deleted).   *)
(***************************************************************************)
EXTENDS Naturals, FiniteSets

CONSTANTS
    Docs,         \* document ids; the reindex walks them in increasing order
    Seeds,        \* the sample documents that the bootstrap load replaces
    Text,         \* what the projection stores of a current document
    Absent,       \* no current document, or no projection row
    Drainers,     \* requests and cron runs that drain dirty rows
    Reindexers,   \* cron runs that rebuild the projection
    Chunk,        \* FREE_TIER_BUDGET.searchRebuildChunkSize
    DrainLimit,   \* rows one drain reads
    MaxFirings,   \* bound: trigger firings of one transaction for one document
    MaxChanges,   \* bound: committed document transactions
    MaxFaults     \* bound: failed batches and lost workers

ASSUME DocsAssumption == Docs \subseteq Nat \ {0} /\ IsFiniteSet(Docs)
ASSUME SeedsAssumption == Seeds \subseteq Docs
ASSUME AbsentAssumption == Absent \notin Text
ASSUME WorkersAssumption == Drainers \cap Reindexers = {}
ASSUME BoundsAssumption ==
    /\ Chunk \in Nat \ {0} /\ DrainLimit \in Nat \ {0}
    /\ MaxFirings \in Nat \ {0} /\ MaxChanges \in Nat /\ MaxFaults \in Nat

Workers == Drainers \cup Reindexers
Content == Text \cup {Absent}

VARIABLES
    source,      \* documents joined with tags and references, as the SELECT sees them
    bootstrap,   \* "none", "staging" (scheduled load between chunks), "done"
    projection,  \* search_projection_documents
    fts,         \* search_projection_fts: the texts indexed under each rowid
    dirty,       \* search_projection_dirty.event_version, 0 when there is no row
    available,   \* available_at <= now
    status,      \* search_projection_state.reindex_status
    cursor,      \* search_projection_state.reindex_cursor
    pc,          \* what each worker does next
    todo,        \* documents a worker has read and not yet written
    entry,       \* event versions a drainer has read
    payload,     \* contents a worker has read
    seen,        \* the cursor a reindexer has read
    changes,     \* document transactions so far
    faults,      \* faults so far
    \* History variables: they guard no step.
    tainted,     \* documents for which a worker's read has lost its protection
    exposed,     \* documents last written from such a read
    unindexed,   \* documents changed behind the triggers and not written since
    lapped,      \* reindexers that read the state before the last restart of the walk
    crossed      \* such a reindexer has moved the cursor of the new walk

store == <<source, bootstrap, projection, fts, dirty, available, status, cursor>>
local == <<pc, todo, entry, payload, seen>>
history == <<tainted, exposed, unindexed, lapped, crossed>>
vars == <<source, bootstrap, projection, fts, dirty, available, status, cursor,
          pc, todo, entry, payload, seen, changes, faults,
          tainted, exposed, unindexed, lapped, crossed>>

Nothing == [d \in Docs |-> Absent]
NoRows == [d \in Docs |-> 0]

(* A deployed database: either the projection tables have just been created *)
(* over existing documents, or a finished reindex has caught up with them.  *)
Init ==
    /\ source \in [Docs -> Content]
    /\ bootstrap = "none"
    /\ \/ projection = Nothing /\ status = "pending" /\ unindexed = Docs
       \/ projection = source /\ status = "ready" /\ unindexed = {}
    /\ fts = [d \in Docs |-> {projection[d]} \ {Absent}]
    /\ dirty = NoRows
    /\ available = [d \in Docs |-> TRUE]
    /\ cursor = 0
    /\ pc = [w \in Workers |-> "idle"]
    /\ todo = [w \in Workers |-> {}]
    /\ entry = [w \in Workers |-> NoRows]
    /\ payload = [w \in Workers |-> Nothing]
    /\ seen = [w \in Workers |-> 0]
    /\ changes = 0
    /\ faults = 0
    /\ tainted = [w \in Workers |-> {}]
    /\ exposed = {}
    /\ lapped = {}
    /\ crossed = FALSE

Current == {d \in Docs : source[d] # Absent}

-----------------------------------------------------------------------------
(* What the steps are made of *)

\* INSERT ... ON CONFLICT DO UPDATE of the triggers, fired n times for each
\* document of D: a new row starts at version 1, an existing one moves on, and
\* either way the row becomes available at once.
BumpedIgnoringConflict(D, n) ==
    [d \in Docs |-> IF d \in D /\ dirty[d] = 0 THEN n ELSE dirty[d]]
Bumped(D, n) == [d \in Docs |-> IF d \in D THEN dirty[d] + n ELSE dirty[d]]
MadeAvailable(D) == [d \in Docs |-> d \in D \/ available[d]]

\* The reads of the workers in W lose their protection for the documents of D.
Taint(W, D) ==
    [w \in Workers |-> IF w \in W THEN tainted[w] \cup (D \cap todo[w]) ELSE tainted[w]]

\* The statements of projectionWritePlan that touch the index: the old text of
\* each row is taken out of the external-content index before the row changes,
\* the new one is put in after.
FtsDeletedByNewText(D, new) ==
    [d \in Docs |-> IF d \in D THEN (fts[d] \ {new[d]}) \cup ({new[d]} \ {Absent}) ELSE fts[d]]
FtsOfRemoved(D, new) ==
    [d \in Docs |-> IF d \in D THEN (fts[d] \ {projection[d]}) \cup {new[d]} ELSE fts[d]]
FtsAfterWrite(D, new) ==
    [d \in Docs |-> IF d \in D THEN (fts[d] \ {projection[d]}) \cup ({new[d]} \ {Absent}) ELSE fts[d]]
Written(D, new) == [d \in Docs |-> IF d \in D THEN new[d] ELSE projection[d]]

\* projectionWritePlan for the documents of D from what worker w has read.
WriteProjection(w, D) ==
    /\ projection' = Written(D, payload[w])
    /\ fts' = FtsAfterWrite(D, payload[w])
    /\ exposed' = (exposed \ D) \cup (D \cap tainted[w])
    /\ unindexed' = unindexed \ D

\* A worker forgets what it has read.
Forget(w) ==
    /\ pc' = [pc EXCEPT ![w] = "idle"]
    /\ todo' = [todo EXCEPT ![w] = {}]
    /\ entry' = [entry EXCEPT ![w] = NoRows]
    /\ payload' = [payload EXCEPT ![w] = Nothing]
    /\ seen' = [seen EXCEPT ![w] = 0]

Rest(w) == Forget(w) /\ tainted' = [tainted EXCEPT ![w] = {}] /\ lapped' = lapped \ {w}

-----------------------------------------------------------------------------
(* Document transactions.  The capacity and bootstrap-lock triggers abort   *)
(* every one of them while a scheduled bootstrap load is under way.         *)

\* A document is inserted, updated, retagged, excluded, re-included or deleted:
\* each document and tag trigger that fires bumps its dirty row.
ChangeDocument(d, text, n) ==
    /\ bootstrap # "staging"
    /\ changes < MaxChanges
    /\ source' = [source EXCEPT ![d] = text]
    /\ dirty' = Bumped({d}, n)
    /\ available' = MadeAvailable({d})
    /\ changes' = changes + 1
    /\ tainted' = Taint(Reindexers, {d})
    /\ UNCHANGED <<bootstrap, projection, fts, status, cursor, local, faults,
                   exposed, unindexed, lapped, crossed>>

\* A category, tag, rack or slot is renamed: the triggers mark the current
\* documents that carry it.
RenameReference(D, text) ==
    /\ bootstrap # "staging"
    /\ changes < MaxChanges
    /\ D # {} /\ D \subseteq Current
    /\ source' = [d \in Docs |-> IF d \in D THEN text[d] ELSE source[d]]
    /\ dirty' = Bumped(D, 1)
    /\ available' = MadeAvailable(D)
    /\ changes' = changes + 1
    /\ tainted' = Taint(Reindexers, D)
    /\ UNCHANGED <<bootstrap, projection, fts, status, cursor, local, faults,
                   exposed, unindexed, lapped, crossed>>

-----------------------------------------------------------------------------
(* The one bootstrap load.  It runs with the derived triggers suppressed,   *)
(* so no row becomes dirty, and asks for a full reindex instead.            *)

\* The reindex starts again from the first document.
RestartReindex ==
    /\ status' = "pending"
    /\ cursor' = 0
    /\ lapped' = {w \in Reindexers : pc[w] # "idle"}

SilentChange(D) ==
    /\ tainted' = Taint(Workers, D)
    /\ unindexed' = unindexed \cup D
    /\ UNCHANGED <<projection, fts, dirty, available, local, changes, faults, exposed, crossed>>

\* Ids are never reused: the loaded documents come after the sample ones.
LoadedIds == {D \in SUBSET Docs : D # {} /\ \A d \in D, s \in Seeds : s < d}

\* A load of at most bootstrapApplyScheduleThreshold documents, in one batch.
BootstrapApply(D, text) ==
    /\ bootstrap = "none" /\ Current = Seeds /\ Seeds # {}
    /\ D \in LoadedIds
    /\ bootstrap' = "done"
    /\ source' = [d \in Docs |-> IF d \in D THEN text[d] ELSE Absent]
    /\ RestartReindex
    /\ SilentChange(D \cup Seeds)

\* A longer load: the first cron chunk deletes the samples and inserts hidden
\* documents; further chunks insert more hidden ones.
BootstrapFirstChunk ==
    /\ bootstrap = "none" /\ Current = Seeds /\ Seeds # {}
    /\ bootstrap' = "staging"
    /\ source' = [d \in Docs |-> Absent]
    /\ SilentChange(Seeds)
    /\ UNCHANGED <<status, cursor, lapped>>

\* The last cron run makes the hidden documents current.
BootstrapFinalize(D, text) ==
    /\ bootstrap = "staging"
    /\ D \in LoadedIds
    /\ bootstrap' = "done"
    /\ source' = [d \in Docs |-> IF d \in D THEN text[d] ELSE source[d]]
    /\ RestartReindex
    /\ SilentChange(D)

-----------------------------------------------------------------------------
(* drainSearchProjectionDirty *)

Readable == {d \in Docs : dirty[d] > 0 /\ available[d]}

\* readDirtyEntries: a request asks for the documents it has changed, the cron
\* for the rows that have waited longest.
DrainRead(w, D) ==
    /\ pc[w] = "idle"
    /\ D # {} /\ D \subseteq Readable /\ Cardinality(D) <= DrainLimit
    /\ pc' = [pc EXCEPT ![w] = "source"]
    /\ todo' = [todo EXCEPT ![w] = D]
    /\ entry' = [entry EXCEPT ![w] = [d \in Docs |-> IF d \in D THEN dirty[d] ELSE 0]]
    /\ UNCHANGED <<store, payload, seen, changes, faults, history>>

\* readProjectionSourceDocuments: a document that is not current is absent.
DrainSource(w) ==
    /\ pc[w] = "source"
    /\ pc' = [pc EXCEPT ![w] = "drain"]
    /\ payload' = [payload EXCEPT ![w] = [d \in Docs |-> IF d \in todo[w] THEN source[d] ELSE Absent]]
    /\ UNCHANGED <<store, todo, entry, seen, changes, faults, history>>

\* dirty.clear and its count assertion: every row read is still at its version.
EntriesPresent(w, D) == \A d \in D : dirty[d] > 0
EntriesUnchanged(w, D) == \A d \in D : dirty[d] = entry[w][d]

\* One batch of the drain.  splitPayloadChunks may cut a large drain into
\* several batches, so D is some part of what is left.
DrainCommit(w, D) ==
    /\ pc[w] = "drain"
    /\ D # {} /\ D \subseteq todo[w]
    /\ EntriesUnchanged(w, D)
    /\ WriteProjection(w, D)
    /\ dirty' = [d \in Docs |-> IF d \in D THEN 0 ELSE dirty[d]]
    /\ available' = MadeAvailable(D)
    /\ IF D = todo[w]
         THEN /\ Forget(w)
              /\ tainted' = [Taint(Drainers, D) EXCEPT ![w] = {}]
         ELSE /\ todo' = [todo EXCEPT ![w] = @ \ D]
              /\ tainted' = [Taint(Drainers, D) EXCEPT ![w] = tainted[w] \ D]
              /\ UNCHANGED <<pc, entry, payload, seen>>
    /\ UNCHANGED <<source, bootstrap, status, cursor, changes, faults, lapped, crossed>>

\* The assertion rolls the batch back; the rows stay for the next drain.
DrainAbort(w, D) ==
    /\ pc[w] = "drain"
    /\ D # {} /\ D \subseteq todo[w]
    /\ ~EntriesUnchanged(w, D)
    /\ Rest(w)
    /\ UNCHANGED <<store, changes, faults, exposed, unindexed, crossed>>

\* The batch fails for another reason: markDirtyFailure puts off the rows that
\* are still at the version read.
DrainFail(w) ==
    /\ pc[w] = "drain"
    /\ faults < MaxFaults
    /\ faults' = faults + 1
    /\ available' = [d \in Docs |-> available[d] /\ ~(dirty[d] > 0 /\ dirty[d] = entry[w][d])]
    /\ Rest(w)
    /\ UNCHANGED <<source, bootstrap, projection, fts, dirty, status, cursor, changes,
                   exposed, unindexed, crossed>>

\* Five minutes later the row is due again.
BackoffExpires(d) ==
    /\ ~available[d]
    /\ available' = [available EXCEPT ![d] = TRUE]
    /\ UNCHANGED <<source, bootstrap, projection, fts, dirty, status, cursor, local, changes,
                   faults, history>>

-----------------------------------------------------------------------------
(* reindexSearchProjectionChunk *)

\* getSearchProjectionState: nothing to do when the projection is ready.
ReindexRead(w) ==
    /\ pc[w] = "idle"
    /\ status # "ready"
    /\ pc' = [pc EXCEPT ![w] = IF status = "pending" THEN "claim" ELSE "scan"]
    /\ seen' = [seen EXCEPT ![w] = cursor]
    /\ UNCHANGED <<store, todo, entry, payload, changes, faults, history>>

\* The compare-and-set guards of the state row.
PendingAtSeen(w) == status = "pending" /\ cursor = seen[w]
BuildingAnywhere(w) == status = "building"
BuildingAtSeen(w) == status = "building" /\ cursor = seen[w]

\* claimProjectionReindex
ReindexClaim(w) ==
    /\ pc[w] = "claim"
    /\ PendingAtSeen(w)
    /\ status' = "building"
    /\ cursor' = 0
    /\ pc' = [pc EXCEPT ![w] = "scan"]
    /\ seen' = [seen EXCEPT ![w] = 0]
    /\ lapped' = lapped \ {w}
    /\ UNCHANGED <<source, bootstrap, projection, fts, dirty, available, todo, entry, payload,
                   changes, faults, tainted, exposed, unindexed, crossed>>

\* projectionSourceSelect({ after: true }): current documents past the cursor.
RemainingSkippingOne(c) == {d \in Current : d > c + 1}
Remaining(c) == {d \in Current : d > c}

\* ORDER BY d.id LIMIT: the next Chunk documents, or all that remain.
NextChunks(c) ==
    {D \in SUBSET Remaining(c) :
        /\ \A d \in D, r \in Remaining(c) \ D : d < r
        /\ Cardinality(D) = Chunk \/ D = Remaining(c)
        /\ Cardinality(D) <= Chunk}

ReindexScan(w) ==
    /\ pc[w] = "scan"
    /\ IF Remaining(seen[w]) = {}
         THEN /\ pc' = [pc EXCEPT ![w] = "finalize"]
              /\ UNCHANGED <<todo, payload>>
         ELSE \E D \in NextChunks(seen[w]) :
              /\ pc' = [pc EXCEPT ![w] = "rewrite"]
              /\ todo' = [todo EXCEPT ![w] = D]
              /\ payload' = [payload EXCEPT ![w] =
                                [d \in Docs |-> IF d \in D THEN source[d] ELSE Absent]]
    /\ UNCHANGED <<store, entry, seen, changes, faults, history>>

\* A batch of the chunk.  It has no dirty entries, hence no guard at all.
ReindexWrite(w, D) ==
    /\ pc[w] = "rewrite"
    /\ D # {} /\ D \subseteq todo[w]
    /\ WriteProjection(w, D)
    /\ todo' = [todo EXCEPT ![w] = @ \ D]
    /\ pc' = [pc EXCEPT ![w] = IF D = todo[w] THEN "advance" ELSE "rewrite"]
    /\ tainted' = [tainted EXCEPT ![w] = @ \ D]
    /\ UNCHANGED <<source, bootstrap, dirty, available, status, cursor, entry, payload, seen,
                   changes, faults, lapped, crossed>>

\* nextCursor: the largest id of the chunk.
NextCursor(w, d) ==
    /\ payload[w][d] # Absent
    /\ \A e \in Docs : payload[w][e] # Absent => e <= d

\* advanceProjectionReindexCursor
ReindexAdvance(w) ==
    /\ pc[w] = "advance"
    /\ BuildingAtSeen(w)
    /\ \E d \in Docs : NextCursor(w, d) /\ cursor' = d
    /\ Rest(w)
    /\ crossed' = (crossed \/ w \in lapped)
    /\ UNCHANGED <<source, bootstrap, projection, fts, dirty, available, status, changes, faults,
                   exposed, unindexed>>

\* finalizeProjectionReindex removes the rows of documents that are not current.
SweptIfDirty == {d \in Docs : source[d] = Absent \/ dirty[d] > 0}
Swept == {d \in Docs : source[d] = Absent}

ReindexFinalize(w) ==
    /\ pc[w] = "finalize"
    /\ BuildingAtSeen(w)
    /\ projection' = Written(Swept, Nothing)
    /\ fts' = FtsAfterWrite(Swept, Nothing)
    /\ status' = "ready"
    /\ cursor' = 0
    /\ Rest(w)
    /\ exposed' = exposed \ Swept
    /\ unindexed' = unindexed \ Swept
    /\ crossed' = (crossed \/ w \in lapped)
    /\ UNCHANGED <<source, bootstrap, dirty, available, changes, faults>>

\* The compare-and-set finds another state: the run ends without effect.
ReindexConflict(w) ==
    /\ \/ pc[w] = "claim" /\ ~PendingAtSeen(w)
       \/ pc[w] \in {"advance", "finalize"} /\ ~BuildingAtSeen(w)
    /\ Rest(w)
    /\ UNCHANGED <<store, changes, faults, exposed, unindexed, crossed>>

\* A request or cron run ends between two of its statements: the runtime stops
\* it, or a batch of the reindex throws.
WorkerLost(w) ==
    /\ pc[w] # "idle"
    /\ faults < MaxFaults
    /\ faults' = faults + 1
    /\ Rest(w)
    /\ UNCHANGED <<store, changes, exposed, unindexed, crossed>>

-----------------------------------------------------------------------------
DocumentStep ==
    \/ \E d \in Docs, text \in Content, n \in 1..MaxFirings : ChangeDocument(d, text, n)
    \/ \E D \in SUBSET Docs : \E text \in [D -> Text] : RenameReference(D, text)

BootstrapStep ==
    \/ BootstrapFirstChunk
    \/ \E D \in SUBSET Docs : \E text \in [D -> Text] :
            BootstrapApply(D, text) \/ BootstrapFinalize(D, text)

DrainStep(w) ==
    \/ \E D \in SUBSET Docs : DrainRead(w, D) \/ DrainCommit(w, D) \/ DrainAbort(w, D)
    \/ DrainSource(w)
    \/ DrainFail(w)

ReindexStep(w) ==
    \/ ReindexRead(w) \/ ReindexClaim(w) \/ ReindexScan(w)
    \/ \E D \in SUBSET Docs : ReindexWrite(w, D)
    \/ ReindexAdvance(w) \/ ReindexFinalize(w) \/ ReindexConflict(w)

Next ==
    \/ DocumentStep
    \/ BootstrapStep
    \/ \E w \in Drainers : DrainStep(w)
    \/ \E w \in Reindexers : ReindexStep(w)
    \/ \E d \in Docs : BackoffExpires(d)
    \/ \E w \in Workers : WorkerLost(w)

Spec == Init /\ [][Next]_vars

\* The cron fires every five minutes, so work that stays possible is done; it
\* takes dirty rows oldest first, so no row is passed over for ever; a run that
\* the runtime does not stop goes on to its end.
Fairness ==
    /\ \A d \in Docs :
        /\ WF_vars(BackoffExpires(d))
        /\ SF_vars(\E w \in Drainers, D \in SUBSET Docs : d \in D /\ DrainRead(w, D))
    /\ \A w \in Drainers :
        /\ WF_vars(DrainSource(w))
        /\ WF_vars(DrainCommit(w, todo[w]) \/ DrainAbort(w, todo[w]))
    /\ \A w \in Reindexers : WF_vars(ReindexStep(w))
    /\ WF_vars(\E D \in SUBSET Docs : \E text \in [D -> Text] : BootstrapFinalize(D, text))

FairSpec == Spec /\ Fairness

-----------------------------------------------------------------------------
(* Properties *)

Fresh(d) == projection[d] = source[d]
Dirty(d) == dirty[d] > 0

\* Every variable stays within its type.
TypeOK ==
    /\ source \in [Docs -> Content]
    /\ bootstrap \in {"none", "staging", "done"}
    /\ projection \in [Docs -> Content]
    /\ fts \in [Docs -> SUBSET Text]
    /\ dirty \in [Docs -> Nat]
    /\ available \in [Docs -> BOOLEAN]
    /\ status \in {"pending", "building", "ready"}
    /\ cursor \in Docs \cup {0}
    /\ pc \in [Workers -> {"idle", "source", "drain", "claim", "scan", "rewrite", "advance",
                           "finalize"}]
    /\ todo \in [Workers -> SUBSET Docs]
    /\ entry \in [Workers -> [Docs -> Nat]]
    /\ payload \in [Workers -> [Docs -> Content]]
    /\ seen \in [Workers -> Docs \cup {0}]
    /\ changes \in 0..MaxChanges
    /\ faults \in 0..MaxFaults
    /\ tainted \in [Workers -> SUBSET Docs]
    /\ exposed \subseteq Docs
    /\ unindexed \subseteq Docs
    /\ lapped \subseteq Reindexers
    /\ crossed \in BOOLEAN

\* The external-content index never keeps a text the projection row has lost
\* and never misses the one it has (the order of projectionWritePlan).
FtsMatchesProjection == \A d \in Docs : fts[d] = {projection[d]} \ {Absent}

\* What a worker has read and can still write is current: for a drainer because
\* any later change has moved the row's version on, so that the batch would
\* abort; for a reindexer, which nothing checks, only while the document rests.
ReadsProtected ==
    /\ \A w \in Drainers : \A d \in todo[w] \ tainted[w] :
        /\ dirty[d] >= entry[w][d]
        /\ pc[w] = "drain" /\ dirty[d] = entry[w][d] => payload[w][d] = source[d]
    /\ \A w \in Reindexers : \A d \in todo[w] \ tainted[w] : payload[w][d] = source[d]

\* The version check on dirty rows does its work: a row of the projection that
\* is neither fresh nor queued was changed behind the triggers and not written
\* since, or was last written from a read the check could not protect, because
\* the reindex does not use it or because the row it had read was cleared and
\* queued anew by others.
FreshOrDirty == \A d \in Docs \ (exposed \cup unindexed) : Fresh(d) \/ Dirty(d)

\* When the walk is over, it has covered every document: after a bulk change,
\* "ready" again means that search misses nothing, unless a run of the earlier
\* walk moved the cursor of the new one.
ReadyMeansSearchable ==
    status = "ready" /\ bootstrap # "staging" /\ ~crossed =>
        \A d \in Docs \ exposed : Fresh(d) \/ Dirty(d)

\* The claim of the module comment and of ARCHITECTURE.md, without qualification.
NeverStaleAndClean ==
    status = "ready" /\ bootstrap # "staging" => \A d \in Docs : Fresh(d) \/ Dirty(d)

\* A rebuild works in place: a document of the current ledger that search can
\* find never drops out of the projection.
NeverUnlisted ==
    [][\A d \in Docs : projection[d] # Absent /\ projection'[d] = Absent =>
            source[d] = Absent \/ d \in exposed']_vars

\* While one walk lasts its cursor never goes back, whatever runs overlap.
CursorNeverGoesBack ==
    [][status = "building" /\ status' = "building" => cursor' >= cursor]_vars

\* Once documents and the platform stop changing, every dirty row is drained,
\* the walk comes to its end, and search shows every document as it is, except
\* for the documents written from an unprotected read.
EventuallyIndexed ==
    <>[](/\ status = "ready"
         /\ \A d \in Docs : ~Dirty(d) /\ (Fresh(d) \/ d \in exposed \/ crossed))
=============================================================================
