---------------------------- MODULE BootstrapLoad ----------------------------
(***************************************************************************)
(* The one load of a whole ledger from a workbook                          *)
(* (cloudflare-app/src/domains/snapshots/infrastructure/bootstrapApply.js, *)
(* the bootstrap branches of apply.js and applyPlan.js).                   *)
(*                                                                         *)
(* The new installation holds two sample documents.  A small workbook      *)
(* replaces them in one batch; a large one is scheduled, and cron loads it *)
(* in daily chunks of hidden rows and publishes them together at the end.  *)
(* A cron run claims the load with a lease, since runs may overlap, fail   *)
(* or die; triggers keep everybody else out of the ledger meanwhile.       *)
(***************************************************************************)
EXTENDS Naturals

CONSTANTS
    Runs,        \* cron runs that may overlap
    NoRun,       \* bootstrap_processing_token IS NULL
    Appliers,    \* requests of administrators to apply the workbook
    MaxRows,     \* bound: rows of the workbook
    Chunk,       \* FREE_TIER_BUDGET.bootstrapApplyChunkSize
    Threshold,   \* FREE_TIER_BUDGET.bootstrapApplyScheduleThreshold
    MaxNames,    \* bound: categories that the workbook names for the first time
    MaxWrites,   \* bound: documents that others add
    MaxFaults    \* bound: batches that fail, runs that die or outlast their lease

ASSUME BootstrapAssumption ==
    /\ NoRun \notin Runs
    /\ MaxRows \in Nat \ {0} /\ Chunk \in Nat \ {0} /\ Threshold \in Nat
    /\ MaxNames \in Nat /\ MaxWrites \in Nat /\ MaxFaults \in Nat

Samples == 2
BaseEdition == 1

VARIABLES
    total,     \* document_snapshots.total_count
    stage,     \* document_snapshots.status
    progress,  \* bootstrap_progress_count
    token,     \* bootstrap_processing_token
    stale,     \* bootstrap_last_processed_at is 30 minutes ago
    due,       \* bootstrap_next_run_at has passed
    samples,   \* sample documents in the table
    row,       \* the document of each row of the workbook
    added,     \* documents that others have added
    edition,   \* document_sync_state.current_version
    counted,   \* document_capacity_state.current_document_count
    at,        \* what each administrator's request does next
    pc,        \* what each cron run does next
    seen,      \* the progress that a run has read
    faults

workbook == <<total, stage, progress, token, stale, due>>
documents == <<samples, row, added, edition, counted>>
vars == <<workbook, documents, at, pc, seen, faults>>

Published == {i \in 1..MaxRows : row[i] = "current"}
Loaded == {i \in 1..MaxRows : row[i] # "absent"}

Init ==
    /\ total \in 1..MaxRows
    /\ stage = "ready" /\ progress = 0 /\ token = NoRun /\ stale = FALSE /\ due = FALSE
    /\ samples = Samples /\ row = [i \in 1..MaxRows |-> "absent"]
    /\ added = 0 /\ edition = BaseEdition /\ counted = Samples
    /\ at = [a \in Appliers |-> "idle"]
    /\ pc = [r \in Runs |-> "idle"]
    /\ seen = [r \in Runs |-> 0]
    /\ faults = 0

-----------------------------------------------------------------------------
(* applyDocumentSnapshot with mode = 'bootstrap' *)

ApplyRead(a) ==
    /\ at[a] = "idle"
    /\ stage = "ready"
    /\ at' = [at EXCEPT ![a] = "checks"]
    /\ UNCHANGED <<workbook, documents, pc, seen, faults>>

\* The samples alone make up the ledger, at the edition of the workbook.
ApplyCheck(a) ==
    /\ at[a] = "checks"
    /\ at' = [at EXCEPT ![a] =
                IF samples # Samples \/ added + Samples # Samples \/ Published # {}
                    \/ edition # BaseEdition THEN "stale"
                ELSE IF total > Threshold THEN "schedule" ELSE "load"]
    /\ UNCHANGED <<workbook, documents, pc, seen, faults>>

\* scheduleBootstrapApplication: one guarded UPDATE.
Schedule(a) ==
    /\ at[a] = "schedule"
    /\ IF stage = "ready" /\ edition = BaseEdition
         THEN stage' = "applying" /\ due' = FALSE
         ELSE UNCHANGED <<stage, due>>
    /\ at' = [at EXCEPT ![a] = "done"]
    /\ UNCHANGED <<total, progress, token, stale, documents, pc, seen, faults>>

\* autoCategoryInsertStatement: each new category raises the edition
\* (trg_category_sync_version_insert).
NewNames == 0..MaxNames

\* buildApplyStatements for a workbook that one batch can hold.
LoadAtOnce(a) ==
    /\ at[a] = "load"
    /\ IF stage = "ready" /\ edition = BaseEdition /\ samples + added = Samples
         THEN /\ stage' = "completed"
              /\ samples' = 0
              /\ row' = [i \in 1..MaxRows |-> IF i <= total THEN "current" ELSE "absent"]
              /\ counted' = (counted - Samples) + total
              /\ \E n \in NewNames : edition' = edition + n + 1
              /\ at' = [at EXCEPT ![a] = "done"]
         ELSE /\ at' = [at EXCEPT ![a] = "stale"]
              /\ UNCHANGED <<stage, samples, row, counted, edition>>
    /\ UNCHANGED <<total, progress, token, stale, due, added, pc, seen, faults>>

\* markSnapshotStale
MarkStale(a) ==
    /\ at[a] = "stale"
    /\ stage' = IF stage \in {"ready", "applying"} THEN "failed" ELSE stage
    /\ at' = [at EXCEPT ![a] = "done"]
    /\ UNCHANGED <<total, progress, token, stale, due, documents, pc, seen, faults>>

-----------------------------------------------------------------------------
(* runScheduledBootstrapApplication *)

NeverClaimed == token = NoRun
Unclaimed == token = NoRun \/ stale

DueRead(r) ==
    /\ pc[r] = "idle"
    /\ stage = "applying" /\ due /\ Unclaimed
    /\ pc' = [pc EXCEPT ![r] = "claim"]
    /\ seen' = [seen EXCEPT ![r] = progress]
    /\ UNCHANGED <<workbook, documents, at, faults>>

Claim(r) ==
    /\ pc[r] = "claim"
    /\ IF stage = "applying" /\ progress = seen[r] /\ Unclaimed
         THEN /\ token' = r /\ stale' = FALSE
              /\ pc' = [pc EXCEPT ![r] = "batch"]
         ELSE /\ UNCHANGED <<token, stale>>
              /\ pc' = [pc EXCEPT ![r] = "idle"]
    /\ UNCHANGED <<total, stage, progress, due, documents, at, seen, faults>>

\* Every statement of the batch is for the holder of the claim; the first makes
\* sure of it with an exact count.
HoldsClaim(r) == stage = "applying" /\ token = r

\* A run whose batch has come through may still be told that it has not.
Reported(r) ==
    \/ pc' = [pc EXCEPT ![r] = "idle"] /\ UNCHANGED faults
    \/ faults < MaxFaults /\ faults' = faults + 1 /\ pc' = [pc EXCEPT ![r] = "release"]

\* sync_state of a row that a chunk inserts.
Shown == "current"
Hidden == "hidden"

\* The rows up to which this chunk goes.
UpTo(r) == IF seen[r] + Chunk < total THEN seen[r] + Chunk ELSE total

\* The first chunk also removes the samples, which must be all there is, and adds
\* the categories.
ChunkCommit(r) ==
    LET upto == UpTo(r)
    IN  /\ pc[r] = "batch" /\ seen[r] < total
        /\ HoldsClaim(r) /\ progress = seen[r]
        /\ seen[r] = 0 => samples = Samples /\ added = 0
        /\ \A i \in seen[r] + 1..upto : row[i] = "absent"
        /\ IF seen[r] = 0
             THEN samples' = 0 /\ \E n \in NewNames : edition' = edition + n
             ELSE UNCHANGED <<samples, edition>>
        /\ row' = [i \in 1..MaxRows |-> IF seen[r] < i /\ i <= upto THEN Hidden ELSE row[i]]
        /\ progress' = upto
        /\ token' = NoRun /\ due' = FALSE
        /\ Reported(r)
        /\ UNCHANGED <<total, stage, stale, added, counted, at, seen>>

\* The counters stood still while the rows were loaded.
CountKept == counted
CountAnew == added + samples + total

\* The day after the last chunk: publication, counters, edition.
FinalizeCommit(r) ==
    /\ pc[r] = "batch" /\ seen[r] = total
    /\ HoldsClaim(r)
    /\ Loaded = 1..total
    /\ row' = [i \in 1..MaxRows |-> IF row[i] = "hidden" THEN "current" ELSE row[i]]
    /\ counted' = CountAnew
    /\ edition' = edition + 1
    /\ stage' = "completed" /\ token' = NoRun /\ due' = FALSE
    /\ Reported(r)
    /\ UNCHANGED <<total, progress, stale, samples, added, at, seen>>

BatchFails(r) ==
    /\ pc[r] = "batch"
    /\ \/ ~HoldsClaim(r) /\ UNCHANGED faults
       \/ faults < MaxFaults /\ faults' = faults + 1
    /\ pc' = [pc EXCEPT ![r] = "release"]
    /\ UNCHANGED <<workbook, documents, at, seen>>

\* releaseFailedClaim: the same progress again in an hour.
Release(r) ==
    /\ pc[r] = "release"
    /\ IF stage = "applying" /\ token = r
         THEN token' = NoRun /\ due' = FALSE
         ELSE UNCHANGED <<token, due>>
    /\ pc' = [pc EXCEPT ![r] = "idle"]
    /\ UNCHANGED <<total, stage, progress, stale, documents, at, seen, faults>>

RunDies(r) ==
    /\ pc[r] # "idle" /\ faults < MaxFaults
    /\ faults' = faults + 1
    /\ pc' = [pc EXCEPT ![r] = "idle"]
    /\ UNCHANGED <<workbook, documents, at, seen>>

-----------------------------------------------------------------------------
\* The next UTC day, or the hour after a failure.
TimeComes ==
    /\ stage = "applying" /\ ~due
    /\ due' = TRUE
    /\ UNCHANGED <<total, stage, progress, token, stale, documents, at, pc, seen, faults>>

\* 30 minutes after the claim; exceptionally, its run is still at work.
LeaseExpires ==
    /\ token # NoRun /\ ~stale
    /\ stale' = TRUE
    /\ IF pc[token] # "idle"
         THEN faults < MaxFaults /\ faults' = faults + 1
         ELSE UNCHANGED faults
    /\ UNCHANGED <<total, stage, progress, token, due, documents, at, pc, seen>>

\* trg_bootstrap_lock_*: no change of the ledger while a load is under way.
NeverLocked == FALSE
Locked == stage = "applying"

WriteDocument ==
    /\ ~Locked
    /\ added < MaxWrites
    /\ added' = added + 1 /\ counted' = counted + 1 /\ edition' = edition + 1
    /\ UNCHANGED <<workbook, samples, row, at, pc, seen, faults>>

ApplierStep(a) ==
    ApplyRead(a) \/ ApplyCheck(a) \/ Schedule(a) \/ LoadAtOnce(a) \/ MarkStale(a)
CronStep(r) ==
    DueRead(r) \/ Claim(r) \/ ChunkCommit(r) \/ FinalizeCommit(r) \/ BatchFails(r) \/ Release(r)
Clock == TimeComes \/ LeaseExpires

Next ==
    \/ \E a \in Appliers : ApplierStep(a)
    \/ \E r \in Runs : CronStep(r) \/ RunDies(r)
    \/ Clock
    \/ WriteDocument

Spec == Init /\ [][Next]_vars

\* Cron comes every five minutes, and the clock goes on.
FairSpec ==
    /\ Spec
    /\ \A r \in Runs : WF_vars(CronStep(r))
    /\ WF_vars(TimeComes) /\ WF_vars(LeaseExpires)

-----------------------------------------------------------------------------
(* Properties *)

\* Every variable stays within its type.
TypeOK ==
    /\ total \in 1..MaxRows /\ progress \in 0..total
    /\ stage \in {"ready", "applying", "completed", "failed"}
    /\ token \in Runs \cup {NoRun}
    /\ stale \in BOOLEAN /\ due \in BOOLEAN
    /\ samples \in {0, Samples} /\ added \in 0..MaxWrites
    /\ row \in [1..MaxRows -> {"absent", "hidden", "current"}]
    /\ edition \in Nat /\ counted \in Nat
    /\ at \in [Appliers -> {"idle", "checks", "schedule", "load", "stale", "done"}]
    /\ pc \in [Runs -> {"idle", "claim", "batch", "release"}]
    /\ seen \in [Runs -> 0..MaxRows]
    /\ faults \in 0..MaxFaults

\* Whatever runs overlap, fail after their commit or lose their lease, a load has
\* inserted exactly the rows it has counted, and shows none before it shows all.
LoadedAsCounted ==
    /\ stage = "applying" => Loaded = 1..progress /\ Published = {}
    /\ stage = "completed" => Published = 1..total /\ samples = 0

\* The counters, which nobody keeps during a load, are right before and after it.
CountersRight ==
    stage \in {"ready", "completed"} => counted = samples + added + (IF stage = "completed" THEN total ELSE 0)

\* To everybody else the load, over days and whatever runs, is one step from the
\* ledger of the edition that it was scheduled at; nobody else adds to that ledger
\* meanwhile.
Promise == INSTANCE OneLoad WITH rows <- 1..total, shown <- Published
ImplementsOneLoad == Promise!Spec

\* A load that is scheduled is completed, whatever batch fails or run dies.
LoadCompletes == stage = "applying" ~> stage = "completed"
=============================================================================
