-------------------------- MODULE BootstrapLoadProofs --------------------------
(***************************************************************************)
(* Proofs about BootstrapLoad, for any number of rows, cron runs and       *)
(* requests, any chunk size and any number of faults.                      *)
(*                                                                         *)
(* LoadInv describes the table at each stage of the workbook.  The batch   *)
(* of a chunk checks the progress that it has read against the row of the  *)
(* workbook, so a run that has lost its claim, or whose batch came through *)
(* without its knowledge, finds nothing to do twice.                       *)
(*                                                                         *)
(* The load implements OneLoad: the edition tells whether anybody else has *)
(* added to the ledger (EditionOK).                                        *)
(***************************************************************************)
EXTENDS BootstrapLoad, TLAPS

LoadInv ==
    /\ TypeOK
    /\ stage = "ready" =>
        /\ progress = 0 /\ samples = Samples
        /\ \A i \in 1..MaxRows : row[i] = "absent"
        /\ counted = samples + added
    /\ stage = "applying" =>
        /\ \A i \in 1..MaxRows : row[i] = IF i <= progress THEN "hidden" ELSE "absent"
        /\ samples = IF progress = 0 THEN Samples ELSE 0
    /\ stage = "completed" =>
        /\ \A i \in 1..MaxRows : row[i] = IF i <= total THEN "current" ELSE "absent"
        /\ samples = 0 /\ counted = added + total

LEMMA LoadInit == Init => LoadInv
<1> SUFFICES ASSUME Init PROVE LoadInv
    OBVIOUS
<1>1. /\ total \in 1..MaxRows /\ progress \in 0..total /\ 0 \in 0..MaxRows
      /\ added \in 0..MaxWrites /\ faults \in 0..MaxFaults
    BY BootstrapAssumption DEF Init
<1>2. /\ row \in [1..MaxRows -> {"absent", "hidden", "current"}]
      /\ at \in [Appliers -> {"idle", "checks", "schedule", "load", "stale", "done"}]
      /\ pc \in [Runs -> {"idle", "claim", "batch", "release"}]
      /\ seen \in [Runs -> 0..MaxRows]
    BY <1>1 DEF Init
<1>3. TypeOK
    BY <1>1, <1>2 DEF Init, TypeOK, Samples, BaseEdition
<1> QED
    BY <1>3 DEF Init, LoadInv, Samples

\* The steps of the processes.
LEMMA AtTyped ==
    ASSUME TypeOK, NEW a, NEW x \in {"idle", "checks", "schedule", "load", "stale", "done"},
           at' = [at EXCEPT ![a] = x]
    PROVE  at' \in [Appliers -> {"idle", "checks", "schedule", "load", "stale", "done"}]
BY DEF TypeOK

LEMMA PcTyped ==
    ASSUME TypeOK, NEW r, NEW x \in {"idle", "claim", "batch", "release"},
           pc' = [pc EXCEPT ![r] = x]
    PROVE  pc' \in [Runs -> {"idle", "claim", "batch", "release"}]
BY DEF TypeOK

LEMMA FaultsTyped ==
    ASSUME TypeOK, \/ UNCHANGED faults
                   \/ faults < MaxFaults /\ faults' = faults + 1
    PROVE  faults' \in 0..MaxFaults
BY BootstrapAssumption DEF TypeOK

\* The categories that a load adds can only raise the edition.
LEMMA NamesRaise ==
    ASSUME TypeOK, \/ UNCHANGED edition
                   \/ \E n \in NewNames : edition' = edition + n
                   \/ \E n \in NewNames : edition' = edition + n + 1
    PROVE  edition' \in Nat /\ edition' >= edition
BY BootstrapAssumption DEF TypeOK, NewNames

\* The steps of the requests that apply the workbook.
LEMMA ApplierSteps ==
    ASSUME LoadInv, NEW a \in Appliers, ApplierStep(a)
    PROVE  LoadInv'
<1>0. TypeOK /\ total \in Nat /\ MaxRows \in Nat /\ total <= MaxRows
    BY BootstrapAssumption DEF LoadInv, TypeOK
<1>1. CASE ApplyRead(a) \/ ApplyCheck(a)
    <2>1. at' \in [Appliers -> {"idle", "checks", "schedule", "load", "stale", "done"}]
        BY <1>0, <1>1, AtTyped DEF ApplyRead, ApplyCheck
    <2> QED
        BY <1>0, <1>1, <2>1 DEF ApplyRead, ApplyCheck, workbook, documents, LoadInv, TypeOK
<1>2. CASE Schedule(a)
    <2>1. at' \in [Appliers -> {"idle", "checks", "schedule", "load", "stale", "done"}]
        BY <1>0, <1>2, AtTyped DEF Schedule
    <2>2. /\ stage' = stage \/ (stage = "ready" /\ stage' = "applying")
          /\ due' = due \/ due' = FALSE
          /\ UNCHANGED <<total, progress, token, stale, samples, row, added, edition, counted, pc, seen, faults>>
        BY <1>2 DEF Schedule, documents
    <2>3. TypeOK'
        BY <1>0, <2>1, <2>2 DEF TypeOK
    <2>4. CASE stage' = stage
        BY <2>2, <2>3, <2>4 DEF LoadInv
    <2>5. CASE stage = "ready" /\ stage' = "applying"
        <3>1. \A i \in 1..MaxRows : ~(i <= progress)
            BY <1>0, <2>5 DEF LoadInv
        <3> QED
            BY <2>2, <2>3, <2>5, <3>1 DEF LoadInv
    <2> QED
        BY <2>2, <2>4, <2>5 DEF LoadInv, TypeOK
<1>3. CASE LoadAtOnce(a)
    <2>1. at' \in [Appliers -> {"idle", "checks", "schedule", "load", "stale", "done"}]
        BY <1>0, <1>3, AtTyped DEF LoadAtOnce
    <2>2. CASE stage = "ready" /\ edition = BaseEdition /\ samples + added = Samples
        <3>1. /\ stage' = "completed" /\ samples' = 0
              /\ row' = [i \in 1..MaxRows |-> IF i <= total THEN "current" ELSE "absent"]
              /\ counted' = (counted - Samples) + total
              /\ UNCHANGED <<total, progress, token, stale, due, added, pc, seen, faults>>
            BY <1>3, <2>2 DEF LoadAtOnce
        <3>5. edition' \in Nat
            BY <1>0, <1>3, <2>2, NamesRaise DEF LoadAtOnce
        <3>2. added = 0 /\ counted = Samples /\ counted' = added' + total'
            BY <1>0, <2>2, <3>1 DEF LoadInv, TypeOK, Samples
        <3>3. /\ row' \in [1..MaxRows -> {"absent", "hidden", "current"}]
              /\ \A i \in 1..MaxRows : row'[i] = IF i <= total THEN "current" ELSE "absent"
              /\ counted' \in Nat /\ progress' \in 0..total'
            BY <1>0, <3>1, <3>2 DEF TypeOK
        <3>4. TypeOK'
            BY <1>0, <2>1, <3>1, <3>3, <3>5 DEF TypeOK
        <3> QED
            BY <3>1, <3>2, <3>3, <3>4 DEF LoadInv
    <2>3. CASE ~(stage = "ready" /\ edition = BaseEdition /\ samples + added = Samples)
        BY <1>0, <1>3, <2>1, <2>3 DEF LoadAtOnce, LoadInv, TypeOK
    <2> QED
        BY <2>2, <2>3
<1>4. CASE MarkStale(a)
    <2>1. at' \in [Appliers -> {"idle", "checks", "schedule", "load", "stale", "done"}]
        BY <1>0, <1>4, AtTyped DEF MarkStale
    <2> QED
        BY <1>0, <1>4, <2>1 DEF MarkStale, documents, LoadInv, TypeOK
<1> QED
    BY <1>1, <1>2, <1>3, <1>4 DEF ApplierStep

\* The batch of a chunk adds the rows after those counted, all hidden.
LEMMA ChunkStep ==
    ASSUME LoadInv, NEW r \in Runs, ChunkCommit(r)
    PROVE  LoadInv'
<1>0. /\ TypeOK /\ total \in Nat /\ MaxRows \in Nat /\ total <= MaxRows /\ Chunk \in Nat \ {0}
      /\ MaxFaults \in Nat /\ progress \in Nat
    BY BootstrapAssumption DEF LoadInv, TypeOK
<1>1. /\ stage = "applying" /\ progress = seen[r] /\ progress < total
      /\ samples' = IF progress = 0 THEN 0 ELSE samples
      /\ row' = [i \in 1..MaxRows |-> IF progress < i /\ i <= UpTo(r) THEN "hidden" ELSE row[i]]
      /\ progress' = UpTo(r) /\ token' = NoRun /\ due' = FALSE
      /\ UNCHANGED <<total, stage, stale, added, counted, at, seen>>
    BY DEF ChunkCommit, HoldsClaim, Hidden
<1>2. UpTo(r) \in Nat /\ progress < UpTo(r) /\ UpTo(r) <= total
    BY <1>0, <1>1 DEF UpTo
<1>3. /\ pc' \in [Runs -> {"idle", "claim", "batch", "release"}]
      /\ faults' \in 0..MaxFaults
    BY <1>0, PcTyped, FaultsTyped DEF ChunkCommit, Reported
<1>4. /\ row' \in [1..MaxRows -> {"absent", "hidden", "current"}]
      /\ \A i \in 1..MaxRows : row'[i] = IF i <= progress' THEN "hidden" ELSE "absent"
    BY <1>0, <1>1, <1>2 DEF LoadInv, TypeOK
<1>5. samples' = 0
    BY <1>1 DEF LoadInv
<1>6. progress' \in 0..total' /\ progress' # 0
    BY <1>0, <1>1, <1>2
<1>9. edition' \in Nat
    BY <1>0, NamesRaise DEF ChunkCommit
<1>7. TypeOK'
    BY <1>0, <1>1, <1>3, <1>4, <1>5, <1>6, <1>9 DEF TypeOK
<1>8. stage' = "applying"
    BY <1>1
<1> QED
    BY <1>4, <1>5, <1>6, <1>7, <1>8 DEF LoadInv

\* The publication shows what all the chunks have loaded.
LEMMA FinalStep ==
    ASSUME LoadInv, NEW r \in Runs, FinalizeCommit(r)
    PROVE  LoadInv'
<1>0. /\ TypeOK /\ total \in Nat \ {0} /\ MaxRows \in Nat /\ total <= MaxRows
      /\ MaxFaults \in Nat /\ progress \in Nat /\ progress <= total
    BY BootstrapAssumption DEF LoadInv, TypeOK
<1>1. /\ stage = "applying" /\ Loaded = 1..total
      /\ row' = [i \in 1..MaxRows |-> IF row[i] = "hidden" THEN "current" ELSE row[i]]
      /\ counted' = added + samples + total /\ edition' = edition + 1
      /\ stage' = "completed" /\ token' = NoRun /\ due' = FALSE
      /\ UNCHANGED <<total, progress, stale, samples, added, at, seen>>
    BY DEF FinalizeCommit, HoldsClaim, CountAnew
<1>2. progress = total
    <2>1. total \in Loaded /\ row[total] # "absent"
        BY <1>0, <1>1 DEF Loaded
    <2> QED
        BY <1>0, <1>1, <2>1 DEF LoadInv
<1>3. /\ pc' \in [Runs -> {"idle", "claim", "batch", "release"}]
      /\ faults' \in 0..MaxFaults
    BY <1>0, PcTyped, FaultsTyped DEF FinalizeCommit, Reported
<1>4. /\ row' \in [1..MaxRows -> {"absent", "hidden", "current"}]
      /\ \A i \in 1..MaxRows : row'[i] = IF i <= total THEN "current" ELSE "absent"
    BY <1>0, <1>1, <1>2 DEF LoadInv, TypeOK
<1>5. samples' = 0 /\ samples = 0 /\ counted' = added + total
    BY <1>0, <1>1, <1>2 DEF LoadInv, TypeOK
<1>6. edition' \in Nat /\ counted' \in Nat /\ progress' \in 0..total'
    BY <1>0, <1>1, <1>5 DEF TypeOK
<1>7. TypeOK'
    BY <1>0, <1>1, <1>3, <1>4, <1>5, <1>6 DEF TypeOK
<1> QED
    BY <1>1, <1>4, <1>5, <1>7 DEF LoadInv

LEMMA OtherSteps ==
    ASSUME LoadInv,
           \/ \E r \in Runs : DueRead(r) \/ Claim(r) \/ BatchFails(r) \/ Release(r) \/ RunDies(r)
           \/ Clock \/ WriteDocument
    PROVE  LoadInv'
<1>0. /\ TypeOK /\ MaxFaults \in Nat /\ MaxWrites \in Nat /\ MaxRows \in Nat
    BY BootstrapAssumption DEF LoadInv
<1>1. ASSUME NEW r \in Runs, DueRead(r) \/ Claim(r) \/ BatchFails(r) \/ Release(r) \/ RunDies(r)
      PROVE  LoadInv'
    <2>0. progress \in 0..MaxRows
        BY <1>0 DEF TypeOK
    <2>1. /\ seen' \in [Runs -> 0..MaxRows]
          /\ token' \in Runs \cup {NoRun} /\ stale' \in BOOLEAN /\ due' \in BOOLEAN
          /\ UNCHANGED <<total, stage, progress, documents, at>>
        BY <1>0, <1>1, <2>0 DEF TypeOK, DueRead, Claim, BatchFails, Release, RunDies, workbook
    <2>2. pc' \in [Runs -> {"idle", "claim", "batch", "release"}]
        BY <1>0, <1>1, PcTyped DEF DueRead, Claim, BatchFails, Release, RunDies
    <2>3. faults' \in 0..MaxFaults
        BY <1>0, <1>1, FaultsTyped DEF DueRead, Claim, BatchFails, Release, RunDies
    <2> QED
        BY <1>0, <2>1, <2>2, <2>3 DEF LoadInv, TypeOK, documents
<1>2. CASE Clock
    <2>1. /\ stale' \in BOOLEAN /\ due' \in BOOLEAN
          /\ UNCHANGED <<total, stage, progress, token, documents, at, pc, seen>>
        BY <1>0, <1>2 DEF TypeOK, Clock, TimeComes, LeaseExpires
    <2>2. faults' \in 0..MaxFaults
        BY <1>0, <1>2, FaultsTyped DEF Clock, TimeComes, LeaseExpires
    <2> QED
        BY <1>0, <2>1, <2>2 DEF LoadInv, TypeOK, documents
<1>3. CASE WriteDocument
    BY <1>0, <1>3 DEF WriteDocument, Locked, workbook, LoadInv, TypeOK, Samples
<1> QED
    BY <1>1, <1>2, <1>3

LEMMA LoadStep == LoadInv /\ [Next]_vars => LoadInv'
<1> SUFFICES ASSUME LoadInv, [Next]_vars PROVE LoadInv'
    OBVIOUS
<1>1. CASE UNCHANGED vars
    BY <1>1 DEF vars, workbook, documents, LoadInv, TypeOK
<1> QED
    BY <1>1, ApplierSteps, ChunkStep, FinalStep, OtherSteps DEF Next, CronStep

\* The invariant of the load.
THEOREM LoadCorrect == Spec => []LoadInv
BY LoadInit, LoadStep, PTL DEF Spec

\* runScheduledBootstrapApplication has inserted exactly the rows it has counted and
\* shows none before it shows all, whatever runs overlap, fail after their commit or
\* lose their lease.
THEOREM LoadedCorrect == Spec => []LoadedAsCounted
<1>1. LoadInv => LoadedAsCounted
    <2> SUFFICES ASSUME LoadInv PROVE LoadedAsCounted
        OBVIOUS
    <2>0. total \in Nat /\ progress \in Nat /\ MaxRows \in Nat /\ progress <= total
            /\ total <= MaxRows
        BY BootstrapAssumption DEF LoadInv, TypeOK
    <2> QED
        BY <2>0 DEF LoadInv, LoadedAsCounted, Loaded, Published
<1> QED
    BY <1>1, LoadCorrect, PTL

\* The counters of the capacity policy are right before the load and after it,
\* although nobody keeps them while it is under way.
THEOREM CountsCorrect == Spec => []CountersRight
<1>1. LoadInv => CountersRight
    BY DEF LoadInv, TypeOK, CountersRight, Samples
<1> QED
    BY <1>1, LoadCorrect, PTL

-----------------------------------------------------------------------------
(* The refinement.                                                           *)

\* Who adds a document raises the edition, so at the first edition nobody has; and
\* nobody does from the schedule on, which asked for the first edition.  What raises
\* it after that are the categories of the load itself.
EditionOK ==
    /\ edition >= BaseEdition + added
    /\ stage = "applying" => added = 0
    /\ stage # "completed" => Published = {}

LEMMA EditionInit == Init => EditionOK
BY DEF Init, EditionOK, Published, BaseEdition

LEMMA EditionStep == LoadInv /\ EditionOK /\ [Next]_vars => EditionOK'
<1> SUFFICES ASSUME LoadInv, EditionOK, [Next]_vars PROVE EditionOK'
    OBVIOUS
<1>0. edition \in Nat /\ added \in Nat /\ TypeOK
    BY BootstrapAssumption DEF LoadInv, TypeOK
<1>1. CASE UNCHANGED <<stage, row, added, edition>>
    BY <1>1 DEF EditionOK, Published
<1>2. ASSUME NEW a \in Appliers, ApplierStep(a) PROVE EditionOK'
    <2>1. CASE ApplyRead(a) \/ ApplyCheck(a)
        BY <1>1, <2>1 DEF ApplyRead, ApplyCheck, workbook, documents
    <2>2. CASE Schedule(a)
        BY <1>0, <2>2 DEF Schedule, documents, EditionOK, Published, BaseEdition
    <2>3. CASE LoadAtOnce(a)
        <3>1. edition' \in Nat /\ edition' >= edition /\ UNCHANGED added
            BY <1>0, <2>3, NamesRaise DEF LoadAtOnce
        <3>2. stage' = "completed" \/ UNCHANGED <<stage, row>>
            BY <2>3 DEF LoadAtOnce
        <3>3. QED BY <1>0, <3>1, <3>2 DEF EditionOK, Published, BaseEdition
    <2>4. CASE MarkStale(a)
        BY <2>4 DEF MarkStale, documents, EditionOK, Published
    <2>5. QED BY <1>2, <2>1, <2>2, <2>3, <2>4 DEF ApplierStep
<1>3. ASSUME NEW r \in Runs, CronStep(r) \/ RunDies(r) PROVE EditionOK'
    <2>1. CASE DueRead(r) \/ Claim(r) \/ BatchFails(r) \/ Release(r) \/ RunDies(r)
        BY <1>1, <2>1 DEF DueRead, Claim, BatchFails, Release, RunDies, workbook, documents
    <2>2. CASE ChunkCommit(r)
        <3>1. stage = "applying" /\ UNCHANGED <<stage, added>>
            BY <2>2 DEF ChunkCommit, HoldsClaim
        <3>4. edition' \in Nat /\ edition' >= edition
            BY <1>0, <2>2, NamesRaise DEF ChunkCommit
        <3>2. \A i \in 1..MaxRows : row'[i] = "hidden" \/ row'[i] = row[i]
            BY <2>2 DEF ChunkCommit, Hidden
        <3>3. QED BY <1>0, <3>1, <3>2, <3>4 DEF EditionOK, Published, BaseEdition
    <2>3. CASE FinalizeCommit(r)
        BY <1>0, <2>3 DEF FinalizeCommit, EditionOK, BaseEdition
    <2>4. QED BY <1>3, <2>1, <2>2, <2>3 DEF CronStep
<1>4. CASE Clock
    BY <1>1, <1>4 DEF Clock, TimeComes, LeaseExpires, documents
<1>5. CASE WriteDocument
    BY <1>0, <1>5 DEF WriteDocument, Locked, workbook, EditionOK, Published, BaseEdition
<1>6. QED BY <1>1, <1>2, <1>3, <1>4, <1>5 DEF Next, vars, workbook, documents

LEMMA PromiseInit == Init => Promise!Init
<1> SUFFICES ASSUME Init PROVE Promise!Init
    OBVIOUS
<1>1. 1 \in 1..total
    BY BootstrapAssumption DEF Init
<1>2. Published = {}
    BY DEF Init, Published
<1>3. QED BY <1>1, <1>2 DEF Init, Promise!Init

\* A table that keeps its rows shows what it has shown.
LEMMA PublishedSame ==
    ASSUME UNCHANGED row
    PROVE  UNCHANGED Published
BY DEF Published

LEMMA ApplierPromise ==
    ASSUME LoadInv, EditionOK, NEW a \in Appliers, ApplierStep(a)
    PROVE  Promise!Next \/ UNCHANGED Promise!vars
<1>0. /\ TypeOK /\ edition \in Nat /\ added \in Nat
      /\ total \in Nat /\ MaxRows \in Nat /\ total <= MaxRows
    BY BootstrapAssumption DEF LoadInv, TypeOK
<1>1. CASE ApplyRead(a) \/ ApplyCheck(a)
    BY <1>1, PublishedSame DEF ApplyRead, ApplyCheck, workbook, documents, Promise!vars
<1>2. CASE Schedule(a)
    <2>1. UNCHANGED <<total, samples, added, edition, Published>>
        BY <1>2, PublishedSame DEF Schedule, documents
    <2>2. CASE stage = "ready" /\ edition = BaseEdition
        BY <1>2, <2>1, <2>2 DEF Schedule, Promise!Next, Promise!Reserve
    <2>3. CASE ~(stage = "ready" /\ edition = BaseEdition)
        BY <1>2, <2>1, <2>3 DEF Schedule, Promise!vars
    <2>4. QED BY <2>2, <2>3
<1>3. CASE LoadAtOnce(a)
    <2>1. CASE stage = "ready" /\ edition = BaseEdition /\ samples + added = Samples
        <3>1. /\ stage' = "completed" /\ samples' = 0
              /\ row' = [i \in 1..MaxRows |-> IF i <= total THEN "current" ELSE "absent"]
              /\ UNCHANGED <<total, added>>
            BY <1>3, <2>1 DEF LoadAtOnce
        <3>5. edition' > edition
            <4>1. PICK n \in NewNames : edition' = edition + n + 1
                BY <1>3, <2>1 DEF LoadAtOnce
            <4>2. QED BY <1>0, <4>1, BootstrapAssumption DEF NewNames
        <3>2. Published' = 1..total
            BY <1>0, <3>1 DEF Published
        <3>3. added = 0
            BY <1>0, <2>1 DEF EditionOK, BaseEdition
        <3>4. QED BY <2>1, <3>1, <3>2, <3>3, <3>5 DEF Promise!Next, Promise!Load, Promise!Open
    <2>2. CASE ~(stage = "ready" /\ edition = BaseEdition /\ samples + added = Samples)
        BY <1>3, <2>2, PublishedSame DEF LoadAtOnce, Promise!vars
    <2>3. QED BY <2>1, <2>2
<1>4. CASE MarkStale(a)
    <2>1. UNCHANGED <<total, samples, added, edition, Published>>
        BY <1>4, PublishedSame DEF MarkStale, documents
    <2>2. CASE stage \in {"ready", "applying"}
        BY <1>4, <2>1, <2>2 DEF MarkStale, Promise!Next, Promise!GiveUp, Promise!Open
    <2>3. CASE stage \notin {"ready", "applying"}
        BY <1>4, <2>1, <2>3 DEF MarkStale, Promise!vars
    <2>4. QED BY <2>2, <2>3
<1>5. QED BY <1>1, <1>2, <1>3, <1>4 DEF ApplierStep

LEMMA CronPromise ==
    ASSUME LoadInv, EditionOK, NEW r \in Runs, CronStep(r) \/ RunDies(r)
    PROVE  Promise!Next \/ UNCHANGED Promise!vars
<1>0. /\ TypeOK /\ edition \in Nat /\ added \in Nat
      /\ total \in Nat /\ MaxRows \in Nat /\ total <= MaxRows
    BY BootstrapAssumption DEF LoadInv, TypeOK
<1>1. CASE DueRead(r) \/ Claim(r) \/ BatchFails(r) \/ Release(r) \/ RunDies(r)
    BY <1>1, PublishedSame
       DEF DueRead, Claim, BatchFails, Release, RunDies, workbook, documents, Promise!vars
<1>2. CASE ChunkCommit(r)
    <2>1. /\ stage = "applying" /\ UNCHANGED <<total, stage, added>>
          /\ progress = seen[r]
          /\ progress = 0 => samples' = 0
          /\ progress # 0 => UNCHANGED <<samples, edition>>
        BY <1>2 DEF ChunkCommit, HoldsClaim
    <2>4. edition' >= edition
        BY <1>0, <1>2, NamesRaise DEF ChunkCommit
    <2>5. progress = 0 => samples # 0
        BY <2>1 DEF LoadInv, Samples
    <2>2. Published' = {} /\ Published = {}
        BY <1>2, <2>1, EditionStep DEF EditionOK, Next, CronStep
    <2>3. QED BY <2>1, <2>2, <2>4, <2>5 DEF Promise!Next, Promise!Clear, Promise!vars
<1>3. CASE FinalizeCommit(r)
    <2>1. /\ stage = "applying" /\ stage' = "completed" /\ edition' = edition + 1
          /\ UNCHANGED <<total, added, samples>>
        BY <1>3 DEF FinalizeCommit, HoldsClaim
    <2>2. LoadInv'
        BY <1>3, FinalStep
    <2>3. Published' = 1..total /\ samples' = 0
        BY <1>0, <2>1, <2>2 DEF LoadInv, Published
    <2>4. added = 0 /\ edition' > edition
        BY <1>0, <2>1 DEF EditionOK
    <2>5. QED BY <2>1, <2>3, <2>4 DEF Promise!Next, Promise!Load, Promise!Open
<1>4. QED BY <1>1, <1>2, <1>3 DEF CronStep

LEMMA PromiseStep == LoadInv /\ EditionOK /\ [Next]_vars => [Promise!Next]_(Promise!vars)
<1> SUFFICES ASSUME LoadInv, EditionOK, [Next]_vars
             PROVE  Promise!Next \/ UNCHANGED Promise!vars
    OBVIOUS
<1>1. CASE UNCHANGED vars
    BY <1>1, PublishedSame DEF vars, workbook, documents, Promise!vars
<1>2. CASE Clock
    BY <1>2, PublishedSame DEF Clock, TimeComes, LeaseExpires, documents, Promise!vars
<1>3. CASE WriteDocument
    BY <1>3, PublishedSame DEF WriteDocument, Locked, workbook, Promise!Next, Promise!Write
<1>4. QED BY <1>1, <1>2, <1>3, ApplierPromise, CronPromise DEF Next

\* The load implements OneLoad: to everybody else it is one step, from the edition
\* that the workbook was made for and with nobody else's document, however many
\* chunks, days, overlapping runs and failures it takes.
THEOREM OneLoadImplemented == Spec => ImplementsOneLoad
<1>1. Spec => [](LoadInv /\ EditionOK)
    <2>1. LoadInv /\ EditionOK /\ [Next]_vars => (LoadInv /\ EditionOK)'
        <3>1. LoadInv /\ [Next]_vars => LoadInv'
            BY LoadStep
        <3>2. QED BY <3>1, EditionStep
    <2>2. QED BY <2>1, LoadInit, EditionInit, PTL DEF Spec
<1>2. QED BY <1>1, PromiseInit, PromiseStep, PTL DEF Spec, ImplementsOneLoad, Promise!Spec
=============================================================================
