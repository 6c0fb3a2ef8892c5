# Verification of the Hanlim document archive

TLA+ models of `src/cloudflare-app` (one Cloudflare Worker over one D1 SQLite
database), TLC configurations that check them on small instances, and TLAPS
proofs for instances of every size. Paths below are relative to
`src/cloudflare-app/` unless they start with `docs/` (the repository's `docs`).

## 1. The system

Everything the Worker keeps is in D1. A request, or a run of the cron (every
five minutes), is a sequence of awaited statements. A *batch*
(`env.DB.batch()`, built as a `BatchPlan`) is one atomic transaction; a `SELECT`
before it is a step of its own, and between the two any other request or cron
run may act. The runtime may end a request between any two of its statements.
Nothing but the guards in the statements keeps two requests apart: there are no
locks, and a guard aborts a batch only where an assertion
(`expectChanged`, `exactChangeCount`) has been added; otherwise the statement
just does not apply. That is what the models are about, and it is the rule by
which the code is cut into actions: one action per read or group of reads that
decides how a handler goes on, one action per batch with everything the
triggers add to it, and an action for the end of a request at any point.

| Component | State | Operations | What makes it correct | Modules |
|---|---|---|---|---|
| document ledger (`domains/documents`) | `documents` with `row_version`, revision links, capacity counters, edition of the ledger | register, edit, move, revise, dispose, restore, (delete) | no lost update, a replaced document stays disposed of, right counters | `DocumentLedger` |
| Excel synchronisation (`domains/snapshots`) | `document_snapshots`, its rows, membership and exclusions | export, upload, compare, apply, cancel | applied as reviewed, to the edition reviewed, or not at all | `LedgerSnapshots` implements `LedgerVersions` |
| bootstrap load (`bootstrapApply.js`) | token, progress, next run of the workbook | claim, chunk, publish, release | each row once, all shown together, nobody else meanwhile, an end | `BootstrapLoad` implements `OneLoad` |
| search projection (`search/infrastructure/projection.js`) | projection, index, dirty rows, state of the walk | triggers mark, requests and cron drain, cron walks | a document is fresh or queued; the index agrees; a walk misses nothing and ends | `SearchProjection` |
| search queries and the search page (`search/infrastructure/repository.js`, `views/clientScript/instantSearch.js`) | cursor, request sequence, results on screen | query, page by cursor, fall back, type, compose | results without an alert are those of the form; pages of one ledger | `SearchPages` |
| disposal campaigns (`domains/disposal`) | `disposal_batches`, `disposal_batch_items` | draft, edit, freeze, select, exclude, include, start, cancel, process | dispose of what was frozen and nothing that changed since | `DisposalCampaign` |
| CSV imports (`domains/imports`) | jobs, items | create, process a row, fail, cancel | one document per completed row; a job ends | `ImportJobs` over `ReferenceData` |
| racks, categories, tags (`domains/racks`, `domains/masters`) | rows with `row_version`, edition | add, save, number of racks, deactivate | no rack with documents goes out of use | `ReferenceData` |
| document sets (`domains/sets`) | sets with `row_version`, members | create, rename, lock, add, remove, clone, delete | a locked set stays | `DocumentSets` |
| users, templates, sessions (`domains/identity`, `auth`) | `app_users` with `row_version`, `session_epoch`; cookies | create, disable, delete, templates, log in, change and reset passwords | while an account is registered, its old sessions and passwords do not come back | `Accounts` implements `Sessions` |
| D1 layer (`platform/d1`), cron, routes | - | batch, assertion, dispatch | - | the cut into actions, the fairness |

How they meet. Every change of a document, category or rack raises the edition
of the ledger (`document_sync_state.current_version`) and fires triggers that
queue documents for search. Campaigns, imports and workbooks change documents
through batches of their own, under the same `row_version` and edition
discipline. `LedgerSnapshots` is composed with the whole of `DocumentLedger`,
`ImportJobs` with the whole of `ReferenceData`; elsewhere the other parts of the
application appear as one action that does whatever their batches may do
(`ChangeDocument`, `SyncDocument`, `WriteDocument`). The bootstrap load is the
exception to the discipline: it suppresses the triggers, locks everybody else
out and asks for a full walk.

`PROJECT.json` lists what is hard to test, each at its line, under "hazards".

## 2. Modules

Each component module declares the tables first and then what requests and cron
runs hold between their statements: `pc` (or `step`, `ipc`, `at`: what comes
next), the subject, and what was read. `...Read`, `...Check`, `...Submit` are
reads with their early returns, `...Commit` are batches, `RequestLost`,
`WorkerLost`, `PageFault`, `OperatorLost`, `RunDies` the end of a request or
run. Operators such as `FrozenIgnoringVersion` or `RestoredAnyway` stand before
the definition that they vary and are used by no action: each is a plausible
bug, kept to show that a property notices it.

### DocumentLedger

`doc` is the table: standing, whether the row is in the current ledger
(`sync_state`), identity (document and revision number), place, version
(`row_version` and `updated_at`). `newer` is `document_revision_links`,
`counted` the counters of the capacity policy that the triggers of migration
0053 keep, `edition` the version of the ledger, `usable` the places on active
slots. `form` is the row as the user's page showed it hours ago, `rows` what the
handler has read since; `SubmitEdit`, `SubmitMove` and `SubmitRevision` are the
handler's read, `EditCommit`, `MoveCommit`, `ReviseCommit`, `DisposeCommit`,
`RestoreCommit`, `DeleteCommit`, `CreateCommit` the batches with the triggers of
migrations 0053 and 0059 (`Permitted`, `Recounted`, `NotRestored`). Tags, notes,
movements and audit rows are written in the same batch and go with the row.
`DeleteRead` and `DeleteCommit` are `permanentlyDeleteDocument`, which is exported
and tested but called by no route of this release (`docs/PERMISSIONS.md:44`); the
other operations are checked next to it.

### LedgerVersions and LedgerSnapshots

`LedgerVersions` is what the synchronisation promises: a workbook is reviewed
against one edition of the ledger, and is applied to that edition in one step
and with the reviewed result, or not at all.

`LedgerSnapshots` has the export in pages (`ExportPage`, each with its check of
the edition) or at once, the upload (`StageRows`; rows that were not touched are
not sent, `Kept`), the comparison (`PlanOf`, split into `PrepareRead` and
`PrepareCommit`), the application with its row by row checks of capacity and
identity (`BeforeExclusions`, `AfterExclusions`: exclusions come last),
staleness and cancellation, and, through `DocumentStep`, every operation of
`DocumentLedger`. `ImplementsVersions` is the refinement: `content` is what the
current rows say, `reviewed` a history variable written when a workbook becomes
ready, `applied` the workbooks that are completed.

### OneLoad and BootstrapLoad

The first load of an empty installation: at once up to the threshold, or by cron
in daily chunks of hidden rows that the last batch publishes. `token` and `stale`
are the claim and its lease of 30 minutes, `progress` the rows loaded, `due` the
time of the next chunk. `BatchFails` covers a failed batch and one whose answer
is lost, `RunDies` a run that ends anywhere, `LeaseExpires` a lease that runs out
under a run still at work. `Locked` is `trg_bootstrap_lock_*`.

`OneLoad` is what everybody else may rely on: the ledger of the samples becomes the
ledger of the workbook in one step (`Load`), from the edition the workbook was made
for and while nobody else has a document in it, or the load is given up (`GiveUp`).
It says what it does not promise, too: the samples may go before the rows come
(`Clear`), so a load that is given up after its first chunk leaves neither, and with
them come the categories of the workbook (`NewNames`), which raise the edition.
`ImplementsOneLoad` is the refinement, with the rows that are shown (`Published`) for
the rows of the abstract ledger.

### SearchProjection

`source` is what a document should read as, `projection` and `fts` what the
search tables say, `dirty` and `available` the queue, `status` and `cursor` the
walk. `ChangeDocument` and `RenameReference` are transactions with the triggers
of migrations 0048 and 0050; `DrainRead`, `DrainSource`, `DrainCommit`,
`DrainAbort`, `DrainFail` the drain; the `Reindex...` actions the walk;
`BootstrapApply`, `BootstrapFirstChunk`, `BootstrapFinalize` the load, at once or
by cron. Five history variables guard nothing. `tainted` holds the documents for
which a worker's read has lost its protection, `exposed` those last written from
such a read, `unindexed` those changed behind the triggers and not written since,
`lapped` the walk runs that began before the last restart, `crossed` that one of
these has moved the cursor of the new walk. They let the properties say *when*
the documented guarantee holds, instead of giving it up.

### SearchPages

A search page and the server. `core` and `projected` give each document its rank
for the conditions by the core tables and by the projection (0: no match);
`generation` is the one a cursor is bound to. Each fetch is a record `request[r]`
that goes through `Check`, then `FromCore`, or `CountNamed` and `ReadNamed` for the
name of a document, or `Count`, `Rank`, `ReadCore`, one per separate read of
`getViewerSearchPayload`, and ends in `Receive`, `Ignore` or `Fail`. Under it,
`ChangeDocument` is a transaction with its triggers, `DrainDocument` a drain, and
the bootstrap load comes in both its forms: `RemoveSamples` (the first chunk, behind
the triggers) and `EndLoad` (the last, with the new generation), or `LoadAtOnce`.
After it the projection is not read until `EndRebuild`.

The page is `instantSearch.js`: `Type`, `Debounced`, composition of Korean text,
`More`, `Retry`, `Open` (with restoring), `Render`; `newest` is the request that
carries the latest sequence number. `buttons` are those under the list. A failed
search replaces the list by an error; a failed next page leaves the list where it is
and puts an alert with a button under it (`ShowError`), which a retry that goes well
does not take away (`ButtonsAfter`), so that the same page can be appended twice.
`shownFor` and `drift` are history, as are the fields `drift`, `gone` and `late` of a
fetch.

### DisposalCampaign

`standing`, `listed`, `group`, `version` are the documents, `status`, `terms`,
`stamp`, `target`, `tally` a campaign, `item` and `expected` its items. Every
operation is `...Read` and `...Commit`. `stamp` models `CURRENT_TIMESTAMP` in whole
seconds: an edit may leave it as it was. A draft is frozen in four steps: the page
(`FreezePage`), whose form sends `updated_at` and a number, not the terms; the
handler's own read of the draft, which the transaction will compare with
(`FreezeRead`); the count that is compared with the number (`FreezeCount`); and the
transaction (`FreezeCommit`). `touched` and `reviewed` are history: the documents
changed since the freeze, and the terms that the draft has had since a request's page,
in the second of that page, until the request arrives.

### ReferenceData and ImportJobs

`ReferenceData` has the racks of a zone, a category, the documents as far as they
stand in racks, and `edition`. `SaveRack` and `AddRack` bring back a
`row_version`; `Configure` and `ConfigureCommit`, which set the number of racks,
bring back the edition. A tag is saved by the same code as a category. `Limit` is the
capacity of the ledger, and `LoadBegins`, `LoadEnds` are a scheduled bootstrap load as
it looks from here: between them `locked` aborts every batch that changes a document, a
category or a rack.

`ImportJobs` adds the job of a file: pages (`g`) take the first pending row
(`ProcessRead`), and one batch claims it, makes its document, closes the row and
counts anew (`ProcessMakes`, `ProcessRefuses`, `ProcessSkips`); a batch
that the unique index aborts is followed by another that fails the row
(`ProcessAborts`, `FailItem`); one that a trigger aborts, the ledger being full or
locked (`Refused`), is an error the code does not know, and leaves the row pending
(`ProcessThrows`).

### DocumentSets

`set` is a set with its members, `shown` the page: the set first (`OpenSet`), its
documents in a second query (`ReadMembers`). Every request goes through `Submit`
and a batch guarded by `AtVersionUnlessLocked` (locking by `AtVersion`).
Documents leave the ledger or are deleted without asking the sets.

### Sessions and Accounts

`account` is `app_users` by username: the `id` of the row, its role, status,
`row_version`, `session_epoch`, password, its format, template and permissions.
Deleting an account removes the row; the username may then be registered again, with
another id, from version 1 and epoch 0 (`Registered`). `cookie` is the session of a
browser: username and epoch, and, as history, the row and the password it was opened
with. `seen` and `shown` are what a page or handler has read. A login is `LoginRead`,
`LoginUpgrade` (storing the verified password in the new format) and `LoginDone`; a
change of the password is `PasswordAsk` (the session is checked), `PasswordRead` (the
row is read again and the password verified) and `PasswordCommit`; `ResetCommit`,
`StatusCommit`, `DeleteCommit`, `AssignCommit`, `TemplateCommit`, `BulkCommit` are the
other batches.

The server keeps no sessions: a cookie is honoured as long as its epoch is that of
the account. `Sessions` is the table it does without. A session is opened with the
password in force by an approved account (`SignIn`), a new password ends the others
of the account in the same step (`Renew`, `Reset`), signing out ends all (`SignOut`),
as do disabling and deleting (`Bar`), and nothing brings one back (`Admit`).
`ImplementsSessions` is the refinement: the session of a browser is its cookie if it
is honoured now and of the present registration of its username (`Live`), and none
otherwise. It implies that a replaced password does not come back while the account
is registered. Of a cookie that has outlived its account it says nothing, because
the code does not either (section 5).

## 3. Runs

Deadlock is off everywhere: when the bounded changes are used up and all work is
done, the system rests.

| Run | Properties | What they say |
|---|---|---|
| `search_drain` | `FtsMatchesProjection`, `ReadsProtected`, `FreshOrDirty` | the index follows the table; the version check protects a drain's reads; a document is fresh or queued, except as noted in section 5 |
| `search_walk` | `TypeOK`, `ReadyMeansSearchable`, `NeverUnlisted`, `CursorNeverGoesBack`, `EventuallyIndexed` | a walk that reports ready has missed nothing, drops nothing current, never goes back, and everything is indexed in the end |
| `search_reuse` | `NeverStaleAndClean` | violated, section 5 |
| `search_pages` | `ShownFits`, `AnswersAreCurrent`, `PagesOfOneLedger`, `SearchRests` | late answers do not reach the screen, a document that has stopped matching is not listed, a page of another ledger is appended only when all that has changed is that the samples are gone, the page comes to rest |
| `disposal_safety` | `TypeOK`, `CancelledIsHarmless`, `TotalsAddUp`, `NeverDisposesTouched`, `FrozenSetFixed`, `ExclusionsFinal`, `FrozenAsReviewed` | what is disposed of is what was frozen, by terms the draft had in the second of the reviewed page |
| `disposal_completes` | `ProcessingCompletes` | a started campaign ends, whatever requests are lost |
| `ledger_requests` | `HistoryStands`, `CountersMatch`, `NoLostUpdate` | revision histories, counters and updates with two racing requests |
| `ledger_sync` | `ReviewHolds`, `LedgerIsWorkbook`, `ImplementsVersions` | the workbook against operations on single documents; the refinement |
| `bootstrap_load` | `LoadedAsCounted`, `CountersRight`, `ImplementsOneLoad`, `LoadCompletes` | overlapping, failing and dying cron runs load each row once and end; the refinement |
| `imports` | `RowsMakeOneDocument`, `CompletedIsCounted`, `CancelEndsIt`, `CountsSpareDocuments`, `ImportEnds` | two pages on one job, over racks and categories that change, at the capacity limit and during a load |
| `document_sets` | `LockedStays`, `ClonedAsShown` | requests of old pages on sets that are locked, cloned, deleted |
| `accounts` | `SessionsCurrent`, `ImplementsSessions`, `AssignedAsShown` | logins, password changes, deletions, registrations and assignments in every order; the refinement |

Bounds. Each cfg gives its instance in words. Interference is between the reads
and the batch of one request and the batches of others, so two requests (drains,
walk runs, cron runs, pages, browsers, operators) and two committed changes give
every order of "read, change, other's batch, own batch"; the instances have at
least that wherever a property depends on it. Beyond that:

* `search_walk`: chunks of one document let a walk be in the middle with a document
  on either side. `search_drain` leaves the walk out so that two drains meet two
  changes of up to two trigger firings.
* `search_pages`: two documents in pages of one give a first page, a second page and
  a cursor that is overtaken, by a change or by the first chunk of the load, both
  documents being samples; two fetches give one that is given up. The run begins with
  the walk of the projection ended.
* `disposal_safety`: three documents meet the terms, two fit in a campaign. Another
  campaign's disposal of the same document is for this one a change of it.
* `ledger_requests`: a limit of two for three documents, so that the limit is met.
* `ledger_sync`: two documents, the limit two, exclusions at the limit; three editions,
  so that a workbook is overtaken before and after its review.
* `bootstrap_load`: one to five rows in chunks of two: none, full, partial chunks,
  and a workbook at the threshold; up to one new category. Only one administrator
  applies (section 5).
* `imports`: two rows, three ids, two racks, and one committed change besides those
  of the job, so that a rack or category goes out of use, or a number is taken,
  between look-up and batch; a limit of two documents, which the job meets with one
  document of others, and a load over the empty ledger.
* `accounts`: two administrators and a user that may be registered or not, two browsers
  and three changes: an account is deleted, registered again and its password replaced,
  or another three, between the read and the batch of a request.

The bounds are `MaxFirings`, `MaxChanges`, `MaxFaults`, `MaxEdits`, `MaxEdition`,
`MaxExcluded`, `MaxRows`, `MaxNames`, `MaxWrites`, `MaxInputs`, `MaxRank`; all other constants are
parameters of the code. Symmetry is used where ids are not compared, never in the
runs of liveness.

Fairness, each justified by what drives the code:

* `SearchProjection`: cron comes every five minutes and calls drain and walk one after
  the other (`src/index.js`), takes rows oldest first (hence strong fairness of reading
  a row), a due time passes, a run that is not stopped goes on.
* `DisposalCampaign`, `ImportJobs`: the page of a processing campaign or job sends one
  request after another (`views/disposalBatchViews.js`, `views/importJobViews.js`), and
  its user resumes. Nobody is assumed to start, edit or cancel. `ImportEnds` asks in
  addition that from some time on the ledger is neither full nor locked.
* `BootstrapLoad`: cron and the clock go on.
* `SearchPages`: the latest fetch ends in one way or another and is handled, one given
  up ends as well, a timer fires; what the user does is not assumed. A user who composes text for ever keeps
  the page busy, which `SearchRests` allows.

Faults (lost requests, failed batches, dead runs) are bounded by `MaxFaults` where a
liveness property needs an end of them.

## 4. Proofs

For instances of any size, from the assumptions named in the modules (ids that are
compared are numbers, sets that are counted are finite, the values that stand for
"nothing" are none of the others, limits are numbers). Each rests on an inductive
invariant that is stronger than the properties:

* `SearchProjectionProofs`. `ReadsProtected` is the inductive invariant of the version
  check: until others clear the row its version only grows, and at the version read
  nothing has changed since the source was read. `FreshOrDirty` follows step by step.
  `FtsMatchesProjection` is inductive with `TypeOK`. `ReadyMeansSearchable` is not
  inductive: the walk reports ready long after it has passed a document. `WalkCovers`
  adds what holds on the way: a document that is neither fresh nor queued (nor among
  the exceptions) lies ahead of the cursor, or the load still hides it; and a run that
  is about to move the cursor has accounted for its chunk, unless it began before the
  last restart. `ChunkPastCursor` (what a run has read lies past the cursor it compares)
  gives `CursorNeverGoesBack`; `NeverUnlisted` holds step by step.
* `SearchPagesProofs`. `InOrderExists`: a finite set has an ordered enumeration, since
  each member has a place, one more than the number of those before it; so lists and
  pages of them are sequences of documents. `PagesInv` says what the two numbers that
  are compared stand for. A generation: every transaction raises it but the first chunk of a
  scheduled load, so a cursor of the present one comes from a list of which nothing has
  changed except that samples are gone (`Clean`), in a fetch, in an answer and on the
  page alike. The sequence number: what changes the form makes
  every fetch obsolete in the same step, so the latest one asks for the conditions in
  the form (`NewestOK`). `ShownFits` is about lists without an alert: the list under the
  alert of a next page that did not come may be that of earlier conditions.
* `DisposalCampaignProofs`. `NeverDisposesTouched` rests on `VersionsTell` (the frozen
  version is never ahead of the document, and behind once it is touched) and
  `OpenIsEmpty` (a draft has no items), `CancelledIsHarmless` on `NothingClosedEarly`;
  `FrozenSetFixed` and `ExclusionsFinal` follow from the guards with these.
  `TotalsAddUp` is inductive with these: the target is the number frozen, the set stays,
  and every batch that moves an item counts anew. For `FrozenAsReviewed`, `Met` says that
  the terms at a stamp a request has seen are among those it has met (`reviewed`); the
  batch of the freeze compares the terms with those the handler has read, not only the
  time of the edit, so that none that comes after the read gets in.
* `LedgerProofs`, first part. `LedgerInv`: what a request has read of a document has a
  version at most that of the table, and at the same version it is the row of the
  table (`Comparable`). It is kept since every step that touches a row raises its
  version or ends it. `Effects` sums up what all steps do to the table;
  `HistoryStands` and `CountersMatch` are proved from the summary, `NoLostUpdate`
  from `Comparable`.
* `LedgerProofs`, second part. `SyncInv` is optimistic concurrency: the table changes only
  with the edition, so what was exported, read or reviewed at an edition still in
  force is what the table says (`BookOK`, `OperatorOK`). From it `ReviewHolds`,
  `LedgerIsWorkbook` and the refinement `VersionsImplemented`: initial states map to
  initial states, every step to a step of `LedgerVersions` or a stutter.
* `BootstrapLoadProofs`. `LoadInv` describes the table at each stage: while applying,
  exactly the first `progress` rows are there, hidden. A batch compares the progress
  it has read, so a run that has lost its claim or its answer does nothing twice.
  `EditionOK` carries the refinement `OneLoadImplemented`: who adds a document raises
  the edition, so at the first edition nobody has, and from the schedule on, which
  asked for the first edition, nobody does, whatever categories the first chunk adds; nothing of the workbook is shown before
  the end.
* `ImportJobsProofs`. `RowsOK` ties jobs, rows and documents together; a row is
  completed by the batch that makes its document, and the claim lets no other touch
  it. `ConfigOK`: while the edition the form has shown is in force, the look at the
  documents before the batch still holds.
* `DocumentSetsProofs`. `PageOK`: versions rise whenever a request changes a set, so a
  page at the version of the set shows it as it is, up to documents deleted since.
* `AccountsProofs`. A row is known by its id, and ids are not used again. While a row is
  there its password changes only with `session_epoch`, so what a cookie or a login holds
  is of an earlier row, out of date, or has the password in force (`CookieOK`,
  `RequestOK`); permissions change only with `row_version` (`SeenOK`). For the refinement
  `SessionsImplemented`, `HeldOK` adds what requests under way hold of the cookie of
  their browser; `SessionEnds` is the step that matters: when the epoch of an account
  rises or its approval ends, exactly its own sessions end, since no cookie is ahead of
  the account's present row. A login whose account has moved on since it was read gets a cookie that
  is worth nothing, which is no step of the table.

Model-checked only: the liveness properties (`EventuallyIndexed`, `ProcessingCompletes`,
`LoadCompletes`, `ImportEnds`, `SearchRests`), which with ENABLED are out of the
prover's reach. Every other property of a passing run is a theorem.

`WalkCovers`, `ChunkPastCursor` and `PagesInv` were run as invariants of `search_walk` and
`search_pages` before they were proved. `SearchPages` orders and filters lists by
`InOrder`, a choice among the enumerations of a set, and not by the library's sorting and
selection: these are defined by recursion, and the prover has no induction over data.

## 5. What the checks found

One run contradicts a document:

* **A cleared row hides a stale drain** (`search_reuse`). `event_version` starts again at
  1 once a dirty row has been deleted. A drain that read version 1 before that passes
  its assertion against the new row, writes the older text and deletes the row.
  `docs/ARCHITECTURE.md:135` and the header of `projection.js` exclude this.

Weaknesses that the models have and the properties go around, or that were met while
reading; no run is spent on them.

* The walk writes without any check what it has read (`projection.js:398`) and may
  overwrite what a drain has written since: `exposed`. A run of an earlier walk that
  holds cursor 0 can move or end a walk restarted since, because the cursor carries
  no generation: `crossed`. Outside these and the bootstrap load (`unindexed`), every
  document is fresh or queued.
* A deleted account leaves no row and its username can be registered again, from epoch 0
  (`users.js:427`, migration 0036). `readSession` asks for username and epoch only, so a
  cookie of the deleted account is honoured for the new one while the epochs agree, and
  a change of password that was verified against the deleted row may be stored in the
  new one. `docs/PERMISSIONS.md:60` advises to disable accounts and not to delete them.
  The properties of sessions are about the present registration.
* A draft edited in the same second, after its page was shown and before its form
  arrives, is frozen by terms nobody has seen when their number of candidates is the
  confirmed one (`disposalBatchViews.js:258`, `repository.js:359`); `updated_at` counts
  seconds. The search page, which makes a draft and freezes it in one request, reads
  it back in between (`handlers/documents/disposal.js:224`).
* When a next page fails, the list stays on screen, although the conditions may have
  changed since it was asked for (`instantSearch.js:345`); a retry that goes well leaves
  the button of the alert, and pressing it again appends the same page twice
  (`instantSearch.js:258`).
* The first chunk of a scheduled load removes the two samples without a new generation
  (`bootstrapApply.js:170`): a next page may leave them out or, its offset having moved,
  come after a list that still shows them.
* An import job whose ledger is full, or locked by a load, does not end: the row is
  neither made nor failed, and every further request meets the same error
  (`imports/infrastructure/repository.js:336`, `584`) until there is room again.
* Drains and walks change the order of results without a new generation, so that two
  pages with one cursor may repeat or skip a document; `PagesOfOneLedger` is about
  changes of documents, as `docs/ARCHITECTURE.md:111-113` is.
* The upload page notes the chosen file before it is parsed, so that a second choice
  under way may pair one file with the rows of another (`excelSnapshots.js:273`).
* A campaign's confirmed number is compared before the batch; in it, any number up to
  the limit will do (`docs/OPERATIONS.md:185` says nothing is run when it has changed).
  When no picked document is a candidate any more, an empty draft stays behind. A late
  exclusion may complete a campaign, and failing the last row an import job, without
  the `complete` audit row.
* A workbook that re-uses the identity of a document it excludes, or adds rows at the
  limit, is reviewed as ready, refused when applied, and stays ready: exclusions come
  last. A number held by an excluded document cannot be registered again
  (`mutations.js:262`).
* `markSnapshotStale` may fail a bootstrap load that is applying, when a second
  administrator's request has read it as ready (`apply.js:185`). Therefore
  `bootstrap_load` has one administrator; the safety proofs have any number.
* Two administrators may delete each other (`users.js:408`).
* A single document may be registered in a rack that is put out of use meanwhile: the
  INSERT does not look. Deleting a document takes it out of locked sets as well.

## 6. Not modelled

* The bundles under `public/assets` (generated from the scripts under `views` and of
  `searchCore.js`), HTML and styling: no state of their own. The in-memory search of
  `initialResults` is a shortcut of the page's first answer.
* Text: tokens and scores of search (a score is a rank), CSV and Excel cells and hashes
  of workbooks. They are functions of one input.
* Suggestions, facets and click statistics of search; dashboard, audit and data quality
  pages: reads whose answer nothing depends on.
* The login throttle, sign-up requests of the past, accounts under security review and
  single permissions without a template: `Accounts` starts from registered accounts.
* Shape of racks (columns, shelves) and the floor plan's drawing; several zones, which
  do not interact.
* Statement budgets, retention reports (`maintenance.js`), backup, migrations of old
  databases, deployment scripts and workflows: outside the Worker's transactions, or
  constants.
