# WP Packages in TLA+

WP Packages mirrors the WordPress.org plugin and theme directories as a Composer
repository. Timers start Go commands that follow SVN and the WordPress.org API into an
SQLite table, build static files from the table and publish them on Cloudflare R2; other
commands count installs, report mass closures and draw preview images. This directory
holds TLA+ modules of the parts whose correctness depends on order, failure and
concurrency, the TLC runs that check them, and TLAPS proofs.

Run a model with `tlc -config <name>.cfg <module>` (the module of each `.cfg` is in
`PROJECT.json`) and the proofs with `tlapm <module>.tla`.

## 1. Inventory

### Processes and shared state

| process | started | lock | writes |
|---|---|---|---|
| `pipeline` (discover, update, build, deploy, cleanup) | every 5 minutes | `pipeline.lock`, whole run | `packages`, `site_meta`, `sync_runs`, `builds`, `metadata_changes`, build directories, `current`, R2 |
| `discover`, `update` | by hand | `pipeline.lock` | as the pipeline's steps |
| `backfill-published-times` | by hand | `pipeline.lock` | published times, `content_hash` |
| `check-status` | hourly | none | `packages`, `status_checks*`, `closure_events` |
| `build`, `deploy`, `deploy --rollback`, `deploy --cleanup` | by hand | none | `builds`, `metadata_changes`, directories, `current`, `packages.deployed_hash`, R2 |
| `cleanup-r2-orphans` | by hand | none | `packages.deployed_hash`, R2 |
| `aggregate-installs` | hourly, by hand | none | `monthly_installs`, install counters, `site_meta` |
| `generate-og` | timer | none | images, `packages.og_image_*` |
| `serve` | always | none | `install_events`, sessions |

All share one SQLite database in WAL mode (one connection per process), so a statement
or a transaction is one step of a model and anything may happen between two of them.
Directories, `current` and the bucket have no transaction with the table.

### Components

| component | state | operations | what is hard | what makes it correct | module |
|---|---|---|---|---|---|
| discover (`discover.go`, `svn.go`) | shell rows, `last_committed`, SVN revision in `site_meta` | list slugs, read the log in chunks, mark, store the revision | log replica lag, crash before the revision is stored | no commit is passed over while its row is clean | PackageSync, SvnLog |
| update (`update.go`, `package.go`) | versions, `is_active`, `last_synced_at` | query dirty rows, fetch in parallel, decide, write in batches of 100 | API cache, review queue, half-written batches, check-status in between | a package behind its release stays dirty; in the end the table agrees with WordPress.org | PackageSync |
| check-status (`check_status.go`) | `is_active`, `permanently_closed` | snapshot, fetch, deactivate, tombstone, reactivate | no lock; decisions from old snapshots | as above; closures are reported | PackageSync, MassClosures |
| published times (`published_times.go`) | version to first-seen time, `content_hash` | merge, reset, backfill | three writers, each from what it read before | times only move forward and cover every commit passed; the hash is that of the content | PublishedTimes |
| versions (`internal/version`, `internal/composer`) | none | normalise, compare, filter, latest | Go's map order, missing segments, pre-releases | the outcome does not depend on the order; the newest stable version is current | Versions |
| build (`builder.go`, `build.go`) | directory per build id, `metadata_changes` | snapshot, files, delete detection, manifest | snapshot id and rows are two queries | a deletion that is announced was one (it need not be) | R2Deploy, ChangesFeed |
| deploy (`deploy.go`, `internal/deploy`) | `current`, R2 objects, `deployed_hash`, `r2_synced_at` | sync, promote, roll back, clean up, delete orphans | four stores without a transaction, skip-by-comparison, partial deletes | the promoted build is complete and on R2; nothing on R2 is forgotten | R2Deploy |
| build records (`pipeline.go`) | `builds.status`, pid | reserve, fail, complete, cancel stale | crashes, pids used again | only rows of dead runs are cancelled | none |
| changes feed (`http/changes.go`) | `metadata_changes`, client checkpoint | record, prune, poll | an answer is two queries, rows are dated before they are written | a polling client misses nothing, but in known cases | ChangesFeed |
| telemetry (`internal/telemetry`) | `install_events`, watermark, counters | ingest, aggregate, prune | inserts between MAX(id) and the transaction, overlapping runs | every install is counted, and once | InstallTelemetry, InstallCounter |
| mass closures (`reports/closures.go`) | `closure_events` | group by vendor, extend or open an event | sliding window, overlapping transactions | one event per outbreak, no outbreak unreported | MassClosures |
| Open Graph images (`internal/og`) | images, `og_image_*` | choose, render, upload, mark | channels between workers and writer, kills between upload and mark | a package passed over has the right image; runs end | OgImages |

## 2. State of the plan

Done: the modules of section 3. Left: `SwitchLink` (Promote's temporary link with two
promoting processes, shown to implement an atomic switch), directories half removed,
deploys with R2 off.

## 3. Modules

### PackageSync

| state | code |
|---|---|
| `truth`, `listed` | the directory: newest tag, published release, open / closed / closed for good (external) |
| `api` | what the API's cache answers (external) |
| `log` | commits of a package against `site_meta.svn_revision_*`: unread, marked but not saved, read |
| `row` | one row of `packages`; `synced` is `last_synced_at` against `last_committed`, `age` the retry window that `last_committed` lies in |
| `phase` | who holds `pipeline.lock` and where it is |
| `task` | `runUpdate`'s goroutine, its queue slot or its place in the writer's batch |
| `check` | one goroutine of `runCheckStatus` with its snapshot of `is_active` |

Actions follow the commands: `StartDiscover`, `ListShells`, `SeedShell`,
`MarkPackagesChanged`, `SaveRevision`, `LogFailed`; `StartUpdate`, `ManualUpdate`,
`FetchOk` (with `Retry`, the decision of `shouldAdvanceSyncedAt`), `FetchClosed`,
`StoreClosed`, `TaskFailed`, `Flush` (with `Upsert`, the ON CONFLICT clause),
`FinishUpdate`; `StartCheck`, `CheckFetch`, `CheckStore`, `CheckFailed`; `Crash` drops
the lock and everything in memory.

Abstractions. A release is a number: `tag` is the highest stable tag in SVN, `pub` the
release the directory publishes; `pub < tag` is what `NormalizeAndStoreVersions` reports
as a pending stable. Time is three windows. `GrowOld` lets a package leave a window only
once the API has caught up (and a theme the second only after review): the comments of
`update.go` give 24 hours and 7 days as chosen for that. `Paced` are the packages
whose releases are further apart than their syncs. Other columns, trunk revisions and
statistics are left out.

### R2Deploy

| state | code |
|---|---|
| `rows` | `is_active`, the content of the row as a version number, `deployed_hash` set or not |
| `builds` | directory state (reserved id, being written, valid, removed), what each package says in it, `r2_synced_at` |
| `current` | target of the symlink |
| `bucket` | what each p2 object says, 0 for none |
| `proc` | program counter and local variables of the pipeline and of the operators' commands |

`ReadRows`, `FinishBuild` are `repository.Build`; `BeginSync`, `Upload`, `Stamp`,
`ListGone`, `DeleteObjects`, `ClearHash`, `PutRoot` are `SyncToR2` line by line;
`RecordR2Sync`, `Promote` end `runDeploy`; `ListOld`, `RemoveBuild` are
`deploy.Cleanup`; `StartSweep`, `SweepBatch`, `ClearHash`, `FinishSweep` are
`BulkDeleteDeactivated`. `Abort` is an error return (`Refused`: the build a command
works on is gone) or, with `Faults`, any failure or a crash. A failed upload is an
`Abort` after some of the uploads, a failed delete a `DeleteObjects` of only some keys.

Abstractions. Content versions stand for bytes; `packages.json` depends on the
configuration only. Both p2 files of a package say the same version, and a package with
no dev file is one whose `Kinds` is a singleton. A manual build reads any subset of the
rows (`--package`, and rows left out by the snapshot id). Not modelled: deploys with R2
switched off, half-removed directories, `current.tmp`, two builds in one second, retries
inside a call (a call succeeds or fails as a whole), the integrity check.

`Status` says when check-status opens and closes packages: never, only when all commands
are idle, or at any time. `Operators` is empty for the pipeline alone. With `Faults` a
`DeleteObjects` request of the sweep may fail as a whole; with `SweepFails` it may also
delete some of its keys and not others.

### Versions, SvnLog, PublishedTimes

`Versions` has the pure functions: `Normalize`, `preferRawVersion`, `Compare`,
`FilterNewerThan`, `Latest`, which versions a p2 file lists, and what `content_hash`
covers. A name is a record (what precedes the number, the numbers, the rank of its
suffix). Where the code ranges over a map the operators take the names in a sequence, and
the models take every order: `NormalizeInOrder` folds the loop's body, `Take`, over it,
and `Highest` folds that of `Latest`, `Higher`, over the indices. `SvnLog` says which
versions a commit touches: tags added, replaced, edited or deleted, readmes, `tags/`.

`PublishedTimes` follows one row through the three commands that write its times.

| state | code |
|---|---|
| `clock`, `svn` | now, and the SVN log with its dates (one clock for both) |
| `stored`, `base` | `site_meta` revision; the revision of discover's first run (history) |
| `row` | `is_active`, clean or dirty, `versions_json`, `current_version`, `trunk_revision`, `published_times_json` (`stamped`: not NULL), `content_hash` |
| `phase`, `scan`, `task` | who holds the lock, its cursor, the row it will write |

`FirstRun`, `StartScan`, `ReadChunk`, `MarkChunk`, `SaveRevision`, `FetchFailed` are
`markChangedFromSVNLog`; `StartUpdate`, `FetchOk`, `Flush` an update of the row;
`StartBackfill`, `WalkChunk`, `ReadUntimed`, `FillUntimed` are
`backfill-published-times`; `Deactivate` and `Reactivate` are check-status. Left out:
JSON that cannot be read, keys stored before normalisation, tombstones.

### ChangesFeed

| state | code |
|---|---|
| `table` | `is_active`, content (0: nothing to list), `last_sync_run_id` |
| `proc` | the pipeline and builds by hand: step, snapshot id, the previous build's files, what will be recorded |
| `served`, `feed` | the promoted build; `metadata_changes` |
| `client` | the timestamp of its last answer, and the one the answer under way will carry |
| `unseen`, `told` | history: changes of finished builds the client has not heard of, each with its fate (written ahead of what clients were told, behind it, not written, pruned during an answer); the latest time clients may have been told |

`TakeSnapshot` and `ReadRows` are the two queries of `builder.go`, `RecordChanges`,
`FailToRecord` and `PruneChanges` the end of `runBuild`, `Abort` an error or a crash;
`PollResync`, `PollCheckpoint`, `PollRows` are `handleMetadataChanges`. A row the build
skips (unreadable, or a theme without a tagged version) is one of content 0. Builds by
hand run at any time, time passes anywhere, pruning too. The feed is written before the
deploy, as in the code: a client that asks in between fetches the old file. A deploy or
rollback by hand announces nothing and is left out.

### InstallTelemetry, InstallCounter

| state | code |
|---|---|
| `request` | the download a client is having recorded: `LookupPackageID`, then `RecordInstall` |
| `events`, `watermark` | `install_events` with their ids and dedupe buckets, `aggregate_watermark` |
| `monthly`, `counter` | `monthly_installs` (its months summed), the three columns of `packages` |
| `run` | two runs of `AggregateInstalls`, of the timer and of an operator |
| `recorded`, `uncounted`, `raced` | history |

One action per statement or transaction of `AggregateInstalls` that writes (each of the
two recounts is two UPDATEs); the lookup takes the time, which the code takes right
after it. `ManualAt` bounds when an operator starts a run. `InstallCounter` is the
promise of `docs/telemetry.md`: a count that a run brings up to the number of installs,
exactly unless there was a race. `raced` becomes TRUE when a run begins while another is
between its first read and its transaction, or an install is recorded between MAX(id)
and the transaction. The model is shown to implement it (`CountsInstalls`). Downloads
that are not recorded (unknown, inactive, unnamed, past the hundredth) are steps that
change nothing and left out. `Tick` excludes a year without an install: pruning the
newest event would give its id to the next one.

### MassClosures

`changes` are the closures of `status_check_changes`, `events` the rows of
`closure_events` by vendor, `check` each running check-status, `tracked` (history) the
closures that committed runs have looked at. `BeginTx` and `CommitTx` are the
transaction of `TrackMassClosures`; its snapshot is stale once another process has
committed, and SQLite then refuses the first write (`RollbackTx`). `Recorded` is the
decision per vendor: nothing, extend the latest event, open a new one without what the
latest has. The clean-up of the last 50 checks deletes rows that no window contains any
more, which holds for checks an hour apart. Plugins without an author, and those of an
author without a slug, belong to `NoVendor` and are skipped, as in the code. Authors
whose names have the same slug share events in the code; the model has none. `BeginTx`
is time.Now and the first SELECT, where SQLite takes the snapshot.

### OgImages

`total`, `active`, `mark` are columns of `packages`, `image` the label on the uploaded
image, `work` what `GenerateAll` has not yet sent, `worker` its goroutines, `updates`
the channel to the writer; a row stays in it until it is written, one fewer than the
code can have under way. `FormatInstalls` is the label of a count: thousands round half
to even, as Go does; in millions a tie rounds up, while Go's result depends on the
binary fraction (no count of the run is one). `Cancel` is a cancelled context, `Crash` a
kill. One run at a time, counts that only grow; drawing and other fields of the image
are left out.

### Proof modules

`<Module>Proofs` holds the theorems about a module, `Extremes` two lemmas on least and
greatest elements that some of them share.

## 4. Runs

`TypeOK` is the type invariant of each module. Every property of a passing run has a
mutant (an operator named beside the definition it replaces) that breaks it.

| run | instance | shows |
|---|---|---|
| PackageSyncLag | a plugin and a theme, batch of 2, 2 changes, API lag, paced | `NoStrandedRelease` under every interleaving of all commands, failures and crashes |
| PackageSyncCalm | a plugin with 4 changes, closures and a fresh API, or a theme with 2 changes, lag and review | `NoStrandedRelease`, `RevisionPassesOnlyDirtyRows`, `Converges` |
| R2DeploySteady | 2 packages, 4 builds, 3 contents, pipeline alone: failures and crashes and no closures, or closures between complete runs | `ServedFresh`, `OrphansKnown` |
| R2DeployTurns | pipeline and an operator's builds, deploys, rollbacks and sweeps in turns, cleanups by hand beside the pipeline, failures and crashes, 3 builds, 1 package with 2 files, closures at any time | `CurrentComplete`, `HashClearedOnlyWhenGone`, `GoneInTheEnd` |
| R2DeploySweep | the same with `SweepFails` | violation of `HashClearedOnlyWhenGone` |
| PublishedTimes | 1 plugin with the tags 1.0, v1.0, .5, a pre-release and 2.0; 3 revisions, 3 moments | `TimesOnlyForward`, `ServedTimesCover`, `HashCurrent`, `VersionsSettle`, `CurrentIsHighest` |
| ChangesFeed | 1 package, 2 contents, pipelines beside builds by hand, 2 sync runs, 3 moments, retention of 1 | `NothingMissed` |
| ChangesFeedSnapshot | the same, 2 moments | violation of `DeletedWereGone` |
| InstallTelemetry | 1 package, 1 client, 2 runs side by side, 2 installs, 4 moments | `NothingSkipped`, `LastInstalledCovers`, `TotalsOnlyGrow`, `CountsInstalls`, `CountsInTheEnd` |
| MassClosures | 4 plugins of a vendor, 2 checks side by side, threshold 2, 3 moments | `DetectedApart`, `EveryOutbreakReported`, `EventsOnlyGrow` |
| OgImages | 2 packages, 2 workers, a channel of 1, counts 0, 99, 1000, 1499 | `ImageCurrent`, `RunsEnd`, `ImagesInTheEnd` |
| MassClosuresShared | 4 plugins, 1 check, 4 moments | violation of `AdjacentShareNothing` |

The three violations are the findings of `PROJECT.json`:

- `cleanup.go:36-37` and `133-134` promise that a batch of the sweep clears
  `deployed_hash` only for packages whose keys all succeeded; the loop of `120-131`
  appends the package of every key that did, so one failed key of two is forgotten.
- `architecture.md:71-75` says that the snapshot id prevents mixed states when updates
  run concurrently; a row stamped between the two queries of `builder.go:80-101` is left
  out of the build and announced as deleted.
- `closures.go:95-99` says that subtracting the prior event's slugs keeps adjacent
  events apart, but the branch that extends an event (`137-161`) subtracts nothing: a
  plugin of the prior event whose closure is still in the window ends up in both.

### What the passing runs assume

`ServedFresh` and `OrphansKnown` hold when nothing but the timers runs and either
packages close only between complete runs or failures happen while they stay as they
are (`MCR2Steady`). In R2DeployTurns the commands take turns, except that a cleanup by
hand runs beside the pipeline, and a sweep's request fails as a whole or not at all:
`HashClearedOnlyWhenGone` is false otherwise (R2DeploySweep). `NothingMissed` allows
three losses: rows that were not written, rows written behind a timestamp that clients
have, rows pruned between the two queries of an answer. `EveryOutbreakReported` counts
what the latest event has as reported however old that event is, and is silent on
plugins without a vendor. `CountsInstalls` excuses races: `raced`. `ServedTimesCover`
begins at the revision of discover's first run.

### Observations

Behaviours of the code that these assumptions leave out; each can be seen by changing
the constants or the specification of one run. Where a line of the repository says
otherwise, it is named.

- `package.go:408`: a batch of update, fetched before check-status tombstoned a package,
  sets `is_active = 1` over the tombstone, and nobody polls it again (`Converges`
  excuses tombstones).
- `update.go:305`, `Paced = {}` in PackageSyncLag: of two releases within one cache
  delay the first is taken for the second, which is not fetched.
- `Lag`, `Paced` with `p1` in PackageSyncCalm: a package that is closed, released and
  reopened while the API is stale is past its retry window at once.
- `r2.go:103`, `Status = "any"` with `Spec` in R2DeploySteady: a package closed after
  the build read it and before the stamp is uploaded but not stamped; nothing deletes
  its objects. So is one that is closed after a crash between upload and stamp.
- `r2.go:77`, the same run, or failures in a calm history: a package whose objects a
  sync deletes while the build it promotes lists it is skipped as unchanged when it is
  reopened with the same content.
- `local.go:77`, `Spec` instead of `TurnsSpec`: a rollback promotes a build that a
  `Cleanup` beside it has already decided to remove.
- `changes.go:65` ("to avoid race with concurrent inserts") against `74-76`: on an empty
  table the answer carries the clock, and a build that ended a moment earlier and
  records later is never delivered. Nor are the rows of a build by hand that ended before
  a pipeline's and is recorded after it, rows pruned between the two queries (`67-82`,
  `build.go:101-106`), and those whose transaction failed (`build.go:95-99`, logged).
- `aggregate.go:41-60` against `docs/telemetry.md:93`: an install between MAX(id) and
  the transaction, or an overlap of two runs, is counted twice.
- `ingest.go:62`: the dedupe hash joins its parts without separators.
- `published_times.go:172-174` says that a backfilled time is never earlier than the
  version's publication, so a cooldown is never shortened; a tag that the API calls
  stable only after its last commit was published later than the time it gets
  (`architecture.md:69` names this as a known limitation). No property claims it.
- `closures.go:77-79` ("the window has reset and we create a new event") against
  `101-115`: what the vendor's latest event has is subtracted however old that event is,
  so plugins that are reopened and closed again a month later open none.
- `closures.go:40-42` fears a race that cannot happen: a transaction with a stale WAL
  snapshot is refused its first write.

### Bounds

`MaxMoves` bounds what WordPress.org does, never what the commands do: updates,
discovers, checks, failures and crashes repeat without limit. Two moves are a tag and
its approval, or two releases; four, close, release, reopen, release. One living
package is enough where the property concerns a row by itself, since packages share only
the lock, the revision and the batch; PackageSyncLag has two for the batch.

Four builds are a first deploy, a failed one, one that follows it and one more; three are
the promoted one, one for `Retain = 1` to keep and one to remove beside the next
pipeline. Three contents let a row change twice between builds.
The code clamps the retained builds to 5; fewer makes removal happen in a smaller
instance.

`MaxCommits = 3` in PublishedTimes gives a revision before discover's first run and two
after it, in one chunk or two (`Chunk = 1`), with `MaxClock = 3` on either side of the
backfill's window. In ChangesFeed two runs and three moments are a change, its deletion
and the pruning of the first row while a client asks; builds are not bounded. In
InstallTelemetry two installs and two runs are the least for a race, and four moments
let both windows pass. In MassClosures a threshold of 2 and four plugins make two
outbreaks, and three moments with `Window = 1` an event that ends and one that follows;
the finding needs a fourth. In OgImages 1000 and 1499 read the same, so that a package
is passed over although its count has grown.

Deadlock is checked in `PackageSync`, `InstallTelemetry`, `MassClosures` and `OgImages`.
In `R2Deploy` the build ids, in `ChangesFeed` run ids and clock, in `PublishedTimes`
clock and revisions run out, so there it is not.

### Fairness

In `MCPackageSync!CalmSpec` everything may happen, until nothing fails or is run by hand
any more; weak fairness of the pipeline as a whole, of check-status and of the API's
cache is then enough. Changes upstream are never obliged to happen. In
`MCR2Deploy!TurnsSpec` failures happen any finite number of times and then syncs run to
their end: `SyncToR2` promises retries of transient failures only.
`InstallTelemetry!LiveSpec` starts a run every hour (weak fairness) and does not kill
every one before it has counted (strong fairness of the steps up to the transaction).
`OgImages!RunFairness` is that a run nobody kills goes on, whatever fails, which is what
`RunsEnd` needs; `ImagesInTheEnd` needs that one day nothing fails any more.

## 5. Proofs

The theorems hold for every value of the constants. Each module also has `TypeCorrect`,
`Spec => []TypeOK`. Each rests on the ASSUME of its module, which TLC evaluates.

| module | theorem | says | assumes |
|---|---|---|---|
| PackageSyncProofs | `LockDiscipline` | `Spec => []LockInv` | |
| | `RevisionSafe` | `Spec => RevisionPassesOnlyDirtyRows` | |
| | `NoStrandedFresh` | `Spec => []NoStrandedRelease` | `Lag = {}`, `Themes = {}` |
| | `NoStrandedPaced` | `Spec => []NoStrandedRelease` | `Paced = Packages`, nothing closed |
| R2DeployProofs | `HashKept` | `Spec => HashClearedOnlyWhenGone` | `Operators = {}` |
| | `CurrentKept` | `Spec => []CurrentComplete` | `Operators = {}` |
| | `HashKeptInTurns` | `Spec /\ []Apart => HashClearedOnlyWhenGone` | `~SweepFails`: no single key of a sweep fails |
| | `CurrentKeptInTurns` | `Spec /\ []Apart => []CurrentComplete` | |
| | `FreshlyServed` | `Spec => []ServedFresh` | `Operators = {}`, `Steady` |
| PublishedTimesProofs | `NoTimeMovedBack` | `Spec => TimesOnlyForward` | |
| | `TimesCoverCommits` | `Spec => []ServedTimesCover` | |
| | `HashesAreCurrent` | `Spec => []HashCurrent` | |
| | `SameAnswerSameVersions` | `Spec => VersionsSettle` | |
| | `CurrentVersionHighest` | `Spec => []CurrentIsHighest` | |
| ChangesFeedProofs | `ClientMissesNothing` | `Spec => []NothingMissed` | |
| InstallTelemetryProofs | `NoneSkipped` | `Spec => []NothingSkipped` | |
| | `DatesCover` | `Spec => []LastInstalledCovers` | |
| | `NoTotalTakenBack` | `Spec => TotalsOnlyGrow` | |
| | `CountsEveryInstall` | `Spec => CountsInstalls`, the refinement | |
| MassClosuresProofs | `EventsGrow` | `Spec => EventsOnlyGrow` | |
| | `OneEventPerOutbreak` | `Spec => []DetectedApart` | |
| | `OutbreaksReported` | `Spec => []EveryOutbreakReported` | |
| OgImagesProofs | `PassedOverIsCurrent` | `Spec => []ImageCurrent` | |

`RevisionPassesOnlyDirtyRows` needs that between mark and save nothing cleans a row,
which is `LockInv`: tasks exist only in phase `update`, marks only in phase `log`, and a
marked row of a served package is dirty, whatever check-status writes in between.

`NoStrandedRelease` is not inductive: an update in flight carries a release to a row
that a flush will declare clean. `FreshInv` adds that what it carries is the published
release, or that a commit made since will still be marked. With API lag and
reviews it may be old, and `PacedInv` argues per package: the API answers with the row's
release or the published one (`OneBehind`), a write that cleans the row carries the
latter (`CleansWithLatest`), because while an old answer can still come the row is in
the window in which it is retried (`InWindow`).

`HashClearedOnlyWhenGone` needs `HashInv`: the packages whose hash is about to be
cleared have no object, because the process that deleted them is the only one that
uploads and it is not uploading now. `CurrentComplete` needs `CurrentInv`: a reserved
build is not the promoted one and neither is a doomed one. With `Operators = {}` only
timers run. In `HashKeptInTurns` and `CurrentKeptInTurns` operators act too, and `Apart`
says that no two commands run at once (the run R2DeployTurns allows a cleanup beside the
pipeline as well). `EmptiedInv` and `SparedInv`
say of each command what `HashInv` and `CurrentInv` say of the pipeline, and of a sweep
that what it has listed, no longer holds and did not fail on has no object left. Requests
may fail as a whole; that the theorem is false when single keys fail is R2DeploySweep,
and the observation on rollback shows that the other needs `Apart`.

`ServedFresh` compares the promoted build with the bucket, and `SyncToR2` never looks at
the bucket: it skips what the previous build already said. `ServedInv` therefore says
that the build under way is the newest (`InOrder`, `Newest`) and lists the open packages,
as new as any build has them and no newer than their rows (`Lists`, `RowsAhead`), what a
run holds in hand (`Chosen`), what of its build has been sent (`Uploaded`), what of the
promoted one is there (`Served`), and that an object whose row has no `deployed_hash`
belongs to an open package (`Known`). `Steady` is the condition of R2DeploySteady: no
status changes (failures allowed), or statuses change between complete runs. The
observations on `r2.go` show that neither half can be dropped. `OrphansKnown` is left to
TLC: under `Steady` it says little for every instance, and without it it is false.

`TimesOnlyForward` compares the row with one that was read earlier. `TaskInv` says that
between `StartUpdate` and `Flush` the times in hand are at least the row's, which holds
because the lock keeps the other two writers out and check-status leaves times alone;
`RowInv` that a row without the mark of a backfill has no times, so a merge that starts
them cannot move one back; `LogInv` and `ScanInv` that nothing in the log or the window
lies in the future.

For the other properties of `PublishedTimes` `FullInv` says what each phase owes.
`OrderInv`: dates in the log never fall and the stored revision is in it. `SpanInv`: how
far the scan has read, marked and stored, and what the backward walk has read when it
reaches the window's start; a commit it has not read is older than the window.
`AnswerInv`: versions, current version and answer of a row, at rest or about to be
written, come from one outcome of one answer. `CoverInv`: the times in the row and those
in hand cover the commits up to the revision reached (not only stored: times are written
ahead of it). `HashInv`: the hash of a clean row is current, or a commit behind the
cursor will make it dirty, and the row in hand has the trunk revision and the times of
the stored one wherever `Flush` keeps these. `ServedTimesCover`, `HashCurrent`,
`VersionsSettle` and `CurrentIsHighest` follow; `TypeOK` adds `PlainInv`, the types of
what is in hand.

That an outcome does not depend on the order of the names is a theorem about two folds:
the lemmas `Chosen` and `Ascent` say what a fold has after its first `n` names, and are
proved for every `n` by the least one for which they would fail. A raw name is in the
result of `NormalizeInOrder` if and only if none of its version is preferred to it
(`AllChosen`, `OrderIrrelevant`), and `Highest` has a name that none of the others is
above (`HighestIsOne`, `NoneAbove`), since `Compare` is transitive (`CompareOrder`).

`NothingMissed` has no assumption: pipelines, builds by hand, failures, pruning and polls
interleave in any way. `Heard` makes it inductive: no timestamp a client has, or is
about to get, is later than `told`; no row of the feed is; and a change written ahead of
what clients were told lies after the client's timestamp and is still in the feed, or so
old that the client will be told to fetch everything and has no answer under way that
passes it.

`NothingSkipped` is threatened by pruning and by a watermark read before the
transaction. `IInv` of InstallTelemetryProofs adds that every watermark a run has read
or will write is at most MAX(id) (`Below`), that the newest event cannot be pruned, so
ids grow (`Fresh`), and that what a run has not counted when it comes to prune was
recorded since it began (`PruneSafe`). `CInv` adds that totals lag behind the months
(`Behind`), so that recomputing them never lowers one. For the refinement `AInv` counts:
recorded installs are at most the months plus the events that wait, and exactly that
while no race has happened (`Accounted`); without a race a run that is about to count
holds the watermark and MAX(id) of the present (`Undisturbed`).

`DetectedApart` and `EventsOnlyGrow` are inductive together with the types and
`EventsPast`: a run that opens an event found none within its window, and its snapshot
was still the database when it wrote. `EveryOutbreakReported` follows a case split on
`Recorded`: what is in the window and in neither of the latest two events is below the
threshold after each of its branches (a new event takes all that the latest lacks, which
becomes the second), and what is older leaves the window as the clock moves.

`ImageCurrent` is not inductive: marks lag behind uploads, and runs die between the two.
`Shown` is what survives: the image of a marked package shows some count between the
mark and the present one. `Between` then gives the property: a count between two that
read the same reads the same, since each range of `FormatInstalls` rounds monotonically
and has its own unit.
`FlightInv` (what a run has read lies between mark and count, the rows of a package in
flight agree, and nothing is in flight between runs) and `UploadedInv` (a row that waits
for its mark has its image) make it inductive.

Only model-checked: all liveness, since fairness and ENABLED are out of the prover's
reach, `OrphansKnown`, and what `R2Deploy` promises when commands overlap.
Induction over data is out of reach too: folds are reasoned about by a least
counterexample.

## 6. Not modelled

- `deploy.Sync` (incremental R2 sync): no caller.
- The backfill of trunk revisions in `discover.go`: a migration of old rows.
- HTTP and admin pages, markdown, SEO, sessions, rate limits, configuration,
  provisioning, blog and Packagist readers: no protocol between processes.
- SQLite, goose, Litestream: used as they are.
- Inside the modelled parts: what section 3 leaves out, and the rows of `builds` (status,
  pid), `sync_runs` and `package_stats`.
