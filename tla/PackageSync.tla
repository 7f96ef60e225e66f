----------------------------- MODULE PackageSync -----------------------------
(***************************************************************************)
(* How the packages table follows WordPress.org.  Three programs write the  *)
(* table: the pipeline (discover, then update), the same two steps run by   *)
(* hand, and check-status.  Discover and update exclude each other through  *)
(* the pipeline lock; check-status takes no lock, so its writes, decided    *)
(* from a snapshot of the table and a later answer of the API, fall between *)
(* any two steps of an update.                                              *)
(*                                                                          *)
(* Time is abstracted to what the code asks of it: whether last_synced_at   *)
(* is NULL, before or after last_committed (field "synced"), and which of   *)
(* the two retry windows last_committed still lies in (field "age").        *)
(***************************************************************************)
EXTENDS Naturals, FiniteSets

CONSTANTS
  Packages,    \* the packages of the repository
  Themes,      \* those whose releases pass the theme review queue
  BatchSize,   \* writeBatchSize of the update's writer goroutine
  MaxMoves,    \* bound: how many times WordPress.org changes something
  Lag,         \* those whose answers the API may serve from its cache
  Paced,       \* those whose releases are further apart than their syncs
  Closures,    \* those that may be closed and reopened
  Permanent    \* those that may be closed for good

ASSUME SyncAssumption ==
  /\ {Themes, Lag, Paced, Closures, Permanent} \subseteq SUBSET Packages
  /\ BatchSize \in Nat \ {0}
  /\ MaxMoves \in Nat

VARIABLES
  truth,    \* per package: newest tag in SVN, release the directory publishes
  api,      \* the same pair as the API (its cache) answers
  listed,   \* how WordPress.org lists the package
  log,      \* commits of the package relative to the stored SVN revision
  moves,    \* how many changes WordPress.org may still make
  row,      \* the packages table
  phase,    \* which locked step runs; "free" when nobody holds the lock
  task,     \* what the running update does with each package
  check     \* what the running check-status does with each package

upstream == <<truth, api, listed, moves>>
vars == <<truth, api, listed, log, moves, row, phase, task, check>>

-----------------------------------------------------------------------------
Synced == {"never", "before", "after"}   \* last_synced_at vs last_committed
Age == 0 .. 2      \* last_committed: at most 24h ago, at most 7 days, older

NoBump == 3        \* the API's last_updated is not newer than last_committed

Release == [tag : Nat, pub : Nat]
Row == [status : {"absent", "active", "inactive"}, tombstone : BOOLEAN,
        ver : Nat, synced : Synced, age : Age]
NoTask == [step |-> "none", ver |-> 0, synced |-> "never", bump |-> NoBump]
Task == [step : {"none", "queued", "write", "deactivate", "tombstone"},
         ver : Nat, synced : Synced \cup {"now"}, bump : Age \cup {NoBump}]

TypeOK ==
  /\ truth \in [Packages -> Release]
  /\ api \in [Packages -> Release]
  /\ listed \in [Packages -> {"open", "closed", "permanent"}]
  /\ log \in [Packages -> {"read", "marked", "unread"}]
  /\ moves \in Nat
  /\ row \in [Packages -> Row]
  /\ phase \in {"free", "listing", "log", "discovered", "update"}
  /\ task \in [Packages -> Task]
  /\ check \in [Packages -> {"none", "active", "inactive",
                             "deactivate", "tombstone", "reactivate"}]

Init ==
  /\ truth = [p \in Packages |-> [tag |-> 1, pub |-> 1]]
  /\ api = truth
  /\ listed = [p \in Packages |-> "open"]
  /\ log = [p \in Packages |-> "read"]
  /\ moves = MaxMoves
  /\ row = [p \in Packages |-> [status |-> "absent", tombstone |-> FALSE,
                                ver |-> 0, synced |-> "never", age |-> 2]]
  /\ phase = "free"
  /\ task = [p \in Packages |-> NoTask]
  /\ check = [p \in Packages |-> "none"]

Known(p) == row[p].status # "absent"
Polled == {p \in Packages : Known(p) /\ ~row[p].tombstone}
Dirty(p) == row[p].synced # "after"

-----------------------------------------------------------------------------
(* WordPress.org: SVN commits, releases, reviews, closures, the API cache.  *)

\* A release on a package comes after the one before it has been synced.
PaceOK(p) == p \in Paced => row[p].ver = truth[p].pub

Change(p, t, l) ==
  /\ moves > 0
  /\ moves' = moves - 1
  /\ truth' = [truth EXCEPT ![p] = t]
  /\ api' = IF p \in Lag THEN api ELSE [api EXCEPT ![p] = t]
  /\ log' = [log EXCEPT ![p] = l]
  /\ UNCHANGED <<listed, row, phase, task, check>>

CommitTag(p) ==
  /\ PaceOK(p)
  /\ Change(p, [truth[p] EXCEPT !.tag = @ + 1], "unread")

CommitRelease(p) ==
  /\ p \notin Themes
  /\ PaceOK(p)
  /\ Change(p, [tag |-> truth[p].tag + 1, pub |-> truth[p].tag + 1], "unread")

\* The stable tag of a plugin is moved to a tag committed earlier.
CommitStable(p) ==
  /\ p \notin Themes
  /\ truth[p].pub < truth[p].tag
  /\ PaceOK(p)
  /\ Change(p, [truth[p] EXCEPT !.pub = truth[p].tag], "unread")

\* A commit that releases nothing (readme, assets).
CommitOther(p) == Change(p, truth[p], "unread")

\* The review queue publishes a theme's tag; no SVN commit goes with it.
ApproveTheme(p) ==
  /\ p \in Themes
  /\ truth[p].pub < truth[p].tag
  /\ Change(p, [truth[p] EXCEPT !.pub = truth[p].tag], log[p])

RefreshApi(p) ==
  /\ api[p] # truth[p]
  /\ api' = [api EXCEPT ![p] = truth[p]]
  /\ UNCHANGED <<truth, listed, log, moves, row, phase, task, check>>

Relist(p, from, to) ==
  /\ moves > 0
  /\ listed[p] = from
  /\ moves' = moves - 1
  /\ listed' = [listed EXCEPT ![p] = to]
  /\ UNCHANGED <<truth, api, log, row, phase, task, check>>

Close(p) == p \in Closures /\ Relist(p, "open", "closed")
Reopen(p) == Relist(p, "closed", "open")
ClosePermanently(p) ==
  p \in Permanent /\ \E from \in {"open", "closed"} : Relist(p, from, "permanent")

\* Time passes: last_committed leaves the 24 hour, then the 7 day window.
\* The windows are chosen longer than the cache delay and the review queue.
GrowOld(p) ==
  /\ row[p].age < 2
  /\ api[p] = truth[p]
  /\ (row[p].age = 1 /\ p \in Themes) => truth[p].pub = truth[p].tag
  /\ row' = [row EXCEPT ![p].age = @ + 1]
  /\ UNCHANGED <<upstream, log, phase, task, check>>

-----------------------------------------------------------------------------
(* discover, under the pipeline lock.                                       *)

\* Mutant: the pipeline lock is not taken.
GotoUnlocked(from, to) == phase' = to

Goto(from, to) == phase = from /\ phase' = to

StartDiscover ==
  /\ Goto("free", "listing")
  /\ UNCHANGED <<upstream, log, row, task, check>>

Shell == [status |-> "active", tombstone |-> FALSE, ver |-> 0,
          synced |-> "never", age |-> 2]

\* discover --source=svn: the listing adds a shell row for each new slug S; a
\* row that exists keeps its state (the listing has no dates).
ListShells(S) ==
  /\ Goto("listing", "log")
  /\ \A p \in S : ~Known(p)
  /\ row' = [p \in Packages |-> IF p \in S THEN Shell ELSE row[p]]
  /\ UNCHANGED <<upstream, log, task, check>>

\* last_committed moves to a later time, now in window a.
Committed(r, a) ==
  [r EXCEPT !.synced = IF @ = "never" THEN "never" ELSE "before", !.age = a]

\* discover --source=config: one seed; its last_updated may be newer than the
\* row's last_committed and then replaces it, unless the row is a tombstone.
SeedShell(p) ==
  /\ phase = "listing"
  /\ \/ /\ ~Known(p)
        /\ \E a \in Age : row' = [row EXCEPT ![p] = [Shell EXCEPT !.age = a]]
     \/ /\ p \in Polled
        /\ \E a \in 0 .. row[p].age : row' = [row EXCEPT ![p] = Committed(@, a)]
  /\ UNCHANGED <<upstream, log, phase, task, check>>

SeedsDone ==
  /\ Goto("listing", "discovered")
  /\ UNCHANGED <<upstream, log, row, task, check>>

\* One chunk of the SVN log that names the packages S: active rows become
\* dirty; the commits of the others are dropped.
MarkPackagesChanged(S) ==
  /\ phase = "log"
  /\ S # {}
  /\ \A p \in S : log[p] = "unread"
  /\ row' = [p \in Packages |-> IF p \in S /\ row[p].status = "active"
                                THEN Committed(row[p], 0) ELSE row[p]]
  /\ log' = [p \in Packages |-> IF p \in S THEN "marked" ELSE log[p]]
  /\ UNCHANGED <<upstream, phase, task, check>>

\* The stored revision moves past the chunks that were marked.
SaveRevision ==
  /\ Goto("log", "discovered")
  /\ log' = [p \in Packages |-> IF log[p] = "marked" THEN "read" ELSE log[p]]
  /\ UNCHANGED <<upstream, row, task, check>>

Unmark == [p \in Packages |-> IF log[p] = "marked" THEN "unread" ELSE log[p]]

\* A failed write leaves the stored revision where it was.
LogFailed ==
  /\ Goto("log", "discovered")
  /\ log' = Unmark
  /\ UNCHANGED <<upstream, row, task, check>>

\* discover run by hand ends here, and so does a pipeline whose discover failed.
EndDiscover ==
  /\ Goto("discovered", "free")
  /\ UNCHANGED <<upstream, log, row, task, check>>

-----------------------------------------------------------------------------
(* update, under the pipeline lock.                                         *)

Queue(S) ==
  task' = [p \in Packages |->
             IF p \in S THEN [NoTask EXCEPT !.step = "queued", !.ver = row[p].ver,
                                            !.synced = row[p].synced]
                        ELSE NoTask]

NeedingUpdate == {p \in Polled : row[p].status = "active" /\ Dirty(p)}

\* The pipeline's update, and one run by hand without flags.
StartUpdate ==
  /\ phase \in {"free", "discovered"}
  /\ phase' = "update"
  /\ Queue(NeedingUpdate)
  /\ UNCHANGED <<upstream, log, row, check>>

\* update with --name, --force, --include-inactive, --type or --limit.
ManualUpdate(S) ==
  /\ Goto("free", "update")
  /\ S \subseteq Polled
  /\ Queue(S)
  /\ UNCHANGED <<upstream, log, row, check>>

\* Mutant: last_synced_at always advances.
RetryNever(p) == FALSE

\* shouldAdvanceSyncedAt decides to keep the package dirty and try again.
Retry(p) ==
  LET pending == api[p].pub < api[p].tag
      within == row[p].age = 0 \/ (pending /\ p \in Themes /\ row[p].age = 1)
  IN within /\ (pending \/ api[p].pub = task[p].ver)

FetchOk(p, bump) ==
  /\ task[p].step = "queued"
  /\ listed[p] = "open"
  /\ bump \in (0 .. row[p].age) \cup {NoBump}
  /\ task' = [task EXCEPT ![p] =
                [step |-> "write", ver |-> api[p].pub, bump |-> bump,
                 synced |-> IF Retry(p) THEN task[p].synced ELSE "now"]]
  /\ UNCHANGED <<upstream, log, row, phase, check>>

FetchClosed(p) ==
  /\ task[p].step = "queued"
  /\ listed[p] # "open"
  /\ task' = [task EXCEPT ![p].step =
                IF listed[p] = "permanent" THEN "tombstone" ELSE "deactivate"]
  /\ UNCHANGED <<upstream, log, row, phase, check>>

\* Mutant: a reopened package keeps its last_synced_at.
ReactivateClean(r) == [r EXCEPT !.status = "active"]

Deactivate(r) == [r EXCEPT !.status = "inactive"]
MarkPermanentlyClosed(r) == [r EXCEPT !.status = "inactive", !.tombstone = TRUE]
Reactivate(r) == [r EXCEPT !.status = "active", !.synced = "never"]

StoreClosed(p) ==
  /\ task[p].step \in {"tombstone", "deactivate"}
  /\ row' = [row EXCEPT ![p] = IF task[p].step = "tombstone"
                               THEN MarkPermanentlyClosed(@) ELSE Deactivate(@)]
  /\ task' = [task EXCEPT ![p] = NoTask]
  /\ UNCHANGED <<upstream, log, phase, check>>

\* A failed fetch, normalisation or write: the row stays as it is.
TaskFailed(p) ==
  /\ task[p].step \in {"queued", "tombstone", "deactivate"}
  /\ task' = [task EXCEPT ![p] = NoTask]
  /\ UNCHANGED <<upstream, log, row, phase, check>>

\* The ON CONFLICT clause: is_active and the versions are overwritten,
\* last_committed keeps the later value, last_synced_at survives a NULL.
Stored(r, w) ==
  [r EXCEPT !.status = "active", !.ver = w.ver,
            !.synced = CASE w.synced = "now" -> "after"
                         [] w.synced = "never" -> r.synced
                         [] OTHER -> w.synced]

\* Mutant: last_committed is overwritten even when last_updated is missing.
UpsertNull(r, w) == [Stored(r, w) EXCEPT !.age = w.bump]

Upsert(r, w) ==
  IF w.bump = NoBump THEN Stored(r, w)
  ELSE IF w.synced = "now" THEN [Stored(r, w) EXCEPT !.age = w.bump]
  ELSE Committed(Stored(r, w), w.bump)

Written == {p \in Packages : task[p].step = "write"}
Unanswered == {p \in Packages : task[p].step \notin {"none", "write"}}

\* The writer stores a full batch, or the rest once every fetch is done. The
\* rows of the batch are written in one transaction; when that fails they are
\* written one by one and only W are stored.
Flush(S, W) ==
  /\ S # {} /\ S \subseteq Written /\ W \subseteq S
  /\ \/ Cardinality(S) = BatchSize
     \/ S = Written /\ Unanswered = {} /\ Cardinality(S) < BatchSize
  /\ row' = [p \in Packages |-> IF p \in W THEN Upsert(row[p], task[p]) ELSE row[p]]
  /\ task' = [p \in Packages |-> IF p \in S THEN NoTask ELSE task[p]]
  /\ UNCHANGED <<upstream, log, phase, check>>

FinishUpdate ==
  /\ Goto("update", "free")
  /\ Written \cup Unanswered = {}
  /\ UNCHANGED <<upstream, log, row, task, check>>

\* The process that holds the lock dies: the kernel drops the lock, the batch
\* and the unsaved revision are gone.
Crash ==
  /\ phase # "free"
  /\ phase' = "free"
  /\ task' = [p \in Packages |-> NoTask]
  /\ log' = Unmark
  /\ UNCHANGED <<upstream, row, check>>

-----------------------------------------------------------------------------
(* check-status, without the lock.                                          *)

StartCheck ==
  /\ \A p \in Packages : check[p] = "none"
  /\ Polled # {}
  /\ check' = [p \in Packages |-> IF p \in Polled THEN row[p].status ELSE "none"]
  /\ UNCHANGED <<upstream, log, row, phase, task>>

\* The API's answer, compared with is_active as it was in the snapshot.
CheckFetch(p) ==
  /\ check[p] \in {"active", "inactive"}
  /\ check' = [check EXCEPT ![p] =
                 CASE listed[p] = "permanent" -> "tombstone"
                   [] listed[p] = "closed" /\ @ = "active" -> "deactivate"
                   [] listed[p] = "open" /\ @ = "inactive" -> "reactivate"
                   [] OTHER -> "none"]
  /\ UNCHANGED <<upstream, log, row, phase, task>>

CheckStore(p) ==
  /\ check[p] \in {"deactivate", "tombstone", "reactivate"}
  /\ row' = [row EXCEPT ![p] =
               CASE check[p] = "deactivate" -> Deactivate(@)
                 [] check[p] = "tombstone" -> MarkPermanentlyClosed(@)
                 [] OTHER -> Reactivate(@)]
  /\ check' = [check EXCEPT ![p] = "none"]
  /\ UNCHANGED <<upstream, log, phase, task>>

\* A failed fetch or write, for one package or (a crash) for the rest of them.
CheckFailed(S) ==
  /\ \E p \in S : check[p] # "none"
  /\ check' = [p \in Packages |-> IF p \in S THEN "none" ELSE check[p]]
  /\ UNCHANGED <<upstream, log, row, phase, task>>

-----------------------------------------------------------------------------
Upstream(p) ==
  \/ CommitTag(p) \/ CommitRelease(p) \/ CommitStable(p) \/ CommitOther(p)
  \/ ApproveTheme(p) \/ RefreshApi(p) \/ GrowOld(p)
  \/ Close(p) \/ Reopen(p) \/ ClosePermanently(p)

Discover ==
  \/ StartDiscover \/ SeedsDone \/ SaveRevision \/ LogFailed \/ EndDiscover
  \/ \E S \in SUBSET Packages : ListShells(S) \/ MarkPackagesChanged(S)
  \/ \E p \in Packages : SeedShell(p)

Update ==
  \/ StartUpdate \/ FinishUpdate
  \/ \E S \in SUBSET Packages : ManualUpdate(S) \/ \E W \in SUBSET S : Flush(S, W)
  \/ \E p \in Packages :
       \/ FetchClosed(p) \/ StoreClosed(p) \/ TaskFailed(p)
       \/ \E bump \in Age \cup {NoBump} : FetchOk(p, bump)

CheckStatus ==
  \/ StartCheck
  \/ \E p \in Packages : CheckFetch(p) \/ CheckStore(p)
  \/ \E S \in SUBSET Packages : CheckFailed(S)

Next == (\E p \in Packages : Upstream(p)) \/ Discover \/ Update \/ Crash \/ CheckStatus

Spec == Init /\ [][Next]_vars

-----------------------------------------------------------------------------
(* Properties.                                                              *)

\* No package is stranded: a served package that is behind the release its
\* directory publishes is dirty (the next update fetches it), or has a commit
\* that the stored SVN revision has not passed. (discover.go:262-269,
\* update.go:286-294, package.go:606-615)
NoStrandedRelease ==
  \A p \in Packages :
    row[p].status = "active" /\ row[p].ver # truth[p].pub
      => Dirty(p) \/ log[p] # "read" \/ row[p].tombstone

\* The pipeline lock keeps update's tasks and discover's marks apart, and a mark
\* waits for its revision to be saved on a row that stays dirty.
LockInv ==
  /\ phase # "update" => \A p \in Packages : task[p].step = "none"
  /\ \A p \in Packages : log[p] = "marked" =>
       phase = "log" /\ (row[p].status = "active" => Dirty(p))

\* With an API that never answers from a cache, an update in flight carries the
\* published release, or the package has a commit that discover will still mark.
FreshInv ==
  /\ api = truth
  /\ \A p \in Packages :
       task[p].step = "write" => task[p].ver = truth[p].pub \/ log[p] = "unread"
  /\ NoStrandedRelease

\* The same when the API may answer from its cache and themes wait for review, but
\* releases are paced and nothing is closed.  Six parts, for one package p.

\* check-status finds nothing to write.
NothingClosed(p) ==
  /\ listed[p] = "open"
  /\ row[p].status # "inactive" /\ ~row[p].tombstone
  /\ check[p] \in {"none", "active"}
  /\ task[p].step \in {"none", "queued", "write"}

\* The row has the release the directory publishes or, until it is synced, the
\* one before; the API answers with one of the two and never goes back.
OneBehind(p) ==
  /\ truth[p].pub \in 1 .. truth[p].tag
  /\ api[p].pub \in {row[p].ver, truth[p].pub}
  /\ row[p].ver <= api[p].pub /\ api[p].pub <= truth[p].pub
  /\ api[p].tag >= api[p].pub
  /\ row[p].ver # truth[p].pub => truth[p].pub = truth[p].tag
  /\ row[p].ver = 0 => api[p] = truth[p]
  /\ ~Known(p) => row[p].ver = 0

\* An update in flight works from the row as it still is.
TaskOfRow(p) ==
  /\ task[p].step # "none" => Known(p)
  /\ task[p].step = "queued" => task[p].ver = row[p].ver /\ task[p].synced # "now"
  /\ task[p].step = "write" =>
       /\ task[p].ver \in {row[p].ver, truth[p].pub} \ {0}
       /\ task[p].ver <= api[p].pub
       /\ task[p].bump <= row[p].age \/ task[p].bump = NoBump
  /\ task[p].step # "none" /\ task[p].synced = "after" => row[p].synced = "after"

\* While a stale answer, or an answer that announces a release, can still come,
\* the row is inside the window in which such an answer is retried.
InWindow(p) ==
  log[p] # "unread" =>
    /\ api[p] # truth[p] =>
         \/ row[p].age = 0
         \/ p \in Themes /\ api[p].pub < api[p].tag /\ row[p].age = 1
    /\ p \in Themes /\ truth[p].pub < truth[p].tag => row[p].age < 2 /\ Dirty(p)

\* A write that cleans the row carries the published release, and no review is
\* left that could publish another one without a commit.
CleansWithLatest(p) ==
  log[p] # "unread" /\ task[p].step = "write" /\ task[p].synced = "now" =>
    /\ task[p].ver = truth[p].pub
    /\ p \in Themes => truth[p].pub = truth[p].tag

BehindIsDirty(p) ==
  log[p] # "unread" /\ Known(p) /\ row[p].ver # truth[p].pub => Dirty(p)

PacedInv ==
  \A p \in Packages :
    /\ NothingClosed(p) /\ OneBehind(p) /\ TaskOfRow(p)
    /\ InWindow(p) /\ CleansWithLatest(p) /\ BehindIsDirty(p)

\* When the stored revision moves past a commit, the row of a served package
\* that was marked for it is still dirty: nothing may clean it between
\* MarkPackagesChanged and SetMeta. (discover.go:304-330, pipeline.go:28-37)
SaveStep ==
  \A p \in Packages :
    log[p] = "marked" /\ log'[p] = "read" /\ row[p].status = "active" => Dirty(p)
RevisionPassesOnlyDirtyRows == [][SaveStep]_vars

\* Once WordPress.org stops changing, the table agrees with it for good: an
\* open package is served at its published release, a closed one is not served.
Agrees(p) ==
  IF listed[p] = "open"
  THEN row[p].status = "active" /\ row[p].ver = truth[p].pub
  ELSE row[p].status # "active"

\* A tombstone is left alone for good, right or wrong. (package.go:590-653)
Converges == \A p \in Packages : <>[](Agrees(p) \/ row[p].tombstone)

=============================================================================
