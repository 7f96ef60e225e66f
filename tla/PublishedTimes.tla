---------------------------- MODULE PublishedTimes ----------------------------
(***************************************************************************)
(* When each version of a package was first published, the time Composer's  *)
(* cooldown counts from.  discover moves the time of a version forward when *)
(* the SVN log shows its tag changed, update stamps versions that are new,  *)
(* backfill-published-times fills in packages that have none.  All three    *)
(* run under the pipeline lock; check-status, commits, a lagging log,       *)
(* failures and crashes fall between their steps.                           *)
(***************************************************************************)
EXTENDS SvnLog

CONSTANTS
  Theme,       \* is the package a theme?
  Listings,    \* answers of the API: raw names and the stable version
  Commits,     \* commits to the package
  Chunk,       \* revisions in one request to the log
  Window,      \* --days of backfill-published-times
  MaxClock,    \* bound on time
  MaxCommits   \* bound on revisions

Names == UNION {l.names : l \in Listings}
Vers == {Normalize(n) : n \in Names} \ {NoVersion}

ASSUME TimesAssumption ==
  /\ Theme \in BOOLEAN
  /\ Chunk \in Nat \ {0}
  /\ {Window, MaxClock, MaxCommits} \subseteq Nat
  /\ IsFiniteSet(Names) /\ Names \subseteq Name

VARIABLES
  clock,   \* now, in seconds
  svn,     \* the log: a commit and its date for each revision
  stored,  \* the revision discover has read up to, 0 before its first run
  base,    \* history: the revision its first run started from
  row,     \* the package's row
  phase,   \* the locked step that runs, "free" for none
  scan,    \* cursor and head of discover's scan, span of backfill's walk
  task     \* what update or backfill will write

vars == <<clock, svn, stored, base, row, phase, scan, task>>

-----------------------------------------------------------------------------
NoTimes == [v \in Vers |-> 0]           \* 0: no entry
NoAnswer == [names |-> {}, stable |-> NoVersion]
NoHash == <<Nothing, -1, FALSE, NoTimes>>           \* content_hash is NULL

HashOf(r) == HashVersions(r.versions, r.trunk, r.stamped, r.times)

\* A discovered package that was never synced.
Shell == [active |-> TRUE, clean |-> FALSE, versions |-> Nothing, current |-> NoVersion,
          answer |-> NoAnswer, trunk |-> 0, stamped |-> FALSE, times |-> NoTimes,
          hash |-> NoHash]

\* What the versions and current_version become, the names met in one order.
Outcome(l, order) ==
  LET versions == FilterNewerThan(NormalizeInOrder(order), l.stable)
      met == [i \in {j \in DOMAIN order : Normalize(order[j]) \in DOMAIN versions} |->
                Normalize(order[i])]
  IN [versions |-> versions, current |-> Latest(met)]

Outcomes == [l \in Listings |-> {Outcome(l, order) : order \in SetToSeqs(l.names)}]

Synced(r, l, o) == [r EXCEPT !.versions = o.versions, !.current = o.current, !.answer = l]

\* Rows synced before published times were recorded.
OldRows ==
  LET old == {Synced([Shell EXCEPT !.clean = TRUE], l, CHOOSE o \in Outcomes[l] : TRUE) :
                l \in Listings}
  IN {[r EXCEPT !.hash = HashOf(r)] : r \in old}

Maps == UNION {[V -> Names] : V \in SUBSET Vers}
Row ==
  [active : BOOLEAN, clean : BOOLEAN, versions : Maps, current : Vers \cup {NoVersion},
   answer : Listings \cup {NoAnswer}, trunk : Nat, stamped : BOOLEAN,
   times : [Vers -> Nat], hash : Maps \X Int \X BOOLEAN \X [Vers -> Nat]]

NoScan == [cursor |-> 0, reach |-> 0, head |-> 0, since |-> 0, read |-> {}]
NoTask == [row |-> Shell, sync |-> FALSE]

Types ==
  /\ clock \in Nat
  /\ svn \in Seq([date : Nat, changes : Commits \cup {{}}])
  /\ stored \in Nat /\ base \in Nat
  /\ row \in Row
  /\ phase \in {"free", "scan", "mark", "save", "fetch", "write", "walk", "rows", "fill"}
  /\ scan \in [cursor : Nat, reach : Nat, head : Nat, since : Nat, read : SUBSET Nat]
  /\ task \in [row : Row, sync : BOOLEAN]

\* No version was published in the future, a package that was not backfilled
\* has no times, and a command that ended leaves nothing behind.
TypeOK ==
  /\ Types
  /\ \A v \in Vers : row.times[v] <= clock /\ (row.times[v] # 0 => row.stamped)
  /\ phase = "free" => scan = NoScan /\ task = NoTask

Init ==
  /\ clock = Window + 1
  /\ svn = <<[date |-> 1, changes |-> {}]>>
  /\ stored = 0 /\ base = 0
  /\ row \in {Shell} \cup OldRows
  /\ phase = "free"
  /\ scan = NoScan
  /\ task = NoTask

-----------------------------------------------------------------------------
(* Time, commits, and check-status, which takes no lock.                    *)

Tick ==
  /\ clock < MaxClock
  /\ clock' = clock + 1
  /\ UNCHANGED <<svn, stored, base, row, phase, scan, task>>

Commit(c) ==
  /\ Len(svn) < MaxCommits
  /\ svn' = Append(svn, [date |-> clock, changes |-> c])
  /\ UNCHANGED <<clock, stored, base, row, phase, scan, task>>

Deactivate ==
  /\ row.active
  /\ row' = [row EXCEPT !.active = FALSE]
  /\ UNCHANGED <<clock, svn, stored, base, phase, scan, task>>

\* last_synced_at becomes NULL.
Reactivate ==
  /\ ~row.active
  /\ row' = [row EXCEPT !.active = TRUE, !.clean = FALSE]
  /\ UNCHANGED <<clock, svn, stored, base, phase, scan, task>>

-----------------------------------------------------------------------------
(* discover: markChangedFromSVNLog.                                         *)

Changed(i, v) == Changes(Theme, svn[i].changes, v)

\* Mutant: the lock is dropped with the work half remembered.
UnlockDirty == phase' = "free" /\ UNCHANGED <<scan, task>>

Unlock == phase' = "free" /\ scan' = NoScan /\ task' = NoTask

\* No revision is stored: HEAD becomes the first, the log is not read.
FirstRun ==
  /\ phase = "free" /\ stored = 0
  /\ stored' = Len(svn) /\ base' = Len(svn)
  /\ UNCHANGED <<clock, svn, row, phase, scan, task>>

\* HEAD is what the listing says; the log may lag behind it.
StartScan ==
  /\ phase = "free" /\ stored # 0
  /\ phase' = IF stored < Len(svn) THEN "scan" ELSE "save"
  /\ scan' = [NoScan EXCEPT !.cursor = stored, !.reach = stored, !.head = Len(svn)]
  /\ UNCHANGED <<clock, svn, stored, base, row, task>>

ChunkEnd == Min({scan.cursor + Chunk, scan.head})

\* ResetPublishedTimes: a version that has a time gets the present one.
ResetTimes(times, I) ==
  [v \in Vers |->
     IF times[v] # 0 /\ times[v] < clock /\ \E i \in I : Changed(i, v)
     THEN clock ELSE times[v]]

\* One answer of the log, up to the revision its replica has.
ReadChunk(to) ==
  /\ phase = "scan"
  /\ to \in scan.cursor .. ChunkEnd
  /\ row' = [row EXCEPT !.times = ResetTimes(@, scan.cursor + 1 .. to)]
  /\ scan' = [scan EXCEPT !.reach = to]
  /\ phase' = "mark"
  /\ UNCHANGED <<clock, svn, stored, base, task>>

\* MarkPackagesChanged, in a transaction of its own, for a row that is active
\* by now. The scan goes on only behind a complete chunk.
MarkChunk ==
  /\ phase = "mark"
  /\ row' = IF scan.reach > scan.cursor /\ row.active
            THEN [row EXCEPT !.clean = FALSE, !.trunk = scan.reach] ELSE row
  /\ scan' = [scan EXCEPT !.cursor = scan.reach]
  /\ phase' = IF scan.reach = ChunkEnd /\ scan.reach < scan.head THEN "scan" ELSE "save"
  /\ UNCHANGED <<clock, svn, stored, base, task>>

\* Mutant: the revision of the listing is stored.
SaveHead ==
  /\ phase = "save"
  /\ stored' = scan.head
  /\ Unlock
  /\ UNCHANGED <<clock, svn, base, row>>

SaveRevision ==
  /\ phase = "save"
  /\ stored' = scan.cursor
  /\ Unlock
  /\ UNCHANGED <<clock, svn, base, row>>

\* The log cannot be fetched: what was scanned before is stored.
FetchFailed ==
  /\ phase = "scan"
  /\ stored' = scan.cursor
  /\ Unlock
  /\ UNCHANGED <<clock, svn, base, row>>

-----------------------------------------------------------------------------
(* update, of a dirty row or (by hand) of any.                              *)

StartUpdate ==
  /\ phase = "free"
  /\ phase' = "fetch"
  /\ task' = [NoTask EXCEPT !.row = row]
  /\ UNCHANGED <<clock, svn, stored, base, row, scan>>

\* Mutant: the times of versions that are not listed are dropped.
MergeListed(r, old) ==
  LET merged == old.stamped \/ old.versions = Nothing
  IN [r EXCEPT !.stamped = merged,
               !.times = [v \in Vers |->
                            IF merged /\ v \in DOMAIN r.versions \ {Trunk}
                            THEN IF @[v] = 0 THEN clock ELSE @[v] ELSE 0]]

\* MergePublishedTimes: a package that was not backfilled stays so, unless all
\* its versions are new.
Merge(r, old) ==
  LET merged == old.stamped \/ old.versions = Nothing
  IN [r EXCEPT !.stamped = merged,
               !.times = [v \in Vers |->
                            IF merged /\ v \in DOMAIN r.versions \ {Trunk} /\ @[v] = 0
                            THEN clock ELSE @[v]]]

\* The answer is normalized, merged and hashed; sync: last_synced_at advances.
FetchOk(l, o, sync) ==
  /\ phase = "fetch"
  /\ LET r == Merge(Synced(task.row, l, o), task.row)
     IN task' = [row |-> [r EXCEPT !.hash = HashOf(r)], sync |-> sync]
  /\ phase' = "write"
  /\ UNCHANGED <<clock, svn, stored, base, row, scan>>

\* The upsert: is_active is set, NULL published times leave the stored ones,
\* trunk_revision is not written.
Flush ==
  /\ phase = "write"
  /\ row' = [task.row EXCEPT
               !.active = TRUE, !.clean = task.sync \/ @, !.trunk = row.trunk,
               !.stamped = @ \/ row.stamped,
               !.times = IF task.row.stamped THEN @ ELSE row.times]
  /\ Unlock
  /\ UNCHANGED <<clock, svn, stored, base>>

-----------------------------------------------------------------------------
(* backfill-published-times: the log is walked back from HEAD.              *)

StartBackfill ==
  /\ phase = "free"
  /\ phase' = "walk"
  /\ scan' = [NoScan EXCEPT !.cursor = Len(svn), !.since = clock - Window]
  /\ UNCHANGED <<clock, svn, stored, base, row, task>>

\* A complete chunk; the walk ends with one that reaches behind the window.
WalkChunk ==
  /\ phase = "walk"
  /\ LET from == Max({1, scan.cursor - Chunk + 1})
         chunk == from .. scan.cursor
     IN /\ scan' = [scan EXCEPT !.read = @ \cup chunk, !.cursor = from - 1]
        /\ phase' = IF from = 1 \/ \E i \in chunk : svn[i].date < scan.since
                    THEN "rows" ELSE "walk"
  /\ UNCHANGED <<clock, svn, stored, base, row, task>>

\* The latest change inside the window, or its start.
BackfillTime(v) ==
  Max({scan.since} \cup {svn[i].date : i \in {j \in scan.read : Changed(j, v)}})

\* Mutant: the content hash is not computed again.
BackfilledStale(r) ==
  [r EXCEPT !.stamped = TRUE,
            !.times = [v \in Vers |-> IF v \in DOMAIN r.versions \ {Trunk}
                                      THEN BackfillTime(v) ELSE 0]]

Backfilled(r) ==
  LET b == [r EXCEPT !.stamped = TRUE,
                     !.times = [v \in Vers |-> IF v \in DOMAIN r.versions \ {Trunk}
                                               THEN BackfillTime(v) ELSE 0]]
  IN IF r.hash = NoHash THEN b ELSE [b EXCEPT !.hash = HashOf(b)]

\* The rows without times are read and then written in a transaction.
ReadUntimed ==
  /\ phase = "rows"
  /\ task' = IF row.stamped THEN task ELSE [task EXCEPT !.row = Backfilled(row)]
  /\ phase' = "fill"
  /\ UNCHANGED <<clock, svn, stored, base, row, scan>>

FillUntimed ==
  /\ phase = "fill"
  /\ row' = IF row.stamped THEN row
            ELSE [row EXCEPT !.stamped = TRUE, !.times = task.row.times,
                             !.hash = task.row.hash]
  /\ Unlock
  /\ UNCHANGED <<clock, svn, stored, base>>

-----------------------------------------------------------------------------
\* A fetch, an incomplete chunk or a write fails, or the process dies.
Fail ==
  /\ phase # "free"
  /\ Unlock
  /\ UNCHANGED <<clock, svn, stored, base, row>>

Discover ==
  \/ FirstRun \/ StartScan \/ MarkChunk \/ SaveRevision \/ FetchFailed
  \/ \E to \in 0 .. MaxCommits : ReadChunk(to)

Update ==
  \/ StartUpdate \/ Flush
  \/ \E l \in Listings, sync \in BOOLEAN :
       \E o \in Outcomes[l] : FetchOk(l, o, sync)

Backfill == StartBackfill \/ WalkChunk \/ ReadUntimed \/ FillUntimed

Next ==
  \/ Tick \/ Deactivate \/ Reactivate \/ Fail
  \/ \E c \in Commits : Commit(c)
  \/ Discover \/ Update \/ Backfill

Spec == Init /\ [][Next]_vars

-----------------------------------------------------------------------------
(* Properties.                                                              *)

\* A published time is never moved back and never forgotten, whichever command
\* writes the row from whatever it read before: a cooldown is never shortened.
\* (published_times.go:24-36, 172-178)
ForwardStep == \A v \in Vers : row'.times[v] >= row.times[v]
TimesOnlyForward == [][ForwardStep]_vars

\* What Composer is offered of a timed package: every tagged version has a time,
\* and none earlier than a commit to its tags that the stored revision covers,
\* through retries, a lagging log and crashes. (discover.go:295-305)
ServedTimesCover ==
  row.stamped =>
    \A v \in MainFile(Theme, row.versions) \ {Trunk} :
      /\ row.times[v] # 0
      /\ \A i \in base + 1 .. stored : Changed(i, v) => row.times[v] >= svn[i].date

\* A row that nobody is going to update has the hash of its content: versions,
\* trunk revision and times, which three commands write. (serialize.go:63-73)
HashCurrent ==
  row.active /\ row.clean /\ row.hash # NoHash
    => \/ row.hash = HashOf(row)
       \/ stored # 0 /\ \E i \in stored + 1 .. Len(svn), v \in Vers : Changed(i, v)

\* The same answer of the API gives the same versions, in whatever order its
\* names are met: the download URLs do not flip between runs.
\* (normalize.go:52-58)
SettleStep ==
  row'.answer = row.answer /\ row.hash # NoHash => row'.versions = row.versions
VersionsSettle == [][SettleStep]_vars

\* The highest stable one of V, or any if none is stable.
HighestOf(V, current) ==
  LET stable == {v \in V : IsStable(v)}
  IN IF V = {} THEN current = NoVersion
     ELSE /\ current \in IF stable = {} THEN V ELSE stable
          /\ \A v \in stable : Compare(v, current) <= 0

\* current_version is a stable version if there is one, and none is above it.
\* (normalize.go:147-149)
CurrentIsHighest == HighestOf(DOMAIN row.versions \ {Trunk}, row.current)

=============================================================================
