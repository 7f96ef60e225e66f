----------------------------- MODULE ChangesFeed -----------------------------
(***************************************************************************)
(* What changed, as Composer clients are told: a build compares itself with *)
(* the promoted one and writes the packages that differ into                *)
(* metadata_changes, and a client polls that table with the timestamp of    *)
(* its last answer.  Builds by hand take no lock; update and the pipeline   *)
(* do.                                                                      *)
(***************************************************************************)
EXTENDS Integers, FiniteSets, FiniteSetsExt

CONSTANTS
  Packages,
  Pipeline,    \* the process that runs pipelines
  Hand,        \* the one that runs builds by hand, at any time
  Retention,   \* how long a change stays in the table
  MaxClock,    \* bound on time
  MaxRuns,     \* bound on the sync run ids
  MaxData      \* bound on the contents of a package

ASSUME FeedAssumption ==
  /\ Pipeline # Hand
  /\ {Retention, MaxClock, MaxRuns, MaxData} \subseteq Nat \ {0}

Builders == {Pipeline, Hand}

VARIABLES
  clock,
  table,    \* packages: is_active, content (0: no version to list),
            \* last_sync_run_id (0: NULL)
  proc,     \* what each builder is doing
  served,   \* the promoted build's files, 0 for none
  feed,     \* metadata_changes
  client,   \* a client and the request it has sent
  unseen,   \* history: changes of finished builds that the client has not heard of
  told      \* history: the latest time clients may have been told, which is that of
            \* the newest row there has been, or the clock of an answer

vars == <<clock, table, proc, served, feed, client, unseen, told>>
history == <<unseen, told>>

-----------------------------------------------------------------------------
None == [p \in Packages |-> 0]
Idle == [step |-> "idle", run |-> 0, sid |-> 0, prev |-> None,
         files |-> None, changes |-> {}, finished |-> 0]
Change == [pkg : Packages, action : {"update", "delete"}]
FeedRow == [pkg : Packages, time : Nat]

\* What became of a change: written ahead of all that clients have been told, behind
\* something they have been told, never written, or pruned under a client's eyes.
Unseen == [pkg : Packages, time : Nat, fate : {"ahead", "behind", "failed", "pruned"}]

Files == [Packages -> 0 .. MaxData]
Row == [active : BOOLEAN, data : 0 .. MaxData, run : Nat]
Steps == {"idle", "update", "snapshot", "read", "built", "prune", "deploy"}
Builder ==
  [step : Steps, run : Nat, sid : Nat, prev : Files, files : Files,
   changes : SUBSET Change, finished : Nat]

TypeOK ==
  /\ clock \in Nat /\ told \in 0 .. clock
  /\ table \in [Packages -> Row]
  /\ proc \in [Builders -> Builder]
  /\ served \in Files
  /\ feed \subseteq FeedRow /\ unseen \subseteq Unseen
  /\ \A r \in feed \cup unseen : r.time <= clock
  /\ client \in [since : 0 .. clock, asked : 0 .. clock]

Init ==
  /\ clock = 1 /\ told = 0
  /\ table = [p \in Packages |-> [active |-> TRUE, data |-> 1, run |-> 0]]
  /\ proc = [d \in Builders |-> Idle]
  /\ served = None
  /\ feed = {} /\ unseen = {}
  /\ client = [since |-> 0, asked |-> 0]

At(d, s) == proc[d].step = s
Goto(d, s) == proc' = [proc EXCEPT ![d] = [@ EXCEPT !.step = s]]
Rest(d) == proc' = [proc EXCEPT ![d] = Idle]

Tick ==
  /\ clock < MaxClock
  /\ clock' = clock + 1
  /\ UNCHANGED <<table, proc, served, feed, client, history>>

\* check-status, without the lock.
SetActive(p) ==
  /\ table' = [table EXCEPT ![p].active = ~@]
  /\ UNCHANGED <<clock, proc, served, feed, client, history>>

-----------------------------------------------------------------------------
(* The pipeline's update, under its lock.                                   *)

\* The highest sync run any row has; without rows, or with rows never synced, 0.
SnapshotId == Max({0} \cup {table[p].run : p \in Packages})

\* AllocateSyncRunID: one above every row's.
StartUpdate ==
  /\ At(Pipeline, "idle")
  /\ SnapshotId < MaxRuns
  /\ proc' = [proc EXCEPT ![Pipeline] = [@ EXCEPT !.step = "update", !.run = 1 + SnapshotId]]
  /\ UNCHANGED <<clock, table, served, feed, client, history>>

\* A batch stores a package; it is stamped with the run and becomes active.
StoreRow(p, data) ==
  /\ At(Pipeline, "update")
  /\ table' = [table EXCEPT ![p] = [active |-> TRUE, data |-> data,
                                    run |-> proc[Pipeline].run]]
  /\ UNCHANGED <<clock, proc, served, feed, client, history>>

-----------------------------------------------------------------------------
(* build.                                                                   *)

\* Two queries: the snapshot's id (0 reads every row), then the rows. The build it
\* will be compared with is the one promoted now.
TakeSnapshot(d) ==
  /\ At(d, IF d = Pipeline THEN "update" ELSE "idle")   \* update is over
  /\ proc' = [proc EXCEPT ![d] = [@ EXCEPT !.step = "snapshot", !.run = 0,
                                            !.sid = SnapshotId, !.prev = served]]
  /\ UNCHANGED <<clock, table, served, feed, client, history>>

\* The rows of the packages S (all of them, or one with --package). One that cannot
\* be read, or a theme without a tagged version, is skipped: it gets no file.
FilesOf(d, S) ==
  [p \in Packages |->
     IF p \in S /\ table[p].active /\ (proc[d].sid = 0 \/ table[p].run <= proc[d].sid)
     THEN table[p].data ELSE 0]

\* What differs from the previous build; only a full build sees what is gone.
ChangedPackages(prev, files, full) ==
  {[pkg |-> p, action |-> "update"] : p \in {q \in Packages : files[q] \notin {0, prev[q]}}}
  \cup
  {[pkg |-> p, action |-> "delete"] :
     p \in {q \in Packages : full /\ files[q] = 0 /\ prev[q] # 0}}

ReadRows(d, S) ==
  /\ At(d, "snapshot")
  /\ d = Pipeline => S = Packages
  /\ proc' = [proc EXCEPT ![d] =
       [@ EXCEPT !.step = "read", !.files = IF d = Pipeline THEN FilesOf(d, S) ELSE None,
                 !.sid = 0, !.prev = None,
                 !.changes = ChangedPackages(proc[d].prev, FilesOf(d, S), S = Packages)]]
  /\ UNCHANGED <<clock, table, served, feed, client, history>>

\* manifest.json, and the end of the build.
FinishBuild(d) ==
  /\ At(d, "read")
  /\ proc' = [proc EXCEPT ![d] = [@ EXCEPT !.step = "built", !.finished = clock]]
  /\ UNCHANGED <<clock, table, served, feed, client, history>>

\* The fate of what d has found; a later change of a package stands for the earlier
\* ones, unless it is lost itself.
Fated(d, fate) ==
  LET pkgs == {c.pkg : c \in proc[d].changes}
  IN {r \in unseen : r.pkg \in pkgs => r.fate = "ahead" /\ fate # "ahead"}
       \cup {[pkg |-> p, time |-> proc[d].finished, fate |-> fate] : p \in pkgs}

\* persistMetadataChanges: the rows are inserted in one transaction, dated with
\* the end of the build.
RecordChanges(d) ==
  /\ At(d, "built")
  /\ feed' = feed \cup {[pkg |-> c.pkg, time |-> proc[d].finished] : c \in proc[d].changes}
  /\ unseen' = Fated(d, IF proc[d].finished > told THEN "ahead" ELSE "behind")
  /\ told' = IF proc[d].changes # {} /\ proc[d].finished > told
             THEN proc[d].finished ELSE told
  /\ proc' = [proc EXCEPT ![d] = [@ EXCEPT !.step = "prune", !.changes = {}, !.finished = 0]]
  /\ UNCHANGED <<clock, table, served, client>>

\* A failure is logged, no more.
FailToRecord(d) ==
  /\ At(d, "built")
  /\ unseen' = Fated(d, "failed")
  /\ proc' = [proc EXCEPT ![d] = [@ EXCEPT !.step = "prune", !.changes = {}, !.finished = 0]]
  /\ UNCHANGED <<clock, table, served, feed, client, told>>

\* Rows older than the retention go, those too that a client's second query is about
\* to read; a build by hand ends here.
PruneChanges(d) ==
  /\ At(d, "prune")
  /\ feed' = {r \in feed : r.time >= clock - Retention}
  /\ unseen' = {IF r.fate = "ahead" /\ r.time < clock - Retention /\ r.time <= client.asked
                THEN [r EXCEPT !.fate = "pruned"] ELSE r : r \in unseen}
  /\ IF d = Pipeline THEN Goto(d, "deploy") ELSE Rest(d)
  /\ UNCHANGED <<clock, table, served, client, told>>

Deploy ==
  /\ At(Pipeline, "deploy")
  /\ served' = proc[Pipeline].files
  /\ Rest(Pipeline)
  /\ UNCHANGED <<clock, table, feed, client, history>>

\* An error is returned or the process dies; a build that has ended is not recorded.
Abort(d) ==
  /\ ~At(d, "idle")
  /\ unseen' = IF At(d, "built") THEN Fated(d, "failed") ELSE unseen
  /\ Rest(d)
  /\ UNCHANGED <<clock, table, served, feed, client, told>>

-----------------------------------------------------------------------------
(* handleMetadataChanges, and a client that keeps asking.                   *)

\* The client asked too long ago: it is told to fetch everything again, and gets the
\* clock.
PollResync ==
  /\ client.asked = 0
  /\ client.since < clock - Retention
  /\ client' = [since |-> clock, asked |-> 0]
  /\ told' = clock /\ unseen' = {}
  /\ UNCHANGED <<clock, table, proc, served, feed>>

\* Mutant: the answer always carries the clock.
CheckpointNow == clock

\* Mutant: a checkpoint one past the newest row.
CheckpointPast == IF feed = {} THEN clock ELSE 1 + Max({r.time : r \in feed})

\* The newest row's time, or the clock when there are none.
Checkpoint == IF feed = {} THEN clock ELSE Max({r.time : r \in feed})

PollCheckpoint ==
  /\ client.asked = 0
  /\ client.since >= clock - Retention
  /\ client' = [client EXCEPT !.asked = Checkpoint]
  /\ told' = IF feed = {} THEN clock ELSE told
  /\ UNCHANGED <<clock, table, proc, served, feed, unseen>>

\* The rows after since and up to the checkpoint, the latest of each package.
PollRows ==
  /\ client.asked # 0
  /\ LET answer == {r \in feed : client.since < r.time /\ r.time <= client.asked}
     IN unseen' = {r \in unseen : \A a \in answer : a.pkg = r.pkg => a.time < r.time}
  /\ client' = [since |-> client.asked, asked |-> 0]
  /\ UNCHANGED <<clock, table, proc, served, feed, told>>

-----------------------------------------------------------------------------
Build(d) ==
  \/ TakeSnapshot(d) \/ FinishBuild(d)
  \/ RecordChanges(d) \/ FailToRecord(d) \/ PruneChanges(d) \/ Abort(d)
  \/ \E S \in SUBSET Packages : ReadRows(d, S)

Next ==
  \/ Tick \/ StartUpdate \/ Deploy
  \/ \E p \in Packages : SetActive(p) \/ \E data \in 0 .. MaxData : StoreRow(p, data)
  \/ \E d \in Builders : Build(d)
  \/ PollResync \/ PollCheckpoint \/ PollRows

Spec == Init /\ [][Next]_vars

-----------------------------------------------------------------------------
(* Properties.                                                              *)

\* A client keeps asking with the timestamp of its last answer and is moved past a
\* change without hearing of it (or of a later one of the package) in three cases
\* only: the rows of the build were never written, they were written behind a newer
\* row or behind the clock of an earlier answer, or the row was pruned between the
\* two queries of the answer. Not because an answer takes two queries, rows are dated
\* before they are written, and others go. (changes.go:53-82, build.go:94-106)
NothingMissed ==
  \A r \in unseen : r.time <= client.since => r.fate \in {"failed", "behind", "pruned"}

\* A client is told that a package is gone only when it is: not of one that was
\* served, is still active and has something to list when the build reads its row.
\* Concurrent updates are to do no harm. (builder.go:80-101, 273-312)
DeleteStep ==
  \A d \in Builders, p \in Packages :
    /\ [pkg |-> p, action |-> "delete"] \in proc'[d].changes
    /\ proc'[d].changes # proc[d].changes
    => ~table[p].active \/ table[p].data = 0
DeletedWereGone == [][DeleteStep]_vars

=============================================================================
