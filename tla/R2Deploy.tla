------------------------------- MODULE R2Deploy -------------------------------
(***************************************************************************)
(* From the packages table to the files Composer downloads: builds on disk, *)
(* the "current" symlink, the R2 bucket and the deployed_hash column that   *)
(* remembers which packages have files there.  The pipeline builds, syncs,  *)
(* promotes and cleans up; an operator may run build, deploy (with or       *)
(* without --rollback), deploy --cleanup and cleanup-r2-orphans beside it,  *)
(* since none of them takes the pipeline lock.  check-status and update     *)
(* change rows at any time.                                                 *)
(*                                                                          *)
(* What a p2 file of a package says is a number that grows with every       *)
(* change of its row.  packages.json depends on the configuration only, so  *)
(* its upload is a step that may fail and changes nothing.                  *)
(***************************************************************************)
EXTENDS Naturals, FiniteSets, FiniteSetsExt

CONSTANTS
  Packages,   \* the packages with a row
  Kinds,      \* the p2 files of one package (name.json and name~dev.json)
  Pipeline,   \* the process that holds the pipeline lock
  Operators,  \* processes started by hand
  Retain,     \* builds kept beside the current one (5 in the code)
  MaxBuilds,  \* bound: build ids handed out
  MaxData,    \* bound: contents a row takes
  Status,     \* when is_active changes: "fixed", "calm" (all idle) or "any"
  Faults,     \* may calls fail and processes die?
  SweepFails  \* may a DeleteObjects request delete some of its keys and not others?

ASSUME DeployAssumption ==
  /\ Pipeline \notin Operators
  /\ Retain \in Nat /\ MaxBuilds \in Nat /\ MaxData \in Nat \ {0}
  /\ Status \in {"fixed", "calm", "any"}
  /\ {Faults, SweepFails} \subseteq BOOLEAN

VARIABLES
  rows,      \* packages: is_active, what versions_json and the rest say,
             \* and whether deployed_hash is set
  builds,    \* builds table and directories; a later id is a later start
  current,   \* the build the "current" symlink names, 0 for none
  bucket,    \* R2: what each p2 object says, 0 when there is none
  proc       \* what each process is doing

vars == <<rows, builds, current, bucket, proc>>

-----------------------------------------------------------------------------
Procs == {Pipeline} \cup Operators
Ids == 1 .. MaxBuilds
Keys == Packages \X Kinds
Idle == [step |-> "idle", build |-> 0, prev |-> 0, keys |-> {}, gone |-> {},
         clear |-> {}, failed |-> {}, doomed |-> {}]

Row == [active : BOOLEAN, data : 1 .. MaxData, deployed : BOOLEAN]
BuildRow == [state : {"none", "reserved", "writing", "complete", "removed"},
             files : [Packages -> 0 .. MaxData], synced : BOOLEAN]
Steps == {"idle", "reserved", "build", "deploy", "upload", "stamped", "delete",
          "record", "promote", "cleanup", "remove", "sweep"}
Work == [step : Steps,
         build : 0 .. MaxBuilds, prev : 0 .. MaxBuilds, keys : SUBSET Keys,
         gone : SUBSET Packages, clear : SUBSET Packages, failed : SUBSET Packages,
         doomed : SUBSET Ids]

Types ==
  /\ rows \in [Packages -> Row]
  /\ builds \in [Ids -> BuildRow]
  /\ current \in 0 .. MaxBuilds
  /\ bucket \in [Keys -> 0 .. MaxData]
  /\ proc \in [Procs -> Work]

\* A finished command leaves nothing behind; the build of a running one exists.
TypeOK ==
  /\ Types
  /\ \A d \in Procs :
       /\ proc[d].step = "idle" => proc[d] = Idle
       /\ proc[d].build # 0 => builds[proc[d].build].state # "none"

Init ==
  /\ rows = [p \in Packages |-> [active |-> TRUE, data |-> 1, deployed |-> FALSE]]
  /\ builds = [b \in Ids |-> [state |-> "none", synced |-> FALSE,
                              files |-> [p \in Packages |-> 0]]]
  /\ current = 0
  /\ bucket = [k \in Keys |-> 0]
  /\ proc = [d \in Procs |-> Idle]

At(d, s) == proc[d].step = s
Goto(d, s) == proc' = [proc EXCEPT ![d].step = s]
\* Mutant: what a command had chosen survives it.
RestDirty(d) == Goto(d, "idle")

Rest(d) == proc' = [proc EXCEPT ![d] = Idle]

-----------------------------------------------------------------------------
(* The table, as update and check-status change it.                         *)

ChangeContent(p) ==
  /\ rows[p].data < MaxData
  /\ rows' = [rows EXCEPT ![p].data = @ + 1]
  /\ UNCHANGED <<builds, current, bucket, proc>>

SetActive(p) ==
  /\ \/ Status = "any"
     \/ Status = "calm" /\ \A d \in Procs : At(d, "idle")
  /\ rows' = [rows EXCEPT ![p].active = ~@]
  /\ UNCHANGED <<builds, current, bucket, proc>>

-----------------------------------------------------------------------------
(* Building.                                                                *)

\* Ids are start times; two starts in one second collide and are refused.
FreshId(b) == builds[b].state = "none" /\ \A c \in Ids : c < b => builds[c].state # "none"

\* The pipeline takes its build id when it starts, before discover and update.
StartPipeline ==
  /\ At(Pipeline, "idle")
  /\ \E b \in Ids :
       /\ FreshId(b)
       /\ builds' = [builds EXCEPT ![b].state = "reserved"]
       /\ proc' = [proc EXCEPT ![Pipeline] = [Idle EXCEPT !.step = "reserved", !.build = b]]
  /\ UNCHANGED <<rows, current, bucket>>

\* One query reads the active rows of S; the directory exists from here on. A
\* build by hand may be of one package (--package), and a row that an update
\* stamps between the snapshot id and this query is left out of it.
ReadRows(d, S) ==
  /\ \E b \in Ids :
       /\ \/ d = Pipeline /\ At(d, "reserved") /\ S = Packages /\ b = proc[d].build
          \/ d # Pipeline /\ At(d, "idle") /\ FreshId(b)
       /\ builds' = [builds EXCEPT ![b].state = "writing",
                       ![b].files = [p \in Packages |-> IF p \in S /\ rows[p].active
                                                        THEN rows[p].data ELSE 0]]
       /\ proc' = [proc EXCEPT ![d] = [Idle EXCEPT !.step = "build", !.build = b]]
  /\ UNCHANGED <<rows, current, bucket>>

\* packages.json and, last, manifest.json make the build valid.
FinishBuild(d) ==
  /\ At(d, "build")
  /\ builds' = [builds EXCEPT ![proc[d].build].state = "complete"]
  /\ IF d = Pipeline THEN Goto(d, "deploy") ELSE Rest(d)
  /\ UNCHANGED <<rows, current, bucket>>

-----------------------------------------------------------------------------
(* Deploying.                                                               *)

Dirs == {b \in Ids : builds[b].state \in {"writing", "complete"}}
ValidateBuild(b) == b \in Ids /\ builds[b].state = "complete"

\* Mutant: compare with the build before the newest one, promoted or not.
PreviousBuildLatest ==
  LET done == {b \in Ids : ValidateBuild(b)}
  IN IF Cardinality(done) < 2 THEN 0 ELSE Max(done \ {Max(done)})

\* previousBuildDirFor: the promoted build, if it was synced to R2.
PreviousBuild == IF current # 0 /\ builds[current].synced THEN current ELSE 0

\* deploy chooses its build: the pipeline and a bare "deploy" the latest
\* directory, "deploy <id>" and --rollback any other. Then the sync begins.
BeginSync(d, b) ==
  /\ \/ At(d, "deploy") /\ b = Max(Dirs)
     \/ d # Pipeline /\ At(d, "idle")
  /\ ValidateBuild(b)
  /\ proc' = [proc EXCEPT ![d] =
                [Idle EXCEPT !.step = "upload", !.build = b, !.prev = PreviousBuild,
                             !.keys = {k \in Keys : builds[b].files[k[1]] # 0}]]
  /\ UNCHANGED <<rows, builds, current, bucket>>

\* Mutant: a file the previous build has is skipped whatever it says.
UnchangedName(d, p) ==
  /\ proc[d].prev # 0
  /\ ValidateBuild(proc[d].prev)
  /\ builds[proc[d].prev].files[p] # 0

\* fileUnchanged: the previous build still has the file and says the same.
Unchanged(d, p) ==
  /\ proc[d].prev # 0
  /\ ValidateBuild(proc[d].prev)
  /\ builds[proc[d].prev].files[p] = builds[proc[d].build].files[p]

\* p2 files go up in parallel, in any order; unchanged ones are skipped.
Upload(d, k) ==
  /\ At(d, "upload")
  /\ k \in proc[d].keys
  /\ ValidateBuild(proc[d].build)
  /\ bucket' = IF Unchanged(d, k[1]) THEN bucket
               ELSE [bucket EXCEPT ![k] = builds[proc[d].build].files[k[1]]]
  /\ proc' = [proc EXCEPT ![d].keys = @ \ {k}]
  /\ UNCHANGED <<rows, builds, current>>

\* Mutant: the stamp is forgotten.
StampNothing(d) ==
  /\ At(d, "upload")
  /\ proc[d].keys = {}
  /\ Goto(d, "stamped")
  /\ UNCHANGED <<rows, builds, current, bucket>>

\* deployed_hash is stamped on the rows that are active now.
Stamp(d) ==
  /\ At(d, "upload")
  /\ proc[d].keys = {}
  /\ rows' = [p \in Packages |-> [rows[p] EXCEPT !.deployed = @ \/ rows[p].active]]
  /\ Goto(d, "stamped")
  /\ UNCHANGED <<builds, current, bucket>>

GetDeactivatedDeployedPackages == {p \in Packages : ~rows[p].active /\ rows[p].deployed}

ListGone(d) ==
  /\ At(d, "stamped")
  /\ proc' = [proc EXCEPT ![d].step = "delete", ![d].gone = GetDeactivatedDeployedPackages]
  /\ UNCHANGED <<rows, builds, current, bucket>>

\* Mutant: the hash is cleared although a delete failed.
DeleteObjectsAnyway(d, p, K) ==
  /\ At(d, "delete") /\ proc[d].clear = {}
  /\ p \in proc[d].gone
  /\ K = Kinds \/ Faults
  /\ bucket' = [k \in Keys |-> IF k[1] = p /\ k[2] \in K THEN 0 ELSE bucket[k]]
  /\ proc' = [proc EXCEPT ![d].gone = @ \ {p}, ![d].clear = {p}]
  /\ UNCHANGED <<rows, builds, current>>

\* The objects K of one deactivated package are deleted; only when all were is
\* its deployed_hash to be cleared.
DeleteObjects(d, p, K) ==
  /\ At(d, "delete") /\ proc[d].clear = {}
  /\ p \in proc[d].gone
  /\ K = Kinds \/ Faults
  /\ bucket' = [k \in Keys |-> IF k[1] = p /\ k[2] \in K THEN 0 ELSE bucket[k]]
  /\ proc' = [proc EXCEPT ![d].gone = @ \ {p},
                          ![d].clear = IF K = Kinds THEN {p} ELSE {}]
  /\ UNCHANGED <<rows, builds, current>>

\* Mutant: the hash of a package whose objects are gone stays.
ClearHashNever(d, ok) ==
  /\ proc[d].clear # {}
  /\ ok \/ Faults
  /\ proc' = [proc EXCEPT ![d].clear = {}]
  /\ UNCHANGED <<rows, builds, current, bucket>>

\* UPDATE packages SET deployed_hash = NULL; a failure is logged and passed over.
ClearHash(d, ok) ==
  /\ proc[d].clear # {}
  /\ ok \/ Faults
  /\ rows' = IF ok THEN [p \in Packages |->
                           [rows[p] EXCEPT !.deployed = @ /\ p \notin proc[d].clear]]
                   ELSE rows
  /\ proc' = [proc EXCEPT ![d].clear = {}]
  /\ UNCHANGED <<builds, current, bucket>>

\* packages.json goes up last.
PutRoot(d) ==
  /\ At(d, "delete")
  /\ proc[d].gone \cup proc[d].clear = {}
  /\ ValidateBuild(proc[d].build)
  /\ Goto(d, "record")
  /\ UNCHANGED <<rows, builds, current, bucket>>

\* builds.r2_synced_at; a failure is logged and the deploy goes on.
RecordR2Sync(d, ok) ==
  /\ At(d, "record")
  /\ ok \/ Faults
  /\ builds' = [builds EXCEPT ![proc[d].build].synced = @ \/ ok]
  /\ Goto(d, "promote")
  /\ UNCHANGED <<rows, current, bucket>>

Promote(d) ==
  /\ At(d, "promote")
  /\ ValidateBuild(proc[d].build)
  /\ current' = proc[d].build
  /\ IF d = Pipeline THEN Goto(d, "cleanup") ELSE Rest(d)
  /\ UNCHANGED <<rows, builds, bucket>>

-----------------------------------------------------------------------------
(* Cleanup of old builds, and the sweep of orphaned objects.                *)

\* Mutant: the oldest builds are kept, so that a cleanup may have chosen the build
\* that the pipeline promotes before it is removed.
RecentOldest(S) == {b \in S : Cardinality({c \in S : c < b}) < Retain}

Recent(S) == {b \in S : Cardinality({c \in S : c > b}) < Retain}

ListOld(d) ==
  /\ At(d, IF d = Pipeline THEN "cleanup" ELSE "idle")
  /\ LET others == Dirs \ {current}
     IN proc' = [proc EXCEPT ![d] = [Idle EXCEPT !.step = "remove",
                                                 !.doomed = others \ Recent(others)]]
  /\ UNCHANGED <<rows, builds, current, bucket>>

RemoveBuild(d, b) ==
  /\ At(d, "remove")
  /\ b \in proc[d].doomed
  /\ builds' = [builds EXCEPT ![b].state = "removed"]
  /\ proc' = [proc EXCEPT ![d].doomed = @ \ {b}]
  /\ UNCHANGED <<rows, current, bucket>>

EndCleanup(d) ==
  /\ At(d, "remove")
  /\ proc[d].doomed = {}
  /\ Rest(d)
  /\ UNCHANGED <<rows, builds, current, bucket>>

KeysOf(S) == {k \in Keys : k[1] \in S}

StartSweep(d) ==
  /\ d # Pipeline /\ At(d, "idle")
  /\ GetDeactivatedDeployedPackages # {}
  /\ proc' = [proc EXCEPT ![d] = [Idle EXCEPT !.step = "sweep",
                !.gone = GetDeactivatedDeployedPackages,
                !.keys = KeysOf(GetDeactivatedDeployedPackages)]]
  /\ UNCHANGED <<rows, builds, current, bucket>>

\* One DeleteObjects request for the keys of S, of which X fail: none, all of them
\* when the request itself fails, or single keys, as R2 reports them (a package has
\* two keys and a batch an even number, so no package is split). deployed_hash is
\* then to be cleared for every package with a key that did not fail.
SweepBatch(d, S, X) ==
  /\ At(d, "sweep") /\ proc[d].clear = {}
  /\ S # {} /\ KeysOf(S) \subseteq proc[d].keys
  /\ X \subseteq KeysOf(S)
  /\ \/ X = {}
     \/ X = KeysOf(S) /\ Faults
     \/ SweepFails
  /\ bucket' = [k \in Keys |-> IF k \in KeysOf(S) \ X THEN 0 ELSE bucket[k]]
  /\ proc' = [proc EXCEPT ![d].keys = @ \ KeysOf(S),
                          ![d].failed = @ \cup {k[1] : k \in X},
                          ![d].clear = {k[1] : k \in KeysOf(S) \ X}]
  /\ UNCHANGED <<rows, builds, current>>

\* Mutant: the last pass does not wait for the batches.
FinishSweepEarly(d) ==
  /\ At(d, "sweep")
  /\ rows' = [p \in Packages |->
                [rows[p] EXCEPT !.deployed =
                   @ /\ p \notin proc[d].gone \ proc[d].failed]]
  /\ Rest(d)
  /\ UNCHANGED <<builds, current, bucket>>

\* The last pass clears the packages none of whose keys failed.
FinishSweep(d) ==
  /\ At(d, "sweep")
  /\ proc[d].keys = {} /\ proc[d].clear = {}
  /\ rows' = [p \in Packages |->
                [rows[p] EXCEPT !.deployed =
                   @ /\ p \notin proc[d].gone \ proc[d].failed]]
  /\ Rest(d)
  /\ UNCHANGED <<builds, current, bucket>>

-----------------------------------------------------------------------------
\* The build a process needs is not (or no longer) valid.
Refused(d) ==
  \/ At(d, "deploy") /\ ~ValidateBuild(Max(Dirs))
  \/ (At(d, "upload") \/ At(d, "delete") \/ At(d, "promote"))
       /\ ~ValidateBuild(proc[d].build)

\* An error is returned or the process dies: what it had in memory is gone.
Abort(d) ==
  /\ ~At(d, "idle")
  /\ Faults \/ Refused(d)
  /\ Rest(d)
  /\ UNCHANGED <<rows, builds, current, bucket>>

Build(d) == FinishBuild(d) \/ \E S \in SUBSET Packages : ReadRows(d, S)

Sync(d) ==
  \/ \E b \in Ids : BeginSync(d, b)
  \/ \E k \in proc[d].keys : Upload(d, k)
  \/ Stamp(d) \/ ListGone(d) \/ PutRoot(d) \/ Promote(d)
  \/ \E p \in proc[d].gone, K \in SUBSET Kinds : DeleteObjects(d, p, K)
  \/ \E ok \in BOOLEAN : ClearHash(d, ok) \/ RecordR2Sync(d, ok)

Cleanup(d) == ListOld(d) \/ EndCleanup(d) \/ \E b \in proc[d].doomed : RemoveBuild(d, b)

Sweep(d) ==
  \/ StartSweep(d) \/ FinishSweep(d)
  \/ \E S \in SUBSET proc[d].gone : \E X \in SUBSET KeysOf(S) : SweepBatch(d, S, X)

Table == \E p \in Packages : ChangeContent(p) \/ SetActive(p)

Next ==
  \/ Table \/ StartPipeline
  \/ \E d \in Procs : Build(d) \/ Sync(d) \/ Cleanup(d) \/ Sweep(d) \/ Abort(d)

Spec == Init /\ [][Next]_vars

-----------------------------------------------------------------------------
(* Properties.                                                              *)

\* The repository never points at a build that is missing or unfinished,
\* although Cleanup decides what to remove before it removes it.
\* (local.go:14-39, local.go:70-116)
CurrentComplete == current # 0 => ValidateBuild(current)

\* Composer can fetch every package the promoted build lists: the object on R2
\* is there and at least as new as the build, although the sync skips files by
\* comparing two builds and never looks at the bucket. (r2.go:32-38, r2.go:75-80)
ServedFresh ==
  \A p \in Packages, k \in Kinds :
    current # 0 /\ builds[current].synced /\ rows[p].active
      => bucket[<<p, k>>] >= builds[current].files[p]

\* When nothing runs, objects of an inactive package can be found again: its
\* deployed_hash is set, so the next sync deletes them. (r2.go:36-39, 100-109)
OrphansKnown ==
  (\A d \in Procs : At(d, "idle")) =>
    \A p \in Packages, k \in Kinds :
      ~rows[p].active /\ bucket[<<p, k>>] # 0 => rows[p].deployed

\* deployed_hash is forgotten only when no object of the package is left, so
\* that a failed delete is retried. (r2.go:38-39, cleanup.go:36-37)
ClearStep ==
  \A p \in Packages, k \in Kinds :
    rows[p].deployed /\ ~rows'[p].deployed => bucket[<<p, k>>] = 0
HashClearedOnlyWhenGone == [][ClearStep]_vars

\* A package that stays inactive is cleared away in the end, however often a
\* delete fails, while there is a finished build to sync: "transient failures are
\* retried on the next sync". (r2.go:39)
GoneInTheEnd ==
  \A p \in Packages :
    <>[](~rows[p].active /\ \E b \in Ids : ValidateBuild(b)) => <>[](~rows[p].deployed)

=============================================================================
