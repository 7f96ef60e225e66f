---------------------------- MODULE R2DeployProofs ----------------------------
(* Proofs about R2Deploy, for every set of packages and files, any number of *)
(* builds, and any mixture of failures and status changes.                    *)
EXTENDS R2Deploy, TLAPS

-----------------------------------------------------------------------------
(* Types.                                                                    *)

\* What a process remembers may be overwritten field by field.
LEMMA Fields ==
  ASSUME NEW w \in Work
  PROVE  /\ \A s \in Steps : [w EXCEPT !.step = s] \in Work
         /\ \A b \in 0 .. MaxBuilds : [w EXCEPT !.build = b] \in Work
         /\ \A b \in 0 .. MaxBuilds : [w EXCEPT !.prev = b] \in Work
         /\ \A K \in SUBSET Keys : [w EXCEPT !.keys = K] \in Work
         /\ \A S \in SUBSET Packages : /\ [w EXCEPT !.gone = S] \in Work
                                       /\ [w EXCEPT !.clear = S] \in Work
                                       /\ [w EXCEPT !.failed = S] \in Work
         /\ \A D \in SUBSET Ids : [w EXCEPT !.doomed = D] \in Work
BY DEF Work

LEMMA IdleType == Idle \in Work
<1>1. 0 \in 0 .. MaxBuilds
  BY DeployAssumption
<1> QED BY <1>1 DEF Idle, Work, Steps

\* A step of one process that touches nothing but its memory.
LEMMA MemoryType ==
  ASSUME Types, NEW d \in Procs, NEW w \in Work, proc' = [proc EXCEPT ![d] = w]
  PROVE  proc' \in [Procs -> Work]
BY DEF Types

LEMMA TableType ==
  ASSUME Types, Table
  PROVE  Types'
<1>1. ASSUME NEW p \in Packages, ChangeContent(p) PROVE Types'
  <2>1. rows[p].data + 1 \in 1 .. MaxData
    BY <1>1, DeployAssumption DEF ChangeContent, Types, Row
  <2>2. [rows[p] EXCEPT !.data = @ + 1] \in Row
    BY <2>1 DEF Types, Row
  <2> QED BY <1>1, <2>2 DEF ChangeContent, Types
<1>2. ASSUME NEW p \in Packages, SetActive(p) PROVE Types'
  <2>1. [rows[p] EXCEPT !.active = ~@] \in Row
    BY DEF Types, Row
  <2> QED BY <1>2, <2>1 DEF SetActive, Types
<1> QED BY <1>1, <1>2 DEF Table

LEMMA BuildType ==
  ASSUME Types, NEW d \in Procs, StartPipeline \/ Build(d)
  PROVE  Types'
<1>0. /\ proc[d] \in Work /\ Pipeline \in Procs
      /\ Ids \subseteq 0 .. MaxBuilds
      /\ {"reserved", "build", "deploy"} \subseteq Steps
  BY DeployAssumption DEF Types, Procs, Ids, Steps
<1>1. CASE StartPipeline
  <2>1. PICK b \in Ids :
          /\ builds' = [builds EXCEPT ![b].state = "reserved"]
          /\ proc' = [proc EXCEPT ![Pipeline] = [Idle EXCEPT !.step = "reserved", !.build = b]]
    BY <1>1 DEF StartPipeline
  <2>2. builds' \in [Ids -> BuildRow]
    BY <2>1 DEF Types, BuildRow
  <2>3. [Idle EXCEPT !.step = "reserved", !.build = b] \in Work
    BY <1>0, IdleType, Fields
  <2> QED BY <1>0, <1>1, <2>1, <2>2, <2>3, MemoryType DEF StartPipeline, Types
<1>2. ASSUME NEW S \in SUBSET Packages, ReadRows(d, S) PROVE Types'
  <2> DEFINE f == [p \in Packages |-> IF p \in S /\ rows[p].active THEN rows[p].data ELSE 0]
  <2>1. PICK b \in Ids :
          /\ builds' = [builds EXCEPT ![b].state = "writing", ![b].files = f]
          /\ proc' = [proc EXCEPT ![d] = [Idle EXCEPT !.step = "build", !.build = b]]
    BY <1>2 DEF ReadRows
  <2>2. f \in [Packages -> 0 .. MaxData]
    BY DeployAssumption DEF Types, Row
  <2> HIDE DEF f
  <2>3. builds' \in [Ids -> BuildRow]
    <3>1. [builds[b] EXCEPT !.state = "writing", !.files = f] \in BuildRow
      BY <2>2 DEF Types, BuildRow
    <3> QED BY <2>1, <3>1 DEF Types
  <2>4. [Idle EXCEPT !.step = "build", !.build = b] \in Work
    BY <1>0, IdleType, Fields
  <2> QED BY <1>2, <2>1, <2>3, <2>4, MemoryType DEF ReadRows, Types
<1>3. CASE FinishBuild(d)
  <2>1. builds' \in [Ids -> BuildRow]
    BY <1>3 DEF FinishBuild, Types, BuildRow
  <2>2. [proc[d] EXCEPT !.step = "deploy"] \in Work /\ Idle \in Work
    BY <1>0, IdleType, Fields
  <2>3. proc' \in [Procs -> Work]
    BY <1>3, <2>2, MemoryType DEF FinishBuild, Goto, Rest
  <2> QED BY <1>3, <2>1, <2>3 DEF FinishBuild, Types
<1> QED BY <1>1, <1>2, <1>3 DEF Build

LEMMA SyncType ==
  ASSUME Types, NEW d \in Procs, Sync(d)
  PROVE  Types'
<1>0. proc[d] \in Work /\ Idle \in Work /\ Ids \subseteq 0 .. MaxBuilds
  BY DeployAssumption, IdleType DEF Types, Ids
<1>1. ASSUME NEW s \in Steps PROVE [proc[d] EXCEPT !.step = s] \in Work
  BY <1>0, Fields
<1>2. ASSUME NEW b \in Ids, BeginSync(d, b) PROVE Types'
  <2> DEFINE K == {k \in Keys : builds[b].files[k[1]] # 0}
             w == [Idle EXCEPT !.step = "upload", !.build = b, !.prev = PreviousBuild,
                               !.keys = K]
  <2>1. PreviousBuild \in 0 .. MaxBuilds /\ K \in SUBSET Keys /\ "upload" \in Steps
    BY DeployAssumption DEF PreviousBuild, Types, Steps
  <2> HIDE DEF K
  <2>2. w = [[[[Idle EXCEPT !.step = "upload"] EXCEPT !.build = b]
               EXCEPT !.prev = PreviousBuild] EXCEPT !.keys = K]
    BY DEF Idle
  <2>3. w \in Work
    BY <1>0, <2>1, <2>2, Fields
  <2> QED BY <1>2, <2>3, MemoryType DEF BeginSync, Types, K
<1>3. ASSUME NEW k \in proc[d].keys, Upload(d, k) PROVE Types'
  <2>1. k \in Keys
    BY <1>0 DEF Work
  <2>2. [proc[d] EXCEPT !.keys = @ \ {k}] \in Work
    BY <1>0, Fields DEF Work
  <2>3. bucket' \in [Keys -> 0 .. MaxData]
    <3>1. proc[d].build \in Ids /\ k[1] \in Packages
      BY <1>3, <2>1 DEF Upload, ValidateBuild, Keys
    <3>2. builds[proc[d].build].files[k[1]] \in 0 .. MaxData
      BY <3>1 DEF Types, BuildRow
    <3> QED BY <1>3, <2>1, <3>2 DEF Upload, Types
  <2>4. proc' \in [Procs -> Work]
    BY <1>3, <2>2 DEF Upload, Types
  <2> QED BY <1>3, <2>3, <2>4 DEF Upload, Types
<1>4. CASE Stamp(d)
  <2>1. \A p \in Packages : [rows[p] EXCEPT !.deployed = @ \/ rows[p].active] \in Row
    BY DEF Types, Row
  <2>2. "stamped" \in Steps
    BY DEF Steps
  <2> QED BY <1>1, <1>4, <2>1, <2>2, MemoryType DEF Stamp, Goto, Types
<1>5. CASE ListGone(d)
  <2>1. GetDeactivatedDeployedPackages \in SUBSET Packages /\ "delete" \in Steps
    BY DEF GetDeactivatedDeployedPackages, Steps
  <2> DEFINE w == [[proc[d] EXCEPT !.step = "delete"]
                     EXCEPT !.gone = GetDeactivatedDeployedPackages]
  <2>2. w \in Work
    BY <1>0, <2>1, Fields
  <2>3. proc' = [proc EXCEPT ![d] = w]
    BY <1>5 DEF ListGone, Types
  <2> QED BY <1>5, <2>2, <2>3, MemoryType DEF ListGone, Types
<1>6. CASE PutRoot(d) \/ Promote(d)
  <2>1. {"record", "cleanup"} \subseteq Steps
    BY DEF Steps
  <2>2. proc' \in [Procs -> Work]
    BY <1>0, <1>1, <1>6, <2>1, MemoryType DEF PutRoot, Promote, Goto, Rest
  <2>3. current' \in 0 .. MaxBuilds
    BY <1>0, <1>6 DEF PutRoot, Promote, ValidateBuild, Types
  <2> QED BY <1>6, <2>2, <2>3 DEF PutRoot, Promote, Types
<1>7. ASSUME NEW p \in proc[d].gone, NEW K \in SUBSET Kinds, DeleteObjects(d, p, K)
      PROVE  Types'
  <2> DEFINE c == IF K = Kinds THEN {p} ELSE {}
             w == [[proc[d] EXCEPT !.gone = @ \ {p}] EXCEPT !.clear = c]
  <2>1. proc[d].gone \in SUBSET Packages /\ c \in SUBSET Packages
    BY <1>0 DEF Work
  <2>2. w \in Work
    BY <1>0, <2>1, Fields
  <2>3. proc' = [proc EXCEPT ![d] = w]
    BY <1>7 DEF DeleteObjects, Types
  <2>4. bucket' \in [Keys -> 0 .. MaxData]
    BY <1>7, DeployAssumption DEF DeleteObjects, Types
  <2> QED BY <1>7, <2>2, <2>3, <2>4, MemoryType DEF DeleteObjects, Types
<1>8. ASSUME NEW ok \in BOOLEAN, ClearHash(d, ok) PROVE Types'
  <2>1. \A p \in Packages : [rows[p] EXCEPT !.deployed = @ /\ p \notin proc[d].clear] \in Row
    BY DEF Types, Row
  <2>2. [proc[d] EXCEPT !.clear = {}] \in Work
    BY <1>0, Fields
  <2> QED BY <1>8, <2>1, <2>2, MemoryType DEF ClearHash, Types
<1>9. ASSUME NEW ok \in BOOLEAN, RecordR2Sync(d, ok) PROVE Types'
  <2>1. builds' \in [Ids -> BuildRow]
    <3>1. \A b \in Ids : [builds[b] EXCEPT !.synced = @ \/ ok] \in BuildRow
      BY DEF Types, BuildRow
    <3> QED BY <1>9, <3>1 DEF RecordR2Sync, Types
  <2>2. "promote" \in Steps
    BY DEF Steps
  <2> QED BY <1>1, <1>9, <2>1, <2>2, MemoryType DEF RecordR2Sync, Goto, Types
<1> QED BY <1>2, <1>3, <1>4, <1>5, <1>6, <1>7, <1>8, <1>9 DEF Sync

LEMMA CleanupType ==
  ASSUME Types, NEW d \in Procs, Cleanup(d) \/ Abort(d)
  PROVE  Types'
<1>0. proc[d] \in Work /\ Idle \in Work
  BY IdleType DEF Types
<1>1. CASE ListOld(d)
  <2>1. PICK D \in SUBSET Ids :
          proc' = [proc EXCEPT ![d] = [Idle EXCEPT !.step = "remove", !.doomed = D]]
    BY <1>1 DEF ListOld, Dirs
  <2>2. "remove" \in Steps
    BY DEF Steps
  <2>3. [Idle EXCEPT !.step = "remove", !.doomed = D] \in Work
    BY <1>0, <2>2, Fields
  <2> QED BY <1>1, <2>1, <2>3, MemoryType DEF ListOld, Types
<1>2. ASSUME NEW b \in proc[d].doomed, RemoveBuild(d, b) PROVE Types'
  <2>1. [proc[d] EXCEPT !.doomed = @ \ {b}] \in Work
    BY <1>0, Fields DEF Work
  <2>2. builds' \in [Ids -> BuildRow]
    BY <1>2 DEF RemoveBuild, Types, BuildRow
  <2>3. proc' \in [Procs -> Work]
    BY <1>2, <2>1 DEF RemoveBuild, Types
  <2> QED BY <1>2, <2>2, <2>3 DEF RemoveBuild, Types
<1>3. CASE EndCleanup(d) \/ Abort(d)
  BY <1>0, <1>3, MemoryType DEF EndCleanup, Abort, Rest, Types
<1> QED BY <1>1, <1>2, <1>3 DEF Cleanup

LEMMA SweepType ==
  ASSUME Types, NEW d \in Procs, Sweep(d)
  PROVE  Types'
<1>0. proc[d] \in Work /\ Idle \in Work
  BY IdleType DEF Types
<1>1. CASE StartSweep(d)
  <2> DEFINE G == GetDeactivatedDeployedPackages
  <2>1. G \in SUBSET Packages /\ KeysOf(G) \in SUBSET Keys /\ "sweep" \in Steps
    BY DEF GetDeactivatedDeployedPackages, KeysOf, Steps
  <2> HIDE DEF G
  <2>2. [[[Idle EXCEPT !.step = "sweep"] EXCEPT !.gone = G] EXCEPT !.keys = KeysOf(G)] \in Work
    BY <1>0, <2>1, Fields
  <2>3. [Idle EXCEPT !.step = "sweep", !.gone = G, !.keys = KeysOf(G)] \in Work
    BY <2>2 DEF Idle
  <2> QED BY <1>1, <2>3, MemoryType DEF StartSweep, Types, G
<1>2. ASSUME NEW S \in SUBSET proc[d].gone, NEW X \in SUBSET KeysOf(S), SweepBatch(d, S, X)
      PROVE  Types'
  <2> DEFINE F == {k[1] : k \in X}
             C == {k[1] : k \in KeysOf(S) \ X}
             w == [[[proc[d] EXCEPT !.keys = @ \ KeysOf(S)] EXCEPT !.failed = @ \cup F]
                     EXCEPT !.clear = C]
  <2>1. F \in SUBSET Packages /\ C \in SUBSET Packages
    BY DEF KeysOf, Keys
  <2>2. proc[d].keys \in SUBSET Keys /\ proc[d].failed \in SUBSET Packages
    BY <1>0 DEF Work
  <2> HIDE DEF F, C
  <2>3. [proc[d] EXCEPT !.keys = @ \ KeysOf(S)] \in Work
    BY <1>0, <2>2, Fields
  <2>4. w = [[[proc[d] EXCEPT !.keys = @ \ KeysOf(S)]
                EXCEPT !.failed = proc[d].failed \cup F] EXCEPT !.clear = C]
    BY <1>0 DEF Work
  <2>5. w \in Work
    BY <2>1, <2>2, <2>3, <2>4, Fields
  <2>6. proc' = [proc EXCEPT ![d] = w]
    BY <1>2 DEF SweepBatch, Types, F, C
  <2>7. bucket' \in [Keys -> 0 .. MaxData]
    <3>1. 0 \in 0 .. MaxData
      BY DeployAssumption
    <3> DEFINE Y == KeysOf(S) \ X
    <3> HIDE DEF Y
    <3>3. bucket' = [k \in Keys |-> IF k \in Y THEN 0 ELSE bucket[k]]
      BY <1>2 DEF SweepBatch, Y
    <3>4. bucket \in [Keys -> 0 .. MaxData]
      BY DEF Types
    <3> QED BY <3>1, <3>3, <3>4
  <2> HIDE DEF w
  <2> QED BY <1>2, <2>5, <2>6, <2>7, MemoryType DEF SweepBatch, Types
<1>3. CASE FinishSweep(d)
  <2>1. \A p \in Packages :
          [rows[p] EXCEPT !.deployed = @ /\ p \notin proc[d].gone \ proc[d].failed] \in Row
    BY DEF Types, Row
  <2> QED BY <1>0, <1>3, <2>1, MemoryType DEF FinishSweep, Rest, Types
<1> QED BY <1>1, <1>2, <1>3 DEF Sweep

LEMMA TypesInit == Init => Types
BY IdleType, DeployAssumption DEF Init, Types, Row, BuildRow

LEMMA TypesStep == Types /\ [Next]_vars => Types'
<1>1. Types /\ UNCHANGED vars => Types'
  BY DEF Types, vars
<1>2. Pipeline \in Procs
  BY DEF Procs
<1>3. Types /\ Next => Types'
  BY <1>2, TableType, BuildType, SyncType, CleanupType, SweepType DEF Next
<1> QED BY <1>1, <1>3

\* Rows, builds, objects and the memory of every process keep their types
\* whatever runs beside what.
LEMMA TypesKept == Spec => []Types
BY TypesInit, TypesStep, PTL DEF Spec

\* What a step leaves in the memory of the process that takes it.
Leaves(d) ==
  /\ \A e \in Procs : e # d => proc'[e] = proc[e]
  /\ \A b \in Ids : builds[b].state # "none" => builds'[b].state # "none"
  /\ \/ proc'[d] = Idle
     \/ /\ proc'[d].step # "idle"
        /\ \/ proc'[d].build \in {0, proc[d].build}
           \/ builds'[proc'[d].build].state # "none"

LEMMA BuildLeaves ==
  ASSUME Types, NEW d \in Procs, Build(d) \/ (d = Pipeline /\ StartPipeline)
  PROVE  Leaves(d)
<1>0. proc \in [Procs -> Work] /\ builds \in [Ids -> BuildRow]
  BY DEF Types
<1>1. ASSUME NEW b \in Ids, d = Pipeline,
             builds' = [builds EXCEPT ![b].state = "reserved"],
             proc' = [proc EXCEPT ![Pipeline] = [Idle EXCEPT !.step = "reserved", !.build = b]]
      PROVE  Leaves(d)
  BY <1>0, <1>1 DEF Leaves, BuildRow, Idle
<1>2. CASE d = Pipeline /\ StartPipeline
  BY <1>1, <1>2 DEF StartPipeline
<1>3. ASSUME NEW S \in SUBSET Packages, ReadRows(d, S) PROVE Leaves(d)
  <2> DEFINE f == [p \in Packages |-> IF p \in S /\ rows[p].active THEN rows[p].data ELSE 0]
  <2>1. PICK b \in Ids :
          /\ builds' = [builds EXCEPT ![b].state = "writing", ![b].files = f]
          /\ proc' = [proc EXCEPT ![d] = [Idle EXCEPT !.step = "build", !.build = b]]
    BY <1>3 DEF ReadRows
  <2> HIDE DEF f
  <2>2. proc'[d].step = "build" /\ proc'[d].build = b /\ \A e \in Procs : e # d => proc'[e] = proc[e]
    BY <1>0, <2>1 DEF Idle
  <2>3. builds'[b].state = "writing" /\ \A c \in Ids : c # b => builds'[c] = builds[c]
    BY <1>0, <2>1 DEF BuildRow
  <2> QED BY <2>2, <2>3 DEF Leaves
<1>4. CASE FinishBuild(d)
  <2>1. \A b \in Ids : builds[b].state # "none" => builds'[b].state # "none"
    BY <1>0, <1>4 DEF FinishBuild, BuildRow
  <2>2. \/ proc'[d] = Idle
        \/ proc'[d].step = "deploy" /\ proc'[d].build = proc[d].build
    BY <1>0, <1>4 DEF FinishBuild, Goto, Rest, Work
  <2>3. \A e \in Procs : e # d => proc'[e] = proc[e]
    BY <1>0, <1>4 DEF FinishBuild, Goto, Rest
  <2> QED BY <2>1, <2>2, <2>3 DEF Leaves
<1> QED BY <1>2, <1>3, <1>4 DEF Build

LEMMA SyncLeaves ==
  ASSUME TypeOK, NEW d \in Procs, Sync(d)
  PROVE  Leaves(d)
<1>0. /\ proc \in [Procs -> Work] /\ builds \in [Ids -> BuildRow] /\ proc[d] \in Work
      /\ proc[d].step = "idle" => proc[d].clear = {}
  BY DEF TypeOK, Types, Idle
<1>1. ASSUME NEW b \in Ids, BeginSync(d, b) PROVE Leaves(d)
  <2>1. proc'[d].step = "upload" /\ proc'[d].build = b
    BY <1>0, <1>1 DEF BeginSync, Idle
  <2>2. builds' = builds /\ builds[b].state = "complete" /\ \A e \in Procs : e # d => proc'[e] = proc[e]
    BY <1>0, <1>1 DEF BeginSync, ValidateBuild
  <2> QED BY <2>1, <2>2 DEF Leaves
<1>2. ASSUME UNCHANGED builds, proc'[d].step # "idle", proc'[d].build = proc[d].build,
             \A e \in Procs : e # d => proc'[e] = proc[e]
      PROVE  Leaves(d)
  BY <1>2 DEF Leaves
<1>3. ASSUME NEW k \in proc[d].keys, Upload(d, k) PROVE Leaves(d)
  BY <1>0, <1>2, <1>3 DEF Upload, At, Work
<1>4. CASE Stamp(d) \/ ListGone(d) \/ PutRoot(d)
  BY <1>0, <1>2, <1>4 DEF Stamp, ListGone, PutRoot, Goto, Work
<1>5. CASE Promote(d)
  <2>1. CASE d = Pipeline
    BY <1>0, <1>2, <1>5, <2>1 DEF Promote, Goto, Work
  <2>2. CASE d # Pipeline
    BY <1>0, <1>5, <2>2 DEF Promote, Rest, Leaves
  <2> QED BY <2>1, <2>2
<1>6. ASSUME NEW p \in proc[d].gone, NEW K \in SUBSET Kinds, DeleteObjects(d, p, K)
      PROVE  Leaves(d)
  BY <1>0, <1>2, <1>6 DEF DeleteObjects, At, Work
<1>7. ASSUME NEW ok \in BOOLEAN, ClearHash(d, ok) PROVE Leaves(d)
  BY <1>0, <1>2, <1>7 DEF ClearHash, Work
<1>8. ASSUME NEW ok \in BOOLEAN, RecordR2Sync(d, ok) PROVE Leaves(d)
  <2>1. \A b \in Ids : builds'[b].state = builds[b].state
    BY <1>0, <1>8 DEF RecordR2Sync, BuildRow
  <2>2. /\ proc'[d].step = "promote" /\ proc'[d].build = proc[d].build
        /\ \A e \in Procs : e # d => proc'[e] = proc[e]
    BY <1>0, <1>8 DEF RecordR2Sync, Goto, Work
  <2> QED BY <2>1, <2>2 DEF Leaves
<1> QED BY <1>1, <1>3, <1>4, <1>5, <1>6, <1>7, <1>8 DEF Sync

LEMMA CleanupLeaves ==
  ASSUME Types, NEW d \in Procs, Cleanup(d) \/ Sweep(d) \/ Abort(d)
  PROVE  Leaves(d)
<1>0. proc \in [Procs -> Work] /\ builds \in [Ids -> BuildRow] /\ proc[d] \in Work
  BY DEF Types
<1>1. CASE EndCleanup(d) \/ FinishSweep(d) \/ Abort(d)
  BY <1>0, <1>1 DEF EndCleanup, FinishSweep, Abort, Rest, Leaves
<1>2. ASSUME UNCHANGED builds, proc'[d].step # "idle", proc'[d].build \in {0, proc[d].build},
             \A e \in Procs : e # d => proc'[e] = proc[e]
      PROVE  Leaves(d)
  BY <1>2 DEF Leaves
<1>3. CASE ListOld(d)
  BY <1>0, <1>2, <1>3 DEF ListOld, Idle
<1>4. ASSUME NEW b \in proc[d].doomed, RemoveBuild(d, b) PROVE Leaves(d)
  <2>1. \A c \in Ids : builds[c].state # "none" => builds'[c].state # "none"
    BY <1>0, <1>4 DEF RemoveBuild, BuildRow
  <2>2. /\ proc'[d].step = "remove" /\ proc'[d].build = proc[d].build
        /\ \A e \in Procs : e # d => proc'[e] = proc[e]
    BY <1>0, <1>4 DEF RemoveBuild, At, Work
  <2> QED BY <2>1, <2>2 DEF Leaves
<1>5. CASE StartSweep(d)
  BY <1>0, <1>2, <1>5 DEF StartSweep, Idle
<1>6. ASSUME NEW S \in SUBSET proc[d].gone, NEW X \in SUBSET KeysOf(S), SweepBatch(d, S, X)
      PROVE  Leaves(d)
  BY <1>0, <1>2, <1>6 DEF SweepBatch, At, Work
<1> QED BY <1>1, <1>3, <1>4, <1>5, <1>6 DEF Cleanup, Sweep

\* Whatever runs beside what, a command that ended remembers nothing, and the build
\* of a running one exists.
THEOREM TypeCorrect == Spec => []TypeOK
<1>1. Init => TypeOK
  <2>1. Init => \A d \in Procs : proc[d] = Idle
    BY DEF Init
  <2> QED BY <2>1, TypesInit DEF TypeOK, Idle
<1>2. TypeOK /\ [Next]_vars => TypeOK'
  <2> SUFFICES ASSUME TypeOK, [Next]_vars PROVE TypeOK'
    OBVIOUS
  <2>1. Types /\ Types' /\ Pipeline \in Procs
    BY TypesStep DEF TypeOK, Procs
  <2>2. CASE Table \/ UNCHANGED vars
    BY <2>1, <2>2 DEF Table, ChangeContent, SetActive, vars, TypeOK
  <2>3. ASSUME NEW d \in Procs, Leaves(d) PROVE TypeOK'
    <3>1. \A e \in Procs : proc[e].build # 0 => proc[e].build \in Ids
      BY <2>1, DeployAssumption DEF Types, Work, Ids
    <3> QED BY <2>1, <2>3, <3>1 DEF Leaves, TypeOK, Idle
  <2> QED BY <2>1, <2>2, <2>3, BuildLeaves, SyncLeaves, CleanupLeaves DEF Next
<1> QED BY <1>1, <1>2, PTL DEF Spec

-----------------------------------------------------------------------------
(* The pipeline alone, which is how the timers start it: nobody runs build,   *)
(* deploy or cleanup-r2-orphans beside it. Calls may fail, the process may    *)
(* die and rows may change at any step.                                       *)

Mine == proc[Pipeline]

LEMMA OneProcess ==
  ASSUME Operators = {}
  PROVE  Procs = {Pipeline}
BY DEF Procs

\* What is to be cleared has no object left, and nothing uploads meanwhile.
HashInv ==
  /\ Mine.step # "sweep"
  /\ Mine.clear # {} => Mine.step = "delete"
  /\ \A p \in Mine.clear, k \in Kinds : bucket[<<p, k>>] = 0

\* After a step that leaves nothing to clear, only a lost hash can hurt.
LEMMA HashQuiet ==
  ASSUME Types, HashInv, NEW w \in Work, proc' = [proc EXCEPT ![Pipeline] = w],
         w.step # "sweep", w.clear = {},
         \A p \in Packages : rows[p].deployed => rows'[p].deployed
  PROVE  HashInv' /\ ClearStep
<1>1. Mine' = w
  BY DEF Types, Mine, Procs
<1> QED BY <1>1 DEF HashInv, ClearStep

LEMMA HashSync ==
  ASSUME Types, HashInv, Sync(Pipeline)
  PROVE  HashInv' /\ ClearStep
<1> DEFINE d == Pipeline
<1>0. d \in Procs /\ proc[d] \in Work /\ Mine = proc[d] /\ Idle \in Work
  BY IdleType DEF Types, Mine, Procs
<1>1. Mine.step # "delete" => Mine.clear = {}
  BY DEF HashInv
<1>2. ASSUME NEW s \in Steps \ {"sweep"}, Mine.step # "delete" \/ Mine.clear = {},
             Goto(d, s), \A p \in Packages : rows[p].deployed => rows'[p].deployed
      PROVE  HashInv' /\ ClearStep
  <2>1. [proc[d] EXCEPT !.step = s] \in Work
    BY <1>0, Fields
  <2>2. [proc[d] EXCEPT !.step = s].step = s /\ [proc[d] EXCEPT !.step = s].clear = {}
    BY <1>0, <1>1, <1>2 DEF Work
  <2> QED BY <1>2, <2>1, <2>2, HashQuiet DEF Goto
<1>3. ASSUME NEW b \in Ids, BeginSync(d, b) PROVE HashInv' /\ ClearStep
  <2>1. Mine'.step = "upload" /\ Mine'.clear = {} /\ rows' = rows
    BY <1>0, <1>3 DEF BeginSync, Idle, Mine, Types
  <2> QED BY <2>1 DEF HashInv, ClearStep
<1>4. ASSUME NEW k \in proc[d].keys, Upload(d, k) PROVE HashInv' /\ ClearStep
  <2>1. Mine'.step = "upload" /\ Mine'.clear = {} /\ rows' = rows
    BY <1>0, <1>1, <1>4 DEF Upload, At, Mine, Types, Work
  <2> QED BY <2>1 DEF HashInv, ClearStep
<1>5. CASE Stamp(d)
  <2>1. "stamped" \in Steps \ {"sweep"} /\ Mine.step # "delete"
    BY <1>0, <1>5 DEF Stamp, At, Steps
  <2>2. \A p \in Packages : rows[p].deployed => rows'[p].deployed
    BY <1>5 DEF Stamp, Types, Row
  <2> QED BY <1>2, <1>5, <2>1, <2>2 DEF Stamp
<1>6. CASE ListGone(d)
  <2>1. Mine'.step = "delete" /\ Mine'.clear = {} /\ rows' = rows
    BY <1>0, <1>1, <1>6 DEF ListGone, At, Mine, Types, Work
  <2> QED BY <2>1 DEF HashInv, ClearStep
<1>7. CASE PutRoot(d)
  <2>1. "record" \in Steps \ {"sweep"} /\ Mine.clear = {} /\ rows' = rows
    BY <1>0, <1>7 DEF PutRoot, Steps
  <2> QED BY <1>2, <1>7, <2>1 DEF PutRoot
<1>8. CASE Promote(d)
  <2>1. "cleanup" \in Steps \ {"sweep"} /\ Mine.step # "delete" /\ rows' = rows
    BY <1>0, <1>8 DEF Promote, At, Steps
  <2> QED BY <1>2, <1>8, <2>1 DEF Promote
<1>9. ASSUME NEW p \in proc[d].gone, NEW K \in SUBSET Kinds, DeleteObjects(d, p, K)
      PROVE  HashInv' /\ ClearStep
  <2>1. Mine' = [proc[d] EXCEPT !.gone = @ \ {p}, !.clear = IF K = Kinds THEN {p} ELSE {}]
    BY <1>0, <1>9 DEF DeleteObjects, Mine, Types
  <2>2. Mine'.step = "delete" /\ Mine'.clear = IF K = Kinds THEN {p} ELSE {}
    BY <1>0, <1>9, <2>1 DEF DeleteObjects, At, Work
  <2>3. p \in Packages
    BY <1>0 DEF Work
  <2>4. \A k \in Kinds : K = Kinds => bucket'[<<p, k>>] = 0
    <3>1. \A k \in Kinds : <<p, k>> \in Keys
      BY <2>3 DEF Keys
    <3> QED BY <1>9, <3>1 DEF DeleteObjects
  <2> QED BY <1>9, <2>2, <2>4 DEF DeleteObjects, HashInv, ClearStep
<1>10. ASSUME NEW ok \in BOOLEAN, ClearHash(d, ok) PROVE HashInv' /\ ClearStep
  <2>1. Mine'.step = Mine.step /\ Mine'.clear = {}
    BY <1>0, <1>10 DEF ClearHash, Mine, Types, Work
  <2>2. \A p \in Packages : rows[p].deployed /\ ~rows'[p].deployed => p \in Mine.clear
    BY <1>0, <1>10 DEF ClearHash, Types, Row
  <2> QED BY <2>1, <2>2 DEF HashInv, ClearStep
<1>11. ASSUME NEW ok \in BOOLEAN, RecordR2Sync(d, ok) PROVE HashInv' /\ ClearStep
  <2>1. "promote" \in Steps \ {"sweep"} /\ Mine.step # "delete" /\ rows' = rows
    BY <1>0, <1>11 DEF RecordR2Sync, At, Steps
  <2> QED BY <1>2, <1>11, <2>1 DEF RecordR2Sync
<1> QED BY <1>3, <1>4, <1>5, <1>6, <1>7, <1>8, <1>9, <1>10, <1>11 DEF Sync

LEMMA HashStep ==
  ASSUME Operators = {}, Types, HashInv, [Next]_vars
  PROVE  HashInv' /\ ClearStep
<1> DEFINE d == Pipeline
<1>0. /\ d \in Procs /\ proc[d] \in Work /\ Mine = proc[d] /\ Procs = {d}
      /\ Idle \in Work /\ Idle.step = "idle" /\ Idle.clear = {}
  BY OneProcess, IdleType DEF Types, Mine, Procs, Idle
<1>1. CASE Table
  <2>1. \A p \in Packages : rows'[p].deployed = rows[p].deployed
    BY <1>1 DEF Table, ChangeContent, SetActive, Types, Row
  <2>2. Mine' = Mine /\ bucket' = bucket
    BY <1>1 DEF Table, ChangeContent, SetActive, Mine
  <2> QED BY <2>1, <2>2 DEF HashInv, ClearStep
<1>2. CASE StartPipeline \/ Build(d)
  <2>1. rows' = rows /\ Mine'.step \in {"reserved", "build", "deploy"} /\ Mine'.clear = {}
    <3>1. CASE StartPipeline
      BY <1>0, <3>1 DEF StartPipeline, Mine, Types, Idle
    <3>2. ASSUME NEW S \in SUBSET Packages, ReadRows(d, S)
          PROVE  rows' = rows /\ Mine'.step = "build" /\ Mine'.clear = {}
      BY <1>0, <3>2 DEF ReadRows, Mine, Types, Idle
    <3>3. CASE FinishBuild(d)
      BY <1>0, <3>3 DEF FinishBuild, Goto, At, Mine, Types, Work, HashInv
    <3> QED BY <1>2, <3>1, <3>2, <3>3 DEF Build
  <2> QED BY <2>1 DEF HashInv, ClearStep
<1>3. CASE Sync(d)
  BY <1>3, HashSync
<1>4. CASE Cleanup(d)
  <2>1. rows' = rows /\ Mine'.step \in {"idle", "remove"} /\ Mine'.clear = {}
    <3>1. CASE ListOld(d)
      BY <1>0, <3>1 DEF ListOld, Mine, Types, Idle
    <3>2. CASE EndCleanup(d)
      BY <1>0, <3>2 DEF EndCleanup, Rest, Mine, Types
    <3>3. ASSUME NEW b \in proc[d].doomed, RemoveBuild(d, b)
          PROVE  rows' = rows /\ Mine'.step = "remove" /\ Mine'.clear = {}
      BY <1>0, <3>3 DEF RemoveBuild, At, Mine, Types, Work, HashInv
    <3> QED BY <1>4, <3>1, <3>2, <3>3 DEF Cleanup
  <2> QED BY <2>1 DEF HashInv, ClearStep
<1>5. CASE Sweep(d)
  BY <1>0, <1>5 DEF Sweep, StartSweep, FinishSweep, SweepBatch, At, HashInv
<1>6. CASE Abort(d)
  BY <1>0, <1>6, HashQuiet DEF Abort, Rest
<1>7. CASE UNCHANGED vars
  BY <1>7 DEF vars, Mine, HashInv, ClearStep
<1> QED BY <1>0, <1>1, <1>2, <1>3, <1>4, <1>5, <1>6, <1>7 DEF Next

\* The pipeline forgets a deployed_hash only after both objects of the package
\* are gone, through failed deletes, failed updates and crashes.
THEOREM HashKept ==
  ASSUME Operators = {}
  PROVE  Spec => HashClearedOnlyWhenGone
<1>1. Init => HashInv
  BY DEF Init, HashInv, Mine, Idle, Procs
<1>2. Types /\ HashInv /\ [Next]_vars => HashInv' /\ ClearStep
  BY HashStep
<1>3. Types /\ HashInv /\ [Next]_vars => HashInv' /\ [ClearStep]_vars
  BY <1>2
<1>4. Spec => []Types
  BY TypesKept
<1> QED BY <1>1, <1>3, <1>4, PTL DEF Spec, HashClearedOnlyWhenGone

-----------------------------------------------------------------------------
\* A reserved build is not the promoted one, and neither is a doomed one.
CurrentInv ==
  /\ CurrentComplete
  /\ Mine.step = "reserved" => builds[Mine.build].state = "reserved"
  /\ Mine.step = "remove" => current \notin Mine.doomed

LEMMA CurrentBuild ==
  ASSUME Types, CurrentInv, StartPipeline \/ Build(Pipeline)
  PROVE  CurrentInv'
<1> DEFINE d == Pipeline
<1>0. d \in Procs /\ proc[d] \in Work /\ Mine = proc[d]
  BY DEF Types, Mine, Procs
<1>1. CASE StartPipeline
  <2>0. PICK b \in Ids :
          /\ FreshId(b) /\ builds' = [builds EXCEPT ![b].state = "reserved"]
          /\ proc' = [proc EXCEPT ![d] = [Idle EXCEPT !.step = "reserved", !.build = b]]
    BY <1>1 DEF StartPipeline
  <2>1. Mine'.step = "reserved" /\ Mine'.build = b
    BY <1>0, <2>0 DEF Mine, Types, Idle
  <2>2. builds'[b].state = "reserved" /\ \A c \in Ids : c # b => builds'[c] = builds[c]
    BY <2>0 DEF Types, BuildRow
  <2>3. current' = current /\ (current # 0 => current # b)
    BY <1>1, <2>0 DEF StartPipeline, FreshId, CurrentInv, CurrentComplete, ValidateBuild
  <2> QED BY <2>1, <2>2, <2>3 DEF CurrentInv, CurrentComplete, ValidateBuild
<1>2. ASSUME NEW S \in SUBSET Packages, ReadRows(d, S) PROVE CurrentInv'
  <2> DEFINE f == [p \in Packages |-> IF p \in S /\ rows[p].active THEN rows[p].data ELSE 0]
  <2>0. PICK b \in Ids :
          /\ Mine.step = "reserved" /\ b = Mine.build
          /\ builds' = [builds EXCEPT ![b].state = "writing", ![b].files = f]
          /\ proc' = [proc EXCEPT ![d] = [Idle EXCEPT !.step = "build", !.build = b]]
    BY <1>0, <1>2 DEF ReadRows, At
  <2> HIDE DEF f
  <2>1. Mine'.step = "build" /\ \A c \in Ids : c # b => builds'[c] = builds[c]
    BY <1>0, <2>0 DEF Mine, Types, Idle
  <2>2. current' = current /\ (current # 0 => current # b)
    BY <1>2, <2>0 DEF ReadRows, CurrentInv, CurrentComplete, ValidateBuild
  <2> QED BY <2>1, <2>2 DEF CurrentInv, CurrentComplete, ValidateBuild
<1>3. CASE FinishBuild(d)
  <2>1. Mine'.step = "deploy" /\ current' = current
    BY <1>0, <1>3 DEF FinishBuild, Goto, Mine, Types, Work
  <2>2. \A c \in Ids : builds[c].state = "complete" => builds'[c].state = "complete"
    BY <1>3 DEF FinishBuild, Types, BuildRow
  <2> QED BY <2>1, <2>2 DEF CurrentInv, CurrentComplete, ValidateBuild
<1> QED BY <1>1, <1>2, <1>3 DEF Build

LEMMA CurrentSync ==
  ASSUME Types, CurrentInv, Sync(Pipeline)
  PROVE  CurrentInv'
<1> DEFINE d == Pipeline
<1>0. d \in Procs /\ proc[d] \in Work /\ Mine = proc[d]
  BY DEF Types, Mine, Procs
<1>1. ASSUME builds' = builds, current' = current, Mine'.step \notin {"reserved", "remove"}
      PROVE  CurrentInv'
  BY <1>1 DEF CurrentInv, CurrentComplete, ValidateBuild
<1>2. ASSUME NEW b \in Ids, BeginSync(d, b) PROVE CurrentInv'
  <2>1. Mine'.step = "upload"
    BY <1>0, <1>2 DEF BeginSync, Idle, Mine, Types
  <2> QED BY <1>1, <1>2, <2>1 DEF BeginSync
<1>3. ASSUME NEW k \in proc[d].keys, Upload(d, k) PROVE CurrentInv'
  <2>1. Mine'.step = "upload"
    BY <1>0, <1>3 DEF Upload, At, Mine, Types, Work
  <2> QED BY <1>1, <1>3, <2>1 DEF Upload
<1>4. CASE Stamp(d) \/ ListGone(d) \/ PutRoot(d)
  <2>1. Mine'.step \in {"stamped", "delete", "record"}
    BY <1>0, <1>4 DEF Stamp, ListGone, PutRoot, Goto, Mine, Types, Work
  <2> QED BY <1>1, <1>4, <2>1 DEF Stamp, ListGone, PutRoot
<1>5. ASSUME NEW p \in proc[d].gone, NEW K \in SUBSET Kinds, DeleteObjects(d, p, K)
      PROVE  CurrentInv'
  <2>1. Mine' = [proc[d] EXCEPT !.gone = @ \ {p}, !.clear = IF K = Kinds THEN {p} ELSE {}]
    BY <1>0, <1>5 DEF DeleteObjects, Mine, Types
  <2>2. Mine'.step = "delete"
    BY <1>0, <1>5, <2>1 DEF DeleteObjects, At, Work
  <2> QED BY <1>1, <1>5, <2>2 DEF DeleteObjects
<1>6. ASSUME NEW ok \in BOOLEAN, ClearHash(d, ok) PROVE CurrentInv'
  <2>1. Mine' = [proc[d] EXCEPT !.clear = {}]
    BY <1>0, <1>6 DEF ClearHash, Mine, Types
  <2>2. Mine'.step = Mine.step /\ Mine'.build = Mine.build /\ Mine'.doomed = Mine.doomed
    BY <1>0, <2>1 DEF Work
  <2> QED BY <1>6, <2>2 DEF ClearHash, CurrentInv, CurrentComplete, ValidateBuild
<1>7. ASSUME NEW ok \in BOOLEAN, RecordR2Sync(d, ok) PROVE CurrentInv'
  <2>1. Mine'.step = "promote" /\ current' = current
    BY <1>0, <1>7 DEF RecordR2Sync, Goto, Mine, Types, Work
  <2>2. \A c \in Ids : builds'[c].state = builds[c].state
    BY <1>7 DEF RecordR2Sync, Types, BuildRow
  <2> QED BY <2>1, <2>2 DEF CurrentInv, CurrentComplete, ValidateBuild
<1>8. CASE Promote(d)
  <2>1. Mine'.step = "cleanup"
    BY <1>0, <1>8 DEF Promote, Goto, Mine, Types, Work
  <2> QED BY <1>8, <2>1 DEF Promote, CurrentInv, CurrentComplete, ValidateBuild
<1> QED BY <1>2, <1>3, <1>4, <1>5, <1>6, <1>7, <1>8 DEF Sync

LEMMA CurrentCleanup ==
  ASSUME Types, CurrentInv, Cleanup(Pipeline) \/ Abort(Pipeline)
  PROVE  CurrentInv'
<1> DEFINE d == Pipeline
<1>0. d \in Procs /\ proc[d] \in Work /\ Mine = proc[d]
  BY DEF Types, Mine, Procs
<1>1. CASE ListOld(d)
  <2>1. Mine'.step = "remove" /\ Mine'.doomed \subseteq Dirs \ {current}
    BY <1>0, <1>1 DEF ListOld, Mine, Types, Idle
  <2> QED BY <1>1, <2>1 DEF ListOld, CurrentInv, CurrentComplete, ValidateBuild
<1>2. ASSUME NEW b \in proc[d].doomed, RemoveBuild(d, b) PROVE CurrentInv'
  <2>1. Mine'.step = "remove" /\ Mine'.doomed \subseteq Mine.doomed
    BY <1>0, <1>2 DEF RemoveBuild, At, Mine, Types, Work
  <2>2. current' = current /\ current \notin Mine.doomed /\ current # b
    BY <1>0, <1>2 DEF RemoveBuild, At, CurrentInv
  <2>3. \A c \in Ids : c # b => builds'[c] = builds[c]
    BY <1>2 DEF RemoveBuild, Types
  <2> QED BY <2>1, <2>2, <2>3 DEF CurrentInv, CurrentComplete, ValidateBuild
<1>3. CASE EndCleanup(d) \/ Abort(d)
  <2>1. Mine'.step = "idle"
    BY <1>0, <1>3 DEF EndCleanup, Abort, Rest, Mine, Types, Idle
  <2> QED BY <1>3, <2>1 DEF EndCleanup, Abort, CurrentInv, CurrentComplete, ValidateBuild
<1> QED BY <1>1, <1>2, <1>3 DEF Cleanup

LEMMA CurrentStep ==
  ASSUME Operators = {}, Types, HashInv, CurrentInv, [Next]_vars
  PROVE  CurrentInv'
<1>1. CASE Table \/ UNCHANGED vars
  BY <1>1 DEF Table, ChangeContent, SetActive, vars, Mine, CurrentInv, CurrentComplete,
              ValidateBuild
<1>2. CASE Sweep(Pipeline)
  BY <1>2 DEF Sweep, StartSweep, FinishSweep, SweepBatch, At, HashInv, Mine
<1> QED BY <1>1, <1>2, OneProcess, CurrentBuild, CurrentSync, CurrentCleanup DEF Next

\* While only the pipeline runs, "current" names a finished build that is there,
\* wherever a crash stopped a build, a deploy or a cleanup.
THEOREM CurrentKept ==
  ASSUME Operators = {}
  PROVE  Spec => []CurrentComplete
<1>1. Init => CurrentInv
  BY DEF Init, CurrentInv, CurrentComplete, Mine, Idle, Procs
<1>2. Types /\ HashInv /\ CurrentInv /\ [Next]_vars => CurrentInv'
  BY CurrentStep
<1>3. CurrentInv => CurrentComplete
  BY DEF CurrentInv
<1>4. Types /\ HashInv /\ [Next]_vars => HashInv'
  BY HashStep
<1>5. Init => HashInv
  BY DEF Init, HashInv, Mine, Idle, Procs
<1>6. Spec => []Types
  BY TypesKept
<1> QED BY <1>1, <1>2, <1>3, <1>4, <1>5, <1>6, PTL DEF Spec

-----------------------------------------------------------------------------
(* What Composer is served, while only the pipeline runs and no status changes *)
(* under a run: either none changes at all, or runs are not cut short.        *)

Steady == Status = "fixed" \/ (Status = "calm" /\ ~Faults)

Building == {"build", "deploy", "upload", "stamped", "delete", "record", "promote"}
Sent == {"stamped", "delete", "record", "promote"}

\* Build ids are handed out in order.
InOrder ==
  \A b, c \in Ids : b < c /\ builds[c].state # "none" => builds[b].state # "none"

\* No build says more than its row.
RowsAhead == \A b \in Ids, p \in Packages : builds[b].files[p] <= rows[p].data

\* A run's build is the newest one, and finished before it is deployed.
Newest ==
  Mine.step \in {"reserved"} \cup Building =>
    /\ Mine.build \in Ids
    /\ \A b \in Ids : builds[b].state # "none" => b <= Mine.build
    /\ Mine.step = "reserved" => builds[Mine.build].state = "reserved"
    /\ Mine.step = "build" => builds[Mine.build].state = "writing"
    /\ Mine.step \notin {"reserved", "build"} => builds[Mine.build].state = "complete"

\* It lists the active packages, as new as any build has them, and no other.
Lists ==
  Mine.step \in Building =>
    \A p \in Packages :
      /\ rows[p].active => \A b \in Ids : builds[b].files[p] <= builds[Mine.build].files[p]
      /\ ~rows[p].active => builds[Mine.build].files[p] = 0

\* What is left to upload is active, what is to be deleted is not, and what is to be
\* removed is there.
Chosen ==
  /\ Mine.step = "upload" => /\ Mine.prev = PreviousBuild
                             /\ \A k \in Mine.keys : rows[k[1]].active
  /\ Mine.step = "delete" => \A p \in Mine.gone : ~rows[p].active
  /\ Mine.step = "remove" => \A b \in Mine.doomed : builds[b].state # "none"

InBucket(p, k) == bucket[<<p, k>>] >= builds[Mine.build].files[p]

\* What was uploaded, or skipped, is in the bucket.
Uploaded ==
  \A p \in Packages, k \in Kinds :
    /\ Mine.step = "upload" => <<p, k>> \in Mine.keys \/ InBucket(p, k)
    /\ Mine.step \in Sent => InBucket(p, k)

\* ServedFresh, and for inactive packages too unless a run is about to replace the
\* build that lists them.
Served ==
  \A p \in Packages, k \in Kinds :
    /\ current # 0 /\ builds[current].synced
    /\ rows[p].active \/ Mine.step \notin {"delete", "record", "promote"}
    => bucket[<<p, k>>] >= builds[current].files[p]

\* An object whose package has no deployed_hash is that of an active package.
Known ==
  /\ Status = "fixed" => \A p \in Packages : rows[p].active
  /\ \A p \in Packages, k \in Kinds :
       bucket[<<p, k>>] # 0 /\ ~rows[p].deployed
         => rows[p].active /\ (Status = "fixed" \/ Mine.step = "upload")

ServedInv ==
  /\ InOrder /\ RowsAhead /\ Newest /\ Lists /\ Chosen /\ Uploaded /\ Served /\ Known

\* The state a run of the pipeline is in.
Run == Types /\ HashInv /\ CurrentInv /\ ServedInv /\ Steady

LEMMA Me == ASSUME Types PROVE Pipeline \in Procs /\ proc[Pipeline] \in Work /\ Mine = proc[Pipeline]
BY DEF Types, Mine, Procs

LEMMA RowTypes ==
  ASSUME Types
  PROVE  /\ \A p \in Packages : rows[p].active \in BOOLEAN /\ rows[p].deployed \in BOOLEAN
                                /\ rows[p].data \in Nat /\ rows[p].data # 0
         /\ \A b \in Ids, p \in Packages : builds[b].files[p] \in Nat
         /\ \A p \in Packages, k \in Kinds : <<p, k>> \in Keys /\ bucket[<<p, k>>] \in Nat
         /\ current \in 0 .. MaxBuilds /\ (current # 0 => current \in Ids)
         /\ MaxBuilds \in Nat /\ Ids \subseteq Nat
BY DeployAssumption DEF Types, Row, BuildRow, Keys, Ids

LEMMA ServedTable ==
  ASSUME Run, Table
  PROVE  ServedInv'
<1> USE DEF Run
<1> DEFINE Same ==
      /\ Mine' = Mine /\ builds' = builds /\ bucket' = bucket /\ current' = current
      /\ \A p \in Packages : /\ rows'[p].deployed = rows[p].deployed
                            /\ rows'[p].data \in Nat /\ rows[p].data <= rows'[p].data
<1>0. Same
  <2>1. ASSUME NEW p \in Packages, ChangeContent(p) PROVE Same
    BY <2>1 DEF ChangeContent, Mine, Types, Row
  <2>2. ASSUME NEW p \in Packages, SetActive(p) PROVE Same
    BY <2>2 DEF SetActive, Mine, Types, Row
  <2> QED BY <2>1, <2>2 DEF Table
<1>1. InOrder' /\ RowsAhead' /\ Newest'
  <2>1. InOrder' /\ Newest'
    BY <1>0 DEF ServedInv, InOrder, Newest
  <2>3. RowsAhead'
    BY <1>0, RowTypes DEF ServedInv, RowsAhead
  <2> QED BY <2>1, <2>3
<1>2. CASE \A p \in Packages : rows'[p].active = rows[p].active
  <2>1. Lists' /\ Chosen'
    BY <1>0, <1>2, RowTypes, Me DEF ServedInv, Lists, Chosen, PreviousBuild, Work, Keys
  <2>2. Uploaded' /\ Served' /\ Known'
    BY <1>0, <1>2 DEF ServedInv, Uploaded, InBucket, Served, Known
  <2> QED BY <1>1, <2>1, <2>2 DEF ServedInv
<1>3. ASSUME NEW p \in Packages, SetActive(p) PROVE ServedInv'
  <2>1. Mine.step = "idle" /\ Status # "fixed"
    BY <1>3, Me DEF SetActive, At, Steady
  <2>2. Lists' /\ Chosen' /\ Uploaded'
    BY <1>0, <2>1 DEF Lists, Chosen, Uploaded, Building, Sent
  <2>3. Served' /\ Known'
    BY <1>0, <2>1 DEF ServedInv, Served, Known
  <2> QED BY <1>1, <2>2, <2>3 DEF ServedInv
<1>4. ASSUME NEW p \in Packages, ChangeContent(p) PROVE ServedInv'
  BY <1>2, <1>4 DEF ChangeContent, Types, Row
<1> QED BY <1>3, <1>4 DEF Table

LEMMA ServedBuild ==
  ASSUME Run, StartPipeline \/ Build(Pipeline)
  PROVE  ServedInv'
<1> USE DEF Run
<1> DEFINE d == Pipeline
<1>0. d \in Procs /\ proc[d] \in Work /\ Mine = proc[d]
  BY Me
<1>1. CASE StartPipeline
  <2>0. PICK b \in Ids :
          /\ FreshId(b) /\ builds' = [builds EXCEPT ![b].state = "reserved"]
          /\ proc' = [proc EXCEPT ![d] = [Idle EXCEPT !.step = "reserved", !.build = b]]
    BY <1>1 DEF StartPipeline
  <2>1. /\ Mine.step = "idle" /\ Mine'.step = "reserved" /\ Mine'.build = b
        /\ rows' = rows /\ bucket' = bucket /\ current' = current
    BY <1>0, <1>1, <2>0 DEF StartPipeline, At, Mine, Types, Idle
  <2>2. /\ builds'[b].state = "reserved" /\ \A c \in Ids : c # b => builds'[c] = builds[c]
        /\ \A c \in Ids : builds'[c].files = builds[c].files /\ builds'[c].synced = builds[c].synced
    BY <2>0 DEF Types, BuildRow
  <2>3. \A c \in Ids : (c < b => builds[c].state # "none") /\ (c > b => builds[c].state = "none")
    BY <2>0 DEF FreshId, ServedInv, InOrder
  <2>4. InOrder' /\ Newest'
    BY <2>1, <2>2, <2>3, RowTypes DEF InOrder, Newest
  <2>5. RowsAhead' /\ Lists' /\ Chosen' /\ Uploaded'
    BY <2>1, <2>2 DEF ServedInv, RowsAhead, Lists, Chosen, Uploaded, Building, Sent
  <2>6. Served' /\ Known'
    BY <2>1, <2>2, RowTypes DEF ServedInv, Served, Known
  <2> QED BY <2>4, <2>5, <2>6 DEF ServedInv
<1>2. ASSUME NEW S \in SUBSET Packages, ReadRows(d, S) PROVE ServedInv'
  <2> DEFINE f == [p \in Packages |-> IF p \in S /\ rows[p].active THEN rows[p].data ELSE 0]
  <2>0. PICK b \in Ids :
          /\ Mine.step = "reserved" /\ b = Mine.build /\ S = Packages
          /\ builds' = [builds EXCEPT ![b].state = "writing", ![b].files = f]
          /\ proc' = [proc EXCEPT ![d] = [Idle EXCEPT !.step = "build", !.build = b]]
    BY <1>0, <1>2 DEF ReadRows, At
  <2>1. \A p \in Packages : f[p] = IF rows[p].active THEN rows[p].data ELSE 0
    BY <2>0
  <2> HIDE DEF f
  <2>2. /\ Mine'.step = "build" /\ Mine'.build = b
        /\ rows' = rows /\ bucket' = bucket /\ current' = current
    BY <1>0, <1>2, <2>0 DEF ReadRows, Mine, Types, Idle
  <2>3. /\ builds'[b].state = "writing" /\ builds'[b].files = f
        /\ \A c \in Ids : c # b => builds'[c] = builds[c]
    BY <2>0 DEF Types, BuildRow
  <2>4. /\ builds[b].state = "reserved" /\ current # b
        /\ \A c \in Ids : builds[c].state # "none" => c <= b
    <3>1. builds[b].state = "reserved"
      BY <2>0 DEF CurrentInv
    <3>2. b \in Ids /\ b # 0
      BY <2>0 DEF Ids
    <3> QED BY <2>0, <3>1, <3>2 DEF CurrentInv, CurrentComplete, ValidateBuild, ServedInv, Newest
  <2>5. InOrder' /\ Newest'
    BY <2>0, <2>2, <2>3, <2>4 DEF ServedInv, InOrder, Newest
  <2>6. RowsAhead' /\ Lists'
    <3>1. RowsAhead'
      BY <2>1, <2>2, <2>3, RowTypes DEF ServedInv, RowsAhead
    <3>2. Lists'
      BY <2>1, <2>2, <2>3, RowTypes DEF ServedInv, RowsAhead, Lists
    <3> QED BY <3>1, <3>2
  <2>7. Chosen' /\ Uploaded'
    BY <2>2 DEF Chosen, Uploaded, Sent
  <2>8. Served' /\ Known'
    <3>1. Served'
      BY <2>0, <2>2, <2>3, <2>4, RowTypes DEF ServedInv, Served
    <3>2. Known'
      BY <2>0, <2>2, <2>3, <2>4, RowTypes DEF ServedInv, Known
    <3> QED BY <3>1, <3>2
  <2> QED BY <2>5, <2>6, <2>7, <2>8 DEF ServedInv
<1>3. CASE FinishBuild(d)
  <2>1. /\ Mine.step = "build" /\ Mine'.step = "deploy" /\ Mine'.build = Mine.build
        /\ rows' = rows /\ bucket' = bucket /\ current' = current
    BY <1>0, <1>3 DEF FinishBuild, Goto, At, Mine, Types, Work
  <2>2. /\ builds' = [builds EXCEPT ![Mine.build].state = "complete"]
        /\ Mine.build \in Ids
    BY <1>0, <1>3, <2>1 DEF FinishBuild, ServedInv, Newest, Building
  <2>3. /\ builds'[Mine.build].state = "complete"
        /\ \A c \in Ids : c # Mine.build => builds'[c] = builds[c]
        /\ \A c \in Ids : builds'[c].files = builds[c].files /\ builds'[c].synced = builds[c].synced
    BY <2>2 DEF Types, BuildRow
  <2>4. builds[Mine.build].state = "writing"
    BY <2>1 DEF ServedInv, Newest, Building
  <2>5. InOrder' /\ Newest'
    BY <2>1, <2>2, <2>3, <2>4 DEF ServedInv, InOrder, Newest, Building
  <2>6. RowsAhead' /\ Lists'
    BY <2>1, <2>2, <2>3 DEF ServedInv, RowsAhead, Lists, Building
  <2>7. Chosen' /\ Uploaded'
    BY <2>1 DEF Chosen, Uploaded, Sent
  <2>8. Served' /\ Known'
    BY <2>1, <2>3, RowTypes DEF ServedInv, Served, Known
  <2> QED BY <2>5, <2>6, <2>7, <2>8 DEF ServedInv
<1> QED BY <1>1, <1>2, <1>3 DEF Build

\* A step of a run that leaves the builds and the table's status alone.
LEMMA ServedOn ==
  ASSUME Run, Mine.step \in Building \ {"build"}, Mine'.step \in Building \ {"build"},
         Mine'.build = Mine.build, UNCHANGED <<builds, current>>,
         \A p \in Packages : rows'[p].active = rows[p].active /\ rows'[p].data = rows[p].data
  PROVE  InOrder' /\ RowsAhead' /\ Newest' /\ Lists'
<1> USE DEF Run
<1>1. InOrder' /\ RowsAhead'
  BY DEF ServedInv, InOrder, RowsAhead
<1>2. Newest'
  BY DEF ServedInv, Newest, Building
<1>3. Lists'
  BY DEF ServedInv, Lists, Building
<1> QED BY <1>1, <1>2, <1>3

\* The pipeline deploys the build that it made.
LEMMA NewestDir ==
  ASSUME Run, Mine.step = "deploy"
  PROVE  Max(Dirs) = Mine.build
<1>1. Mine.build \in Dirs /\ \A c \in Dirs : c <= Mine.build /\ c \in Nat
  BY RowTypes DEF Run, ServedInv, Newest, Building, Dirs
<1>2. \E m \in Dirs : \A c \in Dirs : m >= c
  BY <1>1
<1>3. Max(Dirs) \in Dirs /\ \A c \in Dirs : Max(Dirs) >= c
  BY <1>2 DEF Max
<1> QED BY <1>1, <1>3

LEMMA ServedUpload ==
  ASSUME Run, NEW d, d = Pipeline,
         \/ \E b \in Ids : BeginSync(d, b)
         \/ \E k \in proc[d].keys : Upload(d, k)
         \/ Stamp(d)
  PROVE  ServedInv'
<1> USE DEF Run
<1>0. d \in Procs /\ proc[d] \in Work /\ Mine = proc[d]
  BY Me
<1>1. ASSUME NEW b \in Ids, BeginSync(d, b) PROVE ServedInv'
  <2> DEFINE K == {k \in Keys : builds[b].files[k[1]] # 0}
  <2>1. /\ Mine.step = "deploy" /\ b = Max(Dirs)
        /\ proc' = [proc EXCEPT ![d] = [Idle EXCEPT !.step = "upload", !.build = b,
                                          !.prev = PreviousBuild, !.keys = K]]
        /\ UNCHANGED <<rows, builds, current, bucket>>
    BY <1>0, <1>1 DEF BeginSync, At
  <2>2. b = Mine.build
    BY <2>1, NewestDir
  <2> HIDE DEF K
  <2>3. /\ Mine'.step = "upload" /\ Mine'.build = b /\ Mine'.prev = PreviousBuild /\ Mine'.keys = K
    BY <1>0, <2>1 DEF Mine, Types, Idle
  <2>4. InOrder' /\ RowsAhead' /\ Newest' /\ Lists'
    BY <2>1, <2>2, <2>3, ServedOn DEF Building
  <2>5. \A p \in Packages, k \in Kinds : <<p, k>> \in K \/ builds[b].files[p] = 0
    BY RowTypes DEF K
  <2>6. Uploaded'
    <3> SUFFICES ASSUME NEW p \in Packages, NEW k \in Kinds, <<p, k>> \notin K
                 PROVE  bucket[<<p, k>>] >= builds[b].files[p]
      BY <2>1, <2>3 DEF Uploaded, InBucket, Sent
    <3> QED BY <2>5, RowTypes
  <2>7. \A k \in K : rows[k[1]].active
    BY <2>1, <2>2, RowTypes DEF K, Keys, ServedInv, Lists, Building
  <2>8. Chosen'
    BY <2>1, <2>3, <2>7 DEF Chosen, PreviousBuild
  <2>9. Served' /\ Known'
    BY <2>1, <2>3 DEF ServedInv, Served, Known
  <2> QED BY <2>4, <2>6, <2>8, <2>9 DEF ServedInv
<1>2. ASSUME NEW k \in proc[d].keys, Upload(d, k) PROVE ServedInv'
  <2>1. /\ Mine.step = "upload" /\ Mine'.step = "upload" /\ Mine'.build = Mine.build
        /\ Mine'.prev = Mine.prev /\ Mine'.keys = Mine.keys \ {k}
        /\ UNCHANGED <<rows, builds, current>>
    BY <1>0, <1>2 DEF Upload, At, Mine, Types, Work
  <2>2. PICK p \in Packages, i \in Kinds : k = <<p, i>>
    BY <1>0 DEF Work, Keys
  <2>3. /\ Mine.build \in Ids
        /\ rows[p].active
        /\ builds[Mine.build].files[p] \in Nat
        /\ \A b \in Ids : builds[b].files[p] <= builds[Mine.build].files[p]
    BY <1>0, <1>2, <2>1, <2>2, RowTypes DEF ServedInv, Newest, Chosen, Lists, Building
  <2>4. InOrder' /\ RowsAhead' /\ Newest' /\ Lists'
    BY <2>1, ServedOn DEF Building
  <2>5. Chosen'
    BY <2>1 DEF ServedInv, Chosen, PreviousBuild
  <2>6. /\ bucket'[k] >= builds[Mine.build].files[p]
        /\ \A x \in Keys : x # k => bucket'[x] = bucket[x]
    <3>1. CASE Unchanged(d, p)
      <4>1. bucket' = bucket
        BY <1>2, <2>2, <3>1 DEF Upload
      <4>2. /\ current # 0 /\ builds[current].synced
            /\ builds[current].files[p] = builds[Mine.build].files[p]
        BY <1>0, <2>1, <3>1 DEF Unchanged, ServedInv, Chosen, PreviousBuild
      <4>3. bucket[k] >= builds[current].files[p]
        BY <2>1, <2>2, <2>3, <4>2 DEF ServedInv, Served
      <4> QED BY <4>1, <4>2, <4>3
    <3>2. CASE ~Unchanged(d, p)
      <4>1. bucket' = [bucket EXCEPT ![k] = builds[Mine.build].files[p]]
        BY <1>0, <1>2, <2>2, <3>2 DEF Upload
      <4> QED BY <1>0, <2>3, <4>1 DEF Types, Work
    <3> QED BY <3>1, <3>2
  <2>7. Uploaded'
    <3> SUFFICES ASSUME NEW q \in Packages, NEW j \in Kinds, <<q, j>> \notin Mine'.keys
                 PROVE  bucket'[<<q, j>>] >= builds[Mine.build].files[q]
      BY <2>1 DEF Uploaded, InBucket, Sent
    <3>1. CASE <<q, j>> = k
      BY <2>2, <2>6, <3>1
    <3>2. CASE <<q, j>> # k
      <4>1. bucket'[<<q, j>>] = bucket[<<q, j>>]
        BY <2>6, <3>2, RowTypes
      <4>2. <<q, j>> \notin Mine.keys
        BY <2>1, <3>2
      <4> QED BY <2>1, <4>1, <4>2 DEF ServedInv, Uploaded, InBucket
    <3> QED BY <3>1, <3>2
  <2>8. Served'
    <3> SUFFICES ASSUME NEW q \in Packages, NEW j \in Kinds, current # 0, builds[current].synced,
                        rows[q].active \/ Mine.step \notin {"delete", "record", "promote"}
                 PROVE  bucket'[<<q, j>>] >= builds[current].files[q]
      BY <2>1 DEF Served
    <3>1. CASE <<q, j>> = k
      <4>1. /\ q = p /\ current \in Ids
            /\ builds[current].files[p] <= builds[Mine.build].files[p]
        BY <2>2, <2>3, <3>1, RowTypes
      <4>2. bucket'[k] \in Nat
        <5>1. bucket'[k] \in {bucket[k], builds[Mine.build].files[p]}
          BY <1>0, <1>2, <2>2 DEF Upload, Types, Work
        <5> QED BY <2>2, <2>3, <5>1, RowTypes
      <4> QED BY <2>3, <2>6, <3>1, <4>1, <4>2, RowTypes
    <3>2. CASE <<q, j>> # k
      BY <2>6, <3>2, RowTypes DEF ServedInv, Served
    <3> QED BY <3>1, <3>2
  <2>9. Known'
    BY <2>1, <2>2, <2>3, <2>6, RowTypes DEF ServedInv, Known
  <2> QED BY <2>4, <2>5, <2>7, <2>8, <2>9 DEF ServedInv
<1>3. CASE Stamp(d)
  <2>1. /\ Mine.step = "upload" /\ Mine.keys = {} /\ Mine'.step = "stamped"
        /\ Mine'.build = Mine.build /\ UNCHANGED <<builds, current, bucket>>
    BY <1>0, <1>3 DEF Stamp, Goto, At, Mine, Types, Work
  <2>2. \A p \in Packages : /\ rows'[p].active = rows[p].active /\ rows'[p].data = rows[p].data
                            /\ rows'[p].deployed = (rows[p].deployed \/ rows[p].active)
    BY <1>3 DEF Stamp, Types, Row
  <2>3. InOrder' /\ RowsAhead' /\ Newest' /\ Lists'
    BY <2>1, <2>2, ServedOn DEF Building
  <2>4. Chosen' /\ Uploaded'
    BY <2>1 DEF ServedInv, Chosen, Uploaded, InBucket
  <2>5. Served' /\ Known'
    BY <2>1, <2>2, RowTypes DEF ServedInv, Served, Known
  <2> QED BY <2>3, <2>4, <2>5 DEF ServedInv
<1> QED BY <1>1, <1>2, <1>3

LEMMA ServedDelete ==
  ASSUME Run, NEW d, d = Pipeline,
         \/ ListGone(d) \/ PutRoot(d)
         \/ \E p \in proc[d].gone, K \in SUBSET Kinds : DeleteObjects(d, p, K)
         \/ \E ok \in BOOLEAN : ClearHash(d, ok)
  PROVE  ServedInv'
<1> USE DEF Run
<1>0. d \in Procs /\ proc[d] \in Work /\ Mine = proc[d]
  BY Me
<1>1. CASE ListGone(d)
  <2>1. /\ Mine.step = "stamped" /\ Mine'.step = "delete" /\ Mine'.build = Mine.build
        /\ Mine'.gone = GetDeactivatedDeployedPackages
        /\ UNCHANGED <<rows, builds, current, bucket>>
    BY <1>0, <1>1 DEF ListGone, At, Mine, Types, Work
  <2>2. InOrder' /\ RowsAhead' /\ Newest' /\ Lists'
    BY <2>1, ServedOn DEF Building
  <2>3. Chosen'
    BY <2>1 DEF Chosen, GetDeactivatedDeployedPackages
  <2>4. Uploaded' /\ Served' /\ Known'
    BY <2>1 DEF ServedInv, Uploaded, InBucket, Sent, Served, Known
  <2> QED BY <2>2, <2>3, <2>4 DEF ServedInv
<1>2. CASE PutRoot(d)
  <2>1. /\ Mine.step = "delete" /\ Mine'.step = "record" /\ Mine'.build = Mine.build
        /\ UNCHANGED <<rows, builds, current, bucket>>
    BY <1>0, <1>2 DEF PutRoot, Goto, At, Mine, Types, Work
  <2>2. InOrder' /\ RowsAhead' /\ Newest' /\ Lists'
    BY <2>1, ServedOn DEF Building
  <2>3. Chosen' /\ Uploaded' /\ Served' /\ Known'
    BY <2>1 DEF ServedInv, Chosen, Uploaded, InBucket, Sent, Served, Known
  <2> QED BY <2>2, <2>3 DEF ServedInv
<1>3. ASSUME NEW p \in proc[d].gone, NEW K \in SUBSET Kinds, DeleteObjects(d, p, K)
      PROVE  ServedInv'
  <2>1. Mine' = [proc[d] EXCEPT !.gone = @ \ {p}, !.clear = IF K = Kinds THEN {p} ELSE {}]
    BY <1>0, <1>3 DEF DeleteObjects, Mine, Types
  <2>2. /\ Mine.step = "delete" /\ Mine'.step = "delete" /\ Mine'.build = Mine.build
        /\ Mine'.gone = Mine.gone \ {p}
        /\ UNCHANGED <<rows, builds, current>>
    BY <1>0, <1>3, <2>1 DEF DeleteObjects, At, Work
  <2>3. /\ p \in Packages /\ ~rows[p].active
        /\ Mine.build \in Ids /\ builds[Mine.build].files[p] = 0
    BY <1>0, <2>2 DEF ServedInv, Newest, Chosen, Lists, Building, Work
  <2>4. \A q \in Packages, k \in Kinds :
          /\ q # p => bucket'[<<q, k>>] = bucket[<<q, k>>]
          /\ bucket'[<<q, k>>] \in {0, bucket[<<q, k>>]}
    <3>1. \A x \in Keys : bucket'[x] = IF x[1] = p /\ x[2] \in K THEN 0 ELSE bucket[x]
      BY <1>3 DEF DeleteObjects
    <3> QED BY <3>1 DEF Keys
  <2>5. InOrder' /\ RowsAhead' /\ Newest' /\ Lists'
    BY <2>2, ServedOn DEF Building
  <2>6. Chosen'
    BY <2>2 DEF ServedInv, Chosen
  <2>7. Uploaded'
    <3> SUFFICES ASSUME NEW q \in Packages, NEW k \in Kinds
                 PROVE  bucket'[<<q, k>>] >= builds[Mine.build].files[q]
      BY <2>2 DEF Uploaded, InBucket
    <3>1. bucket[<<q, k>>] >= builds[Mine.build].files[q]
      BY <2>2 DEF ServedInv, Uploaded, InBucket, Sent
    <3>2. CASE q = p
      BY <2>3, <2>4, <3>2, RowTypes
    <3> QED BY <2>4, <3>1, <3>2
  <2>8. Served' /\ Known'
    BY <2>2, <2>3, <2>4, RowTypes DEF ServedInv, Served, Known
  <2> QED BY <2>5, <2>6, <2>7, <2>8 DEF ServedInv
<1>4. ASSUME NEW ok \in BOOLEAN, ClearHash(d, ok) PROVE ServedInv'
  <2>1. /\ Mine.step = "delete" /\ Mine'.step = "delete" /\ Mine'.build = Mine.build
        /\ Mine'.gone = Mine.gone
        /\ UNCHANGED <<builds, current, bucket>>
    BY <1>0, <1>4 DEF ClearHash, Mine, Types, Work, HashInv
  <2>2. \A p \in Packages : /\ rows'[p].active = rows[p].active /\ rows'[p].data = rows[p].data
                            /\ rows'[p].deployed \in {rows[p].deployed, FALSE}
                            /\ rows[p].deployed /\ ~rows'[p].deployed => p \in Mine.clear
    <3>1. rows \in [Packages -> Row] /\ Mine.clear = proc[d].clear
      BY <1>0 DEF Types, Mine
    <3>2. ASSUME NEW p \in Packages
          PROVE  /\ rows'[p].active = rows[p].active /\ rows'[p].data = rows[p].data
                 /\ rows'[p].deployed \in {rows[p].deployed, FALSE}
                 /\ rows[p].deployed /\ ~rows'[p].deployed => p \in Mine.clear
      <4>1. CASE rows'[p] = rows[p]
        BY <4>1
      <4>2. CASE rows'[p] = [rows[p] EXCEPT !.deployed = @ /\ p \notin proc[d].clear]
        <5> DEFINE c == rows[p].deployed /\ p \notin proc[d].clear
        <5>1. rows'[p] = [rows[p] EXCEPT !.deployed = c]
          BY <4>2
        <5>2. c \in {rows[p].deployed, FALSE} /\ (rows[p].deployed /\ ~c => p \in Mine.clear)
          BY <3>1, Zenon DEF Row
        <5> HIDE DEF c
        <5>3. rows'[p].active = rows[p].active /\ rows'[p].data = rows[p].data
              /\ rows'[p].deployed = c
          BY <3>1, <5>1 DEF Row
        <5> QED BY <5>2, <5>3, Zenon
      <4> QED BY <1>4, <4>1, <4>2 DEF ClearHash
    <3> QED BY <3>2
  <2>3. InOrder' /\ RowsAhead' /\ Newest' /\ Lists'
    BY <2>1, <2>2, ServedOn DEF Building
  <2>4. Chosen' /\ Uploaded' /\ Served'
    BY <1>0, <2>1, <2>2 DEF ServedInv, Chosen, Uploaded, InBucket, Sent, Served, Work
  <2>5. Known'
    BY <2>1, <2>2 DEF ServedInv, Known, HashInv
  <2> QED BY <2>3, <2>4, <2>5 DEF ServedInv
<1> QED BY <1>1, <1>2, <1>3, <1>4

LEMMA ServedPromote ==
  ASSUME Run, NEW d, d = Pipeline,
         Promote(d) \/ \E ok \in BOOLEAN : RecordR2Sync(d, ok)
  PROVE  ServedInv'
<1> USE DEF Run
<1>0. d \in Procs /\ proc[d] \in Work /\ Mine = proc[d]
  BY Me
<1>1. ASSUME NEW ok \in BOOLEAN, RecordR2Sync(d, ok) PROVE ServedInv'
  <2>1. /\ Mine.step = "record" /\ Mine'.step = "promote" /\ Mine'.build = Mine.build
        /\ builds' = [builds EXCEPT ![Mine.build].synced = @ \/ ok]
        /\ UNCHANGED <<rows, current, bucket>>
    BY <1>0, <1>1 DEF RecordR2Sync, Goto, At, Mine, Types, Work
  <2>2. \A b \in Ids : /\ builds'[b].files = builds[b].files /\ builds'[b].state = builds[b].state
                       /\ b # Mine.build => builds'[b] = builds[b]
    BY <2>1 DEF Types, BuildRow
  <2>3. InOrder' /\ RowsAhead' /\ Newest'
    BY <2>1, <2>2 DEF ServedInv, InOrder, RowsAhead, Newest, Building
  <2>4. Lists'
    BY <2>1, <2>2, <2>3 DEF ServedInv, Lists, Newest, Building
  <2>5. Chosen' /\ Uploaded'
    BY <2>1, <2>2 DEF ServedInv, Newest, Building, Chosen, Uploaded, InBucket, Sent
  <2>6. Served'
    <3> SUFFICES ASSUME NEW p \in Packages, NEW k \in Kinds, current # 0,
                        builds'[current].synced, rows[p].active
                 PROVE  bucket[<<p, k>>] >= builds[current].files[p]
      BY <2>1, <2>2, RowTypes DEF Served
    <3>1. CASE current = Mine.build
      BY <2>1, <3>1 DEF ServedInv, Uploaded, InBucket, Sent
    <3>2. CASE current # Mine.build
      BY <2>2, <3>2, RowTypes DEF ServedInv, Served
    <3> QED BY <3>1, <3>2
  <2>7. Known'
    BY <2>1 DEF ServedInv, Known
  <2> QED BY <2>3, <2>4, <2>5, <2>6, <2>7 DEF ServedInv
<1>2. CASE Promote(d)
  <2>1. /\ Mine.step = "promote" /\ Mine'.step = "cleanup" /\ current' = Mine.build
        /\ UNCHANGED <<rows, builds, bucket>>
    BY <1>0, <1>2 DEF Promote, Goto, At, Mine, Types, Work
  <2>2. InOrder' /\ RowsAhead'
    BY <2>1 DEF ServedInv, InOrder, RowsAhead
  <2>3. Newest' /\ Lists' /\ Chosen' /\ Uploaded'
    BY <2>1 DEF Newest, Lists, Chosen, Uploaded, Building, Sent
  <2>4. Served' /\ Known'
    BY <2>1 DEF ServedInv, Uploaded, InBucket, Sent, Served, Known
  <2> QED BY <2>2, <2>3, <2>4 DEF ServedInv
<1> QED BY <1>1, <1>2

LEMMA ServedCleanup ==
  ASSUME Run, Cleanup(Pipeline) \/ Abort(Pipeline)
  PROVE  ServedInv'
<1> USE DEF Run
<1> DEFINE d == Pipeline
<1>0. d \in Procs /\ proc[d] \in Work /\ Mine = proc[d]
  BY Me
<1>1. ASSUME Mine'.step \in {"idle", "remove"}, UNCHANGED <<rows, current, bucket>>,
             Status = "fixed" \/ Mine.step \in {"cleanup", "remove"},
             \A b \in Ids : /\ builds'[b].files = builds[b].files
                            /\ builds'[b].synced = builds[b].synced
                            /\ (builds'[b].state = "none") <=> (builds[b].state = "none"),
             Mine'.step = "remove" => \A b \in Mine'.doomed : builds'[b].state # "none"
      PROVE  ServedInv'
  <2>1. InOrder' /\ RowsAhead'
    BY <1>1 DEF ServedInv, InOrder, RowsAhead
  <2>2. Newest' /\ Lists' /\ Chosen' /\ Uploaded'
    BY <1>1 DEF Newest, Lists, Chosen, Uploaded, Building, Sent
  <2>3. Served' /\ Known'
    BY <1>1, RowTypes DEF ServedInv, Served, Known
  <2> QED BY <2>1, <2>2, <2>3 DEF ServedInv
<1>2. CASE ListOld(d)
  <2>1. Mine.step = "cleanup" /\ Mine'.step = "remove" /\ Mine'.doomed \subseteq Dirs
    BY <1>0, <1>2 DEF ListOld, At, Mine, Types, Idle
  <2>2. \A b \in Mine'.doomed : builds[b].state # "none"
    BY <2>1 DEF Dirs
  <2> QED BY <1>1, <1>2, <2>1, <2>2 DEF ListOld
<1>3. CASE EndCleanup(d)
  <2>1. Mine.step = "remove" /\ Mine'.step = "idle"
    BY <1>0, <1>3 DEF EndCleanup, Rest, At, Mine, Types, Idle
  <2> QED BY <1>1, <1>3, <2>1 DEF EndCleanup
<1>4. ASSUME NEW b \in proc[d].doomed, RemoveBuild(d, b) PROVE ServedInv'
  <2>1. /\ Mine.step = "remove" /\ Mine'.step = "remove" /\ Mine'.doomed \subseteq Mine.doomed
        /\ builds' = [builds EXCEPT ![b].state = "removed"]
        /\ UNCHANGED <<rows, current, bucket>>
    BY <1>0, <1>4 DEF RemoveBuild, At, Mine, Types, Work
  <2>2. b \in Ids /\ \A c \in Mine.doomed : c \in Ids /\ builds[c].state # "none"
    BY <1>0, <1>4, <2>1 DEF ServedInv, Chosen, Work
  <2>3. \A c \in Ids : /\ builds'[c].files = builds[c].files /\ builds'[c].synced = builds[c].synced
                       /\ (builds'[c].state = "none") <=> (builds[c].state = "none")
    BY <1>0, <1>4, <2>1, <2>2 DEF Types, BuildRow
  <2> QED BY <1>1, <2>1, <2>2, <2>3
<1>5. CASE Abort(d)
  <2>1. Mine'.step = "idle" /\ UNCHANGED <<rows, builds, current, bucket>>
    BY <1>0, <1>5 DEF Abort, Rest, Mine, Types, Idle
  <2>2. ~Refused(d)
    <3>1. Mine.step = "deploy" => Max(Dirs) = Mine.build
      BY NewestDir
    <3>2. Mine.step \in {"deploy", "upload", "delete", "promote"} => ValidateBuild(Mine.build)
      BY DEF ServedInv, Newest, Building, ValidateBuild
    <3> QED BY <1>0, <3>1, <3>2 DEF Refused, At
  <2>3. Status = "fixed"
    BY <1>5, <2>2 DEF Abort, Steady
  <2> QED BY <1>1, <2>1, <2>3
<1> QED BY <1>2, <1>3, <1>4, <1>5 DEF Cleanup

LEMMA ServedStep ==
  ASSUME Operators = {}, Run, [Next]_vars
  PROVE  ServedInv'
<1>1. CASE UNCHANGED vars
  BY <1>1 DEF Run, vars, Mine, ServedInv, InOrder, RowsAhead, Newest, Lists, Chosen, PreviousBuild,
     Uploaded, InBucket, Served, Known
<1>2. CASE Sync(Pipeline)
  BY <1>2, ServedUpload, ServedDelete, ServedPromote DEF Sync
<1>3. CASE Sweep(Pipeline)
  BY <1>3 DEF Run, Sweep, StartSweep, FinishSweep, SweepBatch, At, HashInv, Mine
<1> QED BY <1>1, <1>2, <1>3, OneProcess, ServedTable, ServedBuild, ServedCleanup DEF Next

LEMMA ServedInit == Init => ServedInv
<1> SUFFICES ASSUME Init PROVE ServedInv
  OBVIOUS
<1>1. Mine = Idle /\ Mine.step = "idle"
  BY DEF Init, Mine, Procs, Idle
<1>2. InOrder /\ RowsAhead
  BY DEF Init, InOrder, RowsAhead
<1>3. Newest /\ Lists /\ Chosen /\ Uploaded
  BY <1>1 DEF Newest, Lists, Chosen, Uploaded, Building, Sent
<1>4. Served /\ Known
  BY <1>1 DEF Init, Served, Known, Keys
<1> QED BY <1>2, <1>3, <1>4 DEF ServedInv

LEMMA RunKept ==
  ASSUME Operators = {}, Steady
  PROVE  Spec => [](CurrentInv /\ ServedInv)
<1>1. Init => HashInv /\ CurrentInv
  BY DEF Init, HashInv, CurrentInv, CurrentComplete, Mine, Idle, Procs
<1>2. Types /\ HashInv /\ CurrentInv /\ [Next]_vars => HashInv' /\ CurrentInv'
  BY HashStep, CurrentStep
<1>3. Types /\ HashInv /\ CurrentInv /\ ServedInv /\ [Next]_vars => ServedInv'
  BY ServedStep DEF Run
<1> QED BY <1>1, <1>2, <1>3, ServedInit, TypesKept, PTL DEF Spec

\* Every package the promoted build lists is on R2, at least as new as the build, for
\* any packages and number of builds, although the sync compares two builds and never
\* looks at the bucket: when no status changes, through failed calls and crashes at
\* any step, and when statuses change between complete runs. (r2.go:32-38, 75-80)
THEOREM FreshlyServed ==
  ASSUME Operators = {}, Steady
  PROVE  Spec => []ServedFresh
<1>1. CurrentInv /\ ServedInv => ServedFresh
  BY DEF ServedInv, Served, ServedFresh
<1> QED BY <1>1, RunKept, PTL

-----------------------------------------------------------------------------
(* Commands that take turns: an operator's and the pipeline's, none beside    *)
(* another, in any order, with failures, crashes and status changes.          *)

Apart == \A d, e \in Procs : ~At(d, "idle") /\ ~At(e, "idle") => d = e

\* What d is to clear, and what its sweep has asked to delete without a failure, has no
\* object left.
Emptied(d) ==
  /\ proc[d].clear # {} => proc[d].step \in {"delete", "sweep"}
  /\ \A p \in proc[d].clear, k \in Kinds : bucket[<<p, k>>] = 0
  /\ At(d, "sweep") =>
       \A p \in proc[d].gone \ proc[d].failed, k \in Kinds :
         <<p, k>> \in proc[d].keys \/ bucket[<<p, k>>] = 0

EmptiedInv == \A d \in Procs : Emptied(d)

\* A step of d is seen by no other command: they rest, or nothing is uploaded.
LEMMA EmptiedFrame ==
  ASSUME TypeOK, Apart, EmptiedInv, NEW d \in Procs,
         \A e \in Procs : e # d => proc'[e] = proc[e],
         ~At(d, "idle") \/ bucket' = bucket,
         Emptied(d)'
  PROVE  EmptiedInv'
<1> SUFFICES ASSUME NEW e \in Procs, e # d PROVE Emptied(e)'
  BY DEF EmptiedInv
<1>1. CASE ~At(d, "idle")
  <2>1. proc'[e] = Idle
    BY <1>1 DEF Apart, TypeOK, At
  <2> QED BY <2>1 DEF Emptied, At, Idle
<1>2. CASE bucket' = bucket
  BY <1>2 DEF EmptiedInv, Emptied, At
<1> QED BY <1>1, <1>2

\* After a step that leaves nothing to clear, only a lost hash can hurt.
LEMMA EmptiedQuiet ==
  ASSUME TypeOK, Apart, EmptiedInv, NEW d \in Procs, NEW w \in Work,
         proc' = [proc EXCEPT ![d] = w], w.step # "sweep", w.clear = {},
         ~At(d, "idle") \/ bucket' = bucket,
         \A p \in Packages : rows[p].deployed => rows'[p].deployed
  PROVE  EmptiedInv' /\ ClearStep
<1>1. proc'[d] = w /\ \A e \in Procs : e # d => proc'[e] = proc[e]
  BY DEF TypeOK, Types
<1>2. Emptied(d)'
  BY <1>1 DEF Emptied, At
<1> QED BY <1>1, <1>2, EmptiedFrame DEF ClearStep

LEMMA EmptiedBuild ==
  ASSUME TypeOK, Apart, EmptiedInv, NEW d \in Procs, Build(d) \/ (d = Pipeline /\ StartPipeline)
  PROVE  EmptiedInv' /\ ClearStep
<1>0. proc[d] \in Work /\ Idle \in Work /\ proc \in [Procs -> Work] /\ Ids \subseteq 0 .. MaxBuilds
  BY IdleType, DeployAssumption DEF TypeOK, Types, Ids
<1>1. \A s \in {"reserved", "build"}, b \in Ids :
        LET w == [Idle EXCEPT !.step = s, !.build = b]
        IN w \in Work /\ w.step # "sweep" /\ w.clear = {}
  BY <1>0 DEF Work, Idle, Steps
<1>2. CASE StartPipeline /\ d = Pipeline
  <2>1. PICK b \in Ids : proc' = [proc EXCEPT ![d] = [Idle EXCEPT !.step = "reserved", !.build = b]]
    BY <1>2 DEF StartPipeline
  <2>2. rows' = rows /\ bucket' = bucket
    BY <1>2 DEF StartPipeline
  <2> QED BY <1>1, <2>1, <2>2, EmptiedQuiet
<1>3. ASSUME NEW S \in SUBSET Packages, ReadRows(d, S) PROVE EmptiedInv' /\ ClearStep
  <2>1. PICK b \in Ids : proc' = [proc EXCEPT ![d] = [Idle EXCEPT !.step = "build", !.build = b]]
    BY <1>3 DEF ReadRows
  <2>2. rows' = rows /\ bucket' = bucket
    BY <1>3 DEF ReadRows
  <2> QED BY <1>1, <2>1, <2>2, EmptiedQuiet
<1>4. CASE FinishBuild(d)
  <2> DEFINE w == [proc[d] EXCEPT !.step = "deploy"]
  <2>1. proc[d].clear = {} /\ rows' = rows /\ bucket' = bucket
    BY <1>4 DEF FinishBuild, At, EmptiedInv, Emptied
  <2>2. /\ w \in Work /\ w.step # "sweep" /\ w.clear = {}
        /\ Idle \in Work /\ Idle.step # "sweep" /\ Idle.clear = {}
    BY <1>0, <2>1 DEF Work, Idle, Steps
  <2>3. proc' = [proc EXCEPT ![d] = w] \/ proc' = [proc EXCEPT ![d] = Idle]
    BY <1>4 DEF FinishBuild, Goto, Rest
  <2> HIDE DEF w
  <2> QED BY <2>1, <2>2, <2>3, EmptiedQuiet
<1> QED BY <1>2, <1>3, <1>4 DEF Build

LEMMA EmptiedSync ==
  ASSUME TypeOK, Apart, EmptiedInv, NEW d \in Procs, Sync(d)
  PROVE  EmptiedInv' /\ ClearStep
<1>0. proc[d] \in Work /\ Idle \in Work /\ proc \in [Procs -> Work] /\ Emptied(d)
  BY IdleType DEF TypeOK, Types, EmptiedInv
<1>1. proc[d].step \notin {"delete", "sweep"} => proc[d].clear = {}
  BY <1>0 DEF Emptied
\* Steps that go from one part of the sync to the next.
<1>2. ASSUME NEW s \in Steps \ {"sweep"}, proc[d].clear = {}, Goto(d, s), ~At(d, "idle"),
             \A p \in Packages : rows[p].deployed => rows'[p].deployed
      PROVE  EmptiedInv' /\ ClearStep
  <2>1. LET w == [proc[d] EXCEPT !.step = s] IN w \in Work /\ w.step = s /\ w.clear = {}
    BY <1>0, <1>2, Fields DEF Work
  <2> QED BY <1>2, <2>1, EmptiedQuiet DEF Goto
<1>3. ASSUME NEW b \in Ids, BeginSync(d, b) PROVE EmptiedInv' /\ ClearStep
  <2>1. proc'[d].step = "upload" /\ proc'[d].clear = {} /\ \A e \in Procs : e # d => proc'[e] = proc[e]
    BY <1>0, <1>3 DEF BeginSync, Idle
  <2>2. Emptied(d)'
    BY <2>1 DEF Emptied, At
  <2>3. rows' = rows /\ bucket' = bucket
    BY <1>3 DEF BeginSync
  <2> QED BY <2>1, <2>2, <2>3, EmptiedFrame DEF ClearStep
<1>4. ASSUME NEW k \in proc[d].keys, Upload(d, k) PROVE EmptiedInv' /\ ClearStep
  <2>1. /\ At(d, "upload") /\ rows' = rows /\ \A e \in Procs : e # d => proc'[e] = proc[e]
        /\ proc'[d] = [proc[d] EXCEPT !.keys = proc[d].keys \ {k}]
    BY <1>0, <1>4 DEF Upload
  <2>2. proc'[d].step = "upload" /\ proc'[d].clear = {}
    BY <1>0, <1>1, <2>1 DEF At, Work
  <2>3. Emptied(d)'
    BY <2>2 DEF Emptied, At
  <2> QED BY <2>1, <2>3, EmptiedFrame DEF ClearStep, At
<1>5. CASE Stamp(d)
  <2>1. "stamped" \in Steps \ {"sweep"} /\ proc[d].clear = {} /\ ~At(d, "idle")
    BY <1>1, <1>5 DEF Stamp, At, Steps
  <2>2. \A p \in Packages : rows[p].deployed => rows'[p].deployed
    BY <1>5 DEF Stamp, TypeOK, Types, Row
  <2> QED BY <1>2, <1>5, <2>1, <2>2 DEF Stamp
<1>6. CASE ListGone(d)
  <2>1. /\ At(d, "stamped") /\ rows' = rows /\ \A e \in Procs : e # d => proc'[e] = proc[e]
        /\ proc'[d] = [proc[d] EXCEPT !.step = "delete", !.gone = GetDeactivatedDeployedPackages]
    BY <1>0, <1>6 DEF ListGone
  <2>2. proc'[d].step = "delete" /\ proc'[d].clear = {}
    BY <1>0, <1>1, <2>1 DEF At, Work
  <2>3. Emptied(d)'
    BY <2>2 DEF Emptied, At
  <2> QED BY <2>1, <2>3, EmptiedFrame DEF ClearStep, At
<1>7. CASE PutRoot(d)
  <2>1. "record" \in Steps \ {"sweep"} /\ proc[d].clear = {} /\ rows' = rows /\ ~At(d, "idle")
    BY <1>7 DEF PutRoot, Steps, At
  <2> QED BY <1>2, <1>7, <2>1 DEF PutRoot
<1>8. CASE Promote(d)
  <2>1. "cleanup" \in Steps \ {"sweep"} /\ proc[d].clear = {} /\ rows' = rows /\ ~At(d, "idle")
        /\ bucket' = bucket
    BY <1>1, <1>8 DEF Promote, At, Steps
  <2>2. Idle.step # "sweep" /\ Idle.clear = {}
    BY DEF Idle
  <2>3. CASE Rest(d)
    BY <1>0, <2>1, <2>2, <2>3, EmptiedQuiet DEF Rest
  <2> QED BY <1>2, <1>8, <2>1, <2>3 DEF Promote
<1>9. ASSUME NEW p \in proc[d].gone, NEW K \in SUBSET Kinds, DeleteObjects(d, p, K)
      PROVE  EmptiedInv' /\ ClearStep
  <2>1. /\ At(d, "delete") /\ rows' = rows /\ \A e \in Procs : e # d => proc'[e] = proc[e]
        /\ proc'[d] = [proc[d] EXCEPT !.gone = @ \ {p}, !.clear = IF K = Kinds THEN {p} ELSE {}]
    BY <1>0, <1>9 DEF DeleteObjects
  <2>2. proc'[d].step = "delete" /\ proc'[d].clear = IF K = Kinds THEN {p} ELSE {}
    BY <1>0, <2>1 DEF At, Work
  <2>3. p \in Packages
    BY <1>0 DEF Work
  <2>4. \A k \in Kinds : K = Kinds => bucket'[<<p, k>>] = 0
    <3>1. \A k \in Kinds : <<p, k>> \in Keys
      BY <2>3 DEF Keys
    <3> QED BY <1>9, <3>1 DEF DeleteObjects
  <2>5. Emptied(d)'
    BY <2>2, <2>4 DEF Emptied, At
  <2> QED BY <2>1, <2>5, EmptiedFrame DEF ClearStep, At
<1>10. ASSUME NEW ok \in BOOLEAN, ClearHash(d, ok) PROVE EmptiedInv' /\ ClearStep
  <2>1. /\ bucket' = bucket /\ \A e \in Procs : e # d => proc'[e] = proc[e]
        /\ proc'[d] = [proc[d] EXCEPT !.clear = {}]
    BY <1>0, <1>10 DEF ClearHash
  <2>2. /\ proc'[d].step = proc[d].step /\ proc'[d].clear = {}
        /\ proc'[d].gone = proc[d].gone /\ proc'[d].keys = proc[d].keys
    BY <1>0, <2>1 DEF Work
  <2>3. \A p \in Packages : rows[p].deployed /\ ~rows'[p].deployed => p \in proc[d].clear
    BY <1>10 DEF ClearHash, TypeOK, Types, Row
  <2>4. Emptied(d)'
    BY <1>0, <2>1, <2>2 DEF Emptied, At
  <2> QED BY <1>0, <2>1, <2>3, <2>4, EmptiedFrame DEF ClearStep, Emptied
<1>11. ASSUME NEW ok \in BOOLEAN, RecordR2Sync(d, ok) PROVE EmptiedInv' /\ ClearStep
  <2>1. "promote" \in Steps \ {"sweep"} /\ proc[d].clear = {} /\ rows' = rows /\ ~At(d, "idle")
    BY <1>1, <1>11 DEF RecordR2Sync, At, Steps
  <2> QED BY <1>2, <1>11, <2>1 DEF RecordR2Sync
<1> QED BY <1>3, <1>4, <1>5, <1>6, <1>7, <1>8, <1>9, <1>10, <1>11 DEF Sync

\* A sweep deletes what it lists, key by key, and then clears what it has listed.
LEMMA EmptiedSweep ==
  ASSUME ~SweepFails, TypeOK, Apart, EmptiedInv, NEW d \in Procs, Sweep(d)
  PROVE  EmptiedInv' /\ ClearStep
<1>0. proc[d] \in Work /\ Idle \in Work /\ proc \in [Procs -> Work] /\ Emptied(d)
  BY IdleType DEF TypeOK, Types, EmptiedInv
<1>1. CASE StartSweep(d)
  <2> DEFINE G == GetDeactivatedDeployedPackages
  <2>1. /\ bucket' = bucket /\ rows' = rows /\ \A e \in Procs : e # d => proc'[e] = proc[e]
        /\ proc'[d] = [Idle EXCEPT !.step = "sweep", !.gone = G, !.keys = KeysOf(G)]
    BY <1>0, <1>1 DEF StartSweep
  <2>2. G \subseteq Packages
    BY DEF GetDeactivatedDeployedPackages
  <2> HIDE DEF G
  <2>3. proc'[d].clear = {} /\ proc'[d].gone = G /\ proc'[d].keys = KeysOf(G)
    BY <2>1 DEF Idle
  <2>4. \A p \in G, k \in Kinds : <<p, k>> \in KeysOf(G)
    BY <2>2 DEF KeysOf, Keys
  <2>5. Emptied(d)'
    BY <2>3, <2>4 DEF Emptied
  <2> QED BY <2>1, <2>5, EmptiedFrame DEF ClearStep
<1>2. ASSUME NEW S \in SUBSET proc[d].gone, NEW X \in SUBSET KeysOf(S), SweepBatch(d, S, X)
      PROVE  EmptiedInv' /\ ClearStep
  <2> DEFINE Y == KeysOf(S) \ X
             C == {k[1] : k \in Y}
             F == {k[1] : k \in X}
  <2>1. /\ At(d, "sweep") /\ rows' = rows
        /\ bucket' = [k \in Keys |-> IF k \in Y THEN 0 ELSE bucket[k]]
        /\ \A e \in Procs : e # d => proc'[e] = proc[e]
        /\ proc'[d] = [proc[d] EXCEPT !.keys = proc[d].keys \ KeysOf(S),
                          !.failed = proc[d].failed \cup F, !.clear = C]
    BY <1>0, <1>2 DEF SweepBatch
  <2>2. proc[d].gone \subseteq Packages /\ S \subseteq Packages
    BY <1>0 DEF Work
  <2>3. \A p \in S, k \in Kinds : <<p, k>> \in KeysOf(S)
    BY <2>2 DEF KeysOf, Keys
  <2>4. \/ Y = KeysOf(S)
        \/ C = {} /\ \A p \in S, k \in Kinds : p \in F
    <3>1. CASE X = {}
      BY <3>1
    <3>2. CASE X = KeysOf(S)
      <4>1. \A k \in X : k[1] \in F
        OBVIOUS
      <4>2. \A p \in S, k \in Kinds : <<p, k>>[1] \in F
        BY <2>3, <3>2, <4>1
      <4> QED BY <3>2, <4>2
    <3> QED BY <1>2, <3>1, <3>2 DEF SweepBatch
  <2>5. C \subseteq S
    BY DEF KeysOf
  <2> HIDE DEF C, F, Y
  <2>6. /\ proc'[d].step = "sweep" /\ proc'[d].clear = C /\ proc'[d].gone = proc[d].gone
        /\ proc'[d].keys = proc[d].keys \ KeysOf(S) /\ proc'[d].failed = proc[d].failed \cup F
    BY <1>0, <2>1 DEF At, Work
  <2>7. \A p \in C, k \in Kinds : bucket'[<<p, k>>] = 0
    <3> SUFFICES ASSUME NEW p \in C, NEW k \in Kinds PROVE bucket'[<<p, k>>] = 0
      OBVIOUS
    <3>1. <<p, k>> \in Keys /\ <<p, k>> \in Y
      BY <2>2, <2>3, <2>4, <2>5 DEF Keys
    <3> QED BY <2>1, <3>1
  <2>8. \A p \in proc'[d].gone \ proc'[d].failed, k \in Kinds :
          <<p, k>> \in proc'[d].keys \/ bucket'[<<p, k>>] = 0
    <3> SUFFICES ASSUME NEW p \in proc[d].gone \ proc'[d].failed, NEW k \in Kinds,
                        <<p, k>> \notin proc'[d].keys
                 PROVE  bucket'[<<p, k>>] = 0
      BY <2>6
    <3>1. <<p, k>> \in Keys /\ p \notin proc[d].failed /\ p \notin F
      BY <2>2, <2>6 DEF Keys
    <3>2. CASE <<p, k>> \in KeysOf(S)
      <4>1. p \in S
        BY <3>2 DEF KeysOf
      <4>2. <<p, k>> \in Y
        BY <2>4, <3>1, <3>2, <4>1
      <4> QED BY <2>1, <3>1, <4>2
    <3>3. CASE <<p, k>> \notin KeysOf(S)
      <4>1. <<p, k>> \notin proc[d].keys
        BY <2>6, <3>3
      <4>2. bucket[<<p, k>>] = 0
        BY <1>0, <2>1, <3>1, <4>1 DEF Emptied
      <4> QED BY <2>1, <3>1, <4>2
    <3> QED BY <3>2, <3>3
  <2>9. Emptied(d)'
    BY <2>6, <2>7, <2>8 DEF Emptied
  <2> QED BY <2>1, <2>9, EmptiedFrame DEF ClearStep, At
<1>3. CASE FinishSweep(d)
  <2>1. /\ At(d, "sweep") /\ proc[d].keys = {} /\ bucket' = bucket
        /\ proc' = [proc EXCEPT ![d] = Idle]
    BY <1>3 DEF FinishSweep, Rest
  <2>2. \A p \in Packages : rows[p].deployed /\ ~rows'[p].deployed
                            => p \in proc[d].gone \ proc[d].failed
    BY <1>3 DEF FinishSweep, TypeOK, Types, Row
  <2>3. ClearStep
    BY <1>0, <2>1, <2>2 DEF ClearStep, Emptied
  <2>4. proc'[d] = Idle /\ \A e \in Procs : e # d => proc'[e] = proc[e]
    BY <1>0, <2>1
  <2>5. Emptied(d)'
    BY <2>4 DEF Emptied, At, Idle
  <2> QED BY <2>1, <2>3, <2>4, <2>5, EmptiedFrame
<1> QED BY <1>1, <1>2, <1>3 DEF Sweep

LEMMA EmptiedStep ==
  ASSUME ~SweepFails, TypeOK, Apart, EmptiedInv, [Next]_vars
  PROVE  EmptiedInv' /\ ClearStep
<1>0. proc \in [Procs -> Work] /\ Idle \in Work /\ Idle.step # "sweep" /\ Idle.clear = {}
      /\ Pipeline \in Procs
  BY IdleType DEF TypeOK, Types, Idle, Procs
<1>1. CASE Table
  <2>1. \A p \in Packages : rows'[p].deployed = rows[p].deployed
    BY <1>1 DEF Table, ChangeContent, SetActive, TypeOK, Types, Row
  <2>2. proc' = proc /\ bucket' = bucket
    BY <1>1 DEF Table, ChangeContent, SetActive
  <2> QED BY <2>1, <2>2 DEF EmptiedInv, Emptied, At, ClearStep
<1>2. ASSUME NEW d \in Procs, Cleanup(d) PROVE EmptiedInv' /\ ClearStep
  <2>1. rows' = rows /\ bucket' = bucket
    BY <1>2 DEF Cleanup, ListOld, EndCleanup, RemoveBuild
  <2>2. \A e \in Procs : e # d => proc'[e] = proc[e]
    BY <1>0, <1>2 DEF Cleanup, ListOld, EndCleanup, RemoveBuild, Rest
  <2>3. proc'[d].clear = {} /\ proc'[d].step # "sweep"
    <3>1. CASE ListOld(d)
      BY <1>0, <3>1 DEF ListOld, Idle
    <3>2. CASE EndCleanup(d)
      BY <1>0, <3>2 DEF EndCleanup, Rest
    <3>3. ASSUME NEW b \in proc[d].doomed, RemoveBuild(d, b)
          PROVE  proc'[d].clear = {} /\ proc'[d].step # "sweep"
      BY <1>0, <3>3 DEF RemoveBuild, At, Work, EmptiedInv, Emptied
    <3> QED BY <1>2, <3>1, <3>2, <3>3 DEF Cleanup
  <2>4. Emptied(d)'
    BY <2>3 DEF Emptied, At
  <2> QED BY <2>1, <2>2, <2>4, EmptiedFrame DEF ClearStep
<1>3. ASSUME NEW d \in Procs, Abort(d) PROVE EmptiedInv' /\ ClearStep
  BY <1>0, <1>3, EmptiedQuiet DEF Abort, Rest
<1>4. CASE UNCHANGED vars
  BY <1>4 DEF vars, EmptiedInv, Emptied, At, ClearStep
<1> QED BY <1>0, <1>1, <1>2, <1>3, <1>4, EmptiedBuild, EmptiedSync, EmptiedSweep DEF Next

\* While commands take turns, a deployed_hash is forgotten only after every object of
\* its package is gone: by syncs and by sweeps, through failed deletes, requests and
\* updates, crashes and status changes at any step. The one failure excluded is that
\* of single keys of a sweep's request, which does lose the hash (R2DeploySweep).
\* (r2.go:111-139, cleanup.go:97-106, 120-193)
THEOREM HashKeptInTurns ==
  ASSUME ~SweepFails
  PROVE  Spec /\ []Apart => HashClearedOnlyWhenGone
<1>1. Init => EmptiedInv
  BY DEF Init, EmptiedInv, Emptied, At, Idle
<1>2. TypeOK /\ Apart /\ EmptiedInv /\ [Next]_vars => EmptiedInv' /\ [ClearStep]_vars
  BY EmptiedStep
<1> QED BY <1>1, <1>2, TypeCorrect, PTL DEF Spec, HashClearedOnlyWhenGone

-----------------------------------------------------------------------------
(* The promoted build, while commands take turns.                            *)

\* A reserved build is not the promoted one, and neither is a doomed one.
Spared(d) ==
  /\ At(d, "reserved") => proc[d].build \in Ids /\ builds[proc[d].build].state = "reserved"
  /\ At(d, "remove") => current \notin proc[d].doomed

SparedInv == CurrentComplete /\ \A d \in Procs : Spared(d)

LEMMA SparedFrame ==
  ASSUME TypeOK, Apart, SparedInv, NEW d \in Procs,
         \A e \in Procs : e # d => proc'[e] = proc[e],
         \/ ~At(d, "idle")
         \/ /\ current' = current
            /\ \A b \in Ids : builds[b].state = "reserved" => builds'[b].state = "reserved",
         Spared(d)', CurrentComplete'
  PROVE  SparedInv'
<1> SUFFICES ASSUME NEW e \in Procs, e # d PROVE Spared(e)'
  BY DEF SparedInv
<1>1. CASE ~At(d, "idle")
  <2>1. proc'[e].step = "idle"
    BY <1>1 DEF Apart, At
  <2> QED BY <2>1 DEF Spared, At
<1>2. CASE At(d, "idle")
  BY <1>2 DEF SparedInv, Spared, At
<1> QED BY <1>1, <1>2

LEMMA SparedBuild ==
  ASSUME TypeOK, Apart, SparedInv, NEW d \in Procs, Build(d) \/ (d = Pipeline /\ StartPipeline)
  PROVE  SparedInv'
<1>0. proc[d] \in Work /\ proc \in [Procs -> Work] /\ builds \in [Ids -> BuildRow] /\ Types
  BY DEF TypeOK, Types
<1>1. CASE StartPipeline /\ d = Pipeline
  <2>0. PICK b \in Ids :
          /\ FreshId(b) /\ builds' = [builds EXCEPT ![b].state = "reserved"]
          /\ proc' = [proc EXCEPT ![d] = [Idle EXCEPT !.step = "reserved", !.build = b]]
    BY <1>1 DEF StartPipeline
  <2>1. /\ proc'[d].step = "reserved" /\ proc'[d].build = b
        /\ \A e \in Procs : e # d => proc'[e] = proc[e]
    BY <1>0, <2>0 DEF Idle
  <2>2. builds'[b].state = "reserved" /\ \A c \in Ids : c # b => builds'[c] = builds[c]
    BY <1>0, <2>0 DEF BuildRow
  <2>3. current' = current /\ (current # 0 => current # b)
    BY <1>1, <2>0 DEF StartPipeline, FreshId, SparedInv, CurrentComplete, ValidateBuild
  <2>4. Spared(d)' /\ CurrentComplete'
    BY <2>1, <2>2, <2>3 DEF Spared, At, SparedInv, CurrentComplete, ValidateBuild
  <2>5. \A c \in Ids : builds[c].state = "reserved" => builds'[c].state = "reserved"
    BY <2>2
  <2> QED BY <2>1, <2>3, <2>4, <2>5, SparedFrame
<1>2. ASSUME NEW S \in SUBSET Packages, ReadRows(d, S) PROVE SparedInv'
  <2> DEFINE f == [p \in Packages |-> IF p \in S /\ rows[p].active THEN rows[p].data ELSE 0]
  <2>0. PICK b \in Ids :
          /\ \/ At(d, "reserved") /\ b = proc[d].build
             \/ At(d, "idle") /\ FreshId(b)
          /\ builds' = [builds EXCEPT ![b].state = "writing", ![b].files = f]
          /\ proc' = [proc EXCEPT ![d] = [Idle EXCEPT !.step = "build", !.build = b]]
    BY <1>2 DEF ReadRows
  <2> HIDE DEF f
  <2>1. /\ proc'[d].step = "build" /\ \A c \in Ids : c # b => builds'[c] = builds[c]
        /\ \A e \in Procs : e # d => proc'[e] = proc[e]
    BY <1>0, <2>0 DEF Idle
  <2>2. builds[b].state \in {"none", "reserved"} /\ (At(d, "idle") => builds[b].state = "none")
    BY <2>0 DEF FreshId, SparedInv, Spared, At
  <2>3. current' = current /\ (current # 0 => current # b)
    BY <1>2, <2>2 DEF ReadRows, SparedInv, CurrentComplete, ValidateBuild
  <2>4. Spared(d)' /\ CurrentComplete'
    BY <2>1, <2>3 DEF Spared, At, SparedInv, CurrentComplete, ValidateBuild
  <2>5. At(d, "idle") => \A c \in Ids : builds[c].state = "reserved" => builds'[c].state = "reserved"
    BY <2>1, <2>2
  <2> QED BY <2>1, <2>3, <2>4, <2>5, SparedFrame
<1>3. CASE FinishBuild(d)
  <2>1. /\ proc'[d].step \in {"deploy", "idle"} /\ current' = current /\ ~At(d, "idle")
        /\ \A e \in Procs : e # d => proc'[e] = proc[e]
    BY <1>0, <1>3 DEF FinishBuild, Goto, Rest, Work, Idle, At
  <2>2. \A c \in Ids : builds[c].state = "complete" => builds'[c].state = "complete"
    BY <1>0, <1>3 DEF FinishBuild, BuildRow
  <2>3. Spared(d)' /\ CurrentComplete'
    BY <2>1, <2>2 DEF Spared, At, SparedInv, CurrentComplete, ValidateBuild
  <2> QED BY <2>1, <2>3, SparedFrame
<1> QED BY <1>1, <1>2, <1>3 DEF Build

\* Syncs, sweeps and aborts leave the builds, but for the one a sync promotes.
LEMMA SparedSync ==
  ASSUME TypeOK, Apart, SparedInv, NEW d \in Procs, Sync(d) \/ Sweep(d) \/ Abort(d)
  PROVE  SparedInv'
<1>0. proc[d] \in Work /\ proc \in [Procs -> Work] /\ builds \in [Ids -> BuildRow]
  BY DEF TypeOK, Types
<1>1. \A e \in Procs : e # d => proc'[e] = proc[e]
  BY <1>0 DEF Sync, BeginSync, Upload, Stamp, ListGone, PutRoot, Promote, DeleteObjects, ClearHash,
              RecordR2Sync, Sweep, StartSweep, FinishSweep, SweepBatch, Abort, Goto, Rest
<1>2. proc'[d].step \in {"reserved", "remove"}
        => /\ proc'[d].step = proc[d].step /\ proc'[d].build = proc[d].build
           /\ proc'[d].doomed = proc[d].doomed /\ current' = current
  <2>1. CASE \E ok \in BOOLEAN : ClearHash(d, ok)
    <3>1. proc'[d] = [proc[d] EXCEPT !.clear = {}] /\ current' = current
      BY <1>0, <2>1 DEF ClearHash
    <3> QED BY <1>0, <3>1 DEF Work
  <2>2. CASE \/ \E b \in Ids : BeginSync(d, b)
             \/ Stamp(d) \/ ListGone(d) \/ PutRoot(d) \/ Promote(d)
             \/ \E ok \in BOOLEAN : RecordR2Sync(d, ok)
             \/ StartSweep(d) \/ FinishSweep(d) \/ Abort(d)
    <3>1. ASSUME NEW s \in Steps, Goto(d, s) PROVE proc'[d].step = s
      BY <1>0, <3>1 DEF Goto, Work
    <3>2. {"stamped", "record", "promote", "cleanup"} \subseteq Steps
      BY DEF Steps
    <3>3. CASE Stamp(d) \/ PutRoot(d) \/ \E ok \in BOOLEAN : RecordR2Sync(d, ok)
      BY <3>1, <3>2, <3>3 DEF Stamp, PutRoot, RecordR2Sync
    <3>4. CASE Promote(d) \/ FinishSweep(d) \/ Abort(d)
      <4>1. CASE Rest(d)
        BY <1>0, <4>1 DEF Rest, Idle
      <4> QED BY <3>1, <3>2, <3>4, <4>1 DEF Promote, FinishSweep, Abort
    <3>5. CASE ListGone(d)
      <4>1. proc'[d] = [proc[d] EXCEPT !.step = "delete", !.gone = GetDeactivatedDeployedPackages]
        BY <1>0, <3>5 DEF ListGone
      <4> QED BY <1>0, <4>1 DEF Work
    <3>6. CASE StartSweep(d) \/ \E b \in Ids : BeginSync(d, b)
      BY <1>0, <3>6 DEF StartSweep, BeginSync, Idle
    <3> QED BY <2>2, <3>3, <3>4, <3>5, <3>6
  <2>3. CASE \E k \in proc[d].keys : Upload(d, k)
    <3>1. proc'[d] = [proc[d] EXCEPT !.keys = proc'[d].keys] /\ At(d, "upload")
      BY <1>0, <2>3 DEF Upload, Work
    <3> QED BY <1>0, <3>1 DEF Work, At
  <2>4. CASE \E p \in proc[d].gone, K \in SUBSET Kinds : DeleteObjects(d, p, K)
    <3>1. PICK p \in proc[d].gone, K \in SUBSET Kinds : DeleteObjects(d, p, K)
      BY <2>4
    <3>2. /\ At(d, "delete")
          /\ proc'[d] = [proc[d] EXCEPT !.gone = @ \ {p}, !.clear = IF K = Kinds THEN {p} ELSE {}]
      BY <1>0, <3>1 DEF DeleteObjects
    <3>3. proc'[d].step = "delete"
      BY <1>0, <3>2 DEF Work, At
    <3> QED BY <3>3
  <2>5. CASE \E S \in SUBSET proc[d].gone : \E X \in SUBSET KeysOf(S) : SweepBatch(d, S, X)
    <3>1. PICK S \in SUBSET proc[d].gone : \E X \in SUBSET KeysOf(S) : SweepBatch(d, S, X)
      BY <2>5
    <3>2. PICK X \in SUBSET KeysOf(S) : SweepBatch(d, S, X)
      BY <3>1
    <3>3. /\ At(d, "sweep")
          /\ proc'[d] = [proc[d] EXCEPT !.keys = @ \ KeysOf(S),
                           !.failed = @ \cup {k[1] : k \in X}, !.clear = {k[1] : k \in KeysOf(S) \ X}]
      BY <1>0, <3>2 DEF SweepBatch
    <3>4. proc'[d].step = "sweep"
      BY <1>0, <3>3 DEF Work, At
    <3> QED BY <3>4
  <2> QED BY <2>1, <2>2, <2>3, <2>4, <2>5 DEF Sync, Sweep
<1>3. \A c \in Ids : builds'[c].state = builds[c].state
  <2>1. CASE \E ok \in BOOLEAN : RecordR2Sync(d, ok)
    BY <1>0, <2>1 DEF RecordR2Sync, BuildRow
  <2>2. CASE builds' = builds
    BY <2>2
  <2> QED BY <2>1, <2>2 DEF Sync, BeginSync, Upload, Stamp, ListGone, PutRoot, Promote, DeleteObjects,
              ClearHash, Sweep, StartSweep, FinishSweep, SweepBatch, Abort
<1>4. CASE current' = current
  <2>1. CurrentComplete'
    BY <1>3, <1>4 DEF SparedInv, CurrentComplete, ValidateBuild
  <2>2. Spared(d)'
    BY <1>2, <1>3, <1>4 DEF SparedInv, Spared, At
  <2> QED BY <1>1, <1>3, <1>4, <2>1, <2>2, SparedFrame
<1>5. CASE Promote(d)
  <2>1. CurrentComplete' /\ ~At(d, "idle")
    BY <1>5 DEF Promote, At, CurrentComplete, ValidateBuild
  <2>2. proc'[d].step \in {"cleanup", "idle"}
    BY <1>0, <1>5 DEF Promote, Goto, Rest, Idle, Work
  <2>3. Spared(d)'
    BY <2>2 DEF Spared, At
  <2> QED BY <1>1, <2>1, <2>3, SparedFrame
<1> QED BY <1>4, <1>5 DEF Sync, BeginSync, Upload, Stamp, ListGone, PutRoot, DeleteObjects, ClearHash,
                        RecordR2Sync, Sweep, StartSweep, FinishSweep, SweepBatch, Abort

LEMMA SparedCleanup ==
  ASSUME TypeOK, Apart, SparedInv, NEW d \in Procs, Cleanup(d)
  PROVE  SparedInv'
<1>0. proc[d] \in Work /\ proc \in [Procs -> Work] /\ builds \in [Ids -> BuildRow]
  BY DEF TypeOK, Types
<1>1. CASE ListOld(d)
  <2>1. /\ proc'[d].step = "remove" /\ proc'[d].doomed \subseteq Dirs \ {current}
        /\ current' = current /\ builds' = builds /\ \A e \in Procs : e # d => proc'[e] = proc[e]
    BY <1>0, <1>1 DEF ListOld, Idle
  <2>2. Spared(d)' /\ CurrentComplete'
    BY <2>1 DEF Spared, At, SparedInv, CurrentComplete, ValidateBuild
  <2> QED BY <2>1, <2>2, SparedFrame
<1>2. ASSUME NEW b \in proc[d].doomed, RemoveBuild(d, b) PROVE SparedInv'
  <2>1. /\ proc'[d] = [proc[d] EXCEPT !.doomed = @ \ {b}] /\ At(d, "remove")
        /\ current' = current /\ \A e \in Procs : e # d => proc'[e] = proc[e]
    BY <1>0, <1>2 DEF RemoveBuild
  <2>2. proc'[d].step = "remove" /\ proc'[d].doomed \subseteq proc[d].doomed
    BY <1>0, <2>1 DEF Work, At
  <2>3. current # b /\ current \notin proc[d].doomed
    BY <2>1 DEF SparedInv, Spared
  <2>4. \A c \in Ids : c # b => builds'[c] = builds[c]
    BY <1>0, <1>2 DEF RemoveBuild
  <2>5. Spared(d)' /\ CurrentComplete'
    BY <2>1, <2>2, <2>3, <2>4 DEF Spared, At, SparedInv, CurrentComplete, ValidateBuild
  <2> QED BY <2>1, <2>5, SparedFrame DEF At
<1>3. CASE EndCleanup(d)
  <2>1. /\ proc'[d].step = "idle" /\ ~At(d, "idle")
        /\ current' = current /\ builds' = builds /\ \A e \in Procs : e # d => proc'[e] = proc[e]
    BY <1>0, <1>3 DEF EndCleanup, Rest, Idle, At
  <2>2. Spared(d)' /\ CurrentComplete'
    BY <2>1 DEF Spared, At, SparedInv, CurrentComplete, ValidateBuild
  <2> QED BY <2>1, <2>2, SparedFrame
<1> QED BY <1>1, <1>2, <1>3 DEF Cleanup

\* While commands take turns, "current" names a finished build that is there: neither
\* a rollback nor a cleanup by hand, nor a crash in any of them, leaves it dangling.
\* (local.go:14-39, 70-116)
THEOREM CurrentKeptInTurns == Spec /\ []Apart => []CurrentComplete
<1>1. Init => SparedInv
  BY DEF Init, SparedInv, Spared, CurrentComplete, At, Idle
<1>2. ASSUME TypeOK, Apart, SparedInv, [Next]_vars PROVE SparedInv'
  <2>1. CASE Table \/ UNCHANGED vars
    BY <1>2, <2>1 DEF Table, ChangeContent, SetActive, vars, SparedInv, Spared, At, CurrentComplete,
                      ValidateBuild
  <2>2. Pipeline \in Procs
    BY DEF Procs
  <2> QED BY <1>2, <2>1, <2>2, SparedBuild, SparedSync, SparedCleanup DEF Next
<1>3. SparedInv => CurrentComplete
  BY DEF SparedInv
<1> QED BY <1>1, <1>2, <1>3, TypeCorrect, PTL DEF Spec

=============================================================================
