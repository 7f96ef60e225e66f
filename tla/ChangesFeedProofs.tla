--------------------------- MODULE ChangesFeedProofs ---------------------------
(***************************************************************************)
(* What holds of the changes feed for any set of packages, any clock, any    *)
(* retention and any number of runs.                                        *)
(***************************************************************************)
EXTENDS ChangesFeed, Extremes

\* The sync runs of the rows have a bound, as those of a finite table have.
Bounded == \E n \in Nat : \A p \in Packages : table[p].run <= n

\* No build has ended in the future.
EndedBy == \A d \in Builders : proc[d].finished <= clock

Types == TypeOK /\ Bounded /\ EndedBy

-----------------------------------------------------------------------------
(* The operators.                                                           *)

LEMMA IdleType == Idle \in Builder /\ None \in Files
<1>1. None \in Files
  BY FeedAssumption DEF None, Files
<1> QED BY <1>1, FeedAssumption DEF Idle, Builder, Steps

LEMMA StepType ==
  /\ "idle" \in Steps /\ "update" \in Steps /\ "snapshot" \in Steps /\ "read" \in Steps
  /\ "built" \in Steps /\ "prune" \in Steps /\ "deploy" \in Steps
BY DEF Steps

LEMMA Fields ==
  ASSUME NEW w \in Builder
  PROVE  /\ \A s \in Steps : [w EXCEPT !.step = s] \in Builder
         /\ \A n \in Nat : /\ [w EXCEPT !.run = n] \in Builder
                           /\ [w EXCEPT !.sid = n] \in Builder
                           /\ [w EXCEPT !.finished = n] \in Builder
         /\ \A f \in Files : /\ [w EXCEPT !.prev = f] \in Builder
                             /\ [w EXCEPT !.files = f] \in Builder
         /\ \A C \in SUBSET Change : [w EXCEPT !.changes = C] \in Builder
BY DEF Builder

\* The memory of a builder before and after its steps.
Updating(w, n) == [w EXCEPT !.step = "update", !.run = n]
Reading(w, n, f) == [w EXCEPT !.step = "snapshot", !.run = 0, !.sid = n, !.prev = f]
Read(w, f, C) == [w EXCEPT !.step = "read", !.files = f, !.sid = 0, !.prev = None, !.changes = C]
Built(w, t) == [w EXCEPT !.step = "built", !.finished = t]
Recorded(w) == [w EXCEPT !.step = "prune", !.changes = {}, !.finished = 0]

LEMMA Memories ==
  ASSUME NEW w \in Builder
  PROVE  /\ \A n \in Nat : /\ Updating(w, n) \in Builder /\ Updating(w, n).finished = w.finished
                           /\ Built(w, n) \in Builder /\ Built(w, n).finished = n
         /\ \A n \in Nat, f \in Files :
              Reading(w, n, f) \in Builder /\ Reading(w, n, f).finished = w.finished
         /\ \A f \in Files, C \in SUBSET Change :
              Read(w, f, C) \in Builder /\ Read(w, f, C).finished = w.finished
         /\ Recorded(w) \in Builder /\ Recorded(w).finished = 0
<1>0. {} \in SUBSET Change /\ None \in Files
  BY IdleType
<1>1. ASSUME NEW n \in Nat PROVE Updating(w, n) \in Builder /\ Updating(w, n).finished = w.finished
  <2>1. Updating(w, n) \in Builder
    BY <1>0, StepType, Fields DEF Updating
  <2> QED BY <2>1 DEF Updating, Builder
<1>2. ASSUME NEW n \in Nat PROVE Built(w, n) \in Builder /\ Built(w, n).finished = n
  <2>1. Built(w, n) \in Builder
    BY <1>0, StepType, Fields DEF Built
  <2> QED BY <2>1 DEF Built, Builder
<1>3. ASSUME NEW n \in Nat, NEW f \in Files
      PROVE  Reading(w, n, f) \in Builder /\ Reading(w, n, f).finished = w.finished
  <2>1. Reading(w, n, f) \in Builder
    BY <1>0, StepType, Fields DEF Reading
  <2> QED BY <2>1 DEF Reading, Builder
<1>4. ASSUME NEW f \in Files, NEW C \in SUBSET Change
      PROVE  Read(w, f, C) \in Builder /\ Read(w, f, C).finished = w.finished
  <2>1. Read(w, f, C) \in Builder
    BY <1>0, StepType, Fields DEF Read
  <2> QED BY <2>1 DEF Read, Builder
<1>5. Recorded(w) \in Builder /\ Recorded(w).finished = 0
  <2>1. Recorded(w) \in Builder
    BY <1>0, StepType, Fields DEF Recorded
  <2> QED BY <2>1 DEF Recorded, Builder
<1> QED BY <1>1, <1>2, <1>3, <1>4, <1>5

LEMMA MemoryType ==
  ASSUME TypeOK, NEW d \in Builders, NEW w \in Builder, proc' = [proc EXCEPT ![d] = w]
  PROVE  /\ proc' \in [Builders -> Builder]
         /\ proc'[d] = w /\ \A e \in Builders : e # d => proc'[e] = proc[e]
BY DEF TypeOK

\* The snapshot's id is no row's past.
LEMMA SnapshotIs ==
  ASSUME Types
  PROVE  SnapshotId \in Nat /\ \A p \in Packages : table[p].run <= SnapshotId
<1> DEFINE Runs == {0} \cup {table[p].run : p \in Packages}
<1>1. \A p \in Packages : table[p].run \in Nat
  BY DEF Types, TypeOK, Row
<1>2. PICK n \in Nat : \A p \in Packages : table[p].run <= n
  BY DEF Types, Bounded
<1>3. Runs \in SUBSET Nat /\ Runs # {} /\ \A m \in Runs : m <= n
  BY <1>1, <1>2
<1>4. \A p \in Packages : table[p].run \in Runs
  OBVIOUS
<1>5. SnapshotId = Max(Runs)
  BY DEF SnapshotId
<1> HIDE DEF Runs
<1>6. Max(Runs) \in Runs /\ \A m \in Runs : m <= Max(Runs)
  BY <1>3, GreatestExists
<1> QED BY <1>3, <1>4, <1>5, <1>6

\* The checkpoint is the clock, or the time of the newest row.
LEMMA CheckpointIs ==
  ASSUME Types
  PROVE  /\ Checkpoint \in 0 .. clock
         /\ feed = {} => Checkpoint = clock
         /\ feed # {} => \E r \in feed : Checkpoint = r.time
<1>1. clock \in Nat /\ \A r \in feed : r.time \in Nat /\ r.time <= clock
  BY DEF Types, TypeOK, FeedRow
<1>2. CASE feed = {}
  BY <1>1, <1>2 DEF Checkpoint
<1>3. CASE feed # {}
  <2> DEFINE Times == {r.time : r \in feed}
  <2>1. Times \in SUBSET Nat /\ Times # {} /\ \A t \in Times : t <= clock
    BY <1>1, <1>3
  <2>2. Checkpoint = Max(Times)
    BY <1>3 DEF Checkpoint
  <2>3. \A t \in Times : t \in 0 .. clock /\ \E r \in feed : t = r.time
    BY <1>1
  <2> HIDE DEF Times
  <2>4. Max(Times) \in Times
    BY <1>1, <2>1, GreatestExists
  <2> QED BY <1>3, <2>2, <2>3, <2>4
<1> QED BY <1>2, <1>3

LEMMA FilesType ==
  ASSUME Types, NEW d \in Builders, NEW S \in SUBSET Packages
  PROVE  /\ FilesOf(d, S) \in Files
         /\ ChangedPackages(proc[d].prev, FilesOf(d, S), S = Packages) \in SUBSET Change
<1>1. FilesOf(d, S) \in Files
  <2>1. \A p \in Packages : table[p].data \in 0 .. MaxData
    BY DEF Types, TypeOK, Row
  <2>2. 0 \in 0 .. MaxData
    BY FeedAssumption
  <2> QED BY <2>1, <2>2 DEF FilesOf, Files
<1> QED BY <1>1 DEF ChangedPackages, Change

-----------------------------------------------------------------------------
(* Types.                                                                   *)

LEMMA TypesInit == Init => Types
<1> SUFFICES ASSUME Init PROVE Types
  OBVIOUS
<1>1. TypeOK
  BY IdleType, FeedAssumption DEF TypeOK, Row, Init, None, Files
<1>2. Bounded
  BY DEF Init, Bounded
<1>3. EndedBy
  BY DEF Init, EndedBy, Idle
<1> QED BY <1>1, <1>2, <1>3 DEF Types

\* Whatever becomes of a build's changes, the history stays well typed.
LEMMA FatedType ==
  ASSUME Types, NEW d \in Builders, NEW fate \in {"ahead", "behind", "failed"}
  PROVE  /\ Fated(d, fate) \subseteq Unseen
         /\ \A r \in Fated(d, fate) : r.time <= clock
<1> DEFINE pkgs == {c.pkg : c \in proc[d].changes}
           old == {r \in unseen : r.pkg \in pkgs => r.fate = "ahead" /\ fate # "ahead"}
           new == {[pkg |-> p, time |-> proc[d].finished, fate |-> fate] : p \in pkgs}
<1>1. proc[d].finished \in Nat /\ proc[d].finished <= clock /\ proc[d].changes \in SUBSET Change
  BY DEF Types, TypeOK, Builder, EndedBy
<1>2. pkgs \subseteq Packages
  BY <1>1 DEF Change
<1>3. Fated(d, fate) = old \cup new
  BY DEF Fated
<1>4. old \subseteq Unseen /\ \A r \in old : r.time <= clock
  BY DEF Types, TypeOK
<1> HIDE DEF pkgs
<1>5. new \subseteq Unseen /\ \A r \in new : r.time <= clock
  BY <1>1, <1>2 DEF Unseen
<1> HIDE DEF old, new
<1> QED BY <1>3, <1>4, <1>5

\* A builder that is done with recording, whether it worked or not.
LEMMA RecordedType ==
  ASSUME Types, NEW d \in Builders, proc' = [proc EXCEPT ![d] = Recorded(proc[d])], clock' = clock
  PROVE  proc' \in [Builders -> Builder] /\ EndedBy'
<1> DEFINE w == Recorded(proc[d])
<1>1. w \in Builder /\ w.finished = 0
  BY Memories DEF Types, TypeOK
<1>2. proc' = [proc EXCEPT ![d] = w]
  OBVIOUS
<1> HIDE DEF w
<1>3. /\ proc' \in [Builders -> Builder]
      /\ proc'[d] = w /\ \A e \in Builders : e # d => proc'[e] = proc[e]
  BY <1>1, <1>2, MemoryType DEF Types
<1> QED BY <1>1, <1>3 DEF EndedBy, Types, TypeOK

LEMMA TypesStep == Types /\ [Next]_vars => Types'
<1> SUFFICES ASSUME Types, [Next]_vars PROVE Types'
  OBVIOUS
<1> USE FeedAssumption DEF Types, TypeOK, history
<1>1. CASE Tick
  <2>1. EndedBy'
    BY <1>1 DEF Tick, EndedBy, Builder
  <2>2. clock' = clock + 1 /\ UNCHANGED <<table, proc, served, feed, client, unseen, told>>
    BY <1>1 DEF Tick
  <2>3. \A r \in feed \cup unseen : r.time \in Nat /\ r.time <= clock + 1
    BY DEF FeedRow, Unseen
  <2>4. client \in [since : 0 .. clock + 1, asked : 0 .. clock + 1] /\ told \in 0 .. clock + 1
    OBVIOUS
  <2> QED BY <2>1, <2>2, <2>3, <2>4 DEF Bounded
<1>2. ASSUME NEW p \in Packages, SetActive(p) PROVE Types'
  BY <1>2 DEF SetActive, Row, Bounded, EndedBy
<1>3. CASE StartUpdate
  <2>1. SnapshotId \in Nat
    BY SnapshotIs
  <2> DEFINE w == Updating(proc[Pipeline], 1 + SnapshotId)
  <2>2. w \in Builder /\ w.finished = proc[Pipeline].finished
    <3>1. 1 + SnapshotId \in Nat /\ proc[Pipeline] \in Builder
      BY <2>1 DEF Builders
    <3> QED BY <3>1, Memories
  <2>3. proc' = [proc EXCEPT ![Pipeline] = w]
    BY <1>3 DEF StartUpdate, Updating
  <2> HIDE DEF w
  <2>4. proc' \in [Builders -> Builder] /\ EndedBy'
    BY <1>3, <2>2, <2>3, MemoryType DEF StartUpdate, EndedBy, Builders
  <2> QED BY <1>3, <2>4 DEF StartUpdate, Bounded
<1>4. ASSUME NEW p \in Packages, NEW data \in 0 .. MaxData, StoreRow(p, data) PROVE Types'
  <2>1. proc[Pipeline].run \in Nat
    BY DEF Builders, Builder
  <2>2. table' \in [Packages -> Row]
    BY <1>4, <2>1 DEF StoreRow, Row
  <2>3. Bounded'
    <3>1. PICK n \in Nat : \A q \in Packages : table[q].run <= n
      BY DEF Bounded, Row
    <3>2. PICK m \in Nat : n <= m /\ proc[Pipeline].run <= m
      BY <2>1, <3>1
    <3>3. \A q \in Packages : table'[q].run <= m
      BY <1>4, <2>1, <3>1, <3>2 DEF StoreRow, Row
    <3> QED BY <3>3 DEF Bounded
  <2> QED BY <1>4, <2>2, <2>3 DEF StoreRow, EndedBy
<1>5. CASE Deploy
  <2>1. proc' \in [Builders -> Builder] /\ EndedBy'
    <3>1. Idle \in Builder /\ Idle.finished <= clock /\ Pipeline \in Builders
      BY IdleType DEF Idle, Builders
    <3>2. proc' = [proc EXCEPT ![Pipeline] = Idle] /\ clock' = clock
      BY <1>5 DEF Deploy, Rest
    <3> QED BY <3>1, <3>2 DEF EndedBy
  <2>2. served' \in Files
    BY <1>5 DEF Deploy, Builder, Builders
  <2> QED BY <1>5, <2>1, <2>2 DEF Deploy, Bounded
<1>6. ASSUME NEW d \in Builders, TakeSnapshot(d) PROVE Types'
  <2>1. SnapshotId \in Nat
    BY SnapshotIs
  <2> DEFINE w == Reading(proc[d], SnapshotId, served)
  <2>2. w \in Builder /\ w.finished = proc[d].finished
    <3>1. proc[d] \in Builder /\ served \in Files
      OBVIOUS
    <3> HIDE DEF TypeOK, Types
    <3>2. \A n \in Nat, f \in Files : Reading(proc[d], n, f) \in Builder
                                     /\ Reading(proc[d], n, f).finished = proc[d].finished
      BY <3>1, Memories
    <3> QED BY <2>1, <3>1, <3>2
  <2>3. proc' = [proc EXCEPT ![d] = w]
    BY <1>6 DEF TakeSnapshot, Reading
  <2> HIDE DEF w
  <2>4. proc' \in [Builders -> Builder] /\ EndedBy'
    BY <1>6, <2>2, <2>3, MemoryType DEF TakeSnapshot, EndedBy
  <2> QED BY <1>6, <2>4 DEF TakeSnapshot, Bounded
<1>7. ASSUME NEW d \in Builders, NEW S \in SUBSET Packages, ReadRows(d, S) PROVE Types'
  <2> DEFINE changed == ChangedPackages(proc[d].prev, FilesOf(d, S), S = Packages)
             kept == IF d = Pipeline THEN FilesOf(d, S) ELSE None
  <2>1. kept \in Files /\ changed \in SUBSET Change
    BY FilesType, IdleType
  <2> HIDE DEF changed, kept
  <2> DEFINE w == Read(proc[d], kept, changed)
  <2>2. w \in Builder /\ w.finished = proc[d].finished
    <3>1. proc[d] \in Builder
      OBVIOUS
    <3> HIDE DEF TypeOK, Types
    <3>2. \A f \in Files, C \in SUBSET Change :
            Read(proc[d], f, C) \in Builder /\ Read(proc[d], f, C).finished = proc[d].finished
      BY <3>1, Memories
    <3> QED BY <2>1, <3>2
  <2>3. proc' = [proc EXCEPT ![d] = w]
    BY <1>7 DEF ReadRows, changed, kept, Read
  <2> HIDE DEF w
  <2>4. proc' \in [Builders -> Builder] /\ EndedBy'
    BY <1>7, <2>2, <2>3, MemoryType DEF ReadRows, EndedBy
  <2> QED BY <1>7, <2>4 DEF ReadRows, Bounded
<1>8. ASSUME NEW d \in Builders, FinishBuild(d) PROVE Types'
  <2> DEFINE w == Built(proc[d], clock)
  <2>1. w \in Builder /\ w.finished = clock
    BY Memories
  <2>2. proc' = [proc EXCEPT ![d] = w]
    BY <1>8 DEF FinishBuild, Built
  <2> HIDE DEF w
  <2>3. proc' \in [Builders -> Builder] /\ EndedBy'
    BY <1>8, <2>1, <2>2, MemoryType DEF FinishBuild, EndedBy
  <2> QED BY <1>8, <2>3 DEF FinishBuild, Bounded
<1>9. ASSUME NEW d \in Builders, RecordChanges(d) PROVE Types'
  <2> DEFINE new == {[pkg |-> c.pkg, time |-> proc[d].finished] : c \in proc[d].changes}
             fate == IF proc[d].finished > told THEN "ahead" ELSE "behind"
  <2>1. proc[d].finished \in Nat /\ proc[d].finished <= clock /\ proc[d].changes \in SUBSET Change
    BY DEF Builder, EndedBy
  <2>2. new \subseteq FeedRow /\ \A r \in new : r.time <= clock
    BY <2>1 DEF Change, FeedRow
  <2>3. proc' \in [Builders -> Builder] /\ EndedBy'
    BY <1>9, RecordedType DEF RecordChanges, Recorded
  <2>4. feed' = feed \cup new /\ unseen' = Fated(d, fate)
    BY <1>9 DEF RecordChanges
  <2>5. told' \in 0 .. clock
    BY <1>9, <2>1 DEF RecordChanges
  <2>6. fate \in {"ahead", "behind", "failed"}
    OBVIOUS
  <2> HIDE DEF new, fate
  <2>7. unseen' \subseteq Unseen /\ \A r \in unseen' : r.time <= clock
    BY <2>4, <2>6, FatedType
  <2>8. feed' \subseteq FeedRow /\ \A r \in feed' \cup unseen' : r.time <= clock
    BY <2>2, <2>4, <2>7
  <2> QED BY <1>9, <2>3, <2>5, <2>7, <2>8 DEF RecordChanges, Bounded
<1>10. ASSUME NEW d \in Builders, FailToRecord(d) PROVE Types'
  <2>1. proc' \in [Builders -> Builder] /\ EndedBy'
    BY <1>10, RecordedType DEF FailToRecord, Recorded
  <2>2. unseen' \subseteq Unseen /\ \A r \in unseen' : r.time <= clock
    BY <1>10, FatedType DEF FailToRecord
  <2> QED BY <1>10, <2>1, <2>2 DEF FailToRecord, Bounded
<1>11. ASSUME NEW d \in Builders, PruneChanges(d) PROVE Types'
  <2> DEFINE w == IF d = Pipeline THEN [proc[d] EXCEPT !.step = "deploy"] ELSE Idle
  <2>1. w \in Builder
    BY IdleType, StepType, Fields
  <2>2. w.finished <= clock
    BY DEF Idle, Builder, EndedBy
  <2>3. proc' = [proc EXCEPT ![d] = w]
    BY <1>11 DEF PruneChanges, Goto, Rest
  <2> HIDE DEF w
  <2>4. proc' \in [Builders -> Builder] /\ EndedBy'
    BY <1>11, <2>1, <2>2, <2>3, MemoryType DEF PruneChanges, EndedBy
  <2>5. \A r \in Unseen : /\ [r EXCEPT !.fate = "pruned"] \in Unseen
                         /\ [r EXCEPT !.fate = "pruned"].time = r.time
    BY DEF Unseen
  <2>6. \A r \in unseen' : \E o \in unseen : r = o \/ r = [o EXCEPT !.fate = "pruned"]
    BY <1>11 DEF PruneChanges
  <2>7. unseen' \subseteq Unseen /\ \A r \in unseen' : r.time <= clock
    BY <2>5, <2>6
  <2>8. feed' \subseteq feed
    BY <1>11 DEF PruneChanges
  <2> QED BY <1>11, <2>4, <2>7, <2>8 DEF PruneChanges, Bounded
<1>12. ASSUME NEW d \in Builders, Abort(d) PROVE Types'
  <2>1. proc' \in [Builders -> Builder] /\ EndedBy'
    BY <1>12, IdleType DEF Abort, Rest, EndedBy, Builder, Idle
  <2>2. unseen' \subseteq Unseen /\ \A r \in unseen' : r.time <= clock
    BY <1>12, FatedType DEF Abort
  <2> QED BY <1>12, <2>1, <2>2 DEF Abort, Bounded
<1>13. CASE PollResync
  BY <1>13 DEF PollResync, Bounded, EndedBy
<1>14. CASE PollCheckpoint
  <2>1. Checkpoint \in 0 .. clock
    BY CheckpointIs
  <2>2. told' \in 0 .. clock
    BY <1>14 DEF PollCheckpoint
  <2> QED BY <1>14, <2>1, <2>2 DEF PollCheckpoint, Bounded, EndedBy
<1>15. CASE PollRows
  <2>1. unseen' \subseteq unseen
    BY <1>15 DEF PollRows
  <2> QED BY <1>15, <2>1 DEF PollRows, Bounded, EndedBy
<1>16. CASE UNCHANGED vars
  BY <1>16 DEF vars, Bounded, EndedBy
<1> QED BY <1>1, <1>2, <1>3, <1>4, <1>5, <1>6, <1>7, <1>8, <1>9, <1>10, <1>11, <1>12,
           <1>13, <1>14, <1>15, <1>16 DEF Next, Build

LEMMA TypesKept == Spec => []Types
BY TypesInit, TypesStep, PTL DEF Spec

\* Clock, table, builders, feed, client and history stay well typed, and no change
\* lies in the future.
THEOREM TypeCorrect == Spec => []TypeOK
<1>1. Types => TypeOK
  BY DEF Types
<1> QED BY <1>1, TypesKept, PTL

-----------------------------------------------------------------------------
(* What the client has heard of.                                            *)

\* No answer and no row is ahead of told. A change that was written ahead of what the
\* client had been told still is, and can still be found: its row is there, or so old
\* that the client, unless it has asked already, is told to fetch everything.
Heard ==
  /\ client.since <= told /\ client.asked <= told
  /\ \A r \in feed : r.time <= told
  /\ \A r \in unseen : r.fate = "ahead" =>
       /\ client.since < r.time /\ r.time <= told
       /\ \/ [pkg |-> r.pkg, time |-> r.time] \in feed
          \/ r.time < clock - Retention /\ client.asked < r.time

LEMMA HeardInit == Init => Heard
BY DEF Init, Heard

LEMMA HeardStep == Types /\ Heard /\ [Next]_vars => Heard'
<1> SUFFICES ASSUME Types, Heard, [Next]_vars PROVE Heard'
  OBVIOUS
<1>0. /\ clock \in Nat /\ told \in Nat /\ told <= clock /\ Retention \in Nat
      /\ client.since \in Nat /\ client.asked \in Nat
      /\ client.since <= clock /\ client.asked <= clock
      /\ \A r \in feed : r.time \in Nat /\ r.time <= clock
      /\ \A r \in unseen : r.time \in Nat /\ r.time <= clock
  BY FeedAssumption DEF Types, TypeOK, FeedRow, Unseen
<1>1. CASE Tick
  <2>1. clock' = clock + 1 /\ UNCHANGED <<feed, client, unseen, told>>
    BY <1>1 DEF Tick, history
  <2> QED BY <1>0, <2>1 DEF Heard
<1>2. ASSUME UNCHANGED <<clock, feed, client, unseen, told>> PROVE Heard'
  BY <1>2 DEF Heard
<1>3. ASSUME NEW d \in Builders, RecordChanges(d) PROVE Heard'
  <2> DEFINE t == proc[d].finished
             pkgs == {c.pkg : c \in proc[d].changes}
             fate == IF t > told THEN "ahead" ELSE "behind"
  <2>0. t \in Nat
    BY DEF Types, TypeOK, Builder
  <2>1. /\ clock' = clock /\ client' = client
        /\ feed \subseteq feed'
        /\ \A p \in pkgs : [pkg |-> p, time |-> t] \in feed'
        /\ \A r \in feed' : r \in feed \/ (r.time = t /\ proc[d].changes # {})
    <3> DEFINE new == {[pkg |-> c.pkg, time |-> t] : c \in proc[d].changes}
    <3>1. clock' = clock /\ client' = client /\ feed' = feed \cup new
      BY <1>3 DEF RecordChanges
    <3>2. \A p \in pkgs : [pkg |-> p, time |-> t] \in new
      OBVIOUS
    <3>3. \A r \in new : r.time = t /\ proc[d].changes # {}
      OBVIOUS
    <3> HIDE DEF new, pkgs, t
    <3> QED BY <3>1, <3>2, <3>3
  <2>2. told' = IF proc[d].changes # {} /\ t > told THEN t ELSE told
    BY <1>3 DEF RecordChanges
  <2>3. told <= told' /\ told' \in Nat /\ (proc[d].changes # {} => t <= told')
    BY <1>0, <2>0, <2>2
  <2>4. ASSUME NEW r \in unseen'
        PROVE  r \in unseen \/ (r.time = t /\ r.fate = fate /\ r.pkg \in pkgs)
    BY <1>3, <2>4 DEF RecordChanges, Fated
  <2>5. pkgs # {} => proc[d].changes # {}
    OBVIOUS
  <2> HIDE DEF pkgs
  <2>6. ASSUME NEW r \in unseen', r.fate = "ahead"
        PROVE  /\ client'.since < r.time /\ r.time <= told'
               /\ \/ [pkg |-> r.pkg, time |-> r.time] \in feed'
                  \/ r.time < clock' - Retention /\ client'.asked < r.time
    <3>1. CASE r \in unseen
      <4>1. /\ client.since < r.time /\ r.time <= told
            /\ \/ [pkg |-> r.pkg, time |-> r.time] \in feed
               \/ r.time < clock - Retention /\ client.asked < r.time
        BY <2>6, <3>1 DEF Heard
      <4>2. r.time <= told'
        BY <1>0, <2>3, <3>1, <4>1
      <4> QED BY <2>1, <4>1, <4>2
    <3>2. CASE r.time = t /\ r.fate = fate /\ r.pkg \in pkgs
      <4>1. t > told
        BY <2>6, <3>2
      <4>2. client.since < r.time
        BY <1>0, <2>0, <3>2, <4>1 DEF Heard
      <4>3. r.time <= told'
        BY <2>3, <2>5, <3>2
      <4> QED BY <2>1, <3>2, <4>2, <4>3
    <3> QED BY <2>4, <2>6, <3>1, <3>2
  <2>7. client'.since <= told' /\ client'.asked <= told'
    BY <1>0, <2>1, <2>3 DEF Heard
  <2>8. \A r \in feed' : r.time <= told'
    BY <1>0, <2>0, <2>1, <2>3 DEF Heard
  <2> QED BY <2>6, <2>7, <2>8 DEF Heard
<1>4. ASSUME NEW d \in Builders, FailToRecord(d) \/ Abort(d) PROVE Heard'
  <2>1. UNCHANGED <<clock, feed, client, told>>
    BY <1>4 DEF FailToRecord, Abort
  <2>2. \A r \in unseen' : r.fate = "ahead" => r \in unseen
    BY <1>4 DEF FailToRecord, Abort, Fated
  <2> QED BY <2>1, <2>2 DEF Heard
<1>5. ASSUME NEW d \in Builders, PruneChanges(d) PROVE Heard'
  <2>1. /\ UNCHANGED <<clock, client, told>> /\ feed' \subseteq feed
        /\ \A r \in feed : r.time >= clock - Retention => r \in feed'
    BY <1>5 DEF PruneChanges
  <2>2. ASSUME NEW r \in unseen', r.fate = "ahead"
        PROVE  r \in unseen /\ (r.time < clock - Retention => client.asked < r.time)
    <3>1. PICK o \in unseen :
            r = IF o.fate = "ahead" /\ o.time < clock - Retention /\ o.time <= client.asked
                THEN [o EXCEPT !.fate = "pruned"] ELSE o
      BY <1>5, <2>2 DEF PruneChanges
    <3>2. o \in Unseen
      BY DEF Types, TypeOK
    <3>3. ~(o.fate = "ahead" /\ o.time < clock - Retention /\ o.time <= client.asked)
      BY <2>2, <3>1, <3>2 DEF Unseen
    <3>4. r = o
      BY <3>1, <3>3
    <3> QED BY <1>0, <2>2, <3>3, <3>4
  <2>3. ASSUME NEW r \in unseen', r.fate = "ahead"
        PROVE  /\ client'.since < r.time /\ r.time <= told'
               /\ \/ [pkg |-> r.pkg, time |-> r.time] \in feed'
                  \/ r.time < clock' - Retention /\ client'.asked < r.time
    <3>1. r \in unseen /\ (r.time < clock - Retention => client.asked < r.time)
      BY <2>2, <2>3
    <3>2. /\ client.since < r.time /\ r.time <= told
          /\ \/ [pkg |-> r.pkg, time |-> r.time] \in feed
             \/ r.time < clock - Retention /\ client.asked < r.time
      BY <2>3, <3>1 DEF Heard
    <3>3. CASE r.time >= clock - Retention
      BY <1>0, <2>1, <3>1, <3>2, <3>3
    <3>4. CASE r.time < clock - Retention
      BY <2>1, <3>1, <3>2, <3>4
    <3> QED BY <1>0, <3>1, <3>3, <3>4
  <2> QED BY <1>0, <2>1, <2>3 DEF Heard
<1>6. CASE PollResync
  <2>1. UNCHANGED <<clock, feed>> /\ told' = clock /\ unseen' = {}
        /\ client' = [since |-> clock, asked |-> 0]
    BY <1>6 DEF PollResync
  <2> QED BY <1>0, <2>1 DEF Heard
<1>7. CASE PollCheckpoint
  <2>1. /\ UNCHANGED <<clock, feed, unseen>> /\ clock - Retention <= client.since
        /\ client' = [client EXCEPT !.asked = Checkpoint]
        /\ told' = IF feed = {} THEN clock ELSE told
    BY <1>7 DEF PollCheckpoint
  <2>2. client'.since = client.since /\ client'.asked = Checkpoint
    BY <2>1 DEF Types, TypeOK
  <2>3. told <= told' /\ told' \in Nat
    BY <1>0, <2>1
  <2>4. Checkpoint <= told'
    BY <1>0, <2>1, CheckpointIs DEF Heard
  <2>5. ASSUME NEW r \in unseen, r.fate = "ahead"
        PROVE  [pkg |-> r.pkg, time |-> r.time] \in feed
    BY <1>0, <2>1, <2>5 DEF Heard
  <2> QED BY <1>0, <2>1, <2>2, <2>3, <2>4, <2>5 DEF Heard
<1>8. CASE PollRows
  <2> DEFINE answer == {r \in feed : client.since < r.time /\ r.time <= client.asked}
  <2>1. /\ UNCHANGED <<clock, feed, told>> /\ client' = [since |-> client.asked, asked |-> 0]
        /\ unseen' = {r \in unseen : \A a \in answer : a.pkg = r.pkg => a.time < r.time}
    BY <1>8 DEF PollRows
  <2>2. ASSUME NEW r \in unseen', r.fate = "ahead" PROVE client.asked < r.time
    <3>1. r \in unseen /\ \A a \in answer : a.pkg = r.pkg => a.time < r.time
      BY <2>1, <2>2
    <3> DEFINE a == [pkg |-> r.pkg, time |-> r.time]
    <3>2. CASE a \in feed
      <4>1. a \notin answer
        BY <1>0, <3>1
      <4>2. client.since < r.time
        BY <2>2, <3>1 DEF Heard
      <4> QED BY <1>0, <3>1, <3>2, <4>1, <4>2
    <3>3. CASE a \notin feed
      BY <2>2, <3>1, <3>3 DEF Heard
    <3> QED BY <3>2, <3>3
  <2>3. \A r \in unseen' : r \in unseen
    BY <2>1
  <2> HIDE DEF answer
  <2>4. client'.since = client.asked /\ client'.asked = 0
    BY <2>1
  <2>5. ASSUME NEW r \in unseen', r.fate = "ahead"
        PROVE  /\ client'.since < r.time /\ r.time <= told'
               /\ \/ [pkg |-> r.pkg, time |-> r.time] \in feed'
                  \/ r.time < clock' - Retention /\ client'.asked < r.time
    <3>1. client.asked < r.time /\ r \in unseen
      BY <2>2, <2>3, <2>5
    <3>2. 0 < r.time
      BY <1>0, <3>1
    <3> QED BY <2>1, <2>4, <2>5, <3>1, <3>2 DEF Heard
  <2> QED BY <1>0, <2>1, <2>4, <2>5 DEF Heard
<1>9. CASE UNCHANGED vars
  BY <1>2, <1>9 DEF vars
<1>10. CASE Next
  BY <1>1, <1>2, <1>3, <1>4, <1>5, <1>6, <1>7, <1>8, <1>10 DEF Next, Build, history, SetActive,
     StartUpdate, StoreRow, TakeSnapshot, ReadRows, FinishBuild, Deploy
<1> QED BY <1>9, <1>10

\* A client is moved past a change it has not heard of only when the rows of its build
\* were not written, were written behind what clients had been told, or went between
\* the two queries of an answer: in every interleaving of pipelines, builds by hand,
\* pruning, failures and polls. (changes.go:53-82, build.go:94-106)
THEOREM ClientMissesNothing == Spec => []NothingMissed
<1>1. Types /\ Heard => NothingMissed
  <2> SUFFICES ASSUME Types, Heard, NEW r \in unseen, r.time <= client.since
               PROVE  r.fate \in {"failed", "behind", "pruned"}
    BY DEF NothingMissed
  <2>1. r.fate \in {"ahead", "behind", "failed", "pruned"} /\ r.time \in Nat /\ client.since \in Nat
    BY DEF Types, TypeOK, Unseen
  <2>2. r.fate = "ahead" => client.since < r.time
    BY DEF Heard
  <2>3. ~(client.since < r.time)
    BY <2>1
  <2> QED BY <2>1, <2>2, <2>3
<1> QED BY <1>1, HeardInit, HeardStep, TypesKept, PTL DEF Spec

=============================================================================
