-------------------------- MODULE PackageSyncProofs --------------------------
(* Proofs about PackageSync, for every set of packages, every batch size and *)
(* every number of upstream changes.                                         *)
EXTENDS PackageSync, TLAPS

-----------------------------------------------------------------------------
(* Helpers keep a table row a row.                                           *)

LEMMA RowOperators ==
  ASSUME NEW r \in Row
  PROVE  /\ Deactivate(r) \in Row
         /\ MarkPermanentlyClosed(r) \in Row
         /\ Reactivate(r) \in Row
         /\ \A a \in Age : Committed(r, a) \in Row
         /\ \A w \in Task : Upsert(r, w) \in Row
<1>1. \A a \in Age, s \in Row : Committed(s, a) \in Row
  BY DEF Committed, Row, Synced
<1>2. ASSUME NEW w \in Task PROVE Upsert(r, w) \in Row
  <2>1. Stored(r, w) \in Row
    <3>1. CASE w.synced = "now"
      BY <3>1 DEF Stored, Row, Task, Synced
    <3>2. CASE w.synced = "never"
      BY <3>2 DEF Stored, Row, Task, Synced
    <3>3. CASE w.synced \notin {"now", "never"}
      BY <3>3 DEF Stored, Row, Task, Synced
    <3> QED BY <3>1, <3>2, <3>3
  <2>2. w.bump # NoBump => w.bump \in Age
    BY DEF Task
  <2>3. w.bump # NoBump => [Stored(r, w) EXCEPT !.age = w.bump] \in Row
    BY <2>1, <2>2 DEF Row
  <2> QED BY <1>1, <2>1, <2>2, <2>3 DEF Upsert
<1>3. Deactivate(r) \in Row /\ MarkPermanentlyClosed(r) \in Row /\ Reactivate(r) \in Row
  BY DEF Deactivate, MarkPermanentlyClosed, Reactivate, Row, Synced
<1> QED BY <1>1, <1>2, <1>3

LEMMA UpstreamType ==
  ASSUME NEW p \in Packages, TypeOK, Upstream(p)
  PROVE  TypeOK'
<1> USE SyncAssumption
<1>1. ASSUME NEW t \in Release, NEW l \in {"read", "marked", "unread"}, Change(p, t, l)
      PROVE  TypeOK'
  BY <1>1 DEF TypeOK, Change
<1>2. ASSUME NEW from, NEW to \in {"open", "closed", "permanent"}, Relist(p, from, to)
      PROVE  TypeOK'
  BY <1>2 DEF TypeOK, Relist
<1>3. truth[p] \in Release /\ log[p] \in {"read", "marked", "unread"} /\ row[p] \in Row
  BY DEF TypeOK
<1>4. CASE CommitTag(p)
  <2>1. [truth[p] EXCEPT !.tag = @ + 1] \in Release
    BY <1>3 DEF Release
  <2> QED BY <1>1, <1>4, <2>1 DEF CommitTag
<1>5. CASE CommitRelease(p)
  <2>1. [tag |-> truth[p].tag + 1, pub |-> truth[p].tag + 1] \in Release
    BY <1>3 DEF Release
  <2> QED BY <1>1, <1>5, <2>1 DEF CommitRelease
<1>6. CASE CommitStable(p) \/ ApproveTheme(p)
  <2>1. [truth[p] EXCEPT !.pub = truth[p].tag] \in Release
    BY <1>3 DEF Release
  <2> QED BY <1>1, <1>3, <1>6, <2>1 DEF CommitStable, ApproveTheme
<1>7. CASE CommitOther(p)
  BY <1>1, <1>3, <1>7 DEF CommitOther
<1>8. CASE RefreshApi(p)
  BY <1>8 DEF RefreshApi, TypeOK
<1>9. CASE GrowOld(p)
  <2>1. [row[p] EXCEPT !.age = @ + 1] \in Row
    BY <1>3, <1>9 DEF GrowOld, Row, Age
  <2> QED BY <1>9, <2>1 DEF GrowOld, TypeOK, upstream
<1>10. CASE Close(p) \/ Reopen(p) \/ ClosePermanently(p)
  BY <1>2, <1>10 DEF Close, Reopen, ClosePermanently
<1> QED BY <1>4, <1>5, <1>6, <1>7, <1>8, <1>9, <1>10 DEF Upstream

LEMMA DiscoverType ==
  ASSUME TypeOK, Discover
  PROVE  TypeOK'
<1>1. CASE StartDiscover \/ SeedsDone \/ SaveRevision \/ LogFailed \/ EndDiscover
  BY <1>1 DEF TypeOK, StartDiscover, SeedsDone, SaveRevision, LogFailed, EndDiscover,
              Goto, Unmark, upstream
<1>2. ASSUME NEW S \in SUBSET Packages, ListShells(S) PROVE TypeOK'
  <2>1. Shell \in Row
    BY DEF Shell, Row, Synced, Age
  <2> QED BY <1>2, <2>1 DEF ListShells, Goto, TypeOK, upstream
<1>3. ASSUME NEW S \in SUBSET Packages, MarkPackagesChanged(S) PROVE TypeOK'
  <2>1. 0 \in Age /\ \A p \in Packages : row[p] \in Row
    BY DEF Age, TypeOK
  <2>2. \A p \in Packages : Committed(row[p], 0) \in Row
    BY <2>1, RowOperators
  <2> QED BY <1>3, <2>2 DEF MarkPackagesChanged, TypeOK, upstream
<1>4. ASSUME NEW p \in Packages, SeedShell(p) PROVE TypeOK'
  <2>1. row[p] \in Row /\ row[p].age \in Age
    BY DEF TypeOK, Row
  <2>2. 0 .. row[p].age \subseteq Age
    BY <2>1 DEF Age
  <2>3. \A a \in Age : [Shell EXCEPT !.age = a] \in Row /\ Committed(row[p], a) \in Row
    BY <2>1, RowOperators DEF Shell, Row, Synced
  <2>4. PICK r \in Row : row' = [row EXCEPT ![p] = r]
    BY <1>4, <2>2, <2>3 DEF SeedShell
  <2> QED BY <1>4, <2>4 DEF SeedShell, TypeOK, upstream
<1> QED BY <1>1, <1>2, <1>3, <1>4 DEF Discover

LEMMA UpdateType ==
  ASSUME TypeOK, Update
  PROVE  TypeOK'
<1>1. NoTask \in Task
  BY DEF NoTask, Task, Synced
<1>2. ASSUME NEW S \in SUBSET Packages, Queue(S) PROVE task' \in [Packages -> Task]
  <2>1. \A p \in Packages : row[p].ver \in Nat /\ row[p].synced \in Synced
    BY DEF TypeOK, Row
  <2>2. \A p \in Packages :
          [NoTask EXCEPT !.step = "queued", !.ver = row[p].ver, !.synced = row[p].synced]
            \in Task
    BY <2>1 DEF NoTask, Task
  <2> QED BY <1>1, <1>2, <2>2 DEF Queue
<1>3. CASE StartUpdate
  <2>1. NeedingUpdate \in SUBSET Packages
    BY DEF NeedingUpdate, Polled
  <2> QED BY <1>2, <1>3, <2>1 DEF StartUpdate, TypeOK, upstream
<1>4. ASSUME NEW S \in SUBSET Packages, ManualUpdate(S) PROVE TypeOK'
  BY <1>2, <1>4 DEF ManualUpdate, Goto, TypeOK, upstream
<1>5. CASE FinishUpdate
  BY <1>5 DEF FinishUpdate, Goto, TypeOK, upstream
<1>6. ASSUME NEW S \in SUBSET Packages, NEW W \in SUBSET S, Flush(S, W) PROVE TypeOK'
  <2>1. \A p \in Packages : Upsert(row[p], task[p]) \in Row
    BY RowOperators DEF TypeOK
  <2> QED BY <1>1, <1>6, <2>1 DEF Flush, TypeOK, upstream
<1>7. ASSUME NEW p \in Packages, FetchClosed(p) PROVE TypeOK'
  <2>1. task[p] \in Task
    BY DEF TypeOK
  <2>2. \A s \in {"tombstone", "deactivate"} : [task[p] EXCEPT !.step = s] \in Task
    BY <2>1 DEF Task
  <2>3. PICK s \in {"tombstone", "deactivate"} : task' = [task EXCEPT ![p].step = s]
    BY <1>7 DEF FetchClosed
  <2> QED BY <1>7, <2>2, <2>3 DEF FetchClosed, TypeOK, upstream
<1>8. ASSUME NEW p \in Packages, StoreClosed(p) PROVE TypeOK'
  <2>1. Deactivate(row[p]) \in Row /\ MarkPermanentlyClosed(row[p]) \in Row
    BY RowOperators DEF TypeOK
  <2> QED BY <1>1, <1>8, <2>1 DEF StoreClosed, TypeOK, upstream
<1>9. ASSUME NEW p \in Packages, TaskFailed(p) PROVE TypeOK'
  BY <1>1, <1>9 DEF TaskFailed, TypeOK, upstream
<1>10. ASSUME NEW p \in Packages, NEW bump \in Age \cup {NoBump}, FetchOk(p, bump)
       PROVE TypeOK'
  <2>1. api[p].pub \in Nat /\ task[p].synced \in Synced \cup {"now"}
    BY DEF TypeOK, Release, Task
  <2>2. [step |-> "write", ver |-> api[p].pub, bump |-> bump,
         synced |-> IF Retry(p) THEN task[p].synced ELSE "now"] \in Task
    BY <2>1 DEF Task
  <2> QED BY <1>10, <2>2 DEF FetchOk, TypeOK, upstream
<1> QED BY <1>3, <1>4, <1>5, <1>6, <1>7, <1>8, <1>9, <1>10 DEF Update

LEMMA OtherType ==
  ASSUME TypeOK, Crash \/ CheckStatus
  PROVE  TypeOK'
<1>1. CASE Crash
  <2>1. NoTask \in Task
    BY DEF NoTask, Task, Synced
  <2> QED BY <1>1, <2>1 DEF Crash, Unmark, TypeOK, upstream
<1>2. CASE StartCheck
  <2>1. \A p \in Polled : p \in Packages /\ row[p].status \in {"active", "inactive"}
    BY DEF Polled, Known, TypeOK, Row
  <2> QED BY <1>2, <2>1 DEF StartCheck, TypeOK, upstream
<1>3. ASSUME NEW p \in Packages, CheckFetch(p) PROVE TypeOK'
  <2> DEFINE c == CASE listed[p] = "permanent" -> "tombstone"
                    [] listed[p] = "closed" /\ check[p] = "active" -> "deactivate"
                    [] listed[p] = "open" /\ check[p] = "inactive" -> "reactivate"
                    [] OTHER -> "none"
  <2>1. c \in {"none", "deactivate", "tombstone", "reactivate"}
    OBVIOUS
  <2>2. check' = [check EXCEPT ![p] = c] /\ UNCHANGED <<upstream, log, row, phase, task>>
    BY <1>3 DEF CheckFetch
  <2> HIDE DEF c
  <2> QED BY <2>1, <2>2 DEF TypeOK, upstream
<1>4. ASSUME NEW p \in Packages, CheckStore(p) PROVE TypeOK'
  <2>1. /\ Deactivate(row[p]) \in Row /\ MarkPermanentlyClosed(row[p]) \in Row
        /\ Reactivate(row[p]) \in Row
    BY RowOperators DEF TypeOK
  <2> QED BY <1>4, <2>1 DEF CheckStore, TypeOK, upstream
<1>5. ASSUME NEW S \in SUBSET Packages, CheckFailed(S) PROVE TypeOK'
  BY <1>5 DEF CheckFailed, TypeOK, upstream
<1> QED BY <1>1, <1>2, <1>3, <1>4, <1>5 DEF CheckStatus

\* The tables, the tasks of an update and the snapshot of a status check hold
\* the values their columns and structs allow, whatever the interleaving.
THEOREM TypeCorrect == Spec => []TypeOK
<1>1. Init => TypeOK
  BY SyncAssumption DEF Init, TypeOK, Release, Row, Synced, Age, Task, NoTask, NoBump
<1>2. TypeOK /\ [Next]_vars => TypeOK'
  <2>1. TypeOK /\ UNCHANGED vars => TypeOK'
    BY DEF TypeOK, vars
  <2>2. TypeOK /\ Next => TypeOK'
    BY UpstreamType, DiscoverType, UpdateType, OtherType DEF Next
  <2> QED BY <2>1, <2>2
<1> QED BY <1>1, <1>2, PTL DEF Spec

-----------------------------------------------------------------------------
(* The lock discipline.                                                      *)

LEMMA LockInvStep ==
  ASSUME TypeOK, LockInv, Next
  PROVE  LockInv'
<1> USE DEF LockInv, Dirty, upstream
<1>0. \A p \in Packages : row[p] \in Row /\ log[p] \in {"read", "marked", "unread"}
  BY DEF TypeOK
<1>1. ASSUME NEW p \in Packages, Upstream(p) PROVE LockInv'
  <2>1. ASSUME NEW t, NEW l, l # "marked" \/ l = log[p], Change(p, t, l) PROVE LockInv'
    BY <2>1 DEF Change, TypeOK
  <2>2. CASE CommitTag(p) \/ CommitRelease(p) \/ CommitStable(p) \/ CommitOther(p)
             \/ ApproveTheme(p)
    BY <2>1, <2>2 DEF CommitTag, CommitRelease, CommitStable, CommitOther, ApproveTheme
  <2>3. CASE RefreshApi(p)
    BY <2>3 DEF RefreshApi
  <2>4. CASE GrowOld(p)
    BY <1>0, <2>4 DEF GrowOld, TypeOK, Row
  <2>5. CASE Close(p) \/ Reopen(p) \/ ClosePermanently(p)
    BY <2>5 DEF Close, Reopen, ClosePermanently, Relist
  <2> QED BY <1>1, <2>2, <2>3, <2>4, <2>5 DEF Upstream
<1>2. CASE Discover
  <2>1. CASE StartDiscover \/ SeedsDone \/ EndDiscover
    BY <2>1 DEF StartDiscover, SeedsDone, EndDiscover, Goto
  <2>2. CASE SaveRevision \/ LogFailed
    BY <2>2 DEF SaveRevision, LogFailed, Unmark, Goto
  <2>3. ASSUME NEW S \in SUBSET Packages, ListShells(S) PROVE LockInv'
    BY <2>3 DEF ListShells, Goto
  <2>4. ASSUME NEW S \in SUBSET Packages, MarkPackagesChanged(S) PROVE LockInv'
    <3>1. \A p \in Packages : Committed(row[p], 0).synced # "after"
      BY <1>0 DEF Committed, Row
    <3> QED BY <1>0, <2>4, <3>1 DEF MarkPackagesChanged
  <2>5. ASSUME NEW p \in Packages, SeedShell(p) PROVE LockInv'
    BY <2>5 DEF SeedShell
  <2> QED BY <1>2, <2>1, <2>2, <2>3, <2>4, <2>5 DEF Discover
<1>3. CASE Update
  <2>1. CASE StartUpdate
    BY <2>1 DEF StartUpdate
  <2>2. ASSUME NEW S \in SUBSET Packages, ManualUpdate(S) PROVE LockInv'
    BY <2>2 DEF ManualUpdate, Goto
  <2>3. CASE FinishUpdate
    BY <2>3 DEF FinishUpdate, Goto, Written, Unanswered
  <2>4. ASSUME phase = "update", UNCHANGED <<phase, log>> PROVE LockInv'
    BY <2>4
  <2>5. ASSUME NEW S \in SUBSET Packages, NEW W \in SUBSET S, Flush(S, W) PROVE LockInv'
    BY <2>4, <2>5 DEF Flush, Written
  <2>6. ASSUME NEW p \in Packages,
               FetchClosed(p) \/ StoreClosed(p) \/ TaskFailed(p)
                 \/ \E bump \in Age \cup {NoBump} : FetchOk(p, bump)
        PROVE LockInv'
    BY <2>4, <2>6 DEF FetchClosed, StoreClosed, TaskFailed, FetchOk
  <2> QED BY <1>3, <2>1, <2>2, <2>3, <2>5, <2>6 DEF Update
<1>4. CASE Crash
  BY <1>4 DEF Crash, Unmark, NoTask
<1>5. CASE CheckStatus
  <2>1. CASE StartCheck
    BY <2>1 DEF StartCheck
  <2>2. ASSUME NEW p \in Packages, CheckFetch(p) PROVE LockInv'
    BY <2>2 DEF CheckFetch
  <2>3. ASSUME NEW p \in Packages, CheckStore(p) PROVE LockInv'
    BY <1>0, <2>3 DEF CheckStore, Deactivate, MarkPermanentlyClosed, Reactivate, TypeOK, Row
  <2>4. ASSUME NEW S \in SUBSET Packages, CheckFailed(S) PROVE LockInv'
    BY <2>4 DEF CheckFailed
  <2> QED BY <1>5, <2>1, <2>2, <2>3, <2>4 DEF CheckStatus
<1> QED BY <1>1, <1>2, <1>3, <1>4, <1>5 DEF Next

\* Discover's marks and update's writes never overlap, and a marked row stays
\* dirty until its revision is saved.
THEOREM LockDiscipline == Spec => []LockInv
<1>1. Init => LockInv
  BY DEF Init, LockInv, NoTask
<1>2. TypeOK /\ LockInv /\ [Next]_vars => LockInv'
  <2>1. LockInv /\ UNCHANGED vars => LockInv'
    BY DEF LockInv, Dirty, vars
  <2> QED BY <2>1, LockInvStep
<1> QED BY <1>1, <1>2, TypeCorrect, PTL DEF Spec

\* The stored SVN revision never moves past a commit on a served package whose
\* row is clean.
THEOREM RevisionSafe == Spec => RevisionPassesOnlyDirtyRows
<1>1. LockInv => [SaveStep]_vars
  BY DEF LockInv, SaveStep
<1> QED BY <1>1, LockDiscipline, PTL DEF RevisionPassesOnlyDirtyRows

-----------------------------------------------------------------------------
(* No package is stranded when the API is fresh and releases need no review: *)
(* closures, reopenings, crashes and unlocked status checks included.        *)

LEMMA FreshStep ==
  ASSUME Lag = {}, Themes = {}, TypeOK, LockInv, FreshInv, Next
  PROVE  FreshInv'
<1> USE DEF FreshInv, NoStrandedRelease, Dirty, upstream
<1>0. \A p \in Packages :
        row[p] \in Row /\ task[p] \in Task /\ log[p] \in {"read", "marked", "unread"}
  BY DEF TypeOK
<1>1. ASSUME NEW p \in Packages, Upstream(p) PROVE FreshInv'
  <2>1. ASSUME NEW t, Change(p, t, "unread") PROVE FreshInv'
    BY <2>1 DEF Change, TypeOK
  <2>2. CASE CommitTag(p) \/ CommitRelease(p) \/ CommitStable(p) \/ CommitOther(p)
    BY <2>1, <2>2 DEF CommitTag, CommitRelease, CommitStable, CommitOther
  <2>3. ~ApproveTheme(p) /\ ~RefreshApi(p)
    BY DEF ApproveTheme, RefreshApi
  <2>4. CASE GrowOld(p)
    BY <1>0, <2>4 DEF GrowOld, TypeOK, Row
  <2>5. CASE Close(p) \/ Reopen(p) \/ ClosePermanently(p)
    BY <2>5 DEF Close, Reopen, ClosePermanently, Relist
  <2> QED BY <1>1, <2>2, <2>3, <2>4, <2>5 DEF Upstream
<1>2. CASE Discover
  <2>1. CASE StartDiscover \/ SeedsDone \/ EndDiscover
    BY <2>1 DEF StartDiscover, SeedsDone, EndDiscover, Goto
  <2>2. CASE SaveRevision
    BY <2>2 DEF SaveRevision, Goto, LockInv
  <2>3. CASE LogFailed
    BY <2>3 DEF LogFailed, Unmark, Goto
  <2>4. ASSUME NEW S \in SUBSET Packages, ListShells(S) PROVE FreshInv'
    BY <1>0, <2>4 DEF ListShells, Shell, Goto
  <2>5. ASSUME NEW S \in SUBSET Packages, MarkPackagesChanged(S) PROVE FreshInv'
    <3>1. phase # "update"
      BY <2>5 DEF MarkPackagesChanged
    <3>2. \A p \in Packages : task[p].step # "write"
      BY <3>1 DEF LockInv
    <3>3. \A p \in Packages : Committed(row[p], 0).synced # "after"
      BY <1>0 DEF Committed, Row
    <3> QED BY <1>0, <2>5, <3>2, <3>3 DEF MarkPackagesChanged
  <2>6. ASSUME NEW p \in Packages, SeedShell(p) PROVE FreshInv'
    <3>1. \A a \in Age : [Shell EXCEPT !.age = a].synced # "after"
                         /\ Committed(row[p], a).synced # "after"
      BY <1>0 DEF Committed, Row, Shell
    <3>2. 0 .. row[p].age \subseteq Age
      BY <1>0 DEF Row, Age
    <3>3. PICK r : row' = [row EXCEPT ![p] = r] /\ r.synced # "after"
      BY <2>6, <3>1, <3>2 DEF SeedShell
    <3> QED BY <2>6, <3>3 DEF SeedShell, TypeOK
  <2> QED BY <1>2, <2>1, <2>2, <2>3, <2>4, <2>5, <2>6 DEF Discover
<1>3. CASE Update
  <2>1. ASSUME NEW S \in SUBSET Packages, Queue(S), UNCHANGED <<upstream, log, row>>
        PROVE FreshInv'
    BY <1>0, <2>1 DEF Queue, NoTask
  <2>2. CASE StartUpdate
    <3>1. NeedingUpdate \in SUBSET Packages
      BY DEF NeedingUpdate, Polled
    <3> QED BY <2>1, <2>2, <3>1 DEF StartUpdate
  <2>3. ASSUME NEW S \in SUBSET Packages, ManualUpdate(S) PROVE FreshInv'
    BY <2>1, <2>3 DEF ManualUpdate
  <2>4. CASE FinishUpdate
    BY <2>4 DEF FinishUpdate
  <2>5. ASSUME NEW S \in SUBSET Packages, NEW W \in SUBSET S, Flush(S, W) PROVE FreshInv'
    <3>1. \A p \in Packages : Upsert(row[p], task[p]).ver = task[p].ver
      BY <1>0 DEF Upsert, Stored, Committed, Row
    <3>2. \A p \in W : task[p].ver = truth[p].pub \/ log[p] = "unread"
      BY <2>5 DEF Flush, Written
    <3> QED BY <1>0, <2>5, <3>1, <3>2 DEF Flush, NoTask
  <2>6. ASSUME NEW p \in Packages, FetchClosed(p) \/ TaskFailed(p) PROVE FreshInv'
    <3>1. task'[p].step # "write" /\ \A q \in Packages \ {p} : task'[q] = task[q]
      <4>1. CASE FetchClosed(p)
        <5>1. PICK s \in {"tombstone", "deactivate"} : task' = [task EXCEPT ![p].step = s]
          BY <4>1 DEF FetchClosed
        <5>2. [task[p] EXCEPT !.step = s].step = s
          BY <1>0 DEF Task
        <5> QED BY <5>1, <5>2 DEF TypeOK
      <4>2. CASE TaskFailed(p)
        BY <4>2 DEF TaskFailed, NoTask, TypeOK
      <4> QED BY <2>6, <4>1, <4>2
    <3>2. UNCHANGED <<upstream, log, row>>
      BY <2>6 DEF FetchClosed, TaskFailed
    <3> QED BY <3>1, <3>2
  <2>7. ASSUME NEW p \in Packages, StoreClosed(p) PROVE FreshInv'
    BY <1>0, <2>7 DEF StoreClosed, NoTask, Deactivate, MarkPermanentlyClosed, Row, TypeOK
  <2>8. ASSUME NEW p \in Packages, NEW bump \in Age \cup {NoBump}, FetchOk(p, bump)
        PROVE FreshInv'
    BY <1>0, <2>8 DEF FetchOk, TypeOK
  <2> QED BY <1>3, <2>2, <2>3, <2>4, <2>5, <2>6, <2>7, <2>8 DEF Update
<1>4. CASE Crash
  BY <1>4 DEF Crash, Unmark, NoTask
<1>5. CASE CheckStatus
  <2>1. CASE StartCheck
    BY <2>1 DEF StartCheck
  <2>2. ASSUME NEW p \in Packages, CheckFetch(p) PROVE FreshInv'
    BY <2>2 DEF CheckFetch
  <2>3. ASSUME NEW p \in Packages, CheckStore(p) PROVE FreshInv'
    BY <1>0, <2>3 DEF CheckStore, Deactivate, MarkPermanentlyClosed, Reactivate, TypeOK, Row
  <2>4. ASSUME NEW S \in SUBSET Packages, CheckFailed(S) PROVE FreshInv'
    BY <2>4 DEF CheckFailed
  <2> QED BY <1>5, <2>1, <2>2, <2>3, <2>4 DEF CheckStatus
<1> QED BY <1>1, <1>2, <1>3, <1>4, <1>5 DEF Next

\* With a fresh API and no review queue no served package is ever stranded at
\* an old release, whatever check-status, closures and crashes do meanwhile.
THEOREM NoStrandedFresh ==
  ASSUME Lag = {}, Themes = {}
  PROVE  Spec => []NoStrandedRelease
<1>1. Init => FreshInv
  BY DEF Init, FreshInv, NoStrandedRelease, NoTask
<1>2. TypeOK /\ LockInv /\ FreshInv /\ [Next]_vars => FreshInv'
  <2>1. FreshInv /\ UNCHANGED vars => FreshInv'
    BY DEF FreshInv, NoStrandedRelease, Dirty, vars
  <2> QED BY <2>1, FreshStep
<1>3. FreshInv => NoStrandedRelease
  BY DEF FreshInv
<1> QED BY <1>1, <1>2, <1>3, TypeCorrect, LockDiscipline, PTL DEF Spec

-----------------------------------------------------------------------------
(* No package is stranded when the API answers from its cache and themes     *)
(* wait for review, provided releases are paced and nothing is closed.       *)

PacedOf(p) ==
  /\ NothingClosed(p) /\ OneBehind(p) /\ TaskOfRow(p)
  /\ InWindow(p) /\ CleansWithLatest(p) /\ BehindIsDirty(p)

\* The state of one package.
Of(p) == <<truth[p], api[p], listed[p], log[p], row[p], task[p], check[p]>>

LEMMA Untouched ==
  ASSUME NEW p, PacedOf(p), UNCHANGED Of(p)
  PROVE  PacedOf(p)'
BY DEF Of, PacedOf, NothingClosed, OneBehind, TaskOfRow, InWindow, CleansWithLatest,
       BehindIsDirty, Known, Dirty

\* The log may take commits back, and an update may lose its task.
LEMMA TakenBack ==
  ASSUME NEW p, PacedOf(p), UNCHANGED <<truth[p], api[p], listed[p], row[p], check[p]>>,
         log'[p] # "unread" => log[p] # "unread",
         task'[p] = task[p] \/ task'[p] = NoTask
  PROVE  PacedOf(p)'
BY DEF PacedOf, NothingClosed, OneBehind, TaskOfRow, InWindow, CleansWithLatest,
       BehindIsDirty, Known, Dirty, NoTask

\* The values one package has, for the prover.
LEMMA Values ==
  ASSUME TypeOK, NEW p \in Packages
  PROVE  /\ truth[p] \in Release /\ truth[p].tag \in Nat /\ truth[p].pub \in Nat
         /\ api[p].tag \in Nat /\ api[p].pub \in Nat
         /\ row[p] \in Row /\ row[p].ver \in Nat /\ row[p].age \in Age
         /\ row[p].synced \in Synced
         /\ task[p] \in Task /\ task[p].ver \in Nat /\ task[p].bump \in Age \cup {NoBump}
         /\ task[p].synced \in Synced \cup {"now"}
         /\ log[p] \in {"read", "marked", "unread"}
BY DEF TypeOK, Release, Row, Task

\* Committed makes a row dirty and moves it into window a.
LEMMA CommittedIs ==
  ASSUME NEW r \in Row, NEW a
  PROVE  /\ Committed(r, a).synced # "after" /\ Committed(r, a).age = a
         /\ Committed(r, a).status = r.status /\ Committed(r, a).ver = r.ver
         /\ Committed(r, a).tombstone = r.tombstone
BY DEF Committed, Row

\* What the ON CONFLICT clause leaves in the row.
LEMMA UpsertIs ==
  ASSUME NEW r \in Row, NEW w \in Task
  PROVE  /\ Upsert(r, w).status = "active" /\ Upsert(r, w).ver = w.ver
         /\ Upsert(r, w).tombstone = r.tombstone
         /\ Upsert(r, w).age = IF w.bump = NoBump THEN r.age ELSE w.bump
         /\ w.synced \in {"never", "before"} /\ r.synced # "after"
              => Upsert(r, w).synced # "after"
<1>1. /\ Stored(r, w).status = "active" /\ Stored(r, w).ver = w.ver
      /\ Stored(r, w).tombstone = r.tombstone /\ Stored(r, w).age = r.age
      /\ w.synced \in {"never", "before"} /\ r.synced # "after"
           => Stored(r, w).synced # "after"
  BY DEF Stored, Row
<1>2. Stored(r, w) \in Row
  <2>1. CASE w.synced = "now"
    BY <2>1 DEF Stored, Row, Task, Synced
  <2>2. CASE w.synced = "never"
    BY <2>2 DEF Stored, Row, Task, Synced
  <2>3. CASE w.synced \notin {"now", "never"}
    BY <2>3 DEF Stored, Row, Task, Synced
  <2> QED BY <2>1, <2>2, <2>3
<1>3. CASE w.bump = NoBump
  BY <1>1, <1>3 DEF Upsert
<1>4. CASE w.bump # NoBump /\ w.synced = "now"
  BY <1>1, <1>2, <1>4 DEF Upsert, Row
<1>5. CASE w.bump # NoBump /\ w.synced # "now"
  BY <1>1, <1>2, <1>5, CommittedIs DEF Upsert
<1> QED BY <1>3, <1>4, <1>5

LEMMA PacedUpstream ==
  ASSUME Paced = Packages, Closures = {}, Permanent = {}, TypeOK, PacedInv, NEW p \in Packages, Upstream(p)
  PROVE  PacedInv'
<1>0. \A q \in Packages : PacedOf(q)
  BY DEF PacedInv, PacedOf
<1>1. SUFFICES PacedOf(p)' /\ \A q \in Packages \ {p} : UNCHANGED Of(q)
  BY <1>0, Untouched DEF PacedInv, PacedOf
<1>2. PacedOf(p) /\ \A q \in Packages : q \in Packages
  BY <1>0
<1> USE DEF PacedOf, NothingClosed, OneBehind, TaskOfRow, InWindow, CleansWithLatest,
            BehindIsDirty, Known, Dirty
<1>3. ASSUME NEW t \in Release, NEW l, Change(p, t, l)
      PROVE  /\ truth'[p] = t /\ api'[p] \in {api[p], t} /\ log'[p] = l
             /\ UNCHANGED <<listed[p], row[p], task[p], check[p]>>
             /\ \A q \in Packages \ {p} : UNCHANGED Of(q)
  BY <1>3 DEF Change, TypeOK, Of
<1>4. ASSUME NEW t \in Release, Change(p, t, "unread"),
             \/ t = truth[p]
             \/ PaceOK(p) /\ t.pub \in {truth[p].pub, t.tag} /\ t.tag >= truth[p].tag
      PROVE  PacedOf(p)' /\ \A q \in Packages \ {p} : UNCHANGED Of(q)
  <2>1. t.tag \in Nat /\ t.pub \in Nat
    BY DEF Release
  <2>2. /\ truth'[p] = t /\ api'[p] \in {api[p], t} /\ log'[p] = "unread"
        /\ UNCHANGED <<listed[p], row[p], task[p], check[p]>>
        /\ \A q \in Packages \ {p} : UNCHANGED Of(q)
    BY <1>3, <1>4
  <2>3. CASE t = truth[p]
    BY <1>2, <2>2, <2>3, Values
  <2>4. CASE PaceOK(p) /\ t.pub \in {truth[p].pub, t.tag} /\ t.tag >= truth[p].tag
    <3>1. row[p].ver = truth[p].pub /\ api[p].pub = truth[p].pub /\ row[p].ver # 0
      BY <1>2, <2>4, Values DEF PaceOK
    <3>2. t.pub \in 1 .. t.tag /\ t.pub >= truth[p].pub
      BY <1>2, <2>1, <2>4, Values
    <3>3. NothingClosed(p)'
      BY <1>2, <2>2
    <3>4. OneBehind(p)'
      BY <1>2, <2>1, <2>2, <2>4, <3>1, <3>2, Values
    <3>5. TaskOfRow(p)'
      BY <1>2, <2>1, <2>2, <3>1, <3>2, Values
    <3> QED BY <2>2, <3>3, <3>4, <3>5
  <2> QED BY <1>4, <2>3, <2>4
<1>5. CASE CommitTag(p)
  <2> DEFINE t == [truth[p] EXCEPT !.tag = @ + 1]
  <2>1. t \in Release /\ t.tag = truth[p].tag + 1 /\ t.pub = truth[p].pub
    BY Values DEF Release
  <2>2. PaceOK(p) /\ Change(p, t, "unread")
    BY <1>5 DEF CommitTag
  <2> HIDE DEF t
  <2>3. t.pub \in {truth[p].pub, t.tag} /\ t.tag >= truth[p].tag
    BY <2>1, Values
  <2> QED BY <1>4, <2>1, <2>2, <2>3
<1>6. CASE CommitRelease(p)
  <2> DEFINE t == [tag |-> truth[p].tag + 1, pub |-> truth[p].tag + 1]
  <2>1. t \in Release /\ t.tag = truth[p].tag + 1 /\ t.pub = t.tag
    BY Values DEF Release
  <2>2. PaceOK(p) /\ Change(p, t, "unread")
    BY <1>6 DEF CommitRelease
  <2> HIDE DEF t
  <2>3. t.pub \in {truth[p].pub, t.tag} /\ t.tag >= truth[p].tag
    BY <2>1, Values
  <2> QED BY <1>4, <2>1, <2>2, <2>3
<1>7. [truth[p] EXCEPT !.pub = truth[p].tag] \in Release
      /\ [truth[p] EXCEPT !.pub = truth[p].tag].tag = truth[p].tag
      /\ [truth[p] EXCEPT !.pub = truth[p].tag].pub = truth[p].tag
  BY Values DEF Release
<1>8. CASE CommitStable(p)
  <2> DEFINE t == [truth[p] EXCEPT !.pub = truth[p].tag]
  <2>1. PaceOK(p) /\ Change(p, t, "unread")
    BY <1>8 DEF CommitStable
  <2>2. t \in Release /\ t.tag = truth[p].tag /\ t.pub = truth[p].tag
    BY <1>7
  <2> HIDE DEF t
  <2>3. t.pub \in {truth[p].pub, t.tag} /\ t.tag >= truth[p].tag
    BY <2>2, Values
  <2> QED BY <1>4, <2>1, <2>2, <2>3
<1>9. CASE CommitOther(p)
  BY <1>4, <1>9, Values DEF CommitOther
<1>10. CASE ApproveTheme(p)
  <2> DEFINE t == [truth[p] EXCEPT !.pub = truth[p].tag]
  <2>1. /\ truth'[p] = t /\ api'[p] \in {api[p], t} /\ log'[p] = log[p]
        /\ UNCHANGED <<listed[p], row[p], task[p], check[p]>>
        /\ \A q \in Packages \ {p} : UNCHANGED Of(q)
    BY <1>3, <1>7, <1>10 DEF ApproveTheme
  <2>2. /\ t.tag = truth[p].tag /\ t.pub = truth[p].tag
        /\ p \in Themes /\ truth[p].pub < truth[p].tag
    BY <1>7, <1>10 DEF ApproveTheme
  <2> HIDE DEF t
  <2>3. row[p].ver = truth[p].pub /\ api[p].pub = truth[p].pub /\ row[p].ver # 0
    BY <1>2, <2>2, Values
  <2>4. NothingClosed(p)' /\ OneBehind(p)' /\ TaskOfRow(p)'
    BY <1>2, <2>1, <2>2, <2>3, Values
  <2>5. InWindow(p)'
    <3>1. CASE log[p] # "unread" /\ api'[p] # truth'[p]
      <4>1. api'[p] = api[p] /\ row[p].age < 2
        BY <1>2, <2>1, <2>2, <3>1
      <4>2. api[p] = truth[p] => api[p].pub < api[p].tag
        BY <2>2
      <4>3. row[p].age \in {0, 1}
        BY <4>1, Values DEF Age
      <4> QED BY <1>2, <2>1, <2>2, <4>1, <4>2, <4>3
    <3> QED BY <2>1, <2>2, <3>1, Values
  <2>6. CleansWithLatest(p)'
    BY <1>2, <2>1, <2>2, Values
  <2>7. BehindIsDirty(p)'
    BY <1>2, <2>1, <2>2
  <2> QED BY <2>1, <2>4, <2>5, <2>6, <2>7
<1>11. CASE RefreshApi(p)
  <2>1. /\ api'[p] = truth[p]
        /\ UNCHANGED <<truth[p], log[p], listed[p], row[p], task[p], check[p]>>
        /\ \A q \in Packages \ {p} : UNCHANGED Of(q)
    BY <1>11 DEF RefreshApi, TypeOK, Of
  <2> QED BY <1>2, <2>1, Values
<1>12. CASE GrowOld(p)
  <2> DEFINE r == [row[p] EXCEPT !.age = @ + 1]
  <2>1. /\ row'[p] = r /\ api[p] = truth[p] /\ row[p].age < 2
        /\ row[p].age = 1 /\ p \in Themes => truth[p].pub = truth[p].tag
        /\ UNCHANGED <<truth[p], api[p], log[p], listed[p], task[p], check[p]>>
        /\ \A q \in Packages \ {p} : UNCHANGED Of(q)
    BY <1>12 DEF GrowOld, TypeOK, Of, upstream
  <2>2. /\ r.age = row[p].age + 1 /\ r.status = row[p].status /\ r.ver = row[p].ver
        /\ r.tombstone = row[p].tombstone /\ r.synced = row[p].synced
    BY Values DEF Row
  <2> HIDE DEF r
  <2>3. NothingClosed(p)' /\ OneBehind(p)' /\ CleansWithLatest(p)' /\ BehindIsDirty(p)'
    BY <1>2, <2>1, <2>2
  <2>4. row[p].age \in {0, 1} /\ (task[p].bump \in {0, 1, 2} \/ task[p].bump = NoBump)
    BY <2>1, Values DEF Age
  <2>5. TaskOfRow(p)'
    BY <1>2, <2>1, <2>2, <2>4
  <2>6. InWindow(p)'
    BY <1>2, <2>1, <2>2, <2>4, Values
  <2> QED BY <2>1, <2>3, <2>5, <2>6
<1>13. ~Close(p) /\ ~Reopen(p) /\ ~ClosePermanently(p)
  BY <1>2 DEF Close, Reopen, ClosePermanently, Relist
<1> QED BY <1>4, <1>5, <1>6, <1>8, <1>9, <1>10, <1>11, <1>12, <1>13 DEF Upstream

LEMMA PacedDiscover ==
  ASSUME TypeOK, LockInv, PacedInv, Discover
  PROVE  PacedInv'
<1>0. \A q \in Packages : PacedOf(q)
  BY DEF PacedInv, PacedOf
<1> SUFFICES ASSUME NEW p \in Packages PROVE PacedOf(p)'
  BY DEF PacedInv, PacedOf
<1>1. PacedOf(p)
  BY <1>0
<1> USE DEF upstream
<1>2. phase # "update" => task[p].step = "none"
  BY DEF LockInv
<1>3. CASE StartDiscover \/ SeedsDone \/ EndDiscover
  BY <1>1, <1>3, TakenBack DEF StartDiscover, SeedsDone, EndDiscover
<1>4. CASE SaveRevision \/ LogFailed
  BY <1>1, <1>4, TakenBack DEF SaveRevision, LogFailed, Unmark
\* A row that the listing or a seed writes is clean of a release it does not have.
<1>5. ASSUME UNCHANGED <<truth[p], api[p], listed[p], log[p], task[p], check[p]>>,
             task[p].step = "none",
             \/ ~Known(p) /\ row'[p].status = "active"
             \/ row'[p].status = row[p].status /\ row'[p].age <= row[p].age
                /\ row'[p].age \in Age,
             row'[p].ver = row[p].ver, ~row'[p].tombstone, row'[p].synced # "after"
      PROVE  PacedOf(p)'
  <2> USE DEF PacedOf, NothingClosed, OneBehind, TaskOfRow, InWindow, CleansWithLatest,
              BehindIsDirty, Known, Dirty
  <2>1. NothingClosed(p)' /\ OneBehind(p)' /\ TaskOfRow(p)' /\ CleansWithLatest(p)'
          /\ BehindIsDirty(p)'
    BY <1>1, <1>5
  <2>2. CASE ~Known(p)
    <3>1. api[p] = truth[p] /\ truth[p].pub = truth[p].tag
      BY <1>1, <2>2, Values
    <3> QED BY <1>5, <2>1, <3>1, Values
  <2>3. CASE Known(p)
    <3>1. row'[p].age <= row[p].age /\ row'[p].age \in {0, 1, 2} /\ row[p].age \in {0, 1, 2}
      BY <1>5, <2>3, Values DEF Age
    <3>2. InWindow(p)'
      BY <1>1, <1>5, <3>1
    <3> QED BY <2>1, <3>2
  <2> QED BY <2>2, <2>3
<1>6. ASSUME NEW S \in SUBSET Packages, ListShells(S) PROVE PacedOf(p)'
  <2>1. CASE p \in S
    <3>1. row'[p] = Shell /\ ~Known(p) /\ task[p].step = "none"
          /\ UNCHANGED <<truth[p], api[p], listed[p], log[p], task[p], check[p]>>
      BY <1>2, <1>6, <2>1 DEF ListShells, Goto
    <3>2. row[p].ver = 0
      BY <1>1, <3>1 DEF PacedOf, OneBehind
    <3> QED BY <1>5, <3>1, <3>2 DEF Shell
  <2>2. CASE p \notin S
    BY <1>1, <1>6, <2>2, Untouched DEF ListShells, Of
  <2> QED BY <2>1, <2>2
<1>7. ASSUME NEW S \in SUBSET Packages, MarkPackagesChanged(S) PROVE PacedOf(p)'
  <2>1. task[p].step = "none"
        /\ UNCHANGED <<truth[p], api[p], listed[p], task[p], check[p]>>
    BY <1>2, <1>7 DEF MarkPackagesChanged
  <2>2. CASE p \notin S
    BY <1>1, <1>7, <2>2, Untouched DEF MarkPackagesChanged, Of
  <2>3. CASE p \in S /\ row[p].status = "active"
    <3>1. row'[p] = Committed(row[p], 0)
      BY <1>7, <2>3 DEF MarkPackagesChanged
    <3>2. /\ row'[p].synced # "after" /\ row'[p].age = 0 /\ row'[p].status = row[p].status
          /\ row'[p].ver = row[p].ver /\ row'[p].tombstone = row[p].tombstone
      BY <3>1, CommittedIs, Values
    <3> QED BY <1>1, <2>1, <2>3, <3>2
            DEF PacedOf, NothingClosed, OneBehind, TaskOfRow, InWindow, CleansWithLatest,
                BehindIsDirty, Known, Dirty
  <2>4. CASE p \in S /\ row[p].status # "active"
    <3>1. UNCHANGED row[p]
      BY <1>7, <2>4 DEF MarkPackagesChanged
    <3>2. ~Known(p)
      BY <1>1, <2>4, Values DEF PacedOf, NothingClosed, Known, Row
    <3>3. api[p] = truth[p] /\ truth[p].pub = truth[p].tag
      BY <1>1, <3>2, Values DEF PacedOf, OneBehind
    <3> QED BY <1>1, <2>1, <3>1, <3>2, <3>3, Values
            DEF PacedOf, NothingClosed, OneBehind, TaskOfRow, InWindow, CleansWithLatest,
                BehindIsDirty, Known, Dirty
  <2> QED BY <2>2, <2>3, <2>4
<1>8. ASSUME NEW s \in Packages, SeedShell(s) PROVE PacedOf(p)'
  <2>1. CASE p # s
    BY <1>1, <1>8, <2>1, Untouched DEF SeedShell, Of, TypeOK
  <2>2. CASE p = s
    <3>1. task[p].step = "none" /\ row \in [Packages -> Row]
          /\ UNCHANGED <<truth[p], api[p], listed[p], log[p], task[p], check[p]>>
      BY <1>2, <1>8, <2>2 DEF SeedShell, TypeOK
    <3>2. CASE ~Known(p)
      <4>1. PICK a \in Age : row'[p] = [Shell EXCEPT !.age = a]
        BY <1>8, <2>2, <3>1, <3>2 DEF SeedShell, Polled
      <4>2. row[p].ver = 0
        BY <1>1, <3>2 DEF PacedOf, OneBehind
      <4> QED BY <1>5, <3>1, <3>2, <4>1, <4>2 DEF Shell
    <3>3. CASE Known(p)
      <4>1. PICK a \in 0 .. row[p].age : row'[p] = Committed(row[p], a)
        BY <1>8, <2>2, <3>1, <3>3 DEF SeedShell
      <4>2. a \in Age /\ a <= row[p].age
        BY Values DEF Age
      <4> QED BY <1>1, <1>5, <3>1, <4>1, <4>2, CommittedIs, Values
              DEF PacedOf, NothingClosed
    <3> QED BY <3>2, <3>3
  <2> QED BY <2>1, <2>2
<1> QED BY <1>3, <1>4, <1>6, <1>7, <1>8 DEF Discover

LEMMA PacedUpdate ==
  ASSUME TypeOK, PacedInv, Update
  PROVE  PacedInv'
<1>0. \A q \in Packages : PacedOf(q)
  BY DEF PacedInv, PacedOf
<1> SUFFICES ASSUME NEW p \in Packages PROVE PacedOf(p)'
  BY DEF PacedInv, PacedOf
<1>1. PacedOf(p)
  BY <1>0
<1> USE DEF upstream
<1>2. ASSUME NEW S \in SUBSET Polled, Queue(S), UNCHANGED <<upstream, log, row, check>>
      PROVE  PacedOf(p)'
  <2>1. CASE p \notin S
    BY <1>1, <1>2, <2>1, TakenBack DEF Queue
  <2>2. CASE p \in S
    <3> DEFINE k == [NoTask EXCEPT !.step = "queued", !.ver = row[p].ver,
                                   !.synced = row[p].synced]
    <3>1. task'[p] = k /\ Known(p)
      BY <1>2, <2>2 DEF Queue, Polled
    <3>2. k.step = "queued" /\ k.ver = row[p].ver /\ k.synced = row[p].synced
      BY DEF NoTask
    <3> HIDE DEF k
    <3>3. UNCHANGED <<truth[p], api[p], listed[p], log[p], row[p], check[p]>>
      BY <1>2
    <3> QED BY <1>1, <3>1, <3>2, <3>3, Values
            DEF PacedOf, NothingClosed, OneBehind, TaskOfRow, InWindow, CleansWithLatest,
                BehindIsDirty, Known, Dirty, Synced
  <2> QED BY <2>1, <2>2
<1>3. CASE StartUpdate
  <2>1. NeedingUpdate \in SUBSET Polled
    BY DEF NeedingUpdate
  <2> QED BY <1>2, <1>3, <2>1 DEF StartUpdate
<1>4. ASSUME NEW S \in SUBSET Packages, ManualUpdate(S) PROVE PacedOf(p)'
  BY <1>2, <1>4 DEF ManualUpdate
<1>5. CASE FinishUpdate
  BY <1>1, <1>5, Untouched DEF FinishUpdate, Of
<1>6. ASSUME NEW S \in SUBSET Packages, NEW W \in SUBSET S, Flush(S, W) PROVE PacedOf(p)'
  <2>1. CASE p \notin W
    BY <1>1, <1>6, <2>1, TakenBack DEF Flush
  <2>2. CASE p \in W
    <3>1. /\ row'[p] = Upsert(row[p], task[p]) /\ task'[p] = NoTask /\ task[p].step = "write"
          /\ UNCHANGED <<truth[p], api[p], listed[p], log[p], check[p]>>
      BY <1>6, <2>2 DEF Flush, Written
    <3>2. /\ row'[p].status = "active" /\ row'[p].ver = task[p].ver /\ ~row'[p].tombstone
          /\ row'[p].age = IF task[p].bump = NoBump THEN row[p].age ELSE task[p].bump
          /\ task[p].synced \in {"never", "before"} /\ Dirty(p) => row'[p].synced # "after"
      BY <1>1, <3>1, UpsertIs, Values DEF PacedOf, NothingClosed, Dirty
    <3>3. task'[p].step = "none"
      BY <3>1 DEF NoTask
    <3>4. /\ task[p].ver \in {row[p].ver, truth[p].pub} /\ task[p].ver # 0
          /\ task[p].ver <= api[p].pub /\ row'[p].age <= row[p].age
          /\ row'[p].age \in {0, 1, 2} /\ row[p].age \in {0, 1, 2}
      BY <1>1, <3>1, <3>2, Values DEF PacedOf, TaskOfRow, Age, NoBump
    <3>5. NothingClosed(p)' /\ TaskOfRow(p)' /\ CleansWithLatest(p)'
      BY <1>1, <3>1, <3>2, <3>3
         DEF PacedOf, NothingClosed, TaskOfRow, CleansWithLatest, Known
    <3>6. OneBehind(p)'
      BY <1>1, <3>1, <3>2, <3>4, Values DEF PacedOf, OneBehind, Known
    <3>7. ASSUME log[p] # "unread", row[p].synced # "after",
                 \/ task[p].ver # truth[p].pub
                 \/ p \in Themes /\ truth[p].pub < truth[p].tag
          PROVE  row'[p].synced # "after"
      <4>1. task[p].synced # "now"
        BY <1>1, <3>1, <3>7, Values DEF PacedOf, CleansWithLatest
      <4>2. task[p].synced # "after"
        BY <1>1, <3>1, <3>7 DEF PacedOf, TaskOfRow
      <4> QED BY <3>2, <3>7, <4>1, <4>2, Values DEF Synced, Dirty
    <3>8. InWindow(p)'
      BY <1>1, <3>1, <3>4, <3>7 DEF PacedOf, InWindow, Dirty
    <3>9. BehindIsDirty(p)'
      <4> SUFFICES ASSUME log[p] # "unread", task[p].ver # truth[p].pub
                   PROVE  row'[p].synced # "after"
        BY <3>1, <3>2 DEF BehindIsDirty, Dirty
      <4>1. Known(p) /\ row[p].ver # truth[p].pub
        BY <1>1, <3>1, <3>4 DEF PacedOf, TaskOfRow
      <4>2. row[p].synced # "after"
        BY <1>1, <4>1 DEF PacedOf, BehindIsDirty, Dirty
      <4> QED BY <3>7, <4>2
    <3> QED BY <3>5, <3>6, <3>8, <3>9 DEF PacedOf
  <2> QED BY <2>1, <2>2
<1>7. ASSUME NEW s \in Packages, FetchClosed(s) \/ StoreClosed(s) \/ TaskFailed(s)
      PROVE  PacedOf(p)'
  <2>1. ~FetchClosed(s) /\ ~StoreClosed(s)
    BY <1>0 DEF FetchClosed, StoreClosed, PacedOf, NothingClosed
  <2>2. TaskFailed(s)
    BY <1>7, <2>1
  <2> QED BY <1>1, <2>2, TakenBack DEF TaskFailed, TypeOK
<1>8. ASSUME NEW s \in Packages, NEW bump \in Age \cup {NoBump}, FetchOk(s, bump)
      PROVE  PacedOf(p)'
  <2>1. CASE p # s
    BY <1>1, <1>8, <2>1, Untouched DEF FetchOk, Of, TypeOK
  <2>2. CASE p = s
    <3>1. /\ task[p].step = "queued" /\ bump \in (0 .. row[p].age) \cup {NoBump}
          /\ task'[p].step = "write" /\ task'[p].ver = api[p].pub /\ task'[p].bump = bump
          /\ task'[p].synced = IF Retry(p) THEN task[p].synced ELSE "now"
          /\ UNCHANGED <<truth[p], api[p], listed[p], log[p], row[p], check[p]>>
      BY <1>8, <2>2 DEF FetchOk, TypeOK
    <3>2. task[p].ver = row[p].ver /\ task[p].synced # "now" /\ Known(p)
      BY <1>1, <3>1 DEF PacedOf, TaskOfRow
    <3>3. NothingClosed(p)' /\ OneBehind(p)' /\ InWindow(p)' /\ BehindIsDirty(p)'
      BY <1>1, <3>1
         DEF PacedOf, NothingClosed, OneBehind, InWindow, BehindIsDirty, Known, Dirty
    <3>4. TaskOfRow(p)'
      <4>1. api[p].pub # 0 /\ api[p].pub \in {row[p].ver, truth[p].pub}
        BY <1>1, Values DEF PacedOf, OneBehind
      <4>2. bump <= row[p].age \/ bump = NoBump
        BY <3>1, Values DEF Age
      <4> QED BY <1>1, <3>1, <3>2, <4>1, <4>2, Values DEF PacedOf, TaskOfRow, Known
    <3>5. CleansWithLatest(p)'
      <4> SUFFICES ASSUME log[p] # "unread", ~Retry(p)
                   PROVE  api[p].pub = truth[p].pub
                          /\ (p \in Themes => truth[p].pub = truth[p].tag)
        BY <3>1, <3>2 DEF CleansWithLatest
      <4>1. /\ row[p].age = 0 => api[p].pub >= api[p].tag /\ api[p].pub # row[p].ver
            /\ p \in Themes /\ row[p].age = 1 => api[p].pub >= api[p].tag
        BY <3>2, Values DEF Retry
      <4>2. CASE api[p] = truth[p]
        <5>1. p \in Themes /\ truth[p].pub < truth[p].tag => row[p].age \in {0, 1}
          BY <1>1, Values DEF PacedOf, InWindow, Age
        <5>2. p \in Themes => ~(truth[p].pub < truth[p].tag)
          BY <4>1, <4>2, <5>1, Values
        <5> QED BY <1>1, <4>2, <5>2, Values DEF PacedOf, OneBehind
      <4>3. CASE api[p] # truth[p]
        <5>1. row[p].age = 0
          BY <1>1, <4>1, <4>3, Values DEF PacedOf, InWindow
        <5>2. api[p].pub = truth[p].pub /\ row[p].ver # truth[p].pub
          BY <1>1, <4>1, <5>1 DEF PacedOf, OneBehind
        <5> QED BY <1>1, <5>2 DEF PacedOf, OneBehind
      <4> QED BY <4>2, <4>3
    <3> QED BY <3>3, <3>4, <3>5 DEF PacedOf
  <2> QED BY <2>1, <2>2
<1> QED BY <1>3, <1>4, <1>5, <1>6, <1>7, <1>8 DEF Update

LEMMA PacedOther ==
  ASSUME TypeOK, PacedInv, Crash \/ CheckStatus
  PROVE  PacedInv'
<1>0. \A q \in Packages : PacedOf(q)
  BY DEF PacedInv, PacedOf
<1> SUFFICES ASSUME NEW p \in Packages PROVE PacedOf(p)'
  BY DEF PacedInv, PacedOf
<1>1. PacedOf(p)
  BY <1>0
<1> USE DEF upstream
<1>2. CASE Crash
  BY <1>1, <1>2, TakenBack DEF Crash, Unmark
\* check-status finds every package open and active, and writes nothing.
<1>3. ASSUME UNCHANGED <<upstream, log, row, task>>, check'[p] \in {"none", "active"}
      PROVE  PacedOf(p)'
  BY <1>1, <1>3
     DEF PacedOf, NothingClosed, OneBehind, TaskOfRow, InWindow, CleansWithLatest,
         BehindIsDirty, Known, Dirty
<1>4. check[p] \in {"none", "active"} /\ listed[p] = "open"
  BY <1>1 DEF PacedOf, NothingClosed
<1>5. CASE StartCheck
  <2>1. p \in Polled => row[p].status = "active"
    BY <1>1, Values DEF PacedOf, NothingClosed, Polled, Known, Row
  <2> QED BY <1>3, <1>5, <2>1 DEF StartCheck
<1>6. ASSUME NEW s \in Packages, CheckFetch(s) PROVE PacedOf(p)'
  <2>1. UNCHANGED <<upstream, log, row, task>> /\ (p # s => check'[p] = check[p])
    BY <1>6 DEF CheckFetch, TypeOK
  <2>2. p = s => check'[p] = "none"
    BY <1>4, <1>6 DEF CheckFetch, TypeOK
  <2> QED BY <1>3, <1>4, <2>1, <2>2
<1>7. \A s \in Packages : ~CheckStore(s)
  BY <1>0 DEF CheckStore, PacedOf, NothingClosed
<1>8. ASSUME NEW S \in SUBSET Packages, CheckFailed(S) PROVE PacedOf(p)'
  BY <1>3, <1>4, <1>8 DEF CheckFailed
<1> QED BY <1>2, <1>5, <1>6, <1>7, <1>8 DEF CheckStatus

\* No served package is stranded at an old release although the API lags behind
\* and themes wait for review, while releases of a package are further apart than
\* its sync and nothing is closed: the two retry windows are long enough.
THEOREM NoStrandedPaced ==
  ASSUME Paced = Packages, Closures = {}, Permanent = {}
  PROVE  Spec => []NoStrandedRelease
<1>1. Init => PacedInv
  BY DEF Init, PacedInv, NothingClosed, OneBehind, TaskOfRow, InWindow, CleansWithLatest,
         BehindIsDirty, Known, Dirty, NoTask
<1>2. TypeOK /\ LockInv /\ PacedInv /\ [Next]_vars => PacedInv'
  <2>1. PacedInv /\ UNCHANGED vars => PacedInv'
    BY DEF vars, PacedInv, NothingClosed, OneBehind, TaskOfRow, InWindow, CleansWithLatest,
           BehindIsDirty, Known, Dirty
  <2> QED BY <2>1, PacedUpstream, PacedDiscover, PacedUpdate, PacedOther DEF Next
<1>3. PacedInv => NoStrandedRelease
  BY DEF PacedInv, BehindIsDirty, NoStrandedRelease, Known
<1> QED BY <1>1, <1>2, <1>3, TypeCorrect, LockDiscipline, PTL DEF Spec

=============================================================================
