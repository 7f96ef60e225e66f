--------------------------- MODULE MassClosuresProofs ---------------------------
(***************************************************************************)
(* What holds of mass closure events for every vendor, number of check-     *)
(* status processes, window and threshold.  The argument does not need the  *)
(* snapshots of SQLite: CommitTx reads the events it writes.                *)
(***************************************************************************)
EXTENDS MassClosures, FiniteSetTheorems, Extremes

\* No event was detected in the future.
EventsPast == \A v \in Vendors : \A e \in events[v] : e.at <= clock

Unreported(v) ==
  {c.plugin : c \in {d \in Since(clock - Window, tracked) : Author[d.plugin] = v}} \ Reported(v)

IInv == TypeOK /\ EventsPast

-----------------------------------------------------------------------------
(* What a run makes of the events E of a vendor.                            *)

\* A set of events that lie in the past has a latest one.
LEMMA LatestExists ==
  ASSUME NEW E \in SUBSET ClosureEvent, E # {}, NEW t \in Nat, \A e \in E : e.at <= t
  PROVE  \E e \in E : IsLatest(e, E)
<1> DEFINE Ages == {t - e.at : e \in E}
<1>1. Ages \in SUBSET Nat /\ Ages # {}
  BY DEF ClosureEvent
<1>2. PICK n \in Ages : \A k \in Ages : n <= k
  BY <1>1, LeastExists
<1>3. PICK e \in E : n = t - e.at
  BY <1>2
<1>4. ASSUME NEW f \in E PROVE f.at <= e.at
  <2>1. t - f.at \in Ages
    OBVIOUS
  <2>2. t - e.at <= t - f.at
    BY <2>1, <1>2, <1>3
  <2> QED BY <2>2 DEF ClosureEvent
<1> QED BY <1>3, <1>4 DEF IsLatest

\* An event that is there before is there in the extended set, with what it had.
LEMMA ExtendedHasEach ==
  ASSUME NEW E \in SUBSET ClosureEvent, NEW S \in SUBSET Plugins, NEW e \in E
  PROVE  \E f \in Extended(E, S) : f.at = e.at /\ e.slugs \subseteq f.slugs
<1> DEFINE g == IF IsLatest(e, E) THEN [e EXCEPT !.slugs = @ \cup S] ELSE e
<1>1. g \in Extended(E, S)
  BY DEF Extended
<1>2. e \in [at : Nat, slugs : SUBSET Plugins]
  BY DEF ClosureEvent
<1>3. g.at = e.at /\ e.slugs \subseteq g.slugs
  BY <1>2
<1> QED BY <1>1, <1>3

\* An extended event keeps its date and what it has.
LEMMA ExtendedKeeps ==
  ASSUME NEW E \in SUBSET ClosureEvent, NEW S \in SUBSET Plugins
  PROVE  /\ Extended(E, S) \in SUBSET ClosureEvent
         /\ \A e \in E : \E f \in Extended(E, S) : f.at = e.at /\ e.slugs \subseteq f.slugs
         /\ \A f \in Extended(E, S) : \E e \in E :
              f = IF IsLatest(e, E) THEN [e EXCEPT !.slugs = @ \cup S] ELSE e
         /\ \A e \in E : IsLatest(e, E) =>
              \E f \in Extended(E, S) : S \subseteq f.slugs
<1> DEFINE g(e) == IF IsLatest(e, E) THEN [e EXCEPT !.slugs = @ \cup S] ELSE e
<1>1. ASSUME NEW e \in E
      PROVE  /\ g(e) \in ClosureEvent /\ g(e) \in Extended(E, S)
             /\ g(e).at = e.at /\ e.slugs \subseteq g(e).slugs
             /\ IsLatest(e, E) => S \subseteq g(e).slugs
  <2>1. g(e) \in Extended(E, S)
    BY DEF Extended
  <2>2. e \in [at : Nat, slugs : SUBSET Plugins]
    BY DEF ClosureEvent
  <2> QED BY <2>1, <2>2 DEF ClosureEvent
<1>2. \A f \in Extended(E, S) : \E e \in E : f = g(e)
  BY DEF Extended
<1> HIDE DEF g
<1>3. Extended(E, S) \in SUBSET ClosureEvent
  BY <1>1, <1>2
<1>4. \A e \in E : \E f \in Extended(E, S) : f.at = e.at /\ e.slugs \subseteq f.slugs
  BY <1>1
<1>5. \A e \in E : IsLatest(e, E) => \E f \in Extended(E, S) : S \subseteq f.slugs
  BY <1>1
<1> QED BY <1>2, <1>3, <1>4, <1>5 DEF g

\* The cases of a run, for a vendor whose closures within the window are S.
LEMMA RecordedCases ==
  ASSUME NEW E \in SUBSET ClosureEvent, NEW S \in SUBSET Plugins, NEW now \in Nat
  PROVE  \/ Cardinality(S) < Threshold /\ Recorded(E, S, now) = E
         \/ /\ \E e \in E : e.at >= now - Window
            /\ Recorded(E, S, now) = Extended(E, S)
         \/ /\ ~ \E e \in E : e.at >= now - Window
            /\ Recorded(E, S, now) = Opened(E, S, now)
BY DEF Recorded

\* An opened event holds what the latest one does not.
LEMMA OpenedCases ==
  ASSUME NEW E \in SUBSET ClosureEvent, NEW S \in SUBSET Plugins, NEW now \in Nat
  PROVE  \E rest \in SUBSET S :
           /\ rest = {p \in S : \A e \in E : IsLatest(e, E) => p \notin e.slugs}
           /\ \/ Cardinality(rest) < Threshold /\ Opened(E, S, now) = E
              \/ Opened(E, S, now) = E \cup {[at |-> now, slugs |-> rest]}
              \/ ~(Cardinality(rest) \in Nat)
<1> DEFINE rest == {p \in S : \A e \in E : IsLatest(e, E) => p \notin e.slugs}
<1>1. rest \in SUBSET S
  OBVIOUS
<1>2. CASE Cardinality(rest) >= Threshold
  <2>1. Opened(E, S, now) = E \cup {[at |-> now, slugs |-> rest]}
    BY <1>2 DEF Opened
  <2> QED BY <1>1, <2>1
<1>3. CASE ~(Cardinality(rest) >= Threshold)
  <2>1. Opened(E, S, now) = E
    BY <1>3 DEF Opened
  <2>2. Cardinality(rest) < Threshold \/ ~(Cardinality(rest) \in Nat)
    BY <1>3, ClosureAssumption
  <2> QED BY <1>1, <2>1, <2>2
<1> QED BY <1>2, <1>3

\* Sets of plugins are finite, and a part has no more members than the whole.
LEMMA PluginSets ==
  ASSUME NEW S \in SUBSET Plugins
  PROVE  /\ Cardinality(S) \in Nat
         /\ \A T \in SUBSET S : Cardinality(T) \in Nat /\ Cardinality(T) <= Cardinality(S)
<1>1. IsFiniteSet(S)
  BY FS_Subset, ClosureAssumption
<1>2. Cardinality(S) \in Nat
  BY <1>1, FS_CardinalityType
<1>3. ASSUME NEW T \in SUBSET S
      PROVE  Cardinality(T) \in Nat /\ Cardinality(T) <= Cardinality(S)
  <2>1. IsFiniteSet(T) /\ Cardinality(T) <= Cardinality(S)
    BY <1>1, FS_Subset
  <2> QED BY <2>1, FS_CardinalityType
<1> QED BY <1>2, <1>3

\* The same for an opened event, whose size is a number.
LEMMA OpenedRest ==
  ASSUME NEW E \in SUBSET ClosureEvent, NEW S \in SUBSET Plugins, NEW now \in Nat
  PROVE  \E rest \in SUBSET S :
           /\ rest = {p \in S : \A e \in E : IsLatest(e, E) => p \notin e.slugs}
           /\ \/ Cardinality(rest) < Threshold /\ Opened(E, S, now) = E
              \/ Opened(E, S, now) = E \cup {[at |-> now, slugs |-> rest]}
<1>1. PICK rest \in SUBSET S :
        /\ rest = {p \in S : \A e \in E : IsLatest(e, E) => p \notin e.slugs}
        /\ \/ Cardinality(rest) < Threshold /\ Opened(E, S, now) = E
           \/ Opened(E, S, now) = E \cup {[at |-> now, slugs |-> rest]}
           \/ ~(Cardinality(rest) \in Nat)
  BY OpenedCases, Zenon
<1>2. Cardinality(rest) \in Nat
  BY PluginSets
<1> QED BY <1>1, <1>2, Zenon

\* The events of a vendor stay events, none later than the run.
LEMMA RecordedTypes ==
  ASSUME NEW E \in SUBSET ClosureEvent, NEW S \in SUBSET Plugins, NEW now \in Nat
  PROVE  /\ Recorded(E, S, now) \in SUBSET ClosureEvent
         /\ \A f \in Recorded(E, S, now) : f.at = now \/ \E e \in E : f.at = e.at
<1>1. CASE Recorded(E, S, now) = E
  BY <1>1
<1>2. CASE Recorded(E, S, now) = Extended(E, S)
  <2>1. \A f \in Extended(E, S) : \E e \in E : f.at = e.at
    <3> SUFFICES ASSUME NEW f \in Extended(E, S) PROVE \E e \in E : f.at = e.at
      OBVIOUS
    <3>1. PICK e \in E : f = IF IsLatest(e, E) THEN [e EXCEPT !.slugs = @ \cup S] ELSE e
      BY ExtendedKeeps
    <3>2. e \in [at : Nat, slugs : SUBSET Plugins]
      BY DEF ClosureEvent
    <3> QED BY <3>1, <3>2
  <2>2. Extended(E, S) \in SUBSET ClosureEvent
    BY ExtendedKeeps
  <2> QED BY <1>2, <2>1, <2>2
<1>3. CASE Recorded(E, S, now) = Opened(E, S, now)
  <2>1. PICK rest \in SUBSET S :
          /\ rest = {p \in S : \A e \in E : IsLatest(e, E) => p \notin e.slugs}
          /\ \/ Cardinality(rest) < Threshold /\ Opened(E, S, now) = E
             \/ Opened(E, S, now) = E \cup {[at |-> now, slugs |-> rest]}
    BY OpenedRest, ZenonT(60)
  <2>2. [at |-> now, slugs |-> rest] \in ClosureEvent
    BY DEF ClosureEvent
  <2>3. CASE Opened(E, S, now) = E
    BY <1>3, <2>3
  <2>4. CASE Opened(E, S, now) = E \cup {[at |-> now, slugs |-> rest]}
    <3> DEFINE new == [at |-> now, slugs |-> rest]
    <3>1. new \in ClosureEvent /\ new.at = now
      BY <2>2
    <3> HIDE DEF new
    <3>2. Recorded(E, S, now) = E \cup {new}
      BY <1>3, <2>4 DEF new
    <3> QED BY <3>1, <3>2
  <2> QED BY <2>1, <2>3, <2>4
<1> QED BY <1>1, <1>2, <1>3, RecordedCases

-----------------------------------------------------------------------------
(* Types.                                                                   *)

LEMMA IdleStep ==
  ASSUME TypeOK, NEW s \in {"idle", "checking", "finish"}
  PROVE  [Idle EXCEPT !.step = s] \in
           [step : {"idle", "checking", "tracking", "finish"}, now : 0 .. clock, stale : BOOLEAN]
<1> DEFINE C == [step : {"idle", "checking", "tracking", "finish"}, now : 0 .. clock, stale : BOOLEAN]
<1>1. Idle \in C
  BY DEF Idle, TypeOK
<1>2. \A i \in C : [i EXCEPT !.step = s] \in C
  OBVIOUS
<1> QED BY <1>1, <1>2

LEMMA CommitKeepsChecks ==
  ASSUME TypeOK, NEW a \in Checkers, NEW s \in {"idle", "checking", "finish"}, Commit(a, s)
  PROVE  check' \in [Checkers -> [step : {"idle", "checking", "tracking", "finish"},
                                  now : 0 .. clock, stale : BOOLEAN]]
<1> DEFINE C == [step : {"idle", "checking", "tracking", "finish"}, now : 0 .. clock, stale : BOOLEAN]
<1>1. [Idle EXCEPT !.step = s] \in C
  BY IdleStep
<1>2. ASSUME NEW b \in Checkers, NEW x \in BOOLEAN PROVE [check[b] EXCEPT !.stale = @ \/ x] \in C
  <2>1. check[b] \in C
    BY DEF TypeOK
  <2>2. (check[b].stale \/ x) \in BOOLEAN
    BY <2>1
  <2>3. [check[b] EXCEPT !.stale = @ \/ x] = [check[b] EXCEPT !.stale = (check[b].stale \/ x)]
    BY <2>1
  <2> QED BY <2>1, <2>2, <2>3
<1> QED BY <1>1, <1>2 DEF Commit

LEMMA SinceIn ==
  ASSUME NEW t, NEW S
  PROVE  Since(t, S) \subseteq S /\ \A c \in Since(t, S) : c.at >= t
BY DEF Since

LEMMA RecentIn ==
  ASSUME TypeOK, NEW v, NEW t
  PROVE  Recent(v, t) \in SUBSET Plugins
BY DEF TypeOK, Recent, Since, Closure

LEMMA TypesStep == ASSUME IInv, [Next]_vars PROVE IInv'
<1> USE DEF IInv
<1> DEFINE Checks(t) == [Checkers -> [step : {"idle", "checking", "tracking", "finish"},
                                      now : 0 .. t, stale : BOOLEAN]]
<1>1. CASE Tick
  <2>1. clock \in Nat /\ clock' = clock + 1 /\ 0 .. clock \subseteq 0 .. clock'
    BY <1>1 DEF Tick, TypeOK
  <2>2. check' \in Checks(clock')
    <3>1. check \in Checks(clock) /\ check' = check
      BY <1>1 DEF Tick, TypeOK
    <3> QED BY <2>1, <3>1
  <2>3. \A c \in changes' : c.at <= clock'
    BY <1>1, <2>1 DEF Tick, TypeOK, Closure
  <2>4. EventsPast'
    BY <1>1, <2>1 DEF Tick, TypeOK, EventsPast, ClosureEvent
  <2> QED BY <1>1, <2>1, <2>2, <2>3, <2>4 DEF Tick, TypeOK
<1>2. ASSUME NEW a \in Checkers, StartStatusCheck(a) PROVE IInv'
  <2>1. check' \in Checks(clock)
    BY <1>2, CommitKeepsChecks DEF StartStatusCheck
  <2>2. changes' \subseteq changes /\ tracked' \subseteq changes'
    <3>1. \A c \in tracked' : c \in changes /\ c.at >= clock - Window
      BY <1>2, SinceIn DEF StartStatusCheck, TypeOK
    <3> QED BY <1>2, <3>1 DEF StartStatusCheck, Since
  <2> QED BY <1>2, <2>1, <2>2 DEF StartStatusCheck, TypeOK, EventsPast
<1>3. ASSUME NEW a \in Checkers, NEW p \in Plugins, RecordStatusCheckChange(a, p) PROVE IInv'
  <2>1. check' \in Checks(clock)
    BY <1>3, CommitKeepsChecks DEF RecordStatusCheckChange
  <2>2. [plugin |-> p, at |-> clock] \in Closure
    BY DEF Closure, TypeOK
  <2> QED BY <1>3, <2>1, <2>2 DEF RecordStatusCheckChange, TypeOK, EventsPast
<1>4. ASSUME NEW a \in Checkers, BeginTx(a) PROVE IInv'
  <2>1. clock \in 0 .. clock
    BY DEF TypeOK
  <2> QED BY <1>4, <2>1 DEF BeginTx, TypeOK, EventsPast
<1>5. ASSUME NEW a \in Checkers, CommitTx(a) PROVE IInv'
  <2> DEFINE now == check[a].now
             R(v) == Recorded(events[v], Recent(v, now - Window), now)
  <2>1. check' \in Checks(clock)
    BY <1>5, CommitKeepsChecks DEF CommitTx
  <2>2. now \in Nat /\ now <= clock
    BY DEF TypeOK
  <2>3. events' = [v \in Vendors |-> R(v)]
    BY <1>5 DEF CommitTx
  <2>4. ASSUME NEW v \in Vendors
        PROVE  R(v) \in SUBSET ClosureEvent /\ \A f \in R(v) : f.at <= clock
    <3>1. events[v] \in SUBSET ClosureEvent /\ Recent(v, now - Window) \in SUBSET Plugins
      BY RecentIn DEF TypeOK
    <3> HIDE DEF now
    <3>2. /\ R(v) \in SUBSET ClosureEvent
          /\ \A f \in R(v) : f.at = now \/ \E e \in events[v] : f.at = e.at
      BY <2>2, <3>1, RecordedTypes
    <3> QED BY <2>2, <3>2 DEF EventsPast
  <2>5. events' \in [Vendors -> SUBSET ClosureEvent] /\ EventsPast'
    <3> HIDE DEF R
    <3>1. clock' = clock
      BY <1>5 DEF CommitTx
    <3> QED BY <2>3, <2>4, <3>1 DEF EventsPast
  <2>6. tracked' \subseteq changes' /\ changes' = changes
    BY <1>5, SinceIn DEF CommitTx, TypeOK
  <2> QED BY <1>5, <2>1, <2>5, <2>6 DEF CommitTx, TypeOK
<1>6. ASSUME NEW a \in Checkers, RollbackTx(a) \/ Crash(a) PROVE IInv'
  <2>1. \A s \in {"idle", "finish"} :
          [Idle EXCEPT !.step = s] \in
            [step : {"idle", "checking", "tracking", "finish"}, now : 0 .. clock, stale : BOOLEAN]
    BY IdleStep
  <2>2. Idle = [Idle EXCEPT !.step = "idle"]
    BY DEF Idle
  <2>3. check' \in Checks(clock)
    BY <1>6, <2>1, <2>2 DEF RollbackTx, Crash, TypeOK
  <2> QED BY <1>6, <2>3 DEF RollbackTx, Crash, TypeOK, EventsPast
<1>7. ASSUME NEW a \in Checkers, FinishStatusCheck(a) PROVE IInv'
  <2>1. check' \in Checks(clock)
    BY <1>7, CommitKeepsChecks DEF FinishStatusCheck
  <2> QED BY <1>7, <2>1 DEF FinishStatusCheck, TypeOK, EventsPast
<1>8. CASE UNCHANGED vars
  BY <1>8 DEF vars, TypeOK, EventsPast
<1> QED BY <1>1, <1>2, <1>3, <1>4, <1>5, <1>6, <1>7, <1>8 DEF Next

LEMMA TypesInit == ASSUME Init PROVE IInv
<1>1. Idle \in [step : {"idle", "checking", "tracking", "finish"}, now : 0 .. 1, stale : BOOLEAN]
  BY DEF Idle
<1> QED BY <1>1 DEF Init, IInv, TypeOK, EventsPast, Closure, ClosureEvent

\* Closures, events and runs of check-status stay well formed, and no event is dated
\* in the future (closures.go:43-168).
THEOREM TypeCorrect == Spec => [](TypeOK /\ EventsPast)
BY TypesInit, TypesStep, PTL DEF Spec, IInv

-----------------------------------------------------------------------------
(* Events.                                                                  *)

\* The steps other than CommitTx leave the events alone.
LEMMA EventsChange ==
  ASSUME [Next]_vars
  PROVE  events' = events \/ \E a \in Checkers : CommitTx(a)
BY DEF Next, vars, Tick, StartStatusCheck, RecordStatusCheckChange, BeginTx, RollbackTx,
       FinishStatusCheck, Crash

\* What CommitTx does to one vendor.
LEMMA CommitOf ==
  ASSUME IInv, NEW a \in Checkers, CommitTx(a), NEW v \in Vendors
  PROVE  LET now == check[a].now
             S == Recent(v, now - Window)
         IN /\ now \in Nat /\ now <= clock
            /\ events[v] \in SUBSET ClosureEvent /\ S \in SUBSET Plugins
            /\ events'[v] = Recorded(events[v], S, now)
BY RecentIn DEF IInv, TypeOK, CommitTx

LEMMA KeepsStep == ASSUME IInv, [Next]_vars PROVE KeepStep
<1>1. CASE events' = events
  BY <1>1 DEF KeepStep
<1>2. ASSUME NEW a \in Checkers, CommitTx(a), NEW v \in Vendors, NEW e \in events[v]
      PROVE  \E f \in events'[v] : f.at = e.at /\ e.slugs \subseteq f.slugs
  <2> DEFINE now == check[a].now
             S == Recent(v, now - Window)
             E == events[v]
  <2>1. /\ now \in Nat /\ E \in SUBSET ClosureEvent /\ S \in SUBSET Plugins
        /\ events'[v] = Recorded(E, S, now)
    BY <1>2, CommitOf
  <2>5. e \in E
    BY <1>2
  <2> HIDE DEF now, S, E
  <2>2. CASE Recorded(E, S, now) = E
    BY <2>1, <2>2, <2>5
  <2>3. CASE Recorded(E, S, now) = Extended(E, S)
    <3>1. \E f \in Extended(E, S) : f.at = e.at /\ e.slugs \subseteq f.slugs
      BY <2>1, <2>5, ExtendedHasEach
    <3> QED BY <2>1, <2>3, <3>1
  <2>4. CASE Recorded(E, S, now) = Opened(E, S, now)
    <3>1. e \in Opened(E, S, now)
      BY <2>5 DEF Opened
    <3> QED BY <2>1, <2>4, <3>1
  <2> QED BY <2>1, <2>2, <2>3, <2>4, RecordedCases
<1> QED BY <1>1, <1>2, EventsChange DEF KeepStep

\* An event is never deleted or redated and never loses a plugin, whichever runs
\* of check-status commit, roll back or die (closures.go:77-161).
THEOREM EventsGrow == Spec => EventsOnlyGrow
<1>1. IInv /\ [Next]_vars => KeepStep
  BY KeepsStep
<1>2. Init => IInv
  BY TypesInit
<1>3. IInv /\ [Next]_vars => IInv'
  BY TypesStep
<1> QED BY <1>1, <1>2, <1>3, PTL DEF Spec, EventsOnlyGrow

LEMMA ApartStep == ASSUME IInv, DetectedApart, [Next]_vars PROVE DetectedApart'
<1>1. CASE events' = events
  BY <1>1 DEF DetectedApart
<1>2. ASSUME NEW a \in Checkers, CommitTx(a), NEW v \in Vendors,
             NEW e \in events'[v], NEW f \in events'[v], e # f
      PROVE  e.at > f.at + Window \/ f.at > e.at + Window
  <2> DEFINE now == check[a].now
             S == Recent(v, now - Window)
             E == events[v]
  <2>1. /\ now \in Nat /\ E \in SUBSET ClosureEvent /\ S \in SUBSET Plugins
        /\ events'[v] = Recorded(E, S, now)
    BY <1>2, CommitOf
  <2>2. \A c, d \in E : c # d => c.at > d.at + Window \/ d.at > c.at + Window
    BY DEF DetectedApart
  <2> HIDE DEF now, S, E
  <2>3. CASE Recorded(E, S, now) = E
    BY <1>2, <2>1, <2>2, <2>3
  <2>4. CASE Recorded(E, S, now) = Extended(E, S)
    <3> DEFINE g(c) == IF IsLatest(c, E) THEN [c EXCEPT !.slugs = @ \cup S] ELSE c
    <3>1. e \in Extended(E, S) /\ f \in Extended(E, S)
      BY <1>2, <2>1, <2>4
    <3>2. \A x \in Extended(E, S) : \E c \in E : x = g(c)
      BY <2>1, ExtendedKeeps
    <3>3. \A c \in E : g(c).at = c.at
      <4>1. \A c \in E : c \in [at : Nat, slugs : SUBSET Plugins]
        BY <2>1 DEF ClosureEvent
      <4> QED BY <4>1
    <3> HIDE DEF g
    <3>4. PICK c \in E, d \in E : e = g(c) /\ f = g(d)
      BY <3>1, <3>2
    <3> QED BY <1>2, <2>2, <3>3, <3>4
  <2>5. CASE /\ ~ \E c \in E : c.at >= now - Window
             /\ Recorded(E, S, now) = Opened(E, S, now)
    <3>1. PICK rest \in SUBSET S :
            /\ rest = {p \in S : \A c \in E : IsLatest(c, E) => p \notin c.slugs}
            /\ \/ Cardinality(rest) < Threshold /\ Opened(E, S, now) = E
               \/ Opened(E, S, now) = E \cup {[at |-> now, slugs |-> rest]}
      BY <2>1, OpenedRest, ZenonT(60)
    <3> DEFINE new == [at |-> now, slugs |-> rest]
    <3>2. \A c \in E : new.at > c.at + Window
      BY <2>1, <2>5, ClosureAssumption DEF ClosureEvent
    <3>3. (e \in E \/ e = new) /\ (f \in E \/ f = new)
      BY <1>2, <2>1, <2>5, <3>1
    <3> QED BY <1>2, <2>2, <3>2, <3>3
  <2> QED BY <2>1, <2>3, <2>4, <2>5, RecordedCases
<1> QED BY <1>1, <1>2, EventsChange DEF DetectedApart

\* Two events of a vendor are more than a window apart: one outbreak, one event,
\* however many checks look at it at the same time (closures.go:82-86).
THEOREM OneEventPerOutbreak == Spec => []DetectedApart
<1>1. Init => IInv /\ DetectedApart
  BY TypesInit DEF Init, DetectedApart
<1>2. IInv /\ DetectedApart /\ [Next]_vars => (IInv /\ DetectedApart)'
  BY TypesStep, ApartStep
<1> QED BY <1>1, <1>2, PTL DEF Spec

-----------------------------------------------------------------------------
(* Outbreaks.                                                               *)

\* The latest two events have what each of them has.
LEMMA LatestTold ==
  ASSUME NEW E, NEW e \in E,
         \/ IsLatest(e, E)
         \/ IsLatest(e, {f \in E : ~IsLatest(f, E)})
  PROVE  e.slugs \subseteq LastTwo(E)
BY DEF LastTwo

\* An extended event that was the latest still is, and has the closures found.
LEMMA ExtendedTold ==
  ASSUME NEW E \in SUBSET ClosureEvent, NEW S \in SUBSET Plugins, NEW e \in E, IsLatest(e, E)
  PROVE  S \subseteq LastTwo(Extended(E, S))
<1> DEFINE g(d) == IF IsLatest(d, E) THEN [d EXCEPT !.slugs = @ \cup S] ELSE d
<1>1. \A d \in E : g(d).at = d.at
  <2>1. \A d \in E : d \in [at : Nat, slugs : SUBSET Plugins]
    BY DEF ClosureEvent
  <2> QED BY <2>1
<1>2. S \subseteq g(e).slugs
  <2>1. e \in [at : Nat, slugs : SUBSET Plugins]
    BY DEF ClosureEvent
  <2> QED BY <2>1
<1>3. g(e) \in Extended(E, S) /\ \A f \in Extended(E, S) : \E d \in E : f = g(d)
  BY DEF Extended
<1> HIDE DEF g
<1>4. \A f \in Extended(E, S) : f.at <= g(e).at
  BY <1>1, <1>3 DEF IsLatest
<1>5. IsLatest(g(e), Extended(E, S))
  BY <1>3, <1>4 DEF IsLatest
<1> QED BY <1>2, <1>3, <1>5, LatestTold

\* An event that is opened is the latest, and what was the latest comes next.
LEMMA OpenedTold ==
  ASSUME NEW E \in SUBSET ClosureEvent, NEW now \in Nat, NEW rest \in SUBSET Plugins,
         \A e \in E : e.at < now
  PROVE  LET all == E \cup {[at |-> now, slugs |-> rest]}
         IN /\ rest \subseteq LastTwo(all)
            /\ \A e \in E : IsLatest(e, E) => e.slugs \subseteq LastTwo(all)
<1> DEFINE new == [at |-> now, slugs |-> rest]
           all == E \cup {new}
<1>1. new.at = now /\ new.slugs = rest
  OBVIOUS
<1>2. \A e \in E : e.at \in Nat
  BY DEF ClosureEvent
<1> HIDE DEF new
<1>3. IsLatest(new, all)
  BY <1>1, <1>2 DEF IsLatest
<1>4. \A e \in E : ~IsLatest(e, all)
  BY <1>1, <1>2 DEF IsLatest
<1>5. {f \in all : ~IsLatest(f, all)} = E
  BY <1>3, <1>4
<1>6. ASSUME NEW e \in E, IsLatest(e, E) PROVE e.slugs \subseteq LastTwo(all)
  <2>1. e \in all /\ IsLatest(e, {f \in all : ~IsLatest(f, all)})
    BY <1>5, <1>6
  <2> HIDE DEF all
  <2> QED BY <2>1, LatestTold
<1>7. rest \subseteq LastTwo(all)
  <2>1. new \in all
    OBVIOUS
  <2> HIDE DEF all
  <2> QED BY <1>1, <1>3, <2>1, LatestTold
<1> QED BY <1>6, <1>7 DEF new

\* After a run, the latest two events have all of the closures S it found, or lack
\* too few.
LEMMA RunReports ==
  ASSUME NEW E \in SUBSET ClosureEvent, NEW S \in SUBSET Plugins, NEW now \in Nat,
         NEW t \in Nat, \A e \in E : e.at <= t
  PROVE  Cardinality(S \ LastTwo(Recorded(E, S, now))) < Threshold
<1> DEFINE left == S \ LastTwo(Recorded(E, S, now))
<1>1. ASSUME NEW T \in SUBSET S, left \subseteq T, Cardinality(T) < Threshold
      PROVE  Cardinality(left) < Threshold
  <2>1. T \in SUBSET Plugins /\ left \in SUBSET T
    BY <1>1
  <2> HIDE DEF left
  <2>2. Cardinality(left) \in Nat /\ Cardinality(T) \in Nat /\ Cardinality(left) <= Cardinality(T)
    BY <2>1, PluginSets
  <2> QED BY <1>1, <2>2, ClosureAssumption
<1>2. Cardinality({}) < Threshold
  BY FS_EmptySet, ClosureAssumption
<1>3. CASE Cardinality(S) < Threshold
  BY <1>1, <1>3
<1>4. CASE /\ \E e \in E : e.at >= now - Window
           /\ Recorded(E, S, now) = Extended(E, S)
  <2>1. PICK e \in E : IsLatest(e, E)
    BY <1>4, LatestExists
  <2>2. left = {}
    BY <1>4, <2>1, ExtendedTold
  <2> QED BY <1>2, <2>2
<1>5. CASE /\ ~ \E e \in E : e.at >= now - Window
           /\ Recorded(E, S, now) = Opened(E, S, now)
  <2>1. PICK rest \in SUBSET S :
          /\ rest = {p \in S : \A e \in E : IsLatest(e, E) => p \notin e.slugs}
          /\ \/ Cardinality(rest) < Threshold /\ Opened(E, S, now) = E
             \/ Opened(E, S, now) = E \cup {[at |-> now, slugs |-> rest]}
    BY OpenedRest, ZenonT(60)
  <2>2. \A p \in S \ rest : \E e \in E : IsLatest(e, E) /\ p \in e.slugs
    BY <2>1
  <2>3. CASE Cardinality(rest) < Threshold /\ Opened(E, S, now) = E
    <3>1. \A e \in E : IsLatest(e, E) => e.slugs \subseteq LastTwo(E)
      BY LatestTold
    <3>2. left \subseteq rest
      BY <1>5, <2>2, <2>3, <3>1
    <3> QED BY <1>1, <2>3, <3>2
  <2>4. CASE Opened(E, S, now) = E \cup {[at |-> now, slugs |-> rest]}
    <3> DEFINE all == E \cup {[at |-> now, slugs |-> rest]}
    <3>1. \A e \in E : e.at < now
      BY <1>5, ClosureAssumption DEF ClosureEvent
    <3>2. rest \in SUBSET Plugins
      OBVIOUS
    <3>3. /\ rest \subseteq LastTwo(all)
          /\ \A e \in E : IsLatest(e, E) => e.slugs \subseteq LastTwo(all)
      BY <3>1, <3>2, OpenedTold
    <3>4. Recorded(E, S, now) = all
      BY <1>5, <2>4
    <3> HIDE DEF all
    <3>5. left = {}
      BY <2>2, <3>3, <3>4
    <3> QED BY <1>2, <3>5
  <2> QED BY <2>1, <2>3, <2>4
<1> QED BY <1>3, <1>4, <1>5, RecordedCases

LEMMA ReportedStep ==
  ASSUME IInv, EveryOutbreakReported, [Next]_vars
  PROVE  EveryOutbreakReported'
<1> SUFFICES ASSUME NEW v \in Vendors PROVE Cardinality(Unreported(v)') < Threshold
  BY DEF EveryOutbreakReported, Unreported
<1>1. Unreported(v) \in SUBSET Plugins /\ Cardinality(Unreported(v)) < Threshold
  BY DEF EveryOutbreakReported, Unreported, IInv, TypeOK, Closure, Since
\* Time and the clean-up only take closures out of the window.
<1>2. ASSUME events' = events, tracked' \subseteq tracked, clock' \in Nat, clock <= clock'
      PROVE  Cardinality(Unreported(v)') < Threshold
  <2>1. Since(clock' - Window, tracked') \subseteq Since(clock - Window, tracked)
    BY <1>2, ClosureAssumption DEF Since, IInv, TypeOK, Closure
  <2>2. Unreported(v)' \in SUBSET Unreported(v)
    BY <1>2, <2>1 DEF Unreported, Reported
  <2>3. /\ Cardinality(Unreported(v)') \in Nat /\ Cardinality(Unreported(v)) \in Nat
        /\ Cardinality(Unreported(v)') <= Cardinality(Unreported(v))
    BY <1>1, <2>2, PluginSets
  <2> QED BY <1>1, <2>3, ClosureAssumption
<1>3. ASSUME NEW a \in Checkers, CommitTx(a)
      PROVE  Cardinality(Unreported(v)') < Threshold
  <2> DEFINE now == check[a].now
             S == Recent(v, now - Window)
             E == events[v]
             left == S \ LastTwo(Recorded(E, S, now))
  <2>1. /\ now \in Nat /\ now <= clock /\ E \in SUBSET ClosureEvent /\ S \in SUBSET Plugins
        /\ events'[v] = Recorded(E, S, now)
    BY <1>3, CommitOf
  <2>2. clock \in Nat /\ \A e \in E : e.at <= clock
    BY DEF IInv, TypeOK, EventsPast
  <2>3. Since(clock' - Window, tracked') \subseteq Since(now - Window, changes)
    BY <1>3, <2>1, <2>2, ClosureAssumption DEF CommitTx, Since, IInv, TypeOK, Closure
  <2>4. Unreported(v)' \in SUBSET left
    BY <2>1, <2>3 DEF Unreported, Reported, Recent
  <2>5. Cardinality(left) < Threshold
    <3> HIDE DEF now, S, E
    <3> QED BY <2>1, <2>2, RunReports
  <2>6. left \in SUBSET Plugins
    BY <2>1
  <2> HIDE DEF left
  <2>7. /\ Cardinality(Unreported(v)') \in Nat /\ Cardinality(left) \in Nat
        /\ Cardinality(Unreported(v)') <= Cardinality(left)
    BY <2>4, <2>6, PluginSets
  <2> QED BY <2>5, <2>7, ClosureAssumption
<1>4. CASE Tick
  BY <1>2, <1>4 DEF Tick, IInv, TypeOK
<1>5. ASSUME NEW a \in Checkers, StartStatusCheck(a)
      PROVE  Cardinality(Unreported(v)') < Threshold
  BY <1>2, <1>5 DEF StartStatusCheck, IInv, TypeOK, Since
<1>6. ASSUME UNCHANGED <<clock, events, tracked>>
      PROVE  Cardinality(Unreported(v)') < Threshold
  BY <1>2, <1>6 DEF IInv, TypeOK
<1> QED BY <1>3, <1>4, <1>5, <1>6
     DEF Next, vars, RecordStatusCheckChange, BeginTx, RollbackTx, FinishStatusCheck, Crash

\* Whatever runs subtract, merge or leave for later, what they have looked at and left
\* out of a vendor's latest two events never amounts to an outbreak. The events may be
\* old ones, whose plugins are subtracted without a bound in time (closures.go:101-115).
THEOREM OutbreaksReported == Spec => []EveryOutbreakReported
<1>1. Init => IInv /\ EveryOutbreakReported
  <2>1. ASSUME Init, NEW v \in Vendors PROVE Unreported(v) = {}
    BY <2>1 DEF Init, Unreported, Since
  <2>2. Cardinality({}) < Threshold
    BY FS_EmptySet, ClosureAssumption
  <2>3. Init => EveryOutbreakReported
    BY <2>1, <2>2 DEF EveryOutbreakReported, Unreported
  <2> QED BY <2>3, TypesInit
<1>2. IInv /\ EveryOutbreakReported /\ [Next]_vars => (IInv /\ EveryOutbreakReported)'
  BY TypesStep, ReportedStep
<1> QED BY <1>1, <1>2, PTL DEF Spec

=============================================================================
