------------------------- MODULE InstallTelemetryProofs -------------------------
(***************************************************************************)
(* What holds of install telemetry for every number of packages and clients  *)
(* and every bound, with a timed and a manual run that overlap and die at    *)
(* any step: nothing is skipped, nothing is taken back, and the counters     *)
(* implement InstallCounter.                                                 *)
(***************************************************************************)
EXTENDS InstallTelemetry, FiniteSetTheorems, Extremes

RunState(t) ==
  [step : Steps,
   now : 0 .. t, low : Nat, high : Nat]

-----------------------------------------------------------------------------
(* Ids, dates and sets of events.                                           *)

Top(E) == Max({0} \cup {e.id : e \in E})

IsTop(n, E) ==
  n \in Nat /\ (\A e \in E : e.id <= n) /\ (n = 0 \/ \E e \in E : e.id = n)

\* The ids have a bound, as those of a finite table have.
Bounded == \E n \in Nat : \A e \in events : e.id <= n

LEMMA TopIs ==
  ASSUME NEW E \in SUBSET Event, NEW b \in Nat, \A e \in E : e.id <= b
  PROVE  IsTop(Top(E), E)
<1> DEFINE Ids == {0} \cup {e.id : e \in E}
<1>1. \A e \in E : e.id \in Nat
  BY DEF Event
<1>2. Ids \in SUBSET Nat /\ Ids # {}
  BY <1>1
<1>3. \A i \in Ids : i <= b
  OBVIOUS
<1>4. \A e \in E : e.id \in Ids
  OBVIOUS
<1>5. \A i \in Ids : i = 0 \/ \E e \in E : e.id = i
  OBVIOUS
<1>6. Top(E) = Max(Ids)
  BY DEF Top
<1> HIDE DEF Ids
<1>7. Max(Ids) \in Ids /\ \A i \in Ids : i <= Max(Ids)
  BY <1>2, <1>3, GreatestExists
<1> QED BY <1>2, <1>4, <1>5, <1>6, <1>7 DEF IsTop

LEMMA TopOnly ==
  ASSUME NEW E \in SUBSET Event, NEW m, NEW n, IsTop(m, E), IsTop(n, E)
  PROVE  m = n
BY DEF IsTop, Event

LEMMA MaxIdIs == ASSUME TypeOK, Bounded PROVE IsTop(MaxId, events)
<1>1. PICK b \in Nat : \A e \in events : e.id <= b
  BY DEF Bounded
<1>2. events \in SUBSET Event
  BY DEF TypeOK
<1>3. IsTop(Top(events), events)
  BY <1>1, <1>2, TopIs
<1> QED BY <1>3 DEF MaxId, Top

\* MaxId after a step, from what is known of the events then.
LEMMA MaxIdNext ==
  ASSUME NEW n, events' \in SUBSET Event, IsTop(n, events')
  PROVE  MaxId' = n /\ Bounded'
<1>1. n \in Nat /\ \A e \in events' : e.id <= n
  BY DEF IsTop
<1>2. IsTop(Top(events'), events')
  BY <1>1, TopIs
<1>3. Top(events') = n
  BY <1>2, TopOnly
<1> QED BY <1>1, <1>3 DEF MaxId, Top, Bounded

\* What Latest makes of a date.
LEMMA LatestOf ==
  ASSUME TypeOK, NEW S \in SUBSET events, NEW l \in 0 .. clock
  PROVE  /\ Latest(l, S) \in 0 .. clock /\ l <= Latest(l, S)
         /\ \A e \in S : e.at <= Latest(l, S)
         /\ S = {} => Latest(l, S) = l
<1> DEFINE Dates == {l} \cup {e.at : e \in S}
<1>1. clock \in Nat /\ \A e \in S : e.at \in Nat /\ e.at <= clock
  BY DEF TypeOK, Event
<1>2. Dates \in SUBSET Nat /\ Dates # {} /\ \A d \in Dates : d <= clock
  BY <1>1
<1>3. l \in Dates /\ \A e \in S : e.at \in Dates
  OBVIOUS
<1>4. S = {} => Dates = {l}
  OBVIOUS
<1>5. Latest(l, S) = Max(Dates)
  BY DEF Latest
<1> HIDE DEF Dates
<1>6. Max(Dates) \in Dates /\ \A d \in Dates : d <= Max(Dates)
  BY <1>1, <1>2, GreatestExists
<1>7. Max(Dates) \in 0 .. clock
  <2>1. Max(Dates) \in Nat
    BY <1>2, <1>6
  <2>2. Max(Dates) <= clock
    BY <1>2, <1>6
  <2> QED BY <1>1, <2>1, <2>2
<1>8. S = {} => Max(Dates) = l
  BY <1>4, <1>6
<1>9. l <= Max(Dates) /\ \A e \in S : e.at <= Max(Dates)
  BY <1>3, <1>6
<1> QED BY <1>5, <1>7, <1>8, <1>9

LEMMA SizeOf ==
  ASSUME NEW E, IsFiniteSet(E), NEW S \in SUBSET E, NEW p
  PROVE  /\ IsFiniteSet(S) /\ IsFiniteSet(EventsOf(p, S))
         /\ Cardinality(EventsOf(p, S)) \in Nat
         /\ Cardinality(EventsOf(p, S)) <= Cardinality(EventsOf(p, E))
         /\ Cardinality(EventsOf(p, S)) = 0 => EventsOf(p, S) = {}
<1>1. IsFiniteSet(S) /\ IsFiniteSet(EventsOf(p, E))
  BY FS_Subset DEF EventsOf
<1>2. EventsOf(p, S) \in SUBSET EventsOf(p, E)
  BY DEF EventsOf
<1>3. IsFiniteSet(EventsOf(p, S)) /\ Cardinality(EventsOf(p, S)) <= Cardinality(EventsOf(p, E))
  BY <1>1, <1>2, FS_Subset
<1> QED BY <1>1, <1>3, FS_CardinalityType, FS_EmptySet

-----------------------------------------------------------------------------
(* Types.                                                                   *)

\* The steps of a run that change nothing but that run.
RunMoves(a) ==
  /\ run' \in [Runs -> RunState(clock)]
  /\ \A b \in Runs \ {a} : run'[b] = run[b]
  /\ UNCHANGED clock

LEMMA RunSteps ==
  ASSUME TypeOK, Bounded, NEW a \in Runs, Aggregate(a) \/ Crash(a)
  PROVE  RunMoves(a)
<1>1. MaxId \in Nat
  BY MaxIdIs DEF IsTop
<1>2. run \in [Runs -> RunState(clock)] /\ clock \in Nat /\ watermark \in Nat
  BY DEF TypeOK, RunState
<1>3. ASSUME NEW r \in RunState(clock), run' = [run EXCEPT ![a] = r], clock' = clock
      PROVE  RunMoves(a)
  BY <1>2, <1>3 DEF RunMoves
<1>4. Idle \in RunState(clock)
  BY <1>2 DEF Idle, RunState, Steps
<1>5. 0 \in 0 .. clock /\ clock \in 0 .. clock
  BY <1>2
<1>6. CASE StartRun(a)
  <2>1. [step |-> "high", now |-> clock, low |-> watermark, high |-> 0] \in RunState(clock)
    BY <1>2, <1>5 DEF RunState, Steps
  <2> QED BY <1>3, <1>6, <2>1 DEF StartRun
<1>7. CASE ReadHigh(a)
  <2>1. CASE MaxId > run[a].low
    <3>1. run' = [run EXCEPT ![a] = [run[a] EXCEPT !.step = "count", !.high = MaxId]]
      BY <1>2, <1>7, <2>1 DEF ReadHigh
    <3>2. [run[a] EXCEPT !.step = "count", !.high = MaxId] \in RunState(clock)
      BY <1>1, <1>2 DEF RunState, Steps
    <3> QED BY <1>3, <1>7, <3>1, <3>2 DEF ReadHigh
  <2>2. CASE ~(MaxId > run[a].low)
    <3>1. run' = [run EXCEPT ![a] = [run[a] EXCEPT !.step = "totals", !.low = 0]]
      BY <1>2, <1>7, <2>2 DEF ReadHigh
    <3>2. [run[a] EXCEPT !.step = "totals", !.low = 0] \in RunState(clock)
      BY <1>2 DEF RunState, Steps
    <3> QED BY <1>3, <1>7, <3>1, <3>2 DEF ReadHigh
  <2> QED BY <2>1, <2>2
<1>8. CASE CountNew(a)
  <2>1. run' = [run EXCEPT ![a] = [run[a] EXCEPT !.step = "totals", !.low = 0, !.high = 0]]
    BY <1>2, <1>8 DEF CountNew, Done
  <2>2. [run[a] EXCEPT !.step = "totals", !.low = 0, !.high = 0] \in RunState(clock)
    BY <1>2 DEF RunState, Steps
  <2> QED BY <1>3, <1>8, <2>1, <2>2 DEF CountNew, Done
<1>9. CASE Recompute(a)
  <2>1. PICK s \in {"nototals", "recent", "norecent", "prune"} : run' = [run EXCEPT ![a] = [run[a] EXCEPT !.step = s]]
    BY <1>2, <1>9 DEF Recompute, Totals, ResetTotals, Recent, ResetRecent, Recount
  <2>2. [run[a] EXCEPT !.step = s] \in RunState(clock)
    BY <1>2 DEF RunState, Steps
  <2> QED BY <1>3, <1>9, <2>1, <2>2 DEF Recompute, Totals, ResetTotals, Recent, ResetRecent, Recount
<1>10. CASE Prune(a) \/ Crash(a)
  BY <1>3, <1>4, <1>10 DEF Prune, Crash
<1> QED BY <1>6, <1>7, <1>8, <1>9, <1>10 DEF Aggregate

\* The install a download inserts.
NewEvent(c) ==
  [id |-> MaxId + 1, pkg |-> request[c].pkg, client |-> c,
   bucket |-> request[c].at \div Bucket, at |-> request[c].at]

Inserts(c) ==
  /\ NewEvent(c) \in Event /\ NewEvent(c).at <= clock
  /\ events' = events \cup {NewEvent(c)} /\ uncounted' = uncounted \cup {NewEvent(c)}
  /\ recorded' = [recorded EXCEPT ![request[c].pkg] = @ + 1]
  /\ raced' = (raced \/ \E a \in Runs : run[a].step = "count")

LEMMA Recording ==
  ASSUME TypeOK, Bounded, NEW c \in Clients, NEW ok, RecordInstall(c, ok)
  PROVE  /\ request[c].pkg \in Packages
         /\ Inserts(c) \/ UNCHANGED <<events, uncounted, recorded, raced>>
         /\ request' \in [Clients -> [pkg : Packages \cup {NoPackage}, at : 0 .. clock]]
         /\ request'[c].pkg = NoPackage
         /\ \A d \in Clients \ {c} : request'[d] = request[d]
<1> DEFINE Req == [pkg : Packages \cup {NoPackage}, at : 0 .. clock]
<1>1. request[c] \in Req /\ request[c].pkg \in Packages /\ request[c].at \in 0 .. clock
  BY DEF TypeOK, RecordInstall
<1>2. request' = [request EXCEPT ![c] = [request[c] EXCEPT !.pkg = NoPackage, !.at = 0]]
  BY DEF RecordInstall, TypeOK
<1>3. clock \in Nat
  BY DEF TypeOK
<1>4. /\ [request[c] EXCEPT !.pkg = NoPackage, !.at = 0] \in Req
      /\ [request[c] EXCEPT !.pkg = NoPackage, !.at = 0].pkg = NoPackage
  <2>1. ASSUME NEW P, NEW T, NoPackage \in P, 0 \in T, NEW q \in [pkg : P, at : T]
        PROVE  /\ [q EXCEPT !.pkg = NoPackage, !.at = 0] \in [pkg : P, at : T]
               /\ [q EXCEPT !.pkg = NoPackage, !.at = 0].pkg = NoPackage
    <3>1. [q EXCEPT !.pkg = NoPackage, !.at = 0] \in [pkg : P, at : T]
      BY <2>1
    <3>2. [q EXCEPT !.pkg = NoPackage, !.at = 0].pkg = NoPackage
      BY <2>1
    <3> QED BY <3>1, <3>2
  <2>2. 0 \in 0 .. clock /\ NoPackage \in Packages \cup {NoPackage}
    BY <1>3
  <2> QED BY <1>1, <2>1, <2>2
<1>6. request' \in [Clients -> Req] /\ request'[c].pkg = NoPackage
        /\ \A d \in Clients \ {c} : request'[d] = request[d]
  BY <1>2, <1>4 DEF TypeOK
<1>7. MaxId + 1 \in Nat /\ request[c].at \div Bucket \in Nat /\ request[c].at \in Nat
  BY <1>1, <1>3, MaxIdIs, TelemetryAssumption DEF IsTop
<1>8. NewEvent(c) \in Event /\ NewEvent(c).at <= clock
  BY <1>1, <1>3, <1>7 DEF NewEvent, Event
<1>9. Inserts(c) \/ UNCHANGED <<events, uncounted, recorded, raced>>
  BY <1>8 DEF RecordInstall, Inserts, NewEvent
<1> QED BY <1>1, <1>6, <1>9

\* What the transaction does to the counters.
LEMMA Counting ==
  ASSUME TypeOK, NEW a \in Runs, CountNew(a)
  PROVE  /\ run[a].step = "count" /\ watermark' = run[a].high
         /\ uncounted' = uncounted \ NewEvents(a)
         /\ monthly' = [p \in Packages |-> monthly[p] + Cardinality(EventsOf(p, NewEvents(a)))]
         /\ \A p \in Packages :
              /\ Cardinality(EventsOf(p, NewEvents(a))) \in Nat
              /\ counter'[p].total = counter[p].total
              /\ counter'[p].last = Latest(counter[p].last, EventsOf(p, NewEvents(a)))
         /\ counter' \in [Packages -> [total : Nat, recent : Nat, last : 0 .. clock]]
<1> DEFINE C == [total : Nat, recent : Nat, last : 0 .. clock]
           new(p) == [counter[p] EXCEPT !.last = Latest(counter[p].last, EventsOf(p, NewEvents(a)))]
<1>1. IsFiniteSet(events) /\ NewEvents(a) \in SUBSET events
  BY DEF TypeOK, NewEvents
<1>2. ASSUME NEW p \in Packages
      PROVE  /\ Cardinality(EventsOf(p, NewEvents(a))) \in Nat
             /\ new(p) \in C /\ new(p).total = counter[p].total
             /\ new(p).last = Latest(counter[p].last, EventsOf(p, NewEvents(a)))
  <2>1. Cardinality(EventsOf(p, NewEvents(a))) \in Nat
    BY <1>1, SizeOf
  <2>2. EventsOf(p, NewEvents(a)) \in SUBSET events
    BY <1>1 DEF EventsOf
  <2>3. counter[p] \in C
    BY DEF TypeOK
  <2>4. Latest(counter[p].last, EventsOf(p, NewEvents(a))) \in 0 .. clock
    BY <2>2, <2>3, LatestOf
  <2>5. ASSUME NEW c \in C, NEW l \in 0 .. clock
        PROVE  [c EXCEPT !.last = l] \in C /\ [c EXCEPT !.last = l].total = c.total
               /\ [c EXCEPT !.last = l].last = l
    OBVIOUS
  <2> QED BY <2>1, <2>3, <2>4, <2>5
<1>3. counter' = [p \in Packages |-> new(p)]
  BY DEF CountNew, Dated
<1> HIDE DEF new
<1> QED BY <1>2, <1>3 DEF CountNew, Counted, Done

\* What the totals and the recent counts become.
LEMMA Summing ==
  ASSUME TypeOK, NEW a \in Runs, Recompute(a)
  PROVE  /\ counter' \in [Packages -> [total : Nat, recent : Nat, last : 0 .. clock]]
         /\ \A p \in Packages :
              /\ counter'[p].total = counter[p].total \/ counter'[p].total = monthly[p]
              /\ counter'[p].last = counter[p].last \/ (monthly[p] = 0 /\ counter'[p].last = 0)
<1> DEFINE C == [total : Nat, recent : Nat, last : 0 .. clock]
           Right(p, c) == /\ c \in C
                          /\ c.total = counter[p].total \/ c.total = monthly[p]
                          /\ c.last = counter[p].last \/ (monthly[p] = 0 /\ c.last = 0)
<1>1. ASSUME NEW p \in Packages
      PROVE  /\ counter[p] \in C /\ monthly[p] \in Nat /\ 0 \in 0 .. clock
             /\ Cardinality(InWindow(a, p)) \in Nat
  <2>1. IsFiniteSet(InWindow(a, p))
    BY FS_Subset DEF TypeOK, EventsOf, InWindow
  <2> QED BY <2>1, FS_CardinalityType DEF TypeOK
<1>2. ASSUME NEW p \in Packages, NEW c \in C, NEW n \in Nat, NEW l \in 0 .. clock
      PROVE  /\ [c EXCEPT !.total = n] \in C /\ [c EXCEPT !.total = n].total = n
             /\ [c EXCEPT !.total = n].last = c.last
             /\ [c EXCEPT !.total = n, !.last = l] \in C
             /\ [c EXCEPT !.total = n, !.last = l].total = n
             /\ [c EXCEPT !.total = n, !.last = l].last = l
             /\ [c EXCEPT !.recent = n] \in C /\ [c EXCEPT !.recent = n].total = c.total
             /\ [c EXCEPT !.recent = n].last = c.last
  OBVIOUS
<1>3. CASE Totals(a)
  <2> DEFINE new(p) == IF monthly[p] = 0 THEN counter[p] ELSE [counter[p] EXCEPT !.total = monthly[p]]
  <2>1. counter' = [p \in Packages |-> new(p)]
    BY <1>3 DEF Totals
  <2>2. ASSUME NEW p \in Packages PROVE Right(p, new(p))
    BY <1>1, <1>2
  <2> HIDE DEF new
  <2> QED BY <2>1, <2>2
<1>4. CASE ResetTotals(a)
  <2> DEFINE new(p) == IF monthly[p] # 0 THEN counter[p] ELSE [counter[p] EXCEPT !.total = 0, !.last = 0]
  <2>1. counter' = [p \in Packages |-> new(p)]
    BY <1>4 DEF ResetTotals
  <2>2. ASSUME NEW p \in Packages PROVE Right(p, new(p))
    BY <1>1, <1>2
  <2> HIDE DEF new
  <2> QED BY <2>1, <2>2
<1>5. CASE Recent(a)
  <2> DEFINE new(p) == IF InWindow(a, p) = {} THEN counter[p]
                      ELSE [counter[p] EXCEPT !.recent = Cardinality(InWindow(a, p))]
  <2>1. counter' = [p \in Packages |-> new(p)]
    BY <1>5 DEF Recent
  <2>2. ASSUME NEW p \in Packages PROVE Right(p, new(p))
    BY <1>1, <1>2
  <2> HIDE DEF new
  <2> QED BY <2>1, <2>2
<1>6. CASE ResetRecent(a)
  <2> DEFINE new(p) == IF InWindow(a, p) # {} THEN counter[p] ELSE [counter[p] EXCEPT !.recent = 0]
  <2>1. counter' = [p \in Packages |-> new(p)]
    BY <1>6 DEF ResetRecent
  <2>2. ASSUME NEW p \in Packages PROVE Right(p, new(p))
    BY <1>1, <1>2
  <2> HIDE DEF new
  <2> QED BY <2>1, <2>2
<1> QED BY <1>3, <1>4, <1>5, <1>6 DEF Recompute

LEMMA TypesStep ==
  ASSUME TypeOK, Bounded, [Next]_vars
  PROVE  TypeOK'
<1>1. CASE Tick
  <2>1. clock \in Nat /\ clock' = clock + 1 /\ 0 .. clock \subseteq 0 .. clock'
    BY <1>1 DEF Tick, TypeOK
  <2>2. run' \in [Runs -> RunState(clock')]
    <3>1. run' \in [Runs -> RunState(clock)] /\ RunState(clock) \subseteq RunState(clock')
      BY <1>1, <2>1 DEF Tick, TypeOK, RunState
    <3> QED BY <3>1
  <2>3. request' \in [Clients -> [pkg : Packages \cup {NoPackage}, at : 0 .. clock']]
    BY <1>1, <2>1 DEF Tick, TypeOK
  <2>4. counter' \in [Packages -> [total : Nat, recent : Nat, last : 0 .. clock']]
    BY <1>1, <2>1 DEF Tick, TypeOK
  <2>5. \A e \in events' : e.at <= clock'
    BY <1>1, <2>1 DEF Tick, TypeOK, Event
  <2> QED BY <1>1, <2>1, <2>2, <2>3, <2>4, <2>5 DEF Tick, TypeOK, RunState
<1>2. ASSUME NEW c \in Clients, NEW p \in Packages, LookupPackageID(c, p) PROVE TypeOK'
  <2>1. [pkg |-> p, at |-> clock] \in [pkg : Packages \cup {NoPackage}, at : 0 .. clock]
    BY DEF TypeOK
  <2>2. request' \in [Clients -> [pkg : Packages \cup {NoPackage}, at : 0 .. clock]]
    BY <1>2, <2>1 DEF LookupPackageID, TypeOK
  <2> QED BY <1>2, <2>2 DEF LookupPackageID, TypeOK
<1>3. ASSUME NEW c \in Clients, NEW ok \in BOOLEAN, RecordInstall(c, ok) PROVE TypeOK'
  <2>1. /\ request' \in [Clients -> [pkg : Packages \cup {NoPackage}, at : 0 .. clock]]
        /\ request[c].pkg \in Packages
        /\ Inserts(c) \/ UNCHANGED <<events, uncounted, recorded, raced>>
    BY <1>3, Recording
  <2>2. UNCHANGED <<clock, watermark, monthly, counter, run>>
    BY <1>3 DEF RecordInstall
  <2>3. CASE Inserts(c)
    <3>1. IsFiniteSet(events') /\ events' \subseteq Event /\ uncounted' \subseteq Event
      BY <2>3, FS_AddElement DEF Inserts, TypeOK
    <3>2. recorded' \in [Packages -> Nat] /\ raced' \in BOOLEAN
      BY <2>1, <2>3 DEF Inserts, TypeOK
    <3>3. \A e \in events' : e.at <= clock
      BY <2>3 DEF Inserts, TypeOK
    <3> QED BY <2>1, <2>2, <3>1, <3>2, <3>3 DEF TypeOK
  <2>4. CASE UNCHANGED <<events, uncounted, recorded, raced>>
    BY <2>1, <2>2, <2>4 DEF TypeOK
  <2> QED BY <2>1, <2>3, <2>4
<1>4. ASSUME NEW a \in Runs, Aggregate(a) \/ Crash(a) PROVE TypeOK'
  <2>1. run' \in [Runs -> RunState(clock)] /\ clock' = clock
    BY <1>4, RunSteps DEF RunMoves
  <2> USE DEF RunState
  <2>2. CASE StartRun(a)
    BY <2>1, <2>2 DEF StartRun, TypeOK
  <2>3. CASE ReadHigh(a)
    BY <2>1, <2>3 DEF ReadHigh, TypeOK
  <2>4. CASE CountNew(a)
    <3>1. monthly' \in [Packages -> Nat]
      BY <2>4, Counting DEF TypeOK
    <3>2. counter' \in [Packages -> [total : Nat, recent : Nat, last : 0 .. clock]]
      BY <2>4, Counting
    <3>3. watermark' \in Nat /\ uncounted' \subseteq Event
      BY <2>4, Counting DEF TypeOK
    <3> QED BY <2>1, <2>4, <3>1, <3>2, <3>3 DEF CountNew, Done, TypeOK
  <2>5. CASE Recompute(a)
    <3>1. counter' \in [Packages -> [total : Nat, recent : Nat, last : 0 .. clock]]
      BY <2>5, Summing
    <3> QED BY <2>1, <2>5, <3>1 DEF Recompute, Totals, ResetTotals, Recent, ResetRecent, Recount, TypeOK
  <2>6. CASE Prune(a)
    <3>1. events' \in SUBSET events
      BY <2>6 DEF Prune, Kept
    <3>2. IsFiniteSet(events')
      BY <3>1, FS_Subset DEF TypeOK
    <3> QED BY <2>1, <2>6, <3>1, <3>2 DEF Prune, TypeOK
  <2>7. CASE Crash(a)
    BY <2>1, <2>7 DEF Crash, TypeOK
  <2> QED BY <1>4, <2>2, <2>3, <2>4, <2>5, <2>6, <2>7 DEF Aggregate
<1>5. CASE UNCHANGED vars
  BY <1>5 DEF vars, TypeOK
<1> QED BY <1>1, <1>2, <1>3, <1>4, <1>5 DEF Next, Downloads

-----------------------------------------------------------------------------
(* Nothing is skipped.                                                      *)

\* Watermarks are ids that were given.
Below ==
  /\ watermark <= MaxId
  /\ \A a \in Runs : run[a].low <= MaxId /\ run[a].high <= MaxId

\* A download is recorded soon, and the newest event is not old enough to be pruned.
Fresh ==
  /\ clock >= 1
  /\ \A c \in Clients : request[c].pkg # NoPackage => request[c].at >= 1 /\ request[c].at + 1 >= clock
  /\ \A e \in events : e.at >= 1 /\ (e.id = MaxId => e.at + Retention >= clock)

Recounting == {"totals", "nototals", "recent", "norecent", "prune"}

\* What a run has not counted when it comes to prune was recorded since it began.
PruneSafe ==
  \A a \in Runs : run[a].step \in Recounting =>
    \A e \in uncounted : e.at + 1 >= run[a].now

IInv == TypeOK /\ Bounded /\ Below /\ Fresh /\ NothingSkipped /\ PruneSafe

LEMMA Members ==
  ASSUME TypeOK, Bounded
  PROVE  /\ IsTop(MaxId, events) /\ MaxId \in Nat /\ clock \in Nat /\ watermark \in Nat
         /\ \A e \in events : e \in Event /\ e.id \in Nat /\ e.at \in Nat /\ e.id <= MaxId /\ e.at <= clock
         /\ \A a \in Runs : /\ run[a].low \in Nat /\ run[a].high \in Nat
                            /\ run[a].now \in Nat /\ run[a].now <= clock
         /\ \A c \in Clients : request[c].at \in Nat /\ request[c].at <= clock
BY MaxIdIs DEF IsTop, TypeOK, Event

\* The steps of a run that leave the table and the requests alone.
LEMMA RunFrame ==
  ASSUME IInv, NEW a \in Runs, RunMoves(a), TypeOK',
         UNCHANGED <<request, events>>, uncounted' \subseteq uncounted,
         watermark' <= MaxId, run'[a].low <= MaxId, run'[a].high <= MaxId,
         \A e \in uncounted' : e.id > watermark' /\ e.id > run'[a].low,
         run'[a].step \in Recounting =>
           \A e \in uncounted' : e.at + 1 >= run'[a].now
  PROVE  IInv'
<1>1. MaxId' = MaxId
  BY DEF MaxId
<1>2. Bounded'
  BY DEF IInv, Bounded
<1>3. Below'
  BY <1>1 DEF IInv, Below, RunMoves
<1>4. Fresh'
  BY <1>1 DEF IInv, Fresh, RunMoves
<1>5. NothingSkipped'
  <2>1. ASSUME NEW e \in uncounted' PROVE e \in events' /\ e.id > watermark'
    BY <2>1 DEF IInv, NothingSkipped
  <2>2. ASSUME NEW e \in uncounted', NEW b \in Runs PROVE e.id > run'[b].low
    BY <2>2 DEF IInv, NothingSkipped, RunMoves
  <2> QED BY <2>1, <2>2 DEF NothingSkipped
<1>6. PruneSafe'
  <2>1. ASSUME NEW b \in Runs, run'[b].step \in Recounting, NEW e \in uncounted'
        PROVE  e.at + 1 >= run'[b].now
    BY <2>1 DEF IInv, PruneSafe, RunMoves
  <2> QED BY <2>1 DEF PruneSafe
<1> QED BY <1>2, <1>3, <1>4, <1>5, <1>6 DEF IInv

\* The moves of a run, as far as the watermarks are concerned.
LEMMA RunStep ==
  ASSUME IInv, NEW a \in Runs, Aggregate(a) \/ Crash(a), ~Prune(a)
  PROVE  IInv'
<1>1. RunMoves(a)
  BY RunSteps DEF IInv
<1>2. TypeOK'
  BY TypesStep DEF IInv, Next
<1>3. /\ MaxId \in Nat /\ watermark \in Nat /\ watermark <= MaxId
      /\ run[a].low \in Nat /\ run[a].high \in Nat /\ run[a].low <= MaxId /\ run[a].high <= MaxId
  BY Members DEF IInv, Below
<1>4. ASSUME NEW e \in uncounted
      PROVE  e.id \in Nat /\ e.id > watermark /\ e.id > run[a].low /\ e.id > 0 /\ e.id <= MaxId
             /\ e \in NewEvents(a)
  <2>1. e \in events /\ e.id > watermark /\ e.id > run[a].low
    BY <1>4 DEF IInv, NothingSkipped
  <2>2. e.id \in Nat /\ e.id <= MaxId
    BY <2>1, Members DEF IInv
  <2> QED BY <1>3, <2>1, <2>2 DEF NewEvents
<1>5. run \in [Runs -> RunState(clock)]
  BY DEF IInv, TypeOK, RunState
<1>6. CASE StartRun(a)
  <2>1. run'[a] = [step |-> "high", now |-> clock, low |-> watermark, high |-> 0]
    BY <1>5, <1>6 DEF StartRun
  <2> QED BY <1>1, <1>2, <1>3, <1>4, <1>6, <2>1, RunFrame DEF StartRun, Recounting
<1>7. CASE ReadHigh(a)
  <2>1. UNCHANGED <<request, events, uncounted, watermark>>
    BY <1>7 DEF ReadHigh
  <2>2. CASE MaxId > run[a].low
    <3>1. run'[a].step = "count" /\ run'[a].low = run[a].low /\ run'[a].high = MaxId
      BY <1>5, <1>7, <2>2 DEF ReadHigh, RunState
    <3> QED BY <1>1, <1>2, <1>3, <1>4, <2>1, <3>1, RunFrame DEF Recounting
  <2>3. CASE ~(MaxId > run[a].low)
    <3>1. run'[a].step = "totals" /\ run'[a].low = 0 /\ run'[a].high = run[a].high
      BY <1>5, <1>7, <2>3 DEF ReadHigh, RunState
    <3>2. uncounted = {}
      BY <1>3, <1>4, <2>3
    <3> QED BY <1>1, <1>2, <1>3, <2>1, <3>1, <3>2, RunFrame
  <2> QED BY <2>2, <2>3
<1>8. CASE CountNew(a)
  <2>1. run'[a].step = "totals" /\ run'[a].low = 0 /\ run'[a].high = 0
    BY <1>5, <1>8 DEF CountNew, Done, RunState
  <2>2. uncounted' = {} /\ watermark' = run[a].high /\ UNCHANGED <<request, events>>
    BY <1>4, <1>8 DEF CountNew, Done
  <2> QED BY <1>1, <1>2, <1>3, <2>1, <2>2, RunFrame
<1>9. CASE Recompute(a)
  <2>1. /\ run[a].step \in Recounting /\ run'[a].low = run[a].low
        /\ run'[a].high = run[a].high /\ run'[a].now = run[a].now
    <3>1. PICK from \in Recounting, to \in Recounting : Recount(a, from, to)
      BY <1>9 DEF Recompute, Totals, ResetTotals, Recent, ResetRecent, Recounting
    <3> QED BY <1>5, <3>1 DEF Recount, RunState
  <2>2. \A e \in uncounted : e.at + 1 >= run[a].now
    BY <2>1 DEF IInv, PruneSafe
  <2>3. UNCHANGED <<request, events, uncounted, watermark>>
    BY <1>9 DEF Recompute, Totals, ResetTotals, Recent, ResetRecent, Recount
  <2> QED BY <1>1, <1>2, <1>3, <1>4, <2>1, <2>2, <2>3, RunFrame
<1>10. CASE Crash(a)
  <2>1. run'[a] = [step |-> "idle", now |-> 0, low |-> 0, high |-> 0]
    BY <1>5, <1>10 DEF Crash, Idle
  <2>2. UNCHANGED <<request, events, uncounted, watermark>>
    BY <1>10 DEF Crash
  <2> QED BY <1>1, <1>2, <1>3, <1>4, <2>1, <2>2, RunFrame DEF Recounting
<1> QED BY <1>6, <1>7, <1>8, <1>9, <1>10 DEF Aggregate

\* What is pruned is neither the newest event nor one that was not counted.
LEMMA PruneStep ==
  ASSUME IInv, NEW a \in Runs, Prune(a)
  PROVE  IInv' /\ MaxId' = MaxId
<1>1. RunMoves(a) /\ TypeOK'
  BY RunSteps, TypesStep DEF IInv, Next, Aggregate
<1>2. /\ run[a].step = "prune" /\ events' = Kept(a)
      /\ UNCHANGED <<clock, request, uncounted, watermark>>
  BY DEF Prune
<1>3. run'[a].step = "idle" /\ run'[a].low = 0 /\ run'[a].high = 0
  BY DEF Prune, IInv, TypeOK, Idle
<1>4. Retention \in Nat /\ Retention > 1
  BY TelemetryAssumption
<1>5. /\ IsTop(MaxId, events) /\ clock \in Nat /\ run[a].now \in Nat /\ run[a].now <= clock
      /\ \A e \in events : e.at \in Nat /\ e.id \in Nat
      /\ MaxId \in Nat /\ watermark \in Nat
  BY Members DEF IInv
<1>6. \A e \in events : e.id = MaxId => e \in events'
  BY <1>2, <1>4, <1>5 DEF IInv, Fresh, Kept
<1>7. events' \subseteq events /\ events' \in SUBSET Event
  BY <1>2 DEF Kept, IInv, TypeOK
<1>8. IsTop(MaxId, events')
  BY <1>5, <1>6, <1>7 DEF IsTop
<1>9. MaxId' = MaxId /\ Bounded'
  BY <1>7, <1>8, MaxIdNext
<1>10. Below'
  BY <1>1, <1>2, <1>3, <1>5, <1>9 DEF IInv, Below, RunMoves
<1>11. Fresh'
  BY <1>2, <1>7, <1>9 DEF IInv, Fresh
<1>12. \A e \in uncounted : e \in events'
  <2>1. ASSUME NEW e \in uncounted PROVE e \in events /\ e.at + 1 >= run[a].now
    BY <1>2, <2>1 DEF IInv, NothingSkipped, PruneSafe, Recounting
  <2> QED BY <1>2, <1>4, <1>5, <2>1 DEF Kept
<1>13. NothingSkipped'
  BY <1>1, <1>2, <1>3, <1>5, <1>7, <1>12 DEF IInv, NothingSkipped, RunMoves
<1>14. PruneSafe'
  BY <1>1, <1>2, <1>3 DEF IInv, PruneSafe, RunMoves, Recounting
<1> QED BY <1>1, <1>9, <1>10, <1>11, <1>13, <1>14 DEF IInv

\* The id of a new event is above every watermark.
LEMMA RecordStep ==
  ASSUME IInv, NEW c \in Clients, NEW ok \in BOOLEAN, RecordInstall(c, ok)
  PROVE  IInv'
<1>1. TypeOK'
  BY TypesStep DEF IInv, Next, Downloads
<1>2. /\ request[c].pkg \in Packages /\ request[c].pkg # NoPackage
      /\ Inserts(c) \/ UNCHANGED <<events, uncounted, recorded, raced>>
      /\ request'[c].pkg = NoPackage
      /\ \A d \in Clients \ {c} : request'[d] = request[d]
      /\ UNCHANGED <<clock, watermark, run>>
  BY Recording, TelemetryAssumption DEF IInv, RecordInstall
<1>3. CASE UNCHANGED <<events, uncounted, recorded, raced>>
  <2>1. MaxId' = MaxId
    BY <1>3 DEF MaxId
  <2> QED BY <1>1, <1>2, <1>3, <2>1 DEF IInv, Bounded, Below, Fresh, NothingSkipped, PruneSafe
<1>4. CASE Inserts(c)
  <2> DEFINE e == NewEvent(c)
  <2>1. /\ e.id = MaxId + 1 /\ e.at = request[c].at /\ e \in Event
        /\ events' = events \cup {e} /\ uncounted' = uncounted \cup {e}
    BY <1>4 DEF Inserts, NewEvent
  <2>2. e.at \in Nat /\ e.at >= 1 /\ e.at + 1 >= clock
    BY <1>2, <2>1, Members DEF IInv, Fresh
  <2> HIDE DEF e
  <2>3. /\ IsTop(MaxId, events) /\ MaxId \in Nat /\ clock \in Nat /\ watermark \in Nat
        /\ \A f \in events : f.id \in Nat /\ f.id <= MaxId
        /\ \A a \in Runs : /\ run[a].low \in Nat /\ run[a].high \in Nat
                           /\ run[a].now \in Nat /\ run[a].now <= clock
    BY Members DEF IInv
  <2>4. IsTop(MaxId + 1, events')
    BY <2>1, <2>3 DEF IsTop
  <2>5. events' \in SUBSET Event
    BY <1>1 DEF TypeOK
  <2>6. MaxId' = MaxId + 1 /\ Bounded'
    BY <2>4, <2>5, MaxIdNext
  <2>7. watermark <= MaxId /\ \A a \in Runs : run[a].low <= MaxId /\ run[a].high <= MaxId
    BY DEF IInv, Below
  <2>8. Below'
    BY <1>2, <2>3, <2>6, <2>7 DEF Below
  <2>9. Fresh'
    <3>1. \A d \in Clients : request'[d].pkg # NoPackage =>
            request'[d].at >= 1 /\ request'[d].at + 1 >= clock'
      BY <1>2 DEF IInv, Fresh
    <3>2. \A f \in events' : f.at >= 1 /\ (f.id = MaxId' => f.at + Retention >= clock')
      BY <1>2, <2>1, <2>2, <2>3, <2>6, TelemetryAssumption DEF IInv, Fresh
    <3> QED BY <1>2, <3>1, <3>2 DEF IInv, Fresh
  <2>10. NothingSkipped'
    <3>1. \A f \in uncounted : f \in events' /\ f.id > watermark /\ \A a \in Runs : f.id > run[a].low
      BY <2>1 DEF IInv, NothingSkipped
    <3>2. e \in events' /\ e.id > watermark /\ \A a \in Runs : e.id > run[a].low
      BY <2>1, <2>3, <2>7
    <3> QED BY <1>2, <2>1, <3>1, <3>2 DEF NothingSkipped
  <2>11. PruneSafe'
    <3>1. \A a \in Runs : e.at + 1 >= run[a].now
      BY <2>2, <2>3
    <3> QED BY <1>2, <2>1, <3>1 DEF IInv, PruneSafe
  <2> QED BY <1>1, <2>6, <2>8, <2>9, <2>10, <2>11 DEF IInv
<1> QED BY <1>2, <1>3, <1>4

LEMMA InvStep == ASSUME IInv, [Next]_vars PROVE IInv'
<1>1. TypeOK'
  BY TypesStep DEF IInv
<1>2. CASE Tick
  <2>1. MaxId' = MaxId /\ clock' = clock + 1
    BY <1>2 DEF Tick, MaxId
  <2>2. UNCHANGED <<request, events, watermark, run, uncounted>>
    BY <1>2 DEF Tick
  <2>3. Fresh'
    <3>1. \A c \in Clients : request[c].pkg # NoPackage => request[c].at + 1 >= clock'
      BY <1>2, <2>1, Members DEF Tick, IInv
    <3>2. \A e \in events : e.id = MaxId => e.at + Retention >= clock'
      BY <1>2, <2>1, Members, TelemetryAssumption DEF Tick, IInv
    <3>3. clock' >= 1
      BY <2>1, Members DEF IInv, Fresh
    <3> QED BY <2>1, <2>2, <3>1, <3>2, <3>3 DEF IInv, Fresh
  <2> QED BY <1>1, <2>1, <2>2, <2>3 DEF IInv, Bounded, Below, NothingSkipped, PruneSafe
<1>3. ASSUME NEW c \in Clients, NEW p \in Packages, LookupPackageID(c, p) PROVE IInv'
  <2>1. MaxId' = MaxId /\ UNCHANGED <<clock, events, watermark, run, uncounted>>
    BY <1>3 DEF LookupPackageID, MaxId
  <2>2. request' = [request EXCEPT ![c] = [pkg |-> p, at |-> clock]]
    BY <1>3 DEF LookupPackageID
  <2>3. Fresh'
    <3>1. \A d \in Clients : request'[d] = request[d] \/ request'[d].at = clock
      BY <2>2 DEF IInv, TypeOK
    <3>2. \A d \in Clients : request'[d].pkg # NoPackage =>
            request'[d].at >= 1 /\ request'[d].at + 1 >= clock
      BY <3>1, Members DEF IInv, Fresh
    <3> QED BY <2>1, <3>2 DEF IInv, Fresh
  <2> QED BY <1>1, <2>1, <2>3 DEF IInv, Bounded, Below, NothingSkipped, PruneSafe
<1>4. ASSUME NEW c \in Clients, NEW ok \in BOOLEAN, RecordInstall(c, ok) PROVE IInv'
  BY <1>4, RecordStep
<1>5. ASSUME NEW a \in Runs, Aggregate(a) \/ Crash(a) PROVE IInv'
  BY <1>5, RunStep, PruneStep
<1>6. CASE UNCHANGED vars
  <2>1. MaxId' = MaxId
    BY <1>6 DEF vars, MaxId
  <2> QED BY <1>1, <1>6, <2>1 DEF vars, IInv, Bounded, Below, Fresh, NothingSkipped, PruneSafe
<1> QED BY <1>2, <1>3, <1>4, <1>5, <1>6 DEF Next, Downloads

LEMMA InvInit == ASSUME Init PROVE IInv
<1>1. events = {} /\ events \in SUBSET Event /\ uncounted = {} /\ watermark = 0 /\ clock = 1
  BY DEF Init
<1>2. 0 \in 0 .. 1
  OBVIOUS
<1>3. TypeOK
  <2>1. request \in [Clients -> [pkg : Packages \cup {NoPackage}, at : 0 .. clock]]
    BY <1>1, <1>2 DEF Init
  <2>2. Idle \in RunState(1)
    BY <1>2 DEF Idle, RunState, Steps
  <2>3. run \in [Runs -> RunState(clock)]
    BY <1>1, <2>2 DEF Init
  <2>4. counter \in [Packages -> [total : Nat, recent : Nat, last : 0 .. clock]]
    BY <1>1, <1>2 DEF Init
  <2>5. monthly \in [Packages -> Nat] /\ recorded \in [Packages -> Nat] /\ raced \in BOOLEAN
    BY DEF Init
  <2>6. IsFiniteSet(events)
    BY <1>1, FS_EmptySet
  <2> QED BY <1>1, <2>1, <2>3, <2>4, <2>5, <2>6 DEF TypeOK, RunState
<1>4. Bounded
  BY <1>1 DEF Bounded
<1>5. MaxId = 0
  BY <1>1, <1>3, <1>4, MaxIdIs DEF IsTop
<1> QED BY <1>1, <1>3, <1>4, <1>5
     DEF Init, IInv, Below, Fresh, NothingSkipped, PruneSafe, Idle

\* Requests, events, watermarks and counters stay well formed (ingest.go, aggregate.go).
THEOREM TypeCorrect == Spec => []TypeOK
BY InvInit, InvStep, PTL DEF Spec, IInv

\* An install that no run has counted is in the table and above every watermark,
\* however runs overlap, die and prune (aggregate.go:28-60, 150-154).
THEOREM NoneSkipped == Spec => []NothingSkipped
BY InvInit, InvStep, PTL DEF Spec, IInv

-----------------------------------------------------------------------------
(* Counters.                                                                *)

\* The all-time count lags behind the months, and a package with a date has months.
Behind ==
  \A p \in Packages :
    counter[p].total <= monthly[p] /\ (counter[p].last # 0 => monthly[p] # 0)

Grows ==
  \A p \in Packages : counter'[p].total >= counter[p].total
                       /\ counter'[p].last >= counter[p].last

CInv == IInv /\ Behind /\ LastInstalledCovers

LEMMA CounterTypes ==
  ASSUME TypeOK, NEW p \in Packages
  PROVE  /\ counter[p].total \in Nat /\ counter[p].last \in Nat /\ counter[p].last \in 0 .. clock
         /\ monthly[p] \in Nat /\ recorded[p] \in Nat
BY DEF TypeOK

LEMMA CountersStep == ASSUME CInv, [Next]_vars PROVE CInv' /\ Grows
<1>1. IInv'
  BY InvStep DEF CInv
<1>2. \A p \in Packages : /\ counter[p].total \in Nat /\ counter[p].last \in Nat
                          /\ counter[p].last \in 0 .. clock /\ monthly[p] \in Nat
  BY CounterTypes DEF CInv, IInv
<1>3. \A e \in events : e.pkg \in Packages /\ e.at \in Nat
  BY DEF CInv, IInv, TypeOK, Event
<1>4. ASSUME UNCHANGED <<counter, monthly>>, events' \ uncounted' \subseteq events \ uncounted
      PROVE  CInv' /\ Grows
  BY <1>1, <1>2, <1>4 DEF CInv, Behind, LastInstalledCovers, Grows
<1>5. ASSUME NEW a \in Runs, CountNew(a) PROVE CInv' /\ Grows
  <2> DEFINE new(p) == EventsOf(p, NewEvents(a))
             more(p) == Cardinality(new(p))
  <2>1. events' = events /\ uncounted' \subseteq uncounted
    BY <1>5 DEF CountNew, Done
  <2>2. NewEvents(a) \in SUBSET events
    BY DEF NewEvents
  <2>3. ASSUME NEW p \in Packages
        PROVE  /\ more(p) \in Nat /\ monthly'[p] = monthly[p] + more(p)
               /\ counter'[p].total = counter[p].total
               /\ counter'[p].last = Latest(counter[p].last, new(p))
               /\ new(p) \in SUBSET events
               /\ more(p) = 0 => new(p) = {}
    <3>1. /\ more(p) \in Nat /\ monthly'[p] = monthly[p] + more(p)
          /\ counter'[p].total = counter[p].total
          /\ counter'[p].last = Latest(counter[p].last, new(p))
      BY <1>5, Counting DEF CInv, IInv
    <3>2. IsFiniteSet(events)
      BY DEF CInv, IInv, TypeOK
    <3>3. more(p) = 0 => new(p) = {}
      BY <2>2, <3>2, SizeOf
    <3>4. new(p) \in SUBSET events
      BY <2>2 DEF EventsOf
    <3> QED BY <3>1, <3>3, <3>4
  <2> HIDE DEF new, more
  <2>4. ASSUME NEW p \in Packages
        PROVE  /\ counter'[p].last \in Nat /\ counter'[p].last >= counter[p].last
               /\ \A e \in new(p) : counter'[p].last >= e.at
               /\ new(p) = {} => counter'[p].last = counter[p].last
    <3>1. new(p) \in SUBSET events /\ counter'[p].last = Latest(counter[p].last, new(p))
      BY <2>3
    <3>2. counter[p].last \in 0 .. clock /\ clock \in Nat
      BY <1>2 DEF CInv, IInv, TypeOK
    <3>3. /\ Latest(counter[p].last, new(p)) \in 0 .. clock
          /\ counter[p].last <= Latest(counter[p].last, new(p))
          /\ \A e \in new(p) : e.at <= Latest(counter[p].last, new(p))
          /\ new(p) = {} => Latest(counter[p].last, new(p)) = counter[p].last
      BY <3>1, <3>2, LatestOf DEF CInv, IInv
    <3>4. \A e \in new(p) : e.at \in Nat
      BY <1>3, <3>1
    <3> QED BY <3>1, <3>2, <3>3, <3>4
  <2>5. Grows
    BY <1>2, <2>3, <2>4 DEF Grows
  <2>6. Behind'
    <3>1. ASSUME NEW p \in Packages
          PROVE  counter'[p].total <= monthly'[p] /\ (counter'[p].last # 0 => monthly'[p] # 0)
      <4>1. /\ more(p) \in Nat /\ monthly'[p] = monthly[p] + more(p) /\ monthly[p] \in Nat
            /\ counter'[p].total = counter[p].total /\ counter[p].total \in Nat
        BY <1>2, <2>3
      <4>2. counter[p].total <= monthly[p] /\ (counter[p].last # 0 => monthly[p] # 0)
        BY DEF CInv, Behind
      <4>3. more(p) = 0 => counter'[p].last = counter[p].last
        BY <2>3, <2>4
      <4> QED BY <4>1, <4>2, <4>3
    <3> QED BY <3>1 DEF Behind
  <2>7. LastInstalledCovers'
    <3>1. ASSUME NEW e \in events PROVE counter'[e.pkg].last >= e.at
      <4>1. CASE e \in NewEvents(a)
        <5>1. e \in new(e.pkg)
          BY <4>1 DEF new, EventsOf
        <5> QED BY <1>3, <2>4, <5>1
      <4>2. CASE e \notin NewEvents(a)
        <5>1. e \notin uncounted
          BY <4>2 DEF CInv, IInv, NothingSkipped, NewEvents
        <5>2. counter[e.pkg].last >= e.at
          BY <5>1 DEF CInv, LastInstalledCovers
        <5> QED BY <1>2, <1>3, <2>4, <5>2
      <4> QED BY <4>1, <4>2
    <3> QED BY <2>1, <3>1 DEF LastInstalledCovers
  <2> QED BY <1>1, <2>5, <2>6, <2>7 DEF CInv
<1>6. ASSUME NEW a \in Runs, Recompute(a) PROVE CInv' /\ Grows
  <2>1. UNCHANGED <<events, uncounted, monthly>>
    BY <1>6 DEF Recompute, Totals, ResetTotals, Recent, ResetRecent, Recount
  <2>2. ASSUME NEW p \in Packages
        PROVE  /\ counter'[p].total = counter[p].total \/ counter'[p].total = monthly[p]
               /\ counter'[p].last = counter[p].last
    <3>1. counter[p].last # 0 => monthly[p] # 0
      BY DEF CInv, Behind
    <3>2. counter'[p].last = counter[p].last \/ (monthly[p] = 0 /\ counter'[p].last = 0)
      BY <1>6, Summing DEF CInv, IInv
    <3>3. counter'[p].total = counter[p].total \/ counter'[p].total = monthly[p]
      BY <1>6, Summing DEF CInv, IInv
    <3> QED BY <3>1, <3>2, <3>3
  <2> QED BY <1>1, <1>2, <1>3, <2>1, <2>2 DEF CInv, Behind, LastInstalledCovers, Grows
<1>7. CASE Tick \/ UNCHANGED vars
  BY <1>4, <1>7 DEF Tick, vars
<1>8. ASSUME NEW c \in Clients, NEW p \in Packages, LookupPackageID(c, p) PROVE CInv' /\ Grows
  BY <1>4, <1>8 DEF LookupPackageID
<1>9. ASSUME NEW c \in Clients, NEW ok \in BOOLEAN, RecordInstall(c, ok) PROVE CInv' /\ Grows
  <2>1. UNCHANGED <<counter, monthly>>
    BY <1>9 DEF RecordInstall
  <2>2. Inserts(c) \/ UNCHANGED <<events, uncounted>>
    BY <1>9, Recording DEF CInv, IInv
  <2>3. events' \ uncounted' \subseteq events \ uncounted
    BY <2>2 DEF Inserts
  <2> QED BY <1>4, <2>1, <2>3
<1>10. ASSUME NEW a \in Runs,
              StartRun(a) \/ ReadHigh(a) \/ Prune(a) \/ Crash(a)
       PROVE  CInv' /\ Grows
  BY <1>4, <1>10 DEF StartRun, ReadHigh, Prune, Kept, Crash
<1> QED BY <1>5, <1>6, <1>7, <1>8, <1>9, <1>10 DEF Next, Downloads, Aggregate

LEMMA CountersInit == ASSUME Init PROVE CInv
<1>1. IInv
  BY InvInit
<1>2. \A p \in Packages : counter[p].total = 0 /\ counter[p].last = 0 /\ monthly[p] = 0
  BY DEF Init
<1>3. events = {}
  BY DEF Init
<1> QED BY <1>1, <1>2, <1>3 DEF CInv, Behind, LastInstalledCovers

\* A counted install is in last_installed_at (aggregate.go:68-81).
THEOREM DatesCover == Spec => []LastInstalledCovers
BY CountersInit, CountersStep, PTL DEF Spec, CInv

\* All-time counts and dates are never taken back (aggregate.go:54-64, 98-121).
THEOREM NoTotalTakenBack == Spec => TotalsOnlyGrow
<1>1. Init => CInv
  BY CountersInit
<1>2. CInv /\ [Next]_vars => CInv'
  BY CountersStep
<1>3. CInv /\ [Next]_vars =>
        [\A p \in Packages : counter'[p].total >= counter[p].total
                              /\ counter'[p].last >= counter[p].last]_vars
  BY CountersStep DEF Grows
<1> QED BY <1>1, <1>2, <1>3, PTL DEF Spec, TotalsOnlyGrow

-----------------------------------------------------------------------------
(* Every install once: the refinement of InstallCounter.                    *)

Pending(p) == Cardinality(EventsOf(p, uncounted))

\* Between the reads of a run and its transaction nothing else happens.
Undisturbed ==
  /\ \A e \in events \ uncounted : e.id <= watermark
  /\ \A a \in Runs :
       /\ run[a].step \in {"high", "count"} =>
            /\ run[a].low = watermark
            /\ \A b \in Runs \ {a} : run[b].step \notin {"high", "count"}
       /\ run[a].step = "count" => run[a].high = MaxId

Accounted ==
  /\ \A p \in Packages : recorded[p] <= monthly[p] + Pending(p)
  /\ ~raced => Undisturbed /\ \A p \in Packages : recorded[p] = monthly[p] + Pending(p)

AInv == IInv /\ Accounted

LEMMA Sizes ==
  ASSUME IInv, NEW p \in Packages
  PROVE  /\ IsFiniteSet(uncounted) /\ uncounted \in SUBSET events /\ Pending(p) \in Nat
         /\ monthly[p] \in Nat /\ recorded[p] \in Nat
<1>1. uncounted \in SUBSET events /\ IsFiniteSet(events)
  BY DEF IInv, NothingSkipped, TypeOK
<1> QED BY <1>1, SizeOf, CounterTypes DEF Pending, IInv

\* What a run counts includes what has not been counted, and without a race it is that.
LEMMA CountedAtLeast ==
  ASSUME AInv, NEW a \in Runs, CountNew(a), NEW p \in Packages
  PROVE  /\ monthly'[p] \in Nat /\ monthly'[p] >= monthly[p] /\ monthly'[p] >= recorded[p]
         /\ uncounted' = {}
         /\ ~raced => monthly'[p] = recorded[p]
<1> DEFINE more == Cardinality(EventsOf(p, NewEvents(a)))
<1>1. /\ uncounted \in SUBSET events /\ Pending(p) \in Nat
      /\ monthly[p] \in Nat /\ recorded[p] \in Nat
  BY Sizes DEF AInv
<1>2. more \in Nat /\ monthly'[p] = monthly[p] + more /\ uncounted' = uncounted \ NewEvents(a)
  BY Counting DEF AInv, IInv
<1>3. uncounted \in SUBSET NewEvents(a)
  BY DEF AInv, IInv, NothingSkipped, NewEvents
<1>4. Pending(p) <= more
  <2>1. IsFiniteSet(NewEvents(a))
    BY FS_Subset DEF AInv, IInv, TypeOK, NewEvents
  <2> QED BY <1>3, <2>1, SizeOf DEF Pending
<1>5. recorded[p] <= monthly[p] + Pending(p)
  BY DEF AInv, Accounted
<1>6. ASSUME ~raced PROVE more = Pending(p) /\ recorded[p] = monthly[p] + Pending(p)
  <2>1. Undisturbed /\ recorded[p] = monthly[p] + Pending(p)
    BY <1>6 DEF AInv, Accounted
  <2>2. run[a].low = watermark
    BY <2>1 DEF Undisturbed, CountNew, Done
  <2>3. watermark \in Nat /\ \A e \in events : e.id \in Nat
    BY Members DEF AInv, IInv
  <2>4. \A e \in NewEvents(a) : e \in uncounted
    BY <2>1, <2>2, <2>3 DEF Undisturbed, NewEvents
  <2>5. NewEvents(a) = uncounted
    BY <1>3, <2>4
  <2> QED BY <2>1, <2>5 DEF Pending
<1> HIDE DEF more
<1> QED BY <1>1, <1>2, <1>3, <1>4, <1>5, <1>6

\* The accounts of a step that does not touch them.
LEMMA AccountsFrame ==
  ASSUME AInv, UNCHANGED <<monthly, recorded, uncounted>>, raced' \in BOOLEAN,
         ~raced' => ~raced /\ Undisturbed'
  PROVE  Accounted'
<1>1. \A p \in Packages : Pending(p)' = Pending(p)
  BY DEF Pending
<1> QED BY <1>1 DEF AInv, Accounted

\* The others do not count while a run without a race is about to.
LEMMA UndisturbedRun ==
  ASSUME IInv, Undisturbed, NEW a \in Runs, RunMoves(a), UNCHANGED watermark, MaxId' = MaxId,
         events' \ uncounted' \subseteq events \ uncounted,
         run'[a].step \in {"high", "count"} =>
           /\ run'[a].low = watermark
           /\ \A b \in Runs \ {a} : run[b].step \notin {"high", "count"},
         run'[a].step = "count" => run'[a].high = MaxId
  PROVE  Undisturbed'
<1>1. \A b \in Runs \ {a} : run'[b] = run[b]
  BY DEF RunMoves
<1>2. \A e \in events' \ uncounted' : e.id <= watermark'
  BY DEF Undisturbed
<1>3. ASSUME NEW b \in Runs, run'[b].step \in {"high", "count"}
      PROVE  /\ run'[b].low = watermark'
             /\ \A c \in Runs \ {b} : run'[c].step \notin {"high", "count"}
  BY <1>1, <1>3 DEF Undisturbed
<1>4. \A b \in Runs : run'[b].step = "count" => run'[b].high = MaxId'
  BY <1>1 DEF Undisturbed
<1> QED BY <1>2, <1>3, <1>4 DEF Undisturbed

\* What a step is to InstallCounter.
Refines == Counters!Next \/ UNCHANGED Counters!vars

LEMMA StutterRefines ==
  ASSUME UNCHANGED <<monthly, recorded, raced>> PROVE Refines
BY DEF Refines, Counters!vars

LEMMA AccountsStep == ASSUME AInv, [Next]_vars PROVE AInv' /\ Refines
<1>1. IInv'
  BY InvStep DEF AInv
<1>2. raced \in BOOLEAN /\ run \in [Runs -> RunState(clock)]
  BY DEF AInv, IInv, TypeOK, RunState
<1>3. ~raced => Undisturbed
  BY DEF AInv, Accounted
<1>4. ASSUME UNCHANGED <<events, watermark, run, monthly, recorded, uncounted, raced>>
      PROVE  AInv' /\ Refines
  <2>1. MaxId' = MaxId
    BY <1>4 DEF MaxId
  <2>2. Undisturbed => Undisturbed'
    BY <1>4, <2>1 DEF Undisturbed
  <2>3. Accounted'
    BY <1>2, <1>3, <1>4, <2>2, AccountsFrame
  <2> QED BY <1>1, <1>4, <2>3, StutterRefines DEF AInv
<1>5. ASSUME NEW c \in Clients, NEW ok \in BOOLEAN, RecordInstall(c, ok), Inserts(c)
      PROVE  AInv' /\ Refines
  <2> DEFINE e == NewEvent(c)
             q == request[c].pkg
  <2>1. /\ e.id = MaxId + 1 /\ e.pkg = q /\ e \in Event
        /\ events' = events \cup {e} /\ uncounted' = uncounted \cup {e}
        /\ recorded' = [recorded EXCEPT ![q] = @ + 1]
        /\ raced' = (raced \/ \E a \in Runs : run[a].step = "count")
    BY <1>5 DEF Inserts, NewEvent
  <2>2. q \in Packages /\ UNCHANGED <<watermark, monthly, run>>
    BY <1>5, Recording DEF AInv, IInv, RecordInstall
  <2> HIDE DEF e, q
  <2>3. e \notin uncounted
    BY <2>1, Members, Sizes, <2>2 DEF AInv, IInv
  <2>4. ASSUME NEW p \in Packages
        PROVE  /\ recorded[p] \in Nat /\ monthly[p] \in Nat /\ Pending(p) \in Nat
               /\ Pending(p)' = IF p = q THEN Pending(p) + 1 ELSE Pending(p)
               /\ recorded'[p] = IF p = q THEN recorded[p] + 1 ELSE recorded[p]
    <3>1. /\ recorded[p] \in Nat /\ monthly[p] \in Nat /\ Pending(p) \in Nat
          /\ IsFiniteSet(uncounted)
      BY Sizes DEF AInv
    <3>2. IsFiniteSet(EventsOf(p, uncounted)) /\ e \notin EventsOf(p, uncounted)
      BY <2>3, <3>1, FS_Subset DEF EventsOf
    <3>3. CASE p = q
      <4>1. EventsOf(p, uncounted') = EventsOf(p, uncounted) \cup {e}
        BY <2>1, <3>3 DEF EventsOf
      <4>2. Pending(p)' = Pending(p) + 1
        BY <3>2, <4>1, FS_AddElement DEF Pending
      <4> QED BY <2>1, <3>1, <3>3, <4>2 DEF AInv, IInv, TypeOK
    <3>4. CASE p # q
      <4>1. EventsOf(p, uncounted') = EventsOf(p, uncounted)
        BY <2>1, <3>4 DEF EventsOf
      <4> QED BY <2>1, <3>1, <3>4, <4>1 DEF Pending, AInv, IInv, TypeOK
    <3> QED BY <3>3, <3>4
  <2>5. ASSUME ~raced' PROVE ~raced /\ Undisturbed'
    <3>1. ~raced /\ \A a \in Runs : run[a].step # "count"
      BY <2>1, <2>5
    <3>2. Undisturbed
      BY <1>3, <3>1
    <3>3. events' \ uncounted' \subseteq events \ uncounted
      BY <2>1
    <3> QED BY <2>2, <3>1, <3>2, <3>3 DEF Undisturbed
  <2>6. ASSUME NEW p \in Packages PROVE recorded'[p] <= monthly'[p] + Pending(p)'
    <3>1. recorded[p] <= monthly[p] + Pending(p)
      BY DEF AInv, Accounted
    <3> QED BY <2>2, <2>4, <3>1
  <2>7. ASSUME ~raced', NEW p \in Packages PROVE recorded'[p] = monthly'[p] + Pending(p)'
    <3>1. recorded[p] = monthly[p] + Pending(p)
      BY <2>5, <2>7 DEF AInv, Accounted
    <3> QED BY <2>2, <2>4, <3>1
  <2>8. Accounted'
    BY <2>5, <2>6, <2>7 DEF Accounted
  <2>9. Counters!Record(q)
    BY <1>2, <2>1, <2>2 DEF Counters!Record
  <2> QED BY <1>1, <2>2, <2>8, <2>9 DEF AInv, Refines, Counters!Next
<1>6. ASSUME NEW a \in Runs, StartRun(a) PROVE AInv' /\ Refines
  <2>1. /\ run' = [run EXCEPT ![a] = [step |-> "high", now |-> clock, low |-> watermark, high |-> 0]]
        /\ raced' = (raced \/ \E b \in Runs : run[b].step \in {"high", "count"})
        /\ UNCHANGED <<events, watermark, monthly, recorded, uncounted>>
    BY <1>6 DEF StartRun
  <2>2. MaxId' = MaxId /\ RunMoves(a)
    BY <1>6, <2>1, RunSteps DEF MaxId, AInv, IInv, Aggregate
  <2>3. ASSUME ~raced' PROVE ~raced /\ Undisturbed'
    <3>1. ~raced /\ \A b \in Runs : run[b].step \notin {"high", "count"}
      BY <2>1, <2>3
    <3>2. run'[a].step = "high" /\ run'[a].low = watermark
      BY <1>2, <2>1
    <3> QED BY <1>3, <2>1, <2>2, <3>1, <3>2, UndisturbedRun DEF AInv
  <2>4. raced' \in BOOLEAN
    BY <1>2, <2>1
  <2>5. Accounted'
    BY <2>1, <2>3, <2>4, AccountsFrame
  <2>6. Refines
    <3>1. CASE raced' = raced
      BY <2>1, <3>1, StutterRefines
    <3>2. CASE raced' # raced
      <4>1. Counters!Race
        BY <1>2, <2>1, <3>2 DEF Counters!Race
      <4> QED BY <4>1 DEF Refines, Counters!Next
    <3> QED BY <3>1, <3>2
  <2> QED BY <1>1, <2>5, <2>6 DEF AInv
<1>7. ASSUME NEW a \in Runs, CountNew(a) PROVE AInv' /\ Refines
  <2>1. /\ run[a].step = "count" /\ watermark' = run[a].high
        /\ UNCHANGED <<events, recorded, raced>>
        /\ monthly' = [p \in Packages |-> monthly[p] + Cardinality(EventsOf(p, NewEvents(a)))]
    BY <1>7 DEF CountNew, Done, Counted
  <2>2. ASSUME NEW p \in Packages
        PROVE  /\ monthly'[p] \in Nat /\ monthly'[p] >= monthly[p] /\ monthly'[p] >= recorded[p]
               /\ uncounted' = {} /\ Pending(p)' = 0 /\ recorded[p] \in Nat
               /\ ~raced => monthly'[p] = recorded[p]
    <3>1. /\ monthly'[p] \in Nat /\ monthly'[p] >= monthly[p] /\ monthly'[p] >= recorded[p]
          /\ uncounted' = {}
          /\ ~raced => monthly'[p] = recorded[p]
      BY <1>7, CountedAtLeast
    <3>2. EventsOf(p, uncounted') = {}
      BY <3>1 DEF EventsOf
    <3>3. Pending(p)' = 0
      BY <3>2, FS_EmptySet DEF Pending
    <3> QED BY <3>1, <3>3, Sizes DEF AInv
  <2>3. ASSUME ~raced' PROVE Undisturbed'
    <3>1. Undisturbed
      BY <1>3, <2>1, <2>3
    <3>2. watermark' = MaxId /\ MaxId' = MaxId
      BY <2>1, <3>1 DEF Undisturbed, MaxId
    <3>3. \A b \in Runs : run'[b].step \notin {"high", "count"}
      <4>1. run' = [run EXCEPT ![a] = [run[a] EXCEPT !.step = "totals", !.low = 0, !.high = 0]]
        BY <1>2, <1>7 DEF CountNew, Done
      <4>2. run'[a].step = "totals"
        BY <1>2, <4>1 DEF RunState
      <4>3. \A b \in Runs \ {a} : run'[b] = run[b]
        BY <1>2, <4>1
      <4> QED BY <2>1, <3>1, <4>2, <4>3 DEF Undisturbed
    <3>4. \A e \in events' : e.id <= watermark'
      BY <2>1, <3>2, Members DEF AInv, IInv
    <3> QED BY <3>3, <3>4 DEF Undisturbed
  <2>4. Accounted'
    BY <2>1, <2>2, <2>3 DEF Accounted
  <2>5. Counters!Count
    <3>1. \A p \in Packages : monthly'[p] >= monthly[p] /\ monthly'[p] >= recorded[p]
      BY <2>2
    <3>2. ~raced => monthly' = recorded
      BY <2>1, <2>2 DEF AInv, IInv, TypeOK
    <3> QED BY <2>1, <3>1, <3>2 DEF Counters!Count
  <2> QED BY <1>1, <2>4, <2>5 DEF AInv, Refines, Counters!Next
<1>8. ASSUME NEW a \in Runs,
             ReadHigh(a) \/ Recompute(a) \/ Prune(a) \/ Crash(a)
      PROVE  AInv' /\ Refines
  <2>1. UNCHANGED <<watermark, monthly, recorded, uncounted, raced>>
    BY <1>8 DEF ReadHigh, Recompute, Totals, ResetTotals, Recent, ResetRecent, Recount, Prune, Crash
  <2>2. RunMoves(a)
    BY <1>8, RunSteps DEF AInv, IInv, Aggregate
  <2>3. MaxId' = MaxId /\ events' \subseteq events
    <3>1. CASE Prune(a)
      BY <3>1, PruneStep DEF AInv, Prune, Kept
    <3>2. CASE ~Prune(a)
      BY <1>8, <3>2 DEF MaxId, ReadHigh, Recompute, Totals, ResetTotals, Recent, ResetRecent, Recount, Crash
    <3> QED BY <3>1, <3>2
  <2>4. /\ run'[a].step \in {"high", "count"} => run[a].step = "high" /\ run'[a].low = run[a].low
        /\ run'[a].step = "count" => run'[a].high = MaxId
    <3>1. CASE ReadHigh(a)
      BY <1>2, <3>1 DEF ReadHigh, RunState
    <3>2. CASE Recompute(a) \/ Prune(a)
      <4>1. run'[a].step \in {"nototals", "recent", "norecent", "prune", "idle"}
        <5>1. CASE Recompute(a)
          BY <1>2, <5>1 DEF Recompute, Totals, ResetTotals, Recent, ResetRecent, Recount, RunState
        <5>2. CASE Prune(a)
          BY <1>2, <5>2 DEF Prune, Idle
        <5> QED BY <3>2, <5>1, <5>2
      <4> QED BY <4>1
    <3>3. CASE Crash(a)
      BY <1>2, <3>3 DEF Crash, Idle
    <3> QED BY <1>8, <3>1, <3>2, <3>3
  <2>5. ASSUME Undisturbed PROVE Undisturbed'
    <3>1. run'[a].step \in {"high", "count"} =>
            /\ run'[a].low = watermark
            /\ \A b \in Runs \ {a} : run[b].step \notin {"high", "count"}
      BY <2>4, <2>5 DEF Undisturbed
    <3>2. events' \ uncounted' \subseteq events \ uncounted
      BY <2>1, <2>3
    <3> QED BY <2>1, <2>2, <2>3, <2>4, <2>5, <3>1, <3>2, UndisturbedRun DEF AInv
  <2>6. Accounted'
    BY <1>2, <1>3, <2>1, <2>5, AccountsFrame
  <2> QED BY <1>1, <2>1, <2>6, StutterRefines DEF AInv
<1>9. CASE Tick \/ UNCHANGED vars
  BY <1>4, <1>9 DEF Tick, vars
<1>10. ASSUME NEW c \in Clients, NEW p \in Packages, LookupPackageID(c, p) PROVE AInv' /\ Refines
  BY <1>4, <1>10 DEF LookupPackageID
<1>11. ASSUME NEW c \in Clients, NEW ok \in BOOLEAN, RecordInstall(c, ok), ~Inserts(c)
       PROVE  AInv' /\ Refines
  BY <1>4, <1>11, Recording DEF RecordInstall, AInv, IInv
<1> QED BY <1>5, <1>6, <1>7, <1>8, <1>9, <1>10, <1>11 DEF Next, Downloads, Aggregate

LEMMA AccountsInit == ASSUME Init PROVE AInv /\ Counters!Init
<1>1. IInv
  BY InvInit
<1>2. events = {} /\ uncounted = {} /\ raced = FALSE
  BY DEF Init
<1>3. ASSUME NEW p \in Packages PROVE recorded[p] = monthly[p] + Pending(p)
  <2>1. EventsOf(p, uncounted) = {}
    BY <1>2 DEF EventsOf
  <2>2. Pending(p) = 0
    BY <2>1, FS_EmptySet DEF Pending
  <2> QED BY <2>2 DEF Init
<1>4. Undisturbed
  BY <1>2 DEF Init, Undisturbed, Idle
<1>5. ASSUME NEW p \in Packages PROVE recorded[p] <= monthly[p] + Pending(p)
  BY <1>1, <1>3, Sizes
<1>6. Accounted
  BY <1>3, <1>4, <1>5 DEF Accounted
<1>7. Counters!Init
  BY DEF Init, Counters!Init
<1> QED BY <1>1, <1>6, <1>7 DEF AInv

\* The months count every install recorded before a run, and once unless an install
\* or another run came between its reads and its transaction
\* (docs/telemetry.md:93, aggregate.go:40-95).
THEOREM CountsEveryInstall == Spec => CountsInstalls
<1>1. Init => AInv /\ Counters!Init
  BY AccountsInit
<1>2. AInv /\ [Next]_vars => AInv' /\ [Counters!Next]_(Counters!vars)
  BY AccountsStep DEF Refines
<1> QED BY <1>1, <1>2, PTL DEF Spec, CountsInstalls, Counters!Spec

=============================================================================
