--------------------------- MODULE InstallTelemetry ---------------------------
(***************************************************************************)
(* Install telemetry: the /downloads endpoint records installs, one per      *)
(* client, package and time bucket, and aggregate-installs adds the events   *)
(* after its watermark to the counters and throws old events away.           *)
(* A client stands for an IP, a user agent and a version; a package's months *)
(* are kept as their sum.                                                    *)
(***************************************************************************)
EXTENDS Integers, FiniteSets, FiniteSetsExt

CONSTANTS
  Packages,
  NoPackage,     \* no download is being recorded
  Clients,
  Timer,         \* the hourly run of aggregate-installs
  Operator,      \* one started by hand
  Bucket,        \* the dedupe window
  Window,        \* what the recent counter spans: 30 days
  Retention,     \* how long events are kept: 365 days
  ManualAt,      \* bound on when the operator starts a run
  MaxClock,      \* bound on time
  MaxInstalls    \* bound on installs

ASSUME TelemetryAssumption ==
  /\ Timer # Operator /\ NoPackage \notin Packages
  /\ {Bucket, Window, MaxClock, MaxInstalls} \subseteq Nat \ {0}
  /\ Retention \in Nat /\ Retention > Window /\ Retention > 1 /\ ManualAt \subseteq Nat

Runs == {Timer, Operator}

VARIABLES
  clock,
  request,     \* the download that is being recorded of each client
  events,      \* install_events
  watermark,   \* site_meta aggregate_watermark
  monthly,     \* monthly_installs, summed
  counter,     \* packages: wp_packages_installs_total, _30d, last_installed_at
  run,         \* what each run of aggregate-installs is doing
  recorded,    \* history: installs of each package
  uncounted,   \* history: the events no run has counted yet
  raced        \* history: has a run met another, or an install, before it counted?

vars == <<clock, request, events, watermark, monthly, counter, run,
          recorded, uncounted, raced>>

-----------------------------------------------------------------------------
Idle == [step |-> "idle", now |-> 0, low |-> 0, high |-> 0]
Steps == {"idle", "high", "count", "totals", "nototals", "recent", "norecent", "prune"}
Event == [id : Nat, pkg : Packages, client : Clients, bucket : Nat, at : Nat]

TypeOK ==
  /\ clock \in Nat
  /\ request \in [Clients -> [pkg : Packages \cup {NoPackage}, at : 0 .. clock]]
  /\ events \subseteq Event /\ IsFiniteSet(events)
  /\ uncounted \subseteq Event
  /\ \A e \in events : e.at <= clock
  /\ watermark \in Nat
  /\ monthly \in [Packages -> Nat] /\ recorded \in [Packages -> Nat]
  /\ counter \in [Packages -> [total : Nat, recent : Nat, last : 0 .. clock]]
  /\ run \in [Runs -> [step : Steps,
                       now : 0 .. clock, low : Nat, high : Nat]]
  /\ raced \in BOOLEAN

Init ==
  /\ clock = 1
  /\ request = [c \in Clients |-> [pkg |-> NoPackage, at |-> 0]]
  /\ events = {} /\ uncounted = {} /\ watermark = 0
  /\ monthly = [p \in Packages |-> 0] /\ recorded = [p \in Packages |-> 0]
  /\ counter = [p \in Packages |-> [total |-> 0, recent |-> 0, last |-> 0]]
  /\ run = [a \in Runs |-> Idle]
  /\ raced = FALSE

MaxId == Max({0} \cup {e.id : e \in events})

\* A download is recorded within a unit of time, and a year does not pass without
\* an install: the newest event is never thrown away, so SQLite does not give its
\* id to another.
Tick ==
  /\ clock < MaxClock
  /\ \A c \in Clients : request[c].pkg # NoPackage => request[c].at = clock
  /\ \A e \in events : e.id = MaxId => e.at + Retention > clock
  /\ clock' = clock + 1
  /\ UNCHANGED <<request, events, watermark, monthly, counter, run,
                 recorded, uncounted, raced>>

-----------------------------------------------------------------------------
(* POST /downloads.                                                         *)

\* Mutant: an install is dated with the end of its bucket.
LookupLate(c, p) ==
  /\ request[c].pkg = NoPackage
  /\ request' = [request EXCEPT ![c] = [pkg |-> p, at |-> clock + (Bucket - (clock % Bucket))]]
  /\ UNCHANGED <<clock, events, watermark, monthly, counter, run, recorded, uncounted, raced>>

\* A batch is read one download after the other. Those past the first hundred,
\* without a name or a version, or of a package that is not served are skipped.
\* RecordInstall takes the time next, before it waits for the database.
LookupPackageID(c, p) ==
  /\ request[c].pkg = NoPackage
  /\ request' = [request EXCEPT ![c] = [pkg |-> p, at |-> clock]]
  /\ UNCHANGED <<clock, events, watermark, monthly, counter, run, recorded, uncounted, raced>>

Known(c) ==
  \E e \in events : /\ e.pkg = request[c].pkg /\ e.client = c
                    /\ e.bucket = request[c].at \div Bucket

\* INSERT OR IGNORE, dated when it was asked for; an error is ignored too.
RecordInstall(c, ok) ==
  /\ request[c].pkg # NoPackage
  /\ LET p == request[c].pkg
         e == [id |-> MaxId + 1, pkg |-> p, client |-> c,
               bucket |-> request[c].at \div Bucket, at |-> request[c].at]
     IN IF ok /\ ~Known(c)
          THEN /\ MaxId < MaxInstalls
               /\ events' = events \cup {e}
               /\ uncounted' = uncounted \cup {e}
               /\ recorded' = [recorded EXCEPT ![p] = @ + 1]
               /\ raced' = (raced \/ \E a \in Runs : run[a].step = "count")
          ELSE UNCHANGED <<events, uncounted, recorded, raced>>
  /\ request' = [request EXCEPT ![c].pkg = NoPackage, ![c].at = 0]
  /\ UNCHANGED <<clock, watermark, monthly, counter, run>>

-----------------------------------------------------------------------------
(* AggregateInstalls.                                                       *)

StartRun(a) ==
  /\ run[a].step = "idle" /\ (a = Operator => clock \in ManualAt)
  /\ run' = [run EXCEPT ![a] = [step |-> "high", now |-> clock, low |-> watermark, high |-> 0]]
  /\ raced' = (raced \/ \E b \in Runs : run[b].step \in {"high", "count"})
  /\ UNCHANGED <<clock, request, events, watermark, monthly, counter,
                 recorded, uncounted>>

\* Mutant: one new event is not worth a transaction.
ReadHighPast(a) ==
  /\ run[a].step = "high"
  /\ run' = IF MaxId > run[a].low + 1
              THEN [run EXCEPT ![a].step = "count", ![a].high = MaxId]
              ELSE [run EXCEPT ![a].step = "totals", ![a].low = 0]
  /\ UNCHANGED <<clock, request, events, watermark, monthly, counter,
                 recorded, uncounted, raced>>

\* The highest id, before the transaction; when it is not above the watermark there
\* is nothing to count.
ReadHigh(a) ==
  /\ run[a].step = "high"
  /\ run' = IF MaxId > run[a].low
              THEN [run EXCEPT ![a].step = "count", ![a].high = MaxId]
              ELSE [run EXCEPT ![a].step = "totals", ![a].low = 0]
  /\ UNCHANGED <<clock, request, events, watermark, monthly, counter,
                 recorded, uncounted, raced>>

NewEvents(a) == {e \in events : e.id > run[a].low}
EventsOf(p, S) == {e \in S : e.pkg = p}
\* MAX(created_at), when it is newer.
Latest(last, S) == Max({last} \cup {e.at : e \in S})

Counted(S) ==
  monthly' = [p \in Packages |-> monthly[p] + Cardinality(EventsOf(p, S))]
Dated(S) ==
  counter' = [p \in Packages |-> [counter[p] EXCEPT !.last = Latest(@, EventsOf(p, S))]]
Done(a) ==
  /\ run[a].step = "count"
  /\ run' = [run EXCEPT ![a].step = "totals", ![a].low = 0, ![a].high = 0]
  /\ UNCHANGED <<clock, request, events, recorded, raced>>

\* Mutant: the watermark of the moment is saved for the events read before.
CountNewHead(a) ==
  LET S == {e \in NewEvents(a) : e.id <= run[a].high}
  IN /\ Counted(S) /\ Dated(S) /\ uncounted' = uncounted \ S
     /\ watermark' = MaxId
     /\ Done(a)

\* Mutant: last_installed_at has a transaction of its own, which may fail.
CountNewDatedApart(a) ==
  /\ Counted(NewEvents(a)) /\ uncounted' = uncounted \ NewEvents(a)
  /\ Dated(NewEvents(a)) \/ UNCHANGED counter
  /\ watermark' = run[a].high
  /\ Done(a)

\* Mutant: so has the watermark.
CountNewSavedApart(a) ==
  /\ Counted(NewEvents(a)) /\ uncounted' = uncounted \ NewEvents(a)
  /\ Dated(NewEvents(a))
  /\ watermark' \in {watermark, run[a].high}
  /\ Done(a)

\* One transaction: the counts, last_installed_at and the watermark.
CountNew(a) ==
  /\ Counted(NewEvents(a)) /\ uncounted' = uncounted \ NewEvents(a)
  /\ Dated(NewEvents(a))
  /\ watermark' = run[a].high
  /\ Done(a)

\* An update of the counters of packages.
Recount(a, from, to) ==
  /\ run[a].step = from
  /\ run' = [run EXCEPT ![a].step = to]
  /\ UNCHANGED <<clock, request, events, watermark, monthly, recorded, uncounted, raced>>

\* Mutant: the all-time count is that of the events in the table.
TotalsOfEvents(a) ==
  /\ Recount(a, "totals", "nototals")
  /\ counter' = [p \in Packages |->
                  [counter[p] EXCEPT !.total = Cardinality(EventsOf(p, events))]]

\* The packages with counts, and then those without.
Totals(a) ==
  /\ Recount(a, "totals", "nototals")
  /\ counter' = [p \in Packages |-> IF monthly[p] = 0 THEN counter[p]
                                    ELSE [counter[p] EXCEPT !.total = monthly[p]]]

ResetTotals(a) ==
  /\ Recount(a, "nototals", "recent")
  /\ counter' = [p \in Packages |-> IF monthly[p] # 0 THEN counter[p]
                                    ELSE [counter[p] EXCEPT !.total = 0, !.last = 0]]

\* The packages with recent events, and then those without.
InWindow(a, p) == {e \in EventsOf(p, events) : e.at >= run[a].now - Window}

Recent(a) ==
  /\ Recount(a, "recent", "norecent")
  /\ counter' = [p \in Packages |->
                   IF InWindow(a, p) = {} THEN counter[p]
                   ELSE [counter[p] EXCEPT !.recent = Cardinality(InWindow(a, p))]]

ResetRecent(a) ==
  /\ Recount(a, "norecent", "prune")
  /\ counter' = [p \in Packages |-> IF InWindow(a, p) # {} THEN counter[p]
                                    ELSE [counter[p] EXCEPT !.recent = 0]]

Recompute(a) == Totals(a) \/ ResetTotals(a) \/ Recent(a) \/ ResetRecent(a)

Kept(a) == {e \in events : e.at >= run[a].now - Retention}

\* The last statement; the statistics of the site that follow are read by nothing here.
Prune(a) ==
  /\ run[a].step = "prune"
  /\ events' = Kept(a)
  /\ run' = [run EXCEPT ![a] = Idle]
  /\ UNCHANGED <<clock, request, watermark, monthly, counter,
                 recorded, uncounted, raced>>

\* An error or a signal ends a run; a transaction it was in is rolled back.
Crash(a) ==
  /\ run[a].step # "idle"
  /\ run' = [run EXCEPT ![a] = Idle]
  /\ UNCHANGED <<clock, request, events, watermark, monthly, counter,
                 recorded, uncounted, raced>>

-----------------------------------------------------------------------------
Aggregate(a) ==
  \/ StartRun(a) \/ ReadHigh(a) \/ CountNew(a) \/ Recompute(a)
  \/ Prune(a)

Downloads ==
  \E c \in Clients :
    \/ \E p \in Packages : LookupPackageID(c, p)
    \/ \E ok \in BOOLEAN : RecordInstall(c, ok)

Next ==
  \/ Tick \/ Downloads
  \/ \E a \in Runs : Aggregate(a) \/ Crash(a)

Spec == Init /\ [][Next]_vars

\* The timer starts a run every hour, runs go on, and not every one of them is
\* killed before it has counted.
LiveSpec == Spec /\ WF_vars(Aggregate(Timer)) /\ SF_vars(ReadHigh(Timer)) /\ SF_vars(CountNew(Timer))

-----------------------------------------------------------------------------
(* Properties.                                                              *)

\* No install is lost between two runs: one that no run has counted is still in the
\* table and above every watermark a run has read or written, although runs read
\* MAX(id) before their transaction, overlap, die and prune (aggregate.go:28-60, 150-154).
NothingSkipped ==
  \A e \in uncounted :
    e \in events /\ e.id > watermark /\ \A a \in Runs : e.id > run[a].low

\* Whatever has been counted has been counted in last_installed_at too, in whatever
\* order events were written (aggregate.go:68-81).
LastInstalledCovers ==
  \A e \in events \ uncounted : counter[e.pkg].last >= e.at

\* An all-time count is never taken back, by no overlap of runs and no pruning of
\* events (aggregate.go:54-64, 98-121).
TotalsOnlyGrow ==
  [][\A p \in Packages : counter'[p].total >= counter[p].total
                         /\ counter'[p].last >= counter[p].last]_vars

\* The counters are what the documentation says they are: a run leaves every install
\* recorded so far in them, once, as long as no install and no other run came
\* between its reads and its transaction (docs/telemetry.md:93, aggregate.go:40-95).
Counters == INSTANCE InstallCounter WITH counted <- monthly
CountsInstalls == Counters!Spec

\* Again and again there is nothing left to count.
CountsInTheEnd == []<>(uncounted = {})

=============================================================================
