----------------------------- MODULE MassClosures -----------------------------
(***************************************************************************)
(* Mass closures: check-status records which plugins it finds closed, and    *)
(* ends with a transaction that looks for vendors with several closures      *)
(* within 24 hours and keeps one event per outbreak.  Which plugins are      *)
(* closed is WordPress.org's business (PackageSync); a plugin may be         *)
(* deactivated, reopened and tombstoned, and found closed by two checks.     *)
(***************************************************************************)
EXTENDS Integers, FiniteSets

CONSTANTS
  Plugins,
  Vendors,       \* slugs of authors; no two authors share one
  NoVendor,      \* for plugins without an author, or whose author has no slug
  Author,        \* whose plugin it is, as groupByVendor sees it
  Checkers,      \* processes that run check-status
  Window,        \* 24 hours
  Threshold,     \* ClosureEventThreshold
  MaxClock       \* bound on time

ASSUME ClosureAssumption ==
  /\ Author \in [Plugins -> Vendors \cup {NoVendor}]
  /\ NoVendor \notin Vendors
  /\ IsFiniteSet(Plugins)
  /\ {Window, Threshold, MaxClock} \subseteq Nat \ {0}

VARIABLES
  clock,
  changes,   \* status_check_changes: closures of plugins
  events,    \* closure_events of each vendor
  check,     \* what each check-status is doing
  tracked    \* history: the closures a run has looked at and committed

vars == <<clock, changes, events, check, tracked>>

-----------------------------------------------------------------------------
Idle == [step |-> "idle", now |-> 0, stale |-> FALSE]
Closure == [plugin : Plugins, at : Nat]
ClosureEvent == [at : Nat, slugs : SUBSET Plugins]

TypeOK ==
  /\ clock \in Nat
  /\ changes \subseteq Closure /\ tracked \subseteq changes
  /\ \A c \in changes : c.at <= clock
  /\ events \in [Vendors -> SUBSET ClosureEvent]
  /\ check \in [Checkers -> [step : {"idle", "checking", "tracking", "finish"},
                             now : 0 .. clock, stale : BOOLEAN]]

Init ==
  /\ clock = 1
  /\ changes = {} /\ tracked = {}
  /\ events = [v \in Vendors |-> {}]
  /\ check = [a \in Checkers |-> Idle]

Tick ==
  /\ clock < MaxClock
  /\ clock' = clock + 1
  /\ UNCHANGED <<changes, events, check, tracked>>

\* The others' snapshots, once a has committed a write.
Commit(a, step) ==
  check' = [b \in Checkers |->
    IF b = a THEN [Idle EXCEPT !.step = step]
    ELSE [check[b] EXCEPT !.stale = @ \/ check[b].step = "tracking"]]

Since(t, S) == {c \in S : c.at >= t}

\* Mutant: the clean-up leaves no rows of earlier checks.
StartClean(a) ==
  /\ check[a].step = "idle"
  /\ changes' = {}
  /\ tracked' = Since(clock - Window, tracked)
  /\ Commit(a, "checking")
  /\ UNCHANGED <<clock, events>>

\* The rows of all but the last fifty checks are deleted: hourly checks, so rows
\* that no window contains any more. Then the check is recorded.
StartStatusCheck(a) ==
  /\ check[a].step = "idle"
  /\ changes' = Since(clock - Window, changes)
  /\ tracked' = Since(clock - Window, tracked)
  /\ Commit(a, "checking")
  /\ UNCHANGED <<clock, events>>

\* A package is deactivated or tombstoned, and then the row is inserted (if
\* that fails nobody hears of it).
RecordStatusCheckChange(a, p) ==
  /\ check[a].step = "checking"
  /\ changes' = changes \cup {[plugin |-> p, at |-> clock]}
  /\ Commit(a, "checking")
  /\ UNCHANGED <<clock, events, tracked>>

-----------------------------------------------------------------------------
(* TrackMassClosures.                                                       *)

\* A read transaction: its snapshot is the database of this moment.
BeginTx(a) ==
  /\ check[a].step = "checking"
  /\ check' = [check EXCEPT ![a] = [step |-> "tracking", now |-> clock, stale |-> FALSE]]
  /\ UNCHANGED <<clock, changes, events, tracked>>

\* groupByVendor, without duplicates. No vendor has the plugins of NoVendor: a run
\* skips them.
Recent(v, t) == {c.plugin : c \in {d \in Since(t, changes) : Author[d.plugin] = v}}

IsLatest(e, E) == e \in E /\ \A f \in E : f.at <= e.at

\* Mutant: only the latest closures are kept.
ExtendedOnly(E, S) ==
  {IF IsLatest(e, E) THEN [e EXCEPT !.slugs = S] ELSE e : e \in E}

\* The outbreak goes on.
Extended(E, S) ==
  {IF IsLatest(e, E) THEN [e EXCEPT !.slugs = @ \cup S] ELSE e : e \in E}

\* Without what the most recent event has, however long ago it was, is there a new
\* outbreak?
Opened(E, S, now) ==
  LET rest == {p \in S : \A e \in E : IsLatest(e, E) => p \notin e.slugs}
  IN IF Cardinality(rest) >= Threshold THEN E \cup {[at |-> now, slugs |-> rest]} ELSE E

\* Mutant: an outbreak that has its event needs no update.
RecordedOnce(E, S, now) ==
  IF Cardinality(S) < Threshold \/ \E e \in E : e.at >= now - Window THEN E
  ELSE Opened(E, S, now)

\* Mutant: the event of exactly a window ago is not active any more.
RecordedPast(E, S, now) ==
  IF Cardinality(S) < Threshold THEN E
  ELSE IF \E e \in E : e.at > now - Window THEN Extended(E, S)
  ELSE Opened(E, S, now)

\* A vendor's events after a run that found the closures S.
Recorded(E, S, now) ==
  IF Cardinality(S) < Threshold THEN E
  ELSE IF \E e \in E : e.at >= now - Window THEN Extended(E, S)
  ELSE Opened(E, S, now)

\* The first write needs a snapshot that is still the database; from then on nobody
\* else writes, and the transaction commits.
CommitTx(a) ==
  /\ check[a].step = "tracking" /\ ~check[a].stale
  /\ LET now == check[a].now
     IN /\ events' = [v \in Vendors |-> Recorded(events[v], Recent(v, now - Window), now)]
        /\ tracked' = tracked \cup Since(now - Window, changes)
  /\ Commit(a, "finish")
  /\ UNCHANGED <<clock, changes>>

\* SQLite refuses it otherwise (a run without anything to write just ends); this and
\* other errors are logged.
RollbackTx(a) ==
  /\ check[a].step = "tracking"
  /\ check' = [check EXCEPT ![a] = [Idle EXCEPT !.step = "finish"]]
  /\ UNCHANGED <<clock, changes, events, tracked>>

FinishStatusCheck(a) ==
  /\ check[a].step = "finish"
  /\ Commit(a, "idle")
  /\ UNCHANGED <<clock, changes, events, tracked>>

Crash(a) ==
  /\ check[a].step # "idle"
  /\ check' = [check EXCEPT ![a] = Idle]
  /\ UNCHANGED <<clock, changes, events, tracked>>

-----------------------------------------------------------------------------
Next ==
  \/ Tick
  \/ \E a \in Checkers :
       \/ StartStatusCheck(a) \/ BeginTx(a) \/ CommitTx(a) \/ RollbackTx(a)
       \/ FinishStatusCheck(a) \/ Crash(a)
       \/ \E p \in Plugins : RecordStatusCheckChange(a, p)

Spec == Init /\ [][Next]_vars

-----------------------------------------------------------------------------
(* Properties.                                                              *)

\* An outbreak has one event for as long as its window: two events of a vendor are
\* more than a window apart, also when two checks look at the same closures. (The
\* comment at closures.go:40-42 fears a race; the snapshot rules it out.)
DetectedApart ==
  \A v \in Vendors : \A e, f \in events[v] : e # f => e.at > f.at + Window \/ f.at > e.at + Window

\* What an event reports it goes on reporting, whatever runs find later
\* (closures.go:137-161).
KeepStep ==
  \A v \in Vendors : \A e \in events[v] :
    \E f \in events'[v] : f.at = e.at /\ e.slugs \subseteq f.slugs
EventsOnlyGrow == [][KeepStep]_vars

\* What the latest of the events E and the one before it report.
LastTwo(E) ==
  LET older == {f \in E : ~IsLatest(f, E)}
  IN UNION {e.slugs : e \in {f \in E : IsLatest(f, E) \/ IsLatest(f, older)}}

Reported(v) == LastTwo(events[v])

\* Of the closures within a window that runs have looked at, fewer than the threshold
\* are left out of a vendor's latest two events: nothing that is subtracted, deferred,
\* merged or rolled back amounts to an outbreak. It does not say that the event is a
\* new one. Plugins that the latest event has are subtracted however old it is
\* (closures.go:101-115), so when they are reopened and closed again there is none,
\* although "the window has reset and we create a new event" (77-79). Nor does it
\* speak of plugins without a vendor (72-75, 204-207), which nobody reports.
EveryOutbreakReported ==
  \A v \in Vendors :
    Cardinality({c.plugin : c \in {d \in Since(clock - Window, tracked) : Author[d.plugin] = v}}
                \ Reported(v)) < Threshold

\* Adjacent events of a vendor share no plugin (closures.go:95-99).
AdjacentShareNothing ==
  \A v \in Vendors : \A e, f \in events[v] :
    e # f /\ (\A g \in events[v] : g.at <= e.at \/ g.at >= f.at) => e.slugs \cap f.slugs = {}

=============================================================================
