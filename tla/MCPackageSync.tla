---------------------------- MODULE MCPackageSync ----------------------------
(* Instances of PackageSync for TLC, and the two programs as their timers    *)
(* start them: "pipeline --discover-source=svn" and check-status.            *)
EXTENDS PackageSync, TLC

Symmetry == Permutations(Packages)

Check ==
  \/ StartCheck
  \/ \E p \in Packages : CheckFetch(p) \/ CheckStore(p)

\* Calls that succeed, processes that live and a log replica that has caught
\* up: nothing disables a step for ever, so weak fairness is enough.
CaughtUp(S) ==
  \/ phase = "listing" /\ S = {p \in Packages : ~Known(p)} /\ ListShells(S)
  \/ S = {p \in Packages : log[p] = "unread"} /\ MarkPackagesChanged(S)

LivePipeline ==
  \/ StartDiscover \/ FinishUpdate
  \/ SaveRevision /\ \A p \in Packages : log[p] # "unread"
  \/ phase = "discovered" /\ StartUpdate
  \/ \E S \in SUBSET Packages : CaughtUp(S) \/ Flush(S, S)
  \/ \E p \in Packages :
       FetchClosed(p) \/ StoreClosed(p) \/ \E bump \in Age \cup {NoBump} : FetchOk(p, bump)

\* Everything may happen, until nothing fails, dies or is run by hand any more.
Calm == (\E p \in Packages : Upstream(p)) \/ LivePipeline \/ Check

-----------------------------------------------------------------------------
(* Two instances in one.  One package lives, the others were closed for good  *)
(* and tombstoned long ago.  A plugin is closed and reopened while the API    *)
(* answers at once; a theme is reviewed and served from the API's cache, its  *)
(* releases are paced, it is never closed, and half the moves suffice.        *)

InitLiving(L) ==
  /\ truth = [p \in Packages |-> [tag |-> 1, pub |-> 1]]
  /\ api = truth
  /\ listed = [p \in Packages |-> IF p \in L THEN "open" ELSE "permanent"]
  /\ log = [p \in Packages |-> "read"]
  /\ moves = IF L = Themes THEN MaxMoves \div 2 ELSE MaxMoves
  /\ row = [p \in Packages |->
              IF p \in L THEN [status |-> "absent", tombstone |-> FALSE,
                               ver |-> 0, synced |-> "never", age |-> 2]
              ELSE [status |-> "inactive", tombstone |-> TRUE,
                    ver |-> 0, synced |-> "never", age |-> 2]]
  /\ phase = "free"
  /\ task = [p \in Packages |-> NoTask]
  /\ check = [p \in Packages |-> "none"]

CalmSpec ==
  /\ \E L \in {Themes, Packages \ Themes} : InitLiving(L)
  /\ [][Next]_vars /\ <>[][Calm]_vars
  /\ WF_vars(LivePipeline)
  /\ \A p \in Packages :
       WF_vars(CheckFetch(p)) /\ WF_vars(CheckStore(p)) /\ WF_vars(RefreshApi(p))
  /\ WF_vars(StartCheck)

=============================================================================
