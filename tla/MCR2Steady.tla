------------------------------ MODULE MCR2Steady ------------------------------
(* The pipeline alone, as its timer starts it.  In a "calm" history nothing   *)
(* fails, and packages are deactivated and reactivated while it is idle; in   *)
(* a "faulty" one calls fail and processes die at any step, and is_active     *)
(* stays as it is.                                                           *)
EXTENDS MCR2Deploy

VARIABLE history

NothingFails ==
  \/ Table \/ StartPipeline \/ Succeeds(Pipeline)
  \/ Refused(Pipeline) /\ Abort(Pipeline)

SteadyNext ==
  /\ Next
  /\ IF history = "calm" THEN NothingFails
     ELSE \A p \in Packages : rows'[p].active = rows[p].active
  /\ UNCHANGED history

SteadySpec ==
  Init /\ history \in {"calm", "faulty"} /\ [][SteadyNext]_<<vars, history>>

=============================================================================
