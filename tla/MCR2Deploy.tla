------------------------------ MODULE MCR2Deploy ------------------------------
(* Instances of R2Deploy for TLC.                                            *)
EXTENDS R2Deploy, TLC

Symmetry == Permutations(Packages)

\* Calls that succeed, of what has begun.
Succeeds(d) ==
  \/ At(d, "reserved") /\ ReadRows(d, Packages)
  \/ FinishBuild(d)
  \/ \E b \in Ids : BeginSync(d, b)
  \/ \E k \in proc[d].keys : Upload(d, k)
  \/ Stamp(d) \/ ListGone(d) \/ PutRoot(d) \/ Promote(d)
  \/ \E p \in proc[d].gone : DeleteObjects(d, p, Kinds)
  \/ ClearHash(d, TRUE) \/ RecordR2Sync(d, TRUE)
  \/ At(d, "cleanup") /\ ListOld(d)
  \/ (\E b \in proc[d].doomed : RemoveBuild(d, b)) \/ EndCleanup(d)
  \/ FinishSweep(d) \/ \E S \in SUBSET proc[d].gone : SweepBatch(d, S, {})

-----------------------------------------------------------------------------
(* The pipeline and the commands of one operator take turns: a build, a       *)
(* deploy of any build (rollbacks too) or a sweep does not run beside the     *)
(* pipeline.  Only the operator's "deploy --cleanup" does.  Contents stay as  *)
(* they are: MCR2Steady changes them.                                        *)

OperatorTurn == At(Pipeline, "idle")
PipelineTurn == \A d \in Operators : At(d, "idle") \/ At(d, "remove")

StatusChanges == \E p \in Packages : SetActive(p)

Turns ==
  \/ StatusChanges
  \/ \E d \in Operators : Cleanup(d) \/ Abort(d)
  \/ OperatorTurn /\ \E d \in Operators : Build(d) \/ Sync(d) \/ Sweep(d)
  \/ /\ PipelineTurn
     /\ \/ StartPipeline \/ Build(Pipeline) \/ Sync(Pipeline)
        \/ Cleanup(Pipeline) \/ Abort(Pipeline)

\* Calls may fail and processes die any number of times, but not for ever; from then
\* on what has begun runs to its end and the operator's syncs go on. Changes of the
\* table need not happen.
Good == \E d \in Procs : Succeeds(d)

TurnsSpec == Init /\ [][Turns]_vars /\ <>[][Good \/ StatusChanges]_vars /\ WF_vars(Good)

=============================================================================
