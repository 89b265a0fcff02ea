---------------------------- MODULE MCJobRunner ----------------------------
(* JobRunner on three pod names, a restart budget of 2 and a max duration  *)
(* of 20 s (three polls per pod selection).                                *)
EXTENDS JobRunner, TLC

CONSTANTS p1, p2, p3, jOther, jSelf

MCPods == {p1, p2, p3}
(* The job is the only lifecycle job of the environment.                   *)
MCLifecycleJobsAlone == <<jSelf>>
(* Another lifecycle job comes first in target.environment.jobs.           *)
MCLifecycleJobsOtherFirst == <<jOther, jSelf>>
MCJobs == {jOther, jSelf}
MCSymmetry == Permutations(MCPods)
=============================================================================
