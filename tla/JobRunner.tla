----------------------------- MODULE JobRunner -----------------------------
(***************************************************************************)
(* The one-shot job path of run_job (src/src/environment/action/           *)
(* deploy_job.rs): delete the old job, create it, then loop: select the    *)
(* active pod (get_active_job_pod_by_selector), wait for its job container *)
(* or a forced cancel, read the JSON output, touch the terminate file of   *)
(* the waiting side-car, get the job and wait until job_status is          *)
(* terminal, and retry on failure up to max_nb_restart.                    *)
(*                                                                         *)
(* The cluster is the environment: the Kubernetes job controller creates   *)
(* one pod at a time while succeeded = 0 and failed <= backoffLimit, the   *)
(* kubelet starts it, its job container exits with some exit code, and the *)
(* pod completes once the side-car has been told to terminate.  The        *)
(* user may request a forced cancel at any time.                           *)
(***************************************************************************)
EXTENDS Naturals, Sequences, FiniteSets

CONSTANTS
    Pods,            \* pod names the job controller may create
    NoPod,           \* "no pod selected yet"
    MaxNbRestart,    \* job.max_nb_restart()
    BackoffLimit,    \* backoffLimit of the job resource rendered by the chart
    JobMaxDuration,  \* job.max_duration(), in seconds
    Jobs,            \* the jobs of the environment
    ThisJob,         \* the job being run
    LifecycleJobs    \* target.environment.jobs filtered on is_job(), in order

ASSUME PodsAssumption == IsFiniteSet(Pods) /\ NoPod \notin Pods
ASSUME BudgetAssumption ==
    /\ MaxNbRestart \in Nat /\ BackoffLimit \in Nat /\ JobMaxDuration \in Nat
ASSUME LifecycleJobsAssumption ==
    /\ ThisJob \in Jobs
    /\ LifecycleJobs \in Seq(Jobs)
    /\ Len(LifecycleJobs) >= 1
    /\ \E i \in 1..Len(LifecycleJobs) : LifecycleJobs[i] = ThisJob

OtherJobs == {LifecycleJobs[i] : i \in 1..Len(LifecycleJobs)} \ {ThisJob}

(* retry::delay::Fixed(10s).take(min(30, max_duration / 10)): retry::retry *)
(* calls the operation once, then once more per delay.                     *)
PollRetries == IF JobMaxDuration \div 10 < 30 THEN JobMaxDuration \div 10 ELSE 30
MaxPolls == PollRetries + 1

Results == {"none", "ok", "helmError", "podNotFound", "cancelled",
            "touchError", "jobNotFound", "jobFailed"}
PodPhases == {"none", "pending", "running", "mainDone", "succeeded", "failed", "deleted"}
PCs == {"deleteOld", "create", "select", "waitContainer", "cancelDelete",
        "readOutput", "touch", "getJob", "waitJob", "done"}

VARIABLES
    \* the engine (one run_job task)
    pc,          \* where run_job is
    result,      \* what run_job returned
    processed,   \* set_of_pods_already_processed
    podName,     \* pod_name of the current iteration
    iterations,  \* job_creation_iterations
    polls,       \* attempts made by the current get_active_job_pod_by_selector
    delIdx,      \* index in LifecycleJobs of the forced-cancel deletion loop
    reports,     \* pods whose output was sent by core_configuration_for_job, in order
    \* the cluster
    jobAlive,    \* the job resource job.kube_name() exists
    pod,         \* phase of each pod of the job
    mainOk,      \* exit code of each pod's job container was 0
    touched,     \* pods whose /qovery-output/terminate file was written
    succeeded,   \* job .status.succeeded
    failed,      \* job .status.failed
    lcAlive,     \* the other lifecycle jobs whose resources still exist
    forceCancel  \* target.abort.status().should_force_cancel()

engineVars == <<pc, result, processed, podName, iterations, polls, delIdx, reports>>
clusterVars == <<jobAlive, pod, mainOk, touched, succeeded, failed, lcAlive, forceCancel>>
vars == <<engineVars, clusterVars>>

-----------------------------------------------------------------------------
(* What the pod list of the label selector job-name=<kube_name> shows.     *)
Listed == {p \in Pods : pod[p] \notin {"none", "deleted"}}
(* A pod has a container in state running: the job container or the       *)
(* waiting side-car.                                                       *)
ActivePods == {p \in Pods : pod[p] \in {"running", "mainDone"}}
AnyPending == \E p \in Listed : pod[p] = "pending"

(* job_pod_container_status_is_terminated: the job container of p is in    *)
(* state terminated; a pod that no longer exists is not.                   *)
MainTerminated(p) == pod[p] \in {"mainDone", "succeeded", "failed"}

(* is_job_terminated: job_status is Success or Failure; the counters are   *)
(* omitted by the API server when they are 0.                              *)
JobTerminated == jobAlive /\ (succeeded > 0 \/ failed > 0)

(* Mutant: the poll forgets set_of_pods_already_processed.                *)
PollFoundNoDedup(p) ==
    /\ Listed # {}
    /\ ~AnyPending
    /\ ActivePods = {p}

(* The single active pod is new: the poll returns OperationResult::Ok.     *)
PollFound(p) ==
    /\ Listed # {}
    /\ ~AnyPending
    /\ ActivePods = {p}
    /\ p \notin processed

(* Deleting every resource labelled with job j (kubectl delete job -l).    *)
DeleteJobResources(j) ==
    IF j = ThisJob
    THEN /\ jobAlive' = FALSE
         /\ pod' = [p \in Pods |-> IF pod[p] = "none" THEN "none" ELSE "deleted"]
         /\ UNCHANGED lcAlive
    ELSE /\ lcAlive' = lcAlive \ {j}
         /\ UNCHANGED <<jobAlive, pod>>

Finish(r) == pc' = "done" /\ result' = r

-----------------------------------------------------------------------------
Init ==
    /\ pc = "deleteOld"
    /\ result = "none"
    /\ processed = {}
    /\ podName = NoPod
    /\ iterations = 0
    /\ polls = 0
    /\ delIdx = 1
    /\ reports = <<>>
    /\ jobAlive \in BOOLEAN
    /\ pod = [p \in Pods |-> "none"]
    /\ mainOk = [p \in Pods |-> TRUE]
    /\ touched = {}
    /\ succeeded = 0
    /\ failed = 0
    /\ lcAlive = OtherJobs
    /\ forceCancel = FALSE

(* helm.on_delete: the job spec is immutable, so the old job is removed    *)
(* first; an error ends the run.                                           *)
DeleteOldJob ==
    /\ pc = "deleteOld"
    /\ \/ /\ jobAlive' = FALSE
          /\ pc' = "create"
          /\ UNCHANGED result
       \/ /\ Finish("helmError")
          /\ UNCHANGED jobAlive
    /\ UNCHANGED <<processed, podName, iterations, polls, delIdx, reports,
                   pod, mainOk, touched, succeeded, failed, lcAlive, forceCancel>>

(* helm.on_create; an error (possibly after the release was applied) ends  *)
(* the run.  The loop variables start empty.                               *)
CreateJob ==
    /\ pc = "create"
    /\ \/ /\ jobAlive' = TRUE
          /\ pc' = "select"
          /\ UNCHANGED result
       \/ /\ Finish("helmError")
          /\ jobAlive' \in BOOLEAN
    /\ polls' = 0
    /\ UNCHANGED <<processed, podName, iterations, delIdx, reports,
                   pod, mainOk, touched, succeeded, failed, lcAlive, forceCancel>>

(* Mutant: a retry that does not consume a delay of the iterator.         *)
PollRetryUncounted ==
    UNCHANGED <<polls, pc, result>>

(* One OperationResult::Retry of the poll; the retries are exhausted when  *)
(* the last delay has been taken, and the error ends the run.              *)
PollRetry ==
    IF polls + 1 < MaxPolls
    THEN polls' = polls + 1 /\ UNCHANGED <<pc, result>>
    ELSE Finish("podNotFound") /\ UNCHANGED polls

(* One poll of get_active_job_pod_by_selector on a pod list it obtained.   *)
SelectPod ==
    /\ pc = "select"
    /\ \/ \E p \in Pods :
            /\ PollFound(p)
            /\ processed' = processed \cup {p}
            /\ podName' = p
            /\ pc' = "waitContainer"
            /\ UNCHANGED <<result, polls>>
       \/ /\ ~\E p \in Pods : PollFound(p)
          /\ PollRetry
          /\ UNCHANGED <<processed, podName>>
    /\ UNCHANGED <<iterations, delIdx, reports, clusterVars>>

(* The pod list call itself fails: also a retry.                           *)
ListPodsFails ==
    /\ pc = "select"
    /\ PollRetry
    /\ UNCHANGED <<processed, podName, iterations, delIdx, reports, clusterVars>>

(* The biased select between should_force_cancel and await_condition on   *)
(* the job container, then the re-read of target.abort.status().           *)
WaitContainer ==
    /\ pc = "waitContainer"
    /\ forceCancel \/ MainTerminated(podName)
    /\ pc' = IF forceCancel THEN "cancelDelete" ELSE "readOutput"
    /\ delIdx' = 1
    /\ UNCHANGED <<result, processed, podName, iterations, polls, reports, clusterVars>>

(* One turn of the loop over the lifecycle jobs: a successful delete       *)
(* returns the cancellation error, a failed one is logged and the loop     *)
(* goes on; after the last one the run falls through to the output.        *)
CancelDelete ==
    /\ pc = "cancelDelete"
    /\ \/ /\ DeleteJobResources(LifecycleJobs[delIdx])
          /\ Finish("cancelled")
          /\ UNCHANGED delIdx
       \/ /\ IF delIdx = Len(LifecycleJobs)
             THEN pc' = "readOutput" /\ UNCHANGED delIdx
             ELSE delIdx' = delIdx + 1 /\ UNCHANGED pc
          /\ UNCHANGED <<result, jobAlive, pod, lcAlive>>
    /\ UNCHANGED <<processed, podName, iterations, polls, reports,
                   mainOk, touched, succeeded, failed, forceCancel>>

(* kubectl_get_job_pod_output then serialize_job_output: the output is     *)
(* reported only when it was read (the waiting side-car still runs) and    *)
(* parsed; either error is only logged.                                    *)
ReadOutput ==
    /\ pc = "readOutput"
    /\ \/ /\ pod[podName] \in {"running", "mainDone"}
          /\ reports' = Append(reports, podName)
       \/ UNCHANGED reports
    /\ pc' = "touch"
    /\ UNCHANGED <<result, processed, podName, iterations, polls, delIdx, clusterVars>>

(* exec touch /qovery-output/terminate in qovery-wait-container-output;    *)
(* the exec fails when the side-car is gone, or on an API error.           *)
Touch ==
    /\ pc = "touch"
    /\ \/ /\ pod[podName] \in {"running", "mainDone"}
          /\ touched' = touched \cup {podName}
          /\ pc' = "getJob"
          /\ UNCHANGED result
       \/ /\ Finish("touchError")
          /\ UNCHANGED touched
    /\ UNCHANGED <<processed, podName, iterations, polls, delIdx, reports,
                   jobAlive, pod, mainOk, succeeded, failed, lcAlive, forceCancel>>

(* jobs.get(kube_name): await_condition does not fail on a missing job,    *)
(* so its existence is checked first.                                      *)
GetJob ==
    /\ pc = "getJob"
    /\ IF jobAlive THEN pc' = "waitJob" /\ UNCHANGED result
                   ELSE Finish("jobNotFound")
    /\ UNCHANGED <<processed, podName, iterations, polls, delIdx, reports, clusterVars>>

(* Mutant: the budget check one iteration early.                          *)
BudgetExhaustedEarly == iterations + 1 = MaxNbRestart

(* Mutant: the budget check with > instead of ==.                         *)
BudgetExhaustedPast == iterations > MaxNbRestart

(* The restart budget is spent.                                            *)
BudgetExhausted == iterations = MaxNbRestart

(* await_condition(is_job_terminated) returns, then job_status is matched: *)
(* Success returns, Failure is propagated once the budget is spent and     *)
(* otherwise the loop starts again with a new pod selection.               *)
WaitJob ==
    /\ pc = "waitJob"
    /\ JobTerminated
    /\ \/ /\ succeeded > 0
          /\ Finish("ok")
          /\ UNCHANGED <<iterations, polls>>
       \/ /\ succeeded = 0
          /\ BudgetExhausted
          /\ Finish("jobFailed")
          /\ UNCHANGED <<iterations, polls>>
       \/ /\ succeeded = 0
          /\ ~BudgetExhausted
          /\ iterations' = iterations + 1
          /\ pc' = "select"
          /\ polls' = 0
          /\ UNCHANGED result
    /\ UNCHANGED <<processed, podName, delIdx, reports, clusterVars>>

(* The watch behind await_condition fails: "Cannot find job for           *)
(* terminated pod" is returned whatever the job does.                      *)
WatchFails ==
    /\ pc = "waitJob"
    /\ Finish("jobNotFound")
    /\ UNCHANGED <<processed, podName, iterations, polls, delIdx, reports, clusterVars>>

EngineSteps == DeleteOldJob \/ CreateJob \/ SelectPod \/ ListPodsFails \/ WaitContainer
               \/ CancelDelete \/ ReadOutput \/ Touch \/ GetJob \/ WaitJob

Engine == EngineSteps \/ WatchFails

-----------------------------------------------------------------------------
(* The cluster.  The job controller keeps one pod at a time until a pod    *)
(* succeeded or more than backoffLimit pods failed.                        *)
CreatePod(p) ==
    /\ jobAlive
    /\ succeeded = 0
    /\ failed <= BackoffLimit
    /\ \A q \in Pods : pod[q] \notin {"pending", "running", "mainDone"}
    /\ pod[p] = "none"
    /\ pod' = [pod EXCEPT ![p] = "pending"]
    /\ UNCHANGED <<engineVars, jobAlive, mainOk, touched, succeeded, failed, lcAlive, forceCancel>>

StartPod(p) ==
    /\ pod[p] = "pending"
    /\ pod' = [pod EXCEPT ![p] = "running"]
    /\ UNCHANGED <<engineVars, jobAlive, mainOk, touched, succeeded, failed, lcAlive, forceCancel>>

(* The job container exits with some exit code; the side-car keeps the pod *)
(* running.                                                                *)
MainExits(p) ==
    /\ pod[p] = "running"
    /\ pod' = [pod EXCEPT ![p] = "mainDone"]
    /\ mainOk' \in {[mainOk EXCEPT ![p] = b] : b \in BOOLEAN}
    /\ UNCHANGED <<engineVars, jobAlive, touched, succeeded, failed, lcAlive, forceCancel>>

(* The side-car saw the terminate file: the pod ends with the phase of its *)
(* job container and the job controller counts it.                         *)
PodCompletes(p) ==
    /\ pod[p] = "mainDone"
    /\ p \in touched
    /\ jobAlive
    /\ \/ /\ mainOk[p]
          /\ pod' = [pod EXCEPT ![p] = "succeeded"]
          /\ succeeded' = succeeded + 1
          /\ UNCHANGED failed
       \/ /\ ~mainOk[p]
          /\ pod' = [pod EXCEPT ![p] = "failed"]
          /\ failed' = failed + 1
          /\ UNCHANGED succeeded
    /\ UNCHANGED <<engineVars, jobAlive, mainOk, touched, lcAlive, forceCancel>>

RequestForceCancel ==
    /\ ~forceCancel
    /\ forceCancel' = TRUE
    /\ UNCHANGED <<engineVars, jobAlive, pod, mainOk, touched, succeeded, failed, lcAlive>>

Cluster == \E p \in Pods : CreatePod(p) \/ StartPod(p) \/ MainExits(p) \/ PodCompletes(p)

(* run_job has returned.                                                   *)
Terminated == pc = "done" /\ UNCHANGED vars

Next == Engine \/ Cluster \/ RequestForceCancel \/ Terminated

(* The engine task runs to its next await; the controller and the kubelet  *)
(* act on every pod they can act on.  The user is not obliged to cancel,   *)
(* and nothing obliges a watch to fail.                                    *)
Fairness ==
    /\ WF_vars(EngineSteps)
    /\ \A p \in Pods : WF_vars(CreatePod(p)) /\ WF_vars(StartPod(p))
                       /\ WF_vars(MainExits(p)) /\ WF_vars(PodCompletes(p))

Spec == Init /\ [][Next]_vars /\ Fairness

-----------------------------------------------------------------------------
TypeOK ==
    /\ pc \in PCs
    /\ result \in Results
    /\ processed \subseteq Pods
    /\ podName \in Pods \cup {NoPod}
    /\ iterations \in 0..MaxNbRestart
    /\ polls \in Nat
    /\ delIdx \in 1..Len(LifecycleJobs)
    /\ reports \in Seq(Pods)
    /\ jobAlive \in BOOLEAN
    /\ pod \in [Pods -> PodPhases]
    /\ mainOk \in [Pods -> BOOLEAN]
    /\ touched \subseteq Pods
    /\ succeeded \in Nat
    /\ failed \in Nat
    /\ lcAlive \subseteq OtherJobs
    /\ forceCancel \in BOOLEAN

(* The dedup set of get_active_job_pod_by_selector: the output of a pod is *)
(* sent at most once, even when the pod stays active (its side-car runs)   *)
(* after the loop went round to wait for the next pod.                     *)
NoDuplicateOutput ==
    \A i, j \in 1..Len(reports) : i # j => reports[i] # reports[j]

(* The inductive strengthening of NoDuplicateOutput: every reported pod   *)
(* is in the dedup set, and from its selection until its output is read    *)
(* the current pod is in the set and not yet reported.                     *)
OutputInv ==
    /\ \A i \in 1..Len(reports) : reports[i] \in processed
    /\ pc \in {"waitContainer", "cancelDelete", "readOutput"} =>
            /\ podName \in processed
            /\ \A i \in 1..Len(reports) : reports[i] # podName

(* The restart budget of the loop: a job failure is propagated only after  *)
(* max_nb_restart + 1 pods have been processed.                            *)
FailureAfterFullBudget ==
    result = "jobFailed" =>
        /\ iterations = MaxNbRestart
        /\ Cardinality(processed) = MaxNbRestart + 1

(* run_job returns: no wait of the loop hangs when the controller and the  *)
(* kubelet keep acting on the pods.                                        *)
RunTerminates == <>(pc = "done")

(* Spec 4.4 step 4: a forced cancel deletes all lifecycle jobs before the  *)
(* cancellation error is returned; the code returns after the first        *)
(* successful delete.                                                      *)
CancelRemovesLifecycleJobs ==
    result = "cancelled" => ~jobAlive /\ lcAlive = {}

(* Spec 4.4 step 8: a Failure is propagated for the pod the iteration      *)
(* processed; job_status reads the job's cumulative failed counter, which  *)
(* an earlier pod may have set.                                            *)
JobFailedOnlyWhenPodFailed ==
    result = "jobFailed" => ~mainOk[podName]

(* Spec 4.4 step 6: the side-car of each processed pod is told to exit    *)
(* once its output is captured.  The exec of the touch fails when the API  *)
(* call fails, and run_job then returns at once: the side-car of that pod  *)
(* keeps waiting for the terminate file and the pod never completes.       *)
SideCarReleased ==
    pc = "done" /\ result # "cancelled" => processed \subseteq touched

-----------------------------------------------------------------------------
(* The refinement mapping to JobRun: the run is running until run_job      *)
(* returns, Ok, a propagated job failure and the cancellation error are    *)
(* its outcomes, and every other error is an error; the pods tried are the *)
(* dedup set and the outputs sent are the reports.                         *)
AbsOutcome ==
    IF pc # "done" THEN "running"
    ELSE IF result = "ok"        THEN "ok"
    ELSE IF result = "jobFailed" THEN "failed"
    ELSE IF result = "cancelled" THEN "cancelled"
    ELSE "error"

Abs == INSTANCE JobRun WITH outcome <- AbsOutcome, tried <- processed, sent <- reports

(* run_job implements JobRun: each select tries a pod never tried and only *)
(* while the restart budget allows, each output sent is of a pod tried and *)
(* not sent before, Ok and the cancellation come after a pod was tried, a  *)
(* job failure only after max_nb_restart + 1 pods, and the run returns.    *)
ImplementsJobRun == Abs!Spec

=============================================================================
