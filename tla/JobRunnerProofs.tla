--------------------------- MODULE JobRunnerProofs ---------------------------
(***************************************************************************)
(* Proofs about the one-shot job loop of run_job, for every pod set,       *)
(* restart budget, max duration and list of lifecycle jobs.                *)
(***************************************************************************)
EXTENDS JobRunner, FiniteSetTheorems, TLAPS

(* From its selection on, the pod of the iteration is a pod of the job.    *)
PodSelected ==
    pc \in {"waitContainer", "cancelDelete", "readOutput", "touch", "getJob", "waitJob"}
        => podName \in Pods

TypeInv == TypeOK /\ PodSelected

-----------------------------------------------------------------------------
(* Every step of run_job and of the cluster keeps each variable in its     *)
(* type: in particular the loop counter job_creation_iterations never      *)
(* exceeds max_nb_restart and the deletion loop never indexes past the end *)
(* of the environment's lifecycle jobs.                                    *)
LEMMA TypeInvInductive == TypeInv /\ [Next]_vars => TypeInv'
<1> SUFFICES ASSUME TypeInv, [Next]_vars PROVE TypeInv'
    OBVIOUS
<1>1. CASE DeleteOldJob
    BY <1>1 DEF DeleteOldJob, Finish, TypeInv, TypeOK, PodSelected, PCs, Results
<1>2. CASE CreateJob
    BY <1>2 DEF CreateJob, Finish, TypeInv, TypeOK, PodSelected, PCs, Results
<1>3. CASE SelectPod
    BY <1>3 DEF SelectPod, PollRetry, Finish, TypeInv, TypeOK, PodSelected, PCs,
                Results, clusterVars
<1>4. CASE ListPodsFails
    BY <1>4 DEF ListPodsFails, PollRetry, Finish, TypeInv, TypeOK, PodSelected, PCs,
                Results, clusterVars
<1>5. CASE WaitContainer
    BY <1>5 DEF WaitContainer, TypeInv, TypeOK, PodSelected, PCs, clusterVars
<1>6. CASE CancelDelete
    <2>1. CASE /\ DeleteJobResources(LifecycleJobs[delIdx])
               /\ Finish("cancelled")
               /\ UNCHANGED delIdx
        <3>1. /\ jobAlive' \in BOOLEAN
              /\ pod' \in [Pods -> PodPhases]
              /\ lcAlive' \subseteq OtherJobs
            BY <2>1 DEF DeleteJobResources, TypeInv, TypeOK, PodPhases
        <3>2. QED
            BY <1>6, <2>1, <3>1 DEF CancelDelete, Finish, TypeInv, TypeOK, PodSelected,
                                    PCs, Results
    <2>2. CASE /\ IF delIdx = Len(LifecycleJobs)
                  THEN pc' = "readOutput" /\ UNCHANGED delIdx
                  ELSE delIdx' = delIdx + 1 /\ UNCHANGED pc
               /\ UNCHANGED <<result, jobAlive, pod, lcAlive>>
        BY <1>6, <2>2 DEF CancelDelete, TypeInv, TypeOK, PodSelected, PCs
    <2>3. QED
        BY <1>6, <2>1, <2>2 DEF CancelDelete
<1>7. CASE ReadOutput
    <2>1. podName \in Pods
        BY <1>7 DEF ReadOutput, TypeInv, PodSelected
    <2>2. reports' \in Seq(Pods)
        BY <1>7, <2>1 DEF ReadOutput, TypeInv, TypeOK
    <2>3. /\ pc' = "touch"
          /\ UNCHANGED <<result, processed, podName, iterations, polls, delIdx, clusterVars>>
        BY <1>7 DEF ReadOutput
    <2>4. QED
        BY <2>1, <2>2, <2>3 DEF TypeInv, TypeOK, PodSelected, PCs, clusterVars
<1>8. CASE Touch
    BY <1>8 DEF Touch, Finish, TypeInv, TypeOK, PodSelected, PCs, Results
<1>9. CASE GetJob
    BY <1>9 DEF GetJob, Finish, TypeInv, TypeOK, PodSelected, PCs, Results, clusterVars
<1>10. CASE WaitJob
    BY <1>10, BudgetAssumption DEF WaitJob, BudgetExhausted, Finish, TypeInv, TypeOK, PodSelected, PCs,
                 Results, clusterVars
<1>18. CASE WatchFails
    BY <1>18 DEF WatchFails, Finish, TypeInv, TypeOK, PodSelected, PCs, Results, clusterVars
<1>11. ASSUME NEW p \in Pods, CreatePod(p) PROVE TypeInv'
    BY <1>11 DEF CreatePod, TypeInv, TypeOK, PodSelected, PodPhases, engineVars
<1>12. ASSUME NEW p \in Pods, StartPod(p) PROVE TypeInv'
    BY <1>12 DEF StartPod, TypeInv, TypeOK, PodSelected, PodPhases, engineVars
<1>13. ASSUME NEW p \in Pods, MainExits(p) PROVE TypeInv'
    BY <1>13 DEF MainExits, TypeInv, TypeOK, PodSelected, PodPhases, engineVars
<1>14. ASSUME NEW p \in Pods, PodCompletes(p) PROVE TypeInv'
    <2>1. CASE mainOk[p]
        BY <1>14, <2>1 DEF PodCompletes, TypeInv, TypeOK, PodSelected, PodPhases,
                           engineVars
    <2>2. CASE ~mainOk[p]
        BY <1>14, <2>2 DEF PodCompletes, TypeInv, TypeOK, PodSelected, PodPhases,
                           engineVars
    <2>3. QED
        BY <2>1, <2>2
<1>15. CASE RequestForceCancel
    BY <1>15 DEF RequestForceCancel, TypeInv, TypeOK, PodSelected, engineVars
<1>16. CASE Terminated \/ UNCHANGED vars
    BY <1>16 DEF Terminated, TypeInv, TypeOK, PodSelected, vars, engineVars, clusterVars
<1>17. QED
    BY <1>1, <1>2, <1>3, <1>4, <1>5, <1>6, <1>7, <1>8, <1>9, <1>10, <1>11,
       <1>12, <1>13, <1>14, <1>15, <1>16, <1>18
    DEF Next, Engine, EngineSteps, Cluster

(* The initial state of run_job and of the cluster is well typed.         *)
LEMMA InitTypeInv == Init => TypeInv
<1> SUFFICES ASSUME Init PROVE TypeInv
    OBVIOUS
<1>1. delIdx \in 1..Len(LifecycleJobs)
    BY LifecycleJobsAssumption DEF Init
<1>2. reports \in Seq(Pods) /\ pod \in [Pods -> PodPhases] /\ mainOk \in [Pods -> BOOLEAN]
    BY DEF Init, PodPhases
<1>3. jobAlive \in BOOLEAN /\ forceCancel \in BOOLEAN
    BY Zenon DEF Init
<1>4. QED
    BY <1>1, <1>2, <1>3, BudgetAssumption DEF Init, TypeInv, TypeOK, PodSelected, PCs,
                                              Results

(* Every step of run_job and of the cluster keeps each variable in its     *)
(* type: in particular the loop counter job_creation_iterations never      *)
(* exceeds max_nb_restart and the deletion loop never indexes past the end *)
(* of the environment's lifecycle jobs.                                    *)
THEOREM TypeCorrect == Spec => []TypeOK
<1>1. Init => TypeInv
    BY InitTypeInv
<1>2. TypeInv => TypeOK
    BY DEF TypeInv
<1>3. QED
    BY <1>1, <1>2, TypeInvInductive, PTL DEF Spec

-----------------------------------------------------------------------------
IInv == TypeInv /\ OutputInv /\ NoDuplicateOutput

(* Appending an element that is not yet in a duplicate-free sequence keeps  *)
(* it duplicate-free, and every old entry keeps its index.                 *)
LEMMA AppendFresh ==
    ASSUME NEW S, NEW s \in Seq(S), NEW x \in S,
           \A i, j \in 1..Len(s) : i # j => s[i] # s[j],
           \A i \in 1..Len(s) : s[i] # x
    PROVE  LET t == Append(s, x) IN
           /\ \A i, j \in 1..Len(t) : i # j => t[i] # t[j]
           /\ \A i \in 1..Len(t) : t[i] \in {s[k] : k \in 1..Len(s)} \cup {x}
    OBVIOUS

(* The dedup set of get_active_job_pod_by_selector: whatever the cluster    *)
(* does between polls, and however often the loop goes round, run_job       *)
(* never sends the output of the same pod twice.                            *)
LEMMA IInvInductive == IInv /\ [Next]_vars => IInv'
<1> SUFFICES ASSUME IInv, [Next]_vars PROVE IInv'
    OBVIOUS
<1>1. TypeInv'
    BY TypeInvInductive DEF IInv
<1> SUFFICES OutputInv' /\ NoDuplicateOutput'
    BY <1>1 DEF IInv
<1>2. CASE SelectPod
    <2>1. CASE \E p \in Pods :
                  /\ PollFound(p)
                  /\ processed' = processed \cup {p}
                  /\ podName' = p
                  /\ pc' = "waitContainer"
                  /\ UNCHANGED <<result, polls>>
        <3>1. PICK p \in Pods : /\ PollFound(p)
                                /\ processed' = processed \cup {p}
                                /\ podName' = p
                                /\ pc' = "waitContainer"
            BY <2>1
        <3>2. \A i \in 1..Len(reports) : reports[i] # p
            BY <3>1 DEF PollFound, IInv, OutputInv
        <3>3. QED
            BY <1>2, <3>1, <3>2 DEF SelectPod, IInv, OutputInv, NoDuplicateOutput
    <2>2. CASE /\ ~\E p \in Pods : PollFound(p)
               /\ PollRetry
               /\ UNCHANGED <<processed, podName>>
        <3>1. pc' \in {"select", "done"}
            BY <1>2, <2>2 DEF SelectPod, PollRetry, Finish
        <3>2. QED
            BY <1>2, <2>2, <3>1 DEF SelectPod, IInv, OutputInv, NoDuplicateOutput
    <2>3. QED
        BY <1>2, <2>1, <2>2 DEF SelectPod
<1>3. CASE ListPodsFails
    <2>1. pc' \in {"select", "done"}
        BY <1>3 DEF ListPodsFails, PollRetry, Finish
    <2>2. QED
        BY <1>3, <2>1 DEF ListPodsFails, IInv, OutputInv, NoDuplicateOutput
<1>4. CASE ReadOutput
    <2>1. CASE reports' = Append(reports, podName)
        <3>1. podName \in Pods /\ podName \in processed
            BY <1>4 DEF ReadOutput, IInv, OutputInv, TypeInv, PodSelected
        <3>2. \A i \in 1..Len(reports) : reports[i] # podName
            BY <1>4 DEF ReadOutput, IInv, OutputInv
        <3>3. /\ reports \in Seq(Pods)
              /\ \A i, j \in 1..Len(reports) : i # j => reports[i] # reports[j]
            BY DEF IInv, TypeInv, TypeOK, NoDuplicateOutput
        <3>4. /\ \A i, j \in 1..Len(reports') : i # j => reports'[i] # reports'[j]
              /\ \A i \in 1..Len(reports') :
                    reports'[i] \in {reports[k] : k \in 1..Len(reports)} \cup {podName}
            BY <2>1, <3>1, <3>2, <3>3, AppendFresh
        <3>5. \A i \in 1..Len(reports') : reports'[i] \in processed
            BY <1>4, <3>1, <3>4 DEF ReadOutput, IInv, OutputInv
        <3>6. QED
            BY <1>4, <3>4, <3>5 DEF ReadOutput, OutputInv, NoDuplicateOutput
    <2>2. CASE UNCHANGED reports
        BY <1>4, <2>2 DEF ReadOutput, IInv, OutputInv, NoDuplicateOutput
    <2>3. QED
        BY <1>4, <2>1, <2>2 DEF ReadOutput
<1>5. CASE DeleteOldJob \/ CreateJob \/ WaitContainer \/ CancelDelete \/ Touch
           \/ GetJob \/ WaitJob \/ WatchFails
    <2>1. UNCHANGED <<processed, podName, reports>>
        BY <1>5 DEF DeleteOldJob, CreateJob, WaitContainer, CancelDelete, Touch,
                    GetJob, WaitJob, WatchFails
    <2>2. pc' \in {"waitContainer", "cancelDelete", "readOutput"} =>
              pc \in {"waitContainer", "cancelDelete", "readOutput"}
        BY <1>5 DEF DeleteOldJob, CreateJob, WaitContainer, CancelDelete, Touch,
                    GetJob, WaitJob, WatchFails, Finish
    <2>3. QED
        BY <2>1, <2>2 DEF IInv, OutputInv, NoDuplicateOutput
<1>6. CASE Cluster \/ RequestForceCancel \/ Terminated \/ UNCHANGED vars
    <2>1. UNCHANGED engineVars
        BY <1>6 DEF Cluster, CreatePod, StartPod, MainExits, PodCompletes,
                    RequestForceCancel, Terminated, vars
    <2>2. QED
        BY <2>1 DEF engineVars, IInv, OutputInv, NoDuplicateOutput
<1>7. QED
    BY <1>2, <1>3, <1>4, <1>5, <1>6 DEF Next, Engine, EngineSteps

(* The output of each pod that core_configuration_for_job forwards is sent  *)
(* once: set_of_pods_already_processed keeps a pod whose side-car is still *)
(* running from being selected again after a retry.                        *)
THEOREM OutputSentOnce == Spec => []NoDuplicateOutput
<1>1. Init => IInv
    <2> SUFFICES ASSUME Init PROVE IInv
        OBVIOUS
    <2>1. TypeInv
        BY InitTypeInv
    <2>2. QED
        BY <2>1 DEF Init, IInv, OutputInv, NoDuplicateOutput
<1>2. QED
    BY <1>1, IInvInductive, PTL DEF Spec, IInv

-----------------------------------------------------------------------------
(* The pod of the current iteration has been selected: from the selection  *)
(* to the job wait, and in every return that follows a selection.          *)
Selected ==
    \/ pc \in {"waitContainer", "cancelDelete", "readOutput", "touch", "getJob", "waitJob"}
    \/ pc = "done" /\ result \in {"ok", "jobFailed", "cancelled", "touchError", "jobNotFound"}

(* The inductive strengthening of FailureAfterFullBudget: each iteration  *)
(* adds exactly one pod to the dedup set, a result is set only by the      *)
(* return, and a propagated failure comes with the spent budget.           *)
BudgetInv ==
    /\ IsFiniteSet(processed)
    /\ Cardinality(processed) = IF Selected THEN iterations + 1 ELSE iterations
    /\ pc # "done" => result = "none"
    /\ result = "jobFailed" => iterations = MaxNbRestart

BInv == TypeInv /\ BudgetInv

(* Every step keeps the count of processed pods one ahead of              *)
(* job_creation_iterations once a pod is selected, and equal to it before. *)
LEMMA BudgetInvInductive == BInv /\ [Next]_vars => BInv'
<1> SUFFICES ASSUME BInv, [Next]_vars PROVE BInv'
    OBVIOUS
<1>1. TypeInv'
    BY TypeInvInductive DEF BInv
<1> SUFFICES BudgetInv'
    BY <1>1 DEF BInv
<1>2. CASE DeleteOldJob \/ CreateJob
    BY <1>2 DEF DeleteOldJob, CreateJob, Finish, BInv, BudgetInv, Selected
<1>3. CASE SelectPod
    <2>1. CASE \E p \in Pods :
                  /\ PollFound(p)
                  /\ processed' = processed \cup {p}
                  /\ podName' = p
                  /\ pc' = "waitContainer"
                  /\ UNCHANGED <<result, polls>>
        <3>1. PICK p \in Pods : /\ PollFound(p)
                                /\ processed' = processed \cup {p}
                                /\ pc' = "waitContainer"
                                /\ UNCHANGED result
            BY <2>1
        <3>2. /\ IsFiniteSet(processed')
              /\ Cardinality(processed') = Cardinality(processed) + 1
            BY <3>1, FS_AddElement DEF PollFound, BInv, BudgetInv
        <3>3. Cardinality(processed) = iterations
            BY <1>3 DEF SelectPod, BInv, BudgetInv, Selected
        <3>4. QED
            BY <1>3, <3>1, <3>2, <3>3 DEF SelectPod, BInv, BudgetInv, Selected
    <2>2. CASE /\ ~\E p \in Pods : PollFound(p)
               /\ PollRetry
               /\ UNCHANGED <<processed, podName>>
        BY <1>3, <2>2 DEF SelectPod, PollRetry, Finish, BInv, BudgetInv, Selected
    <2>3. QED
        BY <1>3, <2>1, <2>2 DEF SelectPod
<1>4. CASE ListPodsFails
    BY <1>4 DEF ListPodsFails, PollRetry, Finish, BInv, BudgetInv, Selected
<1>5. CASE WaitContainer \/ CancelDelete \/ ReadOutput \/ Touch \/ GetJob \/ WatchFails
    <2>1. UNCHANGED <<processed, iterations>>
        BY <1>5 DEF WaitContainer, CancelDelete, ReadOutput, Touch, GetJob, WatchFails
    <2>2. Selected /\ Selected'
        BY <1>5 DEF WaitContainer, CancelDelete, ReadOutput, Touch, GetJob, WatchFails,
                    Finish, Selected
    <2>3. /\ pc' # "done" => result' = "none"
          /\ result' # "jobFailed"
        BY <1>5 DEF WaitContainer, CancelDelete, ReadOutput, Touch, GetJob, WatchFails,
                    Finish, BInv, BudgetInv
    <2>4. QED
        BY <2>1, <2>2, <2>3 DEF BInv, BudgetInv
<1>6. CASE WaitJob
    <2>1. Selected /\ UNCHANGED processed
        BY <1>6 DEF WaitJob, Selected
    <2>2. CASE succeeded > 0 /\ Finish("ok") /\ UNCHANGED <<iterations, polls>>
        BY <1>6, <2>1, <2>2 DEF WaitJob, Finish, BInv, BudgetInv, Selected
    <2>3. CASE /\ succeeded = 0 /\ BudgetExhausted
               /\ Finish("jobFailed") /\ UNCHANGED <<iterations, polls>>
        BY <1>6, <2>1, <2>3 DEF WaitJob, Finish, BudgetExhausted, BInv, BudgetInv, Selected
    <2>4. CASE /\ succeeded = 0 /\ ~BudgetExhausted
               /\ iterations' = iterations + 1 /\ pc' = "select"
               /\ polls' = 0 /\ UNCHANGED result
        BY <1>6, <2>1, <2>4 DEF WaitJob, BInv, BudgetInv, Selected
    <2>5. QED
        BY <1>6, <2>2, <2>3, <2>4 DEF WaitJob
<1>7. CASE Cluster \/ RequestForceCancel \/ Terminated \/ UNCHANGED vars
    <2>1. UNCHANGED engineVars
        BY <1>7 DEF Cluster, CreatePod, StartPod, MainExits, PodCompletes,
                    RequestForceCancel, Terminated, vars
    <2>2. QED
        BY <2>1 DEF engineVars, BInv, BudgetInv, Selected
<1>8. QED
    BY <1>2, <1>3, <1>4, <1>5, <1>6, <1>7 DEF Next, Engine, EngineSteps

(* run_job starts with an empty dedup set and no iteration.               *)
LEMMA InitBInv == Init => BInv
<1> SUFFICES ASSUME Init PROVE BInv
    OBVIOUS
<1>1. TypeInv
    BY InitTypeInv
<1>2. IsFiniteSet(processed) /\ Cardinality(processed) = 0
    BY FS_EmptySet DEF Init
<1>3. QED
    BY <1>1, <1>2 DEF Init, BInv, BudgetInv, Selected

(* The restart budget of the loop: for every max_nb_restart, run_job      *)
(* propagates a job failure only after the loop has processed             *)
(* max_nb_restart + 1 distinct pods.                                       *)
THEOREM FullBudget == Spec => []FailureAfterFullBudget
<1>1. BInv => FailureAfterFullBudget
    BY DEF BInv, BudgetInv, Selected, FailureAfterFullBudget
<1>2. QED
    BY <1>1, InitBInv, BudgetInvInductive, PTL DEF Spec

-----------------------------------------------------------------------------
(* A step of run_job that neither returns nor touches the dedup set or the *)
(* reports is a stutter of JobRun.                                         *)
LEMMA AbsStutter ==
    ASSUME pc # "done", pc' # "done", UNCHANGED <<processed, reports>>
    PROVE  UNCHANGED Abs!avars
    BY DEF Abs!avars, AbsOutcome

(* A return with any result but Ok, a job failure or the cancellation is   *)
(* JobRun's Error.                                                         *)
LEMMA AbsError ==
    ASSUME pc # "done", pc' = "done",
           result' \notin {"ok", "jobFailed", "cancelled"},
           UNCHANGED <<processed, reports>>
    PROVE  Abs!Error
    BY DEF Abs!Error, Abs!Stop, Abs!Running, AbsOutcome

(* JobRun counts the pods tried with the same Cardinality.                *)
LEMMA AbsCardinality == \A S : Abs!Cardinality(S) = Cardinality(S)
    BY DEF Abs!Cardinality, Cardinality

RInv == BInv /\ IInv

(* Every step of run_job and of the cluster is a step of JobRun under the  *)
(* mapping, or leaves its image unchanged.                                 *)
LEMMA RefineStep == RInv /\ [Next]_vars => [Abs!Next]_(Abs!avars)
<1> SUFFICES ASSUME RInv, [Next]_vars PROVE [Abs!Next]_(Abs!avars)
    OBVIOUS
<1>1. CASE DeleteOldJob \/ CreateJob \/ WaitContainer \/ Touch \/ GetJob \/ WatchFails
                        \/ ListPodsFails
    <2>1. pc # "done" /\ UNCHANGED <<processed, reports>>
        BY <1>1 DEF DeleteOldJob, CreateJob, WaitContainer, Touch, GetJob, WatchFails,
                    ListPodsFails
    <2>2. pc' # "done" \/ (pc' = "done" /\ result' \notin {"ok", "jobFailed", "cancelled"})
        BY <1>1 DEF DeleteOldJob, CreateJob, WaitContainer, Touch, GetJob, WatchFails,
                    ListPodsFails, PollRetry, Finish
    <2>3. QED
        BY <2>1, <2>2, AbsStutter, AbsError DEF Abs!Next
<1>2. CASE SelectPod
    <2>1. CASE \E p \in Pods :
                  /\ PollFound(p)
                  /\ processed' = processed \cup {p}
                  /\ podName' = p
                  /\ pc' = "waitContainer"
                  /\ UNCHANGED <<result, polls>>
        <3>1. PICK p \in Pods : /\ PollFound(p)
                                /\ processed' = processed \cup {p}
                                /\ pc' = "waitContainer"
            BY <2>1
        <3>2. Cardinality(processed) <= MaxNbRestart
            BY <1>2 DEF SelectPod, RInv, BInv, BudgetInv, Selected, TypeInv, TypeOK
        <3>3. AbsOutcome = "running" /\ AbsOutcome' = "running"
            BY <1>2, <3>1 DEF SelectPod, AbsOutcome
        <3>4. Abs!Attempt(p)
            BY <1>2, <3>1, <3>2, <3>3, AbsCardinality
            DEF SelectPod, PollFound, Abs!Attempt, Abs!Running
        <3>5. QED
            BY <3>4 DEF Abs!Next
    <2>2. CASE /\ ~\E p \in Pods : PollFound(p)
               /\ PollRetry
               /\ UNCHANGED <<processed, podName>>
        <3>1. pc # "done" /\ UNCHANGED <<processed, reports>>
            BY <1>2, <2>2 DEF SelectPod
        <3>2. pc' # "done" \/ (pc' = "done" /\ result' = "podNotFound")
            BY <1>2, <2>2 DEF SelectPod, PollRetry, Finish
        <3>3. QED
            BY <3>1, <3>2, AbsStutter, AbsError DEF Abs!Next
    <2>3. QED
        BY <1>2, <2>1, <2>2 DEF SelectPod
<1>3. CASE ReadOutput
    <2>1. pc # "done" /\ pc' # "done" /\ UNCHANGED processed
        BY <1>3 DEF ReadOutput
    <2>2. CASE reports' = Append(reports, podName)
        <3>1. /\ podName \in Pods /\ podName \in processed
              /\ \A i \in 1..Len(reports) : reports[i] # podName
            BY <1>3 DEF ReadOutput, RInv, IInv, OutputInv, TypeInv, PodSelected
        <3>2. Abs!Report(podName)
            BY <2>1, <2>2, <3>1 DEF Abs!Report, Abs!Running, AbsOutcome
        <3>3. QED
            BY <3>1, <3>2 DEF Abs!Next
    <2>3. CASE UNCHANGED reports
        BY <2>1, <2>3, AbsStutter
    <2>4. QED
        BY <1>3, <2>2, <2>3 DEF ReadOutput
<1>4. CASE CancelDelete
    <2>1. pc # "done" /\ UNCHANGED <<processed, reports>>
        BY <1>4 DEF CancelDelete
    <2>2. CASE pc' = "done"
        <3>1. result' = "cancelled"
            BY <1>4, <2>2 DEF CancelDelete, Finish
        <3>2. Cardinality(processed) = iterations + 1 /\ IsFiniteSet(processed)
            BY <1>4 DEF CancelDelete, RInv, BInv, BudgetInv, Selected
        <3>3. processed # {}
            BY <3>2, FS_EmptySet DEF RInv, BInv, TypeInv, TypeOK
        <3>4. Abs!Cancel
            BY <2>1, <2>2, <3>1, <3>3 DEF Abs!Cancel, Abs!Stop, Abs!Running, AbsOutcome
        <3>5. QED
            BY <3>4 DEF Abs!Next
    <2>3. CASE pc' # "done"
        BY <2>1, <2>3, AbsStutter
    <2>4. QED
        BY <2>2, <2>3
<1>5. CASE WaitJob
    <2>1. pc = "waitJob" /\ UNCHANGED <<processed, reports>>
        BY <1>5 DEF WaitJob
    <2>2. Cardinality(processed) = iterations + 1 /\ IsFiniteSet(processed)
        BY <2>1 DEF RInv, BInv, BudgetInv, Selected
    <2>3. CASE succeeded > 0 /\ Finish("ok") /\ UNCHANGED <<iterations, polls>>
        <3>1. processed # {}
            BY <2>2, FS_EmptySet DEF RInv, BInv, TypeInv, TypeOK
        <3>2. Abs!Succeed
            BY <2>1, <2>3, <3>1 DEF Finish, Abs!Succeed, Abs!Stop, Abs!Running, AbsOutcome
        <3>3. QED
            BY <3>2 DEF Abs!Next
    <2>4. CASE /\ succeeded = 0 /\ BudgetExhausted
               /\ Finish("jobFailed") /\ UNCHANGED <<iterations, polls>>
        <3>1. Abs!Fail
            BY <2>1, <2>2, <2>4, AbsCardinality DEF Finish, BudgetExhausted, Abs!Fail, Abs!Stop,
                                     Abs!Running, AbsOutcome
        <3>2. QED
            BY <3>1 DEF Abs!Next
    <2>5. CASE /\ succeeded = 0 /\ ~BudgetExhausted
               /\ iterations' = iterations + 1 /\ pc' = "select"
               /\ polls' = 0 /\ UNCHANGED result
        BY <2>1, <2>5, AbsStutter
    <2>6. QED
        BY <1>5, <2>3, <2>4, <2>5 DEF WaitJob
<1>6. CASE Cluster \/ RequestForceCancel \/ Terminated \/ UNCHANGED vars
    <2>1. UNCHANGED engineVars
        BY <1>6 DEF Cluster, CreatePod, StartPod, MainExits, PodCompletes,
                    RequestForceCancel, Terminated, vars
    <2>2. QED
        BY <2>1 DEF engineVars, Abs!avars, AbsOutcome
<1>7. QED
    BY <1>1, <1>2, <1>3, <1>4, <1>5, <1>6 DEF Next, Engine, EngineSteps

(* run_job implements the safety part of JobRun: the pods it processes are *)
(* distinct and within the restart budget, the outputs it sends are of     *)
(* processed pods and never repeated, and it returns Ok or the            *)
(* cancellation only after processing a pod and a job failure only after  *)
(* the whole budget, for every value of the constants.                     *)
THEOREM Refinement == Spec => Abs!SafetySpec
<1>1. Init => RInv
    <2> SUFFICES ASSUME Init PROVE RInv
        OBVIOUS
    <2>1. BInv
        BY InitBInv
    <2>2. IInv
        BY InitTypeInv DEF Init, IInv, OutputInv, NoDuplicateOutput
    <2>3. QED
        BY <2>1, <2>2 DEF RInv
<1>2. RInv /\ [Next]_vars => RInv'
    BY BudgetInvInductive, IInvInductive DEF RInv
<1>3. Init => Abs!Init
    BY DEF Init, Abs!Init, AbsOutcome
<1>4. QED
    BY <1>1, <1>2, <1>3, RefineStep, PTL DEF Spec, Abs!SafetySpec

=============================================================================
