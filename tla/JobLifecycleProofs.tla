------------------------- MODULE JobLifecycleProofs -------------------------
(***************************************************************************)
(* Proofs about the lifecycle dispatcher of a job service and the flows    *)
(* it drives (run_job, the force trigger, delete_job).                     *)
(***************************************************************************)
EXTENDS JobLifecycle, TLAPS

(* Each step of a flow is reached only for the configurations whose flow   *)
(* contains it: on_create/on_pause/on_delete pick run_job or delete_job,   *)
(* and run_job picks the job, the cronjob or the force-trigger branch.     *)
PathInv ==
    /\ pc \in {"preRun", "jobDeleteOld", "jobCreate", "jobLoop", "cronCreate", "fInstall",
               "fGetCron", "fCreateJob", "fWait", "fUninstall", "postRun"} => RunsJob
    /\ pc \in {"jobDeleteOld", "jobCreate", "jobLoop"} => IsJob
    /\ pc = "cronCreate" => ~force
    /\ pc \in {"fInstall", "fGetCron", "fCreateJob", "fWait", "fUninstall"} => ForceCron
    /\ pc \in {"delTask", "delPostRun"} => DeletesJob

(* The helm release along the way: untouched before the dispatch, present  *)
(* from a successful install until the next uninstall, and, after the      *)
(* force trigger, as the code found it.                                    *)
InstallInv ==
    /\ pc = "dispatch" => installed = installedAtStart
    /\ pc \in {"jobLoop", "fGetCron", "fCreateJob", "fWait", "fUninstall"} => installed
    /\ pc = "postRun" => IF ForceCron THEN installed = preinstalled ELSE installed
    /\ pc = "delPostRun" => ~installed

(* The registry side effects happen only in the two post_run steps.       *)
CountInv ==
    /\ pc \notin {"delTask", "delPostRun", "done"} => evictions = 0
    /\ pc \in {"delTask", "delPostRun"} => evictions <= 1
    /\ pc # "done" => repoCalls = {}

(* TypeOK split into its Boolean flags and the rest.                       *)
BoolsOK ==
    /\ force \in BOOLEAN /\ deleteShared \in BOOLEAN /\ preinstalled \in BOOLEAN
    /\ installed \in BOOLEAN /\ installedAtStart \in BOOLEAN

DataOK ==
    /\ action \in Actions /\ schedule \in Schedules /\ source \in Sources
    /\ pc \in PCs /\ result \in {"none", "ok", "error"}
    /\ cronResult \in {"none", "ok", "error"}
    /\ forceJob \in ForceJobPhases /\ evictions \in 0..2 /\ repoCalls \subseteq Repos

LEMMA TypeSplit == TypeOK <=> BoolsOK /\ DataOK
    BY DEF TypeOK, BoolsOK, DataOK

StepInv == PathInv /\ InstallInv /\ CountInv

LInv == BoolsOK /\ DataOK /\ StepInv /\ OutcomeOnSuccess

LEMMA InitLInv == Init => LInv
<1> SUFFICES ASSUME Init PROVE LInv
    OBVIOUS
<1>1. BoolsOK
    BY Zenon DEF Init, BoolsOK
<1>2. DataOK
    BY DEF Init, DataOK, Actions, Schedules, Sources, PCs, ForceJobPhases, Repos
<1>3. StepInv
    <2>1. PathInv
        BY DEF Init, PathInv
    <2>2. InstallInv
        BY Zenon DEF Init, InstallInv
    <2>3. CountInv
        BY DEF Init, CountInv
    <2>4. QED
        BY <2>1, <2>2, <2>3 DEF StepInv
<1>4. OutcomeOnSuccess
    BY DEF Init, OutcomeOnSuccess
<1>5. QED
    BY <1>1, <1>2, <1>3, <1>4 DEF LInv

(* The service the dispatcher was called for is fixed for the invocation: *)
(* no step changes the action, the schedule, the force flag, the image     *)
(* source or the shared-registry flag.                                     *)
LEMMA ConfigFixed == [Next]_vars => UNCHANGED config
<1> SUFFICES ASSUME [Next]_vars PROVE UNCHANGED config
    OBVIOUS
<1>1. CASE Dispatch
    BY <1>1 DEF Dispatch
<1>2. CASE PreRun
    BY <1>2 DEF PreRun
<1>3. CASE JobDeleteOld
    BY <1>3 DEF JobDeleteOld
<1>4. CASE JobCreate
    BY <1>4 DEF JobCreate
<1>5. CASE JobLoop
    BY <1>5 DEF JobLoop
<1>6. CASE CronCreate
    BY <1>6 DEF CronCreate
<1>7. CASE FInstall
    BY <1>7 DEF FInstall
<1>8. CASE FGetCron
    BY <1>8 DEF FGetCron
<1>9. CASE FCreateJob
    BY <1>9 DEF FCreateJob
<1>10. CASE FWait
    BY <1>10 DEF FWait
<1>11. CASE FUninstall
    BY <1>11 DEF FUninstall
<1>12. CASE PostRun
    BY <1>12 DEF PostRun
<1>13. CASE DelTask
    BY <1>13 DEF DelTask
<1>14. CASE DelPostRun
    BY <1>14 DEF DelPostRun
<1>15. CASE ForceJobEnds
    BY <1>15 DEF ForceJobEnds
<1>16. CASE Terminated
    BY <1>16 DEF Terminated, vars
<1>17. CASE UNCHANGED vars
    BY <1>17 DEF vars
<1>18. QED
    BY <1>1, <1>2, <1>3, <1>4, <1>5, <1>6, <1>7, <1>8, <1>9, <1>10, <1>11, <1>12, <1>13, <1>14, <1>15, <1>16, <1>17 DEF Next

(* Every step keeps the flow consistent with the configuration, and each  *)
(* Ok return is the last step of a flow whose effects are complete.        *)
LEMMA LInvInductive == LInv /\ [Next]_vars => LInv'
<1> SUFFICES ASSUME LInv, [Next]_vars PROVE LInv'
    OBVIOUS
<1> USE DEF LInv, Finish, InstallFails, UninstallFails, config, engine, cluster
<1>0. action' = action /\ schedule' = schedule /\ source' = source /\ force' = force
    BY ConfigFixed DEF config
<1>1. CASE Dispatch
    <2>1. BoolsOK'
        BY <1>1, Zenon DEF Dispatch, BoolsOK
    <2>2. DataOK'
        BY <1>1, <1>0 DEF Dispatch, DataOK, CountInv, StepInv, PCs, ForceJobPhases, Repos
    <2>3. StepInv'
        BY <1>1 DEF Dispatch, StepInv, PathInv, InstallInv, CountInv, RunsJob, DeletesJob, IsJob, ForceCron
    <2>4. OutcomeOnSuccess'
        BY <1>1 DEF Dispatch, OutcomeOnSuccess, Promised, StepInv, PathInv, InstallInv,
                   CountInv, RunsJob, DeletesJob, IsJob, ForceCron, Repos
    <2>5. QED
        BY <2>1, <2>2, <2>3, <2>4
<1>2. CASE PreRun
    <2>1. BoolsOK'
        BY <1>2, Zenon DEF PreRun, BoolsOK
    <2>2. DataOK'
        BY <1>2, <1>0 DEF PreRun, DataOK, CountInv, StepInv, PCs, ForceJobPhases, Repos
    <2>3. StepInv'
        <3>1. PathInv'
            <4>1. ~IsJob => schedule = "Cron"
                BY DEF DataOK, Schedules, IsJob
            <4>2. QED
                BY <1>2, <4>1 DEF PreRun, StepInv, PathInv, RunsJob, DeletesJob, IsJob, ForceCron
        <3>2. InstallInv'
            BY <1>2 DEF PreRun, StepInv, InstallInv
        <3>3. CountInv'
            BY <1>2 DEF PreRun, StepInv, CountInv
        <3>4. QED
            BY <3>1, <3>2, <3>3 DEF StepInv
    <2>4. OutcomeOnSuccess'
        BY <1>2 DEF PreRun, OutcomeOnSuccess, Promised, StepInv, PathInv, InstallInv,
                   CountInv, RunsJob, DeletesJob, IsJob, ForceCron, Repos
    <2>5. QED
        BY <2>1, <2>2, <2>3, <2>4
<1>3. CASE JobDeleteOld
    <2>1. BoolsOK'
        BY <1>3, Zenon DEF JobDeleteOld, BoolsOK
    <2>2. DataOK'
        BY <1>3, <1>0 DEF JobDeleteOld, DataOK, CountInv, StepInv, PCs, ForceJobPhases, Repos
    <2>3. StepInv'
        BY <1>3 DEF JobDeleteOld, StepInv, PathInv, InstallInv, CountInv, RunsJob, DeletesJob, IsJob, ForceCron
    <2>4. OutcomeOnSuccess'
        BY <1>3 DEF JobDeleteOld, OutcomeOnSuccess, Promised, StepInv, PathInv, InstallInv,
                   CountInv, RunsJob, DeletesJob, IsJob, ForceCron, Repos
    <2>5. QED
        BY <2>1, <2>2, <2>3, <2>4
<1>4. CASE JobCreate
    <2>1. BoolsOK'
        BY <1>4, Zenon DEF JobCreate, BoolsOK
    <2>2. DataOK'
        BY <1>4, <1>0 DEF JobCreate, DataOK, CountInv, StepInv, PCs, ForceJobPhases, Repos
    <2>3. StepInv'
        BY <1>4 DEF JobCreate, StepInv, PathInv, InstallInv, CountInv, RunsJob, DeletesJob, IsJob, ForceCron
    <2>4. OutcomeOnSuccess'
        BY <1>4 DEF JobCreate, OutcomeOnSuccess, Promised, StepInv, PathInv, InstallInv,
                   CountInv, RunsJob, DeletesJob, IsJob, ForceCron, Repos
    <2>5. QED
        BY <2>1, <2>2, <2>3, <2>4
<1>5. CASE JobLoop
    <2>1. BoolsOK'
        BY <1>5, Zenon DEF JobLoop, BoolsOK
    <2>2. DataOK'
        BY <1>5, <1>0 DEF JobLoop, DataOK, CountInv, StepInv, PCs, ForceJobPhases, Repos
    <2>3. StepInv'
        BY <1>5 DEF JobLoop, StepInv, PathInv, InstallInv, CountInv, RunsJob, DeletesJob, IsJob, ForceCron
    <2>4. OutcomeOnSuccess'
        BY <1>5 DEF JobLoop, OutcomeOnSuccess, Promised, StepInv, PathInv, InstallInv,
                   CountInv, RunsJob, DeletesJob, IsJob, ForceCron, Repos
    <2>5. QED
        BY <2>1, <2>2, <2>3, <2>4
<1>6. CASE CronCreate
    <2>1. BoolsOK'
        BY <1>6, Zenon DEF CronCreate, BoolsOK
    <2>2. DataOK'
        BY <1>6, <1>0 DEF CronCreate, DataOK, CountInv, StepInv, PCs, ForceJobPhases, Repos
    <2>3. StepInv'
        BY <1>6 DEF CronCreate, StepInv, PathInv, InstallInv, CountInv, RunsJob, DeletesJob, IsJob, ForceCron
    <2>4. OutcomeOnSuccess'
        BY <1>6 DEF CronCreate, OutcomeOnSuccess, Promised, StepInv, PathInv, InstallInv,
                   CountInv, RunsJob, DeletesJob, IsJob, ForceCron, Repos
    <2>5. QED
        BY <2>1, <2>2, <2>3, <2>4
<1>7. CASE FInstall
    <2>1. BoolsOK'
        BY <1>7, Zenon DEF FInstall, BoolsOK
    <2>2. DataOK'
        BY <1>7, <1>0 DEF FInstall, DataOK, CountInv, StepInv, PCs, ForceJobPhases, Repos
    <2>3. StepInv'
        BY <1>7 DEF FInstall, StepInv, PathInv, InstallInv, CountInv, RunsJob, DeletesJob, IsJob, ForceCron
    <2>4. OutcomeOnSuccess'
        BY <1>7 DEF FInstall, OutcomeOnSuccess, Promised, StepInv, PathInv, InstallInv,
                   CountInv, RunsJob, DeletesJob, IsJob, ForceCron, Repos
    <2>5. QED
        BY <2>1, <2>2, <2>3, <2>4
<1>8. CASE FGetCron
    <2>1. BoolsOK'
        BY <1>8, Zenon DEF FGetCron, BoolsOK
    <2>2. DataOK'
        BY <1>8, <1>0 DEF FGetCron, DataOK, CountInv, StepInv, PCs, ForceJobPhases, Repos
    <2>3. StepInv'
        BY <1>8 DEF FGetCron, StepInv, PathInv, InstallInv, CountInv, RunsJob, DeletesJob, IsJob, ForceCron
    <2>4. OutcomeOnSuccess'
        BY <1>8 DEF FGetCron, OutcomeOnSuccess, Promised, StepInv, PathInv, InstallInv,
                   CountInv, RunsJob, DeletesJob, IsJob, ForceCron, Repos
    <2>5. QED
        BY <2>1, <2>2, <2>3, <2>4
<1>9. CASE FCreateJob
    <2>1. BoolsOK'
        BY <1>9, Zenon DEF FCreateJob, BoolsOK
    <2>2. DataOK'
        BY <1>9, <1>0 DEF FCreateJob, DataOK, CountInv, StepInv, PCs, ForceJobPhases, Repos
    <2>3. StepInv'
        BY <1>9 DEF FCreateJob, StepInv, PathInv, InstallInv, CountInv, RunsJob, DeletesJob, IsJob, ForceCron
    <2>4. OutcomeOnSuccess'
        BY <1>9 DEF FCreateJob, OutcomeOnSuccess, Promised, StepInv, PathInv, InstallInv,
                   CountInv, RunsJob, DeletesJob, IsJob, ForceCron, Repos
    <2>5. QED
        BY <2>1, <2>2, <2>3, <2>4
<1>10. CASE FWait
    <2>1. BoolsOK'
        BY <1>10, Zenon DEF FWait, BoolsOK
    <2>2. DataOK'
        BY <1>10, <1>0 DEF FWait, DataOK, CountInv, StepInv, PCs, ForceJobPhases, Repos
    <2>3. StepInv'
        BY <1>10 DEF FWait, StepInv, PathInv, InstallInv, CountInv, RunsJob, DeletesJob, IsJob, ForceCron
    <2>4. OutcomeOnSuccess'
        BY <1>10 DEF FWait, OutcomeOnSuccess, Promised, StepInv, PathInv, InstallInv,
                   CountInv, RunsJob, DeletesJob, IsJob, ForceCron, Repos
    <2>5. QED
        BY <2>1, <2>2, <2>3, <2>4
<1>11. CASE FUninstall
    <2>1. BoolsOK'
        BY <1>11, Zenon DEF FUninstall, BoolsOK
    <2>2. DataOK'
        BY <1>11, <1>0 DEF FUninstall, DataOK, CountInv, StepInv, PCs, ForceJobPhases, Repos
    <2>3. StepInv'
        <3>1. PathInv'
            BY <1>11 DEF FUninstall, StepInv, PathInv, RunsJob, DeletesJob, IsJob, ForceCron
        <3>2. InstallInv'
            <4>1. ForceCron /\ installed
                BY <1>11 DEF FUninstall, StepInv, PathInv, InstallInv
            <4>2. pc' \in {"postRun", "done"}
                BY <1>11 DEF FUninstall
            <4>3. ForceCron'
                BY <1>11, <4>1 DEF FUninstall, ForceCron
            <4>4. pc' = "postRun" => installed' = preinstalled'
                <5>1. CASE preinstalled
                    BY <1>11, <4>1, <5>1, Zenon DEF FUninstall
                <5>2. CASE ~preinstalled
                    <6>1. preinstalled' = preinstalled
                        BY <1>11 DEF FUninstall
                    <6>2. pc' = "postRun" => installed' = FALSE
                        BY <1>11, <5>2 DEF FUninstall
                    <6>3. preinstalled = FALSE
                        BY <5>2 DEF BoolsOK
                    <6>4. QED
                        BY <6>1, <6>2, <6>3
                <5>3. QED
                    BY <5>1, <5>2
            <4>5. QED
                BY <4>2, <4>3, <4>4, Zenon DEF InstallInv
        <3>3. CountInv'
            BY <1>11 DEF FUninstall, StepInv, CountInv
        <3>4. QED
            BY <3>1, <3>2, <3>3 DEF StepInv
    <2>4. OutcomeOnSuccess'
        BY <1>11 DEF FUninstall, OutcomeOnSuccess, Promised, StepInv, PathInv, InstallInv,
                   CountInv, RunsJob, DeletesJob, IsJob, ForceCron, Repos
    <2>5. QED
        BY <2>1, <2>2, <2>3, <2>4
<1>12. CASE PostRun
    <2>1. BoolsOK'
        BY <1>12, Zenon DEF PostRun, BoolsOK
    <2>2. DataOK'
        BY <1>12, <1>0 DEF PostRun, DataOK, CountInv, StepInv, PCs, ForceJobPhases, Repos
    <2>3. StepInv'
        BY <1>12 DEF PostRun, StepInv, PathInv, InstallInv, CountInv, RunsJob, DeletesJob, IsJob, ForceCron
    <2>4. OutcomeOnSuccess'
        BY <1>12 DEF PostRun, OutcomeOnSuccess, Promised, StepInv, PathInv, InstallInv,
                   CountInv, RunsJob, DeletesJob, IsJob, ForceCron, Repos
    <2>5. QED
        BY <2>1, <2>2, <2>3, <2>4
<1>13. CASE DelTask
    <2>1. BoolsOK'
        BY <1>13, Zenon DEF DelTask, BoolsOK
    <2>2. DataOK'
        BY <1>13, <1>0 DEF DelTask, DataOK, CountInv, StepInv, PCs, ForceJobPhases, Repos
    <2>3. StepInv'
        BY <1>13 DEF DelTask, StepInv, PathInv, InstallInv, CountInv, RunsJob, DeletesJob, IsJob, ForceCron
    <2>4. OutcomeOnSuccess'
        BY <1>13 DEF DelTask, OutcomeOnSuccess, Promised, StepInv, PathInv, InstallInv,
                   CountInv, RunsJob, DeletesJob, IsJob, ForceCron, Repos
    <2>5. QED
        BY <2>1, <2>2, <2>3, <2>4
<1>14. CASE DelPostRun
    <2>1. BoolsOK'
        BY <1>14, Zenon DEF DelPostRun, BoolsOK
    <2>2. DataOK'
        BY <1>14, <1>0 DEF DelPostRun, DataOK, CountInv, StepInv, PCs, ForceJobPhases, Repos
    <2>3. StepInv'
        BY <1>14 DEF DelPostRun, StepInv, PathInv, InstallInv, CountInv, RunsJob, DeletesJob, IsJob, ForceCron
    <2>4. OutcomeOnSuccess'
        <3>1. DeletesJob /\ ~installed /\ repoCalls = {}
            BY <1>14 DEF DelPostRun, StepInv, PathInv, InstallInv, CountInv
        <3>2. source \in {"registry", "build"}
            BY DEF DataOK, Sources
        <3>3. DeletesJob' /\ ~installed'
            BY <1>14, <3>1 DEF DelPostRun, DeletesJob
        <3>4. source' = "registry" => evictions' >= 1
            BY <1>14 DEF DelPostRun, DataOK
        <3>5. source' = "build" => repoCalls' = IF deleteShared' THEN Repos ELSE {"legacy"}
            BY <1>14, <3>1, <3>2 DEF DelPostRun, Repos
        <3>6. QED
            BY <3>3, <3>4, <3>5 DEF OutcomeOnSuccess, Promised
    <2>5. QED
        BY <2>1, <2>2, <2>3, <2>4
<1>15. CASE ForceJobEnds
    <2>1. BoolsOK'
        BY <1>15, Zenon DEF ForceJobEnds, BoolsOK
    <2>2. DataOK'
        BY <1>15, <1>0 DEF ForceJobEnds, DataOK, CountInv, StepInv, PCs, ForceJobPhases, Repos
    <2>3. StepInv'
        BY <1>15 DEF ForceJobEnds, StepInv, PathInv, InstallInv, CountInv, RunsJob, DeletesJob, IsJob, ForceCron
    <2>4. OutcomeOnSuccess'
        BY <1>15 DEF ForceJobEnds, OutcomeOnSuccess, Promised, StepInv, PathInv, InstallInv,
                   CountInv, RunsJob, DeletesJob, IsJob, ForceCron, Repos
    <2>5. QED
        BY <2>1, <2>2, <2>3, <2>4
<1>16. CASE Terminated
    <2>1. BoolsOK'
        BY <1>16, Zenon DEF Terminated, vars, BoolsOK
    <2>2. DataOK'
        BY <1>16 DEF Terminated, vars, DataOK, CountInv, StepInv, Actions, Schedules, Sources, PCs, ForceJobPhases, Repos
    <2>3. StepInv'
        BY <1>16 DEF Terminated, vars, StepInv, PathInv, InstallInv, CountInv, RunsJob, DeletesJob, IsJob, ForceCron
    <2>4. OutcomeOnSuccess'
        BY <1>16 DEF Terminated, vars, OutcomeOnSuccess, Promised, StepInv, PathInv, InstallInv,
                   CountInv, RunsJob, DeletesJob, IsJob, ForceCron, Repos
    <2>5. QED
        BY <2>1, <2>2, <2>3, <2>4
<1>17. CASE UNCHANGED vars
    <2>1. BoolsOK'
        BY <1>17, Zenon DEF vars, BoolsOK
    <2>2. DataOK'
        BY <1>17 DEF vars, DataOK
    <2>3. StepInv'
        BY <1>17 DEF vars, StepInv, PathInv, InstallInv, CountInv, RunsJob, DeletesJob, IsJob, ForceCron
    <2>4. OutcomeOnSuccess'
        BY <1>17 DEF vars, OutcomeOnSuccess, Promised, RunsJob, DeletesJob, IsJob, ForceCron
    <2>5. QED
        BY <2>1, <2>2, <2>3, <2>4
<1>18. QED
    BY <1>1, <1>2, <1>3, <1>4, <1>5, <1>6, <1>7, <1>8, <1>9, <1>10, <1>11, <1>12, <1>13, <1>14, <1>15, <1>16, <1>17 DEF Next

(* The type of every variable, through every action and every branch of   *)
(* run_job and delete_job.                                                 *)
THEOREM LifecycleTypeCorrect == Spec => []TypeOK
<1>1. LInv => TypeOK
    BY TypeSplit DEF LInv
<1>2. QED
    BY <1>1, InitLInv, LInvInductive, PTL DEF Spec

(* Every action that returns Ok leaves what its flow promises: delete_job  *)
(* removed the release and cleaned the image cache or the repositories the *)
(* flag names, a run installed the release, a force trigger left the       *)
(* cronjob as the code read it, a no-op changed nothing.                   *)
THEOREM SuccessKeepsPromise == Spec => []OutcomeOnSuccess
<1>1. LInv => OutcomeOnSuccess
    BY DEF LInv
<1>2. QED
    BY <1>1, InitLInv, LInvInductive, PTL DEF Spec

-----------------------------------------------------------------------------
(* The force trigger's classification on its way to the return: the       *)
(* forced job exists from its creation on (the cluster only moves it to a *)
(* terminal phase), and post_run is reached on a force trigger only after *)
(* the wait was classified Ok.                                             *)
ForceInv ==
    /\ pc \in {"fWait", "fUninstall"} => forceJob # "none"
    /\ pc = "postRun" /\ ForceCron => cronResult = "ok" /\ forceJob # "none"
    /\ ForceResultPropagated

LEMMA InitForceInv == Init => ForceInv
BY DEF Init, ForceInv, ForceResultPropagated

(* A delete or a pause that tears down never runs the force trigger.       *)
LEMMA TeardownNotForced == DeletesJob /\ RunsJob => ~ForceCron
BY DEF DeletesJob, RunsJob, ForceCron

LEMMA ForceInvInductive == LInv /\ ForceInv /\ [Next]_vars => ForceInv'
<1> SUFFICES ASSUME LInv, ForceInv, [Next]_vars PROVE ForceInv'
    OBVIOUS
<1> USE DEF Finish, InstallFails, UninstallFails, config, engine, cluster
<1>0. action' = action /\ schedule' = schedule /\ force' = force
    BY ConfigFixed DEF config
<1>1. CASE Dispatch
    BY <1>1, <1>0 DEF Dispatch, ForceInv, ForceResultPropagated, RunsJob, ForceCron
<1>2. CASE PreRun
    BY <1>2, <1>0 DEF PreRun, ForceInv, ForceResultPropagated, RunsJob, ForceCron
<1>3. CASE JobDeleteOld
    BY <1>3, <1>0 DEF JobDeleteOld, ForceInv, ForceResultPropagated, RunsJob, ForceCron
<1>4. CASE JobCreate
    BY <1>4, <1>0 DEF JobCreate, ForceInv, ForceResultPropagated, RunsJob, ForceCron
<1>5. CASE JobLoop
    <2>1. IsJob
        BY <1>5 DEF JobLoop, LInv, StepInv, PathInv
    <2>2. ~ForceCron
        BY <2>1 DEF IsJob, ForceCron
    <2>3. QED
        BY <1>5, <1>0, <2>2 DEF JobLoop, ForceInv, ForceResultPropagated, RunsJob, ForceCron
<1>6. CASE CronCreate
    <2>1. ~force
        BY <1>6 DEF CronCreate, LInv, StepInv, PathInv
    <2>2. QED
        BY <1>6, <1>0, <2>1 DEF CronCreate, ForceInv, ForceResultPropagated, RunsJob, ForceCron
<1>7. CASE FInstall
    BY <1>7, <1>0 DEF FInstall, ForceInv, ForceResultPropagated, RunsJob, ForceCron
<1>8. CASE FGetCron
    BY <1>8, <1>0 DEF FGetCron, ForceInv, ForceResultPropagated, RunsJob, ForceCron
<1>9. CASE FCreateJob
    BY <1>9, <1>0 DEF FCreateJob, ForceInv, ForceResultPropagated, RunsJob, ForceCron
<1>10. CASE FWait
    BY <1>10, <1>0 DEF FWait, ForceInv, ForceResultPropagated, RunsJob, ForceCron
<1>11. CASE FUninstall
    <2>1. forceJob # "none" /\ forceJob' = forceJob /\ cronResult' = cronResult
        BY <1>11 DEF FUninstall, ForceInv
    <2>2. pc' = "postRun" => cronResult = "ok"
        BY <1>11 DEF FUninstall
    <2>3. pc' = "done" => result' = "error"
        BY <1>11 DEF FUninstall
    <2>4. pc' \in {"postRun", "done"}
        BY <1>11 DEF FUninstall
    <2>5. QED
        BY <2>1, <2>2, <2>3, <2>4, <1>0 DEF ForceInv, ForceResultPropagated, RunsJob, ForceCron
<1>12. CASE PostRun
    <2>1. RunsJob
        BY <1>12 DEF PostRun, LInv, StepInv, PathInv
    <2>2. ForceCron => cronResult = "ok" /\ forceJob # "none"
        BY <1>12 DEF PostRun, ForceInv
    <2>3. UNCHANGED <<cronResult, forceJob>> /\ pc' \in {"delTask", "done"}
        BY <1>12 DEF PostRun
    <2>4. QED
        BY <2>2, <2>3, <1>0 DEF ForceInv, ForceResultPropagated, RunsJob, ForceCron
<1>13. CASE DelTask
    BY <1>13, <1>0 DEF DelTask, ForceInv, ForceResultPropagated, RunsJob, ForceCron
<1>14. CASE DelPostRun
    <2>1. DeletesJob
        BY <1>14 DEF DelPostRun, LInv, StepInv, PathInv
    <2>2. ~(RunsJob /\ ForceCron)
        BY <2>1, TeardownNotForced
    <2>3. QED
        BY <1>14, <1>0, <2>2 DEF DelPostRun, ForceInv, ForceResultPropagated, RunsJob, ForceCron
<1>15. CASE ForceJobEnds
    BY <1>15 DEF ForceJobEnds, ForceInv, ForceResultPropagated, RunsJob, ForceCron
<1>16. CASE Terminated
    BY <1>16 DEF Terminated, vars, ForceInv, ForceResultPropagated, RunsJob, ForceCron
<1>17. CASE UNCHANGED vars
    BY <1>17 DEF vars, ForceInv, ForceResultPropagated, RunsJob, ForceCron
<1>18. QED
    BY <1>1, <1>2, <1>3, <1>4, <1>5, <1>6, <1>7, <1>8, <1>9, <1>10, <1>11, <1>12, <1>13, <1>14, <1>15, <1>16, <1>17 DEF Next

(* Spec 4.4's outcome of a force trigger, for every configuration: an Ok   *)
(* comes only from a forced job that was created and whose wait ended in   *)
(* Success or the timeout, and a Failure is always propagated, whether     *)
(* the cronjob's uninstall ran, was skipped or failed.                     *)
THEOREM ForceOutcomeKept == Spec => []ForceResultPropagated
<1>1. LInv /\ ForceInv => ForceResultPropagated
    BY DEF ForceInv
<1>2. Init => LInv /\ ForceInv
    BY InitLInv, InitForceInv
<1>3. LInv /\ ForceInv /\ [Next]_vars => LInv' /\ ForceInv'
    BY LInvInductive, ForceInvInductive
<1>4. QED
    BY <1>1, <1>2, <1>3, PTL DEF Spec

=============================================================================
