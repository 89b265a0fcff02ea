---------------------------- MODULE JobLifecycle ----------------------------
(***************************************************************************)
(* The lifecycle dispatcher of a job service (DeploymentAction for Job in  *)
(* src/src/environment/action/deploy_job.rs) and the two flows it drives:  *)
(* run_job (pre_run, task, post_run) and delete_job (the teardown).  The   *)
(* one-shot loop of run_job is reduced to its outcome here; JobRunner      *)
(* models it step by step.  The cron paths of run_job, including the       *)
(* force trigger, are modelled step by step.                               *)
(*                                                                         *)
(* The configuration of the service (action, schedule, force trigger,      *)
(* image source, shared-registry flag) is chosen in Init and never         *)
(* changes; the cluster is the helm release of the service, the job        *)
(* created from the cronjob template, and the registry side effects.       *)
(***************************************************************************)
EXTENDS Naturals

Actions   == {"Create", "Pause", "Delete", "Restart"}
Schedules == {"OnStart", "Cron", "OnPause", "OnDelete"}
Sources   == {"registry", "build"}
Repos     == {"shared", "legacy"}
ForceJobPhases == {"none", "running", "succeeded", "failed"}
PCs == {"dispatch", "preRun", "jobDeleteOld", "jobCreate", "jobLoop", "cronCreate",
        "fInstall", "fGetCron", "fCreateJob", "fWait", "fUninstall", "postRun",
        "delTask", "delPostRun", "done"}

VARIABLES
    \* the service, fixed for one invocation
    action,          \* the Action the dispatcher was called for
    schedule,        \* job.schedule()
    force,           \* should_force_trigger() / is_force_trigger()
    source,          \* job.image_source
    deleteShared,    \* job.should_delete_shared_registry()
    \* the engine
    pc,
    result,          \* "none", "ok" or "error"
    preinstalled,    \* cronjob_is_already_installed, as read by the code
    cronResult,      \* cronjob_result: "ok" or "error"
    \* the cluster and the registries
    installed,       \* the helm release (job or cronjob) of the service exists
    installedAtStart,\* ghost: the release existed when the action started
    forceJob,        \* the <kube_name>-force-trigger job
    evictions,       \* calls of delete_cached_image made
    repoCalls        \* container repositories whose deletion was requested

config  == <<action, schedule, force, source, deleteShared>>
engine  == <<pc, result, preinstalled, cronResult>>
cluster == <<installed, installedAtStart, forceJob, evictions, repoCalls>>
vars    == <<config, engine, cluster>>

-----------------------------------------------------------------------------
(* on_create replaces the schedule by OnStart when a force trigger is      *)
(* requested; on_pause runs OnPause jobs; on_delete runs OnDelete jobs.   *)
RunsJob ==
    \/ action = "Create" /\ (force \/ schedule \in {"OnStart", "Cron"})
    \/ action = "Pause" /\ schedule = "OnPause"
    \/ action = "Delete" /\ schedule = "OnDelete"

(* on_pause deletes cron jobs; on_delete always ends with delete_job.      *)
DeletesJob ==
    \/ action = "Pause" /\ schedule = "Cron"
    \/ action = "Delete"

(* JobSchedule::is_job: the schedules that run once per action.            *)
IsJob == schedule \in {"OnStart", "OnPause", "OnDelete"}

ForceCron == schedule = "Cron" /\ force

Finish(r) == pc' = "done" /\ result' = r

(* A failed helm install is taken to leave the release as it was (helm is  *)
(* not part of this repository); a failed uninstall may have removed it.   *)
InstallFails   == UNCHANGED installed
UninstallFails == installed' \in {installed, FALSE}

-----------------------------------------------------------------------------
Init ==
    /\ action \in Actions
    /\ schedule \in Schedules
    /\ force \in BOOLEAN
    /\ source \in Sources
    /\ deleteShared \in BOOLEAN
    /\ pc = "dispatch"
    /\ result = "none"
    /\ preinstalled = FALSE
    /\ cronResult = "none"
    /\ installed \in BOOLEAN
    /\ installedAtStart = installed
    /\ forceJob = "none"
    /\ evictions = 0
    /\ repoCalls = {}

(* on_create, on_pause, on_delete and on_restart pick the flow.            *)
Dispatch ==
    /\ pc = "dispatch"
    /\ \/ RunsJob /\ pc' = "preRun" /\ UNCHANGED result
       \/ ~RunsJob /\ DeletesJob /\ pc' = "delTask" /\ UNCHANGED result
       \/ action = "Restart" /\ Finish("error")
       \/ action # "Restart" /\ ~RunsJob /\ ~DeletesJob /\ Finish("ok")
    /\ UNCHANGED <<config, preinstalled, cronResult, cluster>>

(* pre_run: mirror a registry image into the cluster registry (an error    *)
(* ends the run), then read the last deployed image.  The task starts by   *)
(* rendering the chart context; that error is folded into the first step   *)
(* of each branch.                                                         *)
PreRun ==
    /\ pc = "preRun"
    /\ \/ source = "registry" /\ Finish("error")
       \/ /\ pc' = IF IsJob THEN "jobDeleteOld"
                     ELSE IF ~force THEN "cronCreate"
                     ELSE "fInstall"
          /\ UNCHANGED result
    /\ UNCHANGED <<config, preinstalled, cronResult, cluster>>

(* helm.on_delete of the old job, then helm.on_create of the new one.      *)
JobDeleteOld ==
    /\ pc = "jobDeleteOld"
    /\ \/ installed' = FALSE /\ pc' = "jobCreate" /\ UNCHANGED result
       \/ UninstallFails /\ Finish("error")
    /\ UNCHANGED <<config, preinstalled, cronResult, installedAtStart, forceJob,
                   evictions, repoCalls>>

JobCreate ==
    /\ pc = "jobCreate"
    /\ \/ installed' = TRUE /\ pc' = "jobLoop" /\ UNCHANGED result
       \/ InstallFails /\ Finish("error")
    /\ UNCHANGED <<config, preinstalled, cronResult, installedAtStart, forceJob,
                   evictions, repoCalls>>

(* The loop of JobRunner: it returns Ok or an error and never touches the  *)
(* helm release.                                                           *)
JobLoop ==
    /\ pc = "jobLoop"
    /\ \/ pc' = "postRun" /\ UNCHANGED result
       \/ Finish("error")
    /\ UNCHANGED <<config, preinstalled, cronResult, cluster>>

(* A cron job that is not force-triggered: install the cronjob.            *)
CronCreate ==
    /\ pc = "cronCreate"
    /\ \/ installed' = TRUE /\ pc' = "postRun" /\ UNCHANGED result
       \/ InstallFails /\ Finish("error")
    /\ UNCHANGED <<config, preinstalled, cronResult, installedAtStart, forceJob,
                   evictions, repoCalls>>

(* The force trigger reads whether the cronjob exists (a get that fails    *)
(* for any reason reads as absent), then installs it.                      *)
FInstall ==
    /\ pc = "fInstall"
    /\ preinstalled' \in IF installed THEN BOOLEAN ELSE {FALSE}
    /\ \/ installed' = TRUE /\ pc' = "fGetCron" /\ UNCHANGED result
       \/ InstallFails /\ Finish("error")
    /\ UNCHANGED <<config, cronResult, installedAtStart, forceJob, evictions, repoCalls>>

(* Get the cronjob to copy its job template; an error returns.             *)
FGetCron ==
    /\ pc = "fGetCron"
    /\ \/ pc' = "fCreateJob" /\ UNCHANGED result
       \/ Finish("error")
    /\ UNCHANGED <<config, preinstalled, cronResult, cluster>>

(* Create the force-trigger job; an error (it already exists, API error)   *)
(* returns.                                                                *)
FCreateJob ==
    /\ pc = "fCreateJob"
    /\ \/ forceJob = "none" /\ forceJob' = "running" /\ pc' = "fWait" /\ UNCHANGED result
       \/ Finish("error") /\ UNCHANGED forceJob
    /\ UNCHANGED <<config, preinstalled, cronResult, installed, installedAtStart,
                   evictions, repoCalls>>

(* await_condition(is_job_terminated) under a 3800 s timeout, then the     *)
(* classification: Success and a timeout (Running) are Ok, Failure is an   *)
(* error; a watch error returns at once.                                   *)
FWait ==
    /\ pc = "fWait"
    /\ \/ forceJob = "succeeded" /\ cronResult' = "ok" /\ pc' = "fUninstall"
          /\ UNCHANGED result
       \/ forceJob = "failed" /\ cronResult' = "error" /\ pc' = "fUninstall"
          /\ UNCHANGED result
       \/ forceJob = "running" /\ cronResult' = "ok" /\ pc' = "fUninstall"
          /\ UNCHANGED result
       \/ Finish("error") /\ UNCHANGED cronResult
    /\ UNCHANGED <<config, preinstalled, cluster>>

(* Mutant: cronjob_result? is dropped, so a failed forced job returns Ok.  *)
FUninstallNoPropagate ==
    /\ pc = "fUninstall"
    /\ \/ preinstalled /\ UNCHANGED installed /\ pc' = "postRun" /\ UNCHANGED result
       \/ ~preinstalled /\ installed' = FALSE /\ pc' = "postRun" /\ UNCHANGED result
       \/ ~preinstalled /\ UninstallFails /\ Finish("error")
    /\ UNCHANGED <<config, preinstalled, cronResult, installedAtStart, forceJob,
                   evictions, repoCalls>>

(* Uninstall the cronjob when it was not installed before (an error        *)
(* returns), then propagate the classification.                            *)
FUninstall ==
    /\ pc = "fUninstall"
    /\ \/ /\ preinstalled
          /\ UNCHANGED installed
          /\ IF cronResult = "ok" THEN pc' = "postRun" /\ UNCHANGED result
                                  ELSE Finish("error")
       \/ /\ ~preinstalled
          /\ installed' = FALSE
          /\ IF cronResult = "ok" THEN pc' = "postRun" /\ UNCHANGED result
                                  ELSE Finish("error")
       \/ ~preinstalled /\ UninstallFails /\ Finish("error")
    /\ UNCHANGED <<config, preinstalled, cronResult, installedAtStart, forceJob,
                   evictions, repoCalls>>

(* Mutant: on_delete returns after run_job without running delete_job.    *)
PostRunNoTeardown ==
    /\ pc = "postRun"
    /\ evictions' = IF source = "registry" THEN evictions + 1 ELSE evictions
    /\ Finish("ok")
    /\ UNCHANGED <<config, preinstalled, cronResult, installed, installedAtStart,
                   forceJob, repoCalls>>

(* post_run of run_job: evict the previously deployed image from the       *)
(* mirror cache (errors are logged); on_delete then runs delete_job.       *)
PostRun ==
    /\ pc = "postRun"
    /\ evictions' = IF source = "registry" THEN evictions + 1 ELSE evictions
    /\ IF action = "Delete" THEN pc' = "delTask" /\ UNCHANGED result
                            ELSE Finish("ok")
    /\ UNCHANGED <<config, preinstalled, cronResult, installed, installedAtStart,
                   forceJob, repoCalls>>

(* delete_job: pre_run reads the last image, the task renders the chart    *)
(* context and runs helm.on_delete; either error returns.                  *)
DelTask ==
    /\ pc = "delTask"
    /\ \/ installed' = FALSE /\ pc' = "delPostRun" /\ UNCHANGED result
       \/ UninstallFails /\ Finish("error")
    /\ UNCHANGED <<config, preinstalled, cronResult, installedAtStart, forceJob,
                   evictions, repoCalls>>

(* post_run of delete_job: evict the mirrored image, or delete the shared  *)
(* repository (when flagged) and the job's own repository; every error is  *)
(* only reported.                                                          *)
DelPostRun ==
    /\ pc = "delPostRun"
    /\ evictions' = IF source = "registry" THEN evictions + 1 ELSE evictions
    /\ repoCalls' = IF source = "registry" THEN repoCalls
                    ELSE IF deleteShared THEN repoCalls \cup Repos
                    ELSE repoCalls \cup {"legacy"}
    /\ Finish("ok")
    /\ UNCHANGED <<config, preinstalled, cronResult, installed, installedAtStart, forceJob>>

(* The cluster: the force-trigger job runs to completion.                  *)
ForceJobEnds ==
    /\ forceJob = "running"
    /\ forceJob' \in {"succeeded", "failed"}
    /\ UNCHANGED <<config, engine, installed, installedAtStart, evictions, repoCalls>>

Terminated == pc = "done" /\ UNCHANGED vars

Next ==
    \/ Dispatch \/ PreRun \/ JobDeleteOld \/ JobCreate \/ JobLoop \/ CronCreate
    \/ FInstall \/ FGetCron \/ FCreateJob \/ FWait \/ FUninstall \/ PostRun
    \/ DelTask \/ DelPostRun \/ ForceJobEnds \/ Terminated

Spec == Init /\ [][Next]_vars

-----------------------------------------------------------------------------
TypeOK ==
    /\ action \in Actions /\ schedule \in Schedules /\ force \in BOOLEAN
    /\ source \in Sources /\ deleteShared \in BOOLEAN
    /\ pc \in PCs
    /\ result \in {"none", "ok", "error"}
    /\ preinstalled \in BOOLEAN
    /\ cronResult \in {"none", "ok", "error"}
    /\ installed \in BOOLEAN /\ installedAtStart \in BOOLEAN
    /\ forceJob \in ForceJobPhases
    /\ evictions \in 0..2
    /\ repoCalls \subseteq Repos

(* What an action that returns Ok leaves behind: the teardown paths        *)
(* (on_pause of a cron job, on_delete, including on_delete of an OnDelete  *)
(* job, which runs the job first) remove the release and clean the image  *)
(* cache or the repositories the flag names; a run installs the release;  *)
(* a force trigger leaves the cronjob as the code found it; a no-op action *)
(* changes nothing.                                                        *)
Promised ==
    IF DeletesJob
    THEN /\ ~installed
         /\ source = "registry" => evictions >= 1
         /\ source = "build" =>
                repoCalls = IF deleteShared THEN Repos ELSE {"legacy"}
    ELSE IF RunsJob /\ ForceCron /\ ~IsJob THEN installed = preinstalled
    ELSE IF RunsJob THEN installed
    ELSE installed = installedAtStart

OutcomeOnSuccess == pc = "done" /\ result = "ok" => Promised

(* Spec 4.4: a force trigger propagates only a Failure (or an unexpected   *)
(* state) of the job it created as an error; Success and the 3800 s       *)
(* timeout (JobStatus::Running) both return Ok.  So an Ok of a force       *)
(* trigger means the forced job was created and its wait was classified    *)
(* Ok, and a wait classified as a failure never ends in Ok, whatever the  *)
(* uninstall of the cronjob in between does.                               *)
ForceResultPropagated ==
    pc = "done" /\ RunsJob /\ ForceCron =>
        /\ result = "ok" => forceJob # "none" /\ cronResult = "ok"
        /\ cronResult = "error" => result = "error"

(* Spec 4.4: a force trigger that found the cronjob installed keeps it;    *)
(* the code reads "installed" as the success of a get, and uninstalls the  *)
(* cronjob whenever that get failed.                                       *)
ScheduleKeptWhenInstalled ==
    pc = "done" /\ RunsJob /\ ForceCron /\ installedAtStart => installed

(* Spec 4.4: a force trigger removes the cronjob afterwards when it was    *)
(* not installed before; the code returns on an error of the get of the   *)
(* cronjob, of the job creation or of the wait before the uninstall.       *)
ScheduleRemovedWhenNotInstalled ==
    pc = "done" /\ RunsJob /\ ForceCron /\ ~installedAtStart => ~installed

(* Spec 2: JobTeardown is invoked on delete to remove the resources.  The  *)
(* code's on_delete runs an OnDelete job first and its `?` returns on the *)
(* run's error before delete_job: every return of a delete action should  *)
(* come from the teardown.                                                 *)
DeleteEndsInTeardown ==
    [][action = "Delete" /\ pc' = "done" => pc \in {"delTask", "delPostRun"}]_vars

=============================================================================
