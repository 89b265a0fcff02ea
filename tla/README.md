# TLA+ models of the engine's job runner, Karpenter lifecycle and local builds

This directory holds TLA+ models of four parts of the engine, the TLC
configurations that check them, an abstract specification of a job run that
the job runner is shown to implement, and TLAPS proofs of the job runner's and
the local build's main safety properties. Every definition is translated from the Rust source. For
each modelled definition, `PROJECT.json` (`map`) gives the source lines it
stands for.

## The system and its parts

| Part | Source | Module(s) |
|---|---|---|
| One-shot job runner: the pod loop of `run_job` | `src/src/environment/action/deploy_job.rs` 149-378, 616-774 | `JobRunner`, `MCJobRunner`, `JobRunnerProofs`; abstract: `JobRun` |
| Job output: `serialize_job_output` and the upper-casing of its keys | `deploy_job.rs` 292-307, 776-836 | `JobOutput`, `MCJobOutput` |
| Job lifecycle: the dispatcher, the cron and force-trigger branch of `run_job`, and `delete_job` | `deploy_job.rs` 39-141, 162-505, 508-607 | `JobLifecycle` |
| Karpenter: pause, restart, delete and node teardown | `src/src/infrastructure/action/eks/karpenter.rs` 42-303, 366-403 | `Karpenter`, `MCKarpenter` |
| Local docker or buildpacks build: `LocalDocker::build` | `src/src/build_platform/local_docker.rs` 90-755 | `LocalDockerBuild`, `LocalDockerBuildProofs` |

How the parts interact:

- The deployment engine calls a job's `on_create`, `on_pause`, `on_delete` or
  `on_restart`.
- `JobLifecycle` models that dispatch and the cron paths. It reduces the
  one-shot loop to its outcome (`JobLoop`: Ok or an error, with no change to the
  helm release).
- `JobRunner` models that loop step by step against a Kubernetes job
  controller. The two modules share no variable; `JobLoop` is where one plugs
  into the other.
- `JobRunner`'s `ReadOutput` reads the output and sends it when it parses;
  `JobOutput` models that parse and the upper-casing of the keys on their
  own, over documents instead of pod names.
- The infrastructure engine calls Karpenter's pause, restart and delete.
- The build platform runs `LocalDocker::build` before a deployment.

Not modelled, with the reasons given in `PROJECT.json`:

- The database and instance-type models, io models, routers and helm charts:
  data and rendering.
- The kubeconfig writer: file I/O.
- The GKE deletion helpers: two sequential API calls.
- The EKS accessors.

## Modules and how they correspond to the code

### JobRunner

**State.** The engine's variables are the locals of `run_job`:

| Variable | Code |
|---|---|
| `pc` | where `run_job` is |
| `processed` | `set_of_pods_already_processed` |
| `podName` | the current pod |
| `iterations` | `job_creation_iterations` |
| `polls` | attempts of `get_active_job_pod_by_selector` |
| `delIdx` | the forced-cancel loop index |
| `reports` | outputs sent, in order |

The cluster's variables:

| Variable | Meaning |
|---|---|
| `jobAlive` | the job resource exists |
| `pod` | the phase of each pod |
| `mainOk` | the exit code of each pod's job container |
| `touched` | the terminate files written |
| `succeeded`, `failed` | the job's cumulative status counters |
| `lcAlive` | the other lifecycle jobs that still exist |
| `forceCancel` | whether a forced cancel was requested |

**Engine actions.**

| Action | What it models |
|---|---|
| `DeleteOldJob`, `CreateJob` | `helm.on_delete`, then `on_create` |
| `SelectPod`, `ListPodsFails` | one poll of the pod selector, with its retry budget `PollRetries` = min(30, max_duration/10) |
| `WaitContainer` | the biased `select!` and the re-read of the abort status |
| `CancelDelete` | one turn of the lifecycle-job deletion loop |
| `ReadOutput` | `kubectl_get_job_pod_output` and parsing |
| `Touch` | `exec touch /qovery-output/terminate` |
| `GetJob` | `jobs.get` |
| `WaitJob` | `await_condition` plus `job_status` plus the budget check |
| `WatchFails` | the watch error of `await_condition` |

**Cluster actions.**

- `CreatePod`: the job controller keeps one pod while `succeeded = 0` and `failed <= backoffLimit`.
- `StartPod`.
- `MainExits`: the job container exits with any exit code.
- `PodCompletes`: once touched, the pod ends with its container's result, and the controller counts it.
- `RequestForceCancel`.

### JobRun (abstract)

What a run of a one-shot job promises, whatever the cluster does, with three
variables: `outcome` (running until the run returns), `tried` (the pods
tried) and `sent` (the pods whose output was reported, in order).

- `Attempt(p)`: a new pod, while fewer than `MaxNbRestart` + 1 were tried.
- `Report(p)`: the output of a tried pod not reported yet.
- `Succeed`, `Cancel`: only after a pod was tried.
- `Fail`: only after `MaxNbRestart` + 1 pods.
- `Error`: at any time.
- Weak fairness on the four ways out: the run returns.

`JobRunner` defines the refinement mapping at its end: `AbsOutcome` maps `pc`
and `result` to an outcome (Ok, a propagated job failure, the cancellation
error, any other error), `tried` is the dedup set `processed` and `sent` is
`reports`. `ImplementsJobRun == Abs!Spec` is the property TLC checks.

### JobOutput

One document per behaviour, chosen in Init: not JSON, a JSON value that is not
an object, or an object given as its members in text order. A JSON value is a
record of its kind, the content of a string and its canonical JSON text (what
`Value::to_string` prints); an entry object also has its fields. Keys are
strings; `UpperOf` is `to_uppercase` on them, and `Escaped` are the keys whose
JSON text holds an escape sequence.

| Action | What it models |
|---|---|
| `Deserialize` | `serde_json::from_str` into `HashMap<&str, Value>`: last member wins, and a key with an escape cannot be borrowed |
| `Visit(k)` | one turn of the loop: skip a non-object (`continue`), insert the `Entry` of an object |
| `LoopDone` | `Ok(job_output_variables)` |
| `Upcase(k)` | one insertion of `collect()` under `key.to_uppercase()` |
| `Report` | `core_configuration_for_job` |

Both loops iterate over a `HashMap`, whose order is the random hasher's: each
step takes any key left, so every order is explored. Both insert with
`Insert`, which is `HashMap::insert`: the key maps to the new value and
replaces an old one. The fields of an entry are typed by `Texts`, the finite
set of texts that the model's scalars read as, quoted or not.

### JobLifecycle

The configuration is chosen in Init and never changes:

- the action;
- the schedule (`OnStart`, `Cron`, `OnPause` or `OnDelete`);
- the force-trigger flag;
- the image source;
- the shared-registry flag.

The engine actions follow the code:

- `Dispatch`
- `PreRun`: the registry mirror.
- `JobDeleteOld`, `JobCreate` and `JobLoop`.
- `CronCreate`.
- The force-trigger chain: `FInstall` (with the "already installed" get), `FGetCron`, `FCreateJob`, `FWait` and `FUninstall`.
- `PostRun`: the eviction, then `delete_job` for on_delete.
- `DelTask` and `DelPostRun`: the registry eviction or the container-repository deletions.

A failed helm install is taken to leave the release as it was
(`InstallFails`). Helm is not part of this repository, so nothing is assumed
about a partly applied release. A failed uninstall may or may not have
removed the release (`UninstallFails`). Every failure ends the action with an
error, so the passing properties, which are about Ok returns, do not depend
on either choice.

### Karpenter

The engine runs up to `MaxOps` pause, restart or delete operations in sequence.
`delete_nodes_spawned_by_karpenter` is modelled as these steps:

1. List the nodes. An empty list returns Ok at once.
2. Uninstall the configuration chart. An error is only logged.
3. List the nodes again.
4. Remove the finalizer of each node.
5. Poll the EC2NodeClasses until none is left or the retry limit is passed.

Then comes the scale-down, the uninstall, or the scale-up with
`wait_for_karpenter_pods` and the configuration reinstall.

The cluster is Karpenter itself:

- It provisions nodes while it runs with its configuration.
- It drains them once the configuration is gone. Nodes not in `drainable` are held by a PDB.
- It finalizes the node class when no node is left.

### LocalDockerBuild

One call of `build`, with one action per step:

| Action | What it models |
|---|---|
| `Start` | the abort check and the root path |
| `CleanOld` | removal of an old clone |
| `Clone` | one attempt, of `CloneRetries` + 1 |
| `AfterClone` | arming the scopeguard, then the abort check |
| `LfsEstimate`, `LfsCheckout` | the git-lfs size estimate and the checkout |
| `Context` | the build-context checks, then docker or buildpacks |
| `Dockerfile` | the provided Dockerfile is written and checked |
| `ExistsRemote` | the remote-image skip |
| `Login` | the login, retried with `Fibonacci.take(4)` |
| `Provision` | one `spawn_builder` attempt, with the deadline and abort checks |
| `DockerBuild` | the docker build |
| `Buildpacks` | the buildpacks build |

`Ret(r)` is the return of `build`. Once the guard is armed it runs
`remove_dir_all` and ignores that call's error.

The user may cancel at any time (`RequestCancel`). `Tick` models the passing of
`provision_builder`'s 10-minute deadline. The repository (with or without git-lfs
files, too large or not), the registry and whether the builder cluster can
start a builder are inputs chosen in Init.

## Runs

| Run | cfg | Checks | Result |
|---|---|---|---|
| jobrunner | `MCJobRunnerAll.cfg` | TypeOK, NoDuplicateOutput, FailureAfterFullBudget, RunTerminates, ImplementsJobRun | pass |
| jobrunner_cancel | `MCJobRunnerCancel.cfg` | CancelRemovesLifecycleJobs | violation |
| jobrunner_stale_failed | `MCJobRunnerStale.cfg` | JobFailedOnlyWhenPodFailed | violation |
| joblifecycle | `JobLifecycle.cfg` | OutcomeOnSuccess, ForceResultPropagated | pass |
| joblifecycle_kept | `JobLifecycleKept.cfg` | ScheduleKeptWhenInstalled | violation |
| joblifecycle_removed | `JobLifecycleRemoved.cfg` | ScheduleRemovedWhenNotInstalled | violation |
| joboutput | `MCJobOutput.cfg` | TypeOK, ParsedFollowsContract, ReportFromParsed | pass |
| joboutput_escaped | `MCJobOutputEscaped.cfg` | ParseFailsOnlyOnMalformed | violation |
| karpenter | `MCKarpenter.cfg` | TypeOK, NodeTeardownComplete | pass |
| karpenter_paused | `MCKarpenterPaused.cfg` | PausedAfterPause | violation |
| localdocker | `LocalDockerBuild.cfg` | TypeOK, CleanupAfterClone, BuildTerminates | pass |
| localdocker_lfs | `LocalDockerBuildLfs.cfg` | LfsFetchedWhenPresent | violation |

What the passing runs show:

- **NoDuplicateOutput.** The dedup set prevents the output of a pod from being
  sent twice. This holds even though the side-car keeps a processed pod
  "active" while the loop waits for the next pod.
- **FailureAfterFullBudget.** A failure is reported only once `max_nb_restart`
  + 1 distinct pods have been processed.
- **RunTerminates.** `run_job` returns when the engine and the cluster act
  fairly.
- **ImplementsJobRun.** Every behaviour of `run_job`, mapped by `AbsOutcome`,
  `processed` and `reports`, is a behaviour of `JobRun`, fairness included.
- **ParsedFollowsContract.** In every iteration order of the HashMap,
  `serialize_job_output` returns the map that spec 4.3 describes (`Contract`,
  written from the spec's words): non-object members are dropped without
  touching their siblings, and the fields default as stated.
- **ReportFromParsed.** After an Ok, the map that `run_job` sends
  (`deploy_job.rs:296-302`) has exactly the upper-cased keys of the parsed map.
  Each one holds the entry of a key that upper-cases to it. When two keys
  collide, the HashMap order picks which entry survives, and no other entry
  appears.
- **OutcomeOnSuccess.** Every action that returns Ok leaves the release and
  the registries as its flow promises.
- **ForceResultPropagated.** This is spec 4.4's rule for the force trigger.
  An Ok comes only from a forced job that was created and whose wait was
  classified Success or timed out (Running). A Failure is always returned as
  an error, even though the cronjob uninstall runs between the
  classification and `cronjob_result?` (`deploy_job.rs:438-467`).
  `JobLifecycle`'s `TypeOK` is proved (`LifecycleTypeCorrect`), not run.
- **NodeTeardownComplete.** A pause or delete that tore the configuration down
  and returned Ok has no node and no node class left.
- **CleanupAfterClone.** Every return after a successful clone runs the
  repository cleanup.
- **BuildTerminates.** `build` always returns.

Every property of a passing run has a mutant in `PROJECT.json`: a plausible bug
in a mapped definition (a dropped check, an off-by-one, a reordered guard),
and TLC finds the property violated by it.

The violations are the findings of `PROJECT.json`:

1. **jobrunner_cancel.** A forced cancel returns after deleting only the first
   lifecycle job whose deletion succeeds (`deploy_job.rs:275`). Spec 4.4 step 4
   says all lifecycle jobs are deleted.
2. **jobrunner_stale_failed.** `job_status` reads the job's *cumulative* failed
   counter (`deploy_job.rs:623`). After one failed pod, a retry whose pod exits 0
   is still classified as a failure.
3. **joblifecycle_kept.** "Cronjob already installed" is the success of a
   single get (`deploy_job.rs:391`). A transient API error makes the force
   trigger uninstall the user's cronjob.
4. **joblifecycle_removed.** The `?` returns after the cronjob install
   (`deploy_job.rs:403`, 425 and 443) skip its uninstall, so a force-triggered
   cronjob stays installed. In TLC's trace the install succeeds and the get of
   the cronjob at 403 fails.
5. **karpenter_paused.** When the node list is empty, `pause` keeps the NodePool
   and only scales down (`karpenter.rs:187`). A node provisioned in between
   survives, and `is_paused` is false after a successful pause.
6. **localdocker_lfs.** `files_size_estimate_in_kb(...).unwrap_or(0)`
   (`local_docker.rs:629`) turns an error of the estimate into "no git-lfs
   files". The image is then built without them.
7. **joboutput_escaped.** `HashMap<&str, Value>` borrows every key from the
   text (`deploy_job.rs:796`). A key written with an escape, such as a
   non-ASCII name from `json.dumps`, makes the whole parse fail. Spec 4.3 says
   the parse fails only on a malformed top-level document.

### Further configurations

Some cfgs are kept beside the modules but are not in the run list of
`PROJECT.json`. Each checks one property that TLC finds violated.

- `MCJobRunner.cfg` checks the three safety invariants with symmetry on the
  pods, and `MCJobRunnerLive.cfg` checks the two temporal properties with a
  single lifecycle job. `MCJobRunnerAll.cfg` checks all five of them together,
  without symmetry, since symmetry is unsound for liveness.
- **`MCJobRunnerSideCar.cfg`: SideCarReleased.** A failed exec of the touch (`deploy_job.rs:331`)
   returns at once, and the side-car of the processed pod is never told to
   exit. Spec 4.4 step 6 does not say what happens then.
- **`JobLifecycleTeardown.cfg`: DeleteEndsInTeardown.** `on_delete` runs an OnDelete job first, and its
   `?` (`deploy_job.rs:122`) returns on the run's error before `delete_job`.
   Spec section 2 says the teardown is invoked on delete.
- **`MCJobOutputCase.cfg`: ReportKeepsEveryEntry.** Upper-casing (`deploy_job.rs:301`) maps `foo` and `Foo`
  to one variable, and which entry survives depends on the HashMap's random
  order.

## Bounds, and why they are enough

**MCJobRunner.**

- Three pods. This is enough for a budget of 2 restarts (3 pods processed), and
  for a processed pod that is still active while the next one is created.
- `BackoffLimit = 2` and `MaxNbRestart = 2`. The job controller can stop
  creating pods before or after the engine's budget is spent.
- `JobMaxDuration = 20`, which gives 2 poll delays and 3 attempts. The
  exhausted budget and a success after retries both happen.
- Two lifecycle jobs, with the other job listed first. The early return of the
  cancel loop is visible.
- The listed run has no symmetry, because it checks liveness. `MCJobRunner.cfg`
  uses symmetry on the pods for its invariants, which is sound because the pods
  are interchangeable model values.

**Karpenter.**

- Two nodes, one of which may be held by a PDB.
- Three operations, so a pause can be followed by a restart and a delete.
- The class poll limit (20 in the code) is 3, and the pod wait (10 delays) is
  2. Every attempt of these loops behaves the same, so a smaller limit still
  exercises both the exhausted and the successful exits.

**JobOutput.**

- Documents of up to two members, over three keys (`KeysMixed`): `foo`,
  `Foo` and `bar`. A key can repeat, a non-object member can sit beside an
  object, and two keys can collide once upper-cased.
- Values: three scalars, and entry objects with every combination of a
  missing, string, number or null `value`, a missing, string or number
  `description`, and a missing, Boolean or string `sensitive` (48 objects).
- `MCJobOutputEscaped.cfg` swaps in an escaped key, and `MCJobOutputCase.cfg`
  a pair of keys that differ only in case.

**LocalDockerBuild.**

- The real retry counts: `CloneRetries = 3` and `LoginRetries = 4`.
- Every combination of the six inputs, and the three states of the repository
  directory.

## Fairness

**JobRunner.**

- There is weak fairness on the engine's steps (`EngineSteps`): a tokio task
  that can proceed does.
- Each pod action is weakly fair: the Kubernetes controller and the kubelet keep
  acting on a pod they can act on.
- No fairness is put on `WatchFails`, which is the environment failing, or on
  `RequestForceCancel`, which is the user.

**LocalDockerBuild.**

- There is weak fairness on the engine and on `Tick`, because time passes.
- The cancel is not fair.
- A builder that cannot start (`builderUp = FALSE`) makes the provisioning
  retry until the deadline. The retry changes no modelled state (the builder
  name counter is abstracted), so the deadline is the only way out. The
  mutant `ProvisionNoDeadline` shows that `BuildTerminates` depends on it.

`JobLifecycle` and `Karpenter` are checked only for safety and have no
fairness.

## What is proved

`JobRunnerProofs.tla` proves these theorems for every value of the constants
that satisfies the assumptions of `JobRunner`:

- finitely many pods, with `NoPod` not one of them;
- natural-number budgets;
- a non-empty lifecycle-job list that contains the job.

**`TypeCorrect`** proves `Spec => []TypeOK`.

- TypeOK is not inductive as it stands. `ReadOutput` appends `podName` to
  `reports` and `Touch` indexes `pod[podName]`, and both need the current pod
  to be a real pod.
- The inductive invariant `TypeInv` is TypeOK plus `PodSelected`: from the
  pod's selection until the next poll, `podName \in Pods`.
- `InitTypeInv` and `TypeInvInductive` prove it, with one case per action.

**`OutputSentOnce`** proves `Spec => []NoDuplicateOutput`.

- The inductive invariant is `TypeInv /\ OutputInv /\ NoDuplicateOutput`.
- `OutputInv` says every reported pod is in the dedup set. It also says that,
  from selection until the output is read, the current pod is in the set and
  not yet reported.
- `SelectPod` picks only a pod outside the set, and hence one never reported.
- `ReadOutput` appends a pod not yet in `reports`. The lemma `AppendFresh`
  says such an append keeps the entries distinct.

**`FullBudget`** proves `Spec => []FailureAfterFullBudget`.

- `BudgetInv` ties the size of the dedup set to `job_creation_iterations`:
  it is `iterations + 1` from a pod's selection until the loop goes round
  again (and at a return from that stretch), and `iterations` otherwise. It
  also says that `result` stays "none" until the return, and that a job
  failure is returned only with `iterations = MaxNbRestart`.
- `SelectPod` adds a pod outside the set (`FS_AddElement` of
  `FiniteSetTheorems`), and `WaitJob` increments `iterations` when it goes
  round.

**`Refinement`** proves `Spec => Abs!SafetySpec`: `JobRunner` implements the
safety part of `JobRun`.

- The initial state maps to `JobRun`'s initial state.
- `RefineStep`: under `RInv` (the conjunction of the invariants above), every
  step maps to an abstract step or a stutter. A selection is an `Attempt`, since
  the budget invariant bounds the set. The append of `ReadOutput` is a `Report`.
  `WaitJob` is a `Succeed`, a `Fail` or a stutter. The cancel return is a
  `Cancel`, since a pod was selected. Every other return is an `Error`, and the
  cluster steps are stutters.
- Through the `INSTANCE`, `Cardinality` is a symbol of its own; the lemma
  `AbsCardinality` identifies it with the one of `FiniteSets`.

`LocalDockerBuildProofs.tla` proves two theorems for every number of clone and
login retries:

- **`BuildTypeCorrect`** proves `Spec => []TypeOK`.
- **`CleanupRuns`** proves `Spec => []CleanupAfterClone`.

Both use the inductive invariant `CInv`. It has two parts:

- `TypeFlat` is TypeOK with the six input flags listed one by one.
- `GuardInv`:
  - a clone happens only at the clone step, so `cloned` implies that `pc` is
    past it;
  - from the abort check after the clone until the return, the scopeguard is
    armed;
  - a return after a clone ran the cleanup.

CleanupAfterClone alone is not inductive, because it says nothing before the
return.

`KarpenterProofs.tla` proves two theorems for every set of nodes and every
retry limit (`MaxOps`, `ClassPollLimit`, `PodWaitRetries`, `ExpectedPods` as
`KarpenterAssumption` allows):

- **`KarpenterTypeCorrect`** proves `Spec => []TypeOK`.
- **`TeardownComplete`** proves `Spec => []NodeTeardownComplete`.

Both use the inductive invariant `KInv`, which is TypeOK plus `TeardownInv`:

- `ConfigMatchesClass`: the NodePool chart is installed exactly when the
  EC2NodeClass exists, because the chart creates both and its uninstall
  deletes the class.
- `AbsentClassNoNode`: with the class gone, no node is listed. The finalizer
  is removed only once no node is left, and nothing is provisioned without
  the NodePool.
- `RestartPath`: only restart reaches the scale-up, the pod wait and the
  install.
- `TornClassGone` and `IdleTornGone`: after the uninstall of the
  configuration, the class poll lets pause and delete go on only once the
  class is gone, and an Ok return keeps that.
- `FreshOp`: an operation starts its first listing with `tornDown` reset.

NodeTeardownComplete alone is not inductive. It speaks only of the idle state
after an Ok, and whether it holds there depends on the class poll and on what
the cluster may do in between.

`JobLifecycleProofs.tla` proves three theorems for every action, schedule,
image source and set of repositories:

- **`LifecycleTypeCorrect`** proves `Spec => []TypeOK`.
- **`SuccessKeepsPromise`** proves `Spec => []OutcomeOnSuccess`.
- **`ForceOutcomeKept`** proves `Spec => []ForceResultPropagated`.

All three use the inductive invariant `LInv`. Its step rests on the lemma
`ConfigFixed`: no step changes the action, the schedule or the image source,
which are fixed when the environment is built. `LInv` has three parts:

- `PathInv` ties every program counter to the path that reaches it. For
  example, `cronCreate` means a cron job without force, the `f*` states mean a
  force trigger of a cron job, and `delTask`/`delPostRun` mean a delete.
- `InstallInv` says what is installed at each point. Before the run nothing
  has changed. During the job loop and the force chain the job is installed.
  After the force chain the cron job is back to what was found. After the
  delete nothing is installed.
- `CountInv` bounds the registry evictions and says the repository calls
  happen only at the end.

`ForceOutcomeKept` also needs `ForceInv`, which is inductive only together
with `LInv`. It says two things. The forced job exists from the wait on,
because the cluster only moves it to a terminal phase. A force trigger
reaches post_run only with a classification of Ok. `PathInv` excludes the
other ways into post_run and the teardown's Ok (`TeardownNotForced`).

`Promised` and `PreRun` were written with `CASE` arms that overlap (an
`OnDelete` job also runs). A `CASE` whose arms overlap is left unspecified
for the prover, so they are written as `IF` chains in the order of the
code's `match`. The runs are unchanged.

`JobOutputProofs.tla` proves three theorems for every set of keys and every
bound on the members of a document:

- **`OutputTypeCorrect`** proves `Spec => []TypeOK`.
- **`ContractKept`** proves `Spec => []ParsedFollowsContract`.
- **`ReportKept`** proves `Spec => []ReportFromParsed`, colliding keys
  included.

The argument has these steps:

- `LastIndexExists`: every key of a document has a last member. The least
  upper bound of the indices of its members is one of them, by `WFMin` over
  the well-founded `<` on Nat. Induction is not needed.
- `EntryMatchesContract`: on every entry object, `Entry` (the body of the
  loop) and spec 4.3's `Contract` agree field by field, whether the field is
  given or not. `ContractIsPart` lifts this to the whole document.
- The inductive invariant `OInv` is TypeOK plus these:
  - nothing is parsed before the parse;
  - no result is given before the end;
  - from the loop on, the HashMap is `SMap(members)`;
  - at every turn of the loop, `parsed` is `PartOf` of the keys visited so
    far;
  - from the end of the loop, `parsed` is `PartOf` of all the keys.
- `PartVisit`: one turn adds exactly the visited key's entry, whatever the
  order.
- `UInv`, the invariant of the upper-casing, has three parts:
  - nothing is sent before the loop ends;
  - no key waits to be upper-cased outside that phase;
  - during the upper-casing and after an Ok, `reported` is `MapFrom` the
    parsed keys already taken.

  `UpcaseStep` shows that one insertion under `UpperOf[k]` extends this to k.
  It holds whether or not the key was already present. `UInv` is inductive
  only together with `OInv`, which gives the type of `reported`.

`TLC`'s `:>` and `@@` cannot be unfolded by the prover, so `Insert` in
`JobOutput` writes `HashMap::insert` as a function. The prover also knows no
string literal to be in `STRING`, so the entries are typed over `Texts`.

TLC checks each proved property in a run, except JobLifecycle's TypeOK, which
is proved only:

- `jobrunner`, including the full `ImplementsJobRun`;
- `localdocker`;
- `karpenter`;
- `joblifecycle`;
- `joboutput`.

## What stays with TLC

- The liveness properties (RunTerminates, BuildTerminates) and the fairness
  half of ImplementsJobRun depend on fairness and ENABLED, which the prover
  does not handle.
- The violation runs show a counterexample on a concrete instance. There is
  nothing to prove there:
  - `ReportKeepsEveryEntry` (case collision);
  - `ParseFailsOnlyOnMalformed` (escaped keys);
  - `PausedAfterPause`;
  - the schedule properties of JobLifecycle;
  - the JobRunner violations.

## Plan for later work

- State and prove action properties of the job teardown (what a step of
  `DelPostRun` may never undo).
- Model the terminating karpenter pods apart from the new ones, to reach the
  overshoot of `wait_for_karpenter_pods` (`karpenter.rs:384`).
- Model the buildpacks builder loop over several builders, and a second
  concurrent build sharing `builder_counter`.
