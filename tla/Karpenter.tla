------------------------------ MODULE Karpenter ------------------------------
(***************************************************************************)
(* Pause, restart and delete of the Karpenter node autoscaler of an EKS    *)
(* cluster (src/src/infrastructure/action/eks/karpenter.rs), run one after *)
(* the other by the infrastructure engine, against the cluster: the        *)
(* karpenter deployment and its pods, the karpenter-configuration chart    *)
(* (NodePool and EC2NodeClass), and the nodes Karpenter spawns.            *)
(*                                                                         *)
(* The cluster side: while the configuration is installed and a karpenter  *)
(* pod runs, Karpenter may provision a node for pending workloads; once    *)
(* the NodePool is gone it drains its nodes (a PodDisruptionBudget may     *)
(* block a drain forever); the finalizer of a deleted EC2NodeClass is      *)
(* removed by Karpenter once none of its nodes is left.                    *)
(***************************************************************************)
EXTENDS Naturals, FiniteSets

CONSTANTS
    Nodes,          \* nodes Karpenter may spawn
    MaxOps,         \* bound on the operations the engine runs
    ClassPollLimit, \* the loop breaks once nb_retry > ClassPollLimit (20)
    PodWaitRetries, \* Fixed(10s).take(PodWaitRetries) in wait_for_karpenter_pods (10)
    ExpectedPods    \* KARPENTER_EXPECTED_POD_COUNT (2)

ASSUME KarpenterAssumption ==
    /\ IsFiniteSet(Nodes)
    /\ MaxOps \in Nat /\ ClassPollLimit \in Nat /\ PodWaitRetries \in Nat
    /\ ExpectedPods \in Nat \ {0}

Ops == {"pause", "restart", "delete"}
NodePhases == {"none", "ready", "draining", "gone"}
ClassPhases == {"absent", "present", "deleting"}

VARIABLES
    \* the engine
    pc,          \* "idle" between operations
    op,          \* the operation running, or the last one
    result,      \* what it returned: "none", "ok" or "error"
    ops,         \* operations started
    toPatch,     \* nodes of the second listing whose finalizers are removed
    nbRetry,     \* nb_retry of the EC2NodeClass wait
    podPolls,    \* attempts of wait_for_karpenter_pods
    tornDown,    \* the configuration chart was uninstalled by this operation
    \* the cluster
    installed,   \* the karpenter chart (deployment) is installed
    replicas,    \* replicas of the karpenter deployment
    running,     \* karpenter pods in phase Running
    config,      \* the karpenter-configuration release is installed (NodePool)
    nodeClass,   \* the EC2NodeClass
    node,        \* phase of each node spawned by Karpenter
    drainable    \* the nodes whose drain no PodDisruptionBudget blocks

engineVars == <<pc, op, result, ops, toPatch, nbRetry, podPolls, tornDown>>
clusterVars == <<installed, replicas, running, config, nodeClass, node, drainable>>
vars == <<engineVars, clusterVars>>

-----------------------------------------------------------------------------
(* The nodes the label selector karpenter.sh/nodepool lists.              *)
Listed == {n \in Nodes : node[n] \in {"ready", "draining"}}

(* Karpenter::is_paused: the deployment exists and it has spawned no node. *)
IsPaused == installed /\ Listed = {}

Return(r) == pc' = "idle" /\ result' = r

Init ==
    /\ pc = "idle" /\ op = "pause" /\ result = "none" /\ ops = 0
    /\ toPatch = {} /\ nbRetry = 0 /\ podPolls = 0 /\ tornDown = FALSE
    /\ installed = TRUE
    /\ replicas \in {0, ExpectedPods}
    /\ running = replicas
    /\ config \in BOOLEAN
    /\ nodeClass = IF config THEN "present" ELSE "absent"
    /\ node \in [Nodes -> IF config /\ replicas > 0 THEN {"none", "ready"} ELSE {"none"}]
    /\ drainable \in SUBSET Nodes

(* The infrastructure engine calls pause, restart or delete.              *)
StartOp ==
    /\ pc = "idle"
    /\ ops < MaxOps
    /\ \E o \in Ops :
          /\ op' = o
          /\ pc' = IF o = "restart" THEN "scaleUp" ELSE "listNodes"
    /\ ops' = ops + 1
    /\ result' = "none"
    /\ tornDown' = FALSE
    /\ UNCHANGED <<toPatch, nbRetry, podPolls, clusterVars>>

(* The step after delete_nodes_spawned_by_karpenter returned Ok.           *)
AfterNodes == IF op = "pause" THEN "scaleDown" ELSE "uninstallKarpenter"

(* Missing karpenter parameters or a failed listing return an error; no   *)
(* node returns Ok at once, without touching the configuration.            *)
ListNodes ==
    /\ pc = "listNodes"
    /\ \/ Return("error")
       \/ Listed = {} /\ pc' = AfterNodes /\ UNCHANGED result
       \/ Listed # {} /\ pc' = "uninstallConfig" /\ UNCHANGED result
    /\ UNCHANGED <<op, ops, toPatch, nbRetry, podPolls, tornDown, clusterVars>>

(* Uninstall the karpenter-configuration chart with the drain timeout; an  *)
(* error (a blocking PDB makes the wait time out) is only logged.          *)
UninstallConfig ==
    /\ pc = "uninstallConfig"
    /\ \/ /\ config' = FALSE
          /\ nodeClass' = IF nodeClass = "absent" THEN "absent" ELSE "deleting"
       \/ UNCHANGED <<config, nodeClass>>
    /\ pc' = "listNodes2"
    /\ tornDown' = TRUE
    /\ UNCHANGED <<op, result, ops, toPatch, nbRetry, podPolls,
                   installed, replicas, running, node, drainable>>

(* List the nodes again (an error returns) to remove their finalizers.     *)
ListNodes2 ==
    /\ pc = "listNodes2"
    /\ \/ Return("error") /\ UNCHANGED toPatch
       \/ toPatch' = Listed /\ pc' = "patchNodes" /\ UNCHANGED result
    /\ UNCHANGED <<op, ops, nbRetry, podPolls, tornDown, clusterVars>>

(* Remove the finalizers of one listed node: a node being drained is      *)
(* released at once; an error is only logged.                             *)
PatchNode ==
    /\ pc = "patchNodes"
    /\ \E n \in toPatch :
          /\ toPatch' = toPatch \ {n}
          /\ \/ node[n] = "draining" /\ node' = [node EXCEPT ![n] = "gone"]
             \/ UNCHANGED node
    /\ UNCHANGED <<pc, op, result, ops, nbRetry, podPolls, tornDown,
                   installed, replicas, running, config, nodeClass, drainable>>

PatchDone ==
    /\ pc = "patchNodes"
    /\ toPatch = {}
    /\ pc' = "pollClasses"
    /\ nbRetry' = 0
    /\ UNCHANGED <<op, result, ops, toPatch, podPolls, tornDown, clusterVars>>

(* Mutant: the last listing is returned as Ok whatever it holds.          *)
PollClassesNoCheck ==
    /\ pc = "pollClasses"
    /\ \/ nbRetry > ClassPollLimit /\ Return("error") /\ UNCHANGED nbRetry
       \/ nbRetry > ClassPollLimit /\ pc' = AfterNodes /\ UNCHANGED <<result, nbRetry>>
       \/ nbRetry <= ClassPollLimit /\ nodeClass = "absent" /\ pc' = AfterNodes
          /\ UNCHANGED <<result, nbRetry>>
       \/ nbRetry <= ClassPollLimit /\ nbRetry' = nbRetry + 1 /\ UNCHANGED <<pc, result>>
    /\ UNCHANGED <<op, ops, toPatch, podPolls, tornDown, clusterVars>>

(* Mutant: the retry test is off by one and the wait runs once more.      *)
PollClassesRetryPastLimit ==
    /\ pc = "pollClasses"
    /\ \/ nbRetry > ClassPollLimit + 1 /\ Return("error") /\ UNCHANGED nbRetry
       \/ nbRetry > ClassPollLimit + 1 /\ nodeClass = "absent" /\ pc' = AfterNodes
          /\ UNCHANGED <<result, nbRetry>>
       \/ nbRetry <= ClassPollLimit + 1 /\ nodeClass = "absent" /\ pc' = AfterNodes
          /\ UNCHANGED <<result, nbRetry>>
       \/ nbRetry <= ClassPollLimit + 1 /\ nbRetry' = nbRetry + 1 /\ UNCHANGED <<pc, result>>
    /\ UNCHANGED <<op, ops, toPatch, podPolls, tornDown, clusterVars>>

(* One get of the EC2NodeClasses: past the limit its result is final (an   *)
(* error, or a class left, fails the operation); before, an empty list     *)
(* ends the wait and anything else sleeps 30 s and retries.                *)
PollClasses ==
    /\ pc = "pollClasses"
    /\ \/ nbRetry > ClassPollLimit /\ Return("error") /\ UNCHANGED nbRetry
       \/ nbRetry > ClassPollLimit /\ nodeClass = "absent" /\ pc' = AfterNodes
          /\ UNCHANGED <<result, nbRetry>>
       \/ nbRetry <= ClassPollLimit /\ nodeClass = "absent" /\ pc' = AfterNodes
          /\ UNCHANGED <<result, nbRetry>>
       \/ nbRetry <= ClassPollLimit /\ nbRetry' = nbRetry + 1 /\ UNCHANGED <<pc, result>>
    /\ UNCHANGED <<op, ops, toPatch, podPolls, tornDown, clusterVars>>

(* pause: scale the karpenter deployment to 0 replicas.                    *)
ScaleDown ==
    /\ pc = "scaleDown"
    /\ \/ replicas' = 0 /\ Return("ok")
       \/ Return("error") /\ UNCHANGED replicas
    /\ UNCHANGED <<op, ops, toPatch, nbRetry, podPolls, tornDown,
                   installed, running, config, nodeClass, node, drainable>>

(* delete: uninstall the karpenter chart; an error is only logged.         *)
UninstallKarpenter ==
    /\ pc = "uninstallKarpenter"
    /\ \/ installed' = FALSE /\ replicas' = 0
       \/ UNCHANGED <<installed, replicas>>
    /\ Return("ok")
    /\ UNCHANGED <<op, ops, toPatch, nbRetry, podPolls, tornDown,
                   running, config, nodeClass, node, drainable>>

(* restart: scale the deployment back to the expected pod count.           *)
ScaleUp ==
    /\ pc = "scaleUp"
    /\ \/ installed /\ replicas' = ExpectedPods /\ pc' = "waitPods" /\ podPolls' = 0
          /\ UNCHANGED result
       \/ Return("error") /\ UNCHANGED <<replicas, podPolls>>
    /\ UNCHANGED <<op, ops, toPatch, nbRetry, tornDown,
                   installed, running, config, nodeClass, node, drainable>>

(* One attempt of wait_for_karpenter_pods: exactly the expected number of  *)
(* running pods ends it; otherwise (or on a kubectl error) it retries      *)
(* until the delays are spent.                                             *)
WaitPods ==
    /\ pc = "waitPods"
    /\ \/ running = ExpectedPods /\ pc' = "installConfig" /\ UNCHANGED <<result, podPolls>>
       \/ podPolls < PodWaitRetries /\ podPolls' = podPolls + 1 /\ UNCHANGED <<pc, result>>
       \/ podPolls = PodWaitRetries /\ Return("error") /\ UNCHANGED podPolls
    /\ UNCHANGED <<op, ops, toPatch, nbRetry, tornDown, clusterVars>>

(* helm upgrade of the karpenter-configuration chart; an error returns.    *)
InstallConfig ==
    /\ pc = "installConfig"
    /\ \/ config' = TRUE /\ nodeClass' = "present" /\ Return("ok")
       \/ Return("error") /\ UNCHANGED <<config, nodeClass>>
    /\ UNCHANGED <<op, ops, toPatch, nbRetry, podPolls, tornDown,
                   installed, replicas, running, node, drainable>>

Engine ==
    \/ StartOp \/ ListNodes \/ UninstallConfig \/ ListNodes2 \/ PatchNode \/ PatchDone
    \/ PollClasses \/ ScaleDown \/ UninstallKarpenter \/ ScaleUp \/ WaitPods
    \/ InstallConfig

-----------------------------------------------------------------------------
(* The cluster.                                                            *)
PodsConverge ==
    /\ \/ running < replicas /\ installed /\ running' = running + 1
       \/ running > replicas /\ running' = running - 1
       \/ ~installed /\ running > 0 /\ running' = 0
    /\ UNCHANGED <<engineVars, installed, replicas, config, nodeClass, node, drainable>>

KarpenterRuns == running > 0

Provision(n) ==
    /\ KarpenterRuns /\ config /\ nodeClass = "present"
    /\ node[n] = "none"
    /\ node' = [node EXCEPT ![n] = "ready"]
    /\ UNCHANGED <<engineVars, installed, replicas, running, config, nodeClass, drainable>>

StartDrain(n) ==
    /\ KarpenterRuns /\ ~config
    /\ node[n] = "ready"
    /\ node' = [node EXCEPT ![n] = "draining"]
    /\ UNCHANGED <<engineVars, installed, replicas, running, config, nodeClass, drainable>>

DrainDone(n) ==
    /\ node[n] = "draining" /\ n \in drainable
    /\ node' = [node EXCEPT ![n] = "gone"]
    /\ UNCHANGED <<engineVars, installed, replicas, running, config, nodeClass, drainable>>

ClassFinalized ==
    /\ nodeClass = "deleting" /\ KarpenterRuns /\ Listed = {}
    /\ nodeClass' = "absent"
    /\ UNCHANGED <<engineVars, installed, replicas, running, config, node, drainable>>

Cluster ==
    \/ PodsConverge \/ ClassFinalized
    \/ \E n \in Nodes : Provision(n) \/ StartDrain(n) \/ DrainDone(n)

Done == pc = "idle" /\ ops = MaxOps /\ UNCHANGED vars

Next == Engine \/ Cluster \/ Done

Spec == Init /\ [][Next]_vars

-----------------------------------------------------------------------------
TypeOK ==
    /\ pc \in {"idle", "listNodes", "uninstallConfig", "listNodes2", "patchNodes",
               "pollClasses", "scaleDown", "uninstallKarpenter", "scaleUp", "waitPods",
               "installConfig"}
    /\ op \in Ops /\ result \in {"none", "ok", "error"} /\ ops \in 0..MaxOps
    /\ toPatch \subseteq Nodes /\ nbRetry \in 0..(ClassPollLimit + 1)
    /\ podPolls \in 0..PodWaitRetries /\ tornDown \in BOOLEAN
    /\ installed \in BOOLEAN /\ replicas \in {0, ExpectedPods}
    /\ running \in 0..ExpectedPods /\ config \in BOOLEAN /\ nodeClass \in ClassPhases
    /\ node \in [Nodes -> NodePhases] /\ drainable \subseteq Nodes

(* delete_nodes_spawned_by_karpenter, when it went through the uninstall   *)
(* of the configuration: an Ok of pause or delete means the EC2NodeClass   *)
(* is gone and no Karpenter node is left, whatever the drains, the failed  *)
(* patches and the failed listings did in between.                         *)
NodeTeardownComplete ==
    pc = "idle" /\ result = "ok" /\ op \in {"pause", "delete"} /\ tornDown =>
        /\ nodeClass = "absent"
        /\ Listed = {}

(* Karpenter::is_paused defines a paused cluster as one with no node       *)
(* spawned by Karpenter: a pause that returned Ok leaves the cluster       *)
(* paused.  When the first listing is empty, pause keeps the NodePool and  *)
(* only scales the deployment down, and Karpenter may provision a node in  *)
(* between.                                                                *)
PausedAfterPause ==
    pc = "idle" /\ result = "ok" /\ op = "pause" => IsPaused

=============================================================================
