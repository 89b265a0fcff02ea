--------------------------- MODULE KarpenterProofs ---------------------------
(***************************************************************************)
(* Proofs about pause, restart and delete of Karpenter, for every set of   *)
(* nodes and every retry limit.                                            *)
(***************************************************************************)
EXTENDS Karpenter, TLAPS

(* The NodePool chart and the EC2NodeClass are installed and removed       *)
(* together: helm upgrade creates both, the uninstall deletes the class.   *)
ConfigMatchesClass == config <=> nodeClass = "present"

(* Karpenter removes the finalizer of a deleted EC2NodeClass only once no  *)
(* node of it is left, and provisions only under an installed NodePool.    *)
AbsentClassNoNode == nodeClass = "absent" => Listed = {}

(* Only restart goes through the scale-up, the pod wait and the install.  *)
RestartPath == pc \in {"scaleUp", "waitPods", "installConfig"} => op = "restart"

(* After the uninstall of the configuration, the class poll lets pause and *)
(* delete go on only once the EC2NodeClass is gone.                        *)
TornClassGone ==
    tornDown /\ pc \in {"scaleDown", "uninstallKarpenter"} => nodeClass = "absent"

IdleTornGone ==
    pc = "idle" /\ result = "ok" /\ op \in {"pause", "delete"} /\ tornDown
        => nodeClass = "absent"

(* An operation tears the configuration down only after its first         *)
(* listing of the nodes.                                                   *)
FreshOp == pc = "listNodes" => ~tornDown

TeardownInv ==
    /\ FreshOp /\ ConfigMatchesClass /\ AbsentClassNoNode /\ RestartPath
    /\ TornClassGone /\ IdleTornGone

KInv == TypeOK /\ TeardownInv

(* TypeOK split into its Boolean flags and the rest.                       *)
BoolsOK == tornDown \in BOOLEAN /\ installed \in BOOLEAN /\ config \in BOOLEAN

DataOK ==
    /\ pc \in {"idle", "listNodes", "uninstallConfig", "listNodes2", "patchNodes",
               "pollClasses", "scaleDown", "uninstallKarpenter", "scaleUp", "waitPods",
               "installConfig"}
    /\ op \in Ops /\ result \in {"none", "ok", "error"} /\ ops \in 0..MaxOps
    /\ toPatch \subseteq Nodes /\ nbRetry \in 0..(ClassPollLimit + 1)
    /\ podPolls \in 0..PodWaitRetries
    /\ replicas \in {0, ExpectedPods} /\ running \in 0..ExpectedPods
    /\ nodeClass \in ClassPhases
    /\ node \in [Nodes -> NodePhases] /\ drainable \subseteq Nodes

LEMMA TypeSplit == TypeOK <=> BoolsOK /\ DataOK
    BY DEF TypeOK, BoolsOK, DataOK

LEMMA InitKInv == Init => KInv
<1> SUFFICES ASSUME Init PROVE KInv
    OBVIOUS
<1> USE KarpenterAssumption
<1>1. BoolsOK
    BY Zenon DEF Init, BoolsOK
<1>2. DataOK
    <2>1. node \in [Nodes -> NodePhases]
        <3>1. \A n \in Nodes : node[n] \in NodePhases
            BY DEF Init, NodePhases
        <3>2. QED
            BY <3>1 DEF Init
    <2>2. QED
        BY <2>1 DEF Init, DataOK, NodePhases, ClassPhases, Ops
<1>3. TeardownInv
    BY DEF Init, TeardownInv, FreshOp, ConfigMatchesClass, AbsentClassNoNode, RestartPath,
           TornClassGone, IdleTornGone, Listed
<1>4. QED
    BY <1>1, <1>2, <1>3, TypeSplit DEF KInv

LEMMA KInvInductive == KInv /\ [Next]_vars => KInv'
<1> SUFFICES ASSUME KInv, [Next]_vars PROVE KInv'
    OBVIOUS
<1> USE KarpenterAssumption DEF KInv, TypeOK, TeardownInv, FreshOp, ConfigMatchesClass,
        AbsentClassNoNode, RestartPath, TornClassGone, IdleTornGone, Listed,
        NodePhases, ClassPhases, Ops, Return, AfterNodes, engineVars, clusterVars
<1>1. CASE StartOp
    <2>1. BoolsOK'
        BY <1>1, TypeSplit, Zenon DEF StartOp, BoolsOK
    <2>2. DataOK'
        BY <1>1, TypeSplit DEF StartOp, DataOK
    <2>3. TeardownInv'
        BY <1>1 DEF StartOp
    <2>4. QED
        BY <2>1, <2>2, <2>3 DEF BoolsOK, DataOK
<1>2. CASE ListNodes
    <2>1. BoolsOK'
        BY <1>2, TypeSplit, Zenon DEF ListNodes, BoolsOK
    <2>2. DataOK'
        BY <1>2, TypeSplit DEF ListNodes, DataOK
    <2>3. TeardownInv'
        BY <1>2 DEF ListNodes
    <2>4. QED
        BY <2>1, <2>2, <2>3 DEF BoolsOK, DataOK
<1>3. CASE UninstallConfig
    <2>1. BoolsOK'
        BY <1>3, TypeSplit, Zenon DEF UninstallConfig, BoolsOK
    <2>2. DataOK'
        BY <1>3, TypeSplit DEF UninstallConfig, DataOK
    <2>3. TeardownInv'
        BY <1>3 DEF UninstallConfig
    <2>4. QED
        BY <2>1, <2>2, <2>3 DEF BoolsOK, DataOK
<1>4. CASE ListNodes2
    <2>1. BoolsOK'
        BY <1>4, TypeSplit, Zenon DEF ListNodes2, BoolsOK
    <2>2. DataOK'
        BY <1>4, TypeSplit DEF ListNodes2, DataOK
    <2>3. TeardownInv'
        BY <1>4 DEF ListNodes2
    <2>4. QED
        BY <2>1, <2>2, <2>3 DEF BoolsOK, DataOK
<1>5. CASE PatchNode
    <2>1. BoolsOK'
        BY <1>5, TypeSplit, Zenon DEF PatchNode, BoolsOK
    <2>2. DataOK'
        BY <1>5, TypeSplit DEF PatchNode, DataOK
    <2>3. TeardownInv'
        BY <1>5 DEF PatchNode
    <2>4. QED
        BY <2>1, <2>2, <2>3 DEF BoolsOK, DataOK
<1>6. CASE PatchDone
    BY <1>6 DEF PatchDone
<1>7. CASE PollClasses
    BY <1>7 DEF PollClasses
<1>8. CASE ScaleDown
    BY <1>8 DEF ScaleDown
<1>9. CASE UninstallKarpenter
    BY <1>9 DEF UninstallKarpenter
<1>10. CASE ScaleUp
    BY <1>10 DEF ScaleUp
<1>11. CASE WaitPods
    BY <1>11 DEF WaitPods
<1>12. CASE InstallConfig
    <2>1. BoolsOK'
        BY <1>12, TypeSplit, Zenon DEF InstallConfig, BoolsOK
    <2>2. DataOK'
        BY <1>12, TypeSplit DEF InstallConfig, DataOK
    <2>3. TeardownInv'
        BY <1>12 DEF InstallConfig
    <2>4. QED
        BY <2>1, <2>2, <2>3 DEF BoolsOK, DataOK
<1>13. CASE PodsConverge
    BY <1>13 DEF PodsConverge
<1>14. CASE ClassFinalized
    BY <1>14 DEF ClassFinalized
<1>15. CASE \E n \in Nodes : Provision(n)
    <2> PICK n \in Nodes : Provision(n)
        BY <1>15
    <2>1. BoolsOK'
        BY TypeSplit, Zenon DEF Provision, BoolsOK
    <2>2. DataOK'
        BY TypeSplit DEF Provision, DataOK
    <2>3. TeardownInv'
        BY DEF Provision, KarpenterRuns
    <2>4. QED
        BY <2>1, <2>2, <2>3 DEF BoolsOK, DataOK
<1>16. CASE \E n \in Nodes : StartDrain(n)
    BY <1>16 DEF StartDrain, KarpenterRuns
<1>17. CASE \E n \in Nodes : DrainDone(n)
    BY <1>17 DEF DrainDone
<1>18. CASE Done \/ UNCHANGED vars
    BY <1>18 DEF Done, vars
<1>19. QED
    BY <1>1, <1>2, <1>3, <1>4, <1>5, <1>6, <1>7, <1>8, <1>9, <1>10, <1>11,
       <1>12, <1>13, <1>14, <1>15, <1>16, <1>17, <1>18
       DEF Next, Engine, Cluster

(* The type of every variable, through every operation and every cluster   *)
(* step.                                                                   *)
THEOREM KarpenterTypeCorrect == Spec => []TypeOK
<1>1. KInv => TypeOK
    BY DEF KInv
<1>2. QED
    BY <1>1, InitKInv, KInvInductive, PTL DEF Spec

(* An Ok of pause or delete that uninstalled the configuration chart       *)
(* leaves no EC2NodeClass and no node spawned by Karpenter, whatever the   *)
(* blocked drains, failed patches and failed listings did in between: the  *)
(* class poll lets the operation go on only once the class is gone, the    *)
(* class goes only once its nodes are gone, and no node is provisioned     *)
(* without the NodePool.                                                   *)
THEOREM TeardownComplete == Spec => []NodeTeardownComplete
<1>1. KInv => NodeTeardownComplete
    BY DEF KInv, TeardownInv, IdleTornGone, AbsentClassNoNode, NodeTeardownComplete
<1>2. QED
    BY <1>1, InitKInv, KInvInductive, PTL DEF Spec

=============================================================================
