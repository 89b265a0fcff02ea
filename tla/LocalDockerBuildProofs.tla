------------------------ MODULE LocalDockerBuildProofs ------------------------
(***************************************************************************)
(* Proofs about LocalDocker::build, for every number of clone and login    *)
(* retries.                                                                *)
(***************************************************************************)
EXTENDS LocalDockerBuild, TLAPS

(* The scopeguard is armed from the abort check after the clone until the  *)
(* return, and the return after a clone ran the cleanup.                   *)
GuardInv ==
    /\ cloned => pc \notin {"start", "cleanOld", "clone"}
    /\ cloned /\ pc \notin {"afterClone", "done"} => guard
    /\ pc = "done" /\ cloned => cleaned

(* TypeOK with the request's six flags one by one: the flags, and the     *)
(* control state with the counters.                                        *)
FlagsOK ==
    /\ hasLfs \in BOOLEAN /\ lfsTooBig \in BOOLEAN /\ useDocker \in BOOLEAN
    /\ imageExists \in BOOLEAN /\ privateRegistry \in BOOLEAN /\ builderUp \in BOOLEAN
    /\ guard \in BOOLEAN /\ cloned \in BOOLEAN /\ cleaned \in BOOLEAN
    /\ lfsFetched \in BOOLEAN /\ imageBuilt \in BOOLEAN /\ cancel \in BOOLEAN
    /\ deadlinePassed \in BOOLEAN

DataOK ==
    /\ pc \in PCs /\ result \in Results /\ dir \in DirStates
    /\ cloneTries \in 0..CloneRetries /\ loginTries \in 0..LoginRetries

TypeFlat == FlagsOK /\ DataOK

LEMMA TypeFlatOK == TypeFlat <=> TypeOK
    BY DEF TypeFlat, FlagsOK, DataOK, TypeOK, inputs

CInv == TypeFlat /\ GuardInv

(* A step that leaves the request alone leaves each of its flags alone.    *)
LEMMA InputsUnchanged ==
    ASSUME UNCHANGED inputs
    PROVE  /\ hasLfs' = hasLfs /\ lfsTooBig' = lfsTooBig /\ useDocker' = useDocker
           /\ imageExists' = imageExists /\ privateRegistry' = privateRegistry
           /\ builderUp' = builderUp
    BY DEF inputs

(* Every step before the clone leaves the clone flag down, and every       *)
(* return once the guard is armed runs the cleanup.                        *)
LEMMA CInvInductive == CInv /\ [Next]_vars => CInv'
<1> SUFFICES ASSUME CInv, [Next]_vars PROVE CInv'
    OBVIOUS
<1> USE RetriesAssumption
<1>1. CASE Start
    <2>1. TypeFlat'
        <3>1. FlagsOK'
            BY <1>1, InputsUnchanged, ZenonT(120) DEF Start, Ret, Goto, CInv, TypeFlat, FlagsOK
        <3>2. DataOK'
            BY <1>1 DEF Start, Ret, Goto, CInv, TypeFlat, DataOK, PCs, Results, DirStates
        <3>3. QED
            BY <3>1, <3>2 DEF TypeFlat
    <2>2. GuardInv'
        BY <1>1 DEF Start, Ret, Goto, CInv, GuardInv
    <2>3. QED
        BY <2>1, <2>2 DEF CInv
<1>2. CASE CleanOld
    <2>1. TypeFlat'
        <3>1. FlagsOK'
            BY <1>2, InputsUnchanged, ZenonT(120) DEF CleanOld, Ret, Goto, CInv, TypeFlat, FlagsOK
        <3>2. DataOK'
            BY <1>2 DEF CleanOld, Ret, Goto, CInv, TypeFlat, DataOK, PCs, Results, DirStates
        <3>3. QED
            BY <3>1, <3>2 DEF TypeFlat
    <2>2. GuardInv'
        BY <1>2 DEF CleanOld, Ret, Goto, CInv, GuardInv
    <2>3. QED
        BY <2>1, <2>2 DEF CInv
<1>3. CASE Clone
    <2>1. TypeFlat'
        <3>1. FlagsOK'
            BY <1>3, InputsUnchanged, ZenonT(120) DEF Clone, Ret, Goto, CInv, TypeFlat, FlagsOK
        <3>2. DataOK'
            BY <1>3 DEF Clone, Ret, Goto, CInv, TypeFlat, DataOK, PCs, Results, DirStates
        <3>3. QED
            BY <3>1, <3>2 DEF TypeFlat
    <2>2. GuardInv'
        BY <1>3 DEF Clone, Ret, Goto, CInv, GuardInv
    <2>3. QED
        BY <2>1, <2>2 DEF CInv
<1>4. CASE AfterClone
    <2>1. TypeFlat'
        <3>1. FlagsOK'
            BY <1>4, InputsUnchanged, ZenonT(120) DEF AfterClone, Goto, CInv, TypeFlat, FlagsOK
        <3>2. DataOK'
            BY <1>4 DEF AfterClone, Goto, CInv, TypeFlat, DataOK, PCs, Results, DirStates
        <3>3. QED
            BY <3>1, <3>2 DEF TypeFlat
    <2>2. GuardInv'
        BY <1>4 DEF AfterClone, Goto, CInv, GuardInv
    <2>3. QED
        BY <2>1, <2>2 DEF CInv
<1>5. CASE LfsEstimate
    <2>1. TypeFlat'
        <3>1. FlagsOK'
            BY <1>5, InputsUnchanged, ZenonT(120) DEF LfsEstimate, Ret, Goto, CInv, TypeFlat, FlagsOK
        <3>2. DataOK'
            BY <1>5 DEF LfsEstimate, Ret, Goto, CInv, TypeFlat, DataOK, PCs, Results, DirStates
        <3>3. QED
            BY <3>1, <3>2 DEF TypeFlat
    <2>2. GuardInv'
        BY <1>5 DEF LfsEstimate, Ret, Goto, CInv, GuardInv
    <2>3. QED
        BY <2>1, <2>2 DEF CInv
<1>6. CASE LfsCheckout
    <2>1. TypeFlat'
        <3>1. FlagsOK'
            BY <1>6, InputsUnchanged, ZenonT(120) DEF LfsCheckout, Ret, Goto, CInv, TypeFlat, FlagsOK
        <3>2. DataOK'
            BY <1>6 DEF LfsCheckout, Ret, Goto, CInv, TypeFlat, DataOK, PCs, Results, DirStates
        <3>3. QED
            BY <3>1, <3>2 DEF TypeFlat
    <2>2. GuardInv'
        BY <1>6 DEF LfsCheckout, Ret, Goto, CInv, GuardInv
    <2>3. QED
        BY <2>1, <2>2 DEF CInv
<1>7. CASE Context
    <2>1. TypeFlat'
        <3>1. FlagsOK'
            BY <1>7, InputsUnchanged, ZenonT(120) DEF Context, Ret, Goto, CInv, TypeFlat, FlagsOK
        <3>2. DataOK'
            BY <1>7 DEF Context, Ret, Goto, CInv, TypeFlat, DataOK, PCs, Results, DirStates
        <3>3. QED
            BY <3>1, <3>2 DEF TypeFlat
    <2>2. GuardInv'
        BY <1>7 DEF Context, Ret, Goto, CInv, GuardInv
    <2>3. QED
        BY <2>1, <2>2 DEF CInv
<1>8. CASE Dockerfile
    <2>1. TypeFlat'
        <3>1. FlagsOK'
            BY <1>8, InputsUnchanged, ZenonT(120) DEF Dockerfile, Ret, Goto, CInv, TypeFlat, FlagsOK
        <3>2. DataOK'
            BY <1>8 DEF Dockerfile, Ret, Goto, CInv, TypeFlat, DataOK, PCs, Results, DirStates
        <3>3. QED
            BY <3>1, <3>2 DEF TypeFlat
    <2>2. GuardInv'
        BY <1>8 DEF Dockerfile, Ret, Goto, CInv, GuardInv
    <2>3. QED
        BY <2>1, <2>2 DEF CInv
<1>9. CASE ExistsRemote
    <2>1. TypeFlat'
        <3>1. FlagsOK'
            BY <1>9, InputsUnchanged, ZenonT(120) DEF ExistsRemote, Ret, Goto, CInv, TypeFlat, FlagsOK
        <3>2. DataOK'
            BY <1>9 DEF ExistsRemote, Ret, Goto, CInv, TypeFlat, DataOK, PCs, Results, DirStates
        <3>3. QED
            BY <3>1, <3>2 DEF TypeFlat
    <2>2. GuardInv'
        BY <1>9 DEF ExistsRemote, Ret, Goto, CInv, GuardInv
    <2>3. QED
        BY <2>1, <2>2 DEF CInv
<1>10. CASE Login
    <2>1. TypeFlat'
        <3>1. FlagsOK'
            BY <1>10, InputsUnchanged, ZenonT(120) DEF Login, Ret, Goto, CInv, TypeFlat, FlagsOK
        <3>2. DataOK'
            BY <1>10 DEF Login, Ret, Goto, CInv, TypeFlat, DataOK, PCs, Results, DirStates
        <3>3. QED
            BY <3>1, <3>2 DEF TypeFlat
    <2>2. GuardInv'
        BY <1>10 DEF Login, Ret, Goto, CInv, GuardInv
    <2>3. QED
        BY <2>1, <2>2 DEF CInv
<1>11. CASE Provision
    <2>1. TypeFlat'
        <3>1. FlagsOK'
            BY <1>11, InputsUnchanged, ZenonT(120) DEF Provision, Ret, Goto, CInv, TypeFlat, FlagsOK
        <3>2. DataOK'
            BY <1>11 DEF Provision, Ret, Goto, CInv, TypeFlat, DataOK, PCs, Results, DirStates
        <3>3. QED
            BY <3>1, <3>2 DEF TypeFlat
    <2>2. GuardInv'
        BY <1>11 DEF Provision, Ret, Goto, CInv, GuardInv
    <2>3. QED
        BY <2>1, <2>2 DEF CInv
<1>12. CASE DockerBuild
    <2>1. TypeFlat'
        <3>1. FlagsOK'
            BY <1>12, InputsUnchanged, ZenonT(120) DEF DockerBuild, Ret, Goto, CInv, TypeFlat, FlagsOK
        <3>2. DataOK'
            BY <1>12 DEF DockerBuild, Ret, Goto, CInv, TypeFlat, DataOK, PCs, Results, DirStates
        <3>3. QED
            BY <3>1, <3>2 DEF TypeFlat
    <2>2. GuardInv'
        BY <1>12 DEF DockerBuild, Ret, Goto, CInv, GuardInv
    <2>3. QED
        BY <2>1, <2>2 DEF CInv
<1>13. CASE Buildpacks
    <2>1. TypeFlat'
        <3>1. FlagsOK'
            BY <1>13, InputsUnchanged, ZenonT(120) DEF Buildpacks, Ret, Goto, CInv, TypeFlat, FlagsOK
        <3>2. DataOK'
            BY <1>13 DEF Buildpacks, Ret, Goto, CInv, TypeFlat, DataOK, PCs, Results, DirStates
        <3>3. QED
            BY <3>1, <3>2 DEF TypeFlat
    <2>2. GuardInv'
        BY <1>13 DEF Buildpacks, Ret, Goto, CInv, GuardInv
    <2>3. QED
        BY <2>1, <2>2 DEF CInv
<1>14. CASE RequestCancel \/ Tick \/ Terminated \/ UNCHANGED vars
    <2>1. UNCHANGED <<inputs, engine, dir, cloned, cleaned, lfsFetched, imageBuilt>>
        BY <1>14 DEF RequestCancel, Tick, Terminated, vars, effects
    <2>2. cancel' \in BOOLEAN /\ deadlinePassed' \in BOOLEAN
        BY <1>14 DEF RequestCancel, Tick, Terminated, vars, effects, CInv, TypeFlat, FlagsOK
    <2>3. FlagsOK'
        BY <2>1, <2>2, InputsUnchanged DEF engine, CInv, TypeFlat, FlagsOK
    <2>4. DataOK' /\ GuardInv'
        BY <2>1 DEF engine, CInv, TypeFlat, DataOK, GuardInv
    <2>5. QED
        BY <2>3, <2>4 DEF CInv, TypeFlat
<1>15. QED
    BY <1>1, <1>2, <1>3, <1>4, <1>5, <1>6, <1>7, <1>8, <1>9, <1>10, <1>11, <1>12,
       <1>13, <1>14 DEF Next, Engine

(* build starts before the clone, with the guard disarmed.                 *)
LEMMA InitCInv == Init => CInv
<1> SUFFICES ASSUME Init PROVE CInv
    OBVIOUS
<1>1. FlagsOK
    BY Zenon DEF Init, FlagsOK
<1>2. DataOK
    BY RetriesAssumption DEF Init, DataOK, PCs, Results, DirStates
<1>3. GuardInv
    BY DEF Init, GuardInv
<1>4. QED
    BY <1>1, <1>2, <1>3 DEF CInv, TypeFlat

(* Every state of build is well typed: in particular the clone and login   *)
(* retry counters stay within Fixed(10s).take(3) and Fibonacci.take(4).    *)
THEOREM BuildTypeCorrect == Spec => []TypeOK
<1>1. CInv => TypeOK
    BY TypeFlatOK DEF CInv
<1>2. QED
    BY <1>1, InitCInv, CInvInductive, PTL DEF Spec

(* The scopeguard of build: for every number of retries, each return after *)
(* a successful clone, the abort right after it included, runs the         *)
(* removal of the repository.                                              *)
THEOREM CleanupRuns == Spec => []CleanupAfterClone
<1>1. CInv => CleanupAfterClone
    BY DEF CInv, GuardInv, CleanupAfterClone
<1>2. QED
    BY <1>1, InitCInv, CInvInductive, PTL DEF Spec

=============================================================================
