--------------------------- MODULE LocalDockerBuild ---------------------------
(***************************************************************************)
(* LocalDocker::build (src/src/build_platform/local_docker.rs): clone the  *)
(* repository at its commit, fetch its git-lfs files, check the build      *)
(* context, then build the image with docker (build_image_with_docker and  *)
(* provision_builder) or with buildpacks (build_image_with_buildpacks).    *)
(*                                                                         *)
(* The user may cancel the deployment at any time; build reads the abort   *)
(* status before and after the clone, provision_builder reads it after a   *)
(* failed spawn, and the commands (git-lfs, docker build, pack) are killed *)
(* by a CommandKiller that watches it.  The 10-minute deadline of          *)
(* provision_builder passes at some point.  The repository, the registry   *)
(* and the builder cluster are chosen in Init.                             *)
(***************************************************************************)
EXTENDS Naturals

CONSTANTS
    CloneRetries,   \* Fixed(10s).take(3) around git::clone_at_commit
    LoginRetries    \* Fibonacci(1s).take(4) around docker login

ASSUME RetriesAssumption == CloneRetries \in Nat /\ LoginRetries \in Nat

Results == {"none", "ok", "aborted", "gitError", "ioError", "invalidConfig",
            "credentialsError", "dockerError", "buildpackError"}
DirStates == {"absent", "partial", "cloned"}
PCs == {"start", "cleanOld", "clone", "afterClone", "lfsEstimate", "lfsCheckout",
        "context", "dockerfile", "existsRemote", "login", "provision", "dockerBuild",
        "buildpacks", "done"}

VARIABLES
    \* the build request and what the outside world holds
    hasLfs,          \* the commit has git-lfs files
    lfsTooBig,       \* their size estimate is over MAX_GIT_LFS_SIZE_KB
    useDocker,       \* git_repository.dockerfile_path is set
    imageExists,     \* the image is already in the registry
    privateRegistry, \* a registry of build.registries has a password
    builderUp,       \* the cluster can run a buildx builder
    \* the engine
    pc,
    result,
    cloneTries,      \* retries of the clone made
    loginTries,      \* retries of the login made
    guard,           \* the scopeguard _git_cleanup is armed
    \* the effects
    dir,             \* the repository_root_path directory
    cloned,          \* a clone succeeded
    cleaned,         \* the scopeguard ran remove_dir_all
    lfsFetched,      \* the git-lfs files were checked out
    imageBuilt,      \* an image was built and pushed
    cancel,          \* abort.status().should_cancel()
    deadlinePassed   \* Instant::now() >= deadline of provision_builder

inputs == <<hasLfs, lfsTooBig, useDocker, imageExists, privateRegistry, builderUp>>
engine == <<pc, result, cloneTries, loginTries, guard>>
effects == <<dir, cloned, cleaned, lfsFetched, imageBuilt, cancel, deadlinePassed>>
vars == <<inputs, engine, effects>>

-----------------------------------------------------------------------------
(* Every return: once the scopeguard is armed, dropping it removes the     *)
(* repository and ignores the error of the removal.                        *)
Ret(r) ==
    /\ pc' = "done"
    /\ result' = r
    /\ IF guard THEN cleaned' = TRUE /\ dir' \in {"absent", dir}
                ELSE UNCHANGED <<cleaned, dir>>

Goto(l) == pc' = l /\ UNCHANGED <<result, cleaned, dir>>

Init ==
    /\ hasLfs \in BOOLEAN /\ lfsTooBig \in BOOLEAN /\ useDocker \in BOOLEAN
    /\ imageExists \in BOOLEAN /\ privateRegistry \in BOOLEAN /\ builderUp \in BOOLEAN
    /\ pc = "start" /\ result = "none" /\ cloneTries = 0 /\ loginTries = 0
    /\ guard = FALSE
    /\ dir \in DirStates
    /\ cloned = FALSE /\ cleaned = FALSE /\ lfsFetched = FALSE /\ imageBuilt = FALSE
    /\ cancel = FALSE /\ deadlinePassed = FALSE

(* The abort check, then the repository path (an error returns).           *)
Start ==
    /\ pc = "start"
    /\ \/ cancel /\ Ret("aborted")
       \/ ~cancel /\ Ret("ioError")
       \/ ~cancel /\ Goto("cleanOld")
    /\ UNCHANGED <<inputs, cloneTries, loginTries, guard, cloned, lfsFetched, imageBuilt,
                   cancel, deadlinePassed>>

(* A directory left by an earlier clone is removed first; an error returns. *)
CleanOld ==
    /\ pc = "cleanOld"
    /\ \/ dir = "absent" /\ Goto("clone")
       \/ dir # "absent" /\ pc' = "clone" /\ dir' = "absent" /\ UNCHANGED <<result, cleaned>>
       \/ dir # "absent" /\ Ret("ioError")
    /\ UNCHANGED <<inputs, cloneTries, loginTries, guard, cloned, lfsFetched, imageBuilt,
                   cancel, deadlinePassed>>

(* One attempt of git::clone_at_commit: an Os, Ssl or timed-out Net error  *)
(* is retried while delays are left; any other error returns.  A failed    *)
(* attempt may leave a partial directory.                                  *)
Clone ==
    /\ pc = "clone"
    /\ \/ /\ pc' = "afterClone" /\ dir' = "cloned" /\ cloned' = TRUE
          /\ UNCHANGED <<result, cleaned, cloneTries>>
       \/ /\ cloneTries < CloneRetries
          /\ cloneTries' = cloneTries + 1
          /\ dir' \in {"absent", "partial"}
          /\ UNCHANGED <<pc, result, cleaned, cloned>>
       \/ /\ Ret("gitError") /\ UNCHANGED <<cloneTries, cloned>>
          /\ dir' \in {"absent", "partial"}
    /\ UNCHANGED <<inputs, loginTries, guard, lfsFetched, imageBuilt, cancel, deadlinePassed>>

(* Mutant: the abort check returns before the scopeguard is armed.        *)
AfterCloneGuardLate ==
    /\ pc = "afterClone"
    /\ \/ cancel /\ Ret("aborted") /\ UNCHANGED guard
       \/ ~cancel /\ guard' = TRUE /\ Goto("lfsEstimate")
    /\ UNCHANGED <<inputs, cloneTries, loginTries, cloned, lfsFetched, imageBuilt,
                   cancel, deadlinePassed>>

(* Arm the scopeguard that removes the repository, then the abort check.   *)
AfterClone ==
    /\ pc = "afterClone"
    /\ guard' = TRUE
    /\ \/ cancel /\ pc' = "done" /\ result' = "aborted"
          /\ cleaned' = TRUE /\ dir' \in {"absent", dir}
       \/ ~cancel /\ Goto("lfsEstimate")
    /\ UNCHANGED <<inputs, cloneTries, loginTries, cloned, lfsFetched, imageBuilt,
                   cancel, deadlinePassed>>

(* files_size_estimate_in_kb(...).unwrap_or(0): an error, or a kill by the *)
(* CommandKiller, reads as no git-lfs file.                                *)
LfsEstimate ==
    /\ pc = "lfsEstimate"
    /\ \/ hasLfs /\ lfsTooBig /\ Ret("invalidConfig")
       \/ hasLfs /\ ~lfsTooBig /\ Goto("lfsCheckout")
       \/ Goto("context")
    /\ UNCHANGED <<inputs, cloneTries, loginTries, guard, cloned, lfsFetched, imageBuilt,
                   cancel, deadlinePassed>>

(* checkout_files_for_commit: a kill or a timeout returns Aborted, an      *)
(* execution or exit-status error an IoError.                              *)
LfsCheckout ==
    /\ pc = "lfsCheckout"
    /\ \/ lfsFetched' = TRUE /\ Goto("context")
       \/ Ret("aborted") /\ UNCHANGED lfsFetched
       \/ Ret("ioError") /\ UNCHANGED lfsFetched
    /\ UNCHANGED <<inputs, cloneTries, loginTries, guard, cloned, imageBuilt,
                   cancel, deadlinePassed>>

(* The build context is a directory inside the repository; then docker or  *)
(* buildpacks.                                                             *)
Context ==
    /\ pc = "context"
    /\ \/ Ret("invalidConfig")
       \/ Goto(IF useDocker THEN "dockerfile" ELSE "buildpacks")
    /\ UNCHANGED <<inputs, cloneTries, loginTries, guard, cloned, lfsFetched, imageBuilt,
                   cancel, deadlinePassed>>

(* Write the provided Dockerfile and .dockerignore, check the Dockerfile   *)
(* exists, read it and extract its ARGs; each error returns.              *)
Dockerfile ==
    /\ pc = "dockerfile"
    /\ \/ Ret("ioError")
       \/ Ret("invalidConfig")
       \/ Goto("existsRemote")
    /\ UNCHANGED <<inputs, cloneTries, loginTries, guard, cloned, lfsFetched, imageBuilt,
                   cancel, deadlinePassed>>

(* does_image_exist_remotely: Ok(true) skips the build; an error builds.   *)
ExistsRemote ==
    /\ pc = "existsRemote"
    /\ \/ imageExists /\ Ret("ok") /\ UNCHANGED loginTries
       \/ pc' = "login" /\ loginTries' = 0 /\ UNCHANGED <<result, cleaned, dir>>
    /\ UNCHANGED <<inputs, cloneTries, guard, cloned, lfsFetched, imageBuilt,
                   cancel, deadlinePassed>>

(* Mutant: the retry loop allows one more delay than Fibonacci.take(4).   *)
LoginRetryPastLimit ==
    /\ pc = "login"
    /\ \/ ~privateRegistry /\ Goto("provision") /\ UNCHANGED loginTries
       \/ privateRegistry /\ Ret("credentialsError") /\ UNCHANGED loginTries
       \/ privateRegistry /\ Goto("provision") /\ UNCHANGED loginTries
       \/ privateRegistry /\ loginTries <= LoginRetries /\ loginTries' = loginTries + 1
          /\ UNCHANGED <<pc, result, cleaned, dir>>
       \/ privateRegistry /\ loginTries >= LoginRetries /\ Ret("dockerError")
          /\ UNCHANGED loginTries
    /\ UNCHANGED <<inputs, cloneTries, guard, cloned, lfsFetched, imageBuilt,
                   cancel, deadlinePassed>>

(* The login to a private registry, retried on error; the credentials may  *)
(* not be readable.                                                        *)
Login ==
    /\ pc = "login"
    /\ \/ ~privateRegistry /\ Goto("provision") /\ UNCHANGED loginTries
       \/ privateRegistry /\ Ret("credentialsError") /\ UNCHANGED loginTries
       \/ privateRegistry /\ Goto("provision") /\ UNCHANGED loginTries
       \/ privateRegistry /\ loginTries < LoginRetries /\ loginTries' = loginTries + 1
          /\ UNCHANGED <<pc, result, cleaned, dir>>
       \/ privateRegistry /\ loginTries = LoginRetries /\ Ret("dockerError")
          /\ UNCHANGED loginTries
    /\ UNCHANGED <<inputs, cloneTries, guard, cloned, lfsFetched, imageBuilt,
                   cancel, deadlinePassed>>

(* Mutant: provision_builder retries until the builder comes up.          *)
ProvisionNoDeadline ==
    /\ pc = "provision"
    /\ \/ builderUp /\ Goto("dockerBuild")
       \/ cancel /\ Ret("aborted")
    /\ UNCHANGED <<inputs, cloneTries, loginTries, guard, cloned, lfsFetched, imageBuilt,
                   cancel, deadlinePassed>>

(* One spawn_builder under a fresh name (builder_counter.fetch_add): on    *)
(* error an abort returns Aborted, an aborted command or the passed        *)
(* deadline a DockerError, and otherwise it sleeps 1 s and tries again.    *)
Provision ==
    /\ pc = "provision"
    /\ \/ builderUp /\ Goto("dockerBuild")
       \/ cancel /\ Ret("aborted")
       \/ ~cancel /\ deadlinePassed /\ Ret("dockerError")
    /\ UNCHANGED <<inputs, cloneTries, loginTries, guard, cloned, lfsFetched, imageBuilt,
                   cancel, deadlinePassed>>

(* docker build under CommandKiller::from(build.timeout, abort).           *)
DockerBuild ==
    /\ pc = "dockerBuild"
    /\ \/ imageBuilt' = TRUE /\ Ret("ok")
       \/ Ret("dockerError") /\ UNCHANGED imageBuilt
       \/ cancel /\ Ret("aborted") /\ UNCHANGED imageBuilt
    /\ UNCHANGED <<inputs, cloneTries, loginTries, guard, cloned, lfsFetched,
                   cancel, deadlinePassed>>

(* The buildpacks builder: login without config file, then pack build; a   *)
(* kill is Aborted, another exit a BuildpackError.                         *)
Buildpacks ==
    /\ pc = "buildpacks"
    /\ \/ imageBuilt' = TRUE /\ Ret("ok")
       \/ Ret("dockerError") /\ UNCHANGED imageBuilt
       \/ Ret("invalidConfig") /\ UNCHANGED imageBuilt
       \/ Ret("buildpackError") /\ UNCHANGED imageBuilt
       \/ cancel /\ Ret("aborted") /\ UNCHANGED imageBuilt
    /\ UNCHANGED <<inputs, cloneTries, loginTries, guard, cloned, lfsFetched,
                   cancel, deadlinePassed>>

Engine ==
    \/ Start \/ CleanOld \/ Clone \/ AfterClone \/ LfsEstimate \/ LfsCheckout
    \/ Context \/ Dockerfile \/ ExistsRemote \/ Login \/ Provision \/ DockerBuild
    \/ Buildpacks

(* The user cancels the deployment.                                        *)
RequestCancel ==
    /\ ~cancel /\ cancel' = TRUE
    /\ UNCHANGED <<inputs, engine, dir, cloned, cleaned, lfsFetched, imageBuilt,
                   deadlinePassed>>

(* Ten minutes pass while the builder is provisioned.                      *)
Tick ==
    /\ pc = "provision" /\ ~deadlinePassed /\ deadlinePassed' = TRUE
    /\ UNCHANGED <<inputs, engine, dir, cloned, cleaned, lfsFetched, imageBuilt, cancel>>

Terminated == pc = "done" /\ UNCHANGED vars

Next == Engine \/ RequestCancel \/ Tick \/ Terminated

(* The engine runs to completion and time passes; the user may never       *)
(* cancel.                                                                 *)
Spec == Init /\ [][Next]_vars /\ WF_vars(Engine) /\ WF_vars(Tick)

-----------------------------------------------------------------------------
TypeOK ==
    /\ inputs \in BOOLEAN \X BOOLEAN \X BOOLEAN \X BOOLEAN \X BOOLEAN \X BOOLEAN
    /\ pc \in PCs /\ result \in Results
    /\ cloneTries \in 0..CloneRetries /\ loginTries \in 0..LoginRetries
    /\ guard \in BOOLEAN /\ dir \in DirStates
    /\ cloned \in BOOLEAN /\ cleaned \in BOOLEAN /\ lfsFetched \in BOOLEAN
    /\ imageBuilt \in BOOLEAN /\ cancel \in BOOLEAN /\ deadlinePassed \in BOOLEAN

(* The scopeguard of build: once the repository is cloned, every way out   *)
(* of build, the abort right after the clone and every error of the git-   *)
(* lfs, context, docker and buildpacks steps included, runs the removal of *)
(* the repository.                                                         *)
CleanupAfterClone == pc = "done" /\ cloned => cleaned

(* build returns: the clone and login retries are bounded, and the         *)
(* builder provisioning, which retries a failing spawn, stops at its       *)
(* deadline.                                                               *)
BuildTerminates == <>(pc = "done")

(* "Fetch git-lfs/big files for the repository if necessary": an image    *)
(* built from a commit with git-lfs files was built with them.  The size   *)
(* estimate's error is read as 0 and the checkout is skipped.              *)
LfsFetchedWhenPresent == imageBuilt /\ hasLfs => lfsFetched

=============================================================================
