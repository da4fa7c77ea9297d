---------------------------- MODULE ServerUpgrade ----------------------------
(***************************************************************************)
(* The server upgrades itself.                                             *)
(*                                                                         *)
(* internal/versionstatus keeps the newest release it knows of;            *)
(* internal/serverupgrade/operation.go keeps one record per upgrade, in    *)
(* memory and in server-upgrades.json, and upgrade.go downloads, checks,   *)
(* backs the executable up and replaces it, then asks for a restart.  The  *)
(* same replacement can be asked for without a record (POST                *)
(* /api/v1/system/upgrade, the self-upgrade command).                      *)
(* scripts/homeagent-server-runner.sh runs the server: when it ends badly  *)
(* while the file shows an upgrade under way it copies the backup back.    *)
(***************************************************************************)
EXTENDS Naturals, FiniteSets

CONSTANTS
    UpgradeOp,         \* IDs of operations, never used twice
    Administrator,     \* owners who may ask for an upgrade
    Direct,            \* a replacement that has no operation
    NoOwner,
    MaxRelease,        \* bound: versions are 1 .. MaxRelease
    Broken,            \* versions that do not start
    MaxUpgradeFault,   \* bound: steps that fail
    MaxBoot            \* bound: attempts to start the server

ASSUME ServerUpgradeAssumption ==
    /\ MaxRelease \in Nat \ {0} /\ Broken \subseteq 2 .. MaxRelease
    /\ MaxUpgradeFault \in Nat /\ MaxBoot \in Nat
    /\ Direct \notin UpgradeOp /\ NoOwner \notin Administrator /\ IsFiniteSet(UpgradeOp)

VARIABLES
    published,      \* the newest release of the repository
    release,        \* versionstatus: the snapshot of the server channel
    releaseAge,     \* 0 fresh, 1 more than six hours, 2 more than a day
    operations,     \* OperationManager.operations
    operationFile,  \* server-upgrades.json
    replacing,      \* PerformServerSelfUpgrade in flight, per operation and Direct
    executable,     \* the binary on disk
    backup,         \* the .bak file
    running,        \* the version of the process
    serverUp,
    restartDue,     \* the restart callback was armed
    replacedBy,     \* history: operations that replaced the binary
    upgradeFaults, boots

upgradeVars == <<published, release, releaseAge, operations, operationFile, replacing, executable,
                 backup, running, serverUp, restartDue, replacedBy, upgradeFaults, boots>>

Release == 1 .. MaxRelease
Missing == 0
Torn == MaxRelease + 1          \* a copy that was cut off
Unfinished == {"prepared", "replacing", "restarting"}
UpgradeOutcome == {"succeeded", "failed", "rolled_back"}
ErrorCode == {"none", "upgrade_failed", "version_mismatch", "rollback_detected"}
OperationRecord == [status : {"none"} \cup Unfinished \cup UpgradeOutcome, code : ErrorCode,
                    owner : Administrator \cup {NoOwner},
                    previous : 0 .. MaxRelease, target : 0 .. MaxRelease]
NoOperation == [status |-> "none", code |-> "none", owner |-> NoOwner, previous |-> 0, target |-> 0]
IdleRun == [at |-> "idle", target |-> 0]
UnknownRelease == [status |-> "unknown", latest |-> 0, newer |-> FALSE]

UpgradeInit ==
    /\ published = 1 /\ release = UnknownRelease /\ releaseAge = 0
    /\ operations = [o \in UpgradeOp |-> NoOperation] /\ operationFile = operations
    /\ replacing = [r \in UpgradeOp \cup {Direct} |-> IdleRun]
    /\ executable = 1 /\ backup = Missing /\ running = 1 /\ serverUp = TRUE
    /\ restartDue = FALSE /\ replacedBy = {} /\ upgradeFaults = 0 /\ boots = 0

UpgradeFault(bad) ==
    LET n == IF bad THEN 1 ELSE 0
    IN upgradeFaults + n <= MaxUpgradeFault /\ upgradeFaults' = upgradeFaults + n

\* saveLocked
SaveOperations(ok) == operationFile' = IF ok THEN operations' ELSE operationFile

----------------------------------------------------------------------------
(* Releases.                                                               *)

ReleaseUnchanged == UNCHANGED <<operations, operationFile, replacing, executable, backup, running,
                                serverUp, restartDue, replacedBy, boots>>

PublishRelease ==
    /\ published < MaxRelease /\ published' = published + 1
    /\ ReleaseUnchanged /\ UNCHANGED <<release, releaseAge, upgradeFaults>>

\* Service.Refresh; a snapshot that could not be saved is not shown.
RefreshRelease(result) ==
    /\ serverUp /\ UpgradeFault(result # "ok")
    /\ CASE result = "ok" ->
              /\ release' = [status |-> "available", latest |-> published, newer |-> running < published]
              /\ releaseAge' = 0
         [] result = "failed" ->
              /\ release' = IF release.latest # 0 /\ releaseAge < 2 THEN [release EXCEPT !.status = "stale"]
                            ELSE [status |-> "error", latest |-> 0, newer |-> FALSE]
              /\ UNCHANGED releaseAge
         [] result = "unsaved" -> UNCHANGED <<release, releaseAge>>
    /\ ReleaseUnchanged /\ UNCHANGED published

ReleaseAges ==
    /\ release.latest # 0 /\ releaseAge < 2 /\ releaseAge' = releaseAge + 1
    /\ ReleaseUnchanged /\ UNCHANGED <<published, release, upgradeFaults>>

\* Snapshot, and what createServerUpgradeOperation asks of it.
CanUpgrade == release.status = "available" /\ releaseAge = 0 /\ release.newer

----------------------------------------------------------------------------
(* Operations.                                                             *)

InTheWay(owner) == {o \in UpgradeOp : operations[o].status \in Unfinished}

\* Random IDs; which of the unused ones it is makes no difference.
FreshOps == {o \in UpgradeOp : operations[o].status = "none" /\ operationFile[o].status = "none"}

\* createServerUpgradeOperation and Start; the caller's own operation for this target
\* is shown again, any other one refused: neither changes a thing.
StartOperation(o, owner, ok) ==
    /\ serverUp /\ CanUpgrade /\ InTheWay(owner) = {} /\ UpgradeFault(~ok)
    /\ o \in FreshOps /\ o = CHOOSE x \in FreshOps : TRUE
    /\ operations' = IF ok THEN [operations EXCEPT ![o] =
                                   [status |-> "prepared", code |-> "none", owner |-> owner,
                                    previous |-> running, target |-> release.latest]]
                           ELSE operations
    /\ SaveOperations(ok)
    /\ replacing' = IF ok THEN [replacing EXCEPT ![o] = [at |-> "begin", target |-> release.latest]]
                          ELSE replacing
    /\ UNCHANGED <<published, release, releaseAge, executable, backup, running, serverUp, restartDue,
                   replacedBy, boots>>

\* systemUpgrade and the self-upgrade command: no record, no lock.
StartDirect(v, force) ==
    /\ serverUp /\ replacing[Direct] = IdleRun /\ v \in 1 .. published /\ (force \/ v # running)
    /\ replacing' = [replacing EXCEPT ![Direct] = [at |-> "fetch", target |-> v]]
    /\ UNCHANGED <<published, release, releaseAge, operations, operationFile, executable, backup, running,
                   serverUp, restartDue, replacedBy, upgradeFaults, boots>>

Stops(r) == [replacing EXCEPT ![r] = IdleRun]
Reaches(r, where) == [replacing EXCEPT ![r].at = where]

\* transition: a write that fails leaves the new status in memory.
Mark(o, status, ok) ==
    /\ operations' = [operations EXCEPT ![o].status = status,
                          ![o].code = IF status = "failed" THEN "upgrade_failed" ELSE "none"]
    /\ SaveOperations(ok)

RunUnchanged == UNCHANGED <<published, release, releaseAge, running, serverUp, boots>>

\* Run: from prepared to replacing.
BeginReplacing(o, ok) ==
    /\ serverUp /\ replacing[o].at = "begin" /\ UpgradeFault(~ok)
    /\ operations[o].status = "prepared" /\ Mark(o, "replacing", ok)
    /\ replacing' = IF ok THEN Reaches(o, "fetch") ELSE Stops(o)
    /\ RunUnchanged /\ UNCHANGED <<executable, backup, restartDue, replacedBy>>

\* PerformServerSelfUpgrade: nothing to do, or download, checksum and smoke test; then
\* the old backup goes and the copy of the running binary begins.
FetchRelease(r, result) ==
    /\ serverUp /\ replacing[r].at = "fetch" /\ UpgradeFault(result \in {"failed", "failed_unsaved"})
    /\ r # Direct => (result = "current") = (replacing[r].target = running)
    /\ r = Direct => result \in {"ok", "failed"}
    /\ IF result \in {"failed", "failed_unsaved"}
       THEN /\ replacing' = Stops(r) /\ UNCHANGED backup
            /\ IF r = Direct THEN UNCHANGED <<operations, operationFile>>
                             ELSE Mark(r, "failed", result = "failed")
       ELSE /\ UNCHANGED <<operations, operationFile>>
            /\ replacing' = Reaches(r, IF result = "current" THEN "finish" ELSE "copy")
            /\ backup' = IF result = "current" THEN backup ELSE Torn
    /\ RunUnchanged /\ UNCHANGED <<executable, restartDue, replacedBy>>

\* The copy is complete, the new binary is renamed into place and the restart armed;
\* or that fails, which Run records, written or not.
ReplaceExecutable(r, result) ==
    LET ok == result = "ok"
    IN  /\ serverUp /\ replacing[r].at = "copy" /\ UpgradeFault(~ok)
        /\ backup' \in IF ok THEN {executable} ELSE {Missing, executable}
        /\ executable' = IF ok THEN replacing[r].target ELSE executable
        /\ restartDue' = (restartDue \/ ok)
        /\ replacedBy' = IF ok /\ r # Direct THEN replacedBy \cup {r} ELSE replacedBy
        /\ replacing' = IF ok /\ r # Direct THEN Reaches(r, "finish") ELSE Stops(r)
        /\ IF ok \/ r = Direct THEN UNCHANGED <<operations, operationFile>>
                              ELSE Mark(r, "failed", result = "failed")
        /\ RunUnchanged

\* Run: to restarting.
FinishReplacing(o, ok) ==
    /\ serverUp /\ replacing[o].at = "finish" /\ UpgradeFault(~ok)
    /\ Mark(o, "restarting", ok) /\ replacing' = Stops(o)
    /\ RunUnchanged /\ UNCHANGED <<executable, backup, restartDue, replacedBy>>

----------------------------------------------------------------------------
(* The process and its supervisor.                                         *)

UnderWay(file) == \E o \in UpgradeOp : file[o].status \in {"replacing", "restarting"}

\* homeagent-server-runner.sh after an exit code that is not zero.
RollBack == IF UnderWay(operationFile) /\ backup # Missing THEN backup ELSE executable

Down ==
    /\ serverUp' = FALSE /\ restartDue' = FALSE
    /\ replacing' = [r \in UpgradeOp \cup {Direct} |-> IdleRun]

\* The restart: a clean end, whatever Run has reached.
ServerExits ==
    /\ serverUp /\ restartDue /\ Down
    /\ UNCHANGED <<published, release, releaseAge, operations, operationFile, executable, backup, running,
                   replacedBy, upgradeFaults, boots>>

\* A crash of the process, which the supervisor sees, or of the whole machine.
ServerCrashes(supervised) ==
    /\ serverUp /\ boots < MaxBoot /\ Down
    /\ executable' = IF supervised THEN RollBack ELSE executable
    /\ UNCHANGED <<published, release, releaseAge, operations, operationFile, backup, running,
                   replacedBy, upgradeFaults, boots>>

\* A mutation: every record is judged by the version that runs.
Judged_All(status) == status # "none"

Judged(status) == status = "restarting"

\* NewOperationManager
Settled(file, v) ==
    [o \in UpgradeOp |->
        LET r == file[o]
        IN  IF ~Judged(r.status) THEN r
            ELSE IF r.target = v THEN [r EXCEPT !.status = "succeeded", !.code = "none"]
            ELSE IF r.previous = v THEN [r EXCEPT !.status = "rolled_back", !.code = "rollback_detected"]
            ELSE [r EXCEPT !.status = "failed", !.code = "version_mismatch"]]

\* A mutation: the server comes up although the outcome was not written.
ComesUp_Anyway(ok) == TRUE

\* A start that cannot write the outcomes it found fails.
ComesUp(ok) == ok

ServerStarts(ok) ==
    LET settled == Settled(operationFile, executable) IN
    /\ ~serverUp /\ boots < MaxBoot /\ boots' = boots + 1
    /\ executable \in Release \ Broken /\ UpgradeFault(~ok) /\ (~ok => settled # operationFile)
    /\ serverUp' = ComesUp(ok) /\ running' = executable
    /\ operations' = settled /\ SaveOperations(ok)
    /\ executable' = IF ComesUp(ok) THEN executable ELSE RollBack
    /\ UNCHANGED <<published, release, releaseAge, replacing, backup, restartDue, replacedBy>>

\* A binary that does not start.
ServerFailsToStart ==
    /\ ~serverUp /\ boots < MaxBoot /\ boots' = boots + 1
    /\ executable \notin Release \ Broken /\ executable' = RollBack
    /\ UNCHANGED <<published, release, releaseAge, operations, operationFile, replacing, backup, running,
                   serverUp, restartDue, replacedBy, upgradeFaults>>

----------------------------------------------------------------------------
OperationStep(o, ok) ==
    \/ \E owner \in Administrator : StartOperation(o, owner, ok)
    \/ BeginReplacing(o, ok) \/ FinishReplacing(o, ok)

ReplaceStep(r) ==
    \/ \E result \in {"ok", "current", "failed", "failed_unsaved"} : FetchRelease(r, result)
    \/ \E result \in {"ok", "failed", "failed_unsaved"} : ReplaceExecutable(r, result)

UpgradeNext ==
    \/ PublishRelease \/ ReleaseAges
    \/ \E result \in {"ok", "failed", "unsaved"} : RefreshRelease(result)
    \/ \E o \in UpgradeOp, ok \in BOOLEAN : OperationStep(o, ok)
    \/ \E v \in Release, force \in BOOLEAN : StartDirect(v, force)
    \/ \E r \in UpgradeOp \cup {Direct} : ReplaceStep(r)
    \/ ServerExits \/ ServerFailsToStart
    \/ \E supervised \in BOOLEAN : ServerCrashes(supervised)
    \/ \E ok \in BOOLEAN : ServerStarts(ok)

UpgradeSpec == UpgradeInit /\ [][UpgradeNext]_upgradeVars

----------------------------------------------------------------------------
(* Properties.                                                             *)

\* The type invariant.
UpgradeTypeOK ==
    /\ published \in Release /\ releaseAge \in 0 .. 2
    /\ release \in [status : {"unknown", "available", "stale", "error"}, latest : 0 .. MaxRelease,
                    newer : BOOLEAN]
    /\ operations \in [UpgradeOp -> OperationRecord] /\ operationFile \in [UpgradeOp -> OperationRecord]
    /\ replacing \in [UpgradeOp \cup {Direct} -> [at : {"idle", "begin", "fetch", "copy", "finish"},
                                                  target : 0 .. MaxRelease]]
    /\ executable \in Release \cup {Torn} /\ backup \in Release \cup {Missing, Torn}
    /\ running \in Release /\ serverUp \in BOOLEAN /\ restartDue \in BOOLEAN
    /\ replacedBy \in SUBSET UpgradeOp
    /\ upgradeFaults \in 0 .. MaxUpgradeFault /\ boots \in 0 .. MaxBoot

\* There is never more than one upgrade that is not over, neither in memory nor in
\* what a restart will find, through failed writes and crashes.
OneOperation ==
    /\ Cardinality({o \in UpgradeOp : operations[o].status \in Unfinished}) <= 1
    /\ Cardinality({o \in UpgradeOp : operationFile[o].status \in Unfinished}) <= 1

\* An upgrade that reports that it failed (upgrade_failed) left the binary as it was.
\* A failure found at a start (version_mismatch) says nothing of the kind.
FailedLeftExecutable ==
    \A o \in UpgradeOp :
        operations[o].status = "failed" /\ operations[o].code = "upgrade_failed"
        => o \notin replacedBy

\* Not kept, the same of every record with the status failed: the upgrade replaced the
\* binary, and a replacement without a record, or a rollback to another one, had the
\* server start as a third version.
FailedChangedNothing ==
    \A o \in UpgradeOp : operations[o].status = "failed" => o \notin replacedBy

\* An outcome that was written is final: no later start under another version judges
\* it again.
OutcomesStay ==
    [][\A o \in UpgradeOp : operationFile[o].status \in UpgradeOutcome => operationFile'[o] = operationFile[o]]_upgradeVars

\* What a server in service shows as succeeded is written as such, so that a crash
\* does not roll it back.
SucceededIsWritten ==
    serverUp => \A o \in UpgradeOp :
        operations[o].status = "succeeded" => operationFile[o].status = "succeeded"

\* What memory, file and binary say of an upgrade agrees: one at a time, one that
\* reports its own failure left the binary, a succeeded one is written.
OperationInv ==
    /\ UpgradeTypeOK
    /\ OneOperation
    /\ FailedLeftExecutable
    /\ SucceededIsWritten

\* The file the supervisor starts is always a whole binary: the backup is complete
\* before the file says that an upgrade is replacing it.
\* The code does not keep it: the file says replacing before the backup is written,
\* and the supervisor puts an unfinished one in place.
ExecutableWhole == executable # Torn

=============================================================================
