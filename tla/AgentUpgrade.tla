---------------------------- MODULE AgentUpgrade ----------------------------
(***************************************************************************)
(* The upgrade of one agent, from the request to the replaced executable.  *)
(*                                                                         *)
(* On the server, upgradeDevice and the batch of upgradeAll create an      *)
(* upgrade plan (internal/upgradeplan, in memory), then a command, publish *)
(* it and note what became of that; several requests, and the recovery of  *)
(* a stream that opens, interleave between these steps.  On the device,    *)
(* the daemon takes the event, reports that it starts, downloads and tries *)
(* the candidate (internal/daemon/selfupgrade.go), moves the executable    *)
(* out of the way, puts the candidate in its place, writes the result into *)
(* its ledger and exits 500 ms later, to be started again by the service   *)
(* manager.  It may die at any point.                                      *)
(*                                                                         *)
(* A version is a number.  Revisions and deadlines of a command are        *)
(* CommandService's; the writes of the ledger that fail, and what lies     *)
(* between begin and start, are AgentLedger's.                             *)
(***************************************************************************)
EXTENDS Naturals, FiniteSets, Sequences

CONSTANTS
    UpgradeRequest,   \* the requests of administrators
    UpgradePlan,      \* plan IDs (generatePlanID)
    UpgradeCmd,       \* command IDs of kind upgrade
    NoPlan,           \* the plan of a command of the old batch endpoint
    NoCmd,            \* the command of a request that has none yet
    NoKey,            \* a request without Idempotency-Key
    IdemKey,          \* the keys clients choose
    Versions,         \* versions of the agent; 1 is the one installed first
    MaxDeviceFault    \* bound: failing file operations and writes, lost posts, broken streams,
                      \* deaths of the daemon and restarts of the server

ASSUME AgentUpgradeAssumption ==
    /\ Versions \subseteq Nat \ {0} /\ 1 \in Versions
    /\ NoPlan \notin UpgradePlan /\ NoCmd \notin UpgradeCmd
    /\ NoKey \notin IdemKey
    /\ MaxDeviceFault \in Nat

VARIABLES
    plans,         \* Service.plans
    requests,      \* the handlers: where each is, and its locals
    upgradeCmds,   \* the stored commands
    recovery,      \* recoverQueuedCommands of the last stream that opened
    connected,     \* the device's stream is open
    inbox,         \* events on the stream, not yet read
    daemon,        \* the command being handled and its step
    ledger,        \* what the ledger on disk has of each command
    exe,           \* the file at the executable's path
    oldExe,        \* the file beside it, with suffix .old
    runningVersion,\* the version of the running process
    deviceUp,      \* the daemon is running
    exitDue,       \* it has scheduled its exit
    rollbackLost,  \* history: a failed replacement could not be undone
    deviceFaults

serverSide == <<plans, requests, upgradeCmds, recovery>>
deviceSide == <<daemon, ledger, exe, oldExe, runningVersion, deviceUp, exitDue,
                rollbackLost>>
agentUpgradeVars == <<plans, requests, upgradeCmds, recovery, connected, inbox, daemon,
                      ledger, exe, oldExe, runningVersion, deviceUp, exitDue,
                      rollbackLost, deviceFaults>>

NoFile == 0

\* What an upgrade asks for; force: also of a device that runs the version.
Payload == [target: Versions, force: BOOLEAN]
NoPayload == [target |-> 1, force |-> FALSE]

\* lost: of a server that was restarted since; the ID does not return.
PlanRecord ==
    [stage: {"unused", "pending", "succeeded", "failed", "lost"},
     key: IdemKey \cup {NoKey}, payload: Payload]

UnusedPlan == [stage |-> "unused", key |-> NoKey, payload |-> NoPayload]

\* closed: succeeded, timed out, canceled or interrupted, which nothing here tells apart.
CmdStatus == {"unused", "queued", "dispatching", "dispatched", "accepted", "failed",
              "closed"}
CmdRecord ==
    [status: CmdStatus, key: IdemKey \cup {NoKey}, payload: Payload,
     plan: UpgradePlan \cup {NoPlan}]

UnusedCmd == [status |-> "unused", key |-> NoKey, payload |-> NoPayload, plan |-> NoPlan]

IdleRequest ==
    [pc |-> "idle", batch |-> FALSE, key |-> NoKey, payload |-> NoPayload,
     plan |-> NoPlan, cmd |-> NoCmd]

\* heard, missed: the event was published, to a listener or to none.
DispatchPc == {"prepared", "heard", "missed"}

AnsweredRequest == [IdleRequest EXCEPT !.pc = "answered"]

\* Neither the daemon nor the recovery has a command at hand.
AtRest == [pc |-> "idle", cmd |-> NoCmd]

AgentUpgradeInit ==
    /\ plans = [p \in UpgradePlan |-> UnusedPlan]
    /\ requests = [q \in UpgradeRequest |-> IdleRequest]
    /\ upgradeCmds = [c \in UpgradeCmd |-> UnusedCmd]
    /\ recovery = AtRest
    /\ connected = TRUE
    /\ inbox = <<>>
    /\ daemon = AtRest
    /\ ledger = [c \in UpgradeCmd |-> "none"]
    /\ exe = 1
    /\ oldExe = NoFile
    /\ runningVersion = 1
    /\ deviceUp = TRUE
    /\ exitDue = FALSE
    /\ rollbackLost = FALSE
    /\ deviceFaults = 0

DeviceFault(ok) ==
    /\ deviceFaults' = IF ok THEN deviceFaults ELSE deviceFaults + 1
    /\ deviceFaults' <= MaxDeviceFault

-----------------------------------------------------------------------------
(* The server's plans.                                                     *)

\* CreatePlan looks for the key of the same client first, ...
WithKey(key) == {p \in UpgradePlan : /\ key # NoKey
                                     /\ plans[p].stage \notin {"unused", "lost"}
                                     /\ plans[p].key = key}

\* ... then for any plan of the device that has not ended.
PlanInProgress == \E p \in UpgradePlan : plans[p].stage = "pending"

\* TransitionStage refuses a plan that has ended.
Transitioned(table, p, stage) ==
    IF p # NoPlan /\ table[p].stage = "pending"
    THEN [table EXCEPT ![p].stage = stage]
    ELSE table

\* IDs are random and requests alike; which of the unused ones it is makes no
\* difference.
IsNew(id, unused) == id \in unused /\ id = CHOOSE x \in unused : TRUE

Arrives(q) == IsNew(q, {x \in UpgradeRequest : requests[x].pc = "idle"})
Advance(q, r) == requests' = [requests EXCEPT ![q] = r]

\* upgradeDevice and upgradeAll up to CreatePlan: the payload is resolved, a
\* batch skips a device without a stream, and a request that finds another plan
\* in progress, or its key with other contents, ends with 409.
RequestUpgrade(q, batch, key, payload) ==
    LET r == [IdleRequest EXCEPT !.batch = batch, !.key = key, !.payload = payload]
    IN  /\ Arrives(q)
        /\ batch => connected /\ ~payload.force
        /\ UNCHANGED <<upgradeCmds, recovery, connected, inbox, deviceFaults>>
        /\ UNCHANGED deviceSide
        /\ \/ \E p \in WithKey(key) :
                /\ ~batch
                /\ UNCHANGED plans
                /\ Advance(q, IF plans[p].payload = payload
                              THEN [r EXCEPT !.pc = "planned", !.plan = p]
                              ELSE AnsweredRequest)
           \/ /\ batch \/ WithKey(key) = {}
              /\ PlanInProgress
              /\ UNCHANGED plans
              /\ Advance(q, AnsweredRequest)
           \/ \E p \in UpgradePlan :
                /\ batch \/ WithKey(key) = {}
                /\ ~PlanInProgress
                /\ IsNew(p, {x \in UpgradePlan : plans[x].stage = "unused"})
                /\ plans' = [plans EXCEPT ![p] =
                     [stage |-> "pending", payload |-> payload,
                      key |-> IF batch THEN NoKey ELSE key]]
                /\ Advance(q, [r EXCEPT !.pc = "planned", !.plan = p])

\* The batch of the old endpoint goes without a plan.
RequestUnplanned(q, key, payload) ==
    /\ Arrives(q)
    /\ connected
    /\ Advance(q, [IdleRequest EXCEPT !.pc = "planned", !.batch = TRUE,
                                      !.key = key, !.payload = payload])
    /\ UNCHANGED <<plans, upgradeCmds, recovery, connected, inbox, deviceFaults>>
    /\ UNCHANGED deviceSide

Live(status) == status \in {"queued", "dispatching", "dispatched", "accepted"}

\* The commands a key already stands for ...
Created_NoKey(key) == {}

Created(key) == {c \in UpgradeCmd : /\ key # NoKey
                                    /\ upgradeCmds[c].status # "unused"
                                    /\ upgradeCmds[c].key = key}

\* ... and the one that is under way on the device.
SlotTaken == \E c \in UpgradeCmd : Live(upgradeCmds[c].status)

\* The handler ends without a publication: a batch fails its plan then, upgradeDevice
\* leaves the plan as it is.
GiveUp(q) ==
    /\ plans' = IF requests[q].batch THEN Transitioned(plans, requests[q].plan, "failed")
                                     ELSE plans
    /\ Advance(q, AnsweredRequest)
    /\ UNCHANGED upgradeCmds

\* prepareCommand creates the command; one of its key, one under way or a failed write
\* ends the request.
CreateCommand(q, ok) ==
    LET r == requests[q]
        refused == Created(r.key) # {} \/ SlotTaken
    IN  /\ r.pc = "planned"
        /\ refused => ok
        /\ DeviceFault(ok)
        /\ UNCHANGED <<recovery, connected, inbox>>
        /\ UNCHANGED deviceSide
        /\ IF refused \/ ~ok
           THEN GiveUp(q)
           ELSE \E c \in UpgradeCmd :
                  /\ IsNew(c, {x \in UpgradeCmd : upgradeCmds[x].status = "unused"})
                  /\ upgradeCmds' = [upgradeCmds EXCEPT ![c] =
                       [status |-> "queued", key |-> r.key,
                        payload |-> r.payload, plan |-> r.plan]]
                  /\ Advance(q, [r EXCEPT !.pc = "created", !.cmd = c])
                  /\ UNCHANGED plans

MoveCmd(c, status) == upgradeCmds' = [upgradeCmds EXCEPT ![c].status = status]

\* StartDispatch has nothing to do when somebody else has begun to dispatch the command.
Dispatchable(c) == upgradeCmds[c].status \in {"queued", "dispatching"}

\* prepareCommand goes on with StartDispatch.
StartDispatch(q, ok) ==
    LET r == requests[q]
    IN  /\ r.pc = "created"
        /\ Dispatchable(r.cmd) \/ ok
        /\ DeviceFault(ok)
        /\ IF Dispatchable(r.cmd) /\ ok
           THEN /\ MoveCmd(r.cmd, "dispatching")
                /\ Advance(q, [r EXCEPT !.pc = "prepared"])
                /\ UNCHANGED plans
           ELSE GiveUp(q)
        /\ UNCHANGED <<recovery, connected, inbox>>
        /\ UNCHANGED deviceSide

\* Broker.Publish, whatever has become of the command.
Publish(c) == inbox' = IF connected THEN Append(inbox, c) ELSE inbox

PublishCommand(q) ==
    LET r == requests[q]
    IN  /\ r.pc = "prepared"
        /\ Publish(r.cmd)
        /\ Advance(q, [r EXCEPT !.pc = IF connected THEN "heard" ELSE "missed"])
        /\ UNCHANGED <<plans, upgradeCmds, recovery, connected, deviceFaults>>
        /\ UNCHANGED deviceSide

\* finishDispatch: DispatchResult when somebody listened, Requeue when nobody did.
\* Only a command that is being dispatched changes; ok: the write succeeds.
FinishDispatch(c, pc, ok) ==
    /\ upgradeCmds[c].status = "dispatching" \/ ok
    /\ DeviceFault(ok)
    /\ IF upgradeCmds[c].status = "dispatching" /\ ok
       THEN MoveCmd(c, IF pc = "heard" THEN "dispatched" ELSE "queued")
       ELSE UNCHANGED upgradeCmds

\* The handler ignores the error.  upgradeDevice fails the plan of a command that has
\* failed by now.
FinishHeard(q, ok) ==
    LET r == requests[q]
    IN  /\ r.pc = "heard"
        /\ FinishDispatch(r.cmd, "heard", ok)
        /\ plans' = IF ~r.batch /\ upgradeCmds[r.cmd].status = "failed"
                    THEN Transitioned(plans, r.plan, "failed") ELSE plans
        /\ Advance(q, AnsweredRequest)
        /\ UNCHANGED <<recovery, connected, inbox>>
        /\ UNCHANGED deviceSide

\* Without the result of Requeue the handler has no command to cancel.
FinishMissed(q, ok) ==
    LET r == requests[q]
    IN  /\ r.pc = "missed"
        /\ FinishDispatch(r.cmd, "missed", ok)
        /\ Advance(q, [r EXCEPT !.pc = "unheard",
                !.cmd = IF ok /\ Dispatchable(r.cmd) THEN r.cmd ELSE NoCmd])
        /\ UNCHANGED <<plans, recovery, connected, inbox>>
        /\ UNCHANGED deviceSide

\* Nobody listened.  upgradeDevice cancels the command, unless the device has accepted
\* it since or it has ended, and fails the plan; the batch fails the plan and leaves
\* the command.
WithdrawCommand(q) ==
    LET r == requests[q]
    IN  /\ r.pc = "unheard"
        /\ IF ~r.batch /\ r.cmd # NoCmd
              /\ upgradeCmds[r.cmd].status \in {"queued", "dispatching", "dispatched"}
           THEN MoveCmd(r.cmd, "closed") ELSE UNCHANGED upgradeCmds
        /\ plans' = Transitioned(plans, r.plan, "failed")
        /\ Advance(q, AnsweredRequest)
        /\ UNCHANGED <<recovery, connected, inbox, deviceFaults>>
        /\ UNCHANGED deviceSide

-----------------------------------------------------------------------------
(* The stream, and what reaches the server over it and beside it.          *)

\* The stream opens: recoverQueuedCommands lists what is queued, one command at most,
\* and dispatches it like a handler, ...  One recovery is followed at a time.
StreamOpens(ok) ==
    LET queued == {c \in UpgradeCmd : upgradeCmds[c].status = "queued"} IN
    /\ ~connected /\ deviceUp /\ recovery = AtRest
    /\ connected' = TRUE
    /\ DeviceFault(ok)
    /\ queued = {} => ok
    /\ IF queued = {} \/ ~ok
       THEN UNCHANGED <<upgradeCmds, recovery>>
       ELSE \E c \in queued : /\ MoveCmd(c, "dispatching")
                              /\ recovery' = [pc |-> "prepared", cmd |-> c]
    /\ UNCHANGED <<plans, requests, inbox>>
    /\ UNCHANGED deviceSide

\* ... publishes it ...
RecoverPublish ==
    /\ recovery.pc = "prepared"
    /\ Publish(recovery.cmd)
    /\ recovery' = [recovery EXCEPT !.pc = IF connected THEN "heard" ELSE "missed"]
    /\ UNCHANGED <<plans, requests, upgradeCmds, connected, deviceFaults>>
    /\ UNCHANGED deviceSide

\* ... and notes what became of it.
RecoverFinish(ok) ==
    /\ recovery.pc \in {"heard", "missed"}
    /\ FinishDispatch(recovery.cmd, recovery.pc, ok)
    /\ recovery' = AtRest
    /\ UNCHANGED <<plans, requests, connected, inbox>>
    /\ UNCHANGED deviceSide

StreamBreaks ==
    /\ connected
    /\ connected' = FALSE
    /\ inbox' = <<>>
    /\ DeviceFault(FALSE)
    /\ UNCHANGED serverSide
    /\ UNCHANGED deviceSide

\* Expire: the command's deadline passes; the plan is not told.
CommandExpires(c) ==
    /\ upgradeCmds[c].status \in {"dispatching", "dispatched", "accepted"}
    /\ MoveCmd(c, "closed")
    /\ UNCHANGED <<plans, requests, recovery, connected, inbox, deviceFaults>>
    /\ UNCHANGED deviceSide

\* Of a queued command the server takes no acknowledgement.
TakesAck(c) == upgradeCmds[c].status \in {"dispatching", "dispatched", "accepted"}

\* deviceAck with a final result: Commands.Finish, and no plan is looked at.
AckResult(c) ==
    IF TakesAck(c)
    THEN [upgradeCmds EXCEPT
            ![c].status = IF ledger[c] = "failed" THEN "failed" ELSE "closed"]
    ELSE upgradeCmds

\* deviceAck with progress commit_ready, which an agent of protocol 2 sends of a
\* command it has begun: the command is finished and whatever plan of the device is
\* active succeeds.
CommitReady(c) ==
    /\ connected
    /\ ledger[c] # "none"
    /\ IF TakesAck(c) THEN MoveCmd(c, "closed") ELSE UNCHANGED upgradeCmds
    /\ plans' = [p \in UpgradePlan |-> Transitioned(plans, p, "succeeded")[p]]
    /\ plans' # plans
    /\ UNCHANGED <<requests, recovery, connected, inbox, deviceFaults>>
    /\ UNCHANGED deviceSide

\* The server restarts: plans are in memory only, commands that were under way
\* are interrupted.
ServerRestarts ==
    /\ DeviceFault(FALSE)
    /\ plans' = [p \in UpgradePlan |-> IF plans[p].stage = "unused" THEN UnusedPlan
                                       ELSE [UnusedPlan EXCEPT !.stage = "lost"]]
    /\ recovery' = AtRest
    /\ requests' = [q \in UpgradeRequest |->
         IF requests[q].pc = "idle" THEN IdleRequest ELSE AnsweredRequest]
    /\ upgradeCmds' = [c \in UpgradeCmd |->
         IF Live(upgradeCmds[c].status)
         THEN [upgradeCmds[c] EXCEPT !.status = "closed"] ELSE upgradeCmds[c]]
    /\ connected' = FALSE
    /\ inbox' = <<>>
    /\ UNCHANGED deviceSide

-----------------------------------------------------------------------------
(* The device.                                                             *)

Target == upgradeCmds[daemon.cmd].payload.target
Forced == upgradeCmds[daemon.cmd].payload.force

Step(pc) == daemon' = [daemon EXCEPT !.pc = pc]

\* The result goes into the ledger; the post of it follows (ReportResult).
Conclude(outcome, pc) ==
    /\ ledger' = [ledger EXCEPT ![daemon.cmd] = outcome]
    /\ Step(pc)

\* handleEvent and startCommand: a command is begun once, unless it is still known as
\* started.
TakeEvent ==
    /\ deviceUp /\ daemon.pc = "idle" /\ inbox # <<>>
    /\ inbox' = Tail(inbox)
    /\ LET c == Head(inbox)
       IN  IF ledger[c] \in {"none", "started"}
           THEN /\ ledger' = [ledger EXCEPT ![c] = "started"]
                /\ daemon' = [pc |-> "begun", cmd |-> c]
           ELSE UNCHANGED <<ledger, daemon>>
    /\ UNCHANGED <<connected, exe, oldExe, runningVersion, deviceUp, exitDue,
                   deviceFaults, rollbackLost>>
    /\ UNCHANGED serverSide

\* sendAccepted, best effort: the answer, which the server refuses for a command it does
\* not expect to start, confirms the record.  Without it, or if the record cannot be
\* written, the ledger still says started.
PostAccepted(sent, answered) ==
    /\ deviceUp /\ daemon.pc = "begun"
    /\ answered => sent
    /\ TakesAck(daemon.cmd) \/ (sent /\ answered)
    /\ DeviceFault(answered)
    /\ IF sent /\ TakesAck(daemon.cmd)
       THEN MoveCmd(daemon.cmd, "accepted") ELSE UNCHANGED upgradeCmds
    /\ ledger' = IF answered /\ TakesAck(daemon.cmd)
                 THEN [ledger EXCEPT ![daemon.cmd] = "confirmed"] ELSE ledger
    /\ Step("accepted")
    /\ UNCHANGED <<plans, requests, recovery, connected, inbox, exe, oldExe, runningVersion,
                   deviceUp, exitDue, rollbackLost>>

\* PerformSelfUpgrade does nothing when the running version is the wanted one, unless it
\* is forced.
AlreadyCurrent ==
    /\ deviceUp /\ daemon.pc = "accepted"
    /\ ~Forced /\ Target = runningVersion
    /\ Conclude("succeeded", "report")
    /\ UNCHANGED <<connected, inbox, exe, oldExe, runningVersion, deviceUp,
                   exitDue, deviceFaults, rollbackLost>>
    /\ UNCHANGED serverSide

\* The candidate is downloaded, hashed and run once with "info"; all of it
\* beside the executable, which a refused candidate never touches.
FetchCandidate(ok) ==
    /\ deviceUp /\ daemon.pc = "accepted"
    /\ Forced \/ Target # runningVersion
    /\ DeviceFault(ok)
    /\ IF ok
       THEN Step("verified") /\ UNCHANGED ledger
       ELSE Conclude("failed", "report")
    /\ UNCHANGED <<connected, inbox, exe, oldExe, runningVersion, deviceUp,
                   exitDue, rollbackLost>>
    /\ UNCHANGED serverSide

SetAside == exe

\* A left-over .old is removed and the executable renamed to it.
BackUp(ok) ==
    /\ deviceUp /\ daemon.pc = "verified"
    /\ DeviceFault(ok)
    /\ IF ok
       THEN /\ oldExe' = SetAside
            /\ exe' = NoFile
            /\ Step("backed_up")
            /\ UNCHANGED ledger
       ELSE /\ oldExe' = NoFile
            /\ UNCHANGED exe
            /\ Conclude("failed", "report")
    /\ UNCHANGED <<connected, inbox, runningVersion, deviceUp, exitDue, rollbackLost>>
    /\ UNCHANGED serverSide

\* The candidate is renamed to the executable's path; when that fails, the old
\* file is renamed back, and an error of this rename is ignored.
PlaceCandidate_Reported(ok, back) ==
    /\ deviceUp /\ daemon.pc = "backed_up"
    /\ DeviceFault(ok)
    /\ ok => back
    /\ exe' = IF ok THEN Target ELSE IF back THEN oldExe ELSE NoFile
    /\ oldExe' = IF ~ok /\ back THEN NoFile ELSE oldExe
    /\ rollbackLost' = (rollbackLost \/ ~back)
    /\ Step("placed") /\ UNCHANGED ledger
    /\ UNCHANGED <<connected, inbox, runningVersion, deviceUp, exitDue>>
    /\ UNCHANGED serverSide

PlaceCandidate(ok, back) ==
    /\ deviceUp /\ daemon.pc = "backed_up"
    /\ DeviceFault(ok)
    /\ ok => back
    /\ exe' = IF ok THEN Target ELSE IF back THEN oldExe ELSE NoFile
    /\ oldExe' = IF ~ok /\ back THEN NoFile ELSE oldExe
    /\ rollbackLost' = (rollbackLost \/ ~back)
    /\ IF ok THEN Step("placed") /\ UNCHANGED ledger ELSE Conclude("failed", "report")
    /\ UNCHANGED <<connected, inbox, runningVersion, deviceUp, exitDue>>
    /\ UNCHANGED serverSide

\* .old is removed (an error is ignored) and the result is committed; the exit
\* is scheduled once the result was posted, whatever became of the post.
FinishReplacement(removed) ==
    /\ deviceUp /\ daemon.pc = "placed"
    /\ oldExe' = IF removed THEN NoFile ELSE oldExe
    /\ Conclude("succeeded", "replaced")
    /\ UNCHANGED <<connected, inbox, exe, runningVersion, deviceUp, exitDue,
                   deviceFaults, rollbackLost>>
    /\ UNCHANGED serverSide

ReportResult(sent) ==
    /\ deviceUp /\ daemon.pc \in {"report", "replaced"}
    /\ DeviceFault(sent)
    /\ upgradeCmds' = IF sent THEN AckResult(daemon.cmd) ELSE upgradeCmds
    /\ exitDue' = (exitDue \/ daemon.pc = "replaced")
    /\ daemon' = AtRest
    /\ UNCHANGED <<plans, requests, recovery, connected, inbox, ledger, exe,
                   oldExe, runningVersion, deviceUp, rollbackLost>>

\* retryCommittedAcks posts a committed result again.
RetryResult(c) ==
    /\ deviceUp /\ ledger[c] \in {"succeeded", "failed"}
    /\ TakesAck(c)
    /\ upgradeCmds' = AckResult(c)
    /\ UNCHANGED <<plans, requests, recovery, connected, inbox, deviceFaults>>
    /\ UNCHANGED deviceSide

\* The daemon exits as scheduled, or dies.
DaemonStops ==
    /\ deviceUp
    /\ DeviceFault(exitDue)
    /\ deviceUp' = FALSE
    /\ exitDue' = FALSE
    /\ connected' = FALSE
    /\ inbox' = <<>>
    /\ daemon' = AtRest
    /\ UNCHANGED <<ledger, exe, oldExe, runningVersion, rollbackLost>>
    /\ UNCHANGED serverSide

Startable == exe # NoFile

\* The service manager starts whatever is at the path; recoverInterruptedCommands begins
\* again what the ledger knows as started.  A command whose start was confirmed is left:
\* the server has it as accepted until its deadline.
DaemonStarts ==
    /\ ~deviceUp
    /\ Startable
    /\ deviceUp' = TRUE
    /\ runningVersion' = exe
    /\ \/ \E c \in UpgradeCmd :
            /\ ledger[c] = "started"
            /\ daemon' = [pc |-> "begun", cmd |-> c]
       \/ /\ \A c \in UpgradeCmd : ledger[c] # "started"
          /\ daemon' = AtRest
    /\ UNCHANGED <<connected, inbox, ledger, exe, oldExe, exitDue, deviceFaults,
                   rollbackLost>>
    /\ UNCHANGED serverSide

-----------------------------------------------------------------------------
RequestStep(q) ==
    \/ \E key \in IdemKey \cup {NoKey}, payload \in Payload :
            \/ \E batch \in BOOLEAN : RequestUpgrade(q, batch, key, payload)
            \/ RequestUnplanned(q, key, payload)
    \/ \E ok \in BOOLEAN :
            \/ CreateCommand(q, ok) \/ StartDispatch(q, ok)
            \/ FinishHeard(q, ok) \/ FinishMissed(q, ok)
    \/ PublishCommand(q)
    \/ WithdrawCommand(q)

StreamStep ==
    \/ StreamBreaks
    \/ \E ok \in BOOLEAN : StreamOpens(ok) \/ RecoverFinish(ok)
    \/ RecoverPublish

DeviceStep ==
    \/ TakeEvent
    \/ \E sent, answered \in BOOLEAN : PostAccepted(sent, answered)
    \/ AlreadyCurrent
    \/ \E ok \in BOOLEAN : FetchCandidate(ok) \/ BackUp(ok)
    \/ \E ok, back \in BOOLEAN : PlaceCandidate(ok, back)
    \/ \E removed \in BOOLEAN : FinishReplacement(removed)
    \/ \E sent \in BOOLEAN : ReportResult(sent)
    \/ \E c \in UpgradeCmd : RetryResult(c)
    \/ DaemonStops
    \/ DaemonStarts

AgentUpgradeNext ==
    \/ \E q \in UpgradeRequest : RequestStep(q)
    \/ \E c \in UpgradeCmd : CommandExpires(c) \/ CommitReady(c)
    \/ StreamStep
    \/ ServerRestarts
    \/ DeviceStep

AgentUpgradeSpec == AgentUpgradeInit /\ [][AgentUpgradeNext]_agentUpgradeVars

-----------------------------------------------------------------------------
\* Every variable keeps its type; a started command is the one being handled
\* or one the daemon died with.
AgentUpgradeTypeOK ==
    /\ plans \in [UpgradePlan -> PlanRecord]
    /\ upgradeCmds \in [UpgradeCmd -> CmdRecord]
    /\ requests \in [UpgradeRequest ->
         [pc: {"idle", "planned", "created", "unheard", "answered"} \cup DispatchPc,
          batch: BOOLEAN, key: IdemKey \cup {NoKey}, payload: Payload,
          plan: UpgradePlan \cup {NoPlan}, cmd: UpgradeCmd \cup {NoCmd}]]
    /\ recovery \in [pc: {"idle"} \cup DispatchPc, cmd: UpgradeCmd \cup {NoCmd}]
    /\ recovery.pc # "idle" => recovery.cmd \in UpgradeCmd
    /\ connected \in BOOLEAN
    /\ inbox \in Seq(UpgradeCmd)
    /\ daemon \in [pc: {"idle", "begun", "accepted", "verified", "backed_up", "placed",
                        "report", "replaced"},
                   cmd: UpgradeCmd \cup {NoCmd}]
    /\ daemon.pc # "idle" => daemon.cmd \in UpgradeCmd
    /\ ledger \in [UpgradeCmd -> {"none", "started", "confirmed", "succeeded", "failed"}]
    /\ exe \in Versions \cup {NoFile} /\ oldExe \in Versions \cup {NoFile}
    /\ runningVersion \in Versions
    /\ deviceUp \in BOOLEAN /\ exitDue \in BOOLEAN /\ rollbackLost \in BOOLEAN
    /\ deviceFaults \in 0 .. MaxDeviceFault

\* Wherever an upgrade stops (a failing rename, the death of the daemon between
\* two renames, the exit of one upgrade in the middle of the next), a whole
\* executable is left, under its own name or as .old, and under .old only while the
\* upgrade is between its renames or after the daemon died there.  Only after a rollback
\* that failed may the next upgrade remove the last one.
BinaryRecoverable ==
    exe = NoFile /\ ~rollbackLost =>
        /\ oldExe # NoFile
        /\ daemon.pc = "backed_up" \/ ~deviceUp

\* selfupgrade.go:69-70: the running executable is replaced safely and atomically, so
\* there always is one to start.
\* The code does not keep it: it is two renames, and a daemon that dies between them is
\* not started again, because nothing looks for the .old file.
ExecutableAlwaysThere == exe # NoFile

\* A plan and its key stand for one command, however the handlers of repeated
\* requests interleave between CreatePlan, Commands.Create and the end of that command.
OneCommandPerPlan ==
    \A c, d \in UpgradeCmd :
        /\ upgradeCmds[c].status # "unused" /\ upgradeCmds[d].status # "unused"
        /\ upgradeCmds[c].plan # NoPlan
        /\ upgradeCmds[c].plan = upgradeCmds[d].plan
        => c = d

\* The device has one plan in progress at a time, whichever of the endpoints
\* and requests create plans.
OnePlanAtATime ==
    Cardinality({p \in UpgradePlan : plans[p].stage = "pending"}) <= 1

\* The upgrade on both sides: a whole executable is left on the device, if not always
\* under its name, and the server follows one plan with one command.
AgentUpgradeInv ==
    /\ AgentUpgradeTypeOK
    /\ BinaryRecoverable
    /\ OneCommandPerPlan
    /\ OnePlanAtATime

\* A success is written into the ledger only when the wanted version is at the
\* executable's path, or, unless it was forced, when it runs already; then another one
\* may be at the path, which an earlier upgrade put there.
ReportedIsInstalled ==
    [][\A c \in UpgradeCmd :
         ledger'[c] = "succeeded" /\ ledger[c] # "succeeded"
         => \/ upgradeCmds[c].payload.target = exe'
            \/ /\ ~upgradeCmds[c].payload.force
               /\ upgradeCmds[c].payload.target = runningVersion]_agentUpgradeVars

\* The design's table of plan transitions: a plan whose command failed has
\* failed.
\* The code does not keep it: no handler of a final ACK moves the plan.
PlanFollowsCommand ==
    \A c \in UpgradeCmd :
        /\ upgradeCmds[c].status = "failed"
        /\ upgradeCmds[c].plan # NoPlan
        => plans[upgradeCmds[c].plan].stage # "pending"
=============================================================================
