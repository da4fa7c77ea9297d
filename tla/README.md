# home-agent: a TLA+ verification project

home-agent controls the machines of a household. A server (`cmd/homeagent-server`) keeps devices,
accounts, commands, shared files and DNS records; an agent (`cmd/homeagent-agent`) on every machine
holds one SSE stream to it, executes the commands it receives and reports addresses and health. State
is kept in JSON files that are replaced atomically (users and the control plane optionally in MySQL);
there is one server process.

The modules here model the parts of that system that are hard to test, TLC checks them on small
instances, and TLAPS proves their safety properties for every value of the constants. Every definition is
translated from the source; `PROJECT.json` maps each one to its lines, and lists the hazards the
properties are for.

`P0` below is `docs/architecture/P0命令任务模型设计.md`, `P1` is
`docs/planning/P1可靠控制平面与SSH安全加固方案.md`, `Alerts` is
`docs/fixes/P1设备健康与告警系统设计.md`.

## 1. Inventory

| Component | State it keeps | Operations | Hard behaviour |
|---|---|---|---|
| Command service (`internal/command`, `command/file`) | one record per command: status, revision, deadlines, final ACK, late ACKs, projection | create, dispatch, requeue, accept, progress, finish, late ACK, cancel, expire, mark projection, prune, interrupt at startup | Get and write are two calls with a revision check; two expiry sweepers; a write may fail; restart |
| Command handlers (`internal/api`) | none; call the service, the broker and the registry | prepareCommand, finishDispatch, deviceAck, cancelCommand, recoverCommandProjections, recoverQueuedCommands | state read before a call and used after it; one step of several failing |
| Delivery records (`command/delivery.go`) | one record per attempt | create, sent, acknowledged | written after the event left |
| Broker and SSE handler (`internal/broker`, `deviceEvents`) | subscriber channel per device, history of events, event counter | subscribe, publish, replay, close, unsubscribe | a channel closed by one goroutine while another sends; bounded channel and history; restart resets the counter |
| Agent stream reader (`internal/daemon/client.go`) | cursor (Last-Event-ID), ledger of handled IDs | connect, receive, handle | cursor stored before the event is handled |
| Agent execution and ledger (`internal/daemon`) | record per command: stage and ACK, in memory and on disk | begin, start, commit, confirm, retry, recover; delayed shutdown | crash between any two stages; memory ahead of the file after a failed write; lost requests and answers |
| Accounts and sessions (`internal/auth`) | users, sessions, login limiter; `auth.json`, users table | setup, login, logout, password, role, disable, delete | the last owner; memory changed before a write that fails; a database laid over the file at a start; parallel guesses |
| Registry, grants, enrolment (`registry`, `device`, `store`) | devices and grants in memory, the control plane and its file, claim tokens | save, delete, grant, transfer, claim, facts | two copies that mirror each other; a commit that reports an error after its rename; stale device records |
| Agent self-upgrade, plans (`daemon/selfupgrade.go`, `upgradeplan`) | plans, commands, executable and its `.old` | request, batch, publish, download, replace, report, exit | a crash or a failing rename between two renames; the exit of one upgrade in the next; repeated requests |
| Upgrade journal (`daemon/upgrade/journal.go`) | header, chained records | open, append, close | torn or unsynced record, appended to afterwards |
| GitHub synchronisation (`internal/githubsync`) | token, device flow, keys; two files | start, poll, register key, disconnect, disable | calls to GitHub outside of the lock, events afterwards |
| Device network state and DDNS (`devicestate`, `prefixstate`, `ddns`, handlers) | record per device, prefixes per router, DNS record at the provider | store report, store prefixes, choose address, reconcile, grace period | two locks that do not exclude each other; whole-record saves of stale copies; provider calls that fail after taking effect |
| Agent network reporters (`homeagent-agent`) | revision file | allocate, send, recover from 409 | several report goroutines; lost answers; agent restarts |
| Domain bindings (`internal/domainbinding`) | bindings with revision, tasks with attempts | preflight, create, enable, disable, delete, sweep | the provider is written outside of every lock while the binding changes |
| Health evaluation (`internal/health`) | health snapshot per device, event log | evaluate, sweep | debouncing and hysteresis; snapshot saved before its events, listener after both |
| Alerting (`internal/alerting`) | alerts with `FiringNotified`, log of delivery attempts, table of active retries | open, update, resolve, notify, retry, cancel retries, recover | retry goroutines that save stale copies and race with resolution; failed writes; restart |
| Server network coordinator (`internal/servernetwork`, `networkaddr`) | configuration, state per record, watcher | start, reconcile, detect, validate, update, stop | lock held while waiting for a goroutine that needs it; a settings page older than the settings |
| Shared files and tokens (`fileshare`, `fileaccess`) | records, links, objects, quota; tokens | upload, commit, delete, link, revoke, expire | object and metadata are two steps; a token revoked during a transfer |
| Server upgrade (`serverupgrade`, `versionstatus`, runner script) | operations and their file, executable, backup, known release | prepare, fetch, replace, restart, roll back, judge | a crash at every step; a supervisor that acts on the file |

How they interact. A handler of the API creates a command in the command service, publishes it with the
broker, and records the outcome of the publication. The broker puts the event in the channel of the
device's SSE handler, which writes it to the agent's connection. The agent stores the cursor, looks the
ID up in its ledger, moves the record through its stages around the side effect, and posts ACKs; the
`deviceAck` handler finishes the command and projects the result into registry, plans and GitHub keys.
Independently, the agent reports its addresses, the router its prefixes, and the DDNS service reconciles
the DNS record on a ticker and after a changed report. Health reports feed the evaluator, whose events
feed alerting. Registry and claims meet in the control plane, which also holds the domain bindings.

## 2. Modules

| Module | Models | Run by | Proved in |
|---|---|---|---|
| `CommandModel` | the data of a command: statuses, `valid`, deadlines, retention, idempotency as operators | (used by `CommandService`) | `CommandServiceProofs` |
| `CommandService` | the service over its repository, its callers, sweepers, crash and startup | `MCCommandService` | `CommandServiceProofs` |
| `CommandLifecycle` | abstract: what an administrator is promised about the life of one command | instantiated by `CommandService` | `CommandServiceProofs` |
| `EventStream` | broker, SSE handler, agent stream reader, device deletion, restarts | `MCEventStream` | `EventStreamProofs` |
| `AgentLedger` | command execution on the agent: main, shutdown timers, retry loop, ledger in memory and on disk | itself, `MCAgent` | `AgentLedgerProofs` |
| `CommandExecution` | abstract: what an agent promises to whoever sent it commands | instantiated by `AgentLedger` | `AgentLedgerProofs` |
| `AgentUpgrade` | upgrade plans and requests on the server, replacement of the executable on the device | `MCAgent` | `AgentProofs` |
| `UpgradeJournal` | the journal's file, its playback and its appends | `MCAgent` | `AgentProofs` |
| `GitHubSync` | credentials, device flow, device keys, events to the agents | itself, `MCAgent` | `AgentProofs` |
| `Accounts` | users, sessions, login limiter, `auth.json` and users table | `MCAccess` | `AccessProofs` |
| `DeviceRegistry` | registry, control plane, grants, claims, legacy import | `MCAccess` | `AccessProofs` |
| `DeviceNetwork` | agent reports, device and router handlers, DDNS reconciler, DNS provider | itself, `MCDns` | `DnsProofs` |
| `DomainBinding` | bindings, tasks, the coordinator's sweep, the zone | `MCDns` | `DnsProofs` |
| `AlertDelivery` | health events, alerts of one fingerprint, notifications, retry goroutines, restart | itself | `AlertDeliveryProofs` |
| `ServerNetwork` | the server's own records: coordinator, watcher, settings page | itself, `MCServer` | `ServerProofs` |
| `ServerUpgrade` | operations, executable, backup, supervisor, release status | `MCServer` | `ServerProofs` |
| `FileShare` | files, links, objects, quota, uploads; tokens and their user | `MCServer` | `ServerProofs` |

The `MC*` modules hold symmetry sets. `MCAccess`, `MCAgent`, `MCDns` and `MCServer` put components that
share no state under one run: the variable `subject` is chosen at the start and says which of them moves, so
the state space is the sum and not the product of theirs. Each component checks deadlock-free only on its own
terms, because a component whose bounds are used up (all revisions given, the last start made) stands still;
these runs therefore say `CHECK_DEADLOCK FALSE`, as do the three runs of violations whose component may stop.
In the runs of `CommandService`, `EventStream`, `AgentLedger` and `AlertDelivery` deadlock is checked: something
can always happen there, even at the bounds.

### CommandService

`commands` is the map of the repository and at the same time its file: `write()` replaces the file before
it returns and restores memory when it cannot. A service operation is two steps, because the
repository's mutex covers one repository call only: `Begin...` reads the record and stores what the
goroutine carries in `calls[c]`; `Commit...` is the repository call that compares the revision. `sweep[s]`
is the rest of the list a sweeper works through. `Crash`, `Boot` (`InterruptNonTerminal`) and `Serve`
(`recoverCommandProjections`) are the process. Payloads, results and texts are digests from small sets. A
request that an existing command answers, and a create whose write fails, change nothing and are
therefore stuttering. The clock reading of a transition is taken with the Get; a commit in between would
make the reading irrelevant, because the revision no longer matches.

`CommandLifecycle` knows phases only: absent, waiting, out, running, closed with the device's outcome or
with a verdict of the server, forgotten. `ImplementsLifecycle` maps the stored status to the phase and
the final ACK to the outcome, and says that every write of the service is one allowed move.

### EventStream

A connection `c` goes through `free, checked, subscribed, streaming, leaving, gone`: `deviceEvents` looks
the device up, subscribes, replays or sends a snapshot, forwards, and unsubscribes in its deferred call.
`Unsubscribe` keeps the detail of the closure in `broker.go`: it removes whatever channel the device has
in the map. `Restart` empties the broker and resets its counter; agents keep cursor and ledger. `cursor` and
`header` hold the event the agent has seen, of which `Replay` knows the ID only; `mistaken` is history: the
connections that `Replay` resumed from another event with that ID.

### AgentLedger

`mem` and `disk` are the two copies of the ledger: a method changes memory first and then writes, so a
failed write leaves memory ahead. `main` is the goroutine that handles events, `timer[id]` a delayed
shutdown, `retry` the list of the ACK retry loop. `PostFinal` models request, server and answer: the
request may be lost, the answer may be lost, and only an answer confirms the record. `Crash` loses
everything but `disk`; `Boot`, `Recover` and `Serve` are `openCommandLedger` and
`recoverInterruptedCommands`.

`CommandExecution` knows neither stages nor files: how often a command ran and the answer the server has of it.
`ImplementsExecution` maps `executed` to the first and `server` to the second. A shutdown runs once, and not any
more when the server has a definite answer of it; after an uncertain one it may still run, because the delayed
shutdown goes on when its command is delivered again. Whatever else an agent applies may be applied again, also
after its answer arrived, when the answer's write failed and a crash followed (`CompletedNotRepeated` says that
only such a failure lets it). Success is reported of what ran; failure of what ran, of a shutdown, or of a payload
that does not parse, which never runs; uncertainty of shutdowns only; and the first answer stays.

### AgentUpgrade and UpgradeJournal

`requests[q]` is a handler of an upgrade request or one device of a batch: it creates or finds a plan, creates a
command, starts its dispatch, publishes it and notes what became of that (`finishDispatch`), and other requests run
between these steps. `recovery` is `recoverQueuedCommands` of the stream that opened last, one at a time and with the
same steps. `inbox` is the device's stream, `daemon` where the device is in `handleEvent` and `PerformSelfUpgrade`;
`exe` and `oldExe` are the executable and its `.old`, moved by two renames that may fail or be cut off. A payload is a
version and `force`, which replaces the binary also when that version runs. An answered accepted post confirms the
ledger's record (`PostAccepted`), and such a command is not begun again by a start. Of a command `closed` stands for
succeeded, timed out, canceled and interrupted, which nothing here tells apart; revisions and deadlines are
`CommandService`'s, writes of the ledger that fail and what lies between begin and start are `AgentLedger`'s, replay is
`EventStream`'s. In `UpgradeJournal` a record stands for the chain of the fields appended up to it: its
hash is the chain, its revision the chain's length, so that playback's comparison of hashes and revisions is a
comparison of chains. An append may leave nothing, a torn record, or a whole one whose sync failed.

### GitHubSync

`ghMem`/`ghFile` are the service's memory and its two files, `pollers` the goroutines of device flows, `farewell`
a disconnection, `dismiss[d]` the disabling of one device, `enrol[d]` the registration of its key. Each call to
GitHub, each write and each event is a step of its own. `ghAgent[d]` is what the device has on disk, `ghCommands`
the synchronisations its queue holds.

### Accounts and DeviceRegistry

`users`/`sessions` are the session manager's memory and `authFile` its file; most operations leave memory
changed when the write fails. `revocation` is history: of each session whether its end was confirmed to the caller
(a logout and a logout everywhere always are, the rest only without an error), whether a write since then has
succeeded, and whether a start from the older file has undone it. `userTable` is the MySQL table, filled once and laid over the file's users at
every start. A login is four steps (limiter, password, limiter, session). `registry` is the registry's memory,
`plane` and `planeFile` the control plane and its file: a commit may fail before or after the file was replaced.
`requests[r]` is a handler between its permission check and its action; `unsaved` says that a write which is not
taken back has failed.

### DeviceNetwork and DomainBinding

One device on one network. An address stands for a candidate that passed the filters, a set of prefixes
for the addresses it contains. `state` is the record in the store; `handler` is the handler that holds
`networkStateMu` with its copy of the record, `ddns` the reconciliation that holds the device's lock with
its own copy. Both save whole records. `reports[r]` is a goroutine of the agent with its snapshot and
revision. A provider call may take effect and still fail. `Outcome` says whether saves whose error the
reconciler ignores may fail in a run.

`bindings` and `tasks` are the snapshot of the control plane, changed one compare-and-swap at a time; `sweep` is
the coordinator with the list it read, the tasks that were due and the one it applies; `creating` and `enabling`
are handlers that asked the provider and have not committed yet. `records` is the zone, which somebody else edits
as well.

### AlertDelivery

The alerts of one device and one reason code (one fingerprint). `health` is that reason in the snapshot, in
memory and in the file; `alerts`/`alertsFile` and `log`/`logFile` are the two repositories' maps with their
files, which stay behind when a write fails. `handler` is the one thread that holds the device's evaluation
mutex: `EvaluateDevice` saves the snapshot and the events and starts it, `HandleOpened` or `HandleResolved`
take a copy of the alert, `SaveThenNotify` saves it and decides on a notification, and `HandlerDeliver`,
`HandlerRecord`, `HandlerRegister` and `HandlerMark` are `dispatchNotification` and what follows it. A worker
is a retry goroutine: it waits, checks channel and alert (and keeps a copy), delivers, records, and marks,
ends or registers its successor, which is the same worker in the model. `active` is `activeRetries`; cancelling
and registering are separate critical sections, so they are separate steps. `Restart` loses all but the files;
`RecoverOne` and `RecoverDone` are `RecoverPendingRetries`, which runs before the listener is registered. A
silence is a free choice at the moment the silences are read. `received` and `lost` are history: what receivers
got (a request may arrive although its answer is lost), and whether an event was lost between two writes.

### ServerNetwork, ServerUpgrade and FileShare

`mu` is the coordinator's mutex with its holder; `threads[t]` a reconciliation by the loop, the watcher's
callback or an administrator's update, `drafts[a]` an open settings page, `validated` the validations handed
out, `hostDNS` the provider. `StartCoordinator` is the start in `serve`: any setting of the flag or environment with any
records, replaced by the file's when there is one that can be read; `NoConfig` stands for no file. In `ServerUpgrade`,
`operations`/`operationFile` are the records and their file with status and error code, `replacing` the goroutine of
`Run` or of a direct replacement, and the supervisor's script rolls back by what the file says. A failure may be
recorded or, when its save fails too, not (`failed_unsaved`). In `FileShare` a commit is one step that may be cut off between its rename and its write; a token's
guard keeps the token service's lock to the end of the commit. At a start every error of `os.Stat` counts as a
missing object: `OpenShare` keeps any part of the records that have one (`kept`), drops the others with their links
and removes their objects; those removals are taken to succeed. `deadLinks`, `condemned` and `lateCommit` are
history: what was confirmed to a caller.

## 3. Properties

Invariants with several parts are checked under one name; the parts are definitions of their own.

* **Commands.** `SlotExclusive`: commands in flight on a device do not compete for a slot. `KeyNamesOne`: an
  idempotency key names one command on record. `CommandInv`: the types, `LateAckIsAudit` (only a command closed
  without an outcome keeps a late ACK, and one of them) and `DeadlineArmed` (what is out or running has a deadline
  within policy). `ClosedForGood`: a closed command never changes its outcome. `NoEarlyTimeout`: a stale list of a
  sweeper never closes a command whose current deadline is not past. `ForgetsOnlyTheOld`: retention.
  `OverdueIsResolved`: an overdue command is resolved, unless a requeued one blocks the sweep.
  `ImplementsLifecycle`: refinement.
* **Streams.** `SubscribersOpen`: no send on a closed channel. `NoOrphan`: no handler waits on a channel nobody
  will close. `ResumeMissesNothing`: a connection that resumed from the event its agent had seen misses only what a
  full channel dropped. It says nothing of a connection that resumed from another event with the same ID, see
  `ReplayIsSafe` below.
* **Ledger.** `CompletedNotRepeated`; `ConfirmedIsRecorded`: no result is given up that the server
  has nothing of; `RecoveryCoversStarted`: whatever was started has a result or somebody who will look at it;
  `ImplementsExecution`: refinement, which contains `ShutdownOnce` (no shutdown runs twice, proved by itself as
  `ShutdownAtMostOnce`; of commands that are applied it is only proved, the run has none); under fairness
  `EveryResultReported`.
* **Agent upgrade.** `AgentUpgradeInv`: types, `BinaryRecoverable` (wherever an upgrade stops a whole binary is left
  at its path or, between the two renames, beside it as `.old`, unless a rollback failed; that one is always at the path
  is not true, see `ExecutableAlwaysThere`), `OneCommandPerPlan`, `OnePlanAtATime`. `ReportedIsInstalled`: success is
  written only when the wanted version is at the executable's path or, without force, is the one that runs. `JournalInv`: types and `StateMatchesChain`.
* **GitHub.** `GHInv`: types and `ListedKeyLives`: a key the service lists is at GitHub, as long as no call and no save failed.
* **Access.** `AccountsInv`: types, `OwnerRemains`, `RevokedStaysRevoked` (a confirmed revocation holds while the server
  runs on, and for good once it or a later change was written), `SessionsFollowUsers`.
  `GuessesBounded`: parallel guesses pass the limit by no more than their number. `RegistryInv`: types,
  `GrantsHaveDevices`, `HardwareOnce`, `MirrorsControlPlane`. `ClaimsWithinUses`.
* **DNS.** `RevisionNamesSnapshot`: one revision never stands for two snapshots, in any copy of the record
  and among the reports on their way. `BindingInv`: types, `NameOnce`, `ActiveTaskIsCurrent`.
  `SyncedIsConfirmed`, `StoppedStaysQuiet`: no result of an earlier revision shows in a binding.
* **Alerts.** `NotifiedWasReceived`: `FiringNotified` is set only for an alert whose firing somebody received,
  whichever copies are saved. `NoOrphanResolved`: no resolution is received without its firing. `AttemptsInOrder`:
  the attempts of a notification are numbered without gap or repetition and end with a delivery or a refusal,
  so no two chains ever work on it. `FiringHasAlert`: unless an event was lost, a firing device has a firing alert
  when its handler is done. Under fairness `RetriesEnd`.
* **Server.** `NetInv`: types, holders of the mutex, `EnabledWasValidated` (what is enabled is the environment's, version 1,
  or was validated for these records and the version before). `WritesInOrder`; proved only:
  `ConfirmedWasServed`.
  `OperationInv`: types, `OneOperation`, `FailedLeftExecutable` (an upgrade that reports `upgrade_failed` left the
  binary), `SucceededIsWritten`. `OutcomesStay`.
  `ShareInv`: types, `QuotaKept`, `ListedHasObject`, `DeadLinksStayDead`, `TokensWithinLimit`.
  `RevokedCommitsNothing`: nothing is committed with a token after its revocation was confirmed.
  `StoredUntilDeleted`: a confirmed upload keeps object, record and size until it is deleted or a start cannot look
  at it; what is gone never comes back.

## 4. Runs

| Run | Shows | Bounds |
|---|---|---|
| `command_races` | `CommandInv`, frozen outcomes, no early timeout, refinement of `CommandLifecycle` | one upgrade command, two handlers, one sweeper, revision 4, clock to 3: enough for a requeue and a second dispatch, an accept or a cancel between a sweeper's list and its write, a crash in each gap |
| `command_population` | slots, keys, retention, resolution of overdue commands (fair) | two commands of the kinds that exclude each other, one key, one handler |
| `stream_delivery` | no send on a closed channel, no orphan, nothing missed after a resume from the event last seen | one device, two connections, channel of 1, history of 2, three publications: the channel and the history both overflow |
| `ledger_report` | refinement of `CommandExecution`; every result on disk reaches the server (fair) | one shutdown and one unreadable command, two crashes: a second one strikes the recovery of the first, and duplicates of the shutdown meet its timer and its retries |
| `agent` | no result given up, nothing that started forgotten, agent upgrade, journal, GitHub keys | one shutdown and one applied command with one crash; two requests, two plans, two commands, one key, one device fault, payloads without force, with it, and with a key (`UpgradeInput`), handlers that overlap until the fault (`UpgradeBounds`); two fields, four appends, two of them failing, three openings; one device, two grants, two pollers, two keys, one fault, one start |
| `access` | accounts with limiter, registry with claims | two users, one session token, two clients, one failing write, two starts, versions to 2; two devices and persons, two requests, two claims, one fingerprint, one failing commit, two starts |
| `alert_delivery` | marks, resolutions, attempt numbers, alerts of firing devices, end of retries (fair) | one channel, two alerts, two notifications, two retry chains, three attempts (six in the code), one failed write, one crash: a first attempt, a repeated one and the last one all occur, and a retry of the firing overlaps with one of the resolution |
| `dns` | device reports, domain bindings | two reports, three revisions, one crash, failing writes; two bindings of one name, two addresses, two revisions, two attempts, one foreign record, one provider fault |
| `server` | own DNS records, own upgrade, shared files | two administrators, one record, two addresses, configuration to 3, one fault, one address change, two starts, of which one behaviour combines what weighs six (`NetBounds`, a start counts twice); two operations, three releases (one that does not start), one fault, two starts; one file and link, two uploads and tokens, quota of 2, token limit 1, one fault, two starts |
| `network_converges` (violation, fair) | a record that says `synced` although its DNS record was deleted is never repaired | one report, a router that reports an empty and a full prefix set |
| `server_stop_ends` (violation, fair) | Stop and the watcher's callback wait for each other | one administrator, no faults |
| `github_token_blank` (violation) | a queued synchronisation replaces a device's token by nothing | one device, one poller |

In every component two of whatever races are there (handlers, requests, administrators, uploads, retry
chains), one fault that may strike any step, and at least one restart after the first. Two objects of a kind
are enough because the properties relate at most two (two commands of a slot, two bindings of a name, two
keys); the theorems of section 5 remove the bounds for all of them. Each bound
(`MaxRev`, `Horizon`, `MaxPublish`, `MaxCrash`, `Max...Fault`, `Max...Start`, ...) is a guard of the action that
counts. `MaxRev` of `CommandService` stops new operations on a record, not the ones under way. Symmetry is used
for commands and handlers, connections and command IDs, clients and requests of the access run, administrators, pollers,
GitHub grants and report goroutines, none of which is ever chosen with CHOOSE or mentioned in a temporal property that is checked under it.

### Fairness

* `CommandService`: the tickers of `serve` fire, the loop of `Expire` runs on, its writes do not fail for ever,
  and a supervisor starts a dead process again. Nothing is assumed of handlers or devices.
* `AgentLedger`: its goroutines run, the service manager restarts it, and a post repeated for ever gets
  through once (the retry loop has no limit).
* `DeviceNetwork`: `StartBackgroundSweep` reconciles every minute (weak fairness of the reconciler's steps) and
  a provider that is asked again and again answers in the end (strong fairness of a successful upsert). With
  this the violation of `Converges` is not an artefact of a system that stops: the reconciler runs for ever
  and finds nothing to do.
* `AlertDelivery`: the goroutines run, a timer fires (`time.After`), and a delivery returns because the HTTP
  client has a timeout of five seconds. Nothing is assumed of evaluations or restarts.
* `ServerNetwork`: a thread that can take the mutex again and again takes it, every DNS call ends within its
  timeout, and the watcher's goroutine and `Stop` go on when they can. Even so `StopEnds` fails: the two wait for
  each other.

### Disagreements the violation runs show

1. `network_converges`: the integration design promises convergence to the right address; a copy saved by
   `putRouterPrefixes` across a reconciliation ends in a state that is never looked at again (in TLC's trace after
   an earlier save that failed).
2. `server_stop_ends`: `watcher.go:78` says that Stop terminates the watcher; `Coordinator.Stop` waits for it with
   the mutex held that its callback needs (`coordinator.go:163`).
3. `github_token_blank`: P0:451 says a synchronised device has its credentials; a queued command is published
   as it was stored, without the token (`api.go:1774`).

### Seen while modelling

Definitions the code does not keep, which stay in their modules with a comment and are in no run:

* `EveryDeadlineCloses` (`CommandService`): P0:208 says every non-terminal command is timed out at its deadline;
  `Expire` stops at a requeued one, which keeps its accept deadline, and never gets to the others.
* `OnlyDuplicatesSuppressed` (`EventStream`): P1:128 asks for stable event IDs; the broker's counter restarts
  from 1, and the agent's ledger takes new events for old ones.
* `ReplayIsSafe` (`EventStream`): `broker.go:104` says that Replay refuses what it cannot replay safely. An ID that was
  used again since (the counter after a restart, a command that was published twice) counts as known, and what was
  published before the new event with that ID is skipped silently.
* `ConfirmedStaysRevoked` (`Accounts`): `authLogout` and `authLogoutAll` ignore the error of the write and answer
  success (`auth_handlers.go:178`, `:277`); a server that starts from the older file accepts the session again.
* `RecoveredHasResult` (`AgentLedger`): P0:278 promises `outcome_uncertain` for a shutdown found started; the
  answer to the accepted ACK has already moved its record to `ack_confirmed`.
* `AtMostOneFiring` (`AlertDelivery`): Alerts:400 says one fingerprint has at most one firing alert; a retry that
  delivers while its alert is resolved saves the copy it read before (`alerting/service.go:321`).
* `PlanFollowsCommand` (`AgentUpgrade`): a plan stays pending when its command fails; no handler moves it.
* `ExecutableAlwaysThere` (`AgentUpgrade`): `selfupgrade.go:69-70` promises an atomic replacement of the running binary.
  It is two renames; a daemon that dies between them, or whose rollback fails too, leaves nothing at the path, and
  nothing looks for the `.old` file, so the service manager has nothing to start.
* `AckedIsReadBack` (`UpgradeJournal`): a record appended behind a torn one, or to a file whose header is damaged,
  is acknowledged and not read back.
* `LegacyImportedOnce` (`DeviceRegistry`): `ImportLegacy` runs at every start and imports again what has become
  empty: the last grant or token that was removed comes back from the old files.
* `GivenUpStaysGivenUp` (`DomainBinding`): a task that failed for good is queued anew by the next sweep, with its
  attempts at zero.
* `ExecutableWhole` (`ServerUpgrade`): the file says `replacing` before the backup is complete; when the server
  dies in between, the supervisor copies the unfinished backup over the executable.
* `FailedChangedNothing` (`ServerUpgrade`): a record with the status failed need not mean that the binary is the old
  one: a start that runs neither the old nor the wanted version writes `failed` with `version_mismatch` for an upgrade
  that replaced it (`operation.go:79-83`).
* `AlwaysValidated` (`ServerNetwork`): without a saved configuration the coordinator starts enabled when the flag or
  `HOMEAGENT_SERVER_IPV6_SELF_UPDATE` says so, with the environment's records, as version 1 and without a validation
  (`main.go:541-545`).
* `SavedIsInForce` (`ServerNetwork`): a start that cannot read the file goes by the environment, although the page had
  switched the feature off, and counts versions from 1 again.
* `DeleteFailedUnavailable` (`FileShare`): a file whose object could not be removed is available again after a
  restart.

Others, not stated as definitions: the reconciler saves the record it read before a provider call
and so replaces a report accepted meanwhile by the older one until the next heartbeat (`ddns/service.go:204`
against the comment at `api.go:2563`); a firing retry that ends cancels the registered retry of the
resolution (`alerting/service.go:323`); a retry of a create whose command is still in flight is
answered differently from P0:236 (`repository.go:68`); a result may be projected twice where P0:247 says
once (`api.go:1950`); a late progress report moves progress back (`repository.go:361` against
`docs/features/macOS客户端升级性能优化设计方案.md:239`); events recovered from the queue may precede
replayed ones (`api.go:1682` against P1:147); a device deleted between lookup and Subscribe keeps its stream
(`api.go:1670`); a command delivered twice while it runs may be reported `outcome_uncertain` without any
restart (`client.go:360` against P0:274); a `prepared` operation left by a crash of the server stays open and
refuses upgrades to other versions; an upgrade whose start was confirmed is not taken up again by a daemon that died
(`client.go:739`) and ends with its deadline, whatever the device did; success may be reported because the wanted version
runs although an earlier upgrade has put another file in its place (`selfupgrade.go:85`); a handler and the recovery of a
stream may both publish one command (`api.go:1376`, `:1788`); a failed operation whose record cannot be saved stays
`replacing` (`operation.go:139`).

## 5. Proofs

Eight modules hold the theorems; `PROJECT.json` lists 55 of them. Each holds for every value of the constants
that satisfies the named assumptions of its module: bounds and timeouts are naturals (positive where zero would
switch a mechanism off, at least two attempts in `AlertDelivery`), the placeholders (`NoCall`, `NoAck`,
`NoDevice`, `Unset`, ...) are outside of the sets they stand beside, threads and administrators are different,
addresses and versions are positive naturals (their order), and the sets whose members are counted (`Addr`,
`Client`, `UpgradeOp`, `File`, `Upload`) are finite. TLC evaluates all of them. All safety invariants, action
properties and refinements of the passing runs are theorems.

The proofs have one shape. The checked invariant is seldom inductive; an inductive one is stated beside it as
a conjunction of named parts, one lemma per action (or per kind of action) shows that a step keeps it, and the
last step of the theorem combines them with PTL. The inductive invariants were checked with TLC first.

* `CommandServiceProofs`. `TypeCorrect` is inductive by itself. `Evolves(c, d)` says what any step but `Create`
  may do to a record: it keeps the request, a closed record stays closed with its outcome or is dropped, a
  change moves the revision on. It is proved once for every action, and `SlotsExclusive`, `KeysNameOne` (with
  `CreateStops` for the one step that adds a record) and `OutcomesFrozen` follow. `TimeoutsNeverEarly` needs
  `SweepsKnow` (a listed command that is still at the listed revision is past its deadline) and that no
  handler asks for `timed_out`. `CommandsConsistent` rests on `ServiceInv`: what a call carries from its Get
  (`CallsKnown`: a past clock reading, a late ACK only for a record that was closed without an outcome) and what
  a record says of itself (`RecordsKept`). `ForgetsOld` counts what `pruneIDsLocked` leaves.
  `LifecycleImplemented` is the refinement: `ServiceInv` makes initial states map to initial ones and every step
  to a move of `CommandLifecycle` or a stutter.
* `EventStreamProofs`. `StreamInv` = the shape of the broker's state, fresh connections are open,
  `SubscribersOpen` and `NoOrphan`. The two properties need each other: unsubscribe of an old handler may remove
  the new one's entry from the map only together with closing it. `ResumesMissNothing` needs `ResumeInv`: every
  connection that follows since its resume (in whatever order Subscribe, publications and Replay came) holds, in
  its channel, on the wire or in the agent, each retained event behind the one its cursor names; `ReaderOK` says that a
  device reads one connection, `HistoryOK` that a history holds events in the order of their publication.
* `AgentLedgerProofs`. `ShutdownOnce` is not inductive: it needs that whoever can still execute a shutdown (main
  past `startCommand`, a waiting timer) excludes every other one and an earlier execution, and that a record past
  `prepared` in both copies never goes back (`OnceInv`). `ResultInv` says who may store or post a result.
  `StartedIsCovered` needs `CoverInv`: a dead agent's memory is its disk, a serving one has nothing left to
  recover, and a shutdown that ran has a result, a confirmed record, a timer, main, or a place in `todo`.
  `ExecutionRefined` rests on all of them and on `AnswerInv`: an answer, in whichever copy of the ledger, thread,
  list or record of the server it is kept (`Claims`), is justified by what has run (`Justified`), and a definite
  answer of a shutdown means that nobody holds it and nobody can start it again (`Settled`). What justifies an
  answer is stable, so answers may be kept, lost and sent again in any order; each step is then a run, a report
  of an answer that is justified, or a stutter.
* `AgentProofs`. `JournalIInv` adds that a record whose predecessors hold stands for exactly the fields up to it,
  and that the first record starts the chain. `UpgradeParts` says which request may still create a command for a
  plan (`PlannedOK`, `KeyOnce`, `CmdPlanOK`, `PlanOnce`: a plan belongs to its command, or to the requests that have its
  key, or to the one request that created it), what handlers, recovery, stream and daemon hold (`RequestCmdOK`,
  `RecoveryOK`, `InboxOK`, `DeviceCmdOK`: a command on record), and where the executable is at each point of the daemon
  (`ExeOK`). `GHParts`: each key has one owner (`KeyOwners`),
  and a key that is listed or about to be is at GitHub and in nobody's list of keys to delete (`KeysLive`).
* `AccessProofs`. `AccountsParts`: owners in memory, in the file and in the table; sessions follow users in both
  copies; a token whose revocation was confirmed is gone from memory, and from the file once that was written, and tokens are given once; an address that was never locked has
  failures left. `RegistryParts`: every snapshot that can be served is valid and has uses left for the claims
  still to come (`UsesLeft`: uses made and uses left never exceed the limit in any copy); `MirrorOK` says which
  device may differ between registry and control plane.
* `DnsProofs`. `NetworkInv` = `TypeOK`, `Allocated` and `RevisionNamesSnapshot`. `Allocated` (nothing
  stored, copied or sent carries a revision above the agent's file) is what makes a new revision fresh. Every
  step of handlers and reconciler either installs a report on its way or moves a copy of an existing record
  (`CopiesKeepRevisions`), so stale saves are harmless for this property, while they break
  `Converges`. `BindingParts`: a task, a listed binding, a taken task and a pending request each either agree with
  the binding's present revision or are about an earlier one (`Fits`, `ViewOK`, `ApplyOK`, `EnableOK`), and the
  address wanted changes with the revision only; so every result that passes the revision check is about the
  present address.
* `AlertDeliveryProofs`. Four invariants. `TypeInv` = `TypeOK` with `Ranges` (what the handler works on at each
  point). `Knowledge` makes `NotifiedWasReceived` and `NoOrphanResolved` inductive: every copy held by the
  handler or a retry that says notified, every attempt, log entry or pending retry about a resolution, and
  every thread about to mark, is about an alert whose firing was received; since `received` only grows, no stale
  copy can break it. `Alive` makes `FiringHasAlert` inductive: what a retry saves was read while the alert fired,
  and only the handler of a resolved device saves a copy that does not fire, so a late save may revive an
  alert but never removes one. `OrderInv` makes `AttemptsInOrder` inductive, stated without cardinalities
  (`InOrder`: each number is the only one of its note and has its predecessor): a notification on a channel is
  held by at most one of the handler, the startup recovery and the retry chains, and the holder's number is the
  next one; `DownwardClosed` turns that back into the counted form.
* `ServerProofs`. `NetParts`: whoever writes holds the mutex and has the address of the last detection (`Current`),
  and a draft's token stands for what it shows, as an enabled file does (`TokensHold`: it was validated and names its
  records, so that a start that reads it adds nothing of the environment's). `OperationParts`: the file is behind memory, never
  ahead (`FileBehind`), a run is where its record says (`RunsMatch`), an operation that replaced the binary has not
  reported that it failed (`ReplacedOK`). `ShareParts`: what is listed has its object; a link whose end was confirmed is severed in
  memory and in the file (`Severance`); a token that the file has and memory has not is of an earlier version of
  the user (`TokenBounds`), which is why tokens that come back at a start never exceed the limit. `QuotaParts`:
  `used` is the sum of the records' sizes, of a stopped server too (`StoredSizes`), `reserved` is what the uploads
  took (`TakenRoom`), and a record that a start will find with its object is in memory with the same size
  (`Recoverable`), so that what a start recounts is never more than what was counted. The model adds sizes with
  `FoldSet`, which is recursive and whose order no proof knows. The proofs count instead: a sum is the number of
  its units, one pair for each byte (`Total`), so that the library's facts about cardinalities do the arithmetic;
  that the fold gives this number follows without induction over data: the function that satisfies the fold's
  equations exists (`Total` does) and is unique, by a smallest subset on which two of them would differ
  (`SubsetMinimum`, from `WFMin`). `UploadsSurvive` uses both invariants.

Only model-checked, and why:

* the liveness properties (`OverdueIsResolved`, `EveryResultReported`, `RetriesEnd`): fairness and ENABLED are
  outside of what the prover does.

## 6. Not modelled

The texts of messages, logging, HTTP routing, JSON and TLS; what a command does to the machine (one step with
an outcome); the platform address providers and the debouncing watcher of the agent; a corrupt revision file; the
health rules (one reason that fires or not stands for them), the limit
of 3000 delivery attempts in the log, `TestChannel` and the list queries of alerting; the avatar of GitHub; the
replacement of an executable across directories and the engine behind the journal, which no command uses yet; the
expiry of tokens and validations, which only refuses; the public download's rate limit; the DNS
provider's protocol; the MySQL store's statements; Consul lookup; SSH key files; Wake on LAN; service
installation; the quality gate and the web UI. `PROJECT.json` lists every component with its status and reason.

## 7. Plan

Modelled and proved: the seventeen modules of section 2. What is left, by weight:

1. Proofs: that `AccountsInv`, `BindingInv` and the others are implied stepwise by abstract specifications worth
   stating (a session's life, a binding's life), in the way `CommandLifecycle` and
   `CommandExecution` are for commands.
2. `HealthRules`: the health rules (debouncing, hysteresis, offline pending, severity) as operators checked
   against a reference over bounded histories of observations.
3. A composition of `CommandService`, `EventStream` and `AgentLedger` with delivery records: no canceled
   command is executed, and a delivery is recorded for what was sent.
4. SSH key files as pure operators on the managed block.
