----------------------------- MODULE GitHubSync -----------------------------
(***************************************************************************)
(* GitHub credentials and device keys (internal/githubsync, its handlers   *)
(* in internal/api and the agent's side in internal/daemon).               *)
(*                                                                         *)
(* The service's lock covers single reads and writes of memory.  Between   *)
(* them come the calls to GitHub, the credentials file and, after the      *)
(* lock, the events to the agents.  An OAuth token is a grant, a code is   *)
(* named after the poller that waits for it, a key has a number that is    *)
(* its fingerprint and its ID at GitHub.                                   *)
(***************************************************************************)
EXTENDS Naturals, Sequences

CONSTANTS
    GHDevice,      \* devices
    GHGrant,       \* tokens GitHub may grant, each once
    NoOAuth,       \* no token
    Blank,         \* what a request that was stored without its token holds
    Poller,        \* polling goroutines, one per StartDeviceFlow
    NoCode,        \* no device flow
    MaxKeyNo,      \* keys an agent may generate
    MaxGHRequest,  \* requests of the administrator and connections
    MaxGHFault,    \* failing calls and saves
    MaxGHStart     \* restarts of the server

ASSUME GitHubSyncAssumption ==
    /\ NoOAuth \notin GHGrant /\ Blank \notin GHGrant \cup {NoOAuth}
    /\ NoCode \notin Poller
    /\ MaxKeyNo \in Nat /\ MaxGHRequest \in Nat
    /\ MaxGHFault \in Nat /\ MaxGHStart \in Nat

VARIABLES
    ghMem,        \* Service: creds, deviceFlowCode, pollCancel, deviceKeys
    ghFile,       \* github_credentials.json and github_device_keys.json
    pollers,      \* the polling goroutines
    farewell,     \* the Disconnect under way
    dismiss,      \* per device, the PATCH that disables it
    enrol,        \* per device, the RegisterDeviceKey under way
    ghEnabled,    \* Device.GitHubSyncEnabled
    ghCommands,   \* per device, the system commands by idempotency key
    online,       \* whether the device's stream is open
    ghInbox,      \* the events on that stream
    ghAgent,      \* the agent: hosts file, key, and whether it waits for the server
    ghKeys,       \* the keys at GitHub
    ghUsed,       \* grants and keys that exist or existed
    ghRequests, ghFaults, ghStarts

ghVars == <<ghMem, ghFile, pollers, farewell, dismiss, enrol, ghEnabled, ghCommands,
            online, ghInbox, ghAgent, ghKeys, ghUsed, ghRequests, ghFaults, ghStarts>>
serverVars == <<pollers, farewell, dismiss, enrol>>
deviceVars == <<ghInbox, ghAgent, online>>

NoKeyNo == 0

NoKeys == [d \in GHDevice |-> NoKeyNo]

CommandKey == {<<"sync", g>> : g \in GHGrant}
              \cup {<<"revoke", why>> : why \in {"sync_disabled", "account_disconnected"}}

OffPoller == [pc |-> "off", canceled |-> FALSE, token |-> NoOAuth]

NoFarewell == [pc |-> "idle", token |-> NoOAuth, todo |-> {}]

GHInit ==
    /\ ghMem = [creds |-> NoOAuth, flow |-> NoCode, cancel |-> NoCode, keys |-> NoKeys]
    /\ ghFile = [creds |-> NoOAuth, keys |-> NoKeys]
    /\ pollers = [p \in Poller |-> OffPoller]
    /\ farewell = NoFarewell
    /\ dismiss = [d \in GHDevice |-> NoFarewell]
    /\ enrol = [d \in GHDevice |-> [pc |-> "idle", token |-> NoOAuth, key |-> NoKeyNo]]
    /\ ghEnabled = [d \in GHDevice |-> FALSE]
    /\ ghCommands = [d \in GHDevice |-> [k \in CommandKey |-> "none"]]
    /\ online = [d \in GHDevice |-> FALSE]
    /\ ghInbox = [d \in GHDevice |-> <<>>]
    /\ ghAgent = [d \in GHDevice |-> [token |-> NoOAuth, key |-> NoKeyNo, asks |-> NoOAuth]]
    /\ ghKeys = {}
    /\ ghUsed = [grants |-> {}, keys |-> 0]
    /\ ghRequests = 0 /\ ghFaults = 0 /\ ghStarts = 0

GHFault(ok) ==
    /\ ghFaults' = IF ok THEN ghFaults ELSE ghFaults + 1
    /\ ghFaults' <= MaxGHFault

GHRequest ==
    /\ ghRequests < MaxGHRequest
    /\ ghRequests' = ghRequests + 1

-----------------------------------------------------------------------------
(* Events to the agents: dispatchSystemCommand, pushGitHubSync and         *)
(* pushGitHubRevoke.                                                       *)

Kind(k) == k[1]

\* CreateOrGet: a key that was used sends nothing, and neither does one whose
\* kind has another command that is still open (a command that was sent may be).
Creates(cmds, k, busy) ==
    /\ cmds[k] = "none"
    /\ \A j \in CommandKey \ {k} : Kind(j) = Kind(k) =>
         cmds[j] # "queued" /\ (cmds[j] = "used" => ~busy)

\* A set D of devices gets event e under key k; to a device without a stream
\* the command stays queued.
Push(D, k, e) ==
    \E busy \in BOOLEAN :
    LET S == {d \in D : Creates(ghCommands[d], k, busy)}
    IN  /\ ghCommands' = [d \in GHDevice |->
             IF d \in S THEN [ghCommands[d] EXCEPT ![k] =
                               IF online[d] THEN "used" ELSE "queued"]
             ELSE ghCommands[d]]
        /\ ghInbox' = [d \in GHDevice |->
             IF d \in S /\ online[d] THEN Append(ghInbox[d], e) ELSE ghInbox[d]]

SyncEvent(g) == [kind |-> "sync", token |-> g]

RevokeEvent == [kind |-> "revoke", token |-> NoOAuth]

\* Retention forgets a command.
CommandForgotten(d, k) ==
    /\ ghCommands[d][k] = "used"
    /\ ghCommands' = [ghCommands EXCEPT ![d][k] = "none"]
    /\ UNCHANGED <<ghMem, ghFile, ghEnabled, ghKeys, ghUsed, ghRequests, ghFaults,
                   ghStarts>>
    /\ UNCHANGED deviceVars /\ UNCHANGED serverVars

-----------------------------------------------------------------------------
(* The device flow.                                                        *)

Poll(p, r) == pollers' = [pollers EXCEPT ![p] = r]

FlowUnchanged == <<farewell, dismiss, enrol, ghEnabled, online, ghAgent, ghKeys,
                   ghStarts>>

\* StartDeviceFlow up to its unlock: a running flow is returned as it is, a
\* former poller is canceled.
BeginFlow(p) ==
    /\ GHRequest
    /\ pollers[p].pc = "off" /\ ghMem.flow = NoCode
    /\ ghMem' = [ghMem EXCEPT !.cancel = NoCode]
    /\ pollers' = [q \in Poller |->
         IF q = p THEN [OffPoller EXCEPT !.pc = "requesting"]
         ELSE IF q = ghMem.cancel THEN [pollers[q] EXCEPT !.canceled = TRUE]
         ELSE pollers[q]]
    /\ UNCHANGED <<ghFile, ghCommands, ghInbox, ghUsed, ghFaults>>
    /\ UNCHANGED FlowUnchanged

\* The code arrives, or the request for it fails.
GetCode(p, ok) ==
    /\ pollers[p].pc = "requesting"
    /\ GHFault(ok)
    /\ ghMem' = IF ok THEN [ghMem EXCEPT !.flow = p, !.cancel = p] ELSE ghMem
    /\ Poll(p, IF ok THEN [pollers[p] EXCEPT !.pc = "waiting"] ELSE OffPoller)
    /\ UNCHANGED <<ghRequests, ghFile, ghCommands, ghInbox, ghUsed>>
    /\ UNCHANGED FlowUnchanged

\* The code, and with it the poller's context, expires; or the poller's
\* context was canceled.
PollerEnds(p) ==
    /\ pollers[p].pc = "waiting"
    /\ pollers[p].canceled \/ ghMem.flow \in {p, NoCode}
    /\ Poll(p, OffPoller)
    /\ ghMem' = IF ghMem.flow = p THEN [ghMem EXCEPT !.flow = NoCode] ELSE ghMem
    /\ UNCHANGED <<ghRequests, ghFile, ghCommands, ghInbox, ghUsed, ghFaults>>
    /\ UNCHANGED FlowUnchanged

\* PollAccessToken with the code that is current now, whoever asked for it.
PollGranted(p, g) ==
    /\ pollers[p].pc = "waiting" /\ ghMem.flow # NoCode
    /\ g \notin ghUsed.grants
    /\ ghUsed' = [ghUsed EXCEPT !.grants = @ \cup {g}]
    /\ Poll(p, [pollers[p] EXCEPT !.pc = "granted", !.token = g])
    /\ UNCHANGED <<ghRequests, ghMem, ghFile, ghCommands, ghInbox, ghFaults>>
    /\ UNCHANGED FlowUnchanged

\* GetUserProfile, then the credentials are put in memory, whatever became of
\* the flow.
StoreCreds(p, ok) ==
    /\ pollers[p].pc = "granted"
    /\ GHFault(ok)
    /\ IF ok
       THEN /\ ghMem' = [ghMem EXCEPT !.creds = pollers[p].token, !.flow = NoCode]
            /\ Poll(p, [pollers[p] EXCEPT !.pc = "saving"])
       ELSE /\ Poll(p, [pollers[p] EXCEPT !.pc = "waiting", !.token = NoOAuth])
            /\ UNCHANGED ghMem
    /\ UNCHANGED <<ghRequests, ghFile, ghCommands, ghInbox, ghUsed>>
    /\ UNCHANGED FlowUnchanged

\* saveCredsToDisk outside the lock, then broadcastGitHubSync with the
\* credentials memory has by then.
SaveCreds(p, ok) ==
    /\ pollers[p].pc = "saving"
    /\ GHFault(ok)
    /\ ghFile' = IF ok THEN [ghFile EXCEPT !.creds = pollers[p].token] ELSE ghFile
    /\ Poll(p, IF ok THEN OffPoller
               ELSE [pollers[p] EXCEPT !.pc = "waiting", !.token = NoOAuth])
    /\ IF ok /\ ghMem.creds # NoOAuth
       THEN Push({d \in GHDevice : ghEnabled[d] /\ online[d]}, <<"sync", ghMem.creds>>,
                 SyncEvent(ghMem.creds))
       ELSE UNCHANGED <<ghCommands, ghInbox>>
    /\ UNCHANGED <<ghRequests, ghMem, ghUsed>>
    /\ UNCHANGED FlowUnchanged

FlowStep(p) ==
    \/ BeginFlow(p) \/ PollerEnds(p)
    \/ \E ok \in BOOLEAN : GetCode(p, ok) \/ StoreCreds(p, ok) \/ SaveCreds(p, ok)
    \/ \E g \in GHGrant : PollGranted(p, g)

-----------------------------------------------------------------------------
(* Disconnect and the disabling of one device: memory, files, GitHub, the  *)
(* revocation event.                                                       *)

Recorded(keys) == {keys[d] : d \in GHDevice} \ {NoKeyNo}

FarewellUnchanged == <<pollers, dismiss, enrol, ghEnabled, online, ghAgent, ghUsed,
                       ghStarts>>

Disconnect ==
    /\ GHRequest
    /\ farewell.pc = "idle"
    /\ farewell' = [pc |-> "files", token |-> ghMem.creds, todo |-> Recorded(ghMem.keys)]
    /\ ghMem' = [ghMem EXCEPT !.creds = NoOAuth, !.flow = NoCode, !.keys = NoKeys]
    /\ UNCHANGED <<ghFile, ghCommands, ghInbox, ghKeys, ghFaults>>
    /\ UNCHANGED FarewellUnchanged

RemoveFiles(ok) ==
    /\ farewell.pc = "files"
    /\ GHFault(ok)
    /\ ghFile' = IF ok THEN [creds |-> NoOAuth, keys |-> NoKeys] ELSE ghFile
    /\ farewell' = [farewell EXCEPT !.pc = "remote",
                      !.todo = IF farewell.token = NoOAuth THEN {} ELSE farewell.todo]
    /\ UNCHANGED <<ghRequests, ghMem, ghCommands, ghInbox, ghKeys>>
    /\ UNCHANGED FarewellUnchanged

DeleteRemote(k, ok) ==
    /\ farewell.pc = "remote" /\ k \in farewell.todo
    /\ GHFault(ok)
    /\ ghKeys' = IF ok THEN ghKeys \ {k} ELSE ghKeys
    /\ farewell' = [farewell EXCEPT !.todo = @ \ {k}]
    /\ UNCHANGED <<ghRequests, ghMem, ghFile, ghCommands, ghInbox>>
    /\ UNCHANGED FarewellUnchanged

BroadcastRevoke ==
    /\ farewell.pc = "remote" /\ farewell.todo = {}
    /\ farewell' = NoFarewell
    /\ Push({d \in GHDevice : online[d]}, <<"revoke", "account_disconnected">>, RevokeEvent)
    /\ UNCHANGED <<ghRequests, ghMem, ghFile, ghKeys, ghFaults>>
    /\ UNCHANGED FarewellUnchanged

DisconnectStep ==
    \/ Disconnect \/ BroadcastRevoke
    \/ \E ok \in BOOLEAN : RemoveFiles(ok)
    \/ \E k \in 1 .. MaxKeyNo, ok \in BOOLEAN : DeleteRemote(k, ok)

\* patchDevice with github_sync_enabled true.
EnableSync(d) ==
    /\ GHRequest
    /\ ~ghEnabled[d] /\ dismiss[d].pc = "idle"
    /\ ghEnabled' = [ghEnabled EXCEPT ![d] = TRUE]
    /\ IF ghMem.creds # NoOAuth
       THEN Push({d}, <<"sync", ghMem.creds>>, SyncEvent(ghMem.creds))
       ELSE UNCHANGED <<ghCommands, ghInbox>>
    /\ UNCHANGED <<ghMem, ghFile, online, ghAgent, ghKeys, ghUsed, ghFaults, ghStarts>>
    /\ UNCHANGED serverVars

\* A mutation: the key stays listed.
StruckOff_Kept(d) == ghMem.keys

\* patchDevice with false: the registry, then DeleteDeviceKey's record and file.
StruckOff(d) == [ghMem.keys EXCEPT ![d] = NoKeyNo]

DisableSync(d, ok) ==
    LET keys == StruckOff(d)
    IN  /\ GHRequest
        /\ ghEnabled[d] /\ dismiss[d].pc = "idle"
        /\ GHFault(ok)
        /\ ghEnabled' = [ghEnabled EXCEPT ![d] = FALSE]
        /\ ghMem' = [ghMem EXCEPT !.keys = keys]
        /\ ghFile' = IF ok THEN [ghFile EXCEPT !.keys = keys] ELSE ghFile
        /\ dismiss' = [dismiss EXCEPT ![d] =
             [pc |-> "remote", token |-> ghMem.creds,
              todo |-> IF ghMem.creds = NoOAuth THEN {}
                       ELSE {ghMem.keys[d]} \ {NoKeyNo}]]
        /\ UNCHANGED <<pollers, farewell, enrol, ghCommands, ghKeys, ghUsed, ghStarts>>
        /\ UNCHANGED deviceVars

DismissKey(d, ok) ==
    /\ dismiss[d].pc = "remote"
    /\ GHFault(ok)
    /\ ghKeys' = IF ok THEN ghKeys \ dismiss[d].todo ELSE ghKeys
    /\ dismiss' = [dismiss EXCEPT ![d].pc = "event"]
    /\ UNCHANGED <<ghRequests, ghMem, ghFile, pollers, farewell, enrol, ghEnabled,
                   ghCommands, ghUsed, ghStarts>>
    /\ UNCHANGED deviceVars

DismissEvent(d) ==
    /\ dismiss[d].pc = "event"
    /\ dismiss' = [dismiss EXCEPT ![d] = NoFarewell]
    /\ Push({d}, <<"revoke", "sync_disabled">>, RevokeEvent)
    /\ UNCHANGED <<ghRequests, ghMem, ghFile, pollers, farewell, enrol, ghEnabled,
                   online, ghAgent, ghKeys, ghUsed, ghFaults, ghStarts>>

PatchStep(d) ==
    \/ EnableSync(d) \/ DismissEvent(d)
    \/ \E ok \in BOOLEAN : DisableSync(d, ok) \/ DismissKey(d, ok)

-----------------------------------------------------------------------------
(* The agent.                                                              *)

AgentUnchanged == <<ghMem, ghFile, pollers, farewell, dismiss, ghEnabled, ghKeys,
                    ghStarts>>

\* The stream opens.  The credentials are written to it first; the queued
\* commands, published before that, follow, with the request they were stored
\* with: a synchronisation without its token.
Recovered(k) == IF Kind(k) = "sync" THEN SyncEvent(Blank) ELSE RevokeEvent

Connect(d) ==
    LET queued == {k \in CommandKey : ghCommands[d][k] = "queued"}
        first == IF ghEnabled[d] /\ ghMem.creds # NoOAuth
                 THEN <<SyncEvent(ghMem.creds)>> ELSE <<>>
    IN  /\ GHRequest
        /\ ~online[d]
        /\ online' = [online EXCEPT ![d] = TRUE]
        /\ \E order \in {s \in UNION {[1 .. n -> queued] : n \in 0 .. 2} :
                           /\ \A k \in queued : \E i \in DOMAIN s : s[i] = k
                           /\ \A i, j \in DOMAIN s : s[i] = s[j] => i = j} :
             ghInbox' = [ghInbox EXCEPT ![d] =
                           first \o [i \in DOMAIN order |-> Recovered(order[i])]]
        /\ ghCommands' = [ghCommands EXCEPT ![d] =
             [k \in CommandKey |-> IF k \in queued THEN "used" ELSE ghCommands[d][k]]]
        /\ UNCHANGED <<enrol, ghAgent, ghUsed, ghFaults>>
        /\ UNCHANGED AgentUnchanged

\* The stream breaks; what was on it is lost.
Disconnected(d) ==
    /\ online[d] /\ ghAgent[d].asks = NoOAuth
    /\ online' = [online EXCEPT ![d] = FALSE]
    /\ ghInbox' = [ghInbox EXCEPT ![d] = <<>>]
    /\ UNCHANGED <<ghRequests, enrol, ghAgent, ghCommands, ghUsed, ghFaults>>
    /\ UNCHANGED AgentUnchanged

\* handleGitHubSync: a key is ensured and reported.
ReceiveSync(d) ==
    LET a == ghAgent[d]
        new == a.key = NoKeyNo
    IN  /\ ghInbox[d] # <<>> /\ Head(ghInbox[d]).kind = "sync"
        /\ a.asks = NoOAuth /\ enrol[d].pc = "idle"
        /\ new => ghUsed.keys < MaxKeyNo
        /\ ghUsed' = IF new THEN [ghUsed EXCEPT !.keys = @ + 1] ELSE ghUsed
        /\ ghAgent' = [ghAgent EXCEPT ![d] =
             [token |-> a.token, key |-> IF new THEN ghUsed.keys + 1 ELSE a.key,
              asks |-> Head(ghInbox[d]).token]]
        /\ enrol' = [enrol EXCEPT ![d] = [pc |-> "check", token |-> NoOAuth,
                                          key |-> ghAgent'[d].key]]
        /\ ghInbox' = [ghInbox EXCEPT ![d] = Tail(@)]
        /\ UNCHANGED <<ghRequests, online, ghCommands, ghFaults>>
        /\ UNCHANGED AgentUnchanged

ReceiveRevoke(d) ==
    /\ ghInbox[d] # <<>> /\ Head(ghInbox[d]).kind = "revoke"
    /\ ghAgent[d].asks = NoOAuth
    /\ ghAgent' = [ghAgent EXCEPT ![d] = [token |-> NoOAuth, key |-> NoKeyNo,
                                          asks |-> NoOAuth]]
    /\ ghInbox' = [ghInbox EXCEPT ![d] = Tail(@)]
    /\ UNCHANGED <<ghRequests, enrol, online, ghCommands, ghUsed, ghFaults>>
    /\ UNCHANGED AgentUnchanged

\* The agent's wait ends: with the answer, and then the hosts file and the SSH
\* configuration are written; or with an error, or by its own time limit while
\* the server goes on.
Applies(d, ok) ==
    /\ ghAgent[d].asks # NoOAuth
    /\ ok => enrol[d].pc = "registered"
    /\ ghAgent' = [ghAgent EXCEPT ![d].token = IF ok THEN ghAgent[d].asks ELSE ghAgent[d].token,
                                  ![d].asks = NoOAuth]
    /\ enrol' = IF enrol[d].pc \in {"registered", "refused"}
                THEN [enrol EXCEPT ![d].pc = "idle"] ELSE enrol
    /\ IF enrol[d].pc = "refused" THEN UNCHANGED ghFaults ELSE GHFault(ok)
    /\ UNCHANGED <<ghRequests, online, ghInbox, ghCommands, ghUsed>>
    /\ UNCHANGED AgentUnchanged

-----------------------------------------------------------------------------
(* deviceRegisterGitHubSSHKey and RegisterDeviceKey.                       *)

EnrolUnchanged == <<pollers, farewell, dismiss, ghEnabled, ghCommands, ghAgent,
                    ghInbox, ghRequests, online, ghUsed, ghStarts>>

\* Where the handler goes next: to an agent that no longer waits its answer
\* means nothing.
Answer(d, pc) == IF ghAgent[d].asks = NoOAuth THEN "idle" ELSE pc

EnrolCheck(d) ==
    LET e == enrol[d]
    IN  /\ e.pc = "check"
        /\ enrol' = [enrol EXCEPT ![d] =
             IF ~ghEnabled[d] \/ ghMem.creds = NoOAuth
             THEN [e EXCEPT !.pc = Answer(d, "refused")]
             ELSE IF ghMem.keys[d] = e.key THEN [e EXCEPT !.pc = Answer(d, "registered")]
             ELSE [e EXCEPT !.pc = "remote", !.token = ghMem.creds]]
        /\ UNCHANGED <<ghMem, ghFile, ghKeys, ghFaults>>
        /\ UNCHANGED EnrolUnchanged

\* GitHub adds the key, refuses one it has, or adds it and the answer is lost.
EnrolRemote(d, result) ==
    LET e == enrol[d]
    IN  /\ e.pc = "remote"
        /\ result = "added" => e.key \notin ghKeys
        /\ IF e.key \in ghKeys THEN UNCHANGED ghFaults ELSE GHFault(result = "added")
        /\ ghKeys' = IF result = "refused" THEN ghKeys ELSE ghKeys \cup {e.key}
        /\ enrol' = [enrol EXCEPT ![d].pc =
                       IF result = "added" THEN "store" ELSE Answer(d, "refused")]
        /\ UNCHANGED <<ghMem, ghFile>>
        /\ UNCHANGED EnrolUnchanged

EnrolStore(d, ok) ==
    LET keys == [ghMem.keys EXCEPT ![d] = enrol[d].key]
    IN  /\ enrol[d].pc = "store"
        /\ GHFault(ok)
        /\ ghMem' = [ghMem EXCEPT !.keys = keys]
        /\ ghFile' = IF ok THEN [ghFile EXCEPT !.keys = keys] ELSE ghFile
        /\ enrol' = [enrol EXCEPT ![d].pc = Answer(d, "registered")]
        /\ UNCHANGED ghKeys
        /\ UNCHANGED EnrolUnchanged

GHDeviceStep(d) ==
    \/ Connect(d) \/ Disconnected(d) \/ ReceiveSync(d) \/ ReceiveRevoke(d)
    \/ EnrolCheck(d)
    \/ \E ok \in BOOLEAN : Applies(d, ok) \/ EnrolStore(d, ok)
    \/ \E result \in {"added", "refused", "unanswered"} : EnrolRemote(d, result)
    \/ \E k \in CommandKey : CommandForgotten(d, k)

\* The server dies and comes back with what the files hold.
RestartService ==
    /\ ghStarts < MaxGHStart
    /\ ghStarts' = ghStarts + 1
    /\ ghMem' = [creds |-> ghFile.creds, flow |-> NoCode, cancel |-> NoCode,
                 keys |-> ghFile.keys]
    /\ pollers' = [p \in Poller |-> OffPoller]
    /\ farewell' = NoFarewell
    /\ dismiss' = [d \in GHDevice |-> NoFarewell]
    /\ enrol' = [d \in GHDevice |-> [pc |-> IF ghAgent[d].asks = NoOAuth THEN "idle"
                                            ELSE "refused",
                                     token |-> NoOAuth, key |-> NoKeyNo]]
    /\ online' = [d \in GHDevice |-> FALSE]
    /\ ghInbox' = [d \in GHDevice |-> <<>>]
    /\ UNCHANGED <<ghFile, ghEnabled, ghCommands, ghAgent, ghKeys, ghUsed, ghRequests,
                   ghFaults>>

GHNext ==
    \/ \E p \in Poller : FlowStep(p)
    \/ DisconnectStep
    \/ \E d \in GHDevice : PatchStep(d) \/ GHDeviceStep(d)
    \/ RestartService

GHSpec == GHInit /\ [][GHNext]_ghVars

-----------------------------------------------------------------------------
GHToken == GHGrant \cup {NoOAuth}

\* Every variable keeps its type; an answer waits for an agent that waits for it.
GHTypeOK ==
    /\ ghMem \in [creds: GHToken, flow: Poller \cup {NoCode},
                  cancel: Poller \cup {NoCode}, keys: [GHDevice -> 0 .. MaxKeyNo]]
    /\ ghFile \in [creds: GHToken, keys: [GHDevice -> 0 .. MaxKeyNo]]
    /\ pollers \in [Poller -> [pc: {"off", "requesting", "waiting", "granted", "saving"},
                               canceled: BOOLEAN, token: GHToken]]
    /\ farewell \in [pc: {"idle", "files", "remote"}, token: GHToken,
                     todo: SUBSET (1 .. MaxKeyNo)]
    /\ ghCommands \in [GHDevice -> [CommandKey -> {"none", "queued", "used"}]]
    /\ ghAgent \in [GHDevice -> [token: GHToken \cup {Blank}, key: 0 .. MaxKeyNo,
                                 asks: GHToken \cup {Blank}]]
    /\ ghKeys \subseteq 1 .. MaxKeyNo
    /\ \A d \in GHDevice :
         enrol[d].pc \in {"registered", "refused"} => ghAgent[d].asks # NoOAuth

\* A key the service lists for a device is at GitHub: it is listed after GitHub
\* has it and struck off before it is deleted there, so that no disconnection,
\* disabling or restart in between leaves the record of a key that is gone.
\* Only a file that could not be written or removed can bring one back.
ListedKeyLives ==
    ghFaults = 0 => Recorded(ghMem.keys) \cup Recorded(ghFile.keys) \subseteq ghKeys

\* The types, and the listed keys.
GHInv ==
    /\ GHTypeOK
    /\ ListedKeyLives

\* The P0 document: a device whose credentials are reported as synced has them
\* deployed.  No agent replaces its token by nothing.
AppliedIsWhole == \A d \in GHDevice : ghAgent[d].token # Blank
=============================================================================
