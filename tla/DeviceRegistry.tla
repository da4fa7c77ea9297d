--------------------------- MODULE DeviceRegistry ---------------------------
(***************************************************************************)
(* Devices, grants and claim tokens: the registry in memory, the control   *)
(* plane behind it, and the handlers that use both.                        *)
(*                                                                         *)
(* internal/registry/registry.go holds devices and grants under one lock   *)
(* and writes all of them through ControlPlaneService.ReplaceRegistryState *)
(* at every change.  Claims go the other way: they are committed to the    *)
(* control plane and put into the registry afterwards.  The control plane  *)
(* (internal/store/controlplane_service.go) loads a snapshot, changes it   *)
(* and commits it if the revision is still the same, so that an update is  *)
(* one step here; filestore/controlplane.go reports an error when the      *)
(* directory cannot be synced, after the new file is in place.             *)
(*                                                                         *)
(* A request is checked first (session, permission, target user) and acts  *)
(* later.  Of a device the model keeps owner, credential and hardware      *)
(* fingerprint; all other attributes are rewritten as they are.            *)
(***************************************************************************)
EXTENDS Naturals, FiniteSets

CONSTANTS
    Device,          \* device IDs, never generated twice
    Person,          \* user IDs
    InstanceOwner,   \* users with the role owner
    Viewer,          \* users with the role viewer; all others are admins
    Level,           \* grant levels
    Fingerprint,     \* hardware fingerprints
    Request,         \* requests in flight
    NoDevice, NoFingerprint, NoGrant, Nobody,
    MaxUses,         \* uses of a claim token created through the API
    MaxClaim,        \* bound: credentials handed out
    MaxArrival,      \* bound: requests that arrive
    MaxCommitFault,  \* bound: commits that fail
    MaxStart         \* bound: starts of the server

ASSUME RegistryAssumption ==
    /\ InstanceOwner \subseteq Person /\ Viewer \subseteq Person \ InstanceOwner
    /\ Level \subseteq {"read", "operate", "manage"} /\ NoGrant \notin Level
    /\ NoFingerprint \notin Fingerprint /\ Nobody \notin Person
    /\ NoDevice \notin [owner : Person, credential : Nat, hardware : Fingerprint \cup {NoFingerprint}]
    /\ MaxUses \in Nat \ {0} /\ MaxClaim \in Nat /\ MaxArrival \in Nat
    /\ MaxCommitFault \in Nat /\ MaxStart \in Nat

VARIABLES
    registry,      \* Registry: [devices, grants]
    plane,         \* the repository's snapshot: [devices, grants, tokens]
    planeFile,     \* control-plane.json
    legacy,        \* devices.json and enrollment.json of the old version, never written
    running,       \* the server is up
    people,        \* users that exist
    requests,      \* requests in flight
    arrivals,      \* requests that have arrived
    credentials,   \* credentials handed out so far
    claims,        \* history: successful claims with the API's token
    unsaved,       \* history: registry and control plane may differ
    migrated,      \* the file control-plane.migrated
    reimported,    \* history: something was imported although the marker was there
    planeStarts, commitFaults

registryVars == <<registry, plane, planeFile, legacy, running, people, requests, arrivals,
                  credentials, claims, unsaved, migrated, reimported, planeStarts, commitFaults>>

\* ClaimToken: one issued through the API, one exported by the EnrollmentManager.
ClaimToken == {"api", "legacy"}

DeviceRecord == [owner : Person, credential : 0 .. MaxClaim, hardware : Fingerprint \cup {NoFingerprint}]
Devices == [Device -> DeviceRecord \cup {NoDevice}]
Grants == [Device -> [Person -> Level \cup {NoGrant}]]
Token == [uses : 0 .. MaxUses, owner : Person \cup {Nobody}]
Snapshot == [devices : Devices, grants : Grants, tokens : [ClaimToken -> Token]]

NoGrants == [p \in Person |-> NoGrant]
NoToken == [uses |-> 0, owner |-> Nobody]
EmptySnapshot == [devices |-> [d \in Device |-> NoDevice], grants |-> [d \in Device |-> NoGrants],
                  tokens |-> [t \in ClaimToken |-> NoToken]]

IdleRequest == [at |-> "idle", device |-> NoDevice, record |-> NoDevice, user |-> Nobody]

----------------------------------------------------------------------------
(* The control plane store.                                                *)

Known(s) == {d \in Device : s.devices[d] # NoDevice}

GrantsValid(s) == \A d \in Device \ Known(s) : s.grants[d] = NoGrants

\* No fingerprint belongs to two devices.
HardwareValid(s) ==
    \A d, e \in Known(s) :
        d # e /\ s.devices[d].hardware # NoFingerprint => s.devices[d].hardware # s.devices[e].hardware

\* ValidateControlPlaneSnapshot, as far as devices and grants go.
ValidSnapshot(s) == GrantsValid(s) /\ HardwareValid(s)

CommitResult == {"ok", "failed", "renamed"}

\* update and Commit: the snapshot is replaced, the write fails, or only the sync
\* of the directory fails and the file is already the new one.
Commit(next, result) ==
    /\ result # "ok" /\ ValidSnapshot(next) => commitFaults < MaxCommitFault
    /\ ~ValidSnapshot(next) => result = "failed"
    /\ commitFaults' = IF result # "ok" /\ ValidSnapshot(next) THEN commitFaults + 1 ELSE commitFaults
    /\ plane' = IF result = "ok" THEN next ELSE plane
    /\ planeFile' = IF result = "failed" THEN planeFile ELSE next

\* ImportLegacy: every part of the snapshot that is empty is filled from the old files.
Imported(s) ==
    [devices |-> IF Known(s) = {} THEN legacy.devices ELSE s.devices,
     grants |-> IF s.grants = EmptySnapshot.grants THEN legacy.grants ELSE s.grants,
     tokens |-> IF s.tokens = EmptySnapshot.tokens THEN legacy.tokens ELSE s.tokens]

\* What the old version may have left behind.
OldDevice(d, p) ==
    [EmptySnapshot EXCEPT !.devices[d] = [owner |-> p, credential |-> 0, hardware |-> NoFingerprint],
                          !.tokens["legacy"] = [uses |-> 1, owner |-> p]]

LegacyState == {EmptySnapshot} \cup {OldDevice(d, p) : d \in Device, p \in Person}

RegistryInit ==
    /\ legacy \in LegacyState
    /\ plane = EmptySnapshot /\ planeFile = EmptySnapshot
    /\ registry = [devices |-> EmptySnapshot.devices, grants |-> EmptySnapshot.grants]
    /\ running = FALSE /\ people = Person /\ requests = [r \in Request |-> IdleRequest]
    /\ arrivals = 0 /\ credentials = 0 /\ claims = 0 /\ unsaved = FALSE
    /\ migrated = FALSE /\ reimported = FALSE /\ planeStarts = 0 /\ commitFaults = 0

\* run: OpenControlPlane, ImportLegacy, RegistryState, AttachControlPlane and
\* finalizeControlPlaneMigration; an error ends the process.
StartPlane(result) ==
    LET next == Imported(planeFile) IN
    /\ ~running /\ planeStarts < MaxStart /\ planeStarts' = planeStarts + 1
    /\ result # "ok" /\ ValidSnapshot(next) => commitFaults < MaxCommitFault
    /\ ~ValidSnapshot(next) => result = "failed"
    /\ commitFaults' = IF result # "ok" /\ ValidSnapshot(next) THEN commitFaults + 1 ELSE commitFaults
    /\ planeFile' = IF result = "failed" THEN planeFile ELSE next
    /\ plane' = IF result = "ok" THEN next ELSE planeFile
    /\ reimported' = (reimported \/ (migrated /\ result = "ok" /\ next # planeFile))
    /\ migrated' = (migrated \/ result = "ok")
    /\ running' = (result = "ok") /\ unsaved' = FALSE
    /\ registry' = IF result = "ok" THEN [devices |-> next.devices, grants |-> next.grants] ELSE registry
    /\ UNCHANGED <<legacy, people, requests, arrivals, credentials, claims>>

\* The process dies, with the requests in flight.
StopPlane ==
    /\ running /\ planeStarts < MaxStart /\ running' = FALSE
    /\ requests' = [r \in Request |-> IdleRequest]
    /\ UNCHANGED <<registry, plane, planeFile, legacy, people, arrivals, credentials, claims, unsaved,
                   migrated, reimported, planeStarts, commitFaults>>

----------------------------------------------------------------------------
(* The registry.                                                           *)

RestUnchanged == UNCHANGED <<legacy, running, people, credentials, claims, migrated, reimported, planeStarts>>

At(r, at) == running /\ requests[r].at = at
Arrives(r) == At(r, "idle") /\ arrivals < MaxArrival /\ arrivals' = arrivals + 1
Waiting(r, at, d, record, u) ==
    requests' = [requests EXCEPT ![r] = [at |-> at, device |-> d, record |-> record, user |-> u]]
Done(r) == requests' = [requests EXCEPT ![r] = IdleRequest] /\ UNCHANGED arrivals
ClaimsCommitted == {r \in Request : requests[r].at = "committed"}

\* writeLocked: the control plane gets the registry's devices and grants, whatever
\* it has itself.  kept is what memory holds if the write fails.
WriteRegistry(next, kept, result) ==
    /\ Commit([plane EXCEPT !.devices = next.devices, !.grants = next.grants], result)
    /\ registry' = IF result = "ok" THEN next ELSE kept
    /\ unsaved' = \/ unsaved /\ result # "ok"
                  \/ result # "ok" /\ kept # registry
                  \/ ClaimsCommitted # {}

Put(d, record) == [registry EXCEPT !.devices[d] = record]

\* A change of attributes the model leaves out; a failed write is taken back.
Rewrite(d, result) ==
    /\ running /\ registry.devices[d] # NoDevice
    /\ WriteRegistry(registry, registry, result)
    /\ UNCHANGED <<requests, arrivals>> /\ RestUnchanged

\* UpdateGitHubStatus, UpdateAgentVersion, TouchLastSeen and UpdateSyncStatus, for
\* what agents report all the time.
UpdateStatus(d, result) == Rewrite(d, result)

\* UpdateDeviceWithSSHPort
UpdateDevice(d, result) == Rewrite(d, result)

\* SaveWithSSHPortReport: the whole record is replaced; a failed write is taken back.
Save(d, record, result) == WriteRegistry(Put(d, record), registry, result)

Without(gone) ==
    [devices |-> [d \in Device |-> IF d \in gone THEN NoDevice ELSE registry.devices[d]],
     grants |-> [d \in Device |-> IF d \in gone THEN NoGrants ELSE registry.grants[d]]]

WithoutOwned(u) == Without({d \in Known(registry) : registry.devices[d].owner = u})

----------------------------------------------------------------------------
(* Requests of users: RequirePermission decides, the handler acts later.   *)

\* RoleHasPermission, for the permissions that lead to a change.
RoleAllows(u) == u \notin Viewer

\* HasDevicePermission, for devices.update.
MayUpdate(u, d) == registry.devices[d].owner = u \/ registry.grants[d][u] = "manage"

\* Authorizer.Authorize on a device: owners of the instance may do everything,
\* admins share and delete what they own and update what they may manage.
Authorize(u, permission, d) ==
    /\ u \in people /\ registry.devices[d] # NoDevice /\ RoleAllows(u)
    /\ \/ u \in InstanceOwner
       \/ permission \in {"share", "delete"} /\ registry.devices[d].owner = u
       \/ permission = "update" /\ MayUpdate(u, d)

\* patchDevice changes what is registered, not a copy.
PatchDevice(u, d, result) == Authorize(u, "update", d) /\ UpdateDevice(d, result)

\* deleteDevice, and the grant handlers, which look the user up they are about
\* before they act.
Allow(r, u, permission, d, target) ==
    /\ Arrives(r) /\ Authorize(u, permission, d)
    /\ IF permission = "share" THEN target \in people ELSE target = u
    /\ Waiting(r, permission, d, NoDevice, target)
    /\ UNCHANGED <<registry, plane, planeFile, unsaved, commitFaults>> /\ RestUnchanged

\* deleteDevice: a failed write restores the device, not its grants.
DeleteDevice(r, result) ==
    LET d == requests[r].device IN
    /\ At(r, "delete") /\ Done(r)
    /\ IF registry.devices[d] # NoDevice
       THEN WriteRegistry(Without({d}), [registry EXCEPT !.grants[d] = NoGrants], result)
       ELSE result = "ok" /\ UNCHANGED <<registry, plane, planeFile, unsaved, commitFaults>>
    /\ RestUnchanged

\* SetGrant; nothing is taken back when the write fails.
SetGrant(r, level, result) ==
    LET d == requests[r].device
        u == requests[r].user
        next == [registry EXCEPT !.grants[d][u] = level]
    IN
    /\ At(r, "share") /\ Done(r)
    /\ registry.devices[d] # NoDevice /\ registry.devices[d].owner # u
    /\ WriteRegistry(next, next, result)
    /\ RestUnchanged

\* RevokeGrant does not look the user up.
RevokeGrant(r, u, result) ==
    LET d == requests[r].device
        next == [registry EXCEPT !.grants[d][u] = NoGrant]
    IN
    /\ At(r, "share") /\ registry.devices[d] # NoDevice /\ Done(r)
    /\ WriteRegistry(next, next, result)
    /\ RestUnchanged

\* TransferOwnership: the old owner may keep a grant, the new one needs none.
TransferOwnership(r, retain, result) ==
    LET d == requests[r].device
        u == requests[r].user
        old == registry.devices[d].owner
        next == [devices |-> [registry.devices EXCEPT ![d].owner = u],
                 grants |-> [registry.grants EXCEPT ![d] =
                    [p \in Person |-> IF p = u THEN NoGrant
                                      ELSE IF p = old THEN retain ELSE registry.grants[d][p]]]]
    IN
    /\ At(r, "share") /\ registry.devices[d] # NoDevice /\ Done(r)
    /\ WriteRegistry(next, next, result)
    /\ RestUnchanged

\* A request that finds its device gone, or its target to be the owner, is refused.
ShareRefused(r) ==
    LET d == requests[r].device IN
    /\ At(r, "share")
    /\ registry.devices[d] # NoDevice => registry.devices[d].owner = requests[r].user
    /\ Done(r)
    /\ UNCHANGED <<registry, plane, planeFile, unsaved, commitFaults>> /\ RestUnchanged

\* deleteUser: the account goes first (Accounts), its devices second; an error of
\* DeleteDevicesByOwner is ignored and memory keeps the deletion.
DeleteUser(r, u) ==
    /\ Arrives(r) /\ u \in people /\ InstanceOwner \cap (people \ {u}) # {}
    /\ people' = people \ {u} /\ Waiting(r, "purge", NoDevice, NoDevice, u)
    /\ UNCHANGED <<registry, plane, planeFile, legacy, running, credentials, claims, unsaved,
                   migrated, reimported, planeStarts, commitFaults>>

DeleteDevicesByOwner(r, result) ==
    LET next == WithoutOwned(requests[r].user) IN
    /\ At(r, "purge") /\ Done(r)
    /\ IF next # registry
       THEN WriteRegistry(next, next, result)
       ELSE result = "ok" /\ UNCHANGED <<registry, plane, planeFile, unsaved, commitFaults>>
    /\ RestUnchanged

----------------------------------------------------------------------------
(* Requests of agents.                                                     *)

\* putDeviceFacts: the record is copied, ...
FactsGet(r, d) ==
    /\ Arrives(r) /\ registry.devices[d] # NoDevice
    /\ Waiting(r, "facts", d, registry.devices[d], Nobody)
    /\ UNCHANGED <<registry, plane, planeFile, unsaved, commitFaults>> /\ RestUnchanged

\* ... and saved with what the agent reports, whatever happened in between.
FactsSave(r, hardware, result) ==
    LET copy == requests[r].record IN
    /\ At(r, "facts") /\ Done(r)
    /\ Save(requests[r].device,
            IF hardware = NoFingerprint THEN copy ELSE [copy EXCEPT !.hardware = hardware], result)
    /\ RestUnchanged

\* createEnrollmentToken; an owner of the instance names any user, existing or not.
CreateClaimToken(u, result) ==
    /\ running /\ plane.tokens["api"] = NoToken /\ planeFile.tokens["api"] = NoToken /\ claims = 0
    /\ Commit([plane EXCEPT !.tokens["api"] = [uses |-> MaxUses, owner |-> u]], result)
    /\ result = "ok"
    /\ UNCHANGED <<registry, unsaved, requests, arrivals>> /\ RestUnchanged

\* deleteEnrollmentToken ignores a failed commit.
RevokeClaimToken(t, result) ==
    /\ running /\ plane.tokens[t] # NoToken
    /\ Commit([plane EXCEPT !.tokens[t] = NoToken], result)
    /\ UNCHANGED <<registry, unsaved, requests, arrivals>> /\ RestUnchanged

\* A mutation: the token keeps its uses.
Spent_Kept(token) == token

Spent(token) == IF token.uses = 1 THEN NoToken ELSE [token EXCEPT !.uses = token.uses - 1]

Usable(token) == token.uses > 0

\* A claim sets LastSeenAt: its device counts as online longer than the claim takes.
JustClaimed(d) == \E q \in ClaimsCommitted : requests[q].device = d

\* IDs no device has; which of them a claim generates makes no difference.
Fresh == {d \in Device : plane.devices[d] = NoDevice /\ registry.devices[d] = NoDevice}

\* ControlPlaneService.ClaimDevice: one commit checks and spends the token and stores
\* the device with a new credential.  A device with the same hardware is taken over if
\* it has the same owner and was not seen for a while.
ClaimDevice(r, t, fresh, hardware, result) ==
    LET token == plane.tokens[t]
        same == {d \in Known(plane) : hardware # NoFingerprint /\ plane.devices[d].hardware = hardware}
        id == IF same = {} THEN fresh ELSE CHOOSE d \in same : TRUE
        record == [owner |-> token.owner, credential |-> credentials + 1, hardware |-> hardware]
    IN
    /\ Arrives(r) /\ Usable(token) /\ credentials < MaxClaim
    /\ fresh \in Fresh /\ fresh = CHOOSE d \in Fresh : TRUE
    /\ \A d \in same : plane.devices[d].owner = token.owner /\ ~JustClaimed(d)
    /\ Commit([plane EXCEPT !.devices[id] = record, !.tokens[t] = Spent(token)], result)
    /\ credentials' = credentials + 1
    /\ claims' = IF result = "ok" /\ t = "api" THEN claims + 1 ELSE claims
    /\ IF result = "ok" THEN Waiting(r, "committed", id, record, Nobody) ELSE UNCHANGED requests
    /\ UNCHANGED <<registry, unsaved, legacy, running, people, migrated, reimported, planeStarts>>

\* A mutation: a device the registry knows already is left as it is.
ApplyCommittedDevice_NewOnly(r) ==
    /\ At(r, "committed") /\ Done(r)
    /\ registry' = IF registry.devices[requests[r].device] = NoDevice
                   THEN Put(requests[r].device, requests[r].record) ELSE registry
    /\ UNCHANGED <<plane, planeFile, unsaved, commitFaults>> /\ RestUnchanged

ApplyCommittedDevice(r) ==
    /\ At(r, "committed") /\ Done(r)
    /\ registry' = Put(requests[r].device, requests[r].record)
    /\ UNCHANGED <<plane, planeFile, unsaved, commitFaults>> /\ RestUnchanged

----------------------------------------------------------------------------
AgentStep(r, result) ==
    \/ \E hardware \in Fingerprint \cup {NoFingerprint} :
          \/ FactsSave(r, hardware, result)
          \/ \E t \in ClaimToken, fresh \in Device : ClaimDevice(r, t, fresh, hardware, result)

UserRequestStep(r, result) ==
    \/ DeleteDevice(r, result)
    \/ \E level \in Level : SetGrant(r, level, result)
    \/ \E u \in Person : RevokeGrant(r, u, result)
    \/ \E retain \in Level \cup {NoGrant} : TransferOwnership(r, retain, result)
    \/ DeleteDevicesByOwner(r, result)

RegistryNext ==
    \/ StopPlane
    \/ \E result \in CommitResult :
          \/ StartPlane(result)
          \/ \E d \in Device : UpdateStatus(d, result)
          \/ \E u \in Person : \/ CreateClaimToken(u, result)
                               \/ \E d \in Device : PatchDevice(u, d, result)
          \/ \E t \in ClaimToken : RevokeClaimToken(t, result)
          \/ \E r \in Request : AgentStep(r, result) \/ UserRequestStep(r, result)
    \/ \E r \in Request :
          \/ \E d \in Device : FactsGet(r, d)
          \/ \E u, target \in Person, d \in Device, permission \in {"share", "delete"} :
                Allow(r, u, permission, d, target)
          \/ \E u \in Person : DeleteUser(r, u)
          \/ ShareRefused(r) \/ ApplyCommittedDevice(r)

RegistrySpec == RegistryInit /\ [][RegistryNext]_registryVars

----------------------------------------------------------------------------
(* Properties.                                                             *)

\* The type invariant.
RegistryTypeOK ==
    /\ registry \in [devices : Devices, grants : Grants]
    /\ plane \in Snapshot /\ planeFile \in Snapshot /\ legacy \in Snapshot
    /\ running \in BOOLEAN /\ people \in SUBSET Person
    /\ requests \in [Request ->
         [at : {"idle", "share", "delete", "purge", "facts", "committed"},
          device : Device \cup {NoDevice}, record : DeviceRecord \cup {NoDevice},
          user : Person \cup {Nobody}]]
    /\ arrivals \in 0 .. MaxArrival /\ credentials \in 0 .. MaxClaim /\ claims \in Nat
    /\ unsaved \in BOOLEAN /\ migrated \in BOOLEAN /\ reimported \in BOOLEAN
    /\ planeStarts \in 0 .. MaxStart /\ commitFaults \in 0 .. MaxCommitFault

\* No grant outlives its device, in memory, in the control plane and in its file,
\* with stale saves, failed writes and cascades interrupted by a crash: one such
\* grant would make every later commit invalid.
GrantsHaveDevices == GrantsValid(registry) /\ GrantsValid(plane) /\ GrantsValid(planeFile)

\* A claim token brings no more devices than it has uses, with commits that fail
\* after the file was replaced and crashes in between.
ClaimsWithinUses == claims <= MaxUses

\* One machine is one device: the control plane never has a fingerprint twice, although
\* claims, facts and stale copies in the registry bring fingerprints from both sides.
HardwareOnce == HardwareValid(plane) /\ HardwareValid(planeFile)

\* Registry and control plane agree unless a write that is not taken back failed or a
\* claim is between its commit and the registry; the next good write repairs both.
MirrorsControlPlane ==
    running /\ ~unsaved /\ ClaimsCommitted = {} =>
        registry.devices = plane.devices /\ registry.grants = plane.grants

\* Registry and control plane stay valid and agree: grants have devices, a machine
\* is one device, and each mirrors the other.
RegistryInv ==
    /\ RegistryTypeOK
    /\ GrantsHaveDevices
    /\ HardwareOnce
    /\ MirrorsControlPlane

\* Once the migration is recorded as complete the old files are a rollback copy and
\* nothing is imported from them.
\* The code does not keep it: a start that finds no device, no grant or no
\* token left imports the old ones again.
LegacyImportedOnce == ~reimported

=============================================================================
