---------------------------- MODULE ServerNetwork ----------------------------
(***************************************************************************)
(* The server's own AAAA records (internal/servernetwork, the watcher of   *)
(* internal/networkaddr, and the /server/network handlers of the API).     *)
(*                                                                         *)
(* One mutex, c.mu, is held for a whole reconciliation, DNS calls          *)
(* included.  Reconcile is called by the coordinator's loop, by the        *)
(* watcher's callback and at the end of UpdateConfig.  Stop, and an        *)
(* UpdateConfig that disables the feature, wait for the watcher's          *)
(* goroutine with c.mu in hand.                                            *)
(*                                                                         *)
(* Addresses are numbers in the order SortAddresses gives them.  Times     *)
(* (ticker, debounce, backoff, expiry of a validation) are choices.        *)
(***************************************************************************)
EXTENDS Naturals, FiniteSets

CONSTANTS
    HostRecord,       \* the DNS names that may be managed
    HostAddr,         \* addresses the interface may have
    NoAddress,        \* none
    Admin,            \* administrators at the settings page
    Loop, WatcherThread, Stopper, NoHolder,   \* the other users of c.mu
    MaxConfigVersion, \* bounds Config.Version
    MaxAddrChange,    \* changes of the interface's addresses
    MaxNetFault,      \* failing saves and DNS calls, outside changes of a record
    MaxNetStart       \* starts of the server

ASSUME ServerNetworkAssumption ==
    /\ HostAddr \subseteq Nat \ {0} /\ NoAddress \notin HostAddr
    /\ NoHolder \notin Admin \cup {Loop, WatcherThread, Stopper}
    /\ Admin \cap {Loop, WatcherThread, Stopper} = {}
    /\ Loop # WatcherThread /\ Stopper \notin {Loop, WatcherThread}
    /\ MaxConfigVersion \in Nat \ {0} /\ MaxAddrChange \in Nat
    /\ MaxNetFault \in Nat /\ MaxNetStart \in Nat

VARIABLES
    config,       \* Coordinator.cfg: enabled, records, version
    configFile,   \* server_network_config.json; version 0 when there is none
    netState,     \* server_network_state.json, one entry per record
    pendingAddr,  \* pendingDetection, and whether the debounce time is over
    mu,           \* the holder of c.mu
    threads,      \* the callers of Reconcile: where each is, and its locals
    watcher,      \* the watcher: phase and last snapshot
    life,         \* the coordinator: running, idle (not enabled at the start),
                  \* absent (not created), stopping, stopped
    drafts,       \* an administrator's detection, validation and request
    addrs,        \* the interface's addresses
    hostDNS,      \* the AAAA records at the provider
    latest,       \* history: the address the last detection acted on found
    validated,    \* history: configurations a validation was passed for
    addrChanges, netFaults, netStarts

netVars == <<config, configFile, netState, pendingAddr, mu, threads, watcher,
             life, drafts, addrs, hostDNS, latest, validated,
             addrChanges, netFaults, netStarts>>
envVars == <<addrs, addrChanges, netStarts>>
confVars == <<config, configFile, drafts, validated>>

NetThread == Admin \cup {Loop, WatcherThread}

HostConfig == [enabled: BOOLEAN, records: SUBSET HostRecord,
               version: 0 .. MaxConfigVersion]

\* The flag or variable that enables the feature, and the variable with its
\* records.
HostEnvironment == [enabled: BOOLEAN, records: SUBSET HostRecord]

RecordState ==
    [status: {"none", "disabled", "waiting_address", "pending", "syncing",
              "verifying", "synced", "failed"},
     desired: HostAddr \cup {NoAddress}, confirmed: HostAddr \cup {NoAddress}]

NewRecord == [status |-> "none", desired |-> NoAddress, confirmed |-> NoAddress]

IdleThread == [pc |-> "idle", todo |-> {}, addr |-> NoAddress]

NoDraft == [pc |-> "none", enabled |-> FALSE, version |-> 0, records |-> {}]

NoConfig == [enabled |-> FALSE, records |-> {}, version |-> 0]

NetInit ==
    /\ config = NoConfig
    /\ configFile = NoConfig
    /\ netState = [n \in HostRecord |-> NewRecord]
    /\ pendingAddr = [addr |-> NoAddress, old |-> FALSE]
    /\ mu = NoHolder
    /\ threads = [t \in NetThread |-> IdleThread]
    /\ watcher = [phase |-> "none", seen |-> {}]
    /\ life = "stopped"
    /\ drafts = [a \in Admin |-> NoDraft]
    /\ addrs = HostAddr
    /\ hostDNS = [n \in HostRecord |-> NoAddress]
    /\ latest = NoAddress
    /\ validated = {}
    /\ addrChanges = 0 /\ netFaults = 0 /\ netStarts = 0

NetFault(ok) ==
    /\ netFaults' = IF ok THEN netFaults ELSE netFaults + 1
    /\ netFaults' <= MaxNetFault

-----------------------------------------------------------------------------
(* The surroundings.                                                       *)

AddressesChange(S) ==
    /\ S # addrs
    /\ addrChanges < MaxAddrChange
    /\ addrChanges' = addrChanges + 1
    /\ addrs' = S
    /\ UNCHANGED <<config, configFile, netState, pendingAddr, mu, threads, watcher,
                   life, drafts, hostDNS, latest, validated,
                   netFaults, netStarts>>

RecordRewritten(n, a) ==
    /\ hostDNS[n] # a
    /\ NetFault(FALSE)
    /\ hostDNS' = [hostDNS EXCEPT ![n] = a]
    /\ UNCHANGED <<config, configFile, netState, pendingAddr, mu, threads, watcher,
                   life, drafts, addrs, latest, validated,
                   addrChanges, netStarts>>

DebouncePasses ==
    /\ pendingAddr.addr # NoAddress /\ ~pendingAddr.old
    /\ pendingAddr' = [pendingAddr EXCEPT !.old = TRUE]
    /\ UNCHANGED <<mu, threads, netState, watcher, life, hostDNS, latest, netFaults>>
    /\ UNCHANGED confVars /\ UNCHANGED envVars

-----------------------------------------------------------------------------
(* Reconcile.                                                              *)

LowestAddr(S) == CHOOSE a \in S : \A b \in S : a <= b

\* Detect keeps the confirmed address while the interface still has it.
Detect(current) ==
    IF addrs = {} THEN NoAddress
    ELSE IF current \in addrs THEN current ELSE LowestAddr(addrs)

\* The first record, in the order of the names, with a confirmed address.
Confirmed ==
    LET S == {n \in config.records : netState[n].confirmed # NoAddress}
    IN  IF S = {} THEN NoAddress ELSE netState[CHOOSE n \in S : TRUE].confirmed

Marked(status, addr) ==
    [n \in HostRecord |->
        IF n \in config.records
        THEN [netState[n] EXCEPT !.status = status,
                !.desired = IF addr = NoAddress THEN @ ELSE addr]
        ELSE netState[n]]

\* A save the code ignores the error of: memory is dropped at the end of the
\* reconciliation, so the file is what counts.
SaveState(table, ok) ==
    /\ NetFault(ok)
    /\ netState' = IF ok THEN table ELSE netState

Leaves(t) == [threads EXCEPT ![t] = IdleThread]

Settles(want, current) ==
    \/ current = NoAddress \/ current = want
    \/ pendingAddr.addr = want /\ pendingAddr.old

\* c.mu is kept until the last record is done.
Hold_None(t) == NoHolder

Hold(t) == t

\* The part of Reconcile before the records: disabled, no address, a new
\* address that has to stay for the debounce time, or on to the records.
BeginReconcile(t, ok) ==
    LET current == Confirmed
        want == Detect(current)
    IN  /\ threads[t].pc = "want"
        /\ mu = NoHolder
        /\ UNCHANGED <<watcher, life, hostDNS>>
        /\ UNCHANGED confVars /\ UNCHANGED envVars
        /\ \/ /\ ~config.enabled
              /\ SaveState(Marked("disabled", NoAddress), ok)
              /\ threads' = Leaves(t)
              /\ UNCHANGED <<mu, pendingAddr, latest>>
           \/ /\ config.enabled /\ want = NoAddress
              /\ SaveState(Marked("waiting_address", NoAddress), ok)
              /\ threads' = Leaves(t)
              /\ UNCHANGED <<mu, pendingAddr, latest>>
           \/ /\ config.enabled /\ want # NoAddress /\ ~Settles(want, current)
              /\ IF pendingAddr.addr = want
                 THEN ok /\ UNCHANGED <<netState, netFaults, pendingAddr>>
                 ELSE /\ SaveState(Marked("pending", want), ok)
                      /\ pendingAddr' = [addr |-> want, old |-> FALSE]
              /\ threads' = Leaves(t)
              /\ UNCHANGED <<mu, latest>>
           \/ /\ ok
              /\ config.enabled /\ want # NoAddress /\ Settles(want, current)
              /\ pendingAddr' = [addr |-> NoAddress, old |-> FALSE]
              /\ latest' = want
              /\ threads' = [threads EXCEPT ![t] =
                   [pc |-> "records", todo |-> config.records, addr |-> want]]
              /\ mu' = Hold(t)
              /\ UNCHANGED <<netState, netFaults>>

RecordDone(t, n) == [threads EXCEPT ![t].pc = "records", ![t].todo = @ \ {n}]

\* A record whose backoff is not over is left; so is one that is in sync and
\* that the provider still serves (or cannot say).
SkipRecord(t, n, answered) ==
    LET r == netState[n] w == threads[t].addr
    IN  /\ threads[t].pc = "records" /\ n \in threads[t].todo
        /\ \/ r.status = "failed" /\ r.desired = w /\ answered /\ UNCHANGED netFaults
           \/ /\ r.status = "synced" /\ r.confirmed = w
              /\ answered => hostDNS[n] = w
              /\ NetFault(answered)
        /\ threads' = RecordDone(t, n)
        /\ UNCHANGED <<mu, netState, pendingAddr, watcher, life, hostDNS, latest>>
        /\ UNCHANGED confVars /\ UNCHANGED envVars

\* Status syncing is saved, then UpsertAAAA: it succeeds, fails, or takes
\* effect without its answer arriving.
UpsertRecord(t, n, result) ==
    LET r == netState[n] w == threads[t].addr
        failed == [r EXCEPT !.status = "failed", !.desired = w]
    IN  /\ threads[t].pc = "records" /\ n \in threads[t].todo
        /\ ~(r.status = "synced" /\ r.confirmed = w /\ hostDNS[n] = w)
        /\ NetFault(result = "ok")
        /\ hostDNS' = IF result = "refused" THEN hostDNS
                      ELSE [hostDNS EXCEPT ![n] = w]
        /\ IF result = "ok"
           THEN /\ netState' = [netState EXCEPT ![n] =
                                  [r EXCEPT !.status = "verifying", !.desired = w]]
                /\ threads' = [threads EXCEPT ![t].pc = "verify", ![t].todo = @]
           ELSE /\ netState' = [netState EXCEPT ![n] = failed]
                /\ threads' = RecordDone(t, n)
        /\ UNCHANGED <<mu, pendingAddr, watcher, life, latest>>
        /\ UNCHANGED confVars /\ UNCHANGED envVars

\* GetAAAA and the verdict.
Verdict(n, w, answered) == answered /\ hostDNS[n] = w

VerifyHostRecord(t, n, answered) ==
    LET r == netState[n] w == threads[t].addr
    IN  /\ threads[t].pc = "verify" /\ n \in threads[t].todo
        /\ r.status = "verifying"
        /\ NetFault(answered)
        /\ netState' = [netState EXCEPT ![n] =
             IF Verdict(n, w, answered)
             THEN [r EXCEPT !.status = "synced", !.confirmed = w]
             ELSE [r EXCEPT !.status = "failed"]]
        /\ threads' = RecordDone(t, n)
        /\ UNCHANGED <<mu, pendingAddr, watcher, life, hostDNS, latest>>
        /\ UNCHANGED confVars /\ UNCHANGED envVars

EndReconcile(t) ==
    /\ threads[t].pc = "records" /\ threads[t].todo = {}
    /\ threads' = Leaves(t)
    /\ mu' = NoHolder
    /\ UNCHANGED <<netState, pendingAddr, watcher, life, hostDNS, latest, netFaults>>
    /\ UNCHANGED confVars /\ UNCHANGED envVars

-----------------------------------------------------------------------------
(* The loop, the watcher, Start and Stop.                                  *)

Others == <<config, configFile, drafts, validated, netState, pendingAddr, hostDNS,
            latest, netFaults>>

\* main: what was saved takes the place of the environment's setting, which is
\* version 1; a file that cannot be read counts as none, and records that were
\* saved empty are the environment's.
StartConfig(env, readable) ==
    LET saved == readable /\ configFile.version > 0
    IN  [enabled |-> IF saved THEN configFile.enabled ELSE env.enabled,
         records |-> IF saved /\ configFile.records # {} THEN configFile.records
                     ELSE env.records,
         version |-> IF saved THEN configFile.version ELSE 1]

\* main in a new process: NewCoordinator, which refuses to manage no record, or
\* one the environment gave to a device (~free), and then Start.
StartCoordinator(env, readable, free) ==
    LET start == StartConfig(env, readable)
        created == start.enabled => start.records # {} /\ free
        runs == created /\ start.enabled
    IN  /\ life = "stopped" /\ netStarts < MaxNetStart
        /\ netStarts' = netStarts + 1
        /\ NetFault(readable)
        /\ config' = IF created THEN start ELSE NoConfig
        /\ life' = IF runs THEN "running" ELSE IF created THEN "idle" ELSE "absent"
        /\ watcher' = [phase |-> IF runs THEN "running" ELSE "none", seen |-> {}]
        /\ threads' = [t \in NetThread |->
             IF runs /\ t = Loop THEN [IdleThread EXCEPT !.pc = "want"] ELSE IdleThread]
        /\ mu' = NoHolder
        /\ pendingAddr' = [addr |-> NoAddress, old |-> FALSE]
        /\ drafts' = [a \in Admin |-> NoDraft]
        /\ UNCHANGED <<configFile, netState, addrs, hostDNS, latest, validated,
                       addrChanges>>

LoopTicks ==
    /\ life = "running" /\ threads[Loop].pc = "idle"
    /\ threads' = [threads EXCEPT ![Loop].pc = "want"]
    /\ UNCHANGED <<mu, watcher, life>>
    /\ UNCHANGED Others /\ UNCHANGED envVars

\* checkAndEmit: addresses that differ from the last snapshot call Reconcile.
WatcherSees ==
    /\ watcher.phase = "running" /\ threads[WatcherThread].pc = "idle"
    /\ watcher.seen # addrs
    /\ watcher' = [watcher EXCEPT !.seen = addrs]
    /\ threads' = [threads EXCEPT ![WatcherThread].pc = "want"]
    /\ UNCHANGED <<mu, life>>
    /\ UNCHANGED Others /\ UNCHANGED envVars

\* run returns once the context is canceled and no callback is under way.
WatcherEnds ==
    /\ watcher.phase = "canceled" /\ threads[WatcherThread].pc = "idle"
    /\ watcher' = [phase |-> "none", seen |-> {}]
    /\ UNCHANGED <<mu, threads, life>>
    /\ UNCHANGED Others /\ UNCHANGED envVars

Canceled == [watcher EXCEPT !.phase = IF @ = "running" THEN "canceled" ELSE @]

\* Stop: with c.mu held, the watcher is canceled and waited for.
BeginStop ==
    /\ life = "running" /\ mu = NoHolder
    /\ life' = "stopping"
    /\ watcher' = Canceled
    /\ mu' = Stopper
    /\ UNCHANGED threads
    /\ UNCHANGED Others /\ UNCHANGED envVars

ReleaseStop ==
    /\ life = "stopping" /\ mu = Stopper
    /\ watcher.phase = "none"
    /\ mu' = NoHolder
    /\ UNCHANGED <<threads, watcher, life>>
    /\ UNCHANGED Others /\ UNCHANGED envVars

\* ... and then the loop's end is awaited.
EndStop ==
    /\ life = "stopping" /\ mu # Stopper
    /\ threads[Loop].pc = "idle"
    /\ life' = "stopped"
    /\ UNCHANGED <<mu, threads, watcher>>
    /\ UNCHANGED Others /\ UNCHANGED envVars

\* The server dies: everything but the files and the DNS records is gone.
NetCrash ==
    /\ life # "stopped"
    /\ life' = "stopped"
    /\ mu' = NoHolder
    /\ threads' = [t \in NetThread |-> IdleThread]
    /\ watcher' = [phase |-> "none", seen |-> {}]
    /\ pendingAddr' = [addr |-> NoAddress, old |-> FALSE]
    /\ drafts' = [a \in Admin |-> NoDraft]
    /\ config' = NoConfig
    /\ UNCHANGED <<configFile, netState, addrs, hostDNS, latest, validated,
                   addrChanges, netFaults, netStarts>>

-----------------------------------------------------------------------------
(* The settings page: candidates, validate, put.                           *)

Serving == life \in {"running", "idle", "stopping"}

Draft(a, d) == drafts' = [drafts EXCEPT ![a] = d]

PageUnchanged == <<netState, pendingAddr, hostDNS, latest, threads,
                   watcher, life, config, configFile>>

\* getServerNetworkCandidates: the version the page will refer to.
DetectCandidates(a) ==
    /\ Serving /\ drafts[a].pc = "none" /\ threads[a].pc = "idle"
    /\ mu = NoHolder /\ addrs # {}
    /\ Draft(a, [NoDraft EXCEPT !.pc = "detected", !.version = config.version])
    /\ UNCHANGED <<mu, validated, netFaults>>
    /\ UNCHANGED PageUnchanged /\ UNCHANGED envVars

\* validateServerNetwork: a token for these records and that version.
ValidateNetwork(a, R) ==
    /\ Serving /\ drafts[a].pc = "detected"
    /\ mu = NoHolder /\ addrs # {} /\ R # {}
    /\ Draft(a, [drafts[a] EXCEPT !.pc = "validated", !.records = R])
    /\ validated' = validated \cup {[records |-> R, version |-> drafts[a].version]}
    /\ UNCHANGED <<mu, netFaults>>
    /\ UNCHANGED PageUnchanged /\ UNCHANGED envVars

\* putServerNetwork enabling: the token is used up and has to be for what the
\* request says, which is the records R and the version the page has.
TokenFits(d, R) == d.records = R

PutEnabled(a, R) ==
    /\ Serving /\ drafts[a].pc = "validated"
    /\ mu = NoHolder /\ R # {}
    /\ Draft(a, IF TokenFits(drafts[a], R)
                THEN [drafts[a] EXCEPT !.pc = "put", !.enabled = TRUE, !.records = R]
                ELSE NoDraft)
    /\ UNCHANGED <<mu, validated, netFaults>>
    /\ UNCHANGED PageUnchanged /\ UNCHANGED envVars

\* putServerNetwork disabling, with the version the page has or, from a page
\* that has none, with the current records and version.
PutDisabled(a, R) ==
    LET d == drafts[a]
    IN  /\ Serving /\ d.pc \in {"none", "detected"} /\ threads[a].pc = "idle"
        /\ mu = NoHolder
        /\ Draft(a, [pc |-> "put", enabled |-> FALSE,
                     version |-> IF d.pc = "none" THEN config.version ELSE d.version,
                     records |-> IF d.pc = "none" THEN config.records ELSE R])
        /\ UNCHANGED <<mu, validated, netFaults>>
        /\ UNCHANGED PageUnchanged /\ UNCHANGED envVars

\* UpdateConfig under c.mu: another version is a conflict; the file is written
\* before the memory; then the watcher is stopped, or created.
VersionFits_Any(v) == TRUE

VersionFits(v) == v = config.version

UpdateConfig(a, ok) ==
    LET d == drafts[a]
        next == [enabled |-> d.enabled, records |-> d.records,
                 version |-> config.version + 1]
    IN  /\ d.pc = "put" /\ mu = NoHolder
        /\ UNCHANGED <<validated, netState, pendingAddr, hostDNS, latest, life>>
        /\ UNCHANGED envVars
        /\ \/ /\ ~VersionFits(d.version) /\ ok
              /\ Draft(a, NoDraft)
              /\ UNCHANGED <<config, configFile, mu, threads, watcher, netFaults>>
           \/ /\ VersionFits(d.version) /\ ~ok
              /\ NetFault(FALSE)
              /\ Draft(a, NoDraft)
              /\ UNCHANGED <<config, configFile, mu, threads, watcher>>
           \/ /\ VersionFits(d.version) /\ ok
              /\ config.version < MaxConfigVersion
              /\ configFile' = next /\ config' = next
              /\ UNCHANGED netFaults
              /\ IF life = "running" /\ ~d.enabled /\ watcher.phase # "none"
                 THEN /\ watcher' = Canceled
                      /\ mu' = a
                      /\ Draft(a, [d EXCEPT !.pc = "waiting"])
                      /\ UNCHANGED threads
                 ELSE /\ watcher' = IF /\ life = "running" /\ d.enabled
                                       /\ watcher.phase = "none"
                                    THEN [phase |-> "running", seen |-> {}]
                                    ELSE watcher
                      /\ Draft(a, NoDraft)
                      /\ threads' = [threads EXCEPT ![a].pc = "want"]
                      /\ UNCHANGED mu

\* The watcher is gone: c.mu is released and taken again by Reconcile.
EndUpdate(a) ==
    /\ drafts[a].pc = "waiting" /\ watcher.phase = "none"
    /\ mu' = NoHolder
    /\ Draft(a, NoDraft)
    /\ threads' = [threads EXCEPT ![a].pc = "want"]
    /\ UNCHANGED <<config, configFile, validated, netState, pendingAddr, hostDNS,
                   latest, watcher, life, netFaults>>
    /\ UNCHANGED envVars

-----------------------------------------------------------------------------
HostReconcile(t) ==
    \/ \E ok \in BOOLEAN : BeginReconcile(t, ok)
    \/ \E n \in HostRecord, answered \in BOOLEAN :
            SkipRecord(t, n, answered) \/ VerifyHostRecord(t, n, answered)
    \/ \E n \in HostRecord, result \in {"ok", "refused", "unanswered"} :
            UpsertRecord(t, n, result)
    \/ EndReconcile(t)

WatcherStep == WatcherSees \/ WatcherEnds

StopStep == ReleaseStop \/ EndStop

PageStep(a) ==
    \/ DetectCandidates(a)
    \/ \E R \in SUBSET HostRecord :
            ValidateNetwork(a, R) \/ PutEnabled(a, R) \/ PutDisabled(a, R)
    \/ \E ok \in BOOLEAN : UpdateConfig(a, ok)
    \/ EndUpdate(a)

OutsideStepNet ==
    \/ \E S \in SUBSET HostAddr : AddressesChange(S)
    \/ \E n \in HostRecord, a \in HostAddr \cup {NoAddress} : RecordRewritten(n, a)
    \/ DebouncePasses

NetNext ==
    \/ OutsideStepNet
    \/ \E t \in NetThread : HostReconcile(t)
    \/ \E env \in HostEnvironment, readable, free \in BOOLEAN :
            StartCoordinator(env, readable, free)
    \/ LoopTicks \/ WatcherStep
    \/ BeginStop \/ StopStep \/ NetCrash
    \/ \E a \in Admin : PageStep(a)

NetSpec == NetInit /\ [][NetNext]_netVars

\* Each thread that can go on does: the mutex and the wait group block nobody
\* that is free to run, and every DNS call ends within its timeout.
NetFairness ==
    /\ \A t \in NetThread : SF_netVars(HostReconcile(t))
    /\ WF_netVars(WatcherEnds)
    /\ WF_netVars(StopStep)
    /\ \A a \in Admin : WF_netVars(EndUpdate(a))

FairNetSpec == NetSpec /\ NetFairness

-----------------------------------------------------------------------------
\* Every variable keeps its type; whoever holds c.mu is in the section it
\* protects.
NetTypeOK ==
    /\ config \in HostConfig /\ configFile \in HostConfig
    /\ netState \in [HostRecord -> RecordState]
    /\ pendingAddr \in [addr: HostAddr \cup {NoAddress}, old: BOOLEAN]
    /\ mu \in NetThread \cup {Stopper, NoHolder}
    /\ \A t \in NetThread :
         /\ threads[t].pc \in {"idle", "want", "records", "verify"}
         /\ mu = t => \/ threads[t].pc \in {"records", "verify"}
                      \/ t \in Admin /\ drafts[t].pc = "waiting"
    /\ watcher.phase \in {"none", "running", "canceled"}
    /\ life \in {"running", "idle", "absent", "stopping", "stopped"}
    /\ \A a \in Admin : drafts[a].pc \in {"none", "detected", "validated", "put", "waiting"}
    /\ addrs \subseteq HostAddr
    /\ hostDNS \in [HostRecord -> HostAddr \cup {NoAddress}]

\* A configuration in force that enables the feature is the environment's, which
\* is version 1 and is not checked, or was validated, for these records, against
\* the version before it: no page that was open while another administrator
\* changed the settings enables what it no longer shows, and what a restart
\* takes from the file was validated when it was saved.
EnabledWasValidated ==
    config.enabled =>
        \/ config.version = 1
        \/ [records |-> config.records, version |-> config.version - 1] \in validated

\* Not kept, the same without the exception: at the first start, and whenever the
\* file cannot be read, the environment's records are managed as they are.
AlwaysValidated ==
    config.enabled =>
        [records |-> config.records, version |-> config.version - 1] \in validated

\* Not kept: what an administrator switched off in the page stays off.  A start
\* that cannot read the file goes by the environment.
SavedIsInForce ==
    life \in {"running", "idle"} /\ configFile.version > 0 => config.enabled = configFile.enabled

\* The types, and the validation behind what the page enabled.
NetInv ==
    /\ NetTypeOK
    /\ EnabledWasValidated

\* DNS is written in the order of the detections: a reconciliation that found
\* an older address never writes after one that found a newer.
WritesInOrder ==
    [][\A n \in HostRecord :
         hostDNS'[n] # hostDNS[n] /\ threads' # threads
         => hostDNS'[n] = latest]_netVars

\* A record counts as synced only after the provider returned the address, and
\* the address confirmed for it changes in no other way.
ConfirmedWasServed ==
    [][\A n \in HostRecord :
         netState'[n].confirmed # netState[n].confirmed
         => hostDNS[n] = netState'[n].confirmed /\ netState'[n].status = "synced"]_netVars

\* The comment of Stop: the coordinator that is being stopped does stop.
StopEnds == (life = "stopping") ~> (life = "stopped")
=============================================================================
