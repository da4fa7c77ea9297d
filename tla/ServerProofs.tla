--------------------------- MODULE ServerProofs ----------------------------
(***************************************************************************)
(* Theorems about ServerNetwork, ServerUpgrade and FileShare, for every set*)
(* of records, addresses, operations, files, links and tokens, and every   *)
(* bound.  The components share no variable: each has its own inductive    *)
(* invariant, NetParts, OperationParts and, for the files, ShareParts with *)
(* QuotaParts.  The sums of the quota are handled as cardinalities.        *)
(***************************************************************************)
EXTENDS ServerNetwork, ServerUpgrade, FileShare, FiniteSetTheorems, WellFoundedInduction, TLAPS

----------------------------------------------------------------------------
(* The network of the server.                                              *)

NetThreadRecord ==
    [pc: {"idle", "want", "records", "verify"}, todo: SUBSET HostRecord,
     addr: HostAddr \cup {NoAddress}]

DraftRecord ==
    [pc: {"none", "detected", "validated", "put", "waiting"}, enabled: BOOLEAN,
     version: 0 .. MaxConfigVersion, records: SUBSET HostRecord]

\* The variables NetTypeOK says only a part of.
LocalsOK ==
    /\ threads \in [NetThread -> NetThreadRecord]
    /\ drafts \in [Admin -> DraftRecord]
    /\ watcher \in [phase: {"none", "running", "canceled"}, seen: SUBSET HostAddr]
    /\ latest \in HostAddr \cup {NoAddress}

Writing(t) == threads[t].pc \in {"records", "verify"}

\* Whoever reconciles records, or waits for the watcher, holds c.mu; an
\* administrator's request is either at the page or in Reconcile.
Exclusive ==
    /\ \A t \in NetThread : Writing(t) => mu = t
    /\ \A a \in Admin : drafts[a].pc = "waiting" => mu = a
    /\ \A a \in Admin : drafts[a].pc # "none" => threads[a].pc = "idle"
    /\ life = "stopped" => threads[Loop].pc = "idle"

\* The address being written is that of the last detection.
Current == \A t \in NetThread : Writing(t) => threads[t].addr = latest /\ latest # NoAddress

\* A token stands for what its draft says; so does an enabled configuration in the
\* file, which names its records.
Vouched(a) ==
    \/ drafts[a].pc = "validated"
    \/ drafts[a].pc = "put" /\ drafts[a].enabled

TokensHold ==
    /\ \A a \in Admin : Vouched(a) =>
         /\ [records |-> drafts[a].records, version |-> drafts[a].version] \in validated
         /\ drafts[a].records # {}
    /\ configFile.enabled =>
         /\ [records |-> configFile.records, version |-> configFile.version - 1] \in validated
         /\ configFile.records # {}

\* NetTypeOK in two parts: the data, and who holds c.mu.
NetData ==
    /\ config \in HostConfig /\ configFile \in HostConfig
    /\ netState \in [HostRecord -> RecordState]
    /\ pendingAddr \in [addr: HostAddr \cup {NoAddress}, old: BOOLEAN]
    /\ life \in {"running", "idle", "absent", "stopping", "stopped"}
    /\ addrs \subseteq HostAddr
    /\ hostDNS \in [HostRecord -> HostAddr \cup {NoAddress}]

NetLocks ==
    /\ mu \in NetThread \cup {Stopper, NoHolder}
    /\ \A t \in NetThread :
         mu = t => \/ threads[t].pc \in {"records", "verify"}
                   \/ t \in Admin /\ drafts[t].pc = "waiting"

NetParts ==
    /\ NetData /\ LocalsOK /\ NetLocks /\ Exclusive /\ Current
    /\ TokensHold /\ EnabledWasValidated

\* The lowest of some addresses is one of them (SortAddresses).
LEMMA LowestIsOne ==
    ASSUME NEW S \in SUBSET Nat, S # {}
    PROVE  LowestAddr(S) \in S
  <1>1. PICK x \in S : \A y \in S : ~(<<y, x>> \in OpToRel(<, Nat))
    BY NatLessThanWellFounded, WFMin, Zenon
  <1>2. ASSUME NEW y \in S PROVE ~(y < x)
    <2>1. <<y, x>> \notin {ss \in Nat \X Nat : ss[1] < ss[2]}
      BY <1>1, Zenon DEF OpToRel
    <2>. QED  BY <2>1
  <1>3. \A y \in S : x <= y
    BY <1>2
  <1>. QED  BY <1>3 DEF LowestAddr

\* Detect finds an address of the interface, or none.
LEMMA DetectType ==
    ASSUME addrs \subseteq HostAddr, NEW current
    PROVE  Detect(current) \in HostAddr \cup {NoAddress}
  BY ServerNetworkAssumption, LowestIsOne DEF Detect
\* A change of the host's addresses keeps the parts.
LEMMA AddressesChangeKeeps ==
    ASSUME NetParts, NEW S \in SUBSET HostAddr, AddressesChange(S)
    PROVE  NetParts'
  <1>. USE ServerNetworkAssumption
  <1>. USE DEF NetParts

  <1>1. NetData'
    BY SMT DEF NetData, HostConfig, LocalsOK, DraftRecord, NetThreadRecord, RecordState, NetThread, AddressesChange
  <1>2. LocalsOK'
    BY SMT DEF LocalsOK, NetData, HostConfig, DraftRecord, NetThreadRecord, NetThread, AddressesChange
  <1>3. NetLocks'
    BY SMT DEF NetLocks, NetData, LocalsOK, NetThreadRecord, DraftRecord, Exclusive, Writing, NetThread, AddressesChange
  <1>4. Exclusive'
    BY SMT DEF NetLocks, LocalsOK, NetThreadRecord, DraftRecord, Exclusive, Writing, NetThread, AddressesChange
  <1>5. Current'
    BY SMT DEF NetData, LocalsOK, NetThreadRecord, Current, Writing, Exclusive, NetThread, AddressesChange
  <1>6. TokensHold' /\ EnabledWasValidated'
    BY SMT DEF NetData, LocalsOK, HostConfig, DraftRecord, TokensHold, Vouched, EnabledWasValidated, NetThread, AddressesChange
  <1>. QED  BY <1>1, <1>2, <1>3, <1>4, <1>5, <1>6

\* A record changed by somebody else keeps the parts.
LEMMA RecordRewrittenKeeps ==
    ASSUME NetParts, NEW n \in HostRecord, NEW a \in HostAddr \cup {NoAddress}, RecordRewritten(n, a)
    PROVE  NetParts'
  <1>. USE ServerNetworkAssumption
  <1>. USE DEF NetParts

  <1>1. NetData'
    BY SMT DEF NetData, HostConfig, LocalsOK, DraftRecord, NetThreadRecord, RecordState, NetThread, RecordRewritten, NetFault
  <1>2. LocalsOK'
    BY SMT DEF LocalsOK, NetData, HostConfig, DraftRecord, NetThreadRecord, NetThread, RecordRewritten, NetFault
  <1>3. NetLocks'
    BY SMT DEF NetLocks, NetData, LocalsOK, NetThreadRecord, DraftRecord, Exclusive, Writing, NetThread, RecordRewritten, NetFault
  <1>4. Exclusive'
    BY SMT DEF NetLocks, LocalsOK, NetThreadRecord, DraftRecord, Exclusive, Writing, NetThread, RecordRewritten, NetFault
  <1>5. Current'
    BY SMT DEF NetData, LocalsOK, NetThreadRecord, Current, Writing, Exclusive, NetThread, RecordRewritten, NetFault
  <1>6. TokensHold' /\ EnabledWasValidated'
    BY SMT DEF NetData, LocalsOK, HostConfig, DraftRecord, TokensHold, Vouched, EnabledWasValidated, NetThread, RecordRewritten, NetFault
  <1>. QED  BY <1>1, <1>2, <1>3, <1>4, <1>5, <1>6

\* The end of the debounce keeps the parts.
LEMMA DebouncePassesKeeps ==
    ASSUME NetParts, DebouncePasses
    PROVE  NetParts'
  <1>. USE ServerNetworkAssumption
  <1>. USE DEF NetParts

  <1>a. [pendingAddr EXCEPT !.old = TRUE] \in [addr: HostAddr \cup {NoAddress}, old: BOOLEAN]
    BY DEF NetData
  <1>1. NetData'
    BY <1>a, SMT DEF NetData, HostConfig, LocalsOK, DraftRecord, NetThreadRecord, RecordState, NetThread, DebouncePasses, confVars, envVars
  <1>2. LocalsOK'
    BY SMT DEF LocalsOK, NetData, HostConfig, DraftRecord, NetThreadRecord, NetThread, DebouncePasses, confVars, envVars
  <1>3. NetLocks'
    BY SMT DEF NetLocks, NetData, LocalsOK, NetThreadRecord, DraftRecord, Exclusive, Writing, NetThread, DebouncePasses, confVars, envVars
  <1>4. Exclusive'
    BY SMT DEF NetLocks, LocalsOK, NetThreadRecord, DraftRecord, Exclusive, Writing, NetThread, DebouncePasses, confVars, envVars
  <1>5. Current'
    BY SMT DEF NetData, LocalsOK, NetThreadRecord, Current, Writing, Exclusive, NetThread, DebouncePasses, confVars, envVars
  <1>6. TokensHold' /\ EnabledWasValidated'
    BY SMT DEF NetData, LocalsOK, HostConfig, DraftRecord, TokensHold, Vouched, EnabledWasValidated, NetThread, DebouncePasses, confVars, envVars
  <1>. QED  BY <1>1, <1>2, <1>3, <1>4, <1>5, <1>6

\* The answer to every record is a map of statuses.
LEMMA MarkedType ==
    ASSUME NetData, NEW addr \in HostAddr \cup {NoAddress},
           NEW status \in {"disabled", "waiting_address", "pending"}
    PROVE  /\ Marked(status, addr) \in [HostRecord -> RecordState]
           /\ \A n \in HostRecord : Marked(status, addr)[n].confirmed = netState[n].confirmed
  <1> DEFINE m(n) == [netState[n] EXCEPT !.status = status,
                        !.desired = IF addr = NoAddress THEN @ ELSE addr]
  <1>1. ASSUME NEW n \in HostRecord
        PROVE  m(n) \in RecordState /\ m(n).confirmed = netState[n].confirmed
    <2>1. netState[n] \in RecordState
      BY DEF NetData
    <2>. QED  BY <2>1 DEF RecordState
  <1> HIDE DEF m
  <1>2. Marked(status, addr) = [n \in HostRecord |-> IF n \in config.records THEN m(n) ELSE netState[n]]
    BY DEF Marked, m
  <1>. QED  BY <1>1, <1>2 DEF NetData

\* What BeginReconcile does: it ends with another state saved, at most, or goes
\* on to the records with c.mu in hand and the address it found.
LEMMA BeginEffect ==
    ASSUME NetParts, NEW t \in NetThread, NEW ok \in BOOLEAN, BeginReconcile(t, ok)
    PROVE  /\ threads[t].pc = "want" /\ mu = NoHolder
           /\ UNCHANGED <<watcher, life, hostDNS, config, configFile, drafts, validated, addrs>>
           /\ netState' \in [HostRecord -> RecordState]
           /\ \A n \in HostRecord : netState'[n].confirmed = netState[n].confirmed
           /\ pendingAddr' \in [addr: HostAddr \cup {NoAddress}, old: BOOLEAN]
           /\ \/ UNCHANGED <<mu, latest>> /\ threads' = [threads EXCEPT ![t] = IdleThread]
              \/ \E want \in HostAddr :
                    /\ latest' = want /\ mu' = t
                    /\ threads' = [threads EXCEPT ![t] =
                         [pc |-> "records", todo |-> config.records, addr |-> want]]
  <1>. USE ServerNetworkAssumption
  <1>d. NetData
    BY DEF NetParts
  <1> DEFINE current == Confirmed
             want == Detect(current)
  <1>w. want \in HostAddr \cup {NoAddress}
    BY <1>d, DetectType DEF NetData
  <1>0. /\ threads[t].pc = "want" /\ mu = NoHolder
        /\ UNCHANGED <<watcher, life, hostDNS, config, configFile, drafts, validated, addrs>>
    BY DEF BeginReconcile, confVars, envVars
  <1>s. netState \in [HostRecord -> RecordState]
        /\ pendingAddr \in [addr: HostAddr \cup {NoAddress}, old: BOOLEAN]
    BY <1>d DEF NetData
  <1> HIDE DEF current, want
  <1>1. CASE /\ SaveState(Marked("disabled", NoAddress), ok)
             /\ threads' = Leaves(t)
             /\ UNCHANGED <<mu, pendingAddr, latest>>
    <2>1. netState' \in {netState, Marked("disabled", NoAddress)}
      BY <1>1 DEF SaveState
    <2>. QED  BY <1>0, <1>1, <1>d, <1>s, <2>1, MarkedType DEF Leaves
  <1>2. CASE /\ SaveState(Marked("waiting_address", NoAddress), ok)
             /\ threads' = Leaves(t)
             /\ UNCHANGED <<mu, pendingAddr, latest>>
    <2>1. netState' \in {netState, Marked("waiting_address", NoAddress)}
      BY <1>2 DEF SaveState
    <2>. QED  BY <1>0, <1>2, <1>d, <1>s, <2>1, MarkedType DEF Leaves
  <1>3. CASE /\ IF pendingAddr.addr = want
                THEN ok /\ UNCHANGED <<netState, netFaults, pendingAddr>>
                ELSE /\ SaveState(Marked("pending", want), ok)
                     /\ pendingAddr' = [addr |-> want, old |-> FALSE]
             /\ threads' = Leaves(t)
             /\ UNCHANGED <<mu, latest>>
    <2>1. netState' \in {netState, Marked("pending", want)}
      BY <1>3 DEF SaveState
    <2>2. pendingAddr' \in [addr: HostAddr \cup {NoAddress}, old: BOOLEAN]
      <3>1. [addr |-> want, old |-> FALSE] \in [addr: HostAddr \cup {NoAddress}, old: BOOLEAN]
        BY <1>w
      <3>2. pendingAddr' \in {pendingAddr, [addr |-> want, old |-> FALSE]}
        BY <1>3
      <3>. QED  BY <3>1, <3>2, <1>s
    <2>. QED  BY <1>0, <1>3, <1>d, <1>s, <1>w, <2>1, <2>2, MarkedType DEF Leaves
  <1>4. CASE /\ want # NoAddress
             /\ pendingAddr' = [addr |-> NoAddress, old |-> FALSE]
             /\ latest' = want
             /\ threads' = [threads EXCEPT ![t] =
                   [pc |-> "records", todo |-> config.records, addr |-> want]]
             /\ mu' = Hold(t)
             /\ UNCHANGED <<netState, netFaults>>
    BY <1>0, <1>4, <1>s, <1>w DEF Hold
  <1>. QED  BY <1>1, <1>2, <1>3, <1>4, Zenon DEF BeginReconcile, current, want

\* Taking the reconciliation lock keeps the parts.
LEMMA BeginReconcileKeeps ==
    ASSUME NetParts, NEW t \in NetThread, NEW ok \in BOOLEAN, BeginReconcile(t, ok)
    PROVE  NetParts'
  <1>. USE ServerNetworkAssumption
  <1>e. /\ threads[t].pc = "want" /\ mu = NoHolder
        /\ UNCHANGED <<watcher, life, hostDNS, config, configFile, drafts, validated, addrs>>
        /\ netState' \in [HostRecord -> RecordState]
        /\ pendingAddr' \in [addr: HostAddr \cup {NoAddress}, old: BOOLEAN]
        /\ \/ UNCHANGED <<mu, latest>> /\ threads' = [threads EXCEPT ![t] = IdleThread]
           \/ \E want \in HostAddr :
                 /\ latest' = want /\ mu' = t
                 /\ threads' = [threads EXCEPT ![t] =
                      [pc |-> "records", todo |-> config.records, addr |-> want]]
    BY BeginEffect
  <1>0. NetData /\ LocalsOK /\ NetLocks /\ Exclusive /\ Current /\ TokensHold
        /\ EnabledWasValidated
    BY DEF NetParts
  <1>1. NetData'
    BY <1>0, <1>e DEF NetData
  <1>2. LocalsOK'
    BY <1>0, <1>e DEF NetData, LocalsOK, HostConfig, NetThreadRecord, IdleThread
  <1>3. NetLocks'
    BY <1>0, <1>e DEF NetLocks, LocalsOK, Exclusive, Writing, NetThread, IdleThread
  <1>4. Exclusive'
    BY <1>0, <1>e DEF NetLocks, LocalsOK, Exclusive, Writing, NetThread, IdleThread
  <1>5. Current'
    BY <1>0, <1>e DEF LocalsOK, Current, Writing, Exclusive, NetThread, IdleThread
  <1>6. TokensHold' /\ EnabledWasValidated'
    BY <1>0, <1>e DEF TokensHold, Vouched, EnabledWasValidated
  <1>. QED  BY <1>1, <1>2, <1>3, <1>4, <1>5, <1>6 DEF NetParts

\* Skipping a record that is in place keeps the parts.
LEMMA SkipRecordKeeps ==
    ASSUME NetParts, NEW t \in NetThread, NEW n \in HostRecord, NEW x \in BOOLEAN, SkipRecord(t, n, x)
    PROVE  NetParts'
  <1>. USE ServerNetworkAssumption
  <1>. USE DEF NetParts

  <1>1. NetData'
    BY SMT DEF NetData, HostConfig, LocalsOK, DraftRecord, NetThreadRecord, RecordState, NetThread, SkipRecord, NetFault, RecordDone, confVars, envVars
  <1>2. LocalsOK'
    BY SMT DEF LocalsOK, NetData, HostConfig, DraftRecord, NetThreadRecord, NetThread, SkipRecord, NetFault, RecordDone, confVars, envVars
  <1>3. NetLocks'
    BY SMT DEF NetLocks, NetData, LocalsOK, NetThreadRecord, DraftRecord, Exclusive, Writing, NetThread, SkipRecord, NetFault, RecordDone, confVars, envVars
  <1>4. Exclusive'
    BY SMT DEF NetLocks, LocalsOK, NetThreadRecord, DraftRecord, Exclusive, Writing, NetThread, SkipRecord, NetFault, RecordDone, confVars, envVars
  <1>5. Current'
    BY SMT DEF NetData, LocalsOK, NetThreadRecord, Current, Writing, Exclusive, NetThread, SkipRecord, NetFault, RecordDone, confVars, envVars
  <1>6. TokensHold' /\ EnabledWasValidated'
    BY SMT DEF NetData, LocalsOK, HostConfig, DraftRecord, TokensHold, Vouched, EnabledWasValidated, NetThread, SkipRecord, NetFault, RecordDone, confVars, envVars
  <1>. QED  BY <1>1, <1>2, <1>3, <1>4, <1>5, <1>6

\* Reading a record back keeps the parts.
LEMMA VerifyHostRecordKeeps ==
    ASSUME NetParts, NEW t \in NetThread, NEW n \in HostRecord, NEW x \in BOOLEAN, VerifyHostRecord(t, n, x)
    PROVE  NetParts'
  <1>. USE ServerNetworkAssumption
  <1>. USE DEF NetParts

  <1>1. NetData'
    BY SMT DEF NetData, HostConfig, LocalsOK, DraftRecord, NetThreadRecord, RecordState, NetThread, VerifyHostRecord, NetFault, RecordDone, confVars, envVars
  <1>2. LocalsOK'
    BY SMT DEF LocalsOK, NetData, HostConfig, DraftRecord, NetThreadRecord, NetThread, VerifyHostRecord, NetFault, RecordDone, confVars, envVars
  <1>3. NetLocks'
    BY SMT DEF NetLocks, NetData, LocalsOK, NetThreadRecord, DraftRecord, Exclusive, Writing, NetThread, VerifyHostRecord, NetFault, RecordDone, confVars, envVars
  <1>4. Exclusive'
    BY SMT DEF NetLocks, LocalsOK, NetThreadRecord, DraftRecord, Exclusive, Writing, NetThread, VerifyHostRecord, NetFault, RecordDone, confVars, envVars
  <1>5. Current'
    BY SMT DEF NetData, LocalsOK, NetThreadRecord, Current, Writing, Exclusive, NetThread, VerifyHostRecord, NetFault, RecordDone, confVars, envVars
  <1>6. TokensHold' /\ EnabledWasValidated'
    BY SMT DEF NetData, LocalsOK, HostConfig, DraftRecord, TokensHold, Vouched, EnabledWasValidated, NetThread, VerifyHostRecord, NetFault, RecordDone, confVars, envVars
  <1>. QED  BY <1>1, <1>2, <1>3, <1>4, <1>5, <1>6

\* Writing a record keeps the parts.
LEMMA UpsertRecordKeeps ==
    ASSUME NetParts, NEW t \in NetThread, NEW n \in HostRecord, NEW x \in {"ok", "refused", "unanswered"}, UpsertRecord(t, n, x)
    PROVE  NetParts'
  <1>. USE ServerNetworkAssumption
  <1>. USE DEF NetParts

  <1>a. netState' \in [HostRecord -> RecordState]
    <2>1. netState[n] \in RecordState /\ threads[t].addr \in HostAddr \cup {NoAddress}
      BY DEF NetData, LocalsOK, NetThreadRecord, UpsertRecord
    <2>2. ASSUME NEW s \in {"verifying", "failed"}
          PROVE  [netState[n] EXCEPT !.status = s, !.desired = threads[t].addr] \in RecordState
      BY <2>1 DEF RecordState
    <2>. QED  BY <2>2 DEF NetData, UpsertRecord
  <1>1. NetData'
    BY <1>a, SMT DEF NetData, HostConfig, LocalsOK, DraftRecord, NetThreadRecord, RecordState, NetThread, UpsertRecord, NetFault, RecordDone, confVars, envVars
  <1>2. LocalsOK'
    BY SMT DEF LocalsOK, NetData, HostConfig, DraftRecord, NetThreadRecord, NetThread, UpsertRecord, NetFault, RecordDone, confVars, envVars
  <1>3. NetLocks'
    BY SMT DEF NetLocks, NetData, LocalsOK, NetThreadRecord, DraftRecord, Exclusive, Writing, NetThread, UpsertRecord, NetFault, RecordDone, confVars, envVars
  <1>4. Exclusive'
    BY SMT DEF NetLocks, LocalsOK, NetThreadRecord, DraftRecord, Exclusive, Writing, NetThread, UpsertRecord, NetFault, RecordDone, confVars, envVars
  <1>5. Current'
    BY SMT DEF NetData, LocalsOK, NetThreadRecord, Current, Writing, Exclusive, NetThread, UpsertRecord, NetFault, RecordDone, confVars, envVars
  <1>6. TokensHold' /\ EnabledWasValidated'
    BY SMT DEF NetData, LocalsOK, HostConfig, DraftRecord, TokensHold, Vouched, EnabledWasValidated, NetThread, UpsertRecord, NetFault, RecordDone, confVars, envVars
  <1>. QED  BY <1>1, <1>2, <1>3, <1>4, <1>5, <1>6

\* The end of a reconciliation keeps the parts.
LEMMA EndReconcileKeeps ==
    ASSUME NetParts, NEW t \in NetThread, EndReconcile(t)
    PROVE  NetParts'
  <1>. USE ServerNetworkAssumption
  <1>. USE DEF NetParts

  <1>1. NetData'
    BY SMT DEF NetData, HostConfig, LocalsOK, DraftRecord, NetThreadRecord, RecordState, NetThread, EndReconcile, Leaves, IdleThread, confVars, envVars
  <1>2. LocalsOK'
    BY SMT DEF LocalsOK, NetData, HostConfig, DraftRecord, NetThreadRecord, NetThread, EndReconcile, Leaves, IdleThread, confVars, envVars
  <1>3. NetLocks'
    BY SMT DEF NetLocks, NetData, LocalsOK, NetThreadRecord, DraftRecord, Exclusive, Writing, NetThread, EndReconcile, Leaves, IdleThread, confVars, envVars
  <1>4. Exclusive'
    BY SMT DEF NetLocks, LocalsOK, NetThreadRecord, DraftRecord, Exclusive, Writing, NetThread, EndReconcile, Leaves, IdleThread, confVars, envVars
  <1>5. Current'
    BY SMT DEF NetData, LocalsOK, NetThreadRecord, Current, Writing, Exclusive, NetThread, EndReconcile, Leaves, IdleThread, confVars, envVars
  <1>6. TokensHold' /\ EnabledWasValidated'
    BY SMT DEF NetData, LocalsOK, HostConfig, DraftRecord, TokensHold, Vouched, EnabledWasValidated, NetThread, EndReconcile, Leaves, IdleThread, confVars, envVars
  <1>. QED  BY <1>1, <1>2, <1>3, <1>4, <1>5, <1>6

\* Starting the coordinator keeps the parts.
LEMMA StartCoordinatorKeeps ==
    ASSUME NetParts, NEW env \in HostEnvironment, NEW readable \in BOOLEAN,
           NEW free \in BOOLEAN, StartCoordinator(env, readable, free)
    PROVE  NetParts'
  <1>. USE ServerNetworkAssumption
  <1>. USE DEF NetParts
  <1> DEFINE start == StartConfig(env, readable)
  <1>a. start \in HostConfig
    BY DEF StartConfig, HostEnvironment, HostConfig, NetData
  <1>b. config' \in {start, NoConfig} /\ NoConfig \in HostConfig
    BY DEF StartCoordinator, NoConfig, HostConfig
  <1>c. \A t \in NetThread : threads'[t].pc \in {"idle", "want"} /\ threads'[t] \in NetThreadRecord
    BY DEF StartCoordinator, IdleThread, NetThreadRecord
  <1>d. \A a \in Admin : threads'[a] = IdleThread /\ drafts'[a] = NoDraft
    BY DEF StartCoordinator, NetThread
  <1>e. /\ start.enabled => start.version = 1 \/ (start.version = configFile.version
                                /\ configFile.enabled /\ start.records = configFile.records)
    BY DEF StartConfig, TokensHold
  <1>n. /\ mu' = NoHolder /\ drafts' = [a \in Admin |-> NoDraft] /\ life' # "stopped"
        /\ UNCHANGED <<configFile, netState, addrs, hostDNS, latest, validated>>
    BY DEF StartCoordinator
  <1>1. NetData'
    <2>1. life' \in {"running", "idle", "absent"}
          /\ pendingAddr' \in [addr : HostAddr \cup {NoAddress}, old : BOOLEAN]
      BY DEF StartCoordinator
    <2>. QED  BY <1>a, <1>b, <1>n, <2>1 DEF NetData
  <1>2. LocalsOK'
    <2>1. threads' \in [NetThread -> NetThreadRecord]
      BY <1>c DEF StartCoordinator
    <2>2. watcher' \in [phase : {"none", "running", "canceled"}, seen : SUBSET HostAddr]
      BY DEF StartCoordinator
    <2>3. NoDraft \in DraftRecord
      BY DEF NoDraft, DraftRecord
    <2>. QED  BY <1>n, <2>1, <2>2, <2>3 DEF LocalsOK
  <1>3. NetLocks'
    BY <1>n DEF NetLocks, NetThread
  <1>4. Exclusive'
    BY <1>c, <1>d, <1>n DEF Exclusive, Writing, NoDraft
  <1>5. Current'
    BY <1>c DEF Current, Writing
  <1>6. TokensHold' /\ EnabledWasValidated'
    BY <1>b, <1>d, <1>e, <1>n DEF TokensHold, Vouched, EnabledWasValidated, NoDraft, NoConfig
  <1>. QED  BY <1>1, <1>2, <1>3, <1>4, <1>5, <1>6

\* A tick of the loop keeps the parts.
LEMMA LoopTicksKeeps ==
    ASSUME NetParts, LoopTicks
    PROVE  NetParts'
  <1>. USE ServerNetworkAssumption
  <1>. USE DEF NetParts

  <1>1. NetData'
    BY SMT DEF NetData, HostConfig, LocalsOK, DraftRecord, NetThreadRecord, RecordState, NetThread, LoopTicks, Others, envVars
  <1>2. LocalsOK'
    BY SMT DEF LocalsOK, NetData, HostConfig, DraftRecord, NetThreadRecord, NetThread, LoopTicks, Others, envVars
  <1>3. NetLocks'
    BY SMT DEF NetLocks, NetData, LocalsOK, NetThreadRecord, DraftRecord, Exclusive, Writing, NetThread, LoopTicks, Others, envVars
  <1>4. Exclusive'
    BY SMT DEF NetLocks, LocalsOK, NetThreadRecord, DraftRecord, Exclusive, Writing, NetThread, LoopTicks, Others, envVars
  <1>5. Current'
    BY SMT DEF NetData, LocalsOK, NetThreadRecord, Current, Writing, Exclusive, NetThread, LoopTicks, Others, envVars
  <1>6. TokensHold' /\ EnabledWasValidated'
    BY SMT DEF NetData, LocalsOK, HostConfig, DraftRecord, TokensHold, Vouched, EnabledWasValidated, NetThread, LoopTicks, Others, envVars
  <1>. QED  BY <1>1, <1>2, <1>3, <1>4, <1>5, <1>6

\* What the watcher sees keeps the parts.
LEMMA WatcherSeesKeeps ==
    ASSUME NetParts, WatcherSees
    PROVE  NetParts'
  <1>. USE ServerNetworkAssumption
  <1>. USE DEF NetParts

  <1>1. NetData'
    BY SMT DEF NetData, HostConfig, LocalsOK, DraftRecord, NetThreadRecord, RecordState, NetThread, WatcherSees, Others, envVars
  <1>a. [watcher EXCEPT !.seen = addrs] \in
          [phase: {"none", "running", "canceled"}, seen: SUBSET HostAddr]
    BY DEF LocalsOK, NetData
  <1>2. LocalsOK'
    <2>1. threads' \in [NetThread -> NetThreadRecord]
      BY DEF LocalsOK, NetThreadRecord, NetThread, WatcherSees
    <2>2. drafts' = drafts /\ latest' = latest
      BY DEF WatcherSees, Others
    <2>. QED  BY <1>a, <2>1, <2>2 DEF LocalsOK, WatcherSees
  <1>3. NetLocks'
    BY SMT DEF NetLocks, NetData, LocalsOK, NetThreadRecord, DraftRecord, Exclusive, Writing, NetThread, WatcherSees, Others, envVars
  <1>4. Exclusive'
    BY SMT DEF NetLocks, LocalsOK, NetThreadRecord, DraftRecord, Exclusive, Writing, NetThread, WatcherSees, Others, envVars
  <1>5. Current'
    BY SMT DEF NetData, LocalsOK, NetThreadRecord, Current, Writing, Exclusive, NetThread, WatcherSees, Others, envVars
  <1>6. TokensHold' /\ EnabledWasValidated'
    BY SMT DEF NetData, LocalsOK, HostConfig, DraftRecord, TokensHold, Vouched, EnabledWasValidated, NetThread, WatcherSees, Others, envVars
  <1>. QED  BY <1>1, <1>2, <1>3, <1>4, <1>5, <1>6

\* The end of the watcher keeps the parts.
LEMMA WatcherEndsKeeps ==
    ASSUME NetParts, WatcherEnds
    PROVE  NetParts'
  <1>. USE ServerNetworkAssumption
  <1>. USE DEF NetParts

  <1>1. NetData'
    BY SMT DEF NetData, HostConfig, LocalsOK, DraftRecord, NetThreadRecord, RecordState, NetThread, WatcherEnds, Others, envVars
  <1>2. LocalsOK'
    BY SMT DEF LocalsOK, NetData, HostConfig, DraftRecord, NetThreadRecord, NetThread, WatcherEnds, Others, envVars
  <1>3. NetLocks'
    BY SMT DEF NetLocks, NetData, LocalsOK, NetThreadRecord, DraftRecord, Exclusive, Writing, NetThread, WatcherEnds, Others, envVars
  <1>4. Exclusive'
    BY SMT DEF NetLocks, LocalsOK, NetThreadRecord, DraftRecord, Exclusive, Writing, NetThread, WatcherEnds, Others, envVars
  <1>5. Current'
    BY SMT DEF NetData, LocalsOK, NetThreadRecord, Current, Writing, Exclusive, NetThread, WatcherEnds, Others, envVars
  <1>6. TokensHold' /\ EnabledWasValidated'
    BY SMT DEF NetData, LocalsOK, HostConfig, DraftRecord, TokensHold, Vouched, EnabledWasValidated, NetThread, WatcherEnds, Others, envVars
  <1>. QED  BY <1>1, <1>2, <1>3, <1>4, <1>5, <1>6

\* Canceling the coordinator keeps the parts.
LEMMA BeginStopKeeps ==
    ASSUME NetParts, BeginStop
    PROVE  NetParts'
  <1>. USE ServerNetworkAssumption
  <1>. USE DEF NetParts

  <1>1. NetData'
    BY SMT DEF NetData, HostConfig, LocalsOK, DraftRecord, NetThreadRecord, RecordState, NetThread, BeginStop, Canceled, Others, envVars
  <1>2. LocalsOK'
    BY SMT DEF LocalsOK, NetData, HostConfig, DraftRecord, NetThreadRecord, NetThread, BeginStop, Canceled, Others, envVars
  <1>3. NetLocks'
    BY SMT DEF NetLocks, NetData, LocalsOK, NetThreadRecord, DraftRecord, Exclusive, Writing, NetThread, BeginStop, Canceled, Others, envVars
  <1>4. Exclusive'
    BY SMT DEF NetLocks, LocalsOK, NetThreadRecord, DraftRecord, Exclusive, Writing, NetThread, BeginStop, Canceled, Others, envVars
  <1>5. Current'
    BY SMT DEF NetData, LocalsOK, NetThreadRecord, Current, Writing, Exclusive, NetThread, BeginStop, Canceled, Others, envVars
  <1>6. TokensHold' /\ EnabledWasValidated'
    BY SMT DEF NetData, LocalsOK, HostConfig, DraftRecord, TokensHold, Vouched, EnabledWasValidated, NetThread, BeginStop, Canceled, Others, envVars
  <1>. QED  BY <1>1, <1>2, <1>3, <1>4, <1>5, <1>6

\* Releasing the coordinator's lock keeps the parts.
LEMMA ReleaseStopKeeps ==
    ASSUME NetParts, ReleaseStop
    PROVE  NetParts'
  <1>. USE ServerNetworkAssumption
  <1>. USE DEF NetParts

  <1>1. NetData'
    BY SMT DEF NetData, HostConfig, LocalsOK, DraftRecord, NetThreadRecord, RecordState, NetThread, ReleaseStop, Others, envVars
  <1>2. LocalsOK'
    BY SMT DEF LocalsOK, NetData, HostConfig, DraftRecord, NetThreadRecord, NetThread, ReleaseStop, Others, envVars
  <1>3. NetLocks'
    BY SMT DEF NetLocks, NetData, LocalsOK, NetThreadRecord, DraftRecord, Exclusive, Writing, NetThread, ReleaseStop, Others, envVars
  <1>4. Exclusive'
    BY SMT DEF NetLocks, LocalsOK, NetThreadRecord, DraftRecord, Exclusive, Writing, NetThread, ReleaseStop, Others, envVars
  <1>5. Current'
    BY SMT DEF NetData, LocalsOK, NetThreadRecord, Current, Writing, Exclusive, NetThread, ReleaseStop, Others, envVars
  <1>6. TokensHold' /\ EnabledWasValidated'
    BY SMT DEF NetData, LocalsOK, HostConfig, DraftRecord, TokensHold, Vouched, EnabledWasValidated, NetThread, ReleaseStop, Others, envVars
  <1>. QED  BY <1>1, <1>2, <1>3, <1>4, <1>5, <1>6

\* The end of a stop keeps the parts.
LEMMA EndStopKeeps ==
    ASSUME NetParts, EndStop
    PROVE  NetParts'
  <1>. USE ServerNetworkAssumption
  <1>. USE DEF NetParts

  <1>1. NetData'
    BY SMT DEF NetData, HostConfig, LocalsOK, DraftRecord, NetThreadRecord, RecordState, NetThread, EndStop, Others, envVars
  <1>2. LocalsOK'
    BY SMT DEF LocalsOK, NetData, HostConfig, DraftRecord, NetThreadRecord, NetThread, EndStop, Others, envVars
  <1>3. NetLocks'
    BY SMT DEF NetLocks, NetData, LocalsOK, NetThreadRecord, DraftRecord, Exclusive, Writing, NetThread, EndStop, Others, envVars
  <1>4. Exclusive'
    BY SMT DEF NetLocks, LocalsOK, NetThreadRecord, DraftRecord, Exclusive, Writing, NetThread, EndStop, Others, envVars
  <1>5. Current'
    BY SMT DEF NetData, LocalsOK, NetThreadRecord, Current, Writing, Exclusive, NetThread, EndStop, Others, envVars
  <1>6. TokensHold' /\ EnabledWasValidated'
    BY SMT DEF NetData, LocalsOK, HostConfig, DraftRecord, TokensHold, Vouched, EnabledWasValidated, NetThread, EndStop, Others, envVars
  <1>. QED  BY <1>1, <1>2, <1>3, <1>4, <1>5, <1>6

\* A crash keeps the parts.
LEMMA NetCrashKeeps ==
    ASSUME NetParts, NetCrash
    PROVE  NetParts'
  <1>. USE ServerNetworkAssumption
  <1>. USE DEF NetParts

  <1>1. NetData'
    BY SMT DEF NetData, HostConfig, LocalsOK, DraftRecord, NetThreadRecord, RecordState, NetThread, NetCrash, IdleThread, NoDraft, NoConfig
  <1>2. LocalsOK'
    BY SMT DEF LocalsOK, NetData, HostConfig, DraftRecord, NetThreadRecord, NetThread, NetCrash, IdleThread, NoDraft, NoConfig
  <1>3. NetLocks'
    BY SMT DEF NetLocks, NetData, LocalsOK, NetThreadRecord, DraftRecord, Exclusive, Writing, NetThread, NetCrash, IdleThread, NoDraft, NoConfig
  <1>4. Exclusive'
    BY SMT DEF NetLocks, LocalsOK, NetThreadRecord, DraftRecord, Exclusive, Writing, NetThread, NetCrash, IdleThread, NoDraft, NoConfig
  <1>5. Current'
    BY SMT DEF NetData, LocalsOK, NetThreadRecord, Current, Writing, Exclusive, NetThread, NetCrash, IdleThread, NoDraft, NoConfig
  <1>6. TokensHold' /\ EnabledWasValidated'
    BY SMT DEF NetData, LocalsOK, HostConfig, DraftRecord, TokensHold, Vouched, EnabledWasValidated, NetThread, NetCrash, IdleThread, NoDraft, NoConfig
  <1>. QED  BY <1>1, <1>2, <1>3, <1>4, <1>5, <1>6

\* Detecting the candidates of a page keeps the parts.
LEMMA DetectCandidatesKeeps ==
    ASSUME NetParts, NEW a \in Admin, DetectCandidates(a)
    PROVE  NetParts'
  <1>. USE ServerNetworkAssumption
  <1>. USE DEF NetParts

  <1>1. NetData'
    BY SMT DEF NetData, HostConfig, LocalsOK, DraftRecord, NetThreadRecord, RecordState, NetThread, DetectCandidates, Draft, NoDraft, PageUnchanged, envVars
  <1>a. [NoDraft EXCEPT !.pc = "detected", !.version = config.version] \in DraftRecord
    BY DEF LocalsOK, NetData, NoDraft, DraftRecord, HostConfig
  <1>b. NoDraft \in DraftRecord
    BY DEF NoDraft, DraftRecord
  <1>2. LocalsOK'
    BY <1>a, <1>b, SMT DEF LocalsOK, NetData, HostConfig, NetThreadRecord, NetThread, DetectCandidates, Draft, PageUnchanged, envVars
  <1>3. NetLocks'
    BY SMT DEF NetLocks, NetData, LocalsOK, NetThreadRecord, DraftRecord, Exclusive, Writing, NetThread, DetectCandidates, Draft, NoDraft, PageUnchanged, envVars
  <1>4. Exclusive'
    BY SMT DEF NetLocks, LocalsOK, NetThreadRecord, DraftRecord, Exclusive, Writing, NetThread, DetectCandidates, Draft, NoDraft, PageUnchanged, envVars
  <1>5. Current'
    BY SMT DEF NetData, LocalsOK, NetThreadRecord, Current, Writing, Exclusive, NetThread, DetectCandidates, Draft, NoDraft, PageUnchanged, envVars
  <1>6. TokensHold' /\ EnabledWasValidated'
    BY SMT DEF NetData, LocalsOK, HostConfig, DraftRecord, TokensHold, Vouched, EnabledWasValidated, NetThread, DetectCandidates, Draft, NoDraft, PageUnchanged, envVars
  <1>. QED  BY <1>1, <1>2, <1>3, <1>4, <1>5, <1>6

\* Validating a page keeps the parts.
LEMMA ValidateNetworkKeeps ==
    ASSUME NetParts, NEW a \in Admin, NEW R \in SUBSET HostRecord, ValidateNetwork(a, R)
    PROVE  NetParts'
  <1>. USE ServerNetworkAssumption
  <1>. USE DEF NetParts

  <1>1. NetData'
    BY SMT DEF NetData, HostConfig, LocalsOK, DraftRecord, NetThreadRecord, RecordState, NetThread, ValidateNetwork, Draft, NoDraft, PageUnchanged, envVars
  <1>a. [drafts[a] EXCEPT !.pc = "validated", !.records = R] \in DraftRecord
    <2>1. drafts[a] \in DraftRecord
      BY DEF LocalsOK
    <2>. QED  BY <2>1 DEF DraftRecord
  <1>b. NoDraft \in DraftRecord
    BY DEF NoDraft, DraftRecord
  <1>2. LocalsOK'
    BY <1>a, <1>b, SMT DEF LocalsOK, NetData, HostConfig, NetThreadRecord, NetThread, ValidateNetwork, Draft, PageUnchanged, envVars
  <1>3. NetLocks'
    BY SMT DEF NetLocks, NetData, LocalsOK, NetThreadRecord, DraftRecord, Exclusive, Writing, NetThread, ValidateNetwork, Draft, NoDraft, PageUnchanged, envVars
  <1>4. Exclusive'
    BY SMT DEF NetLocks, LocalsOK, NetThreadRecord, DraftRecord, Exclusive, Writing, NetThread, ValidateNetwork, Draft, NoDraft, PageUnchanged, envVars
  <1>5. Current'
    BY SMT DEF NetData, LocalsOK, NetThreadRecord, Current, Writing, Exclusive, NetThread, ValidateNetwork, Draft, NoDraft, PageUnchanged, envVars
  <1>6. TokensHold' /\ EnabledWasValidated'
    BY SMT DEF NetData, LocalsOK, HostConfig, DraftRecord, TokensHold, Vouched, EnabledWasValidated, NetThread, ValidateNetwork, Draft, NoDraft, PageUnchanged, envVars
  <1>. QED  BY <1>1, <1>2, <1>3, <1>4, <1>5, <1>6

\* Saving a page that enables keeps the parts.
LEMMA PutEnabledKeeps ==
    ASSUME NetParts, NEW a \in Admin, NEW R \in SUBSET HostRecord, PutEnabled(a, R)
    PROVE  NetParts'
  <1>. USE ServerNetworkAssumption
  <1>. USE DEF NetParts

  <1>1. NetData'
    BY SMT DEF NetData, HostConfig, LocalsOK, DraftRecord, NetThreadRecord, RecordState, NetThread, PutEnabled, TokenFits, Draft, NoDraft, PageUnchanged, envVars
  <1>a. [drafts[a] EXCEPT !.pc = "put", !.enabled = TRUE, !.records = R] \in DraftRecord
    <2>1. drafts[a] \in DraftRecord
      BY DEF LocalsOK
    <2>. QED  BY <2>1 DEF DraftRecord
  <1>b. NoDraft \in DraftRecord
    BY DEF NoDraft, DraftRecord
  <1>2. LocalsOK'
    BY <1>a, <1>b, SMT DEF LocalsOK, NetData, HostConfig, NetThreadRecord, NetThread, PutEnabled, TokenFits, Draft, PageUnchanged, envVars
  <1>3. NetLocks'
    BY SMT DEF NetLocks, NetData, LocalsOK, NetThreadRecord, DraftRecord, Exclusive, Writing, NetThread, PutEnabled, TokenFits, Draft, NoDraft, PageUnchanged, envVars
  <1>4. Exclusive'
    BY SMT DEF NetLocks, LocalsOK, NetThreadRecord, DraftRecord, Exclusive, Writing, NetThread, PutEnabled, TokenFits, Draft, NoDraft, PageUnchanged, envVars
  <1>5. Current'
    BY SMT DEF NetData, LocalsOK, NetThreadRecord, Current, Writing, Exclusive, NetThread, PutEnabled, TokenFits, Draft, NoDraft, PageUnchanged, envVars
  <1>6. TokensHold' /\ EnabledWasValidated'
    BY SMT DEF NetData, LocalsOK, HostConfig, DraftRecord, TokensHold, Vouched, EnabledWasValidated, NetThread, PutEnabled, TokenFits, Draft, NoDraft, PageUnchanged, envVars
  <1>. QED  BY <1>1, <1>2, <1>3, <1>4, <1>5, <1>6

\* Saving a page that disables keeps the parts.
LEMMA PutDisabledKeeps ==
    ASSUME NetParts, NEW a \in Admin, NEW R \in SUBSET HostRecord, PutDisabled(a, R)
    PROVE  NetParts'
  <1>. USE ServerNetworkAssumption
  <1>. USE DEF NetParts

  <1>1. NetData'
    BY SMT DEF NetData, HostConfig, LocalsOK, DraftRecord, NetThreadRecord, RecordState, NetThread, PutDisabled, Draft, NoDraft, PageUnchanged, envVars
  <1>2. LocalsOK'
    BY SMT DEF LocalsOK, NetData, HostConfig, DraftRecord, NetThreadRecord, NetThread, PutDisabled, Draft, NoDraft, PageUnchanged, envVars
  <1>3. NetLocks'
    BY SMT DEF NetLocks, NetData, LocalsOK, NetThreadRecord, DraftRecord, Exclusive, Writing, NetThread, PutDisabled, Draft, NoDraft, PageUnchanged, envVars
  <1>4. Exclusive'
    BY SMT DEF NetLocks, LocalsOK, NetThreadRecord, DraftRecord, Exclusive, Writing, NetThread, PutDisabled, Draft, NoDraft, PageUnchanged, envVars
  <1>5. Current'
    BY SMT DEF NetData, LocalsOK, NetThreadRecord, Current, Writing, Exclusive, NetThread, PutDisabled, Draft, NoDraft, PageUnchanged, envVars
  <1>6. TokensHold' /\ EnabledWasValidated'
    BY SMT DEF NetData, LocalsOK, HostConfig, DraftRecord, TokensHold, Vouched, EnabledWasValidated, NetThread, PutDisabled, Draft, NoDraft, PageUnchanged, envVars
  <1>. QED  BY <1>1, <1>2, <1>3, <1>4, <1>5, <1>6

\* Handing the configuration to the coordinator keeps the parts.
LEMMA UpdateConfigKeeps ==
    ASSUME NetParts, NEW a \in Admin, NEW ok \in BOOLEAN, UpdateConfig(a, ok)
    PROVE  NetParts'
  <1>. USE ServerNetworkAssumption
  <1>. USE DEF NetParts

  <1>1. NetData'
    BY SMT DEF NetData, HostConfig, LocalsOK, DraftRecord, NetThreadRecord, RecordState, NetThread, UpdateConfig, VersionFits, Canceled, NetFault, Draft, NoDraft, envVars
  <1>a. [drafts[a] EXCEPT !.pc = "waiting"] \in DraftRecord
    BY DEF LocalsOK, NetData, NoDraft, DraftRecord, HostConfig
  <1>b. NoDraft \in DraftRecord
    BY DEF NoDraft, DraftRecord
  <1>2. LocalsOK'
    <2>1. threads' \in [NetThread -> NetThreadRecord]
      <3>1. threads' \in {threads, [threads EXCEPT ![a].pc = "want"]}
        BY DEF UpdateConfig
      <3>2. [threads EXCEPT ![a].pc = "want"] \in [NetThread -> NetThreadRecord]
        BY DEF LocalsOK, NetThreadRecord, NetThread
      <3>. QED  BY <3>1, <3>2 DEF LocalsOK
    <2>2. drafts' \in [Admin -> DraftRecord] /\ latest' = latest
      BY <1>a, <1>b DEF LocalsOK, UpdateConfig, Draft
    <2>c. Canceled \in [phase: {"none", "running", "canceled"}, seen: SUBSET HostAddr]
      BY DEF LocalsOK, Canceled
    <2>3. watcher' \in {watcher, Canceled, [phase |-> "running", seen |-> {}]}
      BY DEF UpdateConfig
    <2>. QED  BY <2>1, <2>2, <2>c, <2>3 DEF LocalsOK
  <1>3. NetLocks'
    BY SMT DEF NetLocks, NetData, LocalsOK, NetThreadRecord, DraftRecord, Exclusive, Writing, NetThread, UpdateConfig, VersionFits, Canceled, NetFault, Draft, NoDraft, envVars
  <1>4. Exclusive'
    BY SMT DEF NetLocks, LocalsOK, NetThreadRecord, DraftRecord, Exclusive, Writing, NetThread, UpdateConfig, VersionFits, Canceled, NetFault, Draft, NoDraft, envVars
  <1>5. Current'
    BY SMT DEF NetData, LocalsOK, NetThreadRecord, Current, Writing, Exclusive, NetThread, UpdateConfig, VersionFits, Canceled, NetFault, Draft, NoDraft, envVars
  <1>6. TokensHold' /\ EnabledWasValidated'
    <2> DEFINE next == [enabled |-> drafts[a].enabled, records |-> drafts[a].records,
                        version |-> config.version + 1]
    <2>0. drafts[a].pc = "put" /\ validated' = validated
      BY DEF UpdateConfig
    <2>1. drafts' \in {[drafts EXCEPT ![a] = NoDraft],
                       [drafts EXCEPT ![a] = [drafts[a] EXCEPT !.pc = "waiting"]]}
      BY DEF UpdateConfig, Draft
    <2>2. [drafts[a] EXCEPT !.pc = "waiting"].pc = "waiting" /\ NoDraft.pc = "none"
      BY <1>a DEF LocalsOK, DraftRecord, NoDraft
    <2>3. ASSUME NEW b \in Admin, Vouched(b)'
          PROVE  Vouched(b) /\ drafts'[b] = drafts[b]
      BY <2>1, <2>2, <2>3 DEF Vouched, LocalsOK
    <2>4. CASE UNCHANGED <<config, configFile>>
      BY <2>0, <2>3, <2>4 DEF TokensHold, EnabledWasValidated
    <2>5. CASE config' = next /\ configFile' = next /\ drafts[a].version = config.version
      <3>1. next.version - 1 = drafts[a].version
        BY <2>5 DEF NetData, HostConfig
      <3>2. next.enabled => Vouched(a)
        BY <2>0 DEF Vouched
      <3>. QED  BY <2>0, <2>3, <2>5, <3>1, <3>2 DEF TokensHold, EnabledWasValidated
    <2>. QED  BY <2>4, <2>5 DEF UpdateConfig, VersionFits
  <1>. QED  BY <1>1, <1>2, <1>3, <1>4, <1>5, <1>6

\* The end of that update keeps the parts.
LEMMA EndUpdateKeeps ==
    ASSUME NetParts, NEW a \in Admin, EndUpdate(a)
    PROVE  NetParts'
  <1>. USE ServerNetworkAssumption
  <1>. USE DEF NetParts

  <1>1. NetData'
    BY SMT DEF NetData, HostConfig, LocalsOK, DraftRecord, NetThreadRecord, RecordState, NetThread, EndUpdate, Draft, NoDraft, envVars
  <1>a. NoDraft \in DraftRecord
    BY DEF LocalsOK, NetData, NoDraft, DraftRecord, HostConfig
  <1>b. NoDraft \in DraftRecord
    BY DEF NoDraft, DraftRecord
  <1>2. LocalsOK'
    BY <1>a, <1>b, SMT DEF LocalsOK, NetData, HostConfig, NetThreadRecord, NetThread, EndUpdate, Draft, envVars
  <1>3. NetLocks'
    BY SMT DEF NetLocks, NetData, LocalsOK, NetThreadRecord, DraftRecord, Exclusive, Writing, NetThread, EndUpdate, Draft, NoDraft, envVars
  <1>4. Exclusive'
    BY SMT DEF NetLocks, LocalsOK, NetThreadRecord, DraftRecord, Exclusive, Writing, NetThread, EndUpdate, Draft, NoDraft, envVars
  <1>5. Current'
    BY SMT DEF NetData, LocalsOK, NetThreadRecord, Current, Writing, Exclusive, NetThread, EndUpdate, Draft, NoDraft, envVars
  <1>6. TokensHold' /\ EnabledWasValidated'
    BY SMT DEF NetData, LocalsOK, HostConfig, DraftRecord, TokensHold, Vouched, EnabledWasValidated, NetThread, EndUpdate, Draft, NoDraft, envVars
  <1>. QED  BY <1>1, <1>2, <1>3, <1>4, <1>5, <1>6

-----------------------------------------------------------------------------
\* Every step keeps what the proofs say of the state.
LEMMA NetStepKeeps ==
    ASSUME NetParts, [NetNext]_netVars
    PROVE  NetParts'
  <1>1. CASE OutsideStepNet
    BY <1>1, AddressesChangeKeeps, RecordRewrittenKeeps, DebouncePassesKeeps
       DEF OutsideStepNet
  <1>2. ASSUME NEW t \in NetThread, HostReconcile(t) PROVE NetParts'
    BY <1>2, BeginReconcileKeeps, SkipRecordKeeps, VerifyHostRecordKeeps,
       UpsertRecordKeeps, EndReconcileKeeps DEF HostReconcile
  <1>3. CASE \E env \in HostEnvironment, readable, free \in BOOLEAN :
                StartCoordinator(env, readable, free)
    BY <1>3, StartCoordinatorKeeps
  <1>7. CASE LoopTicks \/ WatcherStep
    BY <1>7, LoopTicksKeeps, WatcherSeesKeeps, WatcherEndsKeeps DEF WatcherStep
  <1>4. CASE BeginStop \/ StopStep \/ NetCrash
    BY <1>4, BeginStopKeeps, ReleaseStopKeeps, EndStopKeeps, NetCrashKeeps DEF StopStep
  <1>5. ASSUME NEW a \in Admin, PageStep(a) PROVE NetParts'
    BY <1>5, DetectCandidatesKeeps, ValidateNetworkKeeps, PutEnabledKeeps,
       PutDisabledKeeps, UpdateConfigKeeps, EndUpdateKeeps DEF PageStep
  <1>6. CASE UNCHANGED netVars
    <2>1. NetData' /\ LocalsOK' /\ NetLocks'
      BY <1>6 DEF NetParts, NetData, LocalsOK, NetLocks, netVars
    <2>2. Exclusive' /\ Current' /\ TokensHold' /\ EnabledWasValidated'
      BY <1>6 DEF NetParts, Exclusive, Current, Writing, TokensHold, Vouched,
         EnabledWasValidated, netVars
    <2>. QED  BY <2>1, <2>2 DEF NetParts
  <1>. QED  BY <1>1, <1>2, <1>3, <1>4, <1>5, <1>6, <1>7 DEF NetNext

\* c.mu, the locals of its users and the tokens stay as NetParts says
\* (Coordinator.Reconcile, UpdateConfig and Stop).
THEOREM NetInvariant == NetSpec => []NetParts
  <1>1. NetInit => NetParts
    <2>. SUFFICES ASSUME NetInit PROVE NetParts
      OBVIOUS
    <2>. USE ServerNetworkAssumption
    <2>1. NetData /\ NetLocks
      BY DEF NetInit, NetData, HostConfig, NoConfig, RecordState, NewRecord, NetLocks,
         NetThread
    <2>2. LocalsOK
      BY DEF NetInit, LocalsOK, NetThreadRecord, IdleThread, DraftRecord, NoDraft
    <2>3. Exclusive /\ Current /\ TokensHold /\ EnabledWasValidated
      BY DEF NetInit, Exclusive, Current, Writing, TokensHold, Vouched,
         EnabledWasValidated, IdleThread, NoDraft, NoConfig, NetThread
    <2>. QED  BY <2>1, <2>2, <2>3 DEF NetParts
  <1>2. NetParts /\ [NetNext]_netVars => NetParts'
    BY NetStepKeeps
  <1>. QED  BY <1>1, <1>2, PTL DEF NetSpec

\* A configuration in force that enables the feature is the environment's (version 1,
\* main.go:541) or was validated for these records and the version it replaced, for any
\* administrators and records (Coordinator.UpdateConfig).
THEOREM NetConsistent == NetSpec => []NetInv
  <1>1. NetParts => NetInv
    BY DEF NetParts, NetInv, NetTypeOK, NetData, LocalsOK, NetLocks, NetThreadRecord,
       DraftRecord, NetThread
  <1>. QED  BY <1>1, NetInvariant, PTL

\* A reconciliation that found an older address never writes after one that
\* found a newer (Coordinator.Reconcile).
THEOREM WritesOrdered == NetSpec => WritesInOrder
  <1>1. ASSUME NetParts, [NetNext]_netVars, NEW n \in HostRecord,
               hostDNS'[n] # hostDNS[n], threads' # threads
        PROVE  hostDNS'[n] = latest
    <2>0. UNCHANGED hostDNS \/ (\E t \in NetThread : HostReconcile(t)) \/ OutsideStepNet
      BY <1>1 DEF NetNext, netVars, StartCoordinator, LoopTicks, WatcherStep, WatcherSees,
         WatcherEnds, BeginStop, StopStep, ReleaseStop, EndStop, NetCrash, Others,
         PageStep, DetectCandidates, ValidateNetwork, PutEnabled, PutDisabled,
         UpdateConfig, EndUpdate, PageUnchanged
    <2>1. ~OutsideStepNet
      BY <1>1 DEF OutsideStepNet, AddressesChange, RecordRewritten, DebouncePasses
    <2>2. PICK t \in NetThread : HostReconcile(t)
      BY <1>1, <2>0, <2>1
    <2>3. PICK m \in HostRecord, result \in {"ok", "refused", "unanswered"} :
            UpsertRecord(t, m, result)
      BY <1>1, <2>2 DEF HostReconcile, BeginReconcile, SkipRecord, VerifyHostRecord, EndReconcile
    <2>4. threads[t].addr = latest
      BY <1>1, <2>3 DEF NetParts, Current, Writing, UpsertRecord
    <2>5. hostDNS' \in {hostDNS, [hostDNS EXCEPT ![m] = threads[t].addr]}
      BY <2>3 DEF UpsertRecord
    <2>. QED  BY <1>1, <2>4, <2>5 DEF NetParts, NetData
  <1>2. NetParts /\ [NetNext]_netVars
        => [\A n \in HostRecord :
              hostDNS'[n] # hostDNS[n] /\ threads' # threads => hostDNS'[n] = latest]_netVars
    BY <1>1
  <1>. QED  BY <1>2, NetInvariant, PTL DEF NetSpec, WritesInOrder

\* The confirmed address of a record changes only to what the provider was seen
\* to serve (Coordinator.reconcileRecord).
THEOREM ConfirmedServed == NetSpec => ConfirmedWasServed
  <1>1. ASSUME NetParts, [NetNext]_netVars, NEW n \in HostRecord,
               netState'[n].confirmed # netState[n].confirmed
        PROVE  hostDNS[n] = netState'[n].confirmed /\ netState'[n].status = "synced"
    <2>t. netState \in [HostRecord -> RecordState]
      BY <1>1 DEF NetParts, NetData
    <2>0. UNCHANGED netState \/ \E t \in NetThread : HostReconcile(t)
      BY <1>1 DEF NetNext, netVars, OutsideStepNet, AddressesChange, RecordRewritten,
         DebouncePasses, StartCoordinator, LoopTicks, WatcherStep, WatcherSees,
         WatcherEnds, BeginStop, StopStep, ReleaseStop, EndStop, NetCrash, Others,
         PageStep, DetectCandidates, ValidateNetwork, PutEnabled, PutDisabled,
         UpdateConfig, EndUpdate, PageUnchanged
    <2>1. PICK t \in NetThread : HostReconcile(t)
      BY <1>1, <2>0
    <2>2. CASE \E ok \in BOOLEAN : BeginReconcile(t, ok)
      BY <1>1, <2>2, BeginEffect
    <2>3. CASE \E m \in HostRecord, answered \in BOOLEAN : SkipRecord(t, m, answered)
      BY <1>1, <2>3 DEF SkipRecord
    <2>4. CASE EndReconcile(t)
      BY <1>1, <2>4 DEF EndReconcile
    <2>5. ASSUME NEW m \in HostRecord, NEW result \in {"ok", "refused", "unanswered"},
                 UpsertRecord(t, m, result)
          PROVE  FALSE
      <3> DEFINE w == threads[t].addr
                 good == [netState[m] EXCEPT !.status = "verifying", !.desired = w]
                 bad == [netState[m] EXCEPT !.status = "failed", !.desired = w]
      <3>1. netState[m] \in RecordState
        BY <2>t
      <3>2. good.confirmed = netState[m].confirmed /\ bad.confirmed = netState[m].confirmed
        BY <3>1 DEF RecordState
      <3>3. netState' \in {[netState EXCEPT ![m] = good], [netState EXCEPT ![m] = bad]}
        BY <2>5 DEF UpsertRecord
      <3> HIDE DEF good, bad, w
      <3>. QED  BY <1>1, <2>t, <3>2, <3>3
    <2>6. ASSUME NEW m \in HostRecord, NEW answered \in BOOLEAN,
                 VerifyHostRecord(t, m, answered)
          PROVE  hostDNS[n] = netState'[n].confirmed /\ netState'[n].status = "synced"
      <3> DEFINE w == threads[t].addr
                 good == [netState[m] EXCEPT !.status = "synced", !.confirmed = w]
                 bad == [netState[m] EXCEPT !.status = "failed"]
      <3>1. netState[m] \in RecordState
        BY <2>t
      <3>2. good.confirmed = w /\ good.status = "synced" /\ bad.confirmed = netState[m].confirmed
        BY <3>1 DEF RecordState
      <3>3. netState' = [netState EXCEPT ![m] = IF Verdict(m, w, answered) THEN good ELSE bad]
        BY <2>6 DEF VerifyHostRecord
      <3> HIDE DEF good, bad, w
      <3>4. n = m /\ netState'[n] = good /\ Verdict(m, w, answered)
        BY <1>1, <2>t, <3>2, <3>3
      <3>. QED  BY <3>2, <3>4 DEF Verdict
    <2>. QED  BY <2>1, <2>2, <2>3, <2>4, <2>5, <2>6 DEF HostReconcile
  <1>2. NetParts /\ [NetNext]_netVars
        => [\A n \in HostRecord :
              netState'[n].confirmed # netState[n].confirmed
              => hostDNS[n] = netState'[n].confirmed /\ netState'[n].status = "synced"]_netVars
    BY <1>1
  <1>. QED  BY <1>2, NetInvariant, PTL DEF NetSpec, ConfirmedWasServed

----------------------------------------------------------------------------
(* Upgrades of the server.                                                 *)

\* A release that may be installed, and the versions being installed, are ones
\* that were published.
TargetsOK ==
    /\ release.status = "available" => release.latest \in Release
    /\ \A r \in UpgradeOp \cup {Direct} : replacing[r].at # "idle" => replacing[r].target \in Release

RunTable == [UpgradeOp \cup {Direct} ->
                [at : {"idle", "begin", "fetch", "copy", "finish"}, target : 0 .. MaxRelease]]

\* One operation that is not over, in memory and in the file.
AtMostOne(table) ==
    \A o, p \in UpgradeOp :
        table[o].status \in Unfinished /\ table[p].status \in Unfinished => o = p

OneEach == AtMostOne(operations) /\ AtMostOne(operationFile)

\* Run is where the record of its operation says, and ends with the process.
RunsMatch ==
    \A o \in UpgradeOp :
        /\ replacing[o].at = "begin" => operations[o].status = "prepared"
        /\ replacing[o].at \in {"fetch", "copy", "finish"} => operations[o].status = "replacing"
        /\ ~serverUp => replacing[o].at = "idle"

\* The file is behind memory, but never ahead of it.
FileBehind ==
    \A o \in UpgradeOp :
        /\ operations[o].status = "none" <=> operationFile[o].status = "none"
        /\ operationFile[o].status \in UpgradeOutcome => operations[o] = operationFile[o]

\* An operation that replaced the binary has not reported that it failed and is not
\* started again.
ReplacedOK ==
    \A o \in replacedBy :
        /\ operations[o].status # "none"
        /\ operations[o].status = "failed" => operations[o].code # "upgrade_failed"
        /\ replacing[o].at \in {"idle", "finish"}

OperationParts ==
    /\ UpgradeTypeOK /\ TargetsOK /\ OneEach /\ RunsMatch /\ FileBehind /\ ReplacedOK
    /\ SucceededIsWritten

\* What transition does to the records and the file, saved or not.
LEMMA MarkEffect ==
    ASSUME UpgradeTypeOK, NEW o \in UpgradeOp, NEW ok \in BOOLEAN,
           NEW status \in {"replacing", "restarting", "failed"}, Mark(o, status, ok)
    PROVE  /\ operations' \in [UpgradeOp -> OperationRecord]
           /\ operationFile' \in [UpgradeOp -> OperationRecord]
           /\ operationFile' = operationFile \/ operationFile' = operations'
           /\ operations'[o].status = status
           /\ status # "failed" => operations'[o].code = "none"
           /\ \A p \in UpgradeOp : p # o => operations'[p] = operations[p]
  <1> DEFINE code == IF status = "failed" THEN "upgrade_failed" ELSE "none"
             new == [operations[o] EXCEPT !.status = status, !.code = code]
  <1>1. new \in OperationRecord /\ new.status = status /\ new.code = code
    <2>1. operations[o] \in OperationRecord
      BY DEF UpgradeTypeOK
    <2>. QED  BY <2>1 DEF OperationRecord, Unfinished, UpgradeOutcome, ErrorCode
  <1>2. operations' = [operations EXCEPT ![o] = new]
    BY DEF Mark
  <1>3. operationFile' = operationFile \/ operationFile' = operations'
    BY DEF Mark, SaveOperations
  <1> HIDE DEF new
  <1>. QED  BY <1>1, <1>2, <1>3 DEF UpgradeTypeOK

\* Where a run is after it went on, or ended.
LEMMA RunEffect ==
    ASSUME UpgradeTypeOK, NEW r \in UpgradeOp \cup {Direct}, NEW where \in {"fetch", "copy", "finish"}
    PROVE  /\ Stops(r) \in RunTable /\ Stops(r)[r].at = "idle"
           /\ \A p \in UpgradeOp \cup {Direct} : p # r => Stops(r)[p] = replacing[p]
           /\ Reaches(r, where) \in RunTable
           /\ Reaches(r, where)[r].at = where /\ Reaches(r, where)[r].target = replacing[r].target
           /\ \A p \in UpgradeOp \cup {Direct} : p # r => Reaches(r, where)[p] = replacing[p]
  BY ServerUpgradeAssumption DEF UpgradeTypeOK, RunTable, Stops, Reaches, IdleRun

LEMMA RunStepKeeps ==
    ASSUME OperationParts, NEW r \in UpgradeOp \cup {Direct}, NEW status, NEW ok \in BOOLEAN,
           serverUp, serverUp' = serverUp, release' = release,
           NEW where \in {"fetch", "copy", "finish"},
           replacing' = Stops(r) \/ replacing' = Reaches(r, where),
           replacing[r].at # "idle",
           \/ /\ UNCHANGED <<operations, operationFile>>
              /\ replacing[r].at # "begin"
              /\ where \in {"copy", "finish"}
           \/ /\ r \in UpgradeOp /\ Mark(r, status, ok)
              /\ \/ status = "failed" /\ replacing' = Stops(r) /\ replacing[r].at \in {"fetch", "copy"}
                 \/ status = "replacing" /\ replacing[r].at = "begin"
                 \/ status = "restarting" /\ replacing' = Stops(r) /\ replacing[r].at = "finish",
           \/ replacedBy' = replacedBy /\ (replacing[r].at = "finish" => replacing' = Stops(r))
           \/ /\ r \in UpgradeOp /\ replacedBy' = replacedBy \cup {r}
              /\ replacing[r].at = "copy" /\ UNCHANGED <<operations, operationFile>>
              /\ replacing' = Reaches(r, "finish")
    PROVE  /\ operations' \in [UpgradeOp -> OperationRecord]
           /\ operationFile' \in [UpgradeOp -> OperationRecord]
           /\ replacing' \in RunTable
           /\ TargetsOK' /\ OneEach' /\ RunsMatch' /\ FileBehind' /\ ReplacedOK' /\ SucceededIsWritten'
  <1>. USE ServerUpgradeAssumption
  <1>. USE DEF OperationParts
  <1>r. /\ replacing' \in RunTable
        /\ \A p \in UpgradeOp \cup {Direct} : p # r => replacing'[p] = replacing[p]
        /\ replacing'[r].at # "idle" => replacing'[r].target = replacing[r].target
        /\ replacing' = Stops(r) => replacing'[r].at = "idle"
        /\ replacing' = Reaches(r, where) => replacing'[r].at = where
    <2>1. UpgradeTypeOK
      OBVIOUS
    <2>2. /\ Stops(r) \in RunTable /\ Stops(r)[r].at = "idle"
          /\ \A p \in UpgradeOp \cup {Direct} : p # r => Stops(r)[p] = replacing[p]
          /\ Reaches(r, where) \in RunTable
          /\ Reaches(r, where)[r].at = where /\ Reaches(r, where)[r].target = replacing[r].target
          /\ \A p \in UpgradeOp \cup {Direct} : p # r => Reaches(r, where)[p] = replacing[p]
      BY <2>1, RunEffect
    <2>3. CASE replacing' = Stops(r)
      BY <2>2, <2>3
    <2>4. CASE replacing' = Reaches(r, where)
      BY <2>2, <2>4
    <2>. QED  BY <2>3, <2>4
  <1>w. replacing'[r].at \in {"idle", where}
    BY <1>r
  <1>f. replacing' = Reaches(r, "finish") => replacing'[r].at = "finish"
    BY RunEffect
  <1>g. Direct \notin UpgradeOp
    OBVIOUS
  <1>0. CASE UNCHANGED <<operations, operationFile>> /\ replacing[r].at # "begin" /\ where \in {"copy", "finish"}
    <2>t. operations \in [UpgradeOp -> OperationRecord] /\ operationFile \in [UpgradeOp -> OperationRecord]
      BY DEF UpgradeTypeOK
    <2>1. OneEach' /\ FileBehind' /\ SucceededIsWritten'
      BY <1>0 DEF OneEach, AtMostOne, FileBehind, SucceededIsWritten
    <2>2. TargetsOK'
      BY <1>r DEF TargetsOK
    <2>3. RunsMatch'
      BY <1>0, <1>r, <1>w DEF RunsMatch, UpgradeTypeOK
    <2>4. ReplacedOK'
      BY <1>0, <1>r, <1>w, <1>f DEF ReplacedOK, RunsMatch, UpgradeTypeOK
    <2>. QED  BY <1>0, <1>r, <2>t, <2>1, <2>2, <2>3, <2>4
  <1>1. CASE /\ r \in UpgradeOp /\ Mark(r, status, ok)
             /\ \/ status = "failed" /\ replacing' = Stops(r) /\ replacing[r].at \in {"fetch", "copy"}
                \/ status = "replacing" /\ replacing[r].at = "begin"
                \/ status = "restarting" /\ replacing' = Stops(r) /\ replacing[r].at = "finish"
    <2>m. /\ operations' \in [UpgradeOp -> OperationRecord]
          /\ operationFile' \in [UpgradeOp -> OperationRecord]
          /\ operationFile' = operationFile \/ operationFile' = operations'
          /\ operations'[r].status = status
          /\ status # "failed" => operations'[r].code = "none"
          /\ \A p \in UpgradeOp : p # r => operations'[p] = operations[p]
      BY <1>1, MarkEffect
    <2>s. /\ operations[r].status \in {"prepared", "replacing"}
          /\ status \in {"replacing", "restarting", "failed"}
          /\ r \in replacedBy => replacing[r].at = "finish"
          /\ replacedBy' = replacedBy \/ status = "none"
      BY <1>1, <2>m DEF RunsMatch, UpgradeTypeOK, ReplacedOK
    <2>n. operationFile[r].status \notin UpgradeOutcome \cup {"none"}
      BY <1>1, <2>s DEF FileBehind, UpgradeOutcome
    <2>1. OneEach'
      BY <1>1, <2>m, <2>s DEF OneEach, AtMostOne, Unfinished
    <2>2. TargetsOK'
      BY <1>r DEF TargetsOK
    <2>3. RunsMatch'
      BY <1>1, <1>r, <1>w, <2>m DEF RunsMatch, UpgradeTypeOK
    <2>4. FileBehind'
      BY <1>1, <2>m, <2>s, <2>n DEF FileBehind, UpgradeOutcome
    <2>5. ReplacedOK'
      BY <1>1, <1>r, <2>m, <2>s DEF ReplacedOK, UpgradeTypeOK
    <2>6. SucceededIsWritten'
      BY <1>1, <2>m, <2>s DEF SucceededIsWritten
    <2>. QED  BY <1>r, <2>m, <2>1, <2>2, <2>3, <2>4, <2>5, <2>6
  <1>. QED  BY <1>0, <1>1

\* NewOperationManager judges the operations that had asked for a restart and
\* leaves the others.
LEMMA SettledType ==
    ASSUME NEW file \in [UpgradeOp -> OperationRecord], NEW v
    PROVE  /\ Settled(file, v) \in [UpgradeOp -> OperationRecord]
           /\ \A o \in UpgradeOp :
                LET s == Settled(file, v)[o]
                IN  /\ file[o].status # "restarting" => s = file[o]
                    /\ file[o].status = "restarting" =>
                         s.status \in UpgradeOutcome /\ s.code # "upgrade_failed"
  <1> DEFINE rec(o) ==
        IF file[o].target = v THEN [file[o] EXCEPT !.status = "succeeded", !.code = "none"]
        ELSE IF file[o].previous = v
             THEN [file[o] EXCEPT !.status = "rolled_back", !.code = "rollback_detected"]
        ELSE [file[o] EXCEPT !.status = "failed", !.code = "version_mismatch"]
  <1>1. ASSUME NEW o \in UpgradeOp
        PROVE  /\ rec(o) \in OperationRecord
               /\ rec(o).status \in UpgradeOutcome /\ rec(o).code # "upgrade_failed"
    <2>1. file[o] \in OperationRecord
      OBVIOUS
    <2>. QED  BY <2>1 DEF OperationRecord, UpgradeOutcome, ErrorCode
  <1>2. Settled(file, v) = [o \in UpgradeOp |-> IF file[o].status = "restarting" THEN rec(o) ELSE file[o]]
    BY DEF Settled, Judged
  <1> HIDE DEF rec
  <1>. QED  BY <1>1, <1>2

\* A release changes nothing else.
LEMMA PublishReleaseKeeps ==
    ASSUME OperationParts, PublishRelease
    PROVE  OperationParts'
  <1>. USE ServerUpgradeAssumption
  <1>. USE DEF OperationParts
  <1>1. UpgradeTypeOK'
    BY DEF UpgradeTypeOK, RunTable, Release, Missing, Torn, OperationRecord, ErrorCode, Unfinished, UpgradeOutcome, TargetsOK, PublishRelease, ReleaseUnchanged
  <1>2. TargetsOK'
    BY DEF TargetsOK, UpgradeTypeOK, RunTable, Release, Missing, Torn, PublishRelease, ReleaseUnchanged
  <1>3. OneEach'
    BY DEF OneEach, AtMostOne, RunsMatch, UpgradeTypeOK, Unfinished, PublishRelease, ReleaseUnchanged
  <1>4. RunsMatch'
    BY DEF RunsMatch, UpgradeTypeOK, FileBehind, PublishRelease, ReleaseUnchanged
  <1>5. FileBehind'
    BY DEF FileBehind, RunsMatch, UpgradeTypeOK, UpgradeOutcome, PublishRelease, ReleaseUnchanged
  <1>6. ReplacedOK'
    BY DEF ReplacedOK, RunsMatch, FileBehind, UpgradeTypeOK, UpgradeOutcome, PublishRelease, ReleaseUnchanged
  <1>7. SucceededIsWritten'
    BY DEF SucceededIsWritten, FileBehind, RunsMatch, UpgradeTypeOK, UpgradeOutcome, PublishRelease, ReleaseUnchanged
  <1>. QED  BY <1>1, <1>2, <1>3, <1>4, <1>5, <1>6, <1>7

\* Service.Refresh shows published releases.
LEMMA RefreshReleaseKeeps ==
    ASSUME OperationParts, NEW result \in {"ok", "failed", "unsaved"}, RefreshRelease(result)
    PROVE  OperationParts'
  <1>. USE ServerUpgradeAssumption
  <1>. USE DEF OperationParts
  <1>a. /\ release' \in [status : {"unknown", "available", "stale", "error"},
                         latest : 0 .. MaxRelease, newer : BOOLEAN]
        /\ release'.status = "available" => release'.latest \in Release
    <2>1. release \in [status : {"unknown", "available", "stale", "error"},
                       latest : 0 .. MaxRelease, newer : BOOLEAN]
      BY DEF UpgradeTypeOK
    <2>2. CASE result = "ok"
      <3>1. release' = [status |-> "available", latest |-> published, newer |-> running < published]
        BY <2>2 DEF RefreshRelease
      <3>2. published \in Release /\ (running < published) \in BOOLEAN
        BY DEF UpgradeTypeOK
      <3>. QED  BY <3>1, <3>2 DEF Release
    <2>3. CASE result = "failed"
      <3>1. CASE release' = [release EXCEPT !.status = "stale"]
        <4>1. release' = [status |-> "stale", latest |-> release.latest, newer |-> release.newer]
          BY <2>1, <3>1
        <4>. QED  BY <2>1, <4>1
      <3>2. CASE release' = [status |-> "error", latest |-> 0, newer |-> FALSE]
        BY <3>2, ServerUpgradeAssumption
      <3>. QED  BY <2>3, <3>1, <3>2 DEF RefreshRelease
    <2>4. CASE result = "unsaved"
      BY <2>1, <2>4 DEF RefreshRelease, TargetsOK
    <2>. QED  BY <2>2, <2>3, <2>4
  <1>1. UpgradeTypeOK'
    <2>1. /\ UNCHANGED <<published, operations, operationFile, replacing, executable, backup,
                       running, serverUp, restartDue, replacedBy, boots>>
          /\ upgradeFaults' \in 0 .. MaxUpgradeFault
      BY DEF RefreshRelease, UpgradeFault, ReleaseUnchanged, UpgradeTypeOK
    <2>2. releaseAge' \in {0, releaseAge}
      BY DEF RefreshRelease
    <2>. QED  BY <1>a, <2>1, <2>2 DEF UpgradeTypeOK
  <1>2. TargetsOK'
    BY <1>a DEF TargetsOK, UpgradeTypeOK, RunTable, Release, Missing, Torn, RefreshRelease, UpgradeFault, ReleaseUnchanged
  <1>3. OneEach'
    BY DEF OneEach, AtMostOne, RunsMatch, UpgradeTypeOK, Unfinished, RefreshRelease, UpgradeFault, ReleaseUnchanged
  <1>4. RunsMatch'
    BY DEF RunsMatch, UpgradeTypeOK, FileBehind, RefreshRelease, UpgradeFault, ReleaseUnchanged
  <1>5. FileBehind'
    BY DEF FileBehind, RunsMatch, UpgradeTypeOK, UpgradeOutcome, RefreshRelease, UpgradeFault, ReleaseUnchanged
  <1>6. ReplacedOK'
    BY DEF ReplacedOK, RunsMatch, FileBehind, UpgradeTypeOK, UpgradeOutcome, RefreshRelease, UpgradeFault, ReleaseUnchanged
  <1>7. SucceededIsWritten'
    BY DEF SucceededIsWritten, FileBehind, RunsMatch, UpgradeTypeOK, UpgradeOutcome, RefreshRelease, UpgradeFault, ReleaseUnchanged
  <1>. QED  BY <1>1, <1>2, <1>3, <1>4, <1>5, <1>6, <1>7

\* Time passes.
LEMMA ReleaseAgesKeeps ==
    ASSUME OperationParts, ReleaseAges
    PROVE  OperationParts'
  <1>. USE ServerUpgradeAssumption
  <1>. USE DEF OperationParts
  <1>1. UpgradeTypeOK'
    BY DEF UpgradeTypeOK, RunTable, Release, Missing, Torn, OperationRecord, ErrorCode, Unfinished, UpgradeOutcome, TargetsOK, ReleaseAges, ReleaseUnchanged
  <1>2. TargetsOK'
    BY DEF TargetsOK, UpgradeTypeOK, RunTable, Release, Missing, Torn, ReleaseAges, ReleaseUnchanged
  <1>3. OneEach'
    BY DEF OneEach, AtMostOne, RunsMatch, UpgradeTypeOK, Unfinished, ReleaseAges, ReleaseUnchanged
  <1>4. RunsMatch'
    BY DEF RunsMatch, UpgradeTypeOK, FileBehind, ReleaseAges, ReleaseUnchanged
  <1>5. FileBehind'
    BY DEF FileBehind, RunsMatch, UpgradeTypeOK, UpgradeOutcome, ReleaseAges, ReleaseUnchanged
  <1>6. ReplacedOK'
    BY DEF ReplacedOK, RunsMatch, FileBehind, UpgradeTypeOK, UpgradeOutcome, ReleaseAges, ReleaseUnchanged
  <1>7. SucceededIsWritten'
    BY DEF SucceededIsWritten, FileBehind, RunsMatch, UpgradeTypeOK, UpgradeOutcome, ReleaseAges, ReleaseUnchanged
  <1>. QED  BY <1>1, <1>2, <1>3, <1>4, <1>5, <1>6, <1>7

\* Start makes a record only when no other is under way.
LEMMA StartOperationKeeps ==
    ASSUME OperationParts, NEW o \in UpgradeOp, NEW owner \in Administrator, NEW ok \in BOOLEAN, StartOperation(o, owner, ok)
    PROVE  OperationParts'
  <1>. USE ServerUpgradeAssumption
  <1>. USE DEF OperationParts
  <1>a. \A p \in UpgradeOp : operations[p].status \notin Unfinished
    BY DEF StartOperation, InTheWay
  <1>1. UpgradeTypeOK'
    BY DEF UpgradeTypeOK, RunTable, Release, Missing, Torn, OperationRecord, ErrorCode, Unfinished, UpgradeOutcome, TargetsOK, StartOperation, SaveOperations, UpgradeFault, FreshOps, InTheWay, CanUpgrade
  <1>2. TargetsOK'
    BY DEF TargetsOK, UpgradeTypeOK, RunTable, Release, Missing, Torn, StartOperation, SaveOperations, UpgradeFault, FreshOps, InTheWay, CanUpgrade
  <1>3. OneEach'
    <2>1. \A p \in UpgradeOp : p # o => operations'[p] = operations[p]
      BY DEF StartOperation, UpgradeTypeOK
    <2>2. AtMostOne(operations')
      BY <1>a, <2>1 DEF AtMostOne
    <2>3. operationFile' = operationFile \/ operationFile' = operations'
      BY DEF StartOperation, SaveOperations
    <2>. QED  BY <2>2, <2>3 DEF OneEach, AtMostOne
  <1>4. RunsMatch'
    BY DEF RunsMatch, UpgradeTypeOK, FileBehind, StartOperation, SaveOperations, UpgradeFault, FreshOps, InTheWay, CanUpgrade
  <1>5. FileBehind'
    BY DEF FileBehind, RunsMatch, UpgradeTypeOK, UpgradeOutcome, StartOperation, SaveOperations, UpgradeFault, FreshOps, InTheWay, CanUpgrade
  <1>6. ReplacedOK'
    BY DEF ReplacedOK, RunsMatch, FileBehind, UpgradeTypeOK, UpgradeOutcome, StartOperation, SaveOperations, UpgradeFault, FreshOps, InTheWay, CanUpgrade
  <1>7. SucceededIsWritten'
    BY DEF SucceededIsWritten, FileBehind, RunsMatch, UpgradeTypeOK, UpgradeOutcome, StartOperation, SaveOperations, UpgradeFault, FreshOps, InTheWay, CanUpgrade
  <1>. QED  BY <1>1, <1>2, <1>3, <1>4, <1>5, <1>6, <1>7

\* The request without a record.
LEMMA StartDirectKeeps ==
    ASSUME OperationParts, NEW v \in Release, NEW force \in BOOLEAN, StartDirect(v, force)
    PROVE  OperationParts'
  <1>. USE ServerUpgradeAssumption
  <1>. USE DEF OperationParts
  <1>1. UpgradeTypeOK'
    BY DEF UpgradeTypeOK, RunTable, Release, Missing, Torn, OperationRecord, ErrorCode, Unfinished, UpgradeOutcome, TargetsOK, StartDirect, IdleRun
  <1>2. TargetsOK'
    BY DEF TargetsOK, UpgradeTypeOK, RunTable, Release, Missing, Torn, StartDirect, IdleRun
  <1>3. OneEach'
    BY DEF OneEach, AtMostOne, RunsMatch, UpgradeTypeOK, Unfinished, StartDirect, IdleRun
  <1>4. RunsMatch'
    BY DEF RunsMatch, UpgradeTypeOK, FileBehind, StartDirect, IdleRun
  <1>5. FileBehind'
    BY DEF FileBehind, RunsMatch, UpgradeTypeOK, UpgradeOutcome, StartDirect, IdleRun
  <1>6. ReplacedOK'
    BY DEF ReplacedOK, RunsMatch, FileBehind, UpgradeTypeOK, UpgradeOutcome, StartDirect, IdleRun
  <1>7. SucceededIsWritten'
    BY DEF SucceededIsWritten, FileBehind, RunsMatch, UpgradeTypeOK, UpgradeOutcome, StartDirect, IdleRun
  <1>. QED  BY <1>1, <1>2, <1>3, <1>4, <1>5, <1>6, <1>7

\* The runs end with the process.
LEMMA ServerExitsKeeps ==
    ASSUME OperationParts, ServerExits
    PROVE  OperationParts'
  <1>. USE ServerUpgradeAssumption
  <1>. USE DEF OperationParts
  <1>1. UpgradeTypeOK'
    <2>1. replacing' \in RunTable
      BY DEF RunTable, ServerExits, Down, IdleRun
    <2>2. executable' \in Release \cup {Torn}
      BY DEF UpgradeTypeOK, ServerExits, RollBack
    <2>. QED  BY <2>1, <2>2 DEF UpgradeTypeOK, RunTable, ServerExits, Down
  <1>2. TargetsOK'
    BY DEF TargetsOK, UpgradeTypeOK, RunTable, Release, Missing, Torn, ServerExits, Down, IdleRun
  <1>3. OneEach'
    BY DEF OneEach, AtMostOne, RunsMatch, UpgradeTypeOK, Unfinished, ServerExits, Down, IdleRun
  <1>4. RunsMatch'
    BY DEF RunsMatch, UpgradeTypeOK, FileBehind, ServerExits, Down, IdleRun
  <1>5. FileBehind'
    BY DEF FileBehind, RunsMatch, UpgradeTypeOK, UpgradeOutcome, ServerExits, Down, IdleRun
  <1>6. ReplacedOK'
    BY DEF ReplacedOK, RunsMatch, FileBehind, UpgradeTypeOK, UpgradeOutcome, ServerExits, Down, IdleRun
  <1>7. SucceededIsWritten'
    BY DEF SucceededIsWritten, FileBehind, RunsMatch, UpgradeTypeOK, UpgradeOutcome, ServerExits, Down, IdleRun
  <1>. QED  BY <1>1, <1>2, <1>3, <1>4, <1>5, <1>6, <1>7

\* The supervisor copies the backup or nothing.
LEMMA ServerCrashesKeeps ==
    ASSUME OperationParts, NEW supervised \in BOOLEAN, ServerCrashes(supervised)
    PROVE  OperationParts'
  <1>. USE ServerUpgradeAssumption
  <1>. USE DEF OperationParts
  <1>1. UpgradeTypeOK'
    <2>1. replacing' \in RunTable
      BY DEF RunTable, ServerCrashes, Down, IdleRun
    <2>2. executable' \in Release \cup {Torn}
      BY DEF UpgradeTypeOK, ServerCrashes, RollBack
    <2>. QED  BY <2>1, <2>2 DEF UpgradeTypeOK, RunTable, ServerCrashes, Down
  <1>2. TargetsOK'
    BY DEF TargetsOK, UpgradeTypeOK, RunTable, Release, Missing, Torn, ServerCrashes, Down, IdleRun, RollBack
  <1>3. OneEach'
    BY DEF OneEach, AtMostOne, RunsMatch, UpgradeTypeOK, Unfinished, ServerCrashes, Down, IdleRun, RollBack
  <1>4. RunsMatch'
    BY DEF RunsMatch, UpgradeTypeOK, FileBehind, ServerCrashes, Down, IdleRun, RollBack
  <1>5. FileBehind'
    BY DEF FileBehind, RunsMatch, UpgradeTypeOK, UpgradeOutcome, ServerCrashes, Down, IdleRun, RollBack
  <1>6. ReplacedOK'
    BY DEF ReplacedOK, RunsMatch, FileBehind, UpgradeTypeOK, UpgradeOutcome, ServerCrashes, Down, IdleRun, RollBack
  <1>7. SucceededIsWritten'
    BY DEF SucceededIsWritten, FileBehind, RunsMatch, UpgradeTypeOK, UpgradeOutcome, ServerCrashes, Down, IdleRun, RollBack
  <1>. QED  BY <1>1, <1>2, <1>3, <1>4, <1>5, <1>6, <1>7

\* NewOperationManager settles what the file shows.
LEMMA ServerStartsKeeps ==
    ASSUME OperationParts, NEW ok \in BOOLEAN, ServerStarts(ok)
    PROVE  OperationParts'
  <1>. USE ServerUpgradeAssumption
  <1>. USE DEF OperationParts
  <1>s. /\ Settled(operationFile, executable) \in [UpgradeOp -> OperationRecord]
        /\ \A o \in UpgradeOp :
             LET s == Settled(operationFile, executable)[o]
             IN  /\ operationFile[o].status # "restarting" => s = operationFile[o]
                 /\ operationFile[o].status = "restarting" =>
                      s.status \in UpgradeOutcome /\ s.code # "upgrade_failed"
    BY SettledType DEF UpgradeTypeOK
  <1>1. UpgradeTypeOK'
    BY <1>s DEF UpgradeTypeOK, RunTable, Release, Missing, Torn, OperationRecord, ErrorCode, Unfinished, UpgradeOutcome, TargetsOK, ServerStarts, SaveOperations, UpgradeFault, ComesUp, RollBack
  <1>2. TargetsOK'
    BY DEF TargetsOK, UpgradeTypeOK, RunTable, Release, Missing, Torn, ServerStarts, SaveOperations, UpgradeFault, ComesUp, RollBack
  <1>3. OneEach'
    BY <1>s DEF OneEach, AtMostOne, RunsMatch, UpgradeTypeOK, Unfinished, ServerStarts, SaveOperations, UpgradeFault, ComesUp, RollBack
  <1>4. RunsMatch'
    BY <1>s DEF RunsMatch, UpgradeTypeOK, FileBehind, ServerStarts, SaveOperations, UpgradeFault, ComesUp, RollBack
  <1>5. FileBehind'
    BY <1>s DEF FileBehind, RunsMatch, UpgradeTypeOK, UpgradeOutcome, ServerStarts, SaveOperations, UpgradeFault, ComesUp, RollBack
  <1>6. ReplacedOK'
    <2>1. /\ operations' = Settled(operationFile, executable)
          /\ replacedBy' = replacedBy /\ replacing' = replacing
      BY DEF ServerStarts
    <2>2. replacedBy \subseteq UpgradeOp
      BY DEF UpgradeTypeOK
    <2>3. ASSUME NEW o \in replacedBy
          PROVE  /\ operations'[o].status # "none"
                 /\ operations'[o].status = "failed" => operations'[o].code # "upgrade_failed"
      <3>1. CASE operationFile[o].status = "restarting"
        BY <1>s, <2>1, <2>2, <3>1 DEF UpgradeOutcome
      <3>2. CASE operationFile[o].status # "restarting"
        <4>1. operations'[o] = operationFile[o]
          BY <1>s, <2>1, <2>2, <3>2
        <4>. QED  BY <2>2, <4>1 DEF ReplacedOK, FileBehind, UpgradeOutcome
      <3>. QED  BY <3>1, <3>2
    <2>. QED  BY <2>1, <2>3 DEF ReplacedOK
  <1>7. SucceededIsWritten'
    BY <1>s DEF SucceededIsWritten, FileBehind, RunsMatch, UpgradeTypeOK, UpgradeOutcome, ServerStarts, SaveOperations, UpgradeFault, ComesUp, RollBack
  <1>. QED  BY <1>1, <1>2, <1>3, <1>4, <1>5, <1>6, <1>7

\* A start that fails.
LEMMA ServerFailsToStartKeeps ==
    ASSUME OperationParts, ServerFailsToStart
    PROVE  OperationParts'
  <1>. USE ServerUpgradeAssumption
  <1>. USE DEF OperationParts
  <1>1. UpgradeTypeOK'
    BY DEF UpgradeTypeOK, RunTable, Release, Missing, Torn, OperationRecord, ErrorCode, Unfinished, UpgradeOutcome, TargetsOK, ServerFailsToStart, RollBack
  <1>2. TargetsOK'
    BY DEF TargetsOK, UpgradeTypeOK, RunTable, Release, Missing, Torn, ServerFailsToStart, RollBack
  <1>3. OneEach'
    BY DEF OneEach, AtMostOne, RunsMatch, UpgradeTypeOK, Unfinished, ServerFailsToStart, RollBack
  <1>4. RunsMatch'
    BY DEF RunsMatch, UpgradeTypeOK, FileBehind, ServerFailsToStart, RollBack
  <1>5. FileBehind'
    BY DEF FileBehind, RunsMatch, UpgradeTypeOK, UpgradeOutcome, ServerFailsToStart, RollBack
  <1>6. ReplacedOK'
    BY DEF ReplacedOK, RunsMatch, FileBehind, UpgradeTypeOK, UpgradeOutcome, ServerFailsToStart, RollBack
  <1>7. SucceededIsWritten'
    BY DEF SucceededIsWritten, FileBehind, RunsMatch, UpgradeTypeOK, UpgradeOutcome, ServerFailsToStart, RollBack
  <1>. QED  BY <1>1, <1>2, <1>3, <1>4, <1>5, <1>6, <1>7
\* Run begins with the record it was given.
LEMMA BeginReplacingKeeps ==
    ASSUME OperationParts, NEW o \in UpgradeOp, NEW ok \in BOOLEAN, BeginReplacing(o, ok)
    PROVE  OperationParts'
  <1>1. /\ operations' \in [UpgradeOp -> OperationRecord]
        /\ operationFile' \in [UpgradeOp -> OperationRecord]
        /\ replacing' \in RunTable
        /\ TargetsOK' /\ OneEach' /\ RunsMatch' /\ FileBehind' /\ ReplacedOK' /\ SucceededIsWritten'
    <2>1. /\ serverUp /\ serverUp' = serverUp /\ release' = release /\ replacedBy' = replacedBy
          /\ replacing[o].at = "begin" /\ Mark(o, "replacing", ok)
          /\ replacing' = Stops(o) \/ replacing' = Reaches(o, "fetch")
      BY DEF BeginReplacing, RunUnchanged
    <2>. QED  BY <2>1, RunStepKeeps
  <1>2. UpgradeTypeOK'
    BY <1>1, ServerUpgradeAssumption
       DEF OperationParts, UpgradeTypeOK, RunTable, BeginReplacing, RunUnchanged, UpgradeFault
  <1>. QED  BY <1>1, <1>2 DEF OperationParts

\* The download ends in a copy of the binary or in a failure.
LEMMA FetchReleaseKeeps ==
    ASSUME OperationParts, NEW r \in UpgradeOp \cup {Direct},
           NEW result \in {"ok", "current", "failed", "failed_unsaved"}, FetchRelease(r, result)
    PROVE  OperationParts'
  <1>1. /\ operations' \in [UpgradeOp -> OperationRecord]
        /\ operationFile' \in [UpgradeOp -> OperationRecord]
        /\ replacing' \in RunTable
        /\ TargetsOK' /\ OneEach' /\ RunsMatch' /\ FileBehind' /\ ReplacedOK' /\ SucceededIsWritten'
    <2>1. /\ serverUp /\ serverUp' = serverUp /\ release' = release /\ replacedBy' = replacedBy
          /\ replacing[r].at = "fetch"
      BY DEF FetchRelease, RunUnchanged
    <2>2. CASE result \in {"failed", "failed_unsaved"}
      <3>1. CASE r = Direct
        <4>1. UNCHANGED <<operations, operationFile>> /\ replacing' = Stops(r)
          BY <2>2, <3>1 DEF FetchRelease
        <4>. QED  BY <2>1, <4>1, RunStepKeeps
      <3>2. CASE r # Direct
        <4>1. Mark(r, "failed", result = "failed") /\ replacing' = Stops(r)
          BY <2>2, <3>2 DEF FetchRelease
        <4>. QED  BY <2>1, <3>2, <4>1, RunStepKeeps
      <3>. QED  BY <3>1, <3>2
    <2>3. CASE result \notin {"failed", "failed_unsaved"}
      <3>1. PICK where \in {"copy", "finish"} : replacing' = Reaches(r, where)
        BY <2>3 DEF FetchRelease
      <3>2. UNCHANGED <<operations, operationFile>>
        BY <2>3 DEF FetchRelease
      <3>. QED  BY <2>1, <3>1, <3>2, RunStepKeeps
    <2>. QED  BY <2>2, <2>3
  <1>2. /\ UNCHANGED <<published, release, releaseAge, running, serverUp, boots, executable,
                       restartDue, replacedBy>>
        /\ backup' \in {backup, Torn} /\ upgradeFaults' \in 0 .. MaxUpgradeFault
    BY ServerUpgradeAssumption
       DEF FetchRelease, RunUnchanged, UpgradeFault, OperationParts, UpgradeTypeOK
  <1>3. UpgradeTypeOK'
    BY <1>1, <1>2 DEF OperationParts, UpgradeTypeOK, RunTable
  <1>. QED  BY <1>1, <1>3 DEF OperationParts

\* The binary is replaced for an operation under way.
LEMMA ReplaceExecutableKeeps ==
    ASSUME OperationParts, NEW r \in UpgradeOp \cup {Direct},
           NEW result \in {"ok", "failed", "failed_unsaved"}, ReplaceExecutable(r, result)
    PROVE  OperationParts'
  <1>1. /\ operations' \in [UpgradeOp -> OperationRecord]
        /\ operationFile' \in [UpgradeOp -> OperationRecord]
        /\ replacing' \in RunTable
        /\ TargetsOK' /\ OneEach' /\ RunsMatch' /\ FileBehind' /\ ReplacedOK' /\ SucceededIsWritten'
    <2>1. /\ serverUp /\ serverUp' = serverUp /\ release' = release
          /\ replacing[r].at = "copy"
      BY DEF ReplaceExecutable, RunUnchanged
    <2>2. CASE result = "ok" /\ r # Direct
      <3>1. /\ UNCHANGED <<operations, operationFile>> /\ replacing' = Reaches(r, "finish")
            /\ replacedBy' = replacedBy \cup {r}
        BY <2>2 DEF ReplaceExecutable
      <3>. QED  BY <2>1, <2>2, <3>1, RunStepKeeps
    <2>3. CASE r = Direct
      <3>1. /\ UNCHANGED <<operations, operationFile>> /\ replacing' = Stops(r)
            /\ replacedBy' = replacedBy
        BY <2>3 DEF ReplaceExecutable
      <3>. QED  BY <2>1, <3>1, RunStepKeeps
    <2>4. CASE result # "ok" /\ r # Direct
      <3>1. Mark(r, "failed", result = "failed") /\ replacing' = Stops(r) /\ replacedBy' = replacedBy
        BY <2>4 DEF ReplaceExecutable
      <3>. QED  BY <2>1, <2>4, <3>1, RunStepKeeps
    <2>. QED  BY <2>2, <2>3, <2>4
  <1>2. /\ UNCHANGED <<published, release, releaseAge, running, serverUp, boots>>
        /\ backup' \in {Missing, executable} /\ upgradeFaults' \in 0 .. MaxUpgradeFault
        /\ executable' \in {executable, replacing[r].target} /\ restartDue' \in BOOLEAN
        /\ replacedBy' \in SUBSET UpgradeOp
    BY ServerUpgradeAssumption
       DEF ReplaceExecutable, RunUnchanged, UpgradeFault, OperationParts, UpgradeTypeOK
  <1>3. replacing[r].target \in Release
    BY DEF OperationParts, TargetsOK, ReplaceExecutable
  <1>4. UpgradeTypeOK'
    BY <1>1, <1>2, <1>3 DEF OperationParts, UpgradeTypeOK, RunTable
  <1>. QED  BY <1>1, <1>4 DEF OperationParts

\* Run ends with the record at restarting.
LEMMA FinishReplacingKeeps ==
    ASSUME OperationParts, NEW o \in UpgradeOp, NEW ok \in BOOLEAN, FinishReplacing(o, ok)
    PROVE  OperationParts'
  <1>1. /\ operations' \in [UpgradeOp -> OperationRecord]
        /\ operationFile' \in [UpgradeOp -> OperationRecord]
        /\ replacing' \in RunTable
        /\ TargetsOK' /\ OneEach' /\ RunsMatch' /\ FileBehind' /\ ReplacedOK' /\ SucceededIsWritten'
    <2>1. /\ serverUp /\ serverUp' = serverUp /\ release' = release /\ replacedBy' = replacedBy
          /\ replacing[o].at = "finish" /\ Mark(o, "restarting", ok) /\ replacing' = Stops(o)
      BY DEF FinishReplacing, RunUnchanged
    <2>. QED  BY <2>1, RunStepKeeps
  <1>2. UpgradeTypeOK'
    BY <1>1, ServerUpgradeAssumption
       DEF OperationParts, UpgradeTypeOK, RunTable, FinishReplacing, RunUnchanged, UpgradeFault
  <1>. QED  BY <1>1, <1>2 DEF OperationParts

-----------------------------------------------------------------------------
\* The records, the runs and the file stay as OperationParts says (operation.go,
\* upgrade.go, homeagent-server-runner.sh).
THEOREM OperationInvariant == UpgradeSpec => []OperationParts
  <1>1. UpgradeInit => OperationParts
    <2>. SUFFICES ASSUME UpgradeInit PROVE OperationParts
      OBVIOUS
    <2>. USE ServerUpgradeAssumption
    <2>1. UpgradeTypeOK
      <3>1. NoOperation \in OperationRecord /\ 1 \in Release
        BY DEF NoOperation, OperationRecord, ErrorCode, Release
      <3>2. UnknownRelease \in [status : {"unknown", "available", "stale", "error"},
                               latest : 0 .. MaxRelease, newer : BOOLEAN]
        BY DEF UnknownRelease
      <3>3. replacing \in RunTable
        BY DEF UpgradeInit, RunTable, IdleRun
      <3>4. operations \in [UpgradeOp -> OperationRecord]
            /\ operationFile \in [UpgradeOp -> OperationRecord]
        BY <3>1 DEF UpgradeInit
      <3>5. published \in Release /\ running \in Release /\ executable \in Release
        BY <3>1 DEF UpgradeInit
      <3>6. upgradeFaults \in 0 .. MaxUpgradeFault /\ boots \in 0 .. MaxBoot /\ releaseAge \in 0 .. 2
        BY DEF UpgradeInit
      <3>. QED  BY <3>2, <3>3, <3>4, <3>5, <3>6 DEF UpgradeInit, UpgradeTypeOK, RunTable
    <2>2. TargetsOK /\ OneEach /\ RunsMatch /\ FileBehind /\ ReplacedOK /\ SucceededIsWritten
      BY DEF UpgradeInit, TargetsOK, OneEach, AtMostOne, RunsMatch, FileBehind, ReplacedOK,
         SucceededIsWritten, UnknownRelease, NoOperation, IdleRun, Unfinished, UpgradeOutcome
    <2>. QED  BY <2>1, <2>2 DEF OperationParts
  <1>2. OperationParts /\ [UpgradeNext]_upgradeVars => OperationParts'
    <2>. SUFFICES ASSUME OperationParts, [UpgradeNext]_upgradeVars PROVE OperationParts'
      OBVIOUS
    <2>1. CASE UNCHANGED upgradeVars
      BY <2>1 DEF upgradeVars, OperationParts, UpgradeTypeOK, TargetsOK, OneEach, AtMostOne,
         RunsMatch, FileBehind, ReplacedOK, SucceededIsWritten
    <2>2. ASSUME NEW o \in UpgradeOp, NEW ok \in BOOLEAN, OperationStep(o, ok)
          PROVE  OperationParts'
      BY <2>2, StartOperationKeeps, BeginReplacingKeeps, FinishReplacingKeeps DEF OperationStep
    <2>3. ASSUME NEW r \in UpgradeOp \cup {Direct}, ReplaceStep(r) PROVE OperationParts'
      BY <2>3, FetchReleaseKeeps, ReplaceExecutableKeeps DEF ReplaceStep
    <2>. QED  BY <2>1, <2>2, <2>3, PublishReleaseKeeps, ReleaseAgesKeeps, RefreshReleaseKeeps,
              StartDirectKeeps, ServerExitsKeeps, ServerFailsToStartKeeps, ServerCrashesKeeps,
              ServerStartsKeeps DEF UpgradeNext
  <1>. QED  BY <1>1, <1>2, PTL DEF UpgradeSpec

\* One operation at a time, in memory and on disk, one that reports its own failure left
\* the binary and a succeeded one is written, for any operations, failures and crashes
\* (OperationManager).  A failure that a start finds is not meant.
THEOREM OperationsConsistent == UpgradeSpec => []OperationInv
  <1>1. ASSUME NEW table, AtMostOne(table)
        PROVE  Cardinality({o \in UpgradeOp : table[o].status \in Unfinished}) <= 1
    <2> DEFINE S == {o \in UpgradeOp : table[o].status \in Unfinished}
    <2>1. CASE S = {}
      BY <2>1, FS_EmptySet
    <2>2. CASE S # {}
      <3>1. PICK o \in S : S = {o}
        BY <1>1, <2>2 DEF AtMostOne
      <3>2. Cardinality(S) = 1
        BY <3>1, FS_Singleton, Zenon
      <3>. QED  BY <3>2
    <2>. QED  BY <2>1, <2>2
  <1>2. OperationParts => OperationInv
    <2>. SUFFICES ASSUME OperationParts PROVE OperationInv
      OBVIOUS
    <2>1. OneOperation
      BY <1>1 DEF OneOperation, OperationParts, OneEach
    <2>2. FailedLeftExecutable
      BY DEF FailedLeftExecutable, OperationParts, ReplacedOK
    <2>. QED  BY <2>1, <2>2 DEF OperationInv, OperationParts
  <1>. QED  BY <1>2, OperationInvariant, PTL

\* An outcome that was written is never judged again (NewOperationManager).
THEOREM OutcomesFinal == UpgradeSpec => OutcomesStay
  <1>1. ASSUME OperationParts, OperationParts', [UpgradeNext]_upgradeVars, NEW o \in UpgradeOp,
               operationFile[o].status \in UpgradeOutcome
        PROVE  operationFile'[o] = operationFile[o]
    <2>. USE DEF OperationParts
    <2>t. /\ operations \in [UpgradeOp -> OperationRecord]
          /\ operationFile \in [UpgradeOp -> OperationRecord]
          /\ operations[o] = operationFile[o]
          /\ operations[o].status \notin {"none", "prepared", "replacing"}
      BY <1>1 DEF UpgradeTypeOK, FileBehind, UpgradeOutcome
    <2>r. replacing[o].at = "idle"
      BY <1>1, <2>t DEF RunsMatch, UpgradeTypeOK
    <2>m. ASSUME NEW p \in UpgradeOp, NEW status \in {"replacing", "restarting", "failed"},
                 NEW ok \in BOOLEAN, p # o, Mark(p, status, ok)
          PROVE  operationFile'[o] = operationFile[o]
      BY <1>1, <2>m, <2>t, MarkEffect
    <2>1. CASE UNCHANGED operationFile
      BY <2>1
    <2>2. ASSUME NEW p \in UpgradeOp, NEW ok \in BOOLEAN, NEW owner \in Administrator,
                 StartOperation(p, owner, ok)
          PROVE  operationFile'[o] = operationFile[o]
      BY <2>2, <2>t DEF StartOperation, SaveOperations, FreshOps
    <2>3. ASSUME NEW p \in UpgradeOp, NEW ok \in BOOLEAN, BeginReplacing(p, ok)
          PROVE  operationFile'[o] = operationFile[o]
      BY <2>3, <2>m, <2>r DEF BeginReplacing
    <2>4. ASSUME NEW p \in UpgradeOp, NEW ok \in BOOLEAN, FinishReplacing(p, ok)
          PROVE  operationFile'[o] = operationFile[o]
      BY <2>4, <2>m, <2>r DEF FinishReplacing
    <2>5. ASSUME NEW p \in UpgradeOp \cup {Direct}, NEW result \in {"ok", "failed", "failed_unsaved"},
                 ReplaceExecutable(p, result)
          PROVE  operationFile'[o] = operationFile[o]
      BY <2>5, <2>m, <2>r DEF ReplaceExecutable
    <2>6. ASSUME NEW p \in UpgradeOp \cup {Direct},
                 NEW result \in {"ok", "current", "failed", "failed_unsaved"},
                 FetchRelease(p, result)
          PROVE  operationFile'[o] = operationFile[o]
      <3>1. UNCHANGED operationFile \/ (p # Direct /\ Mark(p, "failed", result = "failed"))
        BY <2>6 DEF FetchRelease
      <3>2. p # o
        BY <2>6, <2>r DEF FetchRelease
      <3>. QED  BY <3>1, <3>2, <2>m
    <2>7. ASSUME NEW ok \in BOOLEAN, ServerStarts(ok)
          PROVE  operationFile'[o] = operationFile[o]
      <3>1. operations'[o] = operationFile[o]
        BY <1>1, <2>7, <2>t, SettledType DEF ServerStarts, UpgradeOutcome
      <3>. QED  BY <2>7, <3>1 DEF ServerStarts, SaveOperations
    <2>8. UNCHANGED operationFile \/ (\E p \in UpgradeOp, ok \in BOOLEAN : OperationStep(p, ok))
          \/ (\E p \in UpgradeOp \cup {Direct} : ReplaceStep(p)) \/ \E ok \in BOOLEAN : ServerStarts(ok)
      BY <1>1 DEF UpgradeNext, upgradeVars, PublishRelease, ReleaseAges, RefreshRelease,
         ReleaseUnchanged, StartDirect, ServerExits, ServerFailsToStart, ServerCrashes
    <2>. QED  BY <2>1, <2>2, <2>3, <2>4, <2>5, <2>6, <2>7, <2>8 DEF OperationStep, ReplaceStep
  <1>2. OperationParts /\ OperationParts' /\ [UpgradeNext]_upgradeVars
        => [\A o \in UpgradeOp : operationFile[o].status \in UpgradeOutcome
                                 => operationFile'[o] = operationFile[o]]_upgradeVars
    BY <1>1
  <1>. QED  BY <1>2, OperationInvariant, PTL DEF UpgradeSpec, OutcomesStay

----------------------------------------------------------------------------
(* Shared files and their tokens.                                          *)

FileStatus == {"none", "ready", "delete_failed"}
FileTable == [File -> [status : FileStatus, size : Nat]]
LinkTable == [Link -> LinkRecord \cup {NoLink}]
TokenTable == [FileToken -> [status : {"none", "issued", "revoked"}, version : Nat]]
UploadTable == [Upload -> [active : BOOLEAN, acquired : Nat,
                           credential : FileToken \cup {NoCredential}]]

ShareTypes ==
    /\ files \in FileTable /\ links \in LinkTable
    /\ metadata \in [files : FileTable, links : LinkTable]
    /\ uploads \in UploadTable
    /\ fileTokens \in TokenTable /\ tokenFile \in TokenTable
    /\ minting \in FileToken \cup {NoCredential}
    /\ account \in [active : BOOLEAN, version : Nat]
    /\ deadLinks \in SUBSET Link

\* A link that opens nothing, whatever becomes of its file.
Severed(x) == x = NoLink \/ x.revoked

\* A link whose end was confirmed is severed in memory and in the file.
Severance == \A l \in deadLinks : Severed(links[l]) /\ Severed(metadata.links[l])

\* The tokens issued for the user as he is now, active or not.
CurrentTokens(table) == {t \in FileToken : table[t].status = "issued" /\ table[t].version = account.version}

\* What the file has and memory has not is a token of an earlier version, and a
\* token being made is taken back only when the user has changed.
TokenBounds ==
    /\ \A t \in FileToken : /\ fileTokens[t].version <= account.version
                            /\ tokenFile[t].version <= account.version
                            /\ tokenFile[t] = fileTokens[t] \/ tokenFile[t].version < account.version
    /\ minting # NoCredential =>
          /\ fileTokens[minting].status = "issued"
          /\ fileTokens[minting].version = account.version => account.active
    /\ IsFiniteSet(CurrentTokens(fileTokens)) /\ Cardinality(CurrentTokens(fileTokens)) <= TokenLimit

ShareParts == ShareTypes /\ ListedHasObject /\ Severance /\ TokenBounds /\ RevokedCommitsNothing

\* A record on which only the status changes.
LEMMA StatusTyped ==
  ASSUME NEW r \in [status : FileStatus, size : Nat], NEW s \in FileStatus
  PROVE  /\ [r EXCEPT !.status = s] \in [status : FileStatus, size : Nat]
         /\ [r EXCEPT !.status = s].status = s
  OBVIOUS

\* persistLocked replaces the metadata by what is in memory, or leaves it.
LEMMA PersistTyped ==
  ASSUME ShareTypes, files' \in FileTable, links' \in LinkTable, NEW ok \in BOOLEAN,
         PersistShare(ok)
  PROVE  /\ metadata' \in [files : FileTable, links : LinkTable]
         /\ metadata'.links \in {links', metadata.links}
  BY DEF PersistShare, ShareTypes

\* A start: records, links and objects agree, and the tokens are those of the file.
LEMMA OpenStep ==
  ASSUME ShareParts, NEW ok \in BOOLEAN, NEW kept \in SUBSET Recovered, OpenShare(ok, kept)
  PROVE  ShareParts'
<1>t. ShareTypes
  BY DEF ShareParts
<1>k. kept \subseteq File /\ kept \subseteq objects
  BY DEF Recovered, Stored
<1>1. files' \in FileTable /\ \A f \in File : files'[f].status # "none" <=> f \in kept
  <2>1. ASSUME NEW f \in File
        PROVE  LET r == IF f \in kept THEN [metadata.files[f] EXCEPT !.status = "ready"]
                                           ELSE NoRecordOf
               IN  r \in [status : FileStatus, size : Nat] /\ (r.status # "none" <=> f \in kept)
    <3>1. metadata.files[f] \in [status : FileStatus, size : Nat]
      BY <1>t DEF ShareTypes, FileTable
    <3>2. "ready" \in FileStatus /\ NoRecordOf \in [status : FileStatus, size : Nat]
          /\ NoRecordOf.status = "none"
      BY DEF FileStatus, NoRecordOf
    <3> QED
      BY <3>1, <3>2, StatusTyped
  <2>2. files' = [f \in File |-> IF f \in kept THEN [metadata.files[f] EXCEPT !.status = "ready"]
                                                    ELSE NoRecordOf]
    BY DEF OpenShare
  <2> QED
    BY <2>1, <2>2 DEF FileTable
<1>2. /\ links' \in LinkTable
      /\ \A l \in Link : /\ links'[l] \in {metadata.links[l], NoLink}
                         /\ links'[l] # NoLink => links'[l].file \in kept
  BY <1>t DEF OpenShare, ShareTypes, LinkTable
<1>3. /\ metadata' \in [files : FileTable, links : LinkTable]
      /\ metadata'.links \in {links', metadata.links}
  BY <1>t, <1>1, <1>2, PersistTyped DEF OpenShare
<1>4. ShareTypes'
  BY <1>t, <1>1, <1>2, <1>3 DEF OpenShare, ShareTypes
<1>5. ListedHasObject'
  <2>1. Stored(files)' = kept /\ objects' = objects \cap kept
    BY <1>k, <1>1 DEF OpenShare, Stored
  <2> QED
    BY <1>k, <1>2, <2>1 DEF ListedHasObject
<1>6. Severance'
  <2>1. \A l \in deadLinks : l \in Link /\ Severed(metadata.links[l])
    BY <1>t DEF ShareParts, Severance, ShareTypes
  <2>2. ASSUME NEW l \in deadLinks PROVE Severed(links'[l]) /\ Severed(metadata'.links[l])
    BY <1>2, <1>3, <2>1 DEF Severed
  <2> QED
    BY <2>2 DEF OpenShare, Severance
<1>7. TokenBounds'
  <2>1. fileTokens' = tokenFile /\ UNCHANGED <<tokenFile, account>> /\ minting' = NoCredential
    BY DEF OpenShare
  <2>2. CurrentTokens(tokenFile) \subseteq CurrentTokens(fileTokens)
    BY <1>t DEF CurrentTokens, ShareParts, TokenBounds, ShareTypes, TokenTable
  <2>3. IsFiniteSet(CurrentTokens(tokenFile)) /\ Cardinality(CurrentTokens(tokenFile)) <= TokenLimit
    <3>1. IsFiniteSet(CurrentTokens(fileTokens)) /\ Cardinality(CurrentTokens(fileTokens)) <= TokenLimit
      BY DEF ShareParts, TokenBounds
    <3>2. /\ IsFiniteSet(CurrentTokens(tokenFile))
          /\ Cardinality(CurrentTokens(tokenFile)) <= Cardinality(CurrentTokens(fileTokens))
      BY <2>2, <3>1, FS_Subset
    <3>3. /\ Cardinality(CurrentTokens(tokenFile)) \in Nat /\ Cardinality(CurrentTokens(fileTokens)) \in Nat
          /\ TokenLimit \in Nat
      BY <3>1, <3>2, FS_CardinalityType, FileShareAssumption
    <3> QED
      BY <3>1, <3>2, <3>3
  <2> QED
    BY <2>1, <2>3 DEF ShareParts, TokenBounds, CurrentTokens
<1>8. RevokedCommitsNothing'
  BY DEF OpenShare, ShareParts, RevokedCommitsNothing
<1> QED
  BY <1>4, <1>5, <1>6, <1>7, <1>8 DEF ShareParts

\* A step that leaves the tokens and the user alone.
LEMMA TokensRest ==
  TokenBounds /\ UNCHANGED tokenVars => TokenBounds'
  BY DEF TokenBounds, tokenVars, CurrentTokens

\* What a step that touches neither records nor links keeps.
LEMMA FilesRest ==
  ASSUME ListedHasObject, Severance, UNCHANGED <<files, links, objects, metadata, deadLinks>>,
         serving' => serving
  PROVE  ListedHasObject' /\ Severance'
  BY DEF ListedHasObject, Severance, Stored

\* A server that is down promises nothing about its memory.
LEMMA CrashStep ==
  ASSUME ShareParts, CrashShare
  PROVE  ShareParts'
<1>1. ListedHasObject' /\ Severance'
  BY FilesRest DEF ShareParts, CrashShare
<1>2. ShareTypes'
  BY DEF ShareParts, CrashShare, ShareTypes, tokenVars, IdleUpload, UploadTable
<1>3. TokenBounds'
  BY TokensRest DEF ShareParts, CrashShare
<1>4. RevokedCommitsNothing'
  BY DEF ShareParts, CrashShare, RevokedCommitsNothing
<1> QED
  BY <1>1, <1>2, <1>3, <1>4 DEF ShareParts

\* While the user is active the tokens issued for him now are the valid ones.
LEMMA ValidAreCurrent ==
  ASSUME account.active
  PROVE  {t \in FileToken : TokenValid(t)} = CurrentTokens(fileTokens)
  BY DEF TokenValid, CurrentTokens

\* The limit is met before the token is made, so that one more is not too many.
LEMMA CreateTokenStep ==
  ASSUME ShareParts, NEW t \in FileToken, NEW ok \in BOOLEAN, CreateFileToken(t, ok)
  PROVE  ShareParts'
<1>t. ShareTypes /\ TokenBounds
  BY DEF ShareParts
<1>1. ListedHasObject' /\ Severance'
  BY FilesRest DEF ShareParts, CreateFileToken, ShareUnchanged
<1>2. RevokedCommitsNothing'
  BY DEF ShareParts, CreateFileToken, ShareUnchanged, RevokedCommitsNothing
<1>3. CASE ~ok
  <2>1. UNCHANGED <<fileTokens, tokenFile, minting, account>>
    BY <1>3 DEF CreateFileToken, PersistTokens
  <2>2. ShareTypes'
    BY <1>t, <2>1 DEF ShareTypes, CreateFileToken, ShareUnchanged
  <2>3. TokenBounds'
    BY <1>t, <2>1, TokensRest DEF tokenVars
  <2> QED
    BY <1>1, <1>2, <2>2, <2>3 DEF ShareParts
<1>4. CASE ok
  <2> DEFINE r == [status |-> "issued", version |-> account.version]
  <2>1. /\ fileTokens' = [fileTokens EXCEPT ![t] = r] /\ tokenFile' = fileTokens'
        /\ minting' = t /\ UNCHANGED account /\ account.active /\ BelowLimit
        /\ fileTokens[t].status = "none"
    BY <1>4 DEF CreateFileToken, PersistTokens, IsFresh
  <2>2. ShareTypes'
    BY <1>t, <2>1 DEF ShareTypes, CreateFileToken, ShareUnchanged, TokenTable
  <2>3. CurrentTokens(fileTokens)' = CurrentTokens(fileTokens) \cup {t}
    BY <1>t, <2>1 DEF CurrentTokens, ShareTypes, TokenTable
  <2>4. IsFiniteSet(CurrentTokens(fileTokens)) /\ Cardinality(CurrentTokens(fileTokens)) < TokenLimit
    BY <1>t, <2>1, ValidAreCurrent DEF BelowLimit, TokenBounds
  <2>5. IsFiniteSet(CurrentTokens(fileTokens) \cup {t})
        /\ Cardinality(CurrentTokens(fileTokens) \cup {t}) <= TokenLimit
    <3>1. /\ IsFiniteSet(CurrentTokens(fileTokens) \cup {t})
          /\ \/ Cardinality(CurrentTokens(fileTokens) \cup {t}) = Cardinality(CurrentTokens(fileTokens))
             \/ Cardinality(CurrentTokens(fileTokens) \cup {t}) = Cardinality(CurrentTokens(fileTokens)) + 1
      BY <2>4, FS_AddElement
    <3>2. Cardinality(CurrentTokens(fileTokens)) \in Nat /\ TokenLimit \in Nat
      BY <2>4, FS_CardinalityType, FileShareAssumption
    <3> QED
      BY <2>4, <3>1, <3>2
  <2>6. \A k \in FileToken : /\ fileTokens'[k].version <= account.version
                             /\ tokenFile'[k] = fileTokens'[k]
    <3>1. \A k \in FileToken : fileTokens'[k] = IF k = t THEN r ELSE fileTokens[k]
      BY <1>t, <2>1 DEF ShareTypes, TokenTable
    <3>2. r.version = account.version /\ account.version \in Nat
      BY <1>t DEF ShareTypes
    <3>3. ASSUME NEW k \in FileToken PROVE fileTokens'[k].version <= account.version
      BY <1>t, <3>1, <3>2 DEF TokenBounds
    <3> QED
      BY <2>1, <3>3
  <2>7. fileTokens'[t] = r /\ r.status = "issued"
    BY <1>t, <2>1 DEF ShareTypes, TokenTable
  <2>8. TokenBounds'
    BY <2>1, <2>3, <2>5, <2>6, <2>7 DEF TokenBounds
  <2> QED
    BY <1>1, <1>2, <2>2, <2>8 DEF ShareParts
<1> QED
  BY <1>3, <1>4

\* Nothing becomes current by taking a token out.
LEMMA FewerCurrent ==
  ASSUME TokenBounds, CurrentTokens(fileTokens)' \subseteq CurrentTokens(fileTokens)
  PROVE  /\ IsFiniteSet(CurrentTokens(fileTokens)')
         /\ Cardinality(CurrentTokens(fileTokens)') <= TokenLimit
<1>1. IsFiniteSet(CurrentTokens(fileTokens)) /\ Cardinality(CurrentTokens(fileTokens)) <= TokenLimit
  BY DEF TokenBounds
<1>2. /\ IsFiniteSet(CurrentTokens(fileTokens)')
      /\ Cardinality(CurrentTokens(fileTokens)') <= Cardinality(CurrentTokens(fileTokens))
  BY <1>1, FS_Subset
<1>3. /\ Cardinality(CurrentTokens(fileTokens)) \in Nat /\ Cardinality(CurrentTokens(fileTokens)') \in Nat
      /\ TokenLimit \in Nat
  BY <1>1, <1>2, FS_CardinalityType, FileShareAssumption
<1> QED
  BY <1>1, <1>2, <1>3

\* A token taken back in memory alone belongs to an earlier version of the user.
LEMMA FinishTokenStep ==
  ASSUME ShareParts, NEW ok \in BOOLEAN, FinishFileToken(ok)
  PROVE  ShareParts'
<1>t. ShareTypes /\ TokenBounds
  BY DEF ShareParts
<1>1. ListedHasObject' /\ Severance'
  BY FilesRest DEF ShareParts, FinishFileToken, ShareUnchanged
<1>2. RevokedCommitsNothing'
  BY DEF ShareParts, FinishFileToken, ShareUnchanged, RevokedCommitsNothing
<1>3. CASE TokenValid(minting)
  <2>1. UNCHANGED <<fileTokens, tokenFile, account>> /\ minting' = NoCredential
    BY <1>3 DEF FinishFileToken
  <2>2. ShareTypes'
    BY <1>t, <2>1 DEF ShareTypes, FinishFileToken, ShareUnchanged
  <2>3. TokenBounds'
    BY <1>t, <2>1 DEF TokenBounds, CurrentTokens
  <2> QED
    BY <1>1, <1>2, <2>2, <2>3 DEF ShareParts
<1>4. CASE ~TokenValid(minting)
  <2>1. /\ fileTokens' = [fileTokens EXCEPT ![minting] = NoMint]
        /\ tokenFile' = IF ok THEN fileTokens' ELSE tokenFile
        /\ minting' = NoCredential /\ UNCHANGED account /\ minting # NoCredential
    BY <1>4 DEF FinishFileToken, PersistTokens
  <2>2. minting \in FileToken /\ NoMint \in [status : {"none", "issued", "revoked"}, version : Nat]
        /\ NoMint.status = "none" /\ NoMint.version = 0
    BY <1>t, <2>1 DEF ShareTypes, NoMint
  <2>3. fileTokens[minting].version < account.version /\ tokenFile[minting].version < account.version
    <3>1. fileTokens[minting].version # account.version
      BY <1>4, <1>t, <2>1 DEF TokenBounds, TokenValid
    <3>2. /\ fileTokens[minting].version <= account.version
          /\ tokenFile[minting] = fileTokens[minting] \/ tokenFile[minting].version < account.version
      BY <1>t, <2>2 DEF TokenBounds
    <3>3. fileTokens[minting].version \in Nat /\ account.version \in Nat
      BY <1>t, <2>2 DEF ShareTypes, TokenTable
    <3> QED
      BY <3>1, <3>2, <3>3
  <2>4. ShareTypes'
    BY <1>t, <2>1, <2>2 DEF ShareTypes, FinishFileToken, ShareUnchanged, TokenTable
  <2>5. CurrentTokens(fileTokens)' \subseteq CurrentTokens(fileTokens)
    BY <1>t, <2>1, <2>2 DEF CurrentTokens, ShareTypes, TokenTable
  <2>6. \A t \in FileToken : /\ fileTokens'[t].version <= account.version
                             /\ tokenFile'[t].version <= account.version
                             /\ tokenFile'[t] = fileTokens'[t] \/ tokenFile'[t].version < account.version
    BY <1>t, <2>1, <2>2, <2>3 DEF ShareTypes, TokenTable, TokenBounds
  <2>7. TokenBounds'
    BY <1>t, <2>1, <2>5, <2>6, FewerCurrent DEF TokenBounds
  <2> QED
    BY <1>1, <1>2, <2>4, <2>7 DEF ShareParts
<1> QED
  BY <1>3, <1>4

\* A revocation is kept in memory only when it is written.
LEMMA RevokeTokenStep ==
  ASSUME ShareParts, NEW t \in FileToken, NEW ok \in BOOLEAN, RevokeFileToken(t, ok)
  PROVE  ShareParts'
<1>t. ShareTypes /\ TokenBounds
  BY DEF ShareParts
<1>1. ListedHasObject' /\ Severance'
  BY FilesRest DEF ShareParts, RevokeFileToken, ShareUnchanged
<1>2. RevokedCommitsNothing'
  BY DEF ShareParts, RevokeFileToken, ShareUnchanged, RevokedCommitsNothing
<1>3. /\ fileTokens' = IF ok THEN [fileTokens EXCEPT ![t].status = "revoked"] ELSE fileTokens
      /\ tokenFile' = IF ok THEN fileTokens' ELSE tokenFile
      /\ minting = NoCredential /\ UNCHANGED <<minting, account>>
  BY DEF RevokeFileToken, PersistTokens
<1>4. ShareTypes'
  BY <1>t, <1>3 DEF ShareTypes, RevokeFileToken, ShareUnchanged, TokenTable
<1>5. CurrentTokens(fileTokens)' \subseteq CurrentTokens(fileTokens)
  BY <1>t, <1>3 DEF CurrentTokens, ShareTypes, TokenTable
<1>6. \A k \in FileToken : /\ fileTokens'[k].version <= account.version
                           /\ tokenFile'[k].version <= account.version
                           /\ tokenFile'[k] = fileTokens'[k] \/ tokenFile'[k].version < account.version
  BY <1>t, <1>3 DEF ShareTypes, TokenTable, TokenBounds
<1>7. TokenBounds'
  BY <1>t, <1>3, <1>5, <1>6, FewerCurrent DEF TokenBounds
<1> QED
  BY <1>1, <1>2, <1>4, <1>7 DEF ShareParts

\* A change of the user leaves no current token, or the same ones.
LEMMA AccountStep ==
  ASSUME ShareParts, NEW active \in BOOLEAN, AccountChanges(active)
  PROVE  ShareParts'
<1>t. ShareTypes /\ TokenBounds
  BY DEF ShareParts
<1>1. ListedHasObject' /\ Severance'
  BY FilesRest DEF ShareParts, AccountChanges, ShareUnchanged
<1>2. RevokedCommitsNothing'
  BY DEF ShareParts, AccountChanges, ShareUnchanged, RevokedCommitsNothing
<1>3. /\ UNCHANGED <<fileTokens, tokenFile, minting>>
      /\ \/ account' = [active |-> active, version |-> account.version + 1]
         \/ account' = [account EXCEPT !.active = TRUE]
  BY DEF AccountChanges
<1>4. ShareTypes'
  <2>1. account \in [active : BOOLEAN, version : Nat]
    BY <1>t DEF ShareTypes
  <2>2. account' \in [active : BOOLEAN, version : Nat]
    <3>1. account.version + 1 \in Nat
      BY <2>1
    <3>2. [active |-> active, version |-> account.version + 1] \in [active : BOOLEAN, version : Nat]
      BY <3>1, Zenon
    <3>3. [account EXCEPT !.active = TRUE] \in [active : BOOLEAN, version : Nat]
      BY <2>1
    <3> QED
      BY <1>3, <3>2, <3>3, Zenon
  <2> QED
    BY <1>t, <1>3, <2>2 DEF ShareTypes, AccountChanges, ShareUnchanged
<1>5. account.version \in Nat
      /\ \A t \in FileToken : fileTokens[t].version \in Nat /\ tokenFile[t].version \in Nat
  BY <1>t DEF ShareTypes, TokenTable
<1>6. CASE account' = [active |-> active, version |-> account.version + 1]
  <2>1. account'.version = account.version + 1
    BY <1>6
  <2>2. ASSUME NEW t \in FileToken
        PROVE  /\ fileTokens[t].version <= account'.version /\ fileTokens[t].version # account'.version
               /\ tokenFile[t].version <= account'.version /\ tokenFile[t].version < account'.version
    <3>1. fileTokens[t].version <= account.version /\ tokenFile[t].version <= account.version
      BY <1>t DEF TokenBounds
    <3> QED
      BY <1>5, <2>1, <3>1
  <2>3. CurrentTokens(fileTokens)' \subseteq CurrentTokens(fileTokens)
    BY <1>3, <2>2 DEF CurrentTokens
  <2>4. minting # NoCredential => minting \in FileToken
    BY <1>t DEF ShareTypes
  <2>5. TokenBounds'
    BY <1>t, <1>3, <2>2, <2>3, <2>4, FewerCurrent DEF TokenBounds
  <2> QED
    BY <1>1, <1>2, <1>4, <2>5 DEF ShareParts
<1>7. CASE account' = [account EXCEPT !.active = TRUE]
  <2>1. account'.version = account.version /\ account'.active
    BY <1>7, <1>t DEF ShareTypes
  <2>2. TokenBounds'
    BY <1>t, <1>3, <2>1 DEF TokenBounds, CurrentTokens
  <2> QED
    BY <1>1, <1>2, <1>4, <2>2 DEF ShareParts
<1> QED
  BY <1>3, <1>6, <1>7

\* Uploads in flight reserve room and touch nothing else.
LEMMA UploadOnlyStep ==
  ASSUME ShareParts, NEW u \in Upload,
         \/ \E c \in FileToken \cup {NoCredential} : BeginUpload(u, c)
         \/ WriteChunk(u) \/ AbortUpload(u) \/ RefuseUpload(u)
  PROVE  ShareParts'
<1>t. ShareTypes
  BY DEF ShareParts
<1>1. UNCHANGED <<files, links, objects, metadata, tokenVars, serving, deadLinks, lateCommit>>
  BY DEF BeginUpload, WriteChunk, AbortUpload, RefuseUpload
<1>2. uploads' \in UploadTable
  <2>1. ASSUME NEW c \in FileToken \cup {NoCredential}, BeginUpload(u, c) PROVE uploads' \in UploadTable
    BY <1>t, <2>1 DEF BeginUpload, ShareTypes, UploadTable
  <2>2. ASSUME WriteChunk(u) PROVE uploads' \in UploadTable
    BY <1>t, <2>2 DEF WriteChunk, ShareTypes, UploadTable
  <2>3. ASSUME AbortUpload(u) PROVE uploads' \in UploadTable
    BY <1>t, <2>3 DEF AbortUpload, ShareTypes, IdleUpload, UploadTable
  <2> QED
    BY <2>1, <2>2, <2>3 DEF RefuseUpload
<1>3. ListedHasObject' /\ Severance'
  BY <1>1, FilesRest DEF ShareParts
<1>4. ShareTypes'
  BY <1>t, <1>1, <1>2 DEF ShareTypes, tokenVars
<1>5. TokenBounds'
  BY <1>1, TokensRest DEF ShareParts
<1>6. RevokedCommitsNothing'
  BY <1>1 DEF ShareParts, RevokedCommitsNothing
<1> QED
  BY <1>3, <1>4, <1>5, <1>6 DEF ShareParts

\* What Guard lets through is committed with a token that is not revoked.
LEMMA GuardedIsLive ==
  ASSUME NEW c \in FileToken \cup {NoCredential}, Guard(c), RevokedCommitsNothing,
         lateCommit' = (lateCommit \/ (c # NoCredential /\ fileTokens[c].status = "revoked"))
  PROVE  RevokedCommitsNothing'
  BY DEF Guard, TokenValid, RevokedCommitsNothing

\* The object is in place before its record.
LEMMA CommitStep ==
  ASSUME ShareParts, NEW u \in Upload, NEW f \in File, NEW result \in {"ok", "failed", "crash"},
         CommitUpload(u, f, result)
  PROVE  ShareParts'
<1>t. ShareTypes
  BY DEF ShareParts
<1>c. uploads[u].credential \in FileToken \cup {NoCredential} /\ uploads[u].acquired \in Nat
  BY <1>t DEF ShareTypes, UploadTable
<1>1. RevokedCommitsNothing'
  BY <1>c, GuardedIsLive DEF CommitUpload, ShareParts
<1>2. /\ files' = IF result = "ok" THEN [files EXCEPT ![f] = [status |-> "ready", size |-> uploads[u].acquired]]
                                   ELSE files
      /\ objects' = IF result = "failed" THEN objects ELSE objects \cup {f}
      /\ serving /\ serving' = (result # "crash")
      /\ UNCHANGED <<links, tokenVars, deadLinks>> /\ PersistShare(result = "ok")
      /\ uploads' = [w \in Upload |-> IF w = u \/ result = "crash" THEN IdleUpload ELSE uploads[w]]
  BY DEF CommitUpload
<1>3. files' \in FileTable
  BY <1>t, <1>c, <1>2 DEF ShareTypes, FileTable, FileStatus
<1>4. /\ metadata' \in [files : FileTable, links : LinkTable]
      /\ metadata'.links \in {links', metadata.links}
  BY <1>t, <1>2, <1>3, PersistTyped DEF ShareTypes
<1>5. uploads' \in UploadTable
  BY <1>t, <1>2 DEF ShareTypes, IdleUpload, UploadTable
<1>6. ShareTypes'
  BY <1>t, <1>2, <1>3, <1>4, <1>5 DEF ShareTypes, tokenVars
<1>7. ListedHasObject'
  <2>1. Stored(files) \subseteq Stored(files)' /\ Stored(files)' \subseteq Stored(files) \cup {f}
        /\ (result # "ok" => Stored(files)' = Stored(files))
    BY <1>t, <1>2 DEF Stored, ShareTypes, FileTable
  <2> QED
    BY <1>2, <2>1 DEF ShareParts, ListedHasObject
<1>8. Severance'
  BY <1>2, <1>4 DEF ShareParts, Severance
<1>9. TokenBounds'
  BY <1>2, TokensRest DEF ShareParts
<1> QED
  BY <1>1, <1>6, <1>7, <1>8, <1>9 DEF ShareParts

\* The links of a file go with it, whatever becomes of the object and of the write.
LEMMA DeleteStep ==
  ASSUME ShareParts, NEW f \in File,
         NEW result \in {"ok", "unsaved", "kept", "kept_unsaved", "crash"}, DeleteFile(f, result)
  PROVE  ShareParts'
<1> DEFINE kept == result \in {"kept", "kept_unsaved"}
<1>t. ShareTypes
  BY DEF ShareParts
<1>1. /\ serving /\ files[f].status # "none" /\ links' = DropLinks(f)
      /\ files' = [files EXCEPT ![f] = IF kept THEN [files[f] EXCEPT !.status = "delete_failed"]
                                               ELSE NoRecordOf]
      /\ objects' = (IF kept THEN objects ELSE objects \ {f})
      /\ PersistShare(result \in {"ok", "kept"})
      /\ uploads' = IF result = "crash" THEN [u \in Upload |-> IdleUpload] ELSE uploads
      /\ deadLinks' = IF result = "ok" THEN deadLinks \cup LinksOf(f) ELSE deadLinks
      /\ UNCHANGED <<tokenVars, lateCommit>>
  BY DEF DeleteFile
<1>2. /\ files' \in FileTable
      /\ \A g \in File : files'[g].status # "none" <=> files[g].status # "none" /\ (kept \/ g # f)
  <2> DEFINE r == IF kept THEN [files[f] EXCEPT !.status = "delete_failed"] ELSE NoRecordOf
  <2>1. r \in [status : FileStatus, size : Nat] /\ (r.status # "none" <=> kept)
    <3>1. files[f] \in [status : FileStatus, size : Nat] /\ "delete_failed" \in FileStatus
      BY <1>t DEF ShareTypes, FileTable, FileStatus
    <3>2. NoRecordOf \in [status : FileStatus, size : Nat] /\ NoRecordOf.status = "none"
      BY DEF FileStatus, NoRecordOf
    <3> QED
      BY <3>1, <3>2, StatusTyped
  <2>2. files' = [files EXCEPT ![f] = r]
    BY <1>1
  <2>3. files \in FileTable
    BY <1>t DEF ShareTypes
  <2> HIDE DEF r, kept
  <2> QED
    BY <1>1, <2>1, <2>2, <2>3 DEF FileTable
<1>3. /\ links' \in LinkTable
      /\ \A l \in Link : /\ links'[l] \in {links[l], NoLink} /\ (l \in LinksOf(f) => links'[l] = NoLink)
                         /\ links'[l] # NoLink => links'[l] = links[l] /\ links[l].file # f
  BY <1>t, <1>1 DEF ShareTypes, LinkTable, DropLinks, LinksOf
<1>4. /\ metadata' \in [files : FileTable, links : LinkTable]
      /\ metadata'.links \in {links', metadata.links}
      /\ result = "ok" => metadata'.links = links'
  <2>1. (result \in {"ok", "kept"}) \in BOOLEAN
    OBVIOUS
  <2>2. result = "ok" => metadata'.links = links'
    BY <1>1 DEF PersistShare
  <2> QED
    BY <1>t, <1>1, <1>2, <1>3, <2>1, <2>2, PersistTyped
<1>5. uploads' \in UploadTable
  BY <1>t, <1>1 DEF ShareTypes, IdleUpload, UploadTable
<1>6. deadLinks' \in SUBSET Link
  BY <1>t, <1>1 DEF ShareTypes, LinksOf
<1>7. ShareTypes'
  BY <1>t, <1>1, <1>2, <1>3, <1>4, <1>5, <1>6 DEF ShareTypes, tokenVars
<1>8. ListedHasObject'
  <2>1. Stored(files)' = IF kept THEN Stored(files) ELSE Stored(files) \ {f}
    BY <1>2 DEF Stored
  <2>2. /\ Stored(files) \subseteq objects
        /\ \A l \in Link : links[l] # NoLink => links[l].file \in Stored(files)
    BY <1>1 DEF ShareParts, ListedHasObject
  <2> HIDE DEF kept
  <2> QED
    BY <1>1, <1>3, <2>1, <2>2 DEF ListedHasObject
<1>9. Severance'
  <2>1. ASSUME NEW l \in deadLinks' PROVE Severed(links'[l]) /\ Severed(metadata'.links[l])
    <3>1. l \in Link
      BY <1>6
    <3>2. CASE l \in deadLinks
      BY <1>3, <1>4, <3>1, <3>2 DEF ShareParts, Severance, Severed
    <3>3. CASE l \notin deadLinks
      <4>1. result = "ok" /\ l \in LinksOf(f)
        BY <1>1, <3>3
      <4> QED
        BY <1>3, <1>4, <3>1, <4>1 DEF Severed
    <3> QED
      BY <3>2, <3>3
  <2> QED
    BY <2>1 DEF Severance
<1>10. TokenBounds'
  BY <1>1, TokensRest DEF ShareParts
<1>11. RevokedCommitsNothing'
  BY <1>1 DEF ShareParts, RevokedCommitsNothing
<1> QED
  BY <1>7, <1>8, <1>9, <1>10, <1>11 DEF ShareParts

\* A link is made for a file that is there, under an ID no dead link had.
LEMMA CreateLinkStep ==
  ASSUME ShareParts, NEW l \in Link, NEW f \in File, NEW c \in FileToken \cup {NoCredential},
         NEW ok \in BOOLEAN, CreateLink(l, f, c, ok)
  PROVE  ShareParts'
<1>t. ShareTypes
  BY DEF ShareParts
<1>1. /\ serving /\ l \notin deadLinks /\ files[f].status = "ready"
      /\ links' = IF ok THEN [links EXCEPT ![l] = [file |-> f, revoked |-> FALSE]] ELSE links
      /\ UNCHANGED <<files, objects, uploads, tokenVars, serving, deadLinks>> /\ PersistShare(ok)
  BY DEF CreateLink
<1>2. RevokedCommitsNothing'
  BY GuardedIsLive DEF CreateLink, ShareParts
<1>3. links' \in LinkTable
  BY <1>t, <1>1 DEF ShareTypes, LinkTable, LinkRecord
<1>4. /\ metadata' \in [files : FileTable, links : LinkTable]
      /\ metadata'.links \in {links', metadata.links}
  BY <1>t, <1>1, <1>3, PersistTyped DEF ShareTypes
<1>5. ShareTypes'
  BY <1>t, <1>1, <1>3, <1>4 DEF ShareTypes, tokenVars
<1>6. ListedHasObject'
  <2>1. \A m \in Link : links'[m] = links[m] \/ links'[m].file = f
    BY <1>t, <1>1 DEF ShareTypes, LinkTable
  <2>2. f \in Stored(files)
    BY <1>1 DEF Stored
  <2> QED
    BY <1>1, <2>1, <2>2 DEF ShareParts, ListedHasObject, Stored
<1>7. Severance'
  <2>1. \A m \in deadLinks : links'[m] = links[m]
    BY <1>t, <1>1 DEF ShareTypes, LinkTable
  <2> QED
    BY <1>1, <1>4, <2>1 DEF ShareParts, Severance
<1>8. TokenBounds'
  BY <1>1, TokensRest DEF ShareParts
<1> QED
  BY <1>2, <1>5, <1>6, <1>7, <1>8 DEF ShareParts

\* A revocation is confirmed only when it is written.
LEMMA RevokeLinkStep ==
  ASSUME ShareParts, NEW l \in Link, NEW ok \in BOOLEAN, RevokeLink(l, ok)
  PROVE  ShareParts'
<1>t. ShareTypes
  BY DEF ShareParts
<1>1. /\ links[l] # NoLink /\ links' = [links EXCEPT ![l].revoked = TRUE]
      /\ deadLinks' = IF ok THEN deadLinks \cup {l} ELSE deadLinks
      /\ UNCHANGED <<files, objects, uploads, tokenVars, serving, lateCommit>> /\ PersistShare(ok)
  BY DEF RevokeLink
<1>2. /\ links[l] \in LinkRecord /\ links'[l] \in LinkRecord
      /\ links'[l].revoked /\ links'[l].file = links[l].file
  <2>1. links[l] \in LinkRecord /\ links'[l] = [links[l] EXCEPT !.revoked = TRUE]
    BY <1>t, <1>1 DEF ShareTypes, LinkTable
  <2> QED
    BY <2>1 DEF LinkRecord
<1>3. links' \in LinkTable /\ \A m \in Link \ {l} : links'[m] = links[m]
  BY <1>t, <1>1, <1>2 DEF ShareTypes, LinkTable
<1>4. /\ metadata' \in [files : FileTable, links : LinkTable]
      /\ metadata'.links \in {links', metadata.links}
      /\ ok => metadata'.links = links'
  <2>1. ok => metadata'.links = links'
    BY <1>1 DEF PersistShare
  <2> QED
    BY <1>t, <1>1, <1>3, <2>1, PersistTyped DEF ShareTypes
<1>5. ShareTypes'
  BY <1>t, <1>1, <1>3, <1>4 DEF ShareTypes, tokenVars
<1>6. ListedHasObject'
  BY <1>1, <1>2, <1>3 DEF ShareParts, ListedHasObject, Stored
<1>7. Severance'
  <2>1. ASSUME NEW m \in deadLinks' PROVE Severed(links'[m]) /\ Severed(metadata'.links[m])
    <3>1. m \in Link
      BY <1>5 DEF ShareTypes
    <3>2. Severed(links'[m])
      BY <1>1, <1>2, <1>3, <3>1 DEF ShareParts, Severance, Severed
    <3>3. ~ok => Severed(metadata.links[m])
      BY <1>1 DEF ShareParts, Severance
    <3>4. ~ok => metadata' = metadata
      BY <1>1 DEF PersistShare
    <3> QED
      BY <1>4, <3>2, <3>3, <3>4
  <2> QED
    BY <2>1 DEF Severance
<1>8. TokenBounds'
  BY <1>1, TokensRest DEF ShareParts
<1>9. RevokedCommitsNothing'
  BY <1>1 DEF ShareParts, RevokedCommitsNothing
<1> QED
  BY <1>5, <1>6, <1>7, <1>8, <1>9 DEF ShareParts

\* One case for every action.
LEMMA ShareStep == ShareParts /\ [ShareNext]_shareVars => ShareParts'
<1> SUFFICES ASSUME ShareParts, [ShareNext]_shareVars PROVE ShareParts'
  OBVIOUS
<1>1. ASSUME NEW ok \in BOOLEAN, NEW kept \in SUBSET Recovered, OpenShare(ok, kept) PROVE ShareParts'
  BY <1>1, OpenStep
<1>2. ASSUME NEW ok \in BOOLEAN, TokenStep(ok) PROVE ShareParts'
  BY <1>2, CreateTokenStep, RevokeTokenStep, FinishTokenStep DEF TokenStep
<1>3. ASSUME NEW u \in Upload, UploadStep(u) PROVE ShareParts'
  <2>1. ASSUME NEW f \in File, NEW result \in {"ok", "failed", "crash"}, CommitUpload(u, f, result)
        PROVE  ShareParts'
    BY <2>1, CommitStep
  <2> QED
    BY <1>3, <2>1, UploadOnlyStep DEF UploadStep
<1>4. ASSUME NEW f \in File, FileStep(f) PROVE ShareParts'
  <2>1. ASSUME RetentionEnds(f) PROVE ShareParts'
    <3>1. ListedHasObject' /\ Severance'
      BY <2>1, FilesRest DEF ShareParts, RetentionEnds
    <3>2. TokenBounds'
      BY <2>1, TokensRest DEF ShareParts, RetentionEnds
    <3>3. ShareTypes' /\ RevokedCommitsNothing'
      BY <2>1 DEF ShareParts, ShareTypes, RevokedCommitsNothing, RetentionEnds, tokenVars
    <3> QED
      BY <3>1, <3>2, <3>3 DEF ShareParts
  <2>2. ASSUME NEW result \in {"ok", "unsaved", "kept", "kept_unsaved", "crash"},
               DeleteRequested(f, result) \/ CleanupExpired(f, result)
        PROVE  ShareParts'
    BY <2>2, DeleteStep DEF DeleteRequested, CleanupExpired
  <2> QED
    BY <1>4, <2>1, <2>2 DEF FileStep
<1>5. ASSUME NEW l \in Link, NEW ok \in BOOLEAN, LinkStep(l, ok) PROVE ShareParts'
  BY <1>5, RevokeLinkStep, CreateLinkStep DEF LinkStep
<1>6. ASSUME UNCHANGED shareVars PROVE ShareParts'
  <2>1. ListedHasObject' /\ Severance'
    BY <1>6, FilesRest DEF ShareParts, shareVars
  <2>2. TokenBounds'
    BY <1>6, TokensRest DEF ShareParts, shareVars, tokenVars
  <2>3. ShareTypes' /\ RevokedCommitsNothing'
    BY <1>6 DEF ShareParts, ShareTypes, RevokedCommitsNothing, shareVars, tokenVars
  <2> QED
    BY <2>1, <2>2, <2>3 DEF ShareParts
<1> QED
  BY <1>1, <1>2, <1>3, <1>4, <1>5, <1>6, CrashStep, AccountStep DEF ShareNext

\* Nothing is stored, and no token is issued.
LEMMA ShareStart == ShareInit => ShareParts
<1> SUFFICES ASSUME ShareInit PROVE ShareParts
  OBVIOUS
<1>1. ShareTypes
  <2>1. files \in FileTable
    BY DEF ShareInit, FileTable, FileStatus, NoRecordOf
  <2>2. links \in LinkTable
    BY DEF ShareInit, LinkTable
  <2>3. fileTokens \in TokenTable
    BY DEF ShareInit, TokenTable, NoMint
  <2>4. uploads \in UploadTable
    BY DEF ShareInit, UploadTable, IdleUpload
  <2> QED
    BY <2>1, <2>2, <2>3, <2>4 DEF ShareInit, ShareTypes
<1>2. ListedHasObject /\ Severance /\ RevokedCommitsNothing
  BY DEF ShareInit, ListedHasObject, Severance, RevokedCommitsNothing
<1>3. CurrentTokens(fileTokens) = {}
  BY DEF ShareInit, CurrentTokens, NoMint
<1>4. IsFiniteSet(CurrentTokens(fileTokens)) /\ Cardinality(CurrentTokens(fileTokens)) <= TokenLimit
  BY <1>3, FS_EmptySet, FileShareAssumption
<1>5. TokenBounds
  BY <1>4 DEF TokenBounds, ShareInit, NoMint
<1> QED
  BY <1>1, <1>2, <1>5 DEF ShareParts

\* The inductive invariant, in every reachable state.
THEOREM SharePartsHold == ShareSpec => []ShareParts
BY ShareStart, ShareStep, PTL DEF ShareSpec

\* Once the revocation of a token was confirmed nothing is committed with it: the
\* guard holds the token's lock to the end of the commit (service.go, Guard).
THEOREM RevokedNeverCommits == ShareSpec => []RevokedCommitsNothing
<1>1. ShareParts => RevokedCommitsNothing
  BY DEF ShareParts
<1> QED
  BY <1>1, SharePartsHold, PTL

\* The parts of ShareInv that do not count bytes: what is listed has its object and
\* every link its file, a link whose end was confirmed opens nothing, and a user has
\* no more active tokens than the limit.
THEOREM ListedLinksAndTokens ==
  ShareSpec => [](ListedHasObject /\ DeadLinksStayDead /\ TokensWithinLimit)
<1>1. ShareParts => DeadLinksStayDead
  BY DEF ShareParts, Severance, Severed, DeadLinksStayDead, OpensPublic
<1>2. ShareParts => TokensWithinLimit
  <2> SUFFICES ASSUME ShareParts PROVE TokensWithinLimit
    OBVIOUS
  <2>1. {t \in FileToken : TokenValid(t)} \subseteq CurrentTokens(fileTokens)
    BY DEF TokenValid, CurrentTokens
  <2>2. IsFiniteSet(CurrentTokens(fileTokens)) /\ Cardinality(CurrentTokens(fileTokens)) <= TokenLimit
    BY DEF ShareParts, TokenBounds
  <2>3. /\ IsFiniteSet({t \in FileToken : TokenValid(t)})
        /\ Cardinality({t \in FileToken : TokenValid(t)}) <= Cardinality(CurrentTokens(fileTokens))
    BY <2>1, <2>2, FS_Subset
  <2>4. /\ Cardinality({t \in FileToken : TokenValid(t)}) \in Nat
        /\ Cardinality(CurrentTokens(fileTokens)) \in Nat /\ TokenLimit \in Nat
    BY <2>2, <2>3, FS_CardinalityType, FileShareAssumption
  <2> QED
    BY <2>2, <2>3, <2>4 DEF TokensWithinLimit
<1>3. ShareParts => ListedHasObject
  BY DEF ShareParts
<1> QED
  BY <1>1, <1>2, <1>3, SharePartsHold, PTL

----------------------------------------------------------------------------
(* Sums.  The model adds sizes up with a fold over a set, whose order no   *)
(* proof knows: a sum is the number of its units, and what a fold gives is *)
(* that number.                                                            *)

\* The element a fold takes first.
Pick(s) == CHOOSE x \in s : TRUE

\* One pair for each unit of weight: their number is the sum of the weights.
Units(w, S) == UNION {{x} \X (1 .. w[x]) : x \in S}
Total(w, S) == Cardinality(Units(w, S))

Weights(S, q) == [S -> 0 .. q]

\* Of some subsets of a finite set one contains no other: what an argument by a
\* smallest counterexample starts from.
LEMMA SubsetMinimum ==
  ASSUME NEW S, IsFiniteSet(S), NEW C \in SUBSET (SUBSET S), C # {}
  PROVE  \E m \in C : \A y \in C : y \subseteq m => y = m
<1>1. IsWellFoundedOn(StrictSubsetOrdering(S), SUBSET S)
  BY FS_StrictSubsetOrderingWellFounded, FS_FiniteSubsetsOfFinite
<1>2. PICK m \in C : \A y \in C : <<y, m>> \notin StrictSubsetOrdering(S)
  BY <1>1, WFMin
<1>3. ASSUME NEW y \in C, y \subseteq m
      PROVE  y = m
  <2>1. <<y, m>> \in (SUBSET S) \X (SUBSET S)
    BY <1>3
  <2>. QED  BY <1>2, <1>3, <2>1 DEF StrictSubsetOrdering
<1>. QED  BY <1>3

\* The numbers up to n are n.
LEMMA UpTo ==
  ASSUME NEW n \in Nat
  PROVE  IsFiniteSet(1 .. n) /\ Cardinality(1 .. n) = n
<1>1. 1 \in Int /\ n \in Int
  OBVIOUS
<1>2. IsFiniteSet(1 .. n) /\ Cardinality(1 .. n) = IF 1 > n THEN 0 ELSE n - 1 + 1
  BY ONLY <1>1, FS_Interval
<1>. QED  BY <1>2

\* Bounded weights have a total.
LEMMA UnitsFinite ==
  ASSUME NEW S, IsFiniteSet(S), NEW q \in Nat, NEW w \in Weights(S, q), NEW T \in SUBSET S
  PROVE  IsFiniteSet(Units(w, T)) /\ Total(w, T) \in Nat
<1>1. IsFiniteSet(S \X (1 .. q))
  <2>. HIDE DEF Weights
  <2>1. IsFiniteSet(1 .. q)
    BY UpTo
  <2>. QED  BY <2>1, FS_Product
<1>2. Units(w, T) \subseteq S \X (1 .. q)
  BY DEF Units, Weights
<1>. QED  BY <1>1, <1>2, FS_Subset, FS_CardinalityType DEF Total

\* Nothing weighs nothing.
LEMMA TotalOfNone == \A w : Total(w, {}) = 0
<1>1. \A w : Units(w, {}) = {}
  BY DEF Units
<1>. QED  BY <1>1, FS_EmptySet DEF Total

\* The total of a set is that of the rest and the weight of one element.
LEMMA TotalWithout ==
  ASSUME NEW S, IsFiniteSet(S), NEW q \in Nat, NEW w \in Weights(S, q), NEW T \in SUBSET S,
         NEW x \in T
  PROVE  Total(w, T) = Total(w, T \ {x}) + w[x]
<1>. DEFINE rest == Units(w, T \ {x})
            mine == {x} \X (1 .. w[x])
<1>1. w[x] \in Nat
  BY DEF Weights
<1>2. IsFiniteSet(rest) /\ Cardinality(rest) \in Nat
  BY UnitsFinite, T \ {x} \in SUBSET S DEF Total
<1>3. IsFiniteSet(1 .. w[x]) /\ Cardinality(1 .. w[x]) = w[x]
  BY <1>1, UpTo
<1>4. IsFiniteSet({x}) /\ Cardinality({x}) = 1
  BY FS_Singleton
<1>5. IsFiniteSet(mine) /\ Cardinality(mine) = w[x]
  <2>1. IsFiniteSet(mine) /\ Cardinality(mine) = Cardinality({x}) * Cardinality(1 .. w[x])
    BY <1>3, <1>4, FS_Product
  <2>. QED  BY <1>1, <1>3, <1>4, <2>1
<1>6. Units(w, T) = rest \cup mine
  BY <1>1 DEF Units
<1>7. rest \cap mine = {}
  BY DEF Units
<1>8. Cardinality(rest \cup mine) = Cardinality(rest) + Cardinality(mine) - Cardinality({})
  <2>. HIDE DEF rest, mine
  <2>. QED  BY <1>2, <1>5, <1>7, FS_Union
<1>. QED  BY <1>1, <1>2, <1>5, <1>6, <1>8, FS_EmptySet DEF Total

\* A function that adds up weights in the order Pick gives.
Adds(g, w, S) ==
    g = [s \in SUBSET S |-> IF s = {} THEN 0 ELSE g[s \ {Pick(s)}] + w[Pick(s)]]

\* The totals add up in that order,
LEMMA AddsTotal ==
  ASSUME NEW S, IsFiniteSet(S), NEW q \in Nat, NEW w \in Weights(S, q)
  PROVE  Adds([s \in SUBSET S |-> Total(w, s)], w, S)
<1>. DEFINE t == [s \in SUBSET S |-> Total(w, s)]
<1>1. ASSUME NEW s \in SUBSET S
      PROVE  t[s] = IF s = {} THEN 0 ELSE t[s \ {Pick(s)}] + w[Pick(s)]
  <2>1. CASE s = {}
    BY <2>1, TotalOfNone
  <2>2. CASE s # {}
    <3>1. Pick(s) \in s /\ s \ {Pick(s)} \in SUBSET S
      BY <2>2 DEF Pick
    <3>2. Total(w, s) = Total(w, s \ {Pick(s)}) + w[Pick(s)]
      BY <3>1, TotalWithout
    <3>. QED  BY <2>2, <3>1, <3>2
  <2>. QED  BY <2>1, <2>2
<1>. QED  BY <1>1 DEF Adds

\* and nothing else does: a smallest set on which g is wrong has a wrong rest.
LEMMA AddsUnique ==
  ASSUME NEW S, IsFiniteSet(S), NEW q \in Nat, NEW w \in Weights(S, q),
         NEW g, Adds(g, w, S), NEW s \in SUBSET S
  PROVE  g[s] = Total(w, s)
<1>. DEFINE wrong == {z \in SUBSET S : g[z] # Total(w, z)}
<1>1. SUFFICES ASSUME wrong # {} PROVE FALSE
  OBVIOUS
<1>2. PICK m \in wrong : \A y \in wrong : y \subseteq m => y = m
  <2>1. wrong \in SUBSET (SUBSET S)
    OBVIOUS
  <2>. HIDE DEF wrong
  <2>. QED  BY <1>1, <2>1, SubsetMinimum
<1>3. g[m] = IF m = {} THEN 0 ELSE g[m \ {Pick(m)}] + w[Pick(m)]
  BY DEF Adds
<1>4. m # {}
  BY <1>3, TotalOfNone
<1>5. Pick(m) \in m
  BY <1>4 DEF Pick
<1>6. g[m \ {Pick(m)}] = Total(w, m \ {Pick(m)})
  BY <1>2, <1>5
<1>7. Total(w, m) = Total(w, m \ {Pick(m)}) + w[Pick(m)]
  BY <1>5, TotalWithout
<1>. QED  BY <1>3, <1>4, <1>6, <1>7

\* SizeOf, the fold that counts the sizes of stored files, is a total.
LEMMA SizeIsTotal ==
  ASSUME NEW S, IsFiniteSet(S), NEW q \in Nat, NEW table, \A x \in S : table[x].size \in 0 .. q
  PROVE  SizeOf(table, S) = Total([x \in S |-> table[x].size], S)
<1>. DEFINE w == [x \in S |-> table[x].size]
            Sums(g) == g = [s \in SUBSET S |->
                              IF s = {} THEN 0 ELSE g[s \ {Pick(s)}] + table[Pick(s)].size]
<1>1. w \in Weights(S, q)
  BY DEF Weights
<1>2. ASSUME NEW g
      PROVE  Sums(g) <=> Adds(g, w, S)
  <2>1. \A s \in SUBSET S : s # {} => Pick(s) \in s
    BY DEF Pick
  <2>2. \A s \in SUBSET S : s # {} => w[Pick(s)] = table[Pick(s)].size
    BY <2>1
  <2>3. [s \in SUBSET S |-> IF s = {} THEN 0 ELSE g[s \ {Pick(s)}] + w[Pick(s)]]
          = [s \in SUBSET S |-> IF s = {} THEN 0 ELSE g[s \ {Pick(s)}] + table[Pick(s)].size]
    BY <2>2
  <2>. QED  BY <2>3 DEF Adds
<1>3. \E g : Sums(g)
  BY <1>1, <1>2, AddsTotal
<1>4. SizeOf(table, S) = (CHOOSE g : Sums(g))[S]
  BY DEF SizeOf, FoldSet, MapThenFoldSet, Pick
<1>5. Sums(CHOOSE g : Sums(g))
  BY <1>3
<1>6. (CHOOSE g : Sums(g))[S] = Total(w, S)
  <2>1. \A g : Adds(g, w, S) => g[S] = Total(w, S)
    BY <1>1, AddsUnique
  <2>. QED  BY <1>2, <1>5, <2>1
<1>. QED  BY <1>4, <1>6

\* When one weight changes, the total changes by as much.
LEMMA OneChanges ==
  ASSUME NEW S, IsFiniteSet(S), NEW q \in Nat, NEW v \in Weights(S, q), NEW w \in Weights(S, q),
         NEW x \in S, \A y \in S \ {x} : v[y] = w[y]
  PROVE  Total(w, S) + v[x] = Total(v, S) + w[x]
<1>1. Units(w, S \ {x}) = Units(v, S \ {x})
  BY DEF Units
<1>2. Total(v, S \ {x}) \in Nat /\ v[x] \in Nat /\ w[x] \in Nat
  BY UnitsFinite, S \ {x} \in SUBSET S DEF Weights
<1>3. Total(v, S) = Total(v, S \ {x}) + v[x] /\ Total(w, S) = Total(w, S \ {x}) + w[x]
  BY TotalWithout, S \in SUBSET S
<1>. QED  BY <1>1, <1>2, <1>3 DEF Total

\* Smaller weights have a smaller total.
LEMMA SmallerTotal ==
  ASSUME NEW S, IsFiniteSet(S), NEW q \in Nat, NEW v \in Weights(S, q), NEW w \in Weights(S, q),
         \A x \in S : v[x] <= w[x]
  PROVE  Total(v, S) <= Total(w, S)
<1>1. Units(v, S) \subseteq Units(w, S)
  BY DEF Units, Weights
<1>. QED  BY <1>1, UnitsFinite, S \in SUBSET S, FS_Subset DEF Total

\* No weight is above the total.
LEMMA PartOfTotal ==
  ASSUME NEW S, IsFiniteSet(S), NEW q \in Nat, NEW w \in Weights(S, q), NEW x \in S
  PROVE  w[x] <= Total(w, S) /\ Total(w, S) \in Nat
<1>1. Total(w, S \ {x}) \in Nat /\ Total(w, S) \in Nat /\ w[x] \in Nat
  BY UnitsFinite, S \ {x} \in SUBSET S, S \in SUBSET S DEF Weights
<1>2. Total(w, S) = Total(w, S \ {x}) + w[x]
  BY TotalWithout, S \in SUBSET S
<1>. QED  BY <1>1, <1>2

\* Where nothing weighs anything the total is zero.
LEMMA TotalOfZeros ==
  ASSUME NEW S, NEW w, \A x \in S : w[x] = 0
  PROVE  Total(w, S) = 0
<1>1. Units(w, S) = {}
  BY DEF Units
<1>. QED  BY <1>1, FS_EmptySet DEF Total

\* What a fold over the uploads adds up.
LEMMA AcquiredIsTotal ==
  ASSUME NEW S, IsFiniteSet(S), NEW q \in Nat, NEW table, \A x \in S : table[x].acquired \in 0 .. q
  PROVE  FoldSet(LAMBDA u, n : n + table[u].acquired, 0, S) = Total([x \in S |-> table[x].acquired], S)
<1>. DEFINE w == [x \in S |-> table[x].acquired]
            Sums(g) == g = [s \in SUBSET S |->
                              IF s = {} THEN 0 ELSE g[s \ {Pick(s)}] + table[Pick(s)].acquired]
<1>1. w \in Weights(S, q)
  BY DEF Weights
<1>2. ASSUME NEW g
      PROVE  Sums(g) <=> Adds(g, w, S)
  <2>1. \A s \in SUBSET S : s # {} => Pick(s) \in s
    BY DEF Pick
  <2>2. \A s \in SUBSET S : s # {} => w[Pick(s)] = table[Pick(s)].acquired
    BY <2>1
  <2>3. [s \in SUBSET S |-> IF s = {} THEN 0 ELSE g[s \ {Pick(s)}] + w[Pick(s)]]
          = [s \in SUBSET S |-> IF s = {} THEN 0 ELSE g[s \ {Pick(s)}] + table[Pick(s)].acquired]
    BY <2>2
  <2>. QED  BY <2>3 DEF Adds
<1>3. \E g : Sums(g)
  BY <1>1, <1>2, AddsTotal
<1>4. FoldSet(LAMBDA u, n : n + table[u].acquired, 0, S) = (CHOOSE g : Sums(g))[S]
  BY DEF FoldSet, MapThenFoldSet, Pick
<1>5. Sums(CHOOSE g : Sums(g))
  BY <1>3
<1>6. (CHOOSE g : Sums(g))[S] = Total(w, S)
  <2>1. \A g : Adds(g, w, S) => g[S] = Total(w, S)
    BY <1>1, AddsUnique
  <2>. QED  BY <1>2, <1>5, <2>1
<1>. QED  BY <1>4, <1>6

\* Elements of no weight do not count.
LEMMA TotalOfPart ==
  ASSUME NEW S, NEW T \in SUBSET S, NEW v, NEW w,
         \A x \in T : v[x] = w[x], \A x \in S \ T : w[x] = 0
  PROVE  Total(v, T) = Total(w, S)
<1>1. Units(v, T) = Units(w, S)
  BY DEF Units
<1>. QED  BY <1>1 DEF Total


----------------------------------------------------------------------------
(* The quota.                                                              *)

Sizes(table) == [f \in File |-> table[f].size]
Taken(table) == [u \in Upload |-> table[u].acquired]

\* Every count within the bound that belongs to it.
ShareBounds ==
    /\ \A f \in File : files[f].size \in 0 .. Quota /\ metadata.files[f].size \in 0 .. Quota
    /\ \A u \in Upload : uploads[u].acquired \in 0 .. Quota
    /\ used \in Nat /\ reserved \in Nat
    /\ objects \in SUBSET File /\ usedIDs \in SUBSET File /\ pastFiles \in SUBSET File
    /\ condemned \in SUBSET File /\ serving \in BOOLEAN /\ lateCommit \in BOOLEAN
    /\ account.version \in 1 .. MaxAccountVersion
    /\ shareStarts \in 0 .. MaxShareStart /\ shareFaults \in 0 .. MaxShareFault

\* used is what the records hold, also of a server that is down: what a start will
\* find is part of it (Recoverable).
StoredSizes ==
    /\ used = Total(Sizes(files), File) /\ used <= Quota
    /\ \A f \in File : files[f].status = "none" => files[f].size = 0

\* reserved is what the uploads took; none outlives the server.
TakenRoom ==
    /\ \A u \in Upload : uploads[u].acquired = 0 \/ uploads[u].active
    /\ serving => reserved = Total(Taken(uploads), Upload) /\ used + reserved <= Quota
    /\ ~serving => \A u \in Upload : uploads[u] = IdleUpload

\* A record of the metadata whose object is there is in memory with the same size:
\* what memory dropped lost its object first.
Recoverable ==
    \A f \in objects : metadata.files[f].status # "none" =>
        files[f].status # "none" /\ files[f].size = metadata.files[f].size

\* An ID that was never used names nothing, in memory or on disk.
UnusedIDs ==
    \A f \in File \ usedIDs : f \notin objects /\ files[f].status = "none" /\ metadata.files[f].status = "none"

QuotaParts == ShareBounds /\ StoredSizes /\ TakenRoom /\ Recoverable /\ UnusedIDs

\* Whatever keeps the records and the metadata keeps what is said of them.
RecordVars == <<files, objects, metadata, used, usedIDs>>

\* Tokens, uploads under way and their reservations are not among it.
LEMMA RecordsRest ==
  ASSUME StoredSizes, Recoverable, UnusedIDs, UNCHANGED RecordVars
  PROVE  StoredSizes' /\ Recoverable' /\ UnusedIDs'
  BY DEF StoredSizes, Recoverable, UnusedIDs, RecordVars, Sizes

\* A step that touches no upload and no counter leaves what is reserved as it is.
LEMMA RoomRest ==
  ASSUME TakenRoom, UNCHANGED <<uploads, reserved, used, serving>>
  PROVE  TakenRoom'
  BY DEF TakenRoom, Taken

\* An operation that fails is counted, up to the bound.
LEMMA FaultCounted ==
  ASSUME NEW bad \in BOOLEAN, Faults(bad), shareFaults \in Nat
  PROVE  shareFaults' \in 0 .. MaxShareFault
  BY FileShareAssumption DEF Faults, Fault

\* The sizes of a table, as weights.
LEMMA SizesWeigh ==
  ASSUME NEW table, \A f \in File : table[f].size \in 0 .. Quota
  PROVE  Sizes(table) \in Weights(File, Quota) /\ Total(Sizes(table), File) \in Nat
<1>1. Quota \in Nat /\ IsFiniteSet(File) /\ File \in SUBSET File
  BY FileShareAssumption
<1>2. Sizes(table) \in Weights(File, Quota)
  BY DEF Sizes, Weights
<1>. QED  BY <1>1, <1>2, UnitsFinite

\* What uploads have reserved, as weights.
LEMMA TakenWeighs ==
  ASSUME NEW table, \A u \in Upload : table[u].acquired \in 0 .. Quota
  PROVE  Taken(table) \in Weights(Upload, Quota) /\ Total(Taken(table), Upload) \in Nat
<1>1. Quota \in Nat /\ IsFiniteSet(Upload) /\ Upload \in SUBSET Upload
  BY FileShareAssumption
<1>2. Taken(table) \in Weights(Upload, Quota)
  BY DEF Taken, Weights
<1>. QED  BY <1>1, <1>2, UnitsFinite

\* When one record changes, the total changes by as much.
LEMMA OneSizeChanges ==
  ASSUME NEW old, \A g \in File : old[g].size \in 0 .. Quota,
         NEW new, \A g \in File : new[g].size \in 0 .. Quota,
         NEW f \in File, \A g \in File \ {f} : new[g].size = old[g].size
  PROVE  Total(Sizes(new), File) + old[f].size = Total(Sizes(old), File) + new[f].size
<1>1. Sizes(old) \in Weights(File, Quota) /\ Sizes(new) \in Weights(File, Quota)
  BY SizesWeigh
<1>2. \A g \in File : Sizes(old)[g] = old[g].size /\ Sizes(new)[g] = new[g].size
  BY DEF Sizes
<1>3. \A g \in File \ {f} : Sizes(old)[g] = Sizes(new)[g]
  BY <1>2
<1>4. Quota \in Nat /\ IsFiniteSet(File)
  BY FileShareAssumption
<1>5. Total(Sizes(new), File) + Sizes(old)[f] = Total(Sizes(old), File) + Sizes(new)[f]
  BY <1>1, <1>3, <1>4, OneChanges
<1>. QED  BY <1>2, <1>5

\* When one upload changes, what is reserved changes by as much.
LEMMA OneUploadChanges ==
  ASSUME NEW old, \A v \in Upload : old[v].acquired \in 0 .. Quota,
         NEW new, \A v \in Upload : new[v].acquired \in 0 .. Quota,
         NEW u \in Upload, \A v \in Upload \ {u} : new[v].acquired = old[v].acquired
  PROVE  Total(Taken(new), Upload) + old[u].acquired = Total(Taken(old), Upload) + new[u].acquired
<1>1. Taken(old) \in Weights(Upload, Quota) /\ Taken(new) \in Weights(Upload, Quota)
  BY TakenWeighs
<1>2. \A v \in Upload : Taken(old)[v] = old[v].acquired /\ Taken(new)[v] = new[v].acquired
  BY DEF Taken
<1>3. \A v \in Upload \ {u} : Taken(old)[v] = Taken(new)[v]
  BY <1>2
<1>4. Quota \in Nat /\ IsFiniteSet(Upload)
  BY FileShareAssumption
<1>5. Total(Taken(new), Upload) + Taken(old)[u] = Total(Taken(old), Upload) + Taken(new)[u]
  BY <1>1, <1>3, <1>4, OneChanges
<1>. QED  BY <1>2, <1>5

\* persistLocked keeps the bounds of the sizes.
LEMMA PersistBounded ==
  ASSUME \A f \in File : files'[f].size \in 0 .. Quota /\ metadata.files[f].size \in 0 .. Quota,
         NEW ok \in BOOLEAN, PersistShare(ok)
  PROVE  /\ \A f \in File : metadata'.files[f].size \in 0 .. Quota
         /\ metadata'.files \in {files', metadata.files}
  BY DEF PersistShare

\* A start counts what it keeps: not more than memory held before.
LEMMA OpenQuota ==
  ASSUME ShareParts, QuotaParts, NEW ok \in BOOLEAN, NEW kept \in SUBSET Recovered, OpenShare(ok, kept)
  PROVE  QuotaParts'
<1>t. ShareTypes /\ ShareBounds /\ StoredSizes /\ TakenRoom /\ Recoverable /\ UnusedIDs
  BY DEF ShareParts, QuotaParts
<1>q. Quota \in Nat /\ IsFiniteSet(File) /\ IsFiniteSet(Upload)
  BY FileShareAssumption
<1>1. /\ files' = [f \in File |-> IF f \in kept THEN [metadata.files[f] EXCEPT !.status = "ready"]
                                                    ELSE NoRecordOf]
      /\ objects' = objects \cap kept /\ used' = SizeOf(files', Stored(files')) /\ reserved' = 0
      /\ ~serving /\ serving' = ok
      /\ UNCHANGED <<uploads, usedIDs, pastFiles, account, condemned, lateCommit>>
  BY DEF OpenShare, UsedAfterStart
<1>2. \A f \in File : files'[f].size = IF f \in kept THEN metadata.files[f].size ELSE 0
  <2>1. \A f \in File : metadata.files[f] \in [status : FileStatus, size : Nat]
    BY <1>t DEF ShareTypes, FileTable
  <2>2. \A f \in File : [metadata.files[f] EXCEPT !.status = "ready"].size = metadata.files[f].size
    BY <2>1
  <2>. QED  BY <1>1, <2>2 DEF NoRecordOf
<1>3. \A f \in File : files'[f].status # "none" <=> f \in kept
  <2>1. \A f \in File : metadata.files[f] \in [status : FileStatus, size : Nat]
    BY <1>t DEF ShareTypes, FileTable
  <2>2. \A f \in File : [metadata.files[f] EXCEPT !.status = "ready"].status = "ready"
    BY <2>1
  <2>. QED  BY <1>1, <2>2 DEF NoRecordOf
<1>4. \A f \in kept : /\ f \in File /\ f \in objects /\ metadata.files[f].status # "none"
                           /\ files[f].size = metadata.files[f].size
  BY <1>t DEF Recovered, Stored, Recoverable
<1>5. \A f \in File : files'[f].size \in 0 .. Quota /\ files'[f].size <= files[f].size
                      /\ files[f].size \in 0 .. Quota
  BY <1>t, <1>2, <1>4, <1>q DEF ShareBounds
<1>6. used' = Total(Sizes(files'), File)
  <2>1. Stored(files') \in SUBSET File /\ IsFiniteSet(Stored(files'))
    <3>1. Stored(files') \in SUBSET File
      BY DEF Stored
    <3>. QED  BY <1>q, <3>1, FS_Subset
  <2>2. SizeOf(files', Stored(files')) = Total([f \in Stored(files') |-> files'[f].size], Stored(files'))
    BY <1>q, <1>5, <2>1, SizeIsTotal
  <2>3. \A f \in Stored(files') : [g \in Stored(files') |-> files'[g].size][f] = Sizes(files')[f]
    BY <2>1 DEF Sizes
  <2>4. \A f \in File \ Stored(files') : Sizes(files')[f] = 0
    BY <1>2, <1>3 DEF Sizes, Stored
  <2>5. Total([f \in Stored(files') |-> files'[f].size], Stored(files')) = Total(Sizes(files'), File)
    BY <2>1, <2>3, <2>4, TotalOfPart
  <2>. QED  BY <1>1, <2>2, <2>5
<1>7. used' \in Nat /\ used' <= Quota
  <2>1. Sizes(files') \in Weights(File, Quota) /\ Total(Sizes(files'), File) \in Nat
    BY <1>5, SizesWeigh
  <2>2. Sizes(files) \in Weights(File, Quota) /\ Total(Sizes(files), File) \in Nat
    BY <1>5, SizesWeigh
  <2>3. \A f \in File : Sizes(files')[f] <= Sizes(files)[f]
    BY <1>5 DEF Sizes
  <2>4. Total(Sizes(files'), File) <= Total(Sizes(files), File)
    BY <1>q, <2>1, <2>2, <2>3, SmallerTotal
  <2>. QED  BY <1>q, <1>t, <1>6, <2>1, <2>2, <2>4 DEF StoredSizes
<1>8. \A f \in File : metadata'.files[f].size \in 0 .. Quota
  <2>1. PersistShare(ok /\ Stored(metadata.files) # kept) 
    BY DEF OpenShare
  <2>. QED  BY <1>5, <1>t, <2>1, PersistBounded DEF ShareBounds
<1>9. metadata'.files = files' \/ metadata' = metadata
  BY DEF OpenShare, PersistShare
<1>10. ShareBounds'
  <2>1. Faults(~ok \/ kept # Recovered) /\ shareStarts' = shareStarts + 1 /\ shareStarts < MaxShareStart
    BY DEF OpenShare
  <2>2. shareFaults \in Nat /\ (~ok \/ kept # Recovered) \in BOOLEAN
    BY <1>t, FileShareAssumption DEF ShareBounds
  <2>3. shareFaults' \in 0 .. MaxShareFault
    BY <2>1, <2>2, FaultCounted
  <2>4. shareStarts' \in 0 .. MaxShareStart
    BY <1>t, <2>1, FileShareAssumption DEF ShareBounds
  <2>. QED  BY <1>t, <1>1, <1>5, <1>7, <1>8, <2>3, <2>4 DEF ShareBounds
<1>11. StoredSizes'
  BY <1>2, <1>3, <1>6, <1>7 DEF StoredSizes
<1>12. TakenRoom'
  <2>1. \A u \in Upload : uploads[u] = IdleUpload
    BY <1>t, <1>1 DEF TakenRoom
  <2>2. \A u \in Upload : Taken(uploads)[u] = 0
    BY <2>1 DEF Taken, IdleUpload
  <2>3. Total(Taken(uploads), Upload) = 0
    BY <2>2, TotalOfZeros
  <2>4. Total(Taken(uploads), Upload)' = 0 /\ reserved' = 0 /\ used' + reserved' <= Quota
    BY <1>1, <1>7, <1>q, <2>3 DEF Taken
  <2>5. uploads' = uploads /\ IdleUpload.acquired = 0
    BY <1>1 DEF IdleUpload
  <2>6. \A u \in Upload : uploads'[u] = IdleUpload /\ uploads'[u].acquired = 0
    BY <2>1, <2>5
  <2>. QED  BY <2>4, <2>6 DEF TakenRoom
<1>13. Recoverable'
  BY <1>1, <1>2, <1>3, <1>4, <1>9 DEF Recoverable
<1>14. UnusedIDs'
  BY <1>t, <1>1, <1>3, <1>4, <1>9 DEF UnusedIDs
<1>. QED  BY <1>10, <1>11, <1>12, <1>13, <1>14 DEF QuotaParts

\* A step that keeps the bounds on what it does not touch.
LEMMA BoundsRest ==
  ASSUME ShareBounds,
         UNCHANGED <<files, objects, metadata, used, usedIDs, uploads, reserved, pastFiles, account,
                     condemned, lateCommit, shareStarts>>,
         serving' \in BOOLEAN, shareFaults' \in 0 .. MaxShareFault
  PROVE  ShareBounds'
  BY DEF ShareBounds

\* A crash ends every upload; what they had reserved is forgotten with them.
LEMMA CrashQuota ==
  ASSUME ShareParts, QuotaParts, CrashShare
  PROVE  QuotaParts'
<1>t. ShareTypes /\ ShareBounds /\ StoredSizes /\ TakenRoom /\ Recoverable /\ UnusedIDs
  BY DEF ShareParts, QuotaParts
<1>1. StoredSizes' /\ Recoverable' /\ UnusedIDs'
  BY <1>t, RecordsRest DEF CrashShare, RecordVars
<1>2. TakenRoom'
  BY <1>t DEF CrashShare, TakenRoom, IdleUpload
<1>3. ShareBounds'
  <2>1. 0 \in 0 .. Quota
    BY FileShareAssumption
  <2>. QED  BY <1>t, <2>1 DEF CrashShare, ShareBounds, IdleUpload, tokenVars
<1>. QED  BY <1>1, <1>2, <1>3 DEF QuotaParts

\* Tokens and users have nothing to do with the quota.
LEMMA TokenQuota ==
  ASSUME ShareParts, QuotaParts,
         \/ \E ok \in BOOLEAN : TokenStep(ok)
         \/ \E active \in BOOLEAN : AccountChanges(active)
  PROVE  QuotaParts'
<1>t. ShareBounds /\ StoredSizes /\ TakenRoom /\ Recoverable /\ UnusedIDs
  BY DEF QuotaParts
<1>1. ShareUnchanged
  BY DEF TokenStep, CreateFileToken, FinishFileToken, RevokeFileToken, AccountChanges
<1>2. StoredSizes' /\ Recoverable' /\ UnusedIDs'
  BY <1>t, <1>1, RecordsRest DEF ShareUnchanged, RecordVars
<1>3. TakenRoom'
  BY <1>t, <1>1, RoomRest DEF ShareUnchanged
<1>4. shareFaults' \in 0 .. MaxShareFault
  <2>1. shareFaults \in Nat /\ shareFaults \in 0 .. MaxShareFault
    BY <1>t, FileShareAssumption DEF ShareBounds
  <2>2. ASSUME NEW ok \in BOOLEAN, PersistTokens(ok) PROVE shareFaults' \in 0 .. MaxShareFault
    <3>1. (~ok) \in BOOLEAN
      OBVIOUS
    <3>. QED  BY <2>1, <2>2, <3>1, FaultCounted DEF PersistTokens
  <2>3. ASSUME NEW ok \in BOOLEAN, TokenStep(ok) PROVE shareFaults' \in 0 .. MaxShareFault
    <3>1. PersistTokens(ok) \/ UNCHANGED shareFaults
      BY <2>3 DEF TokenStep, CreateFileToken, FinishFileToken, RevokeFileToken
    <3>. QED  BY <2>1, <2>2, <3>1
  <2>4. ASSUME NEW active \in BOOLEAN, AccountChanges(active) PROVE shareFaults' \in 0 .. MaxShareFault
    BY <2>1, <2>4 DEF AccountChanges
  <2>. QED  BY <2>3, <2>4
<1>5. account'.version \in 1 .. MaxAccountVersion
  <2>1. account \in [active : BOOLEAN, version : Nat] /\ account.version \in 1 .. MaxAccountVersion
        /\ MaxAccountVersion \in Nat
    BY <1>t, FileShareAssumption DEF ShareParts, ShareTypes, ShareBounds
  <2>2. ASSUME NEW ok \in BOOLEAN, TokenStep(ok) PROVE account' = account
    BY <2>2 DEF TokenStep, CreateFileToken, FinishFileToken, RevokeFileToken
  <2>3. ASSUME NEW active \in BOOLEAN, AccountChanges(active)
        PROVE  account'.version \in 1 .. MaxAccountVersion
    <3>1. CASE account.version < MaxAccountVersion
               /\ account' = [active |-> active, version |-> account.version + 1]
      BY <2>1, <3>1
    <3>2. CASE account' = [account EXCEPT !.active = TRUE]
      BY <2>1, <3>2
    <3>. QED  BY <2>3, <3>1, <3>2 DEF AccountChanges
  <2>. QED  BY <2>1, <2>2, <2>3
<1>6. ShareBounds'
  BY <1>t, <1>1, <1>4, <1>5 DEF ShareBounds, ShareUnchanged
<1>. QED  BY <1>2, <1>3, <1>6 DEF QuotaParts

\* An upload reserves a chunk only within the quota and gives back what it took.
LEMMA UploadQuota ==
  ASSUME ShareParts, QuotaParts, NEW u \in Upload,
         \/ \E c \in FileToken \cup {NoCredential} : BeginUpload(u, c)
         \/ WriteChunk(u) \/ AbortUpload(u) \/ RefuseUpload(u)
  PROVE  QuotaParts'
<1>t. ShareTypes /\ ShareBounds /\ StoredSizes /\ TakenRoom /\ Recoverable /\ UnusedIDs
  BY DEF ShareParts, QuotaParts
<1>q. Quota \in Nat /\ IsFiniteSet(Upload)
  BY FileShareAssumption
<1>1. /\ UNCHANGED <<files, objects, metadata, used, usedIDs, pastFiles, account, serving, condemned,
                     lateCommit, shareStarts, shareFaults>>
      /\ serving
  BY DEF BeginUpload, WriteChunk, AbortUpload, RefuseUpload, tokenVars
<1>2. StoredSizes' /\ Recoverable' /\ UnusedIDs'
  BY <1>t, <1>1, RecordsRest DEF RecordVars
<1>3. /\ reserved = Total(Taken(uploads), Upload) /\ used + reserved <= Quota /\ used \in Nat
      /\ reserved \in Nat /\ uploads[u].acquired \in 0 .. Quota /\ uploads[u].acquired <= reserved
  <2>1. reserved = Total(Taken(uploads), Upload) /\ used + reserved <= Quota
    BY <1>t, <1>1 DEF TakenRoom
  <2>2. Taken(uploads) \in Weights(Upload, Quota) /\ Taken(uploads)[u] = uploads[u].acquired
    BY <1>t, TakenWeighs DEF ShareBounds, Taken
  <2>3. Taken(uploads)[u] <= Total(Taken(uploads), Upload)
    BY <1>q, <2>2, PartOfTotal
  <2>. QED  BY <1>t, <2>1, <2>2, <2>3 DEF ShareBounds
<1>. DEFINE Rest == /\ \A v \in Upload \ {u} : uploads'[v] = uploads[v]
                    /\ uploads'[u].acquired \in 0 .. Quota
                    /\ uploads'[u].acquired = 0 \/ uploads'[u].active
                    /\ reserved' + uploads[u].acquired = reserved + uploads'[u].acquired
                    /\ reserved' \in Nat /\ used + reserved' <= Quota
<1>4. Rest
  <2>u. uploads \in [Upload -> [active : BOOLEAN, acquired : Nat, credential : FileToken \cup {NoCredential}]]
    BY <1>t DEF ShareTypes, UploadTable
  <2>1. ASSUME NEW c \in FileToken \cup {NoCredential}, BeginUpload(u, c) PROVE Rest
    <3>1. uploads[u].acquired = 0
      BY <1>t, <2>1 DEF TakenRoom, BeginUpload
    <3>. QED  BY <1>3, <1>q, <2>u, <2>1, <3>1 DEF BeginUpload
  <2>2. ASSUME WriteChunk(u) PROVE Rest
    <3>1. /\ uploads[u].active /\ used + reserved + 1 <= Quota /\ reserved' = reserved + 1
          /\ uploads' = [uploads EXCEPT ![u].acquired = uploads[u].acquired + 1]
      BY <2>2 DEF WriteChunk
    <3>2. uploads'[u].acquired = uploads[u].acquired + 1 /\ uploads'[u].active
          /\ \A v \in Upload \ {u} : uploads'[v] = uploads[v]
      BY <2>u, <3>1
    <3>. QED  BY <1>3, <1>q, <3>1, <3>2
  <2>3. ASSUME AbortUpload(u) PROVE Rest
    <3>1. /\ reserved' = reserved - uploads[u].acquired /\ uploads' = [uploads EXCEPT ![u] = IdleUpload]
      BY <2>3 DEF AbortUpload, Released
    <3>2. uploads'[u].acquired = 0 /\ \A v \in Upload \ {u} : uploads'[v] = uploads[v]
      BY <2>u, <3>1 DEF IdleUpload
    <3>. QED  BY <1>3, <1>q, <3>1, <3>2
  <2>. QED  BY <2>1, <2>2, <2>3 DEF RefuseUpload
<1>5. \A v \in Upload : uploads'[v].acquired \in 0 .. Quota /\ uploads[v].acquired \in 0 .. Quota
                        /\ (uploads'[v].acquired = 0 \/ uploads'[v].active)
  BY <1>t, <1>4 DEF ShareBounds, TakenRoom
<1>6. ShareBounds'
  BY <1>t, <1>1, <1>4, <1>5 DEF ShareBounds
<1>7. Total(Taken(uploads'), Upload) + uploads[u].acquired
        = Total(Taken(uploads), Upload) + uploads'[u].acquired
  BY <1>4, <1>5, OneUploadChanges
<1>8. reserved' = Total(Taken(uploads'), Upload)
  <2>1. Total(Taken(uploads'), Upload) \in Nat
    BY <1>5, TakenWeighs
  <2>. QED  BY <1>3, <1>4, <1>7, <2>1
<1>9. TakenRoom'
  BY <1>1, <1>4, <1>5, <1>8 DEF TakenRoom
<1>. QED  BY <1>2, <1>6, <1>9 DEF QuotaParts

\* A commit turns what was reserved into what is used, or gives it back.
LEMMA CommitQuota ==
  ASSUME ShareParts, QuotaParts, NEW u \in Upload, NEW f \in File,
         NEW result \in {"ok", "failed", "crash"}, CommitUpload(u, f, result)
  PROVE  QuotaParts'
<1>t. ShareTypes /\ ShareBounds /\ StoredSizes /\ TakenRoom /\ Recoverable /\ UnusedIDs
  BY DEF ShareParts, QuotaParts
<1>q. Quota \in Nat /\ IsFiniteSet(Upload) /\ IsFiniteSet(File)
  BY FileShareAssumption
<1>. DEFINE n == uploads[u].acquired
<1>1. /\ serving /\ f \in File \ usedIDs /\ usedIDs' = usedIDs \cup {f} /\ Faults(result # "ok")
      /\ uploads' = [w \in Upload |-> IF w = u \/ result = "crash" THEN IdleUpload ELSE uploads[w]]
      /\ reserved' = reserved - n
      /\ files' = IF result = "ok" THEN [files EXCEPT ![f] = [status |-> "ready", size |-> n]] ELSE files
      /\ used' = IF result = "ok" THEN used + n ELSE used
      /\ objects' = IF result = "failed" THEN objects ELSE objects \cup {f}
      /\ serving' = (result # "crash") /\ PersistShare(result = "ok")
      /\ lateCommit' = (lateCommit \/ (uploads[u].credential # NoCredential
                                        /\ fileTokens[uploads[u].credential].status = "revoked"))
      /\ UNCHANGED <<pastFiles, account, condemned, shareStarts>>
  BY DEF CommitUpload, Released, IsFresh, tokenVars
<1>2. /\ reserved = Total(Taken(uploads), Upload) /\ used + reserved <= Quota /\ used \in Nat
      /\ reserved \in Nat /\ n \in 0 .. Quota /\ n <= reserved
  <2>1. reserved = Total(Taken(uploads), Upload) /\ used + reserved <= Quota
    BY <1>t, <1>1 DEF TakenRoom
  <2>2. Taken(uploads) \in Weights(Upload, Quota) /\ Taken(uploads)[u] = n
    BY <1>t, TakenWeighs DEF ShareBounds, Taken
  <2>3. Taken(uploads)[u] <= Total(Taken(uploads), Upload)
    BY <1>q, <2>2, PartOfTotal
  <2>. QED  BY <1>t, <2>1, <2>2, <2>3 DEF ShareBounds
<1>3. files[f].status = "none" /\ files[f].size = 0 /\ metadata.files[f].status = "none" /\ f \notin objects
  BY <1>t, <1>1 DEF UnusedIDs, StoredSizes
<1>4. /\ \A g \in File \ {f} : files'[g] = files[g]
      /\ files'[f].size = IF result = "ok" THEN n ELSE 0
      /\ files'[f].status = IF result = "ok" THEN "ready" ELSE "none"
  BY <1>t, <1>1, <1>3 DEF ShareTypes, FileTable
<1>5. \A g \in File : /\ files'[g].size \in 0 .. Quota /\ files[g].size \in 0 .. Quota
                      /\ metadata.files[g].size \in 0 .. Quota
  <2>1. files'[f].size \in 0 .. Quota
    BY <1>2, <1>4, <1>q
  <2>. QED  BY <1>t, <1>4, <2>1 DEF ShareBounds
<1>6. used' = Total(Sizes(files'), File) /\ used' \in Nat /\ used' + reserved' <= Quota /\ reserved' \in Nat
  <2>1. Total(Sizes(files'), File) + files[f].size = Total(Sizes(files), File) + files'[f].size
    BY <1>4, <1>5, OneSizeChanges
  <2>2. Total(Sizes(files'), File) \in Nat /\ used = Total(Sizes(files), File)
    BY <1>t, <1>5, SizesWeigh DEF StoredSizes
  <2>3. used' = used + files'[f].size
    BY <1>1, <1>2, <1>4
  <2>. QED  BY <1>1, <1>2, <1>3, <1>4, <1>q, <2>1, <2>2, <2>3
<1>7. /\ \A v \in Upload : uploads'[v] = IF v = u \/ result = "crash" THEN IdleUpload ELSE uploads[v]
      /\ IdleUpload.acquired = 0 /\ 0 \in 0 .. Quota
  BY <1>1, <1>q DEF IdleUpload
<1>8. \A v \in Upload : uploads'[v].acquired \in 0 .. Quota /\ uploads[v].acquired \in 0 .. Quota
                        /\ (uploads'[v].acquired = 0 \/ uploads'[v].active)
  BY <1>t, <1>7 DEF ShareBounds, TakenRoom
<1>9. result # "crash" => reserved' = Total(Taken(uploads'), Upload)
  <2>1. SUFFICES ASSUME result # "crash" PROVE reserved' = Total(Taken(uploads'), Upload)
    OBVIOUS
  <2>2. /\ \A v \in Upload \ {u} : uploads'[v].acquired = uploads[v].acquired
        /\ uploads'[u].acquired = 0
    BY <1>7, <2>1
  <2>3. Total(Taken(uploads'), Upload) + n = Total(Taken(uploads), Upload) + uploads'[u].acquired
    BY <1>8, <2>2, OneUploadChanges
  <2>4. Total(Taken(uploads'), Upload) \in Nat
    BY <1>8, TakenWeighs
  <2>. QED  BY <1>1, <1>2, <2>2, <2>3, <2>4
<1>10. StoredSizes'
  <2>1. used' <= Quota
    BY <1>6, <1>q
  <2>2. \A g \in File : files'[g].status = "none" => files'[g].size = 0
    BY <1>t, <1>4 DEF StoredSizes
  <2>. QED  BY <1>6, <2>1, <2>2 DEF StoredSizes
<1>11. TakenRoom'
  <2>1. serving' <=> result # "crash"
    BY <1>1
  <2>. QED  BY <1>6, <1>7, <1>8, <1>9, <2>1 DEF TakenRoom
<1>12. /\ metadata' = metadata \/ (result = "ok" /\ metadata'.files = files')
  BY <1>1 DEF PersistShare
<1>13. ShareBounds'
  <2>1. shareFaults \in Nat /\ (result # "ok") \in BOOLEAN
    BY <1>t, FileShareAssumption DEF ShareBounds
  <2>2. shareFaults' \in 0 .. MaxShareFault
    BY <1>1, <2>1, FaultCounted
  <2>3. \A g \in File : metadata'.files[g].size \in 0 .. Quota
    BY <1>5, <1>12
  <2>4. objects' \in SUBSET File /\ usedIDs' \in SUBSET File /\ serving' \in BOOLEAN /\ lateCommit' \in BOOLEAN
    BY <1>t, <1>1 DEF ShareBounds
  <2>. QED  BY <1>t, <1>1, <1>5, <1>6, <1>8, <2>2, <2>3, <2>4 DEF ShareBounds
<1>14. Recoverable'
  <2>1. SUFFICES ASSUME NEW g \in objects', metadata'.files[g].status # "none"
                 PROVE  files'[g].status # "none" /\ files'[g].size = metadata'.files[g].size
    BY DEF Recoverable
  <2>2. CASE metadata'.files = files'
    BY <2>1, <2>2
  <2>3. CASE metadata' = metadata
    <3>1. g # f /\ g \in objects /\ g \in File
      BY <1>t, <1>1, <1>3, <2>1, <2>3 DEF ShareBounds
    <3>. QED  BY <1>t, <1>4, <2>1, <2>3, <3>1 DEF Recoverable
  <2>. QED  BY <1>12, <2>2, <2>3
<1>15. UnusedIDs'
  <2>1. SUFFICES ASSUME NEW g \in File, g \notin usedIDs, g # f
                 PROVE  g \notin objects' /\ files'[g].status = "none" /\ metadata'.files[g].status = "none"
    BY <1>1 DEF UnusedIDs
  <2>2. g \notin objects /\ files[g].status = "none" /\ metadata.files[g].status = "none"
    BY <1>t, <2>1 DEF UnusedIDs
  <2>3. g \notin objects' /\ files'[g].status = "none"
    BY <1>1, <1>4, <2>1, <2>2
  <2>. QED  BY <1>12, <2>2, <2>3
<1>. QED  BY <1>10, <1>11, <1>13, <1>14, <1>15 DEF QuotaParts

\* A deletion frees the size of the record; its object is gone before the record.
LEMMA DeleteQuota ==
  ASSUME ShareParts, QuotaParts, NEW f \in File,
         NEW result \in {"ok", "unsaved", "kept", "kept_unsaved", "crash"}, DeleteFile(f, result)
  PROVE  QuotaParts'
<1>. DEFINE kept == result \in {"kept", "kept_unsaved"}
<1>t. ShareTypes /\ ShareBounds /\ StoredSizes /\ TakenRoom /\ Recoverable /\ UnusedIDs
  BY DEF ShareParts, QuotaParts
<1>q. Quota \in Nat /\ IsFiniteSet(Upload) /\ IsFiniteSet(File)
  BY FileShareAssumption
<1>1. /\ serving /\ files[f].status # "none" /\ Faults(result # "ok")
      /\ files' = [files EXCEPT ![f] = IF kept THEN [files[f] EXCEPT !.status = "delete_failed"]
                                               ELSE NoRecordOf]
      /\ used' = (IF kept THEN used ELSE used - files[f].size)
      /\ objects' = (IF kept THEN objects ELSE objects \ {f})
      /\ PersistShare(result \in {"ok", "kept"}) /\ serving' = (result # "crash")
      /\ uploads' = IF result = "crash" THEN [u \in Upload |-> IdleUpload] ELSE uploads
      /\ condemned' \in {condemned \cup {f}, condemned, condemned \ {f}}
      /\ UNCHANGED <<reserved, usedIDs, pastFiles, account, lateCommit, shareStarts>>
  BY DEF DeleteFile, tokenVars
<1>2. /\ \A g \in File \ {f} : files'[g] = files[g]
      /\ files'[f].size = (IF kept THEN files[f].size ELSE 0)
      /\ files'[f].status = (IF kept THEN "delete_failed" ELSE "none")
  <2>1. files \in FileTable /\ files[f] \in [status : FileStatus, size : Nat]
    BY <1>t DEF ShareTypes, FileTable
  <2>2. /\ [files[f] EXCEPT !.status = "delete_failed"].size = files[f].size
        /\ [files[f] EXCEPT !.status = "delete_failed"].status = "delete_failed"
    BY <2>1
  <2>3. NoRecordOf.size = 0 /\ NoRecordOf.status = "none"
    BY DEF NoRecordOf
  <2>4. \A r : [files EXCEPT ![f] = r][f] = r /\ \A g \in File \ {f} : [files EXCEPT ![f] = r][g] = files[g]
    BY <2>1 DEF FileTable
  <2>. HIDE DEF kept
  <2>. QED  BY <1>1, <2>2, <2>3, <2>4
<1>3. \A g \in File : /\ files'[g].size \in 0 .. Quota /\ files[g].size \in 0 .. Quota
                      /\ metadata.files[g].size \in 0 .. Quota
  <2>1. files[f].size \in 0 .. Quota /\ 0 \in 0 .. Quota
    BY <1>t, <1>q DEF ShareBounds
  <2>2. files'[f].size \in 0 .. Quota
    BY <1>2, <2>1
  <2>. QED  BY <1>t, <1>2, <2>2 DEF ShareBounds
<1>4. used' = Total(Sizes(files'), File) /\ used' \in Nat /\ used' <= used
  <2>1. Total(Sizes(files'), File) + files[f].size = Total(Sizes(files), File) + files'[f].size
    BY <1>2, <1>3, OneSizeChanges
  <2>2. /\ Total(Sizes(files'), File) \in Nat /\ used = Total(Sizes(files), File) /\ used \in Nat
        /\ files[f].size \in Nat
    BY <1>t, <1>3, <1>q, SizesWeigh DEF StoredSizes, ShareBounds
  <2>3. CASE kept
    BY <1>1, <1>2, <2>1, <2>2, <2>3
  <2>4. CASE ~kept
    BY <1>1, <1>2, <2>1, <2>2, <2>4
  <2>. QED  BY <2>3, <2>4
<1>5. StoredSizes'
  <2>1. used' <= Quota
    BY <1>t, <1>4, <1>q DEF StoredSizes, ShareBounds
  <2>2. \A g \in File : files'[g].status = "none" => files'[g].size = 0
    BY <1>t, <1>2 DEF StoredSizes
  <2>. QED  BY <1>4, <2>1, <2>2 DEF StoredSizes
<1>6. /\ result = "crash" => \A u \in Upload : uploads'[u] = IdleUpload
      /\ result # "crash" => uploads' = uploads
      /\ IdleUpload.acquired = 0 /\ 0 \in 0 .. Quota
  BY <1>1, <1>q DEF IdleUpload
<1>7. TakenRoom'
  <2>1. serving' <=> result # "crash"
    BY <1>1
  <2>2. reserved' = reserved /\ used' + reserved' <= Quota /\ reserved = Total(Taken(uploads), Upload)
    BY <1>t, <1>1, <1>4, <1>q DEF TakenRoom, ShareBounds
  <2>3. CASE result = "crash"
    BY <1>6, <2>1, <2>3 DEF TakenRoom
  <2>4. CASE result # "crash"
    BY <1>t, <1>6, <2>1, <2>2, <2>4 DEF TakenRoom
  <2>. QED  BY <2>3, <2>4
<1>8. metadata' = metadata \/ metadata'.files = files'
  BY <1>1 DEF PersistShare
<1>9. ShareBounds'
  <2>1. shareFaults \in Nat /\ (result # "ok") \in BOOLEAN
    BY <1>t, FileShareAssumption DEF ShareBounds
  <2>2. shareFaults' \in 0 .. MaxShareFault
    BY <1>1, <2>1, FaultCounted
  <2>3. \A g \in File : metadata'.files[g].size \in 0 .. Quota
    BY <1>3, <1>8
  <2>4. objects' \in SUBSET File /\ serving' \in BOOLEAN /\ condemned' \in SUBSET File
    BY <1>t, <1>1 DEF ShareBounds
  <2>5. \A u \in Upload : uploads'[u].acquired \in 0 .. Quota
    BY <1>t, <1>6 DEF ShareBounds
  <2>. QED  BY <1>t, <1>1, <1>3, <1>4, <2>2, <2>3, <2>4, <2>5 DEF ShareBounds
<1>10. Recoverable'
  <2>1. SUFFICES ASSUME NEW g \in objects', metadata'.files[g].status # "none"
                 PROVE  files'[g].status # "none" /\ files'[g].size = metadata'.files[g].size
    BY DEF Recoverable
  <2>2. CASE metadata'.files = files'
    BY <2>1, <2>2
  <2>3. CASE metadata' = metadata
    <3>1. g \in objects /\ g \in File /\ (g = f => kept)
      BY <1>t, <1>1 DEF ShareBounds
    <3>2. files[g].status # "none" /\ files[g].size = metadata.files[g].size
      BY <1>t, <2>1, <2>3, <3>1 DEF Recoverable
    <3>. HIDE DEF kept
    <3>. QED  BY <1>2, <2>1, <2>3, <3>1, <3>2
  <2>. QED  BY <1>8, <2>2, <2>3
<1>11. UnusedIDs'
  <2>1. f \in usedIDs
    BY <1>t, <1>1 DEF UnusedIDs
  <2>2. SUFFICES ASSUME NEW g \in File \ usedIDs
                 PROVE  g \notin objects' /\ files'[g].status = "none" /\ metadata'.files[g].status = "none"
    BY <1>1 DEF UnusedIDs
  <2>3. g # f /\ g \notin objects /\ files[g].status = "none" /\ metadata.files[g].status = "none"
    BY <1>t, <2>1 DEF UnusedIDs
  <2>4. g \notin objects' /\ files'[g].status = "none"
    BY <1>1, <1>2, <2>3
  <2>. QED  BY <1>8, <2>3, <2>4
<1>. QED  BY <1>5, <1>7, <1>9, <1>10, <1>11 DEF QuotaParts

\* Links do not count.
LEMMA LinkQuota ==
  ASSUME ShareParts, QuotaParts, NEW l \in Link, NEW ok \in BOOLEAN, LinkStep(l, ok)
  PROVE  QuotaParts'
<1>t. ShareTypes /\ ShareBounds /\ StoredSizes /\ TakenRoom /\ Recoverable /\ UnusedIDs
  BY DEF ShareParts, QuotaParts
<1>1. /\ UNCHANGED <<files, objects, used, reserved, uploads, usedIDs, pastFiles, account, serving,
                     condemned, shareStarts>>
      /\ Faults(~ok) /\ PersistShare(ok) /\ lateCommit' \in BOOLEAN
  BY <1>t DEF LinkStep, RevokeLink, CreateLink, tokenVars, ShareBounds
<1>2. metadata' = metadata \/ metadata'.files = files
  BY <1>1 DEF PersistShare
<1>3. ShareBounds'
  <2>1. shareFaults \in Nat /\ (~ok) \in BOOLEAN
    BY <1>t, FileShareAssumption DEF ShareBounds
  <2>2. shareFaults' \in 0 .. MaxShareFault
    BY <1>1, <2>1, FaultCounted
  <2>3. \A g \in File : metadata'.files[g].size \in 0 .. Quota
    BY <1>t, <1>2 DEF ShareBounds
  <2>. QED  BY <1>t, <1>1, <2>2, <2>3 DEF ShareBounds
<1>4. TakenRoom'
  BY <1>t, <1>1, RoomRest
<1>5. StoredSizes'
  BY <1>t, <1>1 DEF StoredSizes, Sizes
<1>6. Recoverable' /\ UnusedIDs'
  BY <1>t, <1>1, <1>2 DEF Recoverable, UnusedIDs
<1>. QED  BY <1>3, <1>4, <1>5, <1>6 DEF QuotaParts

\* One case for every action.
LEMMA QuotaStep == ShareParts /\ QuotaParts /\ [ShareNext]_shareVars => QuotaParts'
<1> SUFFICES ASSUME ShareParts, QuotaParts, [ShareNext]_shareVars PROVE QuotaParts'
  OBVIOUS
<1>t. ShareBounds /\ StoredSizes /\ TakenRoom /\ Recoverable /\ UnusedIDs
  BY DEF QuotaParts
<1>1. ASSUME NEW ok \in BOOLEAN, NEW kept \in SUBSET Recovered, OpenShare(ok, kept) PROVE QuotaParts'
  BY <1>1, OpenQuota
<1>2. ASSUME NEW u \in Upload, UploadStep(u) PROVE QuotaParts'
  <2>1. ASSUME NEW f \in File, NEW result \in {"ok", "failed", "crash"}, CommitUpload(u, f, result)
        PROVE  QuotaParts'
    BY <2>1, CommitQuota
  <2> QED
    BY <1>2, <2>1, UploadQuota DEF UploadStep
<1>3. ASSUME NEW f \in File, FileStep(f) PROVE QuotaParts'
  <2>1. ASSUME RetentionEnds(f) PROVE QuotaParts'
    <3>1. StoredSizes' /\ Recoverable' /\ UnusedIDs'
      BY <1>t, <2>1, RecordsRest DEF RetentionEnds, RecordVars
    <3>2. TakenRoom'
      BY <1>t, <2>1, RoomRest DEF RetentionEnds
    <3>3. ShareBounds'
      BY <1>t, <2>1 DEF ShareBounds, RetentionEnds, tokenVars
    <3> QED
      BY <3>1, <3>2, <3>3 DEF QuotaParts
  <2>2. ASSUME NEW result \in {"ok", "unsaved", "kept", "kept_unsaved", "crash"},
               DeleteRequested(f, result) \/ CleanupExpired(f, result)
        PROVE  QuotaParts'
    BY <2>2, DeleteQuota DEF DeleteRequested, CleanupExpired
  <2> QED
    BY <1>3, <2>1, <2>2 DEF FileStep
<1>4. ASSUME UNCHANGED shareVars PROVE QuotaParts'
  <2>1. StoredSizes' /\ Recoverable' /\ UnusedIDs'
    BY <1>t, <1>4, RecordsRest DEF shareVars, RecordVars
  <2>2. TakenRoom'
    BY <1>t, <1>4, RoomRest DEF shareVars
  <2>3. ShareBounds'
    BY <1>t, <1>4 DEF ShareBounds, shareVars
  <2> QED
    BY <2>1, <2>2, <2>3 DEF QuotaParts
<1> QED
  BY <1>1, <1>2, <1>3, <1>4, CrashQuota, TokenQuota, LinkQuota DEF ShareNext

\* Nothing is stored and nothing reserved.
LEMMA QuotaStart == ShareInit => QuotaParts
<1> SUFFICES ASSUME ShareInit PROVE QuotaParts
  OBVIOUS
<1>q. Quota \in Nat /\ MaxAccountVersion \in Nat \ {0} /\ MaxShareStart \in Nat /\ MaxShareFault \in Nat
  BY FileShareAssumption
<1>1. /\ \A f \in File : /\ files[f].size = 0 /\ files[f].status = "none"
                         /\ metadata.files[f].size = 0 /\ metadata.files[f].status = "none"
      /\ \A u \in Upload : uploads[u] = IdleUpload /\ uploads[u].acquired = 0
      /\ used = 0 /\ reserved = 0 /\ objects = {} /\ ~serving
  BY DEF ShareInit, NoRecordOf, IdleUpload
<1>2. Total(Sizes(files), File) = 0
  <2>1. \A f \in File : Sizes(files)[f] = 0
    BY <1>1 DEF Sizes
  <2>. QED  BY <2>1, TotalOfZeros
<1>3. ShareBounds
  <2>1. 0 \in 0 .. Quota /\ 0 \in 0 .. MaxShareStart /\ 0 \in 0 .. MaxShareFault /\ 1 \in 1 .. MaxAccountVersion
    BY <1>q
  <2>2. account.version = 1 /\ usedIDs = {} /\ pastFiles = {} /\ condemned = {} /\ serving = FALSE
        /\ lateCommit = FALSE /\ shareStarts = 0 /\ shareFaults = 0
    BY DEF ShareInit
  <2>3. \A f \in File : files[f].size \in 0 .. Quota /\ metadata.files[f].size \in 0 .. Quota
    BY <1>1, <2>1
  <2>4. \A u \in Upload : uploads[u].acquired \in 0 .. Quota
    BY <1>1, <2>1
  <2>. QED  BY <1>1, <2>1, <2>2, <2>3, <2>4 DEF ShareBounds
<1>4. StoredSizes /\ TakenRoom /\ Recoverable /\ UnusedIDs
  BY <1>q, <1>1, <1>2 DEF StoredSizes, TakenRoom, Recoverable, UnusedIDs
<1>. QED  BY <1>3, <1>4 DEF QuotaParts

\* The accounts of the quota, in every reachable state, down or serving.
THEOREM QuotaInvariant == ShareSpec => []QuotaParts
BY QuotaStart, QuotaStep, SharePartsHold, PTL DEF ShareSpec

\* Whatever uploads, deletions, failed writes and restarts overlap: used and reserved
\* are the sums they stand for and stay within the quota, what is listed has its object,
\* dead links open nothing, and tokens stay within their limit (fileshare.Service).
THEOREM SharesConsistent == ShareSpec => []ShareInv
<1>1. ShareParts /\ QuotaParts => QuotaKept
  <2> SUFFICES ASSUME ShareParts, QuotaParts, serving PROVE QuotaKept
    BY DEF QuotaKept
  <2>t. ShareBounds /\ StoredSizes /\ TakenRoom
    BY DEF QuotaParts
  <2>q. Quota \in Nat /\ IsFiniteSet(Upload) /\ IsFiniteSet(File)
    BY FileShareAssumption
  <2>1. SizeOf(files, File) = Total(Sizes(files), File)
    BY <2>t, <2>q, SizeIsTotal DEF ShareBounds, Sizes
  <2>2. FoldSet(LAMBDA u, n : n + uploads[u].acquired, 0, Upload) = Total(Taken(uploads), Upload)
    BY <2>t, <2>q, AcquiredIsTotal DEF ShareBounds, Taken
  <2>. QED  BY <2>t, <2>1, <2>2 DEF StoredSizes, TakenRoom, QuotaKept
<1>2. ShareParts /\ QuotaParts => ShareTypeOK
  <2> SUFFICES ASSUME ShareParts, QuotaParts PROVE ShareTypeOK
    OBVIOUS
  <2>t. ShareTypes /\ ShareBounds /\ TokenBounds
    BY DEF ShareParts, QuotaParts
  <2>1. files \in [File -> FileRecord] /\ metadata.files \in [File -> FileRecord]
    BY <2>t DEF ShareTypes, ShareBounds, FileTable, FileStatus, FileRecord
  <2>2. links \in [Link -> LinkRecord \cup {NoLink}]
        /\ metadata \in [files : [File -> FileRecord], links : [Link -> LinkRecord \cup {NoLink}]]
    BY <2>t, <2>1 DEF ShareTypes, LinkTable
  <2>3. uploads \in [Upload -> [active : BOOLEAN, acquired : 0 .. Quota,
                                credential : FileToken \cup {NoCredential}]]
    BY <2>t DEF ShareTypes, ShareBounds, UploadTable
  <2>4. account \in [active : BOOLEAN, version : 1 .. MaxAccountVersion]
    BY <2>t DEF ShareTypes, ShareBounds
  <2>5. fileTokens \in [FileToken -> TokenRecord] /\ tokenFile \in [FileToken -> TokenRecord]
    <3>1. MaxAccountVersion \in Nat /\ account.version \in 1 .. MaxAccountVersion
      BY <2>t, FileShareAssumption DEF ShareBounds
    <3>2. \A t \in FileToken : /\ fileTokens[t].version \in 0 .. MaxAccountVersion
                               /\ tokenFile[t].version \in 0 .. MaxAccountVersion
      BY <2>t, <3>1 DEF TokenBounds, ShareTypes, TokenTable
    <3>. QED  BY <2>t, <3>2 DEF ShareTypes, TokenTable, TokenRecord
  <2>. QED  BY <2>t, <2>1, <2>2, <2>3, <2>4, <2>5 DEF ShareTypes, ShareBounds, ShareTypeOK
<1>. QED  BY <1>1, <1>2, SharePartsHold, QuotaInvariant, ListedLinksAndTokens, PTL DEF ShareInv

\* A file whose object was not there before is a new one: an ID is never used twice.
LEMMA SecuredStep ==
  ASSUME ShareParts, QuotaParts, [ShareNext]_shareVars, NEW f \in File, Secured(f)
  PROVE  \/ Secured(f)' /\ files'[f].size = files[f].size
         \/ \E result \in {"ok", "unsaved", "kept", "kept_unsaved", "crash"} : DeleteFile(f, result)
         \/ MissedByStart(f)
<1>t. /\ ShareTypes /\ shareFaults \in Nat
      /\ \A g \in File : /\ files[g] \in [status : FileStatus, size : Nat]
                        /\ metadata.files[g] \in [status : FileStatus, size : Nat]
      /\ f \in objects /\ f \in usedIDs /\ files[f].status # "none" /\ metadata.files[f].status # "none"
      /\ files[f].size = metadata.files[f].size
  BY FileShareAssumption
  DEF ShareParts, ShareTypes, FileTable, QuotaParts, ShareBounds, UnusedIDs, Secured, Stored
\* Whoever leaves the file in memory and on disk may write metadata.json or not.
<1>k. ASSUME files'[f] = files[f], f \in objects', metadata' = metadata \/ metadata'.files = files'
      PROVE  Secured(f)' /\ files'[f].size = files[f].size
  BY <1>k, <1>t DEF Secured, Stored
<1>1. ASSUME NEW ok \in BOOLEAN, NEW kept \in SUBSET Recovered, OpenShare(ok, kept)
      PROVE  (Secured(f)' /\ files'[f].size = files[f].size) \/ MissedByStart(f)
  <2>1. f \in Recovered
    BY <1>t DEF Recovered, Stored
  <2>2. CASE f \in kept
    <3>1. /\ files'[f] = [metadata.files[f] EXCEPT !.status = "ready"] /\ f \in objects'
          /\ metadata' = metadata \/ metadata'.files = files'
      BY <1>1, <1>t, <2>2 DEF OpenShare, PersistShare
    <3>2. files'[f].status # "none" /\ files'[f].size = files[f].size
      BY <1>t, <3>1
    <3>. QED  BY <1>t, <3>1, <3>2 DEF Secured, Stored
  <2>3. CASE f \notin kept
    <3>1. ~serving /\ f \notin objects' /\ Faults(~ok \/ kept # Recovered)
      BY <1>1, <2>3 DEF OpenShare
    <3>2. shareFaults' = shareFaults + 1
      BY <2>1, <2>3, <3>1 DEF Faults, Fault
    <3>. QED  BY <1>t, <3>1, <3>2 DEF MissedByStart
  <2>. QED  BY <2>2, <2>3
<1>2. ASSUME NEW u \in Upload, NEW g \in File, NEW result \in {"ok", "failed", "crash"},
             CommitUpload(u, g, result)
      PROVE  Secured(f)' /\ files'[f].size = files[f].size
  <2>1. g # f
    BY <1>2, <1>t DEF CommitUpload, IsFresh
  <2>2. files'[f] = files[f] /\ f \in objects'
    BY <1>2, <1>t, <2>1 DEF CommitUpload, ShareTypes, FileTable
  <2>3. metadata' = metadata \/ metadata'.files = files'
    BY <1>2 DEF CommitUpload, PersistShare
  <2>. QED  BY <2>2, <2>3, <1>k
<1>3. ASSUME NEW g \in File, NEW result \in {"ok", "unsaved", "kept", "kept_unsaved", "crash"},
             DeleteFile(g, result), g # f
      PROVE  Secured(f)' /\ files'[f].size = files[f].size
  <2>1. files'[f] = files[f] /\ f \in objects'
    BY <1>3, <1>t DEF DeleteFile, ShareTypes, FileTable
  <2>2. metadata' = metadata \/ metadata'.files = files'
    BY <1>3 DEF DeleteFile, PersistShare
  <2>. QED  BY <2>1, <2>2, <1>k
<1>4. ASSUME UNCHANGED <<files, objects>>, metadata' = metadata \/ metadata'.files = files'
      PROVE  Secured(f)' /\ files'[f].size = files[f].size
  BY <1>4, <1>t, <1>k
<1>5. ASSUME NEW l \in Link, NEW ok \in BOOLEAN, LinkStep(l, ok)
      PROVE  UNCHANGED <<files, objects>> /\ (metadata' = metadata \/ metadata'.files = files')
  BY <1>5 DEF LinkStep, RevokeLink, CreateLink, PersistShare
<1>6. ASSUME \/ CrashShare \/ UNCHANGED shareVars
             \/ \E ok \in BOOLEAN : TokenStep(ok)
             \/ \E active \in BOOLEAN : AccountChanges(active)
             \/ \E u \in Upload : \/ \E c \in FileToken \cup {NoCredential} : BeginUpload(u, c)
                                  \/ WriteChunk(u) \/ AbortUpload(u) \/ RefuseUpload(u)
             \/ \E g \in File : RetentionEnds(g)
      PROVE  UNCHANGED <<files, objects, metadata>>
  BY <1>6
  DEF CrashShare, shareVars, TokenStep, CreateFileToken, RevokeFileToken, FinishFileToken, ShareUnchanged,
      AccountChanges, BeginUpload, WriteChunk, AbortUpload, RefuseUpload, RetentionEnds
<1>. QED
  BY <1>1, <1>2, <1>3, <1>4, <1>5, <1>6
  DEF ShareNext, UploadStep, FileStep, DeleteRequested, CleanupExpired

\* Only a commit brings an object, and only under a new ID.
LEMMA GoneStep ==
  ASSUME [ShareNext]_shareVars, NEW f \in usedIDs \ objects
  PROVE  f \notin objects'
<1>1. ASSUME NEW u \in Upload, NEW g \in File, NEW result \in {"ok", "failed", "crash"},
             CommitUpload(u, g, result)
      PROVE  f \notin objects'
  BY <1>1 DEF CommitUpload, IsFresh
<1>2. ASSUME \/ \E ok \in BOOLEAN, kept \in SUBSET Recovered : OpenShare(ok, kept)
             \/ \E g \in File, result \in {"ok", "unsaved", "kept", "kept_unsaved", "crash"} :
                    DeleteFile(g, result)
      PROVE  objects' \subseteq objects
  BY <1>2 DEF OpenShare, DeleteFile
<1>3. ASSUME \/ CrashShare \/ UNCHANGED shareVars
             \/ \E ok \in BOOLEAN : TokenStep(ok)
             \/ \E active \in BOOLEAN : AccountChanges(active)
             \/ \E u \in Upload : \/ \E c \in FileToken \cup {NoCredential} : BeginUpload(u, c)
                                  \/ WriteChunk(u) \/ AbortUpload(u) \/ RefuseUpload(u)
             \/ \E g \in File : RetentionEnds(g)
             \/ \E l \in Link, ok \in BOOLEAN : LinkStep(l, ok)
      PROVE  UNCHANGED objects
  BY <1>3
  DEF CrashShare, shareVars, TokenStep, CreateFileToken, RevokeFileToken, FinishFileToken, ShareUnchanged,
      AccountChanges, BeginUpload, WriteChunk, AbortUpload, RefuseUpload, RetentionEnds, LinkStep,
      RevokeLink, CreateLink
<1>. QED
  BY <1>1, <1>2, <1>3 DEF ShareNext, UploadStep, FileStep, DeleteRequested, CleanupExpired

\* A confirmed upload outlives other uploads and deletions, failed writes and crashes, and
\* a deleted one never comes back (fileshare.Service).
THEOREM UploadsSurvive == ShareSpec => StoredUntilDeleted
<1>1. ShareParts /\ QuotaParts /\ [ShareNext]_shareVars
        => [\A f \in File :
              /\ Secured(f) => \/ Secured(f)' /\ files'[f].size = files[f].size
                               \/ \E result \in {"ok", "unsaved", "kept", "kept_unsaved", "crash"} :
                                     DeleteFile(f, result)
                               \/ MissedByStart(f)
              /\ f \in usedIDs \ objects => f \notin objects']_shareVars
  BY SecuredStep, GoneStep
<1>. QED
  BY <1>1, SharePartsHold, QuotaInvariant, PTL DEF ShareSpec, StoredUntilDeleted
=============================================================================
