---------------------------- MODULE AgentProofs ----------------------------
(***************************************************************************)
(* Theorems about UpgradeJournal, AgentUpgrade and GitHubSync, for every set*)
(* of requests, plans, devices, keys and pollers, and every bound.  Each has*)
(* its own inductive invariant, JournalIInv, UpgradeParts and GHParts.     *)
(***************************************************************************)
EXTENDS UpgradeJournal, AgentUpgrade, GitHubSync, FiniteSetTheorems, SequenceTheorems, TLAPS

----------------------------------------------------------------------------
(* The journal of upgrades.                                                *)

\* The fields of the first n records, in order: what playback applies.
FieldsOf(n) == [i \in 1 .. n |-> LastOf(records[i].chain)]

\* A record whose predecessors' hashes hold stands for exactly the fields of
\* the records up to it.
ChainsHold ==
    \A n \in 1 .. Len(records) :
        ChainHolds(n) => records[n].chain = FieldsOf(n)

\* The first record starts the chain: nothing is in memory before it.
Rooted ==
    /\ records # <<>> => Len(records[1].chain) = 1
    /\ opened = "open" /\ records = <<>> => chain = <<>>

JournalIInv == JournalInv /\ ChainsHold /\ Rooted

-----------------------------------------------------------------------------
(* Types *)

ChainedRecord == [whole: BOOLEAN, chain: Seq(Fields) \ {<<>>}]

\* What playback applies of well-formed records are fields.
LEMMA FieldsOfType ==
    ASSUME records \in Seq(ChainedRecord), NEW n \in 0 .. Len(records)
    PROVE  FieldsOf(n) \in Seq(Fields) /\ Len(FieldsOf(n)) = n
  <1>1. ASSUME NEW i \in 1 .. n PROVE LastOf(records[i].chain) \in Fields
    <2>1. records[i] \in ChainedRecord
      OBVIOUS
    <2>2. records[i].chain \in Seq(Fields) /\ records[i].chain # <<>>
      BY <2>1 DEF ChainedRecord
    <2>. QED  BY <2>2 DEF LastOf
  <1>2. FieldsOf(n) \in [1 .. n -> Fields]
    BY <1>1 DEF FieldsOf
  <1>. QED  BY <1>2

\* The record that AppendRecord writes leaves the others where they are.
LEMMA WrittenLast ==
    ASSUME records \in Seq(ChainedRecord), NEW next, NEW whole \in BOOLEAN,
           next \in Seq(Fields) \ {<<>>}, records' = Written(next, whole)
    PROVE  /\ records' \in Seq(ChainedRecord)
           /\ Len(records') = Len(records) + 1
           /\ records'[Len(records) + 1].chain = next
           /\ \A i \in 1 .. Len(records) : records'[i] = records[i]
  <1> DEFINE r == [whole |-> whole, chain |-> next]
  <1>1. r \in ChainedRecord /\ r.chain = next
    BY DEF ChainedRecord
  <1>2. records' = Append(records, r)
    BY DEF Written
  <1> HIDE DEF r
  <1>. QED  BY <1>1, <1>2

\* Hashes and fields of records that stay are what they were.
LEMMA SameRecords ==
    ASSUME NEW n \in Nat, \A i \in 1 .. n : records'[i] = records[i]
    PROVE  (ChainHolds(n)' <=> ChainHolds(n)) /\ FieldsOf(n)' = FieldsOf(n)
  <1>1. ASSUME NEW i \in 2 .. n PROVE records'[i] = records[i] /\ records'[i - 1] = records[i - 1]
    OBVIOUS
  <1>2. ChainHolds(n)' <=> ChainHolds(n)
    BY <1>1 DEF ChainHolds
  <1>3. FieldsOf(n)' = FieldsOf(n)
    BY DEF FieldsOf
  <1>. QED  BY <1>2, <1>3

-----------------------------------------------------------------------------
(* The steps *)

\* OpenJournal keeps the file and builds the state from what it reads.
LEMMA OpenKeeps ==
    ASSUME JournalIInv, OpenJournal
    PROVE  JournalIInv'
  <1>. USE JournalAssumption
  <1>t. JournalTypeOK /\ records \in Seq(ChainedRecord) /\ ChainsHold /\ Rooted
    BY DEF JournalIInv, JournalInv, JournalTypeOK, ChainedRecord
  <1>n. PICK n \in Readable :
          /\ opened = "closed"
          /\ opens < MaxOpen
          /\ opens' = opens + 1
          /\ UNCHANGED <<header, records, acked, appends, journalFaults>>
          /\ IF header = NoHeader \/ (header = FALSE /\ records = <<>>)
             THEN opened' = "open" /\ chain' = <<>> /\ applied' = <<>>
             ELSE IF header = FALSE \/ ~ChainHolds(n)
             THEN opened' = "refused" /\ UNCHANGED <<chain, applied>>
             ELSE /\ opened' = "open"
                  /\ chain' = IF n = 0 THEN <<>> ELSE records[n].chain
                  /\ applied' = [i \in 1 .. n |-> LastOf(records[i].chain)]
    BY DEF OpenJournal
  <1>r. n \in 0 .. Len(records)
    BY <1>t DEF Readable
  <1>f. FieldsOf(n) \in Seq(Fields) /\ Len(FieldsOf(n)) = n
    BY <1>t, <1>r, FieldsOfType
  <1>1. ChainsHold'
    <2>1. ASSUME NEW m \in 1 .. Len(records)
          PROVE  (ChainHolds(m)' <=> ChainHolds(m)) /\ FieldsOf(m)' = FieldsOf(m)
      BY <1>n, <1>t, SameRecords
    <2>. QED  BY <1>t, <1>n, <2>1 DEF ChainsHold
  <1>2. CASE header = NoHeader \/ (header = FALSE /\ records = <<>>)
    <2>0. opened' = "open" /\ chain' = <<>> /\ applied' = <<>>
      BY <1>2, <1>n
    <2>t. JournalTypeOK'
      BY <2>0, <1>n, <1>t DEF JournalTypeOK
    <2>1. JournalTypeOK' /\ Rooted' /\ StateMatchesChain'
      BY <2>0, <2>t, <1>n, <1>t DEF Rooted, StateMatchesChain
    <2>. QED  BY <2>1, <1>1 DEF JournalIInv, JournalInv
  <1>3. CASE ~(header = NoHeader \/ (header = FALSE /\ records = <<>>)) /\ (header = FALSE \/ ~ChainHolds(n))
    <2>1. JournalTypeOK' /\ Rooted' /\ StateMatchesChain'
      BY <1>3, <1>n, <1>t DEF JournalTypeOK, Rooted, StateMatchesChain
    <2>. QED  BY <2>1, <1>1 DEF JournalIInv, JournalInv
  <1>4. CASE /\ ~(header = NoHeader \/ (header = FALSE /\ records = <<>>))
             /\ ~(header = FALSE \/ ~ChainHolds(n))
    <2>1. chain' = FieldsOf(n) /\ applied' = FieldsOf(n) /\ opened' = "open"
      <3>1. applied' = FieldsOf(n) /\ opened' = "open"
        BY <1>4, <1>n DEF FieldsOf
      <3>2. chain' = FieldsOf(n)
        <4>1. CASE n = 0
          BY <4>1, <1>4, <1>n, <1>f
        <4>2. CASE n # 0
          BY <4>2, <1>4, <1>n, <1>r, <1>t DEF ChainsHold
        <4>. QED  BY <4>1, <4>2
      <3>. QED  BY <3>1, <3>2
    <2>2. JournalTypeOK'
      BY <2>1, <1>f, <1>r, <1>n, <1>t DEF JournalTypeOK
    <2>3. Rooted'
      <3>1. records' = <<>> => chain' = <<>>
        BY <2>1, <1>f, <1>r, <1>n
      <3>. QED  BY <3>1, <1>n, <1>t DEF Rooted
    <2>. QED  BY <2>1, <2>2, <2>3, <1>1 DEF JournalIInv, JournalInv, StateMatchesChain
  <1>. QED  BY <1>2, <1>3, <1>4

\* AppendRecord chains what it writes to what is in memory.
LEMMA AppendKeeps ==
    ASSUME JournalIInv, NEW f \in Fields,
           NEW result \in {"ok", "header", "none", "torn", "sync"},
           AppendRecord(f, result)
    PROVE  JournalIInv'
  <1>. USE JournalAssumption
  <1>t. JournalTypeOK /\ records \in Seq(ChainedRecord) /\ ChainsHold /\ Rooted
        /\ StateMatchesChain
    BY DEF JournalIInv, JournalInv, JournalTypeOK, ChainedRecord
  <1> DEFINE next == Append(chain, f)
  <1>a. next \in Seq(Fields) \ {<<>>} /\ Len(next) = Len(chain) + 1
        /\ SubSeq(next, 1, Len(next) - 1) = chain /\ LastOf(next) = f
    <2>1. chain \in Seq(Fields) /\ next \in Seq(Fields) /\ Len(next) = Len(chain) + 1
      BY <1>t DEF JournalTypeOK
    <2>2. next # <<>> /\ next[Len(next)] = f
      BY <2>1
    <2>3. SubSeq(next, 1, Len(next) - 1) = chain
      <3> DEFINE front == SubSeq(next, 1, Len(next) - 1)
      <3>1. Len(chain) \in Nat /\ Len(next) - 1 = Len(chain)
        BY <2>1
      <3>2. front \in Seq(Fields) /\ Len(front) = Len(chain)
        BY <2>1, <3>1, SubSeqProperties
      <3>3. ASSUME NEW i \in 1 .. Len(chain) PROVE front[i] = chain[i]
        <4>1. front[i] = next[i]
          BY <2>1, <3>1, SubSeqProperties
        <4>. QED  BY <4>1, <2>1
      <3> HIDE DEF front
      <3>. QED  BY <2>1, <3>2, <3>3, SeqEqual
    <2>. QED  BY <2>1, <2>2, <2>3 DEF LastOf
  <1>b. /\ opened = "open" /\ opened' = "open"
        /\ appends < MaxRecords /\ appends' = appends + 1
        /\ journalFaults' <= MaxJournalFault /\ journalFaults' \in Nat
        /\ opens' = opens
        /\ header' \in BOOLEAN \cup {NoHeader}
    BY <1>t DEF AppendRecord, JournalTypeOK
  <1>c. /\ records' \in {records, Written(next, TRUE), Written(next, FALSE)}
        /\ chain' # chain => records' # records
        /\ chain' \in {chain, next}
        /\ applied' \in Seq(Fields) /\ acked' \in Seq(Fields)
        /\ applied' = chain'
    <2>1. chain = applied
      BY <1>b, <1>t DEF StateMatchesChain
    <2>2. CASE result = "ok"
      <3>1. records' = Written(next, TRUE) /\ chain' = next /\ applied' = next /\ acked' = next
        BY <2>1, <2>2 DEF AppendRecord
      <3>2. Written(next, TRUE) # records
        BY <1>t DEF Written
      <3>. QED  BY <3>1, <3>2, <1>a
    <2>3. CASE result # "ok"
      BY <2>1, <2>3, <1>t DEF AppendRecord, JournalTypeOK
    <2>. QED  BY <2>2, <2>3
  <1> HIDE DEF next
  <1>d. CASE records' = records
    <2>1. chain' = chain
      BY <1>c, <1>d
    <2>2. ASSUME NEW m \in 1 .. Len(records)
          PROVE  (ChainHolds(m)' <=> ChainHolds(m)) /\ FieldsOf(m)' = FieldsOf(m)
      BY <1>d, <1>t, SameRecords
    <2>3. ChainsHold'
      BY <2>2, <1>d, <1>t DEF ChainsHold
    <2>4. JournalTypeOK'
      BY <2>1, <1>b, <1>c, <1>d, <1>t DEF JournalTypeOK
    <2>5. Rooted' /\ StateMatchesChain'
      BY <2>1, <1>b, <1>c, <1>d, <1>t DEF Rooted, StateMatchesChain
    <2>. QED  BY <2>3, <2>4, <2>5 DEF JournalIInv, JournalInv
  <1>e. ASSUME NEW whole \in BOOLEAN, records' = Written(next, whole)
        PROVE  JournalIInv'
    <2>0. Len(records) \in Nat
      BY <1>t
    <2>p. PICK k \in Nat : k = Len(records) + 1
      BY <2>0
    <2>w. /\ records' \in Seq(ChainedRecord) /\ Len(records') = k
          /\ records'[k].chain = next
          /\ \A i \in 1 .. Len(records) : records'[i] = records[i]
      BY <1>e, <1>a, <1>t, <2>p, WrittenLast
    <2>k. k \in Nat /\ k >= 1 /\ Len(records) \in Nat /\ k = Len(records) + 1
      BY <2>0, <2>p
    <2>1. ASSUME NEW m \in 1 .. Len(records), ChainHolds(m)'
          PROVE  records'[m].chain = FieldsOf(m)'
      <3>1. \A i \in 1 .. m : records'[i] = records[i]
        BY <2>w, <2>k
      <3>2. (ChainHolds(m)' <=> ChainHolds(m)) /\ FieldsOf(m)' = FieldsOf(m)
        BY <3>1, <2>k, SameRecords
      <3>. QED  BY <3>2, <2>w, <2>1, <1>t DEF ChainsHold
    <2>2. ASSUME ChainHolds(k)'
          PROVE  records'[k].chain = FieldsOf(k)'
      <3>f. FieldsOf(k)' = [i \in 1 .. k |-> LastOf(records'[i].chain)]
        BY DEF FieldsOf
      <3>1. CASE records = <<>>
        <4>1. chain = <<>> /\ k = 1
          BY <3>1, <2>k, <1>b, <1>t DEF Rooted
        <4>2. next = <<f>>
          BY <4>1 DEF next
        <4>. QED  BY <4>1, <4>2, <3>f, <2>w, <1>a
      <3>2. CASE records # <<>>
        <4>p. PICK j \in Nat : j = k - 1
          BY <2>k
        <4>k. k \in 2 .. k /\ j = k - 1 /\ j = Len(records) /\ j \in 1 .. Len(records)
          BY <4>p, <3>2, <2>k, <1>t
        <4>1. SubSeq(next, 1, Len(next) - 1) = records'[j].chain
          BY <2>2, <4>k, <2>w DEF ChainHolds
        <4>2. ChainHolds(j)'
          <5>1. \A i \in 2 .. j : i \in 2 .. k
            BY <4>k
          <5>. QED  BY <2>2, <5>1 DEF ChainHolds
        <4>3. chain = FieldsOf(j)'
          BY <4>1, <4>2, <4>k, <2>1, <1>a
        <4>4. FieldsOf(j)' = [i \in 1 .. j |-> LastOf(records'[i].chain)]
          BY DEF FieldsOf
        <4>5. Len(chain) = j /\ Len(next) = k
          <5>1. FieldsOf(j)' \in [1 .. j -> {LastOf(records'[i].chain) : i \in 1 .. j}]
            BY <4>4
          <5>2. DOMAIN chain = 1 .. j /\ chain \in Seq(Fields)
            BY <4>3, <5>1, <4>k, <1>t DEF JournalTypeOK
          <5>. QED  BY <5>2, <4>k, <1>a, LenProperties
        <4>6. ASSUME NEW i \in 1 .. k PROVE next[i] = LastOf(records'[i].chain)
          <5>1. CASE i = k
            BY <5>1, <4>5, <2>w DEF LastOf
          <5>2. CASE i # k
            <6>1. i \in 1 .. j /\ i \in 1 .. Len(chain)
              BY <5>2, <4>5, <4>k
            <6>2. next[i] = chain[i]
              BY <6>1, <1>t DEF next, JournalTypeOK
            <6>. QED  BY <6>1, <6>2, <4>3, <4>4
          <5>. QED  BY <5>1, <5>2
        <4>7. next \in [1 .. k -> Fields]
          BY <1>a, <4>5
        <4>. QED  BY <4>6, <4>7, <3>f, <2>w
      <3>. QED  BY <3>1, <3>2
    <2>3. ChainsHold'
      <3>1. ASSUME NEW m \in 1 .. Len(records') PROVE m \in 1 .. Len(records) \/ m = k
        BY <2>w, <2>k
      <3>. QED  BY <3>1, <2>1, <2>2 DEF ChainsHold
    <2>4. Rooted'
      <3>1. CASE records = <<>>
        <4>1. k = 1 /\ Len(next) = 1
          BY <3>1, <2>k, <1>a, <1>b, <1>t DEF Rooted
        <4>. QED  BY <4>1, <2>w DEF Rooted
      <3>2. CASE records # <<>>
        <4>1. 1 \in 1 .. Len(records) /\ records' # <<>>
          BY <3>2, <2>w, <2>k, <1>t
        <4>. QED  BY <3>2, <4>1, <2>w, <1>t DEF Rooted
      <3>. QED  BY <3>1, <3>2
    <2>5. JournalTypeOK'
      <3>1. chain' \in Seq(Fields) /\ Len(chain') <= appends'
        BY <1>a, <1>b, <1>c, <1>t DEF JournalTypeOK
      <3>2. Len(records') <= appends'
        BY <2>w, <2>k, <1>b, <1>t DEF JournalTypeOK
      <3>. QED  BY <3>1, <3>2, <2>w, <1>b, <1>c, <1>t DEF JournalTypeOK, ChainedRecord
    <2>. QED  BY <2>3, <2>4, <2>5, <1>c DEF JournalIInv, JournalInv, StateMatchesChain
  <1>. QED  BY <1>c, <1>d, <1>e

-----------------------------------------------------------------------------
\* Memory, the hashes on disk and the first record stay as JournalIInv says,
\* whatever append fails and whenever the process ends (journal.go).
THEOREM JournalInvariant == JournalSpec => []JournalIInv
  <1>1. JournalInit => JournalIInv
    BY JournalAssumption DEF JournalInit, JournalIInv, JournalInv, JournalTypeOK,
       StateMatchesChain, ChainsHold, Rooted
  <1>2. JournalIInv /\ [JournalNext]_journalVars => JournalIInv'
    <2>. SUFFICES ASSUME JournalIInv, [JournalNext]_journalVars PROVE JournalIInv'
      OBVIOUS
    <2>s. ASSUME UNCHANGED records PROVE ChainsHold'
      <3>t. records \in Seq(ChainedRecord) /\ ChainsHold
        BY DEF JournalIInv, JournalInv, JournalTypeOK, ChainedRecord
      <3>1. ASSUME NEW m \in 1 .. Len(records)
            PROVE  (ChainHolds(m)' <=> ChainHolds(m)) /\ FieldsOf(m)' = FieldsOf(m)
        BY <2>s, <3>t, SameRecords
      <3>. QED  BY <2>s, <3>t, <3>1 DEF ChainsHold
    <2>1. CASE OpenJournal
      BY <2>1, OpenKeeps
    <2>2. ASSUME NEW f \in Fields, NEW result \in {"ok", "header", "none", "torn", "sync"},
                 AppendRecord(f, result)
          PROVE  JournalIInv'
      BY <2>2, AppendKeeps
    <2>3. CASE CloseJournal
      <3>1. JournalTypeOK' /\ StateMatchesChain' /\ Rooted'
        BY <2>3 DEF CloseJournal, JournalIInv, JournalInv, JournalTypeOK,
           StateMatchesChain, Rooted
      <3>2. ChainsHold'
        BY <2>3, <2>s DEF CloseJournal
      <3>. QED  BY <3>1, <3>2 DEF JournalIInv, JournalInv
    <2>4. CASE UNCHANGED journalVars
      <3>1. JournalTypeOK' /\ StateMatchesChain' /\ Rooted'
        BY <2>4 DEF journalVars, JournalIInv, JournalInv, JournalTypeOK,
           StateMatchesChain, Rooted
      <3>2. ChainsHold'
        BY <2>4, <2>s DEF journalVars
      <3>. QED  BY <3>1, <3>2 DEF JournalIInv, JournalInv
    <2>. QED  BY <2>1, <2>2, <2>3, <2>4 DEF JournalNext
  <1>. QED  BY <1>1, <1>2, PTL DEF JournalSpec

\* The state a process works with is built from exactly the records its last
\* hash vouches for, for any journal and any failures (Journal.playback).
THEOREM JournalConsistent == JournalSpec => []JournalInv
  BY JournalInvariant, PTL DEF JournalIInv

----------------------------------------------------------------------------
(* Upgrades of the agents.                                                 *)

RequestRecord ==
    [pc: {"idle", "planned", "created", "unheard", "answered"} \cup DispatchPc,
     batch: BOOLEAN, key: IdemKey \cup {NoKey}, payload: Payload,
     plan: UpgradePlan \cup {NoPlan}, cmd: UpgradeCmd \cup {NoCmd}]
RecoveryRecord == [pc: {"idle"} \cup DispatchPc, cmd: UpgradeCmd \cup {NoCmd}]
DaemonRecord ==
    [pc: {"idle", "begun", "accepted", "verified", "backed_up", "placed", "report", "replaced"},
     cmd: UpgradeCmd \cup {NoCmd}]
LedgerTable == [UpgradeCmd -> {"none", "started", "confirmed", "succeeded", "failed"}]

\* A command that a handler or the recovery dispatches exists; so does one that is on
\* the stream, begun by the device or known to its ledger.
Dispatches(r) == r.pc \in {"created"} \cup DispatchPc

RequestCmdOK ==
    \A q \in UpgradeRequest : Dispatches(requests[q]) =>
        requests[q].cmd \in UpgradeCmd /\ upgradeCmds[requests[q].cmd].status # "unused"

RecoveryOK ==
    /\ recovery \in RecoveryRecord
    /\ recovery.pc # "idle" =>
         recovery.cmd \in UpgradeCmd /\ upgradeCmds[recovery.cmd].status # "unused"

InboxOK == \A i \in 1 .. Len(inbox) : upgradeCmds[inbox[i]].status # "unused"

DeviceCmdOK ==
    /\ \A c \in UpgradeCmd : ledger[c] # "none" => upgradeCmds[c].status # "unused"
    /\ daemon.pc # "idle" => upgradeCmds[daemon.cmd].status # "unused"
    /\ daemon.pc \in {"report", "replaced"} => ledger[daemon.cmd] \in {"succeeded", "failed"}

\* A key of a client stands for one command.
KeyOnce ==
    \A c, d \in UpgradeCmd :
        /\ upgradeCmds[c].status # "unused" /\ upgradeCmds[d].status # "unused"
        /\ upgradeCmds[c].key = upgradeCmds[d].key /\ upgradeCmds[c].key # NoKey
        => c = d

\* A request that has a plan and no command yet: the plan has its key, or it is
\* the only one that has the plan.
Planned(q) == requests[q].pc = "planned" /\ requests[q].plan # NoPlan

PlannedOK ==
    \A q \in UpgradeRequest : Planned(q) =>
        /\ plans[requests[q].plan].stage # "unused"
        /\ plans[requests[q].plan].key # NoKey => plans[requests[q].plan].key = requests[q].key
        /\ plans[requests[q].plan].key = NoKey =>
             \A r \in UpgradeRequest : Planned(r) /\ requests[r].plan = requests[q].plan => r = q

\* A command with a plan: the plan has its key, or no request that has the plan will
\* create another one.
HasPlan(c) == upgradeCmds[c].status # "unused" /\ upgradeCmds[c].plan # NoPlan

CmdPlanOK ==
    \A c \in UpgradeCmd : HasPlan(c) =>
        /\ plans[upgradeCmds[c].plan].stage # "unused"
        /\ plans[upgradeCmds[c].plan].key # NoKey => plans[upgradeCmds[c].plan].key = upgradeCmds[c].key
        /\ plans[upgradeCmds[c].plan].key = NoKey =>
             \A r \in UpgradeRequest : Planned(r) => requests[r].plan # upgradeCmds[c].plan

PlanOnce ==
    \A c, d \in UpgradeCmd : HasPlan(c) /\ HasPlan(d) /\ upgradeCmds[c].plan = upgradeCmds[d].plan => c = d

PendingOnce ==
    \A p, r \in UpgradePlan : plans[p].stage = "pending" /\ plans[r].stage = "pending" => p = r

\* The executable: away only while it is being replaced, or for good.
ExeOK ==
    /\ deviceUp /\ daemon.pc # "backed_up" => exe # NoFile \/ rollbackLost
    /\ BinaryRecoverable
    /\ daemon.pc = "backed_up" => oldExe # NoFile \/ rollbackLost
    /\ daemon.pc = "placed" => exe = upgradeCmds[daemon.cmd].payload.target

ServerParts == PlannedOK /\ KeyOnce /\ CmdPlanOK /\ PlanOnce /\ PendingOnce
UpgradeParts ==
    AgentUpgradeTypeOK /\ RequestCmdOK /\ RecoveryOK /\ InboxOK /\ DeviceCmdOK /\ ExeOK /\ ServerParts

----------------------------------------------------------------------------
(* What the operations are built from.                                     *)

\* Plans end; none is created.
PlansEnd ==
    /\ plans' \in [UpgradePlan -> PlanRecord]
    /\ \A p \in UpgradePlan :
          /\ plans'[p].key = plans[p].key
          /\ plans'[p].stage = "unused" <=> plans[p].stage = "unused"
          /\ plans'[p].stage = "pending" => plans[p].stage = "pending"

\* Commands change their status; none is created.
CmdsMove ==
    /\ upgradeCmds' \in [UpgradeCmd -> CmdRecord]
    /\ \A c \in UpgradeCmd :
          /\ upgradeCmds'[c].key = upgradeCmds[c].key
          /\ upgradeCmds'[c].payload = upgradeCmds[c].payload
          /\ upgradeCmds'[c].plan = upgradeCmds[c].plan
          /\ upgradeCmds'[c].status = "unused" <=> upgradeCmds[c].status = "unused"

\* Requests go on; none takes a plan.
RequestsGoOn ==
    /\ requests' \in [UpgradeRequest -> RequestRecord]
    /\ RequestCmdOK'
    /\ \A q \in UpgradeRequest : Planned(q)' =>
          Planned(q) /\ requests'[q].plan = requests[q].plan /\ requests'[q].key = requests[q].key

\* With no new plan, command or taker of a plan the plans and commands agree as before.
LEMMA ServerPartsKeep ==
    ASSUME UpgradeParts, PlansEnd, CmdsMove, RequestsGoOn
    PROVE  ServerParts'
  <1>. USE DEF UpgradeParts, ServerParts
  <1>1. PlannedOK'
    <2>. SUFFICES ASSUME NEW q \in UpgradeRequest, Planned(q)'
                  PROVE  /\ plans'[requests'[q].plan].stage # "unused"
                         /\ plans'[requests'[q].plan].key # NoKey =>
                               plans'[requests'[q].plan].key = requests'[q].key
                         /\ plans'[requests'[q].plan].key = NoKey =>
                               \A r \in UpgradeRequest :
                                  Planned(r)' /\ requests'[r].plan = requests'[q].plan => r = q
      BY DEF PlannedOK
    <2>1. Planned(q) /\ requests'[q].plan = requests[q].plan /\ requests'[q].key = requests[q].key
      BY DEF RequestsGoOn
    <2>2. requests[q].plan \in UpgradePlan
      BY <2>1 DEF Planned, AgentUpgradeTypeOK
    <2>3. /\ plans'[requests[q].plan].key = plans[requests[q].plan].key
          /\ plans'[requests[q].plan].stage = "unused" <=> plans[requests[q].plan].stage = "unused"
      BY <2>2 DEF PlansEnd
    <2>4. \A r \in UpgradeRequest : Planned(r)' => Planned(r) /\ requests'[r].plan = requests[r].plan
      BY DEF RequestsGoOn
    <2>. QED  BY <2>1, <2>3, <2>4 DEF PlannedOK
  <1>2. KeyOnce'
    BY DEF KeyOnce, CmdsMove
  <1>3. \A c \in UpgradeCmd : HasPlan(c)' => HasPlan(c) /\ upgradeCmds'[c].plan = upgradeCmds[c].plan
    BY DEF HasPlan, CmdsMove
  <1>4. CmdPlanOK'
    <2>. SUFFICES ASSUME NEW c \in UpgradeCmd, HasPlan(c)'
                  PROVE  /\ plans'[upgradeCmds'[c].plan].stage # "unused"
                         /\ plans'[upgradeCmds'[c].plan].key # NoKey =>
                               plans'[upgradeCmds'[c].plan].key = upgradeCmds'[c].key
                         /\ plans'[upgradeCmds'[c].plan].key = NoKey =>
                               \A r \in UpgradeRequest : Planned(r)' => requests'[r].plan # upgradeCmds'[c].plan
      BY DEF CmdPlanOK
    <2>1. /\ HasPlan(c) /\ upgradeCmds'[c].plan = upgradeCmds[c].plan
          /\ upgradeCmds'[c].key = upgradeCmds[c].key
      BY <1>3 DEF CmdsMove
    <2>2. upgradeCmds[c].plan \in UpgradePlan
      BY <2>1 DEF HasPlan, AgentUpgradeTypeOK, CmdRecord
    <2>3. /\ plans'[upgradeCmds[c].plan].key = plans[upgradeCmds[c].plan].key
          /\ plans'[upgradeCmds[c].plan].stage = "unused" <=> plans[upgradeCmds[c].plan].stage = "unused"
      BY <2>2 DEF PlansEnd
    <2>4. \A r \in UpgradeRequest : Planned(r)' => Planned(r) /\ requests'[r].plan = requests[r].plan
      BY DEF RequestsGoOn
    <2>. QED  BY <2>1, <2>3, <2>4 DEF CmdPlanOK
  <1>5. PlanOnce'
    BY <1>3 DEF PlanOnce
  <1>6. PendingOnce'
    BY DEF PendingOnce, PlansEnd
  <1>. QED  BY <1>1, <1>2, <1>4, <1>5, <1>6

\* What the device has goes on as it was while the server works.
LEMMA DeviceStill ==
    ASSUME UpgradeParts, UNCHANGED deviceSide,
           \A c \in UpgradeCmd : upgradeCmds[c].status # "unused" =>
              upgradeCmds'[c].status # "unused" /\ upgradeCmds'[c].payload = upgradeCmds[c].payload
    PROVE  DeviceCmdOK' /\ ExeOK'
  <1>1. daemon.pc # "idle" => /\ daemon.cmd \in UpgradeCmd
                              /\ upgradeCmds'[daemon.cmd].status # "unused"
                              /\ upgradeCmds'[daemon.cmd].payload = upgradeCmds[daemon.cmd].payload
    BY DEF UpgradeParts, AgentUpgradeTypeOK, DeviceCmdOK
  <1>2. UNCHANGED <<daemon, ledger, exe, oldExe, runningVersion, deviceUp, exitDue, rollbackLost>>
    BY DEF deviceSide
  <1>3. DeviceCmdOK'
    BY <1>1, <1>2 DEF UpgradeParts, DeviceCmdOK
  <1>4. ExeOK'
    BY <1>1, <1>2 DEF UpgradeParts, ExeOK, BinaryRecoverable
  <1>. QED  BY <1>3, <1>4

\* A step of the server that creates nothing.
LEMMA ServerStepKeeps ==
    ASSUME UpgradeParts, PlansEnd, CmdsMove, RequestsGoOn, RecoveryOK', UNCHANGED deviceSide,
           inbox' \in Seq(UpgradeCmd), InboxOK', connected' \in BOOLEAN,
           deviceFaults' \in 0 .. MaxDeviceFault
    PROVE  UpgradeParts'
  <1>1. ServerParts'
    BY ServerPartsKeep
  <1>2. DeviceCmdOK' /\ ExeOK'
    BY DeviceStill DEF CmdsMove
  <1>3. AgentUpgradeTypeOK'
    <2>1. UNCHANGED <<daemon, ledger, exe, oldExe, runningVersion, deviceUp, exitDue, rollbackLost>>
      BY DEF deviceSide
    <2>. QED  BY <2>1 DEF UpgradeParts, AgentUpgradeTypeOK, PlansEnd, CmdsMove, RequestsGoOn, RequestRecord,
      RecoveryOK, RecoveryRecord
  <1>. QED  BY <1>1, <1>2, <1>3 DEF UpgradeParts, RequestsGoOn

\* The handlers left as they are.
LEMMA RequestsStill ==
    ASSUME UpgradeParts, CmdsMove, UNCHANGED requests
    PROVE  RequestsGoOn
  <1>1. RequestCmdOK'
    BY DEF UpgradeParts, RequestCmdOK, CmdsMove
  <1>2. requests' \in [UpgradeRequest -> RequestRecord]
    BY DEF UpgradeParts, AgentUpgradeTypeOK, RequestRecord
  <1>. QED  BY <1>1, <1>2 DEF RequestsGoOn, Planned

\* The recovery left as it is.
LEMMA RecoveryStill ==
    ASSUME UpgradeParts, CmdsMove, UNCHANGED recovery
    PROVE  RecoveryOK'
  BY DEF UpgradeParts, RecoveryOK, CmdsMove

\* The recovery goes on with the command it has, or ends.
LEMMA RecoveryMoves ==
    ASSUME UpgradeParts, CmdsMove, recovery.pc # "idle",
           \/ recovery' = AtRest
           \/ \E pc \in DispatchPc : recovery' = [recovery EXCEPT !.pc = pc]
    PROVE  RecoveryOK'
  <1>1. CASE recovery' = AtRest
    BY <1>1 DEF RecoveryOK, RecoveryRecord, AtRest
  <1>2. ASSUME NEW pc \in DispatchPc, recovery' = [recovery EXCEPT !.pc = pc] PROVE RecoveryOK'
    BY <1>2 DEF UpgradeParts, RecoveryOK, RecoveryRecord, CmdsMove
  <1>. QED  BY <1>1, <1>2

\* The variables of the device.
DeviceTypeOK ==
    /\ daemon \in DaemonRecord
    /\ daemon.pc # "idle" => daemon.cmd \in UpgradeCmd
    /\ ledger \in LedgerTable
    /\ exe \in Versions \cup {NoFile} /\ oldExe \in Versions \cup {NoFile}
    /\ runningVersion \in Versions
    /\ deviceUp \in BOOLEAN /\ exitDue \in BOOLEAN /\ rollbackLost \in BOOLEAN
    /\ deviceFaults \in 0 .. MaxDeviceFault

\* A step of the device.
LEMMA DeviceStepKeeps ==
    ASSUME UpgradeParts, UNCHANGED <<plans, requests, recovery>>, CmdsMove, inbox' \in Seq(UpgradeCmd), InboxOK',
           connected' \in BOOLEAN, DeviceTypeOK', DeviceCmdOK', ExeOK'
    PROVE  UpgradeParts'
  <1>1. PlansEnd
    BY DEF PlansEnd, UpgradeParts, AgentUpgradeTypeOK
  <1>2. RequestsGoOn
    BY RequestsStill
  <1>3. ServerParts'
    BY <1>1, <1>2, ServerPartsKeep
  <1>4. RecoveryOK'
    BY RecoveryStill
  <1>5. AgentUpgradeTypeOK'
    BY <1>2, <1>4 DEF UpgradeParts, AgentUpgradeTypeOK, PlansEnd, CmdsMove, RequestsGoOn, RequestRecord,
      RecoveryOK, RecoveryRecord, DeviceTypeOK, DaemonRecord, LedgerTable
  <1>. QED  BY <1>2, <1>3, <1>4, <1>5 DEF UpgradeParts, RequestsGoOn

\* The command tables left as they are.
LEMMA CmdsStill ==
    ASSUME UpgradeParts, UNCHANGED upgradeCmds
    PROVE  CmdsMove
  BY DEF UpgradeParts, AgentUpgradeTypeOK, CmdsMove

\* The plans left as they are.
LEMMA PlansStill ==
    ASSUME UpgradeParts, UNCHANGED plans
    PROVE  PlansEnd
  BY DEF UpgradeParts, AgentUpgradeTypeOK, PlansEnd

\* TransitionStage ends a plan or leaves it.
LEMMA TransitionedEffect ==
    ASSUME UpgradeParts, NEW p \in UpgradePlan \cup {NoPlan}, NEW stage \in {"succeeded", "failed"}
    PROVE  /\ Transitioned(plans, p, stage) \in [UpgradePlan -> PlanRecord]
           /\ \A r \in UpgradePlan :
                 /\ Transitioned(plans, p, stage)[r].key = plans[r].key
                 /\ Transitioned(plans, p, stage)[r].stage = "unused" <=> plans[r].stage = "unused"
                 /\ Transitioned(plans, p, stage)[r].stage = "pending" => plans[r].stage = "pending"
  <1>1. plans \in [UpgradePlan -> PlanRecord]
    BY DEF UpgradeParts, AgentUpgradeTypeOK
  <1>2. CASE p # NoPlan /\ plans[p].stage = "pending"
    <2>1. Transitioned(plans, p, stage) = [plans EXCEPT ![p].stage = stage]
      BY <1>2 DEF Transitioned
    <2>. QED  BY <1>1, <1>2, <2>1 DEF PlanRecord
  <1>3. CASE ~(p # NoPlan /\ plans[p].stage = "pending")
    BY <1>1, <1>3 DEF Transitioned
  <1>. QED  BY <1>2, <1>3

\* The count of faults stays within its bound.
LEMMA DeviceFaultOK ==
    ASSUME UpgradeParts, NEW ok \in BOOLEAN, DeviceFault(ok)
    PROVE  deviceFaults' \in 0 .. MaxDeviceFault
  BY AgentUpgradeAssumption DEF UpgradeParts, AgentUpgradeTypeOK, DeviceFault

\* A handler moves on.
LEMMA AdvanceEffect ==
    ASSUME UpgradeParts, NEW q \in UpgradeRequest, NEW r \in RequestRecord, Advance(q, r)
    PROVE  /\ requests' \in [UpgradeRequest -> RequestRecord] /\ requests'[q] = r
           /\ \A x \in UpgradeRequest : x # q => requests'[x] = requests[x]
  BY DEF UpgradeParts, AgentUpgradeTypeOK, RequestRecord, Advance

\* A handler moves on without having taken a plan.
LEMMA AdvanceOn ==
    ASSUME UpgradeParts, CmdsMove, NEW q \in UpgradeRequest, NEW r \in RequestRecord, Advance(q, r),
           ~(r.pc = "planned" /\ r.plan # NoPlan),
           Dispatches(r) => r.cmd \in UpgradeCmd /\ upgradeCmds[r.cmd].status # "unused"
    PROVE  RequestsGoOn
  <1>1. /\ requests' \in [UpgradeRequest -> RequestRecord] /\ requests'[q] = r
        /\ \A x \in UpgradeRequest : x # q => requests'[x] = requests[x]
    BY AdvanceEffect
  <1>2. RequestCmdOK'
    BY <1>1 DEF UpgradeParts, RequestCmdOK, CmdsMove
  <1>3. \A x \in UpgradeRequest : Planned(x)' =>
          Planned(x) /\ requests'[x].plan = requests[x].plan /\ requests'[x].key = requests[x].key
    BY <1>1 DEF Planned
  <1>. QED  BY <1>1, <1>2, <1>3 DEF RequestsGoOn

----------------------------------------------------------------------------
(* The operations of the server.                                           *)

\* A request without a plan is well formed.
LEMMA IdleRequestOK ==
    /\ IdleRequest \in RequestRecord /\ AnsweredRequest \in RequestRecord
    /\ IdleRequest.pc = "idle" /\ AnsweredRequest.pc = "answered"
    /\ ~Dispatches(IdleRequest) /\ ~Dispatches(AnsweredRequest)
    /\ NoPayload \in Payload
  BY AgentUpgradeAssumption
     DEF IdleRequest, AnsweredRequest, RequestRecord, Dispatches, DispatchPc, NoPayload, Payload

\* A request takes a plan: one of its key, or a new one that no other request and
\* no command under way has.
LEMMA TakePlanKeeps ==
    ASSUME UpgradeParts, NEW q \in UpgradeRequest, NEW r \in RequestRecord, NEW p \in UpgradePlan,
           r.pc = "planned", r.plan = p, Advance(q, r), requests[q].pc = "idle",
           UNCHANGED <<upgradeCmds, recovery, connected, inbox, deviceFaults>>, UNCHANGED deviceSide,
           plans' \in [UpgradePlan -> PlanRecord], \A x \in UpgradePlan : x # p => plans'[x] = plans[x],
           \/ plans'[p] = plans[p] /\ plans[p].stage # "unused" /\ plans[p].key = r.key /\ r.key # NoKey
           \/ /\ plans[p].stage = "unused" /\ \A x \in UpgradePlan : plans[x].stage # "pending"
              /\ plans'[p].stage = "pending" /\ plans'[p].key \in {r.key, NoKey}
    PROVE  UpgradeParts'
  <1>. USE DEF UpgradeParts, ServerParts
  <1>0. NoPlan \notin UpgradePlan
    BY AgentUpgradeAssumption
  <1>1. /\ requests' \in [UpgradeRequest -> RequestRecord] /\ requests'[q] = r
        /\ \A x \in UpgradeRequest : x # q => requests'[x] = requests[x]
    BY AdvanceEffect
  <1>2. /\ ~Planned(q) /\ Planned(q)'
        /\ \A x \in UpgradeRequest : x # q => (Planned(x)' <=> Planned(x))
    BY <1>0, <1>1 DEF Planned
  <1>3. \A x \in UpgradeRequest : Planned(x) => requests[x].plan \in UpgradePlan
    BY DEF Planned, AgentUpgradeTypeOK
  <1>4. plans[p].stage = "unused" => \A x \in UpgradeRequest : Planned(x) => requests[x].plan # p
    BY DEF PlannedOK
  <1>5. \A x \in UpgradeRequest : Planned(x) => plans'[requests[x].plan] = plans[requests[x].plan]
    BY <1>3, <1>4
  <1>6. \A x \in UpgradeRequest : Planned(x) /\ plans[requests[x].plan].key = NoKey => requests[x].plan # p
    BY <1>4
  <1>7. PlannedOK'
    <2>1. SUFFICES ASSUME NEW x \in UpgradeRequest, Planned(x)'
                   PROVE  /\ plans'[requests'[x].plan].stage # "unused"
                          /\ plans'[requests'[x].plan].key # NoKey =>
                                plans'[requests'[x].plan].key = requests'[x].key
                          /\ plans'[requests'[x].plan].key = NoKey =>
                                \A y \in UpgradeRequest :
                                   Planned(y)' /\ requests'[y].plan = requests'[x].plan => y = x
      BY DEF PlannedOK
    <2>2. CASE x = q
      <3>1. plans'[p].stage # "unused" /\ (plans'[p].key # NoKey => plans'[p].key = r.key)
        OBVIOUS
      <3>2. plans'[p].key = NoKey => plans[p].stage = "unused"
        OBVIOUS
      <3>3. plans'[p].key = NoKey => \A y \in UpgradeRequest : Planned(y)' /\ requests'[y].plan = p => y = q
        BY <1>1, <1>2, <1>4, <3>2
      <3>. QED  BY <1>1, <2>2, <3>1, <3>3
    <2>3. CASE x # q
      <3>1. Planned(x) /\ requests'[x] = requests[x] /\ plans'[requests[x].plan] = plans[requests[x].plan]
        BY <1>1, <1>2, <1>5, <2>1, <2>3
      <3>2. plans[requests[x].plan].key = NoKey =>
               \A y \in UpgradeRequest : Planned(y)' /\ requests'[y].plan = requests[x].plan => y = x
        BY <1>1, <1>2, <1>6, <2>3, <3>1 DEF PlannedOK
      <3>. QED  BY <3>1, <3>2 DEF PlannedOK
    <2>. QED  BY <2>2, <2>3
  <1>8. KeyOnce' /\ PlanOnce'
    BY DEF KeyOnce, PlanOnce, HasPlan
  <1>9. CmdPlanOK'
    <2>1. SUFFICES ASSUME NEW c \in UpgradeCmd, HasPlan(c)
                   PROVE  /\ plans'[upgradeCmds[c].plan].stage # "unused"
                          /\ plans'[upgradeCmds[c].plan].key # NoKey =>
                                plans'[upgradeCmds[c].plan].key = upgradeCmds[c].key
                          /\ plans'[upgradeCmds[c].plan].key = NoKey =>
                                \A x \in UpgradeRequest : Planned(x)' => requests'[x].plan # upgradeCmds[c].plan
      BY DEF CmdPlanOK, HasPlan
    <2>2. upgradeCmds[c].plan \in UpgradePlan /\ plans[upgradeCmds[c].plan].stage # "unused"
      BY <2>1 DEF HasPlan, CmdPlanOK, AgentUpgradeTypeOK, CmdRecord
    <2>3. plans'[upgradeCmds[c].plan] = plans[upgradeCmds[c].plan]
      BY <2>2
    <2>4. plans[upgradeCmds[c].plan].key = NoKey => upgradeCmds[c].plan # p
      BY <2>2
    <2>5. plans[upgradeCmds[c].plan].key = NoKey =>
             \A x \in UpgradeRequest : Planned(x)' => requests'[x].plan # upgradeCmds[c].plan
      BY <1>1, <1>2, <2>1, <2>4 DEF CmdPlanOK
    <2>. QED  BY <2>1, <2>3, <2>5 DEF CmdPlanOK
  <1>10. PendingOnce'
    BY DEF PendingOnce
  <1>11. RequestCmdOK' /\ InboxOK' /\ RecoveryOK'
    BY <1>1 DEF RequestCmdOK, Dispatches, DispatchPc, InboxOK, RecoveryOK
  <1>12. DeviceCmdOK' /\ ExeOK'
    BY DeviceStill
  <1>13. AgentUpgradeTypeOK'
    <2>1. UNCHANGED <<daemon, ledger, exe, oldExe, runningVersion, deviceUp, exitDue, rollbackLost>>
      BY DEF deviceSide
    <2>. QED  BY <1>1, <2>1 DEF AgentUpgradeTypeOK, RequestRecord
  <1>. QED  BY <1>7, <1>8, <1>9, <1>10, <1>11, <1>12, <1>13

\* A request that goes on, or ends, with the plans and commands as they are or moved on.
LEMMA HandlerKeeps ==
    ASSUME UpgradeParts, NEW q \in UpgradeRequest, NEW r \in RequestRecord, Advance(q, r),
           ~(r.pc = "planned" /\ r.plan # NoPlan),
           Dispatches(r) => r.cmd \in UpgradeCmd /\ upgradeCmds[r.cmd].status # "unused",
           PlansEnd, CmdsMove, UNCHANGED recovery, UNCHANGED deviceSide, inbox' \in Seq(UpgradeCmd), InboxOK',
           connected' \in BOOLEAN, deviceFaults' \in 0 .. MaxDeviceFault
    PROVE  UpgradeParts'
  BY AdvanceOn, RecoveryStill, ServerStepKeeps

\* The stream left as it is, the commands moved on.
LEMMA InboxStill ==
    ASSUME UpgradeParts, CmdsMove, UNCHANGED <<connected, inbox>>
    PROVE  inbox' \in Seq(UpgradeCmd) /\ InboxOK' /\ connected' \in BOOLEAN
  <1>1. inbox \in Seq(UpgradeCmd) /\ connected \in BOOLEAN
    BY DEF UpgradeParts, AgentUpgradeTypeOK
  <1>2. \A i \in 1 .. Len(inbox) : inbox[i] \in UpgradeCmd
    BY <1>1
  <1>3. InboxOK'
    BY <1>2 DEF UpgradeParts, InboxOK, CmdsMove
  <1>. QED  BY <1>1, <1>3

\* upgradeDevice and upgradeAll up to CreatePlan keep the parts.
LEMMA RequestUpgradeKeeps ==
    ASSUME UpgradeParts, NEW q \in UpgradeRequest, NEW batch \in BOOLEAN, NEW key \in IdemKey \cup {NoKey},
           NEW payload \in Payload, RequestUpgrade(q, batch, key, payload)
    PROVE  UpgradeParts'
  <1>1. PICK r : r = [IdleRequest EXCEPT !.batch = batch, !.key = key, !.payload = payload]
    OBVIOUS
  <1>2. r \in RequestRecord /\ r.key = key /\ r.pc = "idle"
    BY <1>1, IdleRequestOK DEF RequestRecord
  <1>3. /\ requests[q].pc = "idle" /\ UNCHANGED <<upgradeCmds, recovery, connected, inbox, deviceFaults>>
        /\ UNCHANGED deviceSide
    BY DEF RequestUpgrade, Arrives, IsNew
  <1>4. /\ CmdsMove /\ inbox' \in Seq(UpgradeCmd) /\ InboxOK' /\ connected' \in BOOLEAN
        /\ deviceFaults' \in 0 .. MaxDeviceFault
    BY <1>3, CmdsStill, InboxStill DEF UpgradeParts, AgentUpgradeTypeOK
  <1>5. ASSUME UNCHANGED plans, Advance(q, AnsweredRequest) PROVE UpgradeParts'
    BY <1>3, <1>4, <1>5, IdleRequestOK, PlansStill, HandlerKeeps
  <1>6. ASSUME NEW p \in WithKey(key), UNCHANGED plans,
               Advance(q, IF plans[p].payload = payload THEN [r EXCEPT !.pc = "planned", !.plan = p]
                          ELSE AnsweredRequest)
        PROVE  UpgradeParts'
    <2>1. p \in UpgradePlan /\ key # NoKey /\ plans[p].stage # "unused" /\ plans[p].key = key
      BY <1>6 DEF WithKey
    <2>2. CASE plans[p].payload = payload
      <3>1. PICK s : s = [r EXCEPT !.pc = "planned", !.plan = p]
        OBVIOUS
      <3>2. s \in RequestRecord /\ s.pc = "planned" /\ s.plan = p /\ s.key = key
        BY <1>2, <2>1, <3>1 DEF RequestRecord
      <3>3. Advance(q, s)
        BY <1>6, <2>2, <3>1
      <3>4. plans' \in [UpgradePlan -> PlanRecord] /\ \A x \in UpgradePlan : plans'[x] = plans[x]
        BY <1>6 DEF UpgradeParts, AgentUpgradeTypeOK
      <3>. QED  BY <1>3, <2>1, <3>2, <3>3, <3>4, TakePlanKeeps
    <2>3. CASE plans[p].payload # payload
      BY <1>5, <1>6, <2>3
    <2>. QED  BY <2>2, <2>3
  <1>7. ASSUME NEW p \in UpgradePlan, ~PlanInProgress,
               IsNew(p, {x \in UpgradePlan : plans[x].stage = "unused"}),
               plans' = [plans EXCEPT ![p] = [stage |-> "pending", payload |-> payload,
                                              key |-> IF batch THEN NoKey ELSE key]],
               Advance(q, [r EXCEPT !.pc = "planned", !.plan = p])
        PROVE  UpgradeParts'
    <2>1. PICK s : s = [r EXCEPT !.pc = "planned", !.plan = p]
      OBVIOUS
    <2>2. s \in RequestRecord /\ s.pc = "planned" /\ s.plan = p /\ s.key = key /\ Advance(q, s)
      BY <1>2, <1>7, <2>1 DEF RequestRecord
    <2>3. plans[p].stage = "unused" /\ \A x \in UpgradePlan : plans[x].stage # "pending"
      BY <1>7 DEF IsNew, PlanInProgress
    <2>4. /\ plans' \in [UpgradePlan -> PlanRecord] /\ \A x \in UpgradePlan : x # p => plans'[x] = plans[x]
          /\ plans'[p].stage = "pending" /\ plans'[p].key \in {key, NoKey}
      BY <1>7 DEF UpgradeParts, AgentUpgradeTypeOK, PlanRecord
    <2>. QED  BY <1>3, <2>2, <2>3, <2>4, TakePlanKeeps
  <1>. QED  BY <1>1, <1>5, <1>6, <1>7 DEF RequestUpgrade

\* The batch of the old endpoint keeps the parts.
LEMMA RequestUnplannedKeeps ==
    ASSUME UpgradeParts, NEW q \in UpgradeRequest, NEW key \in IdemKey \cup {NoKey},
           NEW payload \in Payload, RequestUnplanned(q, key, payload)
    PROVE  UpgradeParts'
  <1>1. PICK r : r = [IdleRequest EXCEPT !.pc = "planned", !.batch = TRUE, !.key = key, !.payload = payload]
    OBVIOUS
  <1>2. r \in RequestRecord /\ r.plan = NoPlan /\ r.pc = "planned"
    BY <1>1, IdleRequestOK DEF RequestRecord, IdleRequest
  <1>3. /\ Advance(q, r) /\ ~Dispatches(r)
        /\ UNCHANGED <<plans, upgradeCmds, recovery, connected, inbox, deviceFaults>>
        /\ UNCHANGED deviceSide
    BY <1>1, <1>2 DEF RequestUnplanned, Dispatches, DispatchPc
  <1>4. /\ PlansEnd /\ CmdsMove /\ inbox' \in Seq(UpgradeCmd) /\ InboxOK' /\ connected' \in BOOLEAN
        /\ deviceFaults' \in 0 .. MaxDeviceFault
    BY <1>3, PlansStill, CmdsStill, InboxStill DEF UpgradeParts, AgentUpgradeTypeOK
  <1>. QED  BY <1>2, <1>3, <1>4, HandlerKeeps

\* A command is created: it takes the place of its request, and no other command has the
\* same plan or key.
LEMMA NewCommandKeeps ==
    ASSUME UpgradeParts, NEW q \in UpgradeRequest, NEW c \in UpgradeCmd, requests[q].pc = "planned",
           Created(requests[q].key) = {}, upgradeCmds[c].status = "unused",
           upgradeCmds' = [upgradeCmds EXCEPT ![c] =
              [status |-> "queued", key |-> requests[q].key,
               payload |-> requests[q].payload, plan |-> requests[q].plan]],
           Advance(q, [requests[q] EXCEPT !.pc = "created", !.cmd = c]),
           UNCHANGED <<plans, recovery, connected, inbox>>, UNCHANGED deviceSide,
           deviceFaults' \in 0 .. MaxDeviceFault
    PROVE  UpgradeParts'
  <1>. USE DEF UpgradeParts, ServerParts
  <1>1. PICK r : r = requests[q]
    OBVIOUS
  <1>2. r \in RequestRecord
    BY <1>1 DEF AgentUpgradeTypeOK, RequestRecord
  <1>3. PICK s : s = [r EXCEPT !.pc = "created", !.cmd = c]
    OBVIOUS
  <1>4. /\ s \in RequestRecord /\ s.pc = "created" /\ s.cmd = c /\ Advance(q, s)
    BY <1>1, <1>2, <1>3 DEF RequestRecord
  <1>5. /\ requests' \in [UpgradeRequest -> RequestRecord] /\ requests'[q] = s
        /\ \A x \in UpgradeRequest : x # q => requests'[x] = requests[x]
    BY <1>4, AdvanceEffect
  <1>6. /\ upgradeCmds' \in [UpgradeCmd -> CmdRecord]
        /\ upgradeCmds'[c].status = "queued" /\ upgradeCmds'[c].key = r.key
        /\ upgradeCmds'[c].plan = r.plan
        /\ \A d \in UpgradeCmd : d # c => upgradeCmds'[d] = upgradeCmds[d]
    BY <1>1, <1>2 DEF AgentUpgradeTypeOK, RequestRecord, CmdRecord, CmdStatus
  <1>7. /\ ~Planned(q)' /\ \A x \in UpgradeRequest : x # q => (Planned(x)' <=> Planned(x))
        /\ (r.plan # NoPlan => Planned(q))
    BY <1>1, <1>4, <1>5 DEF Planned
  <1>8. PlannedOK'
    <2>1. SUFFICES ASSUME NEW x \in UpgradeRequest, Planned(x)'
                   PROVE  /\ plans[requests'[x].plan].stage # "unused"
                          /\ plans[requests'[x].plan].key # NoKey =>
                                plans[requests'[x].plan].key = requests'[x].key
                          /\ plans[requests'[x].plan].key = NoKey =>
                                \A y \in UpgradeRequest :
                                   Planned(y)' /\ requests'[y].plan = requests'[x].plan => y = x
      BY DEF PlannedOK
    <2>2. x # q /\ Planned(x) /\ requests'[x] = requests[x]
      BY <1>5, <1>7, <2>1
    <2>3. \A y \in UpgradeRequest : Planned(y)' => Planned(y) /\ requests'[y] = requests[y]
      BY <1>5, <1>7
    <2>. QED  BY <2>2, <2>3 DEF PlannedOK
  <1>9. \A d \in UpgradeCmd : upgradeCmds[d].status # "unused" /\ r.key # NoKey => upgradeCmds[d].key # r.key
    BY <1>1 DEF Created
  <1>10. KeyOnce'
    BY <1>6, <1>9 DEF KeyOnce
  <1>11. r.plan # NoPlan => /\ plans[r.plan].stage # "unused"
                            /\ plans[r.plan].key # NoKey => plans[r.plan].key = r.key
                            /\ plans[r.plan].key = NoKey =>
                                 \A x \in UpgradeRequest : Planned(x) /\ requests[x].plan = r.plan => x = q
    BY <1>1, <1>7 DEF PlannedOK
  <1>12. \A d \in UpgradeCmd : d # c => (HasPlan(d)' <=> HasPlan(d))
    BY <1>6 DEF HasPlan
  <1>13. CmdPlanOK'
    <2>1. SUFFICES ASSUME NEW d \in UpgradeCmd, HasPlan(d)'
                   PROVE  /\ plans[upgradeCmds'[d].plan].stage # "unused"
                          /\ plans[upgradeCmds'[d].plan].key # NoKey =>
                                plans[upgradeCmds'[d].plan].key = upgradeCmds'[d].key
                          /\ plans[upgradeCmds'[d].plan].key = NoKey =>
                                \A x \in UpgradeRequest : Planned(x)' => requests'[x].plan # upgradeCmds'[d].plan
      BY DEF CmdPlanOK
    <2>2. CASE d = c
      <3>1. r.plan # NoPlan
        BY <1>6, <2>1, <2>2 DEF HasPlan
      <3>2. plans[r.plan].key = NoKey => \A x \in UpgradeRequest : Planned(x)' => requests'[x].plan # r.plan
        BY <1>5, <1>7, <1>11, <3>1
      <3>. QED  BY <1>6, <1>11, <2>2, <3>1, <3>2
    <2>3. CASE d # c
      <3>1. HasPlan(d) /\ upgradeCmds'[d] = upgradeCmds[d]
        BY <1>6, <1>12, <2>1, <2>3
      <3>2. \A x \in UpgradeRequest : Planned(x)' => Planned(x) /\ requests'[x] = requests[x]
        BY <1>5, <1>7
      <3>. QED  BY <3>1, <3>2 DEF CmdPlanOK
    <2>. QED  BY <2>2, <2>3
  <1>14. \A d \in UpgradeCmd : HasPlan(d) /\ r.plan # NoPlan => upgradeCmds[d].plan # r.plan
    <2>1. SUFFICES ASSUME NEW d \in UpgradeCmd, HasPlan(d), r.plan # NoPlan, upgradeCmds[d].plan = r.plan
                   PROVE  FALSE
      OBVIOUS
    <2>2. Planned(q) /\ requests[q].plan = r.plan
      BY <1>1, <1>7, <2>1
    <2>3. plans[r.plan].key # NoKey
      BY <2>1, <2>2 DEF CmdPlanOK
    <2>4. upgradeCmds[d].key = r.key /\ r.key # NoKey
      BY <1>11, <2>1, <2>3 DEF CmdPlanOK
    <2>5. upgradeCmds[d].status # "unused"
      BY <2>1 DEF HasPlan
    <2>. QED  BY <1>9, <2>4, <2>5
  <1>15. PlanOnce'
    <2>1. HasPlan(c)' => upgradeCmds'[c].plan = r.plan /\ r.plan # NoPlan
      BY <1>6 DEF HasPlan
    <2>2. \A d \in UpgradeCmd : d # c /\ HasPlan(d)' => HasPlan(d) /\ upgradeCmds'[d].plan = upgradeCmds[d].plan
      BY <1>6, <1>12
    <2>. QED  BY <1>14, <2>1, <2>2 DEF PlanOnce
  <1>16. PendingOnce'
    BY DEF PendingOnce
  <1>17. RequestCmdOK' /\ RecoveryOK'
    BY <1>4, <1>5, <1>6 DEF RequestCmdOK, RecoveryOK
  <1>18. InboxOK'
    <2>1. \A i \in 1 .. Len(inbox) : inbox[i] \in UpgradeCmd
      BY DEF AgentUpgradeTypeOK
    <2>. QED  BY <1>6, <2>1 DEF InboxOK
  <1>19. DeviceCmdOK' /\ ExeOK'
    BY <1>6, DeviceStill
  <1>20. AgentUpgradeTypeOK'
    <2>1. UNCHANGED <<daemon, ledger, exe, oldExe, runningVersion, deviceUp, exitDue, rollbackLost>>
      BY DEF deviceSide
    <2>. QED  BY <1>5, <1>6, <2>1 DEF AgentUpgradeTypeOK, RequestRecord
  <1>. QED  BY <1>8, <1>10, <1>13, <1>15, <1>16, <1>17, <1>18, <1>19, <1>20

\* The status of a command moved on.
LEMMA StatusMoves ==
    ASSUME UpgradeParts, NEW c \in UpgradeCmd, upgradeCmds[c].status # "unused",
           NEW status \in CmdStatus \ {"unused"}, MoveCmd(c, status)
    PROVE  CmdsMove
  <1>1. upgradeCmds \in [UpgradeCmd -> CmdRecord]
    BY DEF UpgradeParts, AgentUpgradeTypeOK
  <1>2. /\ upgradeCmds' \in [UpgradeCmd -> CmdRecord] /\ upgradeCmds'[c].status = status
        /\ upgradeCmds'[c].key = upgradeCmds[c].key /\ upgradeCmds'[c].plan = upgradeCmds[c].plan
        /\ upgradeCmds'[c].payload = upgradeCmds[c].payload
        /\ \A d \in UpgradeCmd : d # c => upgradeCmds'[d] = upgradeCmds[d]
    BY <1>1 DEF CmdRecord, MoveCmd
  <1>. QED  BY <1>2 DEF CmdsMove

\* A handler that gives up leaves the commands and ends its plan or leaves it.
LEMMA GiveUpKeeps ==
    ASSUME UpgradeParts, NEW q \in UpgradeRequest, GiveUp(q), UNCHANGED <<recovery, connected, inbox>>,
           UNCHANGED deviceSide, deviceFaults' \in 0 .. MaxDeviceFault
    PROVE  UpgradeParts'
  <1>1. /\ UNCHANGED upgradeCmds /\ Advance(q, AnsweredRequest)
        /\ plans' = IF requests[q].batch THEN Transitioned(plans, requests[q].plan, "failed") ELSE plans
    BY DEF GiveUp
  <1>2. requests[q].plan \in UpgradePlan \cup {NoPlan}
    BY DEF UpgradeParts, AgentUpgradeTypeOK
  <1>3. PlansEnd
    <2>1. CASE requests[q].batch
      BY <1>1, <1>2, <2>1, TransitionedEffect DEF PlansEnd
    <2>2. CASE ~requests[q].batch
      BY <1>1, <2>2, PlansStill
    <2>. QED  BY <2>1, <2>2
  <1>4. CmdsMove /\ inbox' \in Seq(UpgradeCmd) /\ InboxOK' /\ connected' \in BOOLEAN
    BY <1>1, CmdsStill, InboxStill
  <1>. QED  BY <1>1, <1>3, <1>4, IdleRequestOK, HandlerKeeps

\* The creation of a command, or its refusal, keeps the parts.
LEMMA CreateCommandKeeps ==
    ASSUME UpgradeParts, NEW q \in UpgradeRequest, NEW ok \in BOOLEAN, CreateCommand(q, ok)
    PROVE  UpgradeParts'
  <1>1. /\ requests[q].pc = "planned" /\ UNCHANGED <<recovery, connected, inbox>>
        /\ UNCHANGED deviceSide /\ DeviceFault(ok)
    BY DEF CreateCommand
  <1>2. deviceFaults' \in 0 .. MaxDeviceFault
    BY <1>1, DeviceFaultOK
  <1>3. ASSUME NEW c \in UpgradeCmd, Created(requests[q].key) = {},
               IsNew(c, {x \in UpgradeCmd : upgradeCmds[x].status = "unused"}),
               upgradeCmds' = [upgradeCmds EXCEPT ![c] =
                  [status |-> "queued", key |-> requests[q].key,
                   payload |-> requests[q].payload, plan |-> requests[q].plan]],
               Advance(q, [requests[q] EXCEPT !.pc = "created", !.cmd = c]), UNCHANGED plans
        PROVE  UpgradeParts'
    <2>1. upgradeCmds[c].status = "unused"
      BY <1>3 DEF IsNew
    <2>. QED  BY <1>1, <1>2, <1>3, <2>1, NewCommandKeeps
  <1>4. \/ GiveUp(q)
        \/ \E c \in UpgradeCmd :
             /\ Created(requests[q].key) = {}
             /\ IsNew(c, {x \in UpgradeCmd : upgradeCmds[x].status = "unused"})
             /\ upgradeCmds' = [upgradeCmds EXCEPT ![c] =
                   [status |-> "queued", key |-> requests[q].key,
                    payload |-> requests[q].payload, plan |-> requests[q].plan]]
             /\ Advance(q, [requests[q] EXCEPT !.pc = "created", !.cmd = c]) /\ UNCHANGED plans
    BY DEF CreateCommand
  <1>. QED  BY <1>1, <1>2, <1>3, <1>4, GiveUpKeeps

\* The next step of a handler that dispatches its command.
LEMMA NextDispatch ==
    ASSUME UpgradeParts, NEW q \in UpgradeRequest, Dispatches(requests[q]), NEW pc \in DispatchPc,
           NEW r, r = [requests[q] EXCEPT !.pc = pc]
    PROVE  /\ r \in RequestRecord /\ ~(r.pc = "planned" /\ r.plan # NoPlan)
           /\ r.cmd \in UpgradeCmd /\ upgradeCmds[r.cmd].status # "unused" /\ r.cmd = requests[q].cmd
  <1>1. requests[q] \in RequestRecord
    BY DEF UpgradeParts, AgentUpgradeTypeOK, RequestRecord
  <1>2. requests[q].cmd \in UpgradeCmd /\ upgradeCmds[requests[q].cmd].status # "unused"
    BY DEF UpgradeParts, RequestCmdOK
  <1>. QED  BY <1>1, <1>2 DEF RequestRecord, DispatchPc

\* StartDispatch keeps the parts.
LEMMA StartDispatchKeeps ==
    ASSUME UpgradeParts, NEW q \in UpgradeRequest, NEW ok \in BOOLEAN, StartDispatch(q, ok)
    PROVE  UpgradeParts'
  <1>1. /\ requests[q].pc = "created" /\ UNCHANGED <<recovery, connected, inbox>>
        /\ UNCHANGED deviceSide /\ DeviceFault(ok)
    BY DEF StartDispatch
  <1>2. deviceFaults' \in 0 .. MaxDeviceFault
    BY <1>1, DeviceFaultOK
  <1>3. ASSUME MoveCmd(requests[q].cmd, "dispatching"), UNCHANGED plans,
               Advance(q, [requests[q] EXCEPT !.pc = "prepared"])
        PROVE  UpgradeParts'
    <2>1. PICK r : r = [requests[q] EXCEPT !.pc = "prepared"]
      OBVIOUS
    <2>2. /\ r \in RequestRecord /\ ~(r.pc = "planned" /\ r.plan # NoPlan)
          /\ r.cmd \in UpgradeCmd /\ upgradeCmds[r.cmd].status # "unused" /\ r.cmd = requests[q].cmd
      BY <1>1, <2>1, NextDispatch DEF Dispatches, DispatchPc
    <2>3. CmdsMove
      BY <1>3, <2>2, StatusMoves DEF CmdStatus
    <2>4. PlansEnd /\ inbox' \in Seq(UpgradeCmd) /\ InboxOK' /\ connected' \in BOOLEAN
      BY <1>1, <1>3, <2>3, PlansStill, InboxStill
    <2>. QED  BY <1>1, <1>2, <1>3, <2>1, <2>2, <2>3, <2>4, HandlerKeeps
  <1>. QED  BY <1>1, <1>2, <1>3, GiveUpKeeps DEF StartDispatch

\* A published command that exists is well placed on the stream.
LEMMA PublishEffect ==
    ASSUME UpgradeParts, NEW c \in UpgradeCmd, upgradeCmds[c].status # "unused", Publish(c),
           UNCHANGED <<upgradeCmds, connected>>
    PROVE  inbox' \in Seq(UpgradeCmd) /\ InboxOK' /\ connected' \in BOOLEAN /\ CmdsMove
  <1>1. inbox \in Seq(UpgradeCmd) /\ connected \in BOOLEAN
    BY DEF UpgradeParts, AgentUpgradeTypeOK
  <1>2. \A i \in 1 .. Len(inbox) : inbox[i] \in UpgradeCmd /\ upgradeCmds'[inbox[i]].status # "unused"
    BY <1>1 DEF UpgradeParts, InboxOK
  <1>3. inbox' \in Seq(UpgradeCmd) /\ InboxOK'
    <2>1. CASE connected
      <3>1. /\ inbox' \in Seq(UpgradeCmd) /\ Len(inbox') = Len(inbox) + 1
            /\ \A i \in 1 .. Len(inbox') : inbox'[i] = IF i <= Len(inbox) THEN inbox[i] ELSE c
        BY <1>1, <2>1 DEF Publish
      <3>. QED  BY <1>1, <1>2, <3>1 DEF InboxOK
    <2>2. CASE ~connected
      BY <1>1, <1>2, <2>2 DEF InboxOK, Publish
    <2>. QED  BY <2>1, <2>2
  <1>. QED  BY <1>1, <1>3, CmdsStill

\* Publish keeps the parts.
LEMMA PublishCommandKeeps ==
    ASSUME UpgradeParts, NEW q \in UpgradeRequest, PublishCommand(q)
    PROVE  UpgradeParts'
  <1>1. PICK r : r = [requests[q] EXCEPT !.pc = IF connected THEN "heard" ELSE "missed"]
    OBVIOUS
  <1>2. /\ requests[q].pc = "prepared" /\ Publish(requests[q].cmd) /\ Advance(q, r)
        /\ UNCHANGED <<plans, upgradeCmds, recovery, connected, deviceFaults>> /\ UNCHANGED deviceSide
    BY <1>1 DEF PublishCommand
  <1>3. /\ r \in RequestRecord /\ ~(r.pc = "planned" /\ r.plan # NoPlan)
        /\ r.cmd \in UpgradeCmd /\ upgradeCmds[r.cmd].status # "unused" /\ r.cmd = requests[q].cmd
    BY <1>1, <1>2, NextDispatch DEF Dispatches, DispatchPc
  <1>4. inbox' \in Seq(UpgradeCmd) /\ InboxOK' /\ connected' \in BOOLEAN /\ CmdsMove
    BY <1>2, <1>3, PublishEffect
  <1>5. PlansEnd /\ deviceFaults' \in 0 .. MaxDeviceFault
    BY <1>2, PlansStill DEF UpgradeParts, AgentUpgradeTypeOK
  <1>. QED  BY <1>2, <1>3, <1>4, <1>5, HandlerKeeps

\* What is noted of a dispatch.
LEMMA FinishDispatchEffect ==
    ASSUME UpgradeParts, NEW c \in UpgradeCmd, NEW pc, NEW ok \in BOOLEAN,
           FinishDispatch(c, pc, ok), UNCHANGED <<connected, inbox>>
    PROVE  /\ CmdsMove /\ inbox' \in Seq(UpgradeCmd) /\ InboxOK' /\ connected' \in BOOLEAN
           /\ deviceFaults' \in 0 .. MaxDeviceFault
  <1>1. CmdsMove
    <2>1. CASE upgradeCmds[c].status = "dispatching" /\ ok
      <3>1. MoveCmd(c, IF pc = "heard" THEN "dispatched" ELSE "queued")
        BY <2>1 DEF FinishDispatch
      <3>. QED  BY <2>1, <3>1, StatusMoves DEF CmdStatus
    <2>2. CASE ~(upgradeCmds[c].status = "dispatching" /\ ok)
      BY <2>2, CmdsStill DEF FinishDispatch
    <2>. QED  BY <2>1, <2>2
  <1>2. deviceFaults' \in 0 .. MaxDeviceFault
    BY DeviceFaultOK DEF FinishDispatch
  <1>. QED  BY <1>1, <1>2, InboxStill

\* finishDispatch of an event that was heard keeps the parts.
LEMMA FinishHeardKeeps ==
    ASSUME UpgradeParts, NEW q \in UpgradeRequest, NEW ok \in BOOLEAN, FinishHeard(q, ok)
    PROVE  UpgradeParts'
  <1>1. /\ requests[q].pc = "heard" /\ FinishDispatch(requests[q].cmd, "heard", ok)
        /\ plans' = IF ~requests[q].batch /\ upgradeCmds[requests[q].cmd].status = "failed"
                    THEN Transitioned(plans, requests[q].plan, "failed") ELSE plans
        /\ Advance(q, AnsweredRequest) /\ UNCHANGED <<recovery, connected, inbox>>
        /\ UNCHANGED deviceSide
    BY DEF FinishHeard
  <1>2. requests[q].cmd \in UpgradeCmd /\ requests[q].plan \in UpgradePlan \cup {NoPlan}
    BY <1>1 DEF UpgradeParts, RequestCmdOK, Dispatches, DispatchPc, AgentUpgradeTypeOK
  <1>3. /\ CmdsMove /\ inbox' \in Seq(UpgradeCmd) /\ InboxOK' /\ connected' \in BOOLEAN
        /\ deviceFaults' \in 0 .. MaxDeviceFault
    BY <1>1, <1>2, FinishDispatchEffect
  <1>4. PlansEnd
    <2>1. CASE ~requests[q].batch /\ upgradeCmds[requests[q].cmd].status = "failed"
      BY <1>1, <1>2, <2>1, TransitionedEffect DEF PlansEnd
    <2>2. CASE ~(~requests[q].batch /\ upgradeCmds[requests[q].cmd].status = "failed")
      BY <1>1, <2>2, PlansStill
    <2>. QED  BY <2>1, <2>2
  <1>. QED  BY <1>1, <1>3, <1>4, IdleRequestOK, HandlerKeeps

\* finishDispatch of an event that was missed keeps the parts.
LEMMA FinishMissedKeeps ==
    ASSUME UpgradeParts, NEW q \in UpgradeRequest, NEW ok \in BOOLEAN, FinishMissed(q, ok)
    PROVE  UpgradeParts'
  <1>1. PICK r : r = [requests[q] EXCEPT !.pc = "unheard",
                        !.cmd = IF ok /\ Dispatchable(requests[q].cmd) THEN requests[q].cmd ELSE NoCmd]
    OBVIOUS
  <1>2. /\ requests[q].pc = "missed" /\ FinishDispatch(requests[q].cmd, "missed", ok)
        /\ Advance(q, r) /\ UNCHANGED <<plans, recovery, connected, inbox>> /\ UNCHANGED deviceSide
    BY <1>1 DEF FinishMissed
  <1>3. requests[q].cmd \in UpgradeCmd /\ requests[q] \in RequestRecord
    BY <1>2 DEF UpgradeParts, RequestCmdOK, Dispatches, DispatchPc, AgentUpgradeTypeOK, RequestRecord
  <1>4. r \in RequestRecord /\ r.pc = "unheard"
    BY <1>1, <1>3 DEF RequestRecord
  <1>5. ~Dispatches(r)
    BY <1>4 DEF Dispatches, DispatchPc
  <1>6. /\ CmdsMove /\ inbox' \in Seq(UpgradeCmd) /\ InboxOK' /\ connected' \in BOOLEAN
        /\ deviceFaults' \in 0 .. MaxDeviceFault
    BY <1>2, <1>3, FinishDispatchEffect
  <1>7. PlansEnd
    BY <1>2, PlansStill
  <1>. QED  BY <1>2, <1>4, <1>5, <1>6, <1>7, HandlerKeeps

\* A command that nobody heard of keeps the parts.
LEMMA WithdrawCommandKeeps ==
    ASSUME UpgradeParts, NEW q \in UpgradeRequest, WithdrawCommand(q)
    PROVE  UpgradeParts'
  <1>1. PICK c : c = requests[q].cmd
    OBVIOUS
  <1>2. /\ requests[q].pc = "unheard" /\ Advance(q, AnsweredRequest)
        /\ \/ UNCHANGED upgradeCmds
           \/ /\ c # NoCmd /\ upgradeCmds[c].status \in {"queued", "dispatching", "dispatched"}
              /\ MoveCmd(c, "closed")
        /\ plans' = Transitioned(plans, requests[q].plan, "failed")
        /\ UNCHANGED <<recovery, connected, inbox, deviceFaults>> /\ UNCHANGED deviceSide
    BY <1>1 DEF WithdrawCommand
  <1>3. c \in UpgradeCmd \cup {NoCmd} /\ requests[q].plan \in UpgradePlan \cup {NoPlan}
    BY <1>1 DEF UpgradeParts, AgentUpgradeTypeOK
  <1>4. CmdsMove
    <2>1. CASE UNCHANGED upgradeCmds
      BY <2>1, CmdsStill
    <2>2. CASE c # NoCmd /\ upgradeCmds[c].status \in {"queued", "dispatching", "dispatched"}
               /\ MoveCmd(c, "closed")
      BY <1>3, <2>2, StatusMoves DEF CmdStatus
    <2>. QED  BY <1>2, <2>1, <2>2
  <1>5. PlansEnd
    BY <1>2, <1>3, TransitionedEffect DEF PlansEnd
  <1>6. /\ inbox' \in Seq(UpgradeCmd) /\ InboxOK' /\ connected' \in BOOLEAN
        /\ deviceFaults' \in 0 .. MaxDeviceFault
    BY <1>2, <1>4, InboxStill DEF UpgradeParts, AgentUpgradeTypeOK
  <1>. QED  BY <1>2, <1>4, <1>5, <1>6, IdleRequestOK, HandlerKeeps

\* The stream opens, with a queued command to recover or with none.
LEMMA StreamOpensKeeps ==
    ASSUME UpgradeParts, NEW ok \in BOOLEAN, StreamOpens(ok)
    PROVE  UpgradeParts'
  <1>1. /\ connected' = TRUE /\ DeviceFault(ok) /\ UNCHANGED <<plans, requests, inbox>>
        /\ UNCHANGED deviceSide
        /\ \/ UNCHANGED <<upgradeCmds, recovery>>
           \/ \E c \in UpgradeCmd : /\ upgradeCmds[c].status = "queued" /\ MoveCmd(c, "dispatching")
                                    /\ recovery' = [pc |-> "prepared", cmd |-> c]
    BY DEF StreamOpens
  <1>2. CmdsMove /\ RecoveryOK'
    <2>1. CASE UNCHANGED <<upgradeCmds, recovery>>
      BY <2>1, CmdsStill, RecoveryStill
    <2>2. ASSUME NEW c \in UpgradeCmd, upgradeCmds[c].status = "queued", MoveCmd(c, "dispatching"),
                 recovery' = [pc |-> "prepared", cmd |-> c]
          PROVE  CmdsMove /\ RecoveryOK'
      <3>1. CmdsMove
        BY <2>2, StatusMoves DEF CmdStatus
      <3>2. upgradeCmds'[c].status # "unused"
        BY <2>2, <3>1 DEF CmdsMove
      <3>. QED  BY <2>2, <3>1, <3>2 DEF RecoveryOK, RecoveryRecord, DispatchPc
    <2>. QED  BY <1>1, <2>1, <2>2
  <1>3. inbox \in Seq(UpgradeCmd) /\ \A i \in 1 .. Len(inbox) : inbox[i] \in UpgradeCmd
    BY DEF UpgradeParts, AgentUpgradeTypeOK
  <1>4. InboxOK'
    BY <1>1, <1>2, <1>3 DEF UpgradeParts, InboxOK, CmdsMove
  <1>5. PlansEnd /\ RequestsGoOn /\ deviceFaults' \in 0 .. MaxDeviceFault
    BY <1>1, <1>2, PlansStill, RequestsStill, DeviceFaultOK
  <1>. QED  BY <1>1, <1>2, <1>3, <1>4, <1>5, ServerStepKeeps

\* The publication of the recovery keeps the parts.
LEMMA RecoverPublishKeeps ==
    ASSUME UpgradeParts, RecoverPublish
    PROVE  UpgradeParts'
  <1>1. /\ recovery.pc = "prepared" /\ Publish(recovery.cmd)
        /\ \E pc \in DispatchPc : recovery' = [recovery EXCEPT !.pc = pc]
        /\ UNCHANGED <<plans, requests, upgradeCmds, connected, deviceFaults>> /\ UNCHANGED deviceSide
    BY DEF RecoverPublish, DispatchPc
  <1>2. recovery.cmd \in UpgradeCmd /\ upgradeCmds[recovery.cmd].status # "unused"
    BY <1>1 DEF UpgradeParts, RecoveryOK
  <1>3. inbox' \in Seq(UpgradeCmd) /\ InboxOK' /\ connected' \in BOOLEAN /\ CmdsMove
    BY <1>1, <1>2, PublishEffect
  <1>4. RecoveryOK'
    BY <1>1, <1>3, RecoveryMoves
  <1>5. PlansEnd /\ RequestsGoOn /\ deviceFaults' \in 0 .. MaxDeviceFault
    BY <1>1, <1>3, PlansStill, RequestsStill DEF UpgradeParts, AgentUpgradeTypeOK
  <1>. QED  BY <1>1, <1>3, <1>4, <1>5, ServerStepKeeps

\* The end of the recovery keeps the parts.
LEMMA RecoverFinishKeeps ==
    ASSUME UpgradeParts, NEW ok \in BOOLEAN, RecoverFinish(ok)
    PROVE  UpgradeParts'
  <1>1. /\ recovery.pc \in {"heard", "missed"} /\ FinishDispatch(recovery.cmd, recovery.pc, ok)
        /\ recovery' = AtRest /\ UNCHANGED <<plans, requests, connected, inbox>> /\ UNCHANGED deviceSide
    BY DEF RecoverFinish
  <1>2. recovery.cmd \in UpgradeCmd
    BY <1>1 DEF UpgradeParts, RecoveryOK
  <1>3. /\ CmdsMove /\ inbox' \in Seq(UpgradeCmd) /\ InboxOK' /\ connected' \in BOOLEAN
        /\ deviceFaults' \in 0 .. MaxDeviceFault
    BY <1>1, <1>2, FinishDispatchEffect
  <1>4. RecoveryOK'
    BY <1>1, <1>3, RecoveryMoves
  <1>5. PlansEnd /\ RequestsGoOn
    BY <1>1, <1>3, PlansStill, RequestsStill
  <1>. QED  BY <1>1, <1>3, <1>4, <1>5, ServerStepKeeps

\* The stream breaks.
LEMMA StreamBreaksKeeps ==
    ASSUME UpgradeParts, StreamBreaks
    PROVE  UpgradeParts'
  <1>1. /\ connected' = FALSE /\ inbox' = <<>> /\ DeviceFault(FALSE)
        /\ UNCHANGED <<plans, requests, upgradeCmds, recovery>> /\ UNCHANGED deviceSide
    BY DEF StreamBreaks, serverSide
  <1>2. inbox' \in Seq(UpgradeCmd) /\ InboxOK'
    BY <1>1 DEF InboxOK
  <1>3. PlansEnd /\ CmdsMove /\ RequestsGoOn /\ RecoveryOK' /\ deviceFaults' \in 0 .. MaxDeviceFault
    BY <1>1, PlansStill, CmdsStill, RequestsStill, RecoveryStill, DeviceFaultOK
  <1>. QED  BY <1>1, <1>2, <1>3, ServerStepKeeps

\* The deadline of a command.
LEMMA CommandExpiresKeeps ==
    ASSUME UpgradeParts, NEW c \in UpgradeCmd, CommandExpires(c)
    PROVE  UpgradeParts'
  <1>1. /\ upgradeCmds[c].status \in {"dispatching", "dispatched", "accepted"}
        /\ MoveCmd(c, "closed")
        /\ UNCHANGED <<plans, requests, recovery, connected, inbox, deviceFaults>> /\ UNCHANGED deviceSide
    BY DEF CommandExpires
  <1>2. CmdsMove
    BY <1>1, StatusMoves DEF CmdStatus
  <1>3. /\ PlansEnd /\ RequestsGoOn /\ RecoveryOK' /\ deviceFaults' \in 0 .. MaxDeviceFault
        /\ inbox' \in Seq(UpgradeCmd) /\ InboxOK' /\ connected' \in BOOLEAN
    BY <1>1, <1>2, PlansStill, RequestsStill, RecoveryStill, InboxStill DEF UpgradeParts, AgentUpgradeTypeOK
  <1>. QED  BY <1>1, <1>2, <1>3, ServerStepKeeps

\* An acknowledgement with commit_ready.
LEMMA CommitReadyKeeps ==
    ASSUME UpgradeParts, NEW c \in UpgradeCmd, CommitReady(c)
    PROVE  UpgradeParts'
  <1>1. /\ IF TakesAck(c) THEN MoveCmd(c, "closed") ELSE UNCHANGED upgradeCmds
        /\ plans' = [p \in UpgradePlan |-> Transitioned(plans, p, "succeeded")[p]]
        /\ UNCHANGED <<requests, recovery, connected, inbox, deviceFaults>> /\ UNCHANGED deviceSide
    BY DEF CommitReady
  <1>2. CmdsMove
    <2>1. CASE TakesAck(c)
      BY <1>1, <2>1, StatusMoves DEF TakesAck, CmdStatus
    <2>2. CASE ~TakesAck(c)
      BY <1>1, <2>2, CmdsStill
    <2>. QED  BY <2>1, <2>2
  <1>3. PlansEnd
    BY <1>1, TransitionedEffect DEF PlansEnd
  <1>4. /\ RequestsGoOn /\ RecoveryOK' /\ deviceFaults' \in 0 .. MaxDeviceFault
        /\ inbox' \in Seq(UpgradeCmd) /\ InboxOK' /\ connected' \in BOOLEAN
    BY <1>1, <1>2, RequestsStill, RecoveryStill, InboxStill DEF UpgradeParts, AgentUpgradeTypeOK
  <1>. QED  BY <1>1, <1>2, <1>3, <1>4, ServerStepKeeps

\* A restart of the server: the plans are lost, and no request has one.
LEMMA ServerRestartsKeeps ==
    ASSUME UpgradeParts, ServerRestarts
    PROVE  UpgradeParts'
  <1>. USE DEF UpgradeParts
  <1>1. /\ plans' = [p \in UpgradePlan |-> IF plans[p].stage = "unused" THEN UnusedPlan
                                           ELSE [UnusedPlan EXCEPT !.stage = "lost"]]
        /\ recovery' = AtRest
        /\ requests' = [q \in UpgradeRequest |->
              IF requests[q].pc = "idle" THEN IdleRequest ELSE AnsweredRequest]
        /\ upgradeCmds' = [c \in UpgradeCmd |-> IF Live(upgradeCmds[c].status)
              THEN [upgradeCmds[c] EXCEPT !.status = "closed"] ELSE upgradeCmds[c]]
        /\ connected' = FALSE /\ inbox' = <<>> /\ DeviceFault(FALSE) /\ UNCHANGED deviceSide
    BY DEF ServerRestarts
  <1>2. CmdsMove
    <2>1. upgradeCmds \in [UpgradeCmd -> CmdRecord]
      BY DEF AgentUpgradeTypeOK
    <2>2. \A c \in UpgradeCmd :
             /\ upgradeCmds'[c] \in CmdRecord /\ upgradeCmds'[c].key = upgradeCmds[c].key
             /\ upgradeCmds'[c].payload = upgradeCmds[c].payload /\ upgradeCmds'[c].plan = upgradeCmds[c].plan
             /\ upgradeCmds'[c].status = "unused" <=> upgradeCmds[c].status = "unused"
      BY <1>1, <2>1 DEF CmdRecord, CmdStatus, Live
    <2>3. upgradeCmds' \in [UpgradeCmd -> CmdRecord]
      BY <1>1, <2>2
    <2>. QED  BY <2>2, <2>3 DEF CmdsMove
  <1>3. /\ requests' \in [UpgradeRequest -> RequestRecord]
        /\ \A q \in UpgradeRequest : requests'[q].pc \in {"idle", "answered"}
    BY <1>1, IdleRequestOK
  <1>4. /\ plans' \in [UpgradePlan -> PlanRecord]
        /\ \A p \in UpgradePlan : /\ plans'[p].stage = "unused" <=> plans[p].stage = "unused"
                                  /\ plans'[p].stage # "pending" /\ plans'[p].key = NoKey
    <2>1. /\ UnusedPlan \in PlanRecord /\ UnusedPlan.stage = "unused" /\ UnusedPlan.key = NoKey
          /\ [UnusedPlan EXCEPT !.stage = "lost"] \in PlanRecord
          /\ [UnusedPlan EXCEPT !.stage = "lost"].stage = "lost"
          /\ [UnusedPlan EXCEPT !.stage = "lost"].key = NoKey
      BY IdleRequestOK DEF UnusedPlan, PlanRecord
    <2>. QED  BY <1>1, <2>1
  <1>5. PlannedOK' /\ RequestCmdOK'
    BY <1>3 DEF PlannedOK, Planned, RequestCmdOK, Dispatches, DispatchPc
  <1>6. CmdPlanOK' /\ PlanOnce'
    <2>1. \A c \in UpgradeCmd : HasPlan(c)' =>
             /\ HasPlan(c) /\ upgradeCmds'[c].plan = upgradeCmds[c].plan
             /\ upgradeCmds[c].plan \in UpgradePlan
      BY <1>2 DEF HasPlan, CmdsMove, AgentUpgradeTypeOK, CmdRecord
    <2>2. CmdPlanOK'
      BY <1>3, <1>4, <2>1 DEF ServerParts, CmdPlanOK, Planned
    <2>. QED  BY <2>1, <2>2 DEF ServerParts, PlanOnce
  <1>7. KeyOnce'
    BY <1>2 DEF ServerParts, KeyOnce, CmdsMove
  <1>8. PendingOnce' /\ RecoveryOK'
    BY <1>1, <1>4 DEF PendingOnce, RecoveryOK, RecoveryRecord, AtRest
  <1>9. DeviceCmdOK' /\ ExeOK'
    BY <1>1, <1>2, DeviceStill DEF CmdsMove
  <1>10. InboxOK' /\ inbox' \in Seq(UpgradeCmd) /\ deviceFaults' \in 0 .. MaxDeviceFault
    <2>1. deviceFaults' \in 0 .. MaxDeviceFault
      BY <1>1, DeviceFaultOK
    <2>. QED  BY <1>1, <2>1 DEF InboxOK
  <1>11. AgentUpgradeTypeOK'
    <2>1. UNCHANGED <<daemon, ledger, exe, oldExe, runningVersion, deviceUp, exitDue, rollbackLost>>
      BY <1>1 DEF deviceSide
    <2>. QED  BY <1>1, <1>2, <1>3, <1>4, <1>8, <1>10, <2>1
              DEF AgentUpgradeTypeOK, CmdsMove, RequestRecord, RecoveryOK, RecoveryRecord
  <1>. QED  BY <1>5, <1>6, <1>7, <1>8, <1>9, <1>10, <1>11 DEF ServerParts

----------------------------------------------------------------------------
(* The operations of the device.                                           *)

\* The commands left as they are, and the stream with them.
LEMMA DeviceOnly ==
    ASSUME UpgradeParts, UNCHANGED serverSide, UNCHANGED <<connected, inbox>>
    PROVE  /\ UNCHANGED <<plans, requests, recovery, upgradeCmds>> /\ CmdsMove
           /\ inbox' \in Seq(UpgradeCmd) /\ InboxOK' /\ connected' \in BOOLEAN
  <1>1. UNCHANGED <<plans, requests, recovery, upgradeCmds>>
    BY DEF serverSide
  <1>. QED  BY <1>1, CmdsStill, InboxStill

\* A step that leaves the executables alone.
LEMMA ExeStill ==
    ASSUME UpgradeParts, UNCHANGED <<exe, oldExe, deviceUp, rollbackLost>>,
           daemon'.pc \notin {"backed_up", "placed"}, daemon.pc # "backed_up"
    PROVE  ExeOK'
  BY DEF UpgradeParts, ExeOK, BinaryRecoverable

\* The device's variables, unfolded.
LEMMA DeviceFacts ==
    ASSUME UpgradeParts
    PROVE  /\ DeviceTypeOK /\ DeviceCmdOK /\ ExeOK
           /\ upgradeCmds \in [UpgradeCmd -> CmdRecord] /\ inbox \in Seq(UpgradeCmd)
           /\ NoFile \notin Versions
  BY AgentUpgradeAssumption
     DEF UpgradeParts, AgentUpgradeTypeOK, DeviceTypeOK, DaemonRecord, LedgerTable, NoFile

\* The result written into the ledger.
LEMMA ConcludeEffect ==
    ASSUME UpgradeParts, NEW outcome \in {"succeeded", "failed"}, NEW pc \in {"report", "replaced"},
           Conclude(outcome, pc), daemon.pc # "idle", UNCHANGED upgradeCmds
    PROVE  /\ DeviceCmdOK' /\ daemon'.pc = pc /\ daemon'.cmd = daemon.cmd
           /\ daemon' \in DaemonRecord
           /\ daemon'.cmd \in UpgradeCmd
           /\ ledger' \in LedgerTable
  <1>1. DeviceTypeOK /\ DeviceCmdOK
    BY DeviceFacts
  <1>2. /\ ledger' = [ledger EXCEPT ![daemon.cmd] = outcome]
        /\ daemon' = [daemon EXCEPT !.pc = pc]
    BY DEF Conclude, Step
  <1>. QED  BY <1>1, <1>2 DEF DeviceTypeOK, DeviceCmdOK, DaemonRecord, LedgerTable

\* The next step of the command being handled.
LEMMA StepEffect ==
    ASSUME UpgradeParts, NEW pc \in {"verified", "backed_up", "placed"}, Step(pc), daemon.pc # "idle",
           UNCHANGED <<ledger, upgradeCmds>>
    PROVE  /\ DeviceCmdOK' /\ daemon'.pc = pc /\ daemon'.cmd = daemon.cmd
           /\ daemon' \in DaemonRecord
           /\ daemon'.cmd \in UpgradeCmd
  <1>1. DeviceTypeOK /\ DeviceCmdOK
    BY DeviceFacts
  <1>2. daemon' = [daemon EXCEPT !.pc = pc]
    BY DEF Step
  <1>. QED  BY <1>1, <1>2 DEF DeviceTypeOK, DeviceCmdOK, DaemonRecord

\* The executable a command asks for is a version.
LEMMA TargetType ==
    ASSUME UpgradeParts, daemon.pc # "idle"
    PROVE  Target \in Versions
  BY DeviceFacts DEF DeviceTypeOK, Target, CmdRecord, Payload

\* handleEvent and startCommand keep the parts.
LEMMA TakeEventKeeps ==
    ASSUME UpgradeParts, TakeEvent
    PROVE  UpgradeParts'
  <1>1. PICK c : c = Head(inbox)
    OBVIOUS
  <1>2. /\ daemon.pc = "idle" /\ inbox # <<>> /\ inbox' = Tail(inbox)
        /\ IF ledger[c] \in {"none", "started"}
           THEN /\ ledger' = [ledger EXCEPT ![c] = "started"] /\ daemon' = [pc |-> "begun", cmd |-> c]
           ELSE UNCHANGED <<ledger, daemon>>
        /\ UNCHANGED <<connected, exe, oldExe, runningVersion, deviceUp, exitDue, deviceFaults, rollbackLost>>
        /\ UNCHANGED serverSide
    BY <1>1 DEF TakeEvent
  <1>3. UNCHANGED <<plans, requests, recovery, upgradeCmds>> /\ CmdsMove
    <2>1. UNCHANGED <<plans, requests, recovery, upgradeCmds>>
      BY <1>2 DEF serverSide
    <2>. QED  BY <2>1, CmdsStill
  <1>4. DeviceTypeOK /\ DeviceCmdOK /\ inbox \in Seq(UpgradeCmd) /\ connected \in BOOLEAN
    BY DeviceFacts DEF UpgradeParts, AgentUpgradeTypeOK
  <1>5. /\ inbox' \in Seq(UpgradeCmd) /\ c = inbox[1] /\ c \in UpgradeCmd /\ 1 \in 1 .. Len(inbox)
        /\ Len(inbox') = Len(inbox) - 1 /\ \A i \in 1 .. Len(inbox') : inbox'[i] = inbox[i + 1]
    BY <1>1, <1>2, <1>4
  <1>6. InboxOK' /\ upgradeCmds[c].status # "unused"
    BY <1>3, <1>4, <1>5 DEF UpgradeParts, InboxOK
  <1>7. DeviceTypeOK' /\ DeviceCmdOK'
    BY <1>2, <1>3, <1>4, <1>5, <1>6 DEF DeviceTypeOK, DeviceCmdOK, DaemonRecord, LedgerTable
  <1>8. ExeOK'
    <2>1. daemon'.pc \notin {"backed_up", "placed"}
      BY <1>2
    <2>. QED  BY <1>2, <2>1, ExeStill
  <1>. QED  BY <1>2, <1>3, <1>4, <1>5, <1>6, <1>7, <1>8, DeviceStepKeeps

\* The post that a command is begun keeps the parts.
LEMMA SendAcceptedKeeps ==
    ASSUME UpgradeParts, NEW sent \in BOOLEAN, NEW answered \in BOOLEAN, PostAccepted(sent, answered)
    PROVE  UpgradeParts'
  <1>1. /\ daemon.pc = "begun" /\ DeviceFault(answered) /\ daemon' = [daemon EXCEPT !.pc = "accepted"]
        /\ \/ UNCHANGED upgradeCmds
           \/ TakesAck(daemon.cmd) /\ MoveCmd(daemon.cmd, "accepted")
        /\ ledger' = ledger \/ ledger' = [ledger EXCEPT ![daemon.cmd] = "confirmed"]
        /\ UNCHANGED <<plans, requests, recovery>> /\ UNCHANGED <<connected, inbox>>
        /\ UNCHANGED <<exe, oldExe, runningVersion, deviceUp, exitDue, rollbackLost>>
    BY DEF PostAccepted, Step
  <1>2. DeviceTypeOK /\ DeviceCmdOK /\ daemon.cmd \in UpgradeCmd
    BY <1>1, DeviceFacts DEF DeviceTypeOK
  <1>3. CmdsMove
    <2>1. CASE UNCHANGED upgradeCmds
      BY <2>1, CmdsStill
    <2>2. CASE TakesAck(daemon.cmd) /\ MoveCmd(daemon.cmd, "accepted")
      BY <1>2, <2>2, StatusMoves DEF TakesAck, CmdStatus
    <2>. QED  BY <1>1, <2>1, <2>2
  <1>4. inbox' \in Seq(UpgradeCmd) /\ InboxOK' /\ connected' \in BOOLEAN
    BY <1>1, <1>3, InboxStill
  <1>5. deviceFaults' \in 0 .. MaxDeviceFault
    BY <1>1, DeviceFaultOK
  <1>6. DeviceTypeOK'
    BY <1>1, <1>2, <1>5 DEF DeviceTypeOK, DaemonRecord, LedgerTable
  <1>7. DeviceCmdOK'
    BY <1>1, <1>2, <1>3 DEF DeviceTypeOK, DeviceCmdOK, DaemonRecord, LedgerTable, CmdsMove
  <1>8. ExeOK'
    <2>1. daemon'.pc = "accepted"
      BY <1>1, <1>2 DEF DeviceTypeOK, DaemonRecord
    <2>. QED  BY <1>1, <2>1, ExeStill
  <1>. QED  BY <1>1, <1>3, <1>4, <1>6, <1>7, <1>8, DeviceStepKeeps

\* An upgrade to the running version keeps the parts.
LEMMA AlreadyCurrentKeeps ==
    ASSUME UpgradeParts, AlreadyCurrent
    PROVE  UpgradeParts'
  <1>1. /\ daemon.pc = "accepted" /\ Conclude("succeeded", "report") /\ UNCHANGED serverSide
        /\ UNCHANGED <<connected, inbox>>
        /\ UNCHANGED <<exe, oldExe, runningVersion, deviceUp, exitDue, deviceFaults, rollbackLost>>
    BY DEF AlreadyCurrent
  <1>2. /\ UNCHANGED <<plans, requests, recovery, upgradeCmds>> /\ CmdsMove
        /\ inbox' \in Seq(UpgradeCmd) /\ InboxOK' /\ connected' \in BOOLEAN
    BY <1>1, DeviceOnly
  <1>3. /\ DeviceCmdOK' /\ daemon'.pc = "report" /\ daemon'.cmd \in UpgradeCmd
        /\ daemon' \in DaemonRecord
        /\ ledger' \in LedgerTable
    BY <1>1, <1>2, ConcludeEffect
  <1>4. DeviceTypeOK'
    BY <1>1, <1>3, DeviceFacts DEF DeviceTypeOK
  <1>5. ExeOK'
    BY <1>1, <1>3, ExeStill
  <1>. QED  BY <1>2, <1>3, <1>4, <1>5, DeviceStepKeeps

\* The download and the trial of the candidate keep the parts.
LEMMA FetchCandidateKeeps ==
    ASSUME UpgradeParts, NEW ok \in BOOLEAN, FetchCandidate(ok)
    PROVE  UpgradeParts'
  <1>1. /\ daemon.pc = "accepted" /\ DeviceFault(ok) /\ UNCHANGED serverSide
        /\ IF ok THEN Step("verified") /\ UNCHANGED ledger ELSE Conclude("failed", "report")
        /\ UNCHANGED <<connected, inbox>>
        /\ UNCHANGED <<exe, oldExe, runningVersion, deviceUp, exitDue, rollbackLost>>
    BY DEF FetchCandidate
  <1>2. /\ UNCHANGED <<plans, requests, recovery, upgradeCmds>> /\ CmdsMove
        /\ inbox' \in Seq(UpgradeCmd) /\ InboxOK' /\ connected' \in BOOLEAN
    BY <1>1, DeviceOnly
  <1>3. deviceFaults' \in 0 .. MaxDeviceFault
    BY <1>1, DeviceFaultOK
  <1>4. /\ DeviceCmdOK' /\ daemon'.pc \in {"verified", "report"} /\ daemon'.cmd \in UpgradeCmd
        /\ daemon' \in DaemonRecord
        /\ ledger' \in LedgerTable
    <2>1. CASE ok
      BY <1>1, <1>2, <2>1, StepEffect, DeviceFacts DEF DeviceTypeOK
    <2>2. CASE ~ok
      BY <1>1, <1>2, <2>2, ConcludeEffect
    <2>. QED  BY <2>1, <2>2
  <1>5. DeviceTypeOK'
    BY <1>1, <1>3, <1>4, DeviceFacts DEF DeviceTypeOK
  <1>6. ExeOK'
    BY <1>1, <1>4, ExeStill
  <1>. QED  BY <1>2, <1>4, <1>5, <1>6, DeviceStepKeeps

\* The executable moved aside keeps the parts: it is beside its place then.
LEMMA BackUpKeeps ==
    ASSUME UpgradeParts, NEW ok \in BOOLEAN, BackUp(ok)
    PROVE  UpgradeParts'
  <1>1. /\ deviceUp /\ daemon.pc = "verified" /\ DeviceFault(ok) /\ UNCHANGED serverSide
        /\ IF ok THEN oldExe' = exe /\ exe' = NoFile /\ Step("backed_up") /\ UNCHANGED ledger
                 ELSE oldExe' = NoFile /\ UNCHANGED exe /\ Conclude("failed", "report")
        /\ UNCHANGED <<connected, inbox>>
        /\ UNCHANGED <<runningVersion, deviceUp, exitDue, rollbackLost>>
    BY DEF BackUp, SetAside
  <1>2. /\ UNCHANGED <<plans, requests, recovery, upgradeCmds>> /\ CmdsMove
        /\ inbox' \in Seq(UpgradeCmd) /\ InboxOK' /\ connected' \in BOOLEAN
    BY <1>1, DeviceOnly
  <1>3. deviceFaults' \in 0 .. MaxDeviceFault
    BY <1>1, DeviceFaultOK
  <1>4. /\ DeviceCmdOK' /\ daemon'.pc = IF ok THEN "backed_up" ELSE "report"
        /\ daemon'.cmd \in UpgradeCmd
        /\ daemon' \in DaemonRecord
        /\ ledger' \in LedgerTable
    <2>1. CASE ok
      BY <1>1, <1>2, <2>1, StepEffect, DeviceFacts DEF DeviceTypeOK
    <2>2. CASE ~ok
      BY <1>1, <1>2, <2>2, ConcludeEffect
    <2>. QED  BY <2>1, <2>2
  <1>5. DeviceTypeOK'
    BY <1>1, <1>3, <1>4, DeviceFacts DEF DeviceTypeOK
  <1>6. exe # NoFile \/ rollbackLost
    BY <1>1, DeviceFacts DEF ExeOK
  <1>7. ExeOK'
    BY <1>1, <1>4, <1>6 DEF ExeOK, BinaryRecoverable
  <1>. QED  BY <1>2, <1>4, <1>5, <1>7, DeviceStepKeeps

\* The candidate put in place, or the old file put back, keeps the parts.
LEMMA PlaceCandidateKeeps ==
    ASSUME UpgradeParts, NEW ok \in BOOLEAN, NEW back \in BOOLEAN, PlaceCandidate(ok, back)
    PROVE  UpgradeParts'
  <1>1. /\ daemon.pc = "backed_up" /\ DeviceFault(ok) /\ UNCHANGED serverSide /\ (ok => back)
        /\ exe' = IF ok THEN Target ELSE IF back THEN oldExe ELSE NoFile
        /\ oldExe' = IF ~ok /\ back THEN NoFile ELSE oldExe
        /\ rollbackLost' = (rollbackLost \/ ~back)
        /\ IF ok THEN Step("placed") /\ UNCHANGED ledger ELSE Conclude("failed", "report")
        /\ UNCHANGED <<connected, inbox>>
        /\ UNCHANGED <<runningVersion, deviceUp, exitDue>>
    BY DEF PlaceCandidate
  <1>2. /\ UNCHANGED <<plans, requests, recovery, upgradeCmds>> /\ CmdsMove
        /\ inbox' \in Seq(UpgradeCmd) /\ InboxOK' /\ connected' \in BOOLEAN
    BY <1>1, DeviceOnly
  <1>3. deviceFaults' \in 0 .. MaxDeviceFault
    BY <1>1, DeviceFaultOK
  <1>4. /\ DeviceCmdOK' /\ daemon'.pc = IF ok THEN "placed" ELSE "report"
        /\ daemon'.cmd \in UpgradeCmd /\ daemon'.cmd = daemon.cmd
        /\ daemon' \in DaemonRecord
        /\ ledger' \in LedgerTable
    <2>1. CASE ok
      BY <1>1, <1>2, <2>1, StepEffect, DeviceFacts DEF DeviceTypeOK
    <2>2. CASE ~ok
      BY <1>1, <1>2, <2>2, ConcludeEffect
    <2>. QED  BY <2>1, <2>2
  <1>5. Target \in Versions /\ NoFile \notin Versions
    BY <1>1, TargetType, DeviceFacts
  <1>6. DeviceTypeOK'
    <2>1. exe' \in Versions \cup {NoFile} /\ oldExe' \in Versions \cup {NoFile} /\ rollbackLost' \in BOOLEAN
      BY <1>1, <1>5, DeviceFacts DEF DeviceTypeOK
    <2>. QED  BY <1>1, <1>3, <1>4, <2>1, DeviceFacts DEF DeviceTypeOK
  <1>7. oldExe # NoFile \/ rollbackLost
    BY <1>1, DeviceFacts DEF ExeOK
  <1>8. ExeOK'
    <2>1. ok => exe' = upgradeCmds'[daemon'.cmd].payload.target
      BY <1>1, <1>2, <1>4 DEF Target
    <2>2. exe' # NoFile \/ rollbackLost'
      BY <1>1, <1>5, <1>7
    <2>. QED  BY <1>4, <2>1, <2>2 DEF ExeOK, BinaryRecoverable
  <1>. QED  BY <1>2, <1>4, <1>6, <1>8, DeviceStepKeeps

\* The end of a replacement keeps the parts.
LEMMA FinishReplacementKeeps ==
    ASSUME UpgradeParts, NEW removed \in BOOLEAN, FinishReplacement(removed)
    PROVE  UpgradeParts'
  <1>1. /\ deviceUp /\ daemon.pc = "placed" /\ Conclude("succeeded", "replaced") /\ UNCHANGED serverSide
        /\ oldExe' = IF removed THEN NoFile ELSE oldExe
        /\ UNCHANGED <<connected, inbox>>
        /\ UNCHANGED <<exe, runningVersion, deviceUp, exitDue, deviceFaults, rollbackLost>>
    BY DEF FinishReplacement
  <1>2. /\ UNCHANGED <<plans, requests, recovery, upgradeCmds>> /\ CmdsMove
        /\ inbox' \in Seq(UpgradeCmd) /\ InboxOK' /\ connected' \in BOOLEAN
    BY <1>1, DeviceOnly
  <1>3. /\ DeviceCmdOK' /\ daemon'.pc = "replaced" /\ daemon'.cmd \in UpgradeCmd
        /\ daemon' \in DaemonRecord
        /\ ledger' \in LedgerTable
    BY <1>1, <1>2, ConcludeEffect
  <1>4. DeviceTypeOK'
    BY <1>1, <1>3, DeviceFacts DEF DeviceTypeOK
  <1>5. ExeOK'
    BY <1>1, <1>3, DeviceFacts DEF ExeOK, BinaryRecoverable
  <1>. QED  BY <1>2, <1>3, <1>4, <1>5, DeviceStepKeeps

\* A result that reaches the server ends its command.
LEMMA AckResultMoves ==
    ASSUME UpgradeParts, NEW c \in UpgradeCmd, upgradeCmds' = AckResult(c)
    PROVE  CmdsMove
  <1>1. CASE TakesAck(c)
    <2>1. MoveCmd(c, IF ledger[c] = "failed" THEN "failed" ELSE "closed")
      BY <1>1 DEF AckResult, MoveCmd
    <2>. QED  BY <1>1, <2>1, StatusMoves DEF TakesAck, CmdStatus
  <1>2. CASE ~TakesAck(c)
    BY <1>2, CmdsStill DEF AckResult
  <1>. QED  BY <1>1, <1>2

\* The device's commands go on existing when the server's table moves on.
LEMMA DeviceCmdStill ==
    ASSUME UpgradeParts, CmdsMove, UNCHANGED ledger, daemon' = daemon \/ daemon' = AtRest
    PROVE  DeviceCmdOK'
  <1>1. DeviceTypeOK /\ DeviceCmdOK
    BY DeviceFacts
  <1>. QED  BY <1>1 DEF DeviceTypeOK, DeviceCmdOK, CmdsMove, AtRest

\* The post of the result keeps the parts.
LEMMA ReportResultKeeps ==
    ASSUME UpgradeParts, NEW sent \in BOOLEAN, ReportResult(sent)
    PROVE  UpgradeParts'
  <1>1. /\ daemon.pc \in {"report", "replaced"} /\ DeviceFault(sent)
        /\ upgradeCmds' = IF sent THEN AckResult(daemon.cmd) ELSE upgradeCmds
        /\ exitDue' = (exitDue \/ daemon.pc = "replaced")
        /\ daemon' = AtRest
        /\ UNCHANGED <<plans, requests, recovery>> /\ UNCHANGED <<connected, inbox>>
        /\ UNCHANGED <<ledger, exe, oldExe, runningVersion, deviceUp, rollbackLost>>
    BY DEF ReportResult
  <1>2. daemon.cmd \in UpgradeCmd
    BY <1>1, DeviceFacts DEF DeviceTypeOK
  <1>3. CmdsMove
    <2>1. CASE sent
      BY <1>1, <1>2, <2>1, AckResultMoves
    <2>2. CASE ~sent
      BY <1>1, <2>2, CmdsStill
    <2>. QED  BY <2>1, <2>2
  <1>4. inbox' \in Seq(UpgradeCmd) /\ InboxOK' /\ connected' \in BOOLEAN
    BY <1>1, <1>3, InboxStill
  <1>5. deviceFaults' \in 0 .. MaxDeviceFault
    BY <1>1, DeviceFaultOK
  <1>6. exitDue' \in BOOLEAN
    BY <1>1, DeviceFacts DEF DeviceTypeOK
  <1>7. DeviceTypeOK'
    BY <1>1, <1>5, <1>6, DeviceFacts DEF DeviceTypeOK, DaemonRecord, AtRest
  <1>8. DeviceCmdOK'
    BY <1>1, <1>3, DeviceCmdStill
  <1>9. ExeOK'
    BY <1>1, ExeStill DEF AtRest
  <1>. QED  BY <1>1, <1>3, <1>4, <1>7, <1>8, <1>9, DeviceStepKeeps

\* A result posted again keeps the parts.
LEMMA RetryResultKeeps ==
    ASSUME UpgradeParts, NEW c \in UpgradeCmd, RetryResult(c)
    PROVE  UpgradeParts'
  <1>1. /\ upgradeCmds' = AckResult(c)
        /\ UNCHANGED <<plans, requests, recovery, connected, inbox, deviceFaults>> /\ UNCHANGED deviceSide
    BY DEF RetryResult
  <1>2. CmdsMove
    BY <1>1, AckResultMoves
  <1>3. /\ PlansEnd /\ RequestsGoOn /\ RecoveryOK' /\ deviceFaults' \in 0 .. MaxDeviceFault
        /\ inbox' \in Seq(UpgradeCmd) /\ InboxOK' /\ connected' \in BOOLEAN
    BY <1>1, <1>2, PlansStill, RequestsStill, RecoveryStill, InboxStill DEF UpgradeParts, AgentUpgradeTypeOK
  <1>. QED  BY <1>1, <1>2, <1>3, ServerStepKeeps

\* The end of the daemon, wherever it is, keeps the parts.
LEMMA DaemonStopsKeeps ==
    ASSUME UpgradeParts, DaemonStops
    PROVE  UpgradeParts'
  <1>1. /\ DeviceFault(exitDue) /\ deviceUp' = FALSE /\ exitDue' = FALSE /\ connected' = FALSE
        /\ inbox' = <<>> /\ daemon' = AtRest /\ UNCHANGED serverSide
        /\ UNCHANGED <<ledger, exe, oldExe, runningVersion, rollbackLost>>
    BY DEF DaemonStops
  <1>2. UNCHANGED <<plans, requests, recovery, upgradeCmds>> /\ CmdsMove
    <2>1. UNCHANGED <<plans, requests, recovery, upgradeCmds>>
      BY <1>1 DEF serverSide
    <2>. QED  BY <2>1, CmdsStill
  <1>3. inbox' \in Seq(UpgradeCmd) /\ InboxOK'
    BY <1>1 DEF InboxOK
  <1>4. deviceFaults' \in 0 .. MaxDeviceFault
    <2>1. exitDue \in BOOLEAN
      BY DeviceFacts DEF DeviceTypeOK
    <2>. QED  BY <1>1, <2>1, DeviceFaultOK
  <1>5. DeviceTypeOK'
    BY <1>1, <1>4, DeviceFacts DEF DeviceTypeOK, DaemonRecord, AtRest
  <1>6. DeviceCmdOK'
    BY <1>1, <1>2, DeviceCmdStill
  <1>7. ExeOK'
    BY <1>1, DeviceFacts DEF ExeOK, BinaryRecoverable, AtRest
  <1>. QED  BY <1>1, <1>2, <1>3, <1>5, <1>6, <1>7, DeviceStepKeeps

\* The start of whatever is at the executable's path keeps the parts.
LEMMA DaemonStartsKeeps ==
    ASSUME UpgradeParts, DaemonStarts
    PROVE  UpgradeParts'
  <1>1. /\ exe # NoFile /\ deviceUp' = TRUE /\ runningVersion' = exe /\ UNCHANGED serverSide
        /\ \/ \E c \in UpgradeCmd : ledger[c] = "started" /\ daemon' = [pc |-> "begun", cmd |-> c]
           \/ daemon' = AtRest
        /\ UNCHANGED <<connected, inbox>>
        /\ UNCHANGED <<ledger, exe, oldExe, exitDue, deviceFaults, rollbackLost>>
    BY DEF DaemonStarts, Startable
  <1>2. /\ UNCHANGED <<plans, requests, recovery, upgradeCmds>> /\ CmdsMove
        /\ inbox' \in Seq(UpgradeCmd) /\ InboxOK' /\ connected' \in BOOLEAN
    BY <1>1, DeviceOnly
  <1>3. DeviceTypeOK'
    BY <1>1, DeviceFacts DEF DeviceTypeOK, DaemonRecord, AtRest
  <1>4. DeviceCmdOK'
    BY <1>1, <1>2, DeviceFacts DEF DeviceTypeOK, DeviceCmdOK, LedgerTable, AtRest
  <1>5. ExeOK'
    BY <1>1, DeviceFacts DEF ExeOK, BinaryRecoverable, AtRest
  <1>. QED  BY <1>2, <1>3, <1>4, <1>5, DeviceStepKeeps

----------------------------------------------------------------------------
(* The theorems.                                                           *)

\* The parts hold before the first request.
LEMMA UpgradeInitParts ==
    ASSUME AgentUpgradeInit
    PROVE  UpgradeParts
  <1>. USE DEF AgentUpgradeInit
  <1>1. UnusedPlan \in PlanRecord /\ UnusedCmd \in CmdRecord /\ UnusedPlan.stage = "unused"
        /\ UnusedCmd.status = "unused"
    BY IdleRequestOK DEF UnusedPlan, UnusedCmd, PlanRecord, CmdRecord, CmdStatus
  <1>2. AgentUpgradeTypeOK
    <2>1. requests \in [UpgradeRequest -> RequestRecord]
      BY IdleRequestOK
    <2>2. inbox \in Seq(UpgradeCmd) /\ 0 \in 0 .. MaxDeviceFault /\ 1 \in Versions
      BY AgentUpgradeAssumption
    <2>3. /\ plans \in [UpgradePlan -> PlanRecord] /\ upgradeCmds \in [UpgradeCmd -> CmdRecord]
          /\ ledger \in LedgerTable
      BY <1>1 DEF LedgerTable
    <2>4. AtRest \in DaemonRecord /\ AtRest \in RecoveryRecord /\ AtRest.pc = "idle"
      BY DEF AtRest, DaemonRecord, RecoveryRecord
    <2>. QED  BY <2>1, <2>2, <2>3, <2>4
              DEF AgentUpgradeTypeOK, RequestRecord, RecoveryRecord, DaemonRecord, LedgerTable
  <1>3. RequestCmdOK /\ RecoveryOK /\ InboxOK /\ DeviceCmdOK
    BY IdleRequestOK DEF RequestCmdOK, RecoveryOK, RecoveryRecord, InboxOK, DeviceCmdOK, AtRest
  <1>4. ExeOK
    BY DEF ExeOK, BinaryRecoverable, AtRest, NoFile
  <1>5. ServerParts
    BY <1>1 DEF ServerParts, PlannedOK, Planned, IdleRequest, KeyOnce, CmdPlanOK, PlanOnce, HasPlan, PendingOnce
  <1>. QED  BY <1>2, <1>3, <1>4, <1>5 DEF UpgradeParts

\* Every step keeps the parts.
LEMMA UpgradeStep ==
    ASSUME UpgradeParts, [AgentUpgradeNext]_agentUpgradeVars
    PROVE  UpgradeParts'
  <1>1. CASE UNCHANGED agentUpgradeVars
    <2>1. UNCHANGED deviceSide /\ UNCHANGED <<plans, requests, recovery, upgradeCmds, connected, inbox, deviceFaults>>
      BY <1>1 DEF agentUpgradeVars, deviceSide
    <2>2. /\ PlansEnd /\ CmdsMove /\ RequestsGoOn /\ RecoveryOK' /\ inbox' \in Seq(UpgradeCmd) /\ InboxOK'
          /\ connected' \in BOOLEAN /\ deviceFaults' \in 0 .. MaxDeviceFault
      BY <2>1, PlansStill, CmdsStill, RequestsStill, RecoveryStill, InboxStill DEF UpgradeParts, AgentUpgradeTypeOK
    <2>. QED  BY <2>1, <2>2, ServerStepKeeps
  <1>2. ASSUME NEW q \in UpgradeRequest, RequestStep(q) PROVE UpgradeParts'
    BY <1>2, RequestUpgradeKeeps, RequestUnplannedKeeps, CreateCommandKeeps, StartDispatchKeeps,
       PublishCommandKeeps, FinishHeardKeeps, FinishMissedKeeps, WithdrawCommandKeeps DEF RequestStep
  <1>3. ASSUME NEW c \in UpgradeCmd, CommandExpires(c) \/ CommitReady(c) PROVE UpgradeParts'
    BY <1>3, CommandExpiresKeeps, CommitReadyKeeps
  <1>4. CASE StreamStep \/ ServerRestarts
    BY <1>4, StreamOpensKeeps, StreamBreaksKeeps, RecoverPublishKeeps, RecoverFinishKeeps,
       ServerRestartsKeeps DEF StreamStep
  <1>5. CASE DeviceStep
    BY <1>5, TakeEventKeeps, SendAcceptedKeeps, AlreadyCurrentKeeps, FetchCandidateKeeps, BackUpKeeps, PlaceCandidateKeeps,
       FinishReplacementKeeps, ReportResultKeeps, RetryResultKeeps, DaemonStopsKeeps, DaemonStartsKeeps
    DEF DeviceStep
  <1>. QED  BY <1>1, <1>2, <1>3, <1>4, <1>5 DEF AgentUpgradeNext

\* The inductive invariant of the upgrade: whoever has a plan has its key or has it
\* alone, and the executable is away only between the two renames.
THEOREM UpgradeInvariant == AgentUpgradeSpec => []UpgradeParts
  <1>1. AgentUpgradeInit => UpgradeParts
    BY UpgradeInitParts
  <1>2. UpgradeParts /\ [AgentUpgradeNext]_agentUpgradeVars => UpgradeParts'
    BY UpgradeStep
  <1>. QED  BY <1>1, <1>2, PTL DEF AgentUpgradeSpec

\* Wherever an upgrade stops a binary is left, at its path or, between the two renames,
\* beside it (unless a rollback failed); a plan has one command and the device one plan,
\* however requests, restarts and the deaths of the daemon interleave.
THEOREM UpgradesConsistent == AgentUpgradeSpec => []AgentUpgradeInv
  <1>1. UpgradeParts => AgentUpgradeInv
    <2>. SUFFICES ASSUME UpgradeParts PROVE AgentUpgradeInv
      OBVIOUS
    <2>1. AgentUpgradeTypeOK /\ BinaryRecoverable
      BY DEF UpgradeParts, ExeOK
    <2>2. OneCommandPerPlan
      BY DEF UpgradeParts, ServerParts, PlanOnce, HasPlan, OneCommandPerPlan
    <2>3. OnePlanAtATime
      <3>1. PICK pending : pending = {p \in UpgradePlan : plans[p].stage = "pending"}
        OBVIOUS
      <3>2. pending = {} \/ \E p \in UpgradePlan : pending = {p}
        BY <3>1 DEF UpgradeParts, ServerParts, PendingOnce
      <3>3. pending = {} => Cardinality(pending) = 0
        BY FS_EmptySet, Zenon
      <3>4. \A p \in UpgradePlan : pending = {p} => Cardinality(pending) = 1
        BY FS_Singleton, Zenon
      <3>. QED  BY <3>1, <3>2, <3>3, <3>4 DEF OnePlanAtATime
    <2>. QED  BY <2>1, <2>2, <2>3 DEF AgentUpgradeInv
  <1>. QED  BY <1>1, UpgradeInvariant, PTL

\* What a step writes into the ledger is true of the executable.
LEMMA SuccessInstalled ==
    ASSUME UpgradeParts, [AgentUpgradeNext]_agentUpgradeVars, NEW c \in UpgradeCmd,
           ledger'[c] = "succeeded", ledger[c] # "succeeded"
    PROVE  \/ upgradeCmds[c].payload.target = exe'
           \/ ~upgradeCmds[c].payload.force /\ upgradeCmds[c].payload.target = runningVersion
  <1>1. ledger' # ledger
    OBVIOUS
  <1>2. \/ AlreadyCurrent \/ TakeEvent \/ \E removed \in BOOLEAN : FinishReplacement(removed)
        \/ \E sent, answered \in BOOLEAN : PostAccepted(sent, answered)
        \/ Conclude("failed", "report")
    <2>1. CASE UNCHANGED agentUpgradeVars
      BY <1>1, <2>1 DEF agentUpgradeVars
    <2>2. ASSUME NEW q \in UpgradeRequest, RequestStep(q) PROVE FALSE
      <3>1. UNCHANGED deviceSide
        BY <2>2 DEF RequestStep, RequestUpgrade, RequestUnplanned, CreateCommand, StartDispatch,
           PublishCommand, FinishHeard, FinishMissed, WithdrawCommand
      <3>. QED  BY <1>1, <3>1 DEF deviceSide
    <2>3. ASSUME NEW d \in UpgradeCmd, CommandExpires(d) \/ CommitReady(d) PROVE FALSE
      <3>1. UNCHANGED deviceSide
        BY <2>3 DEF CommandExpires, CommitReady
      <3>. QED  BY <1>1, <3>1 DEF deviceSide
    <2>4. CASE StreamStep \/ ServerRestarts
      <3>1. UNCHANGED deviceSide
        BY <2>4 DEF StreamStep, StreamOpens, StreamBreaks, RecoverPublish, RecoverFinish, ServerRestarts
      <3>. QED  BY <1>1, <3>1 DEF deviceSide
    <2>5. CASE DeviceStep
      <3>1. ASSUME NEW ok \in BOOLEAN, FetchCandidate(ok) \/ BackUp(ok) PROVE Conclude("failed", "report")
        BY <1>1, <3>1 DEF FetchCandidate, BackUp
      <3>2. ASSUME NEW ok \in BOOLEAN, NEW back \in BOOLEAN, PlaceCandidate(ok, back) PROVE Conclude("failed", "report")
        BY <1>1, <3>2 DEF PlaceCandidate
      <3>3. ASSUME NEW sent \in BOOLEAN, ReportResult(sent) PROVE FALSE
        BY <1>1, <3>3 DEF ReportResult
      <3>4. ASSUME NEW d \in UpgradeCmd, RetryResult(d) PROVE FALSE
        BY <1>1, <3>4 DEF RetryResult, deviceSide
      <3>5. ASSUME DaemonStops \/ DaemonStarts PROVE FALSE
        BY <1>1, <3>5 DEF DaemonStops, DaemonStarts
      <3>. QED  BY <2>5, <3>1, <3>2, <3>3, <3>4, <3>5 DEF DeviceStep
    <2>. QED  BY <2>1, <2>2, <2>3, <2>4, <2>5 DEF AgentUpgradeNext
  <1>3. ledger \in LedgerTable
    BY DeviceFacts DEF DeviceTypeOK
  <1>. USE DEF LedgerTable
  <1>4. CASE AlreadyCurrent
    BY <1>3, <1>4 DEF AlreadyCurrent, Conclude, Target, Forced
  <1>5. CASE TakeEvent
    <2>1. ledger' = ledger \/ ledger' = [ledger EXCEPT ![Head(inbox)] = "started"]
      BY <1>5 DEF TakeEvent
    <2>. QED  BY <1>3, <2>1
  <1>6. ASSUME NEW removed \in BOOLEAN, FinishReplacement(removed)
        PROVE  upgradeCmds[c].payload.target = exe'
    BY <1>3, <1>6, DeviceFacts DEF FinishReplacement, Conclude, ExeOK
  <1>7. CASE Conclude("failed", "report")
    BY <1>3, <1>7 DEF Conclude
  <1>8. ASSUME NEW sent \in BOOLEAN, NEW answered \in BOOLEAN, PostAccepted(sent, answered) PROVE FALSE
    <2>1. ledger' = ledger \/ ledger' = [ledger EXCEPT ![daemon.cmd] = "confirmed"]
      BY <1>8 DEF PostAccepted
    <2>. QED  BY <1>3, <2>1
  <1>. QED  BY <1>2, <1>4, <1>5, <1>6, <1>7, <1>8

\* A success is written into the ledger only when the wanted version is at the
\* executable's path, or, without force, when it is what runs; whether what runs is
\* also what is at the path is not said, and an earlier upgrade may have changed it.
THEOREM SuccessIsInstalled == AgentUpgradeSpec => ReportedIsInstalled
  <1>1. UpgradeParts /\ [AgentUpgradeNext]_agentUpgradeVars =>
          [\A c \in UpgradeCmd :
             ledger'[c] = "succeeded" /\ ledger[c] # "succeeded"
             => \/ upgradeCmds[c].payload.target = exe'
                \/ /\ ~upgradeCmds[c].payload.force
                   /\ upgradeCmds[c].payload.target = runningVersion]_agentUpgradeVars
    BY SuccessInstalled
  <1>. QED  BY <1>1, UpgradeInvariant, PTL DEF AgentUpgradeSpec, ReportedIsInstalled

----------------------------------------------------------------------------
(* GitHub credentials and device keys.                                     *)

GHEvent == [kind : {"sync", "revoke"}, token : GHToken \cup {Blank}]

\* The variables GHTypeOK leaves out.
GHLocalsOK ==
    /\ dismiss \in [GHDevice -> [pc : {"idle", "remote", "event"}, token : GHToken,
                                 todo : SUBSET (1 .. MaxKeyNo)]]
    /\ enrol \in [GHDevice -> [pc : {"idle", "check", "remote", "store", "registered", "refused"},
                               token : GHToken, key : 0 .. MaxKeyNo]]
    /\ ghInbox \in [GHDevice -> Seq(GHEvent)]
    /\ ghUsed \in [grants : SUBSET GHGrant, keys : 0 .. MaxKeyNo]
    /\ ghFaults \in Nat

\* Every key was generated by one device and is only ever that device's.
OwnedBy(d) == {ghMem.keys[d], ghFile.keys[d], enrol[d].key, ghAgent[d].key}

KeyOwners ==
    /\ \A d \in GHDevice : \A k \in OwnedBy(d) : k <= ghUsed.keys
    /\ \A d, e \in GHDevice : d # e => \A k \in OwnedBy(d) \cap OwnedBy(e) : k = NoKeyNo

\* A key that is being registered is not the one that is listed for its device.
EnrolOK ==
    \A d \in GHDevice :
        /\ enrol[d].pc \in {"check", "remote", "store"} => enrol[d].key # NoKeyNo
        /\ enrol[d].pc \in {"remote", "store"} => ghMem.keys[d] # enrol[d].key

Dismissing(d) == dismiss[d].pc = "remote"

\* As long as nothing failed: what is listed, and what is about to be, is at GitHub,
\* and nobody is about to delete it there.
KeysLive ==
    /\ Recorded(ghMem.keys) \cup Recorded(ghFile.keys) \subseteq ghKeys
    /\ \A d \in GHDevice : enrol[d].pc = "store" =>
          /\ enrol[d].key \in ghKeys /\ enrol[d].key \notin farewell.todo
          /\ \A e \in GHDevice : Dismissing(e) => enrol[d].key \notin dismiss[e].todo
    /\ farewell.todo \subseteq ghKeys /\ farewell.todo \cap Recorded(ghMem.keys) = {}
    /\ farewell.pc = "remote" => farewell.todo \cap Recorded(ghFile.keys) = {}
    /\ \A d \in GHDevice : Dismissing(d) =>
          /\ dismiss[d].todo \subseteq ghKeys /\ dismiss[d].todo \cap farewell.todo = {}
          /\ dismiss[d].todo \cap (Recorded(ghMem.keys) \cup Recorded(ghFile.keys)) = {}
          /\ \A e \in GHDevice : Dismissing(e) /\ e # d => dismiss[d].todo \cap dismiss[e].todo = {}

KeysOK == ghFaults = 0 => KeysLive

GHParts == GHTypeOK /\ GHLocalsOK /\ KeyOwners /\ EnrolOK /\ KeysOK

----------------------------------------------------------------------------
(* What the operations are built from.                                     *)

\* A step after which no key is listed, registered, held or about to be deleted that
\* was not before.
LEMMA NothingNew ==
    ASSUME GHParts, ghKeys' = ghKeys, ghUsed'.keys = ghUsed.keys,
           \A d \in GHDevice : /\ ghMem'.keys[d] \in {ghMem.keys[d], NoKeyNo}
                              /\ ghFile'.keys[d] \in {ghFile.keys[d], NoKeyNo}
                              /\ ghAgent'[d].key \in {ghAgent[d].key, NoKeyNo},
           \A d \in GHDevice :
              \/ enrol'[d].key = enrol[d].key /\ enrol'[d].pc = enrol[d].pc
              \/ enrol'[d].key = enrol[d].key /\ enrol'[d].pc \in {"idle", "registered", "refused"},
           farewell'.todo \subseteq farewell.todo,
           ghFaults' = 0 /\ farewell'.pc = "remote" =>
              farewell.pc = "remote" \/ Recorded(ghFile'.keys) = {},
           \A d \in GHDevice : Dismissing(d)' => Dismissing(d) /\ dismiss'[d] = dismiss[d],
           ghFaults' = 0 => ghFaults = 0
    PROVE  KeyOwners' /\ EnrolOK' /\ KeysOK'
  <1>. USE DEF GHParts
  <1>1. \A d \in GHDevice : OwnedBy(d)' \subseteq OwnedBy(d) \cup {NoKeyNo}
    BY DEF OwnedBy
  <1>2. NoKeyNo <= ghUsed.keys
    BY DEF GHLocalsOK, NoKeyNo
  <1>3. KeyOwners'
    BY <1>1, <1>2 DEF KeyOwners
  <1>4. EnrolOK'
    BY DEF EnrolOK
  <1>5. ASSUME ghFaults' = 0
        PROVE  KeysLive'
    <2>1. KeysLive
      BY <1>5 DEF KeysOK
    <2>2. Recorded(ghMem.keys)' \subseteq Recorded(ghMem.keys)
          /\ Recorded(ghFile.keys)' \subseteq Recorded(ghFile.keys)
      BY DEF Recorded
    <2>3. \A d \in GHDevice : enrol'[d].pc = "store" =>
             enrol[d].pc = "store" /\ enrol'[d].key = enrol[d].key
      OBVIOUS
    <2>4. (Recorded(ghMem.keys) \cup Recorded(ghFile.keys))' \subseteq ghKeys'
      BY <2>1, <2>2 DEF KeysLive
    <2>5. \A d \in GHDevice : enrol'[d].pc = "store" =>
              /\ enrol'[d].key \in ghKeys' /\ enrol'[d].key \notin farewell'.todo
              /\ \A e \in GHDevice : Dismissing(e)' => enrol'[d].key \notin dismiss'[e].todo
      BY <2>1, <2>3 DEF KeysLive
    <2>6. farewell'.todo \subseteq ghKeys' /\ farewell'.todo \cap Recorded(ghMem.keys)' = {}
      BY <2>1, <2>2 DEF KeysLive
    <2>7. farewell'.pc = "remote" => farewell'.todo \cap Recorded(ghFile.keys)' = {}
      BY <1>5, <2>1, <2>2 DEF KeysLive
    <2>8. \A d \in GHDevice : Dismissing(d)' =>
              /\ dismiss'[d].todo \subseteq ghKeys' /\ dismiss'[d].todo \cap farewell'.todo = {}
              /\ dismiss'[d].todo \cap (Recorded(ghMem.keys) \cup Recorded(ghFile.keys))' = {}
              /\ \A e \in GHDevice : Dismissing(e)' /\ e # d => dismiss'[d].todo \cap dismiss'[e].todo = {}
      BY <2>1, <2>2 DEF KeysLive
    <2>. QED  BY <2>4, <2>5, <2>6, <2>7, <2>8 DEF KeysLive
  <1>. QED  BY <1>3, <1>4, <1>5 DEF KeysOK

\* An event sent to some of the devices.
LEMMA PushEffect ==
    ASSUME GHParts, NEW D \in SUBSET GHDevice, NEW k, NEW e \in GHEvent, Push(D, k, e)
    PROVE  /\ ghCommands' \in [GHDevice -> [CommandKey -> {"none", "queued", "used"}]]
           /\ ghInbox' \in [GHDevice -> Seq(GHEvent)]
  <1>. USE DEF GHParts
  <1>1. PICK busy \in BOOLEAN, S \in SUBSET D :
          /\ S = {d \in D : Creates(ghCommands[d], k, busy)}
          /\ ghCommands' = [d \in GHDevice |->
               IF d \in S THEN [ghCommands[d] EXCEPT ![k] = IF online[d] THEN "used" ELSE "queued"]
               ELSE ghCommands[d]]
          /\ ghInbox' = [d \in GHDevice |->
               IF d \in S /\ online[d] THEN Append(ghInbox[d], e) ELSE ghInbox[d]]
    BY DEF Push
  <1>2. ghCommands \in [GHDevice -> [CommandKey -> {"none", "queued", "used"}]]
        /\ ghInbox \in [GHDevice -> Seq(GHEvent)]
    BY DEF GHTypeOK, GHLocalsOK
  <1>3. \A d \in GHDevice : ghCommands'[d] \in [CommandKey -> {"none", "queued", "used"}]
    BY <1>1, <1>2
  <1>4. \A d \in GHDevice : ghInbox'[d] \in Seq(GHEvent)
    BY <1>1, <1>2
  <1>. QED  BY <1>1, <1>3, <1>4

\* The events are events.
LEMMA EventTypes ==
    /\ RevokeEvent \in GHEvent
    /\ \A g \in GHToken \cup {Blank} : SyncEvent(g) \in GHEvent
  BY DEF RevokeEvent, SyncEvent, GHEvent, GHToken

\* Faults are counted.
LEMMA FaultCounted ==
    ASSUME GHParts, NEW ok \in BOOLEAN, GHFault(ok)
    PROVE  ghFaults' \in Nat /\ (ghFaults' = 0 => ok /\ ghFaults = 0)
  BY DEF GHParts, GHLocalsOK, GHFault

\* The variables of the key registration, unfolded.
LEMMA GHFacts ==
    ASSUME GHParts
    PROVE  /\ ghMem \in [creds: GHToken, flow: Poller \cup {NoCode},
                         cancel: Poller \cup {NoCode}, keys: [GHDevice -> 0 .. MaxKeyNo]]
           /\ ghFile \in [creds: GHToken, keys: [GHDevice -> 0 .. MaxKeyNo]]
           /\ farewell \in [pc: {"idle", "files", "remote"}, token: GHToken, todo: SUBSET (1 .. MaxKeyNo)]
           /\ dismiss \in [GHDevice -> [pc : {"idle", "remote", "event"}, token : GHToken,
                                        todo : SUBSET (1 .. MaxKeyNo)]]
           /\ enrol \in [GHDevice -> [pc : {"idle", "check", "remote", "store", "registered", "refused"},
                                      token : GHToken, key : 0 .. MaxKeyNo]]
           /\ ghAgent \in [GHDevice -> [token: GHToken \cup {Blank}, key: 0 .. MaxKeyNo,
                                        asks: GHToken \cup {Blank}]]
           /\ ghKeys \subseteq 1 .. MaxKeyNo
           /\ NoOAuth \in GHToken /\ NoKeyNo = 0 /\ MaxKeyNo \in Nat
  BY GitHubSyncAssumption DEF GHParts, GHTypeOK, GHLocalsOK, GHToken, NoKeyNo

\* The recorded keys are keys.
LEMMA RecordedType ==
    ASSUME NEW keys \in [GHDevice -> 0 .. MaxKeyNo], MaxKeyNo \in Nat
    PROVE  /\ Recorded(keys) \in SUBSET (1 .. MaxKeyNo)
           /\ \A k : k \in Recorded(keys) <=> k # NoKeyNo /\ \E d \in GHDevice : keys[d] = k
  BY DEF Recorded, NoKeyNo

----------------------------------------------------------------------------
(* The device flow.                                                        *)

\* What the flow leaves alone.
LEMMA FlowKeeps ==
    ASSUME GHParts, UNCHANGED FlowUnchanged,
           ghMem' \in [creds: GHToken, flow: Poller \cup {NoCode},
                       cancel: Poller \cup {NoCode}, keys: [GHDevice -> 0 .. MaxKeyNo]],
           ghMem'.keys = ghMem.keys,
           ghFile' \in [creds: GHToken, keys: [GHDevice -> 0 .. MaxKeyNo]], ghFile'.keys = ghFile.keys,
           pollers' \in [Poller -> [pc: {"off", "requesting", "waiting", "granted", "saving"},
                                    canceled: BOOLEAN, token: GHToken]],
           ghCommands' \in [GHDevice -> [CommandKey -> {"none", "queued", "used"}]],
           ghInbox' \in [GHDevice -> Seq(GHEvent)],
           ghUsed' \in [grants : SUBSET GHGrant, keys : 0 .. MaxKeyNo], ghUsed'.keys = ghUsed.keys,
           ghFaults' \in Nat, ghFaults' = 0 => ghFaults = 0
    PROVE  GHParts'
  <1>1. UNCHANGED <<farewell, dismiss, enrol, ghEnabled, online, ghAgent, ghKeys, ghStarts>>
    BY DEF FlowUnchanged
  <1>2. KeyOwners' /\ EnrolOK' /\ KeysOK'
    BY <1>1, NothingNew DEF Dismissing
  <1>3. GHTypeOK' /\ GHLocalsOK'
    BY <1>1 DEF GHParts, GHTypeOK, GHLocalsOK
  <1>. QED  BY <1>2, <1>3 DEF GHParts

\* The poller's record replaced.
LEMMA PollEffect ==
    ASSUME GHParts, NEW p \in Poller,
           NEW r \in [pc: {"off", "requesting", "waiting", "granted", "saving"},
                      canceled: BOOLEAN, token: GHToken], Poll(p, r)
    PROVE  pollers' \in [Poller -> [pc: {"off", "requesting", "waiting", "granted", "saving"},
                                    canceled: BOOLEAN, token: GHToken]]
  BY DEF GHParts, GHTypeOK, Poll

\* What a step of a poller needs to know.
LEMMA FlowFacts ==
    ASSUME GHParts, NEW p \in Poller
    PROVE  /\ pollers[p] \in [pc: {"off", "requesting", "waiting", "granted", "saving"},
                              canceled: BOOLEAN, token: GHToken]
           /\ OffPoller \in [pc: {"off", "requesting", "waiting", "granted", "saving"},
                             canceled: BOOLEAN, token: GHToken]
           /\ ghCommands \in [GHDevice -> [CommandKey -> {"none", "queued", "used"}]]
           /\ ghInbox \in [GHDevice -> Seq(GHEvent)]
           /\ ghUsed \in [grants : SUBSET GHGrant, keys : 0 .. MaxKeyNo]
           /\ ghFaults \in Nat
  BY GHFacts DEF GHParts, GHTypeOK, GHLocalsOK, OffPoller

\* StartDeviceFlow keeps the parts.
LEMMA BeginFlowKeeps ==
    ASSUME GHParts, NEW p \in Poller, BeginFlow(p)
    PROVE  GHParts'
  <1>1. /\ ghMem' = [ghMem EXCEPT !.cancel = NoCode]
        /\ pollers' = [q \in Poller |->
             IF q = p THEN [OffPoller EXCEPT !.pc = "requesting"]
             ELSE IF q = ghMem.cancel THEN [pollers[q] EXCEPT !.canceled = TRUE]
             ELSE pollers[q]]
        /\ UNCHANGED <<ghFile, ghCommands, ghInbox, ghUsed, ghFaults>> /\ UNCHANGED FlowUnchanged
    BY DEF BeginFlow
  <1>2. pollers' \in [Poller -> [pc: {"off", "requesting", "waiting", "granted", "saving"},
                                 canceled: BOOLEAN, token: GHToken]]
    BY <1>1, FlowFacts DEF OffPoller
  <1>3. /\ ghMem' \in [creds: GHToken, flow: Poller \cup {NoCode},
                       cancel: Poller \cup {NoCode}, keys: [GHDevice -> 0 .. MaxKeyNo]]
        /\ ghMem'.keys = ghMem.keys
    BY <1>1, GHFacts
  <1>. QED  BY <1>1, <1>2, <1>3, GHFacts, FlowFacts, FlowKeeps

\* The device code keeps the parts.
LEMMA GetCodeKeeps ==
    ASSUME GHParts, NEW p \in Poller, NEW ok \in BOOLEAN, GetCode(p, ok)
    PROVE  GHParts'
  <1>1. /\ GHFault(ok) /\ ghMem' = IF ok THEN [ghMem EXCEPT !.flow = p, !.cancel = p] ELSE ghMem
        /\ Poll(p, IF ok THEN [pollers[p] EXCEPT !.pc = "waiting"] ELSE OffPoller)
        /\ UNCHANGED <<ghRequests, ghFile, ghCommands, ghInbox, ghUsed>> /\ UNCHANGED FlowUnchanged
    BY DEF GetCode
  <1>2. pollers' \in [Poller -> [pc: {"off", "requesting", "waiting", "granted", "saving"},
                                 canceled: BOOLEAN, token: GHToken]]
    BY <1>1, FlowFacts, PollEffect
  <1>3. /\ ghMem' \in [creds: GHToken, flow: Poller \cup {NoCode},
                       cancel: Poller \cup {NoCode}, keys: [GHDevice -> 0 .. MaxKeyNo]]
        /\ ghMem'.keys = ghMem.keys
    BY <1>1, GHFacts
  <1>. QED  BY <1>1, <1>2, <1>3, GHFacts, FlowFacts, FaultCounted, FlowKeeps

\* The end of a poller keeps the parts.
LEMMA PollerEndsKeeps ==
    ASSUME GHParts, NEW p \in Poller, PollerEnds(p)
    PROVE  GHParts'
  <1>1. /\ Poll(p, OffPoller)
        /\ ghMem' = IF ghMem.flow = p THEN [ghMem EXCEPT !.flow = NoCode] ELSE ghMem
        /\ UNCHANGED <<ghRequests, ghFile, ghCommands, ghInbox, ghUsed, ghFaults>>
        /\ UNCHANGED FlowUnchanged
    BY DEF PollerEnds
  <1>2. pollers' \in [Poller -> [pc: {"off", "requesting", "waiting", "granted", "saving"},
                                 canceled: BOOLEAN, token: GHToken]]
    BY <1>1, FlowFacts, PollEffect
  <1>3. /\ ghMem' \in [creds: GHToken, flow: Poller \cup {NoCode},
                       cancel: Poller \cup {NoCode}, keys: [GHDevice -> 0 .. MaxKeyNo]]
        /\ ghMem'.keys = ghMem.keys
    BY <1>1, GHFacts
  <1>. QED  BY <1>1, <1>2, <1>3, GHFacts, FlowFacts, FlowKeeps

\* A granted token keeps the parts.
LEMMA PollGrantedKeeps ==
    ASSUME GHParts, NEW p \in Poller, NEW g \in GHGrant, PollGranted(p, g)
    PROVE  GHParts'
  <1>1. /\ ghUsed' = [ghUsed EXCEPT !.grants = ghUsed.grants \cup {g}]
        /\ Poll(p, [pollers[p] EXCEPT !.pc = "granted", !.token = g])
        /\ UNCHANGED <<ghRequests, ghMem, ghFile, ghCommands, ghInbox, ghFaults>>
        /\ UNCHANGED FlowUnchanged
    BY DEF PollGranted
  <1>2. pollers' \in [Poller -> [pc: {"off", "requesting", "waiting", "granted", "saving"},
                                 canceled: BOOLEAN, token: GHToken]]
    <2>1. [pollers[p] EXCEPT !.pc = "granted", !.token = g]
            \in [pc: {"off", "requesting", "waiting", "granted", "saving"}, canceled: BOOLEAN, token: GHToken]
      BY FlowFacts DEF GHToken
    <2>. QED  BY <1>1, <2>1, PollEffect
  <1>3. ghUsed' \in [grants : SUBSET GHGrant, keys : 0 .. MaxKeyNo] /\ ghUsed'.keys = ghUsed.keys
    BY <1>1, FlowFacts
  <1>. QED  BY <1>1, <1>2, <1>3, GHFacts, FlowFacts, FlowKeeps

\* The credentials in memory keep the parts.
LEMMA StoreCredsKeeps ==
    ASSUME GHParts, NEW p \in Poller, NEW ok \in BOOLEAN, StoreCreds(p, ok)
    PROVE  GHParts'
  <1>1. /\ GHFault(ok)
        /\ ghMem' = IF ok THEN [ghMem EXCEPT !.creds = pollers[p].token, !.flow = NoCode] ELSE ghMem
        /\ Poll(p, IF ok THEN [pollers[p] EXCEPT !.pc = "saving"]
                   ELSE [pollers[p] EXCEPT !.pc = "waiting", !.token = NoOAuth])
        /\ UNCHANGED <<ghRequests, ghFile, ghCommands, ghInbox, ghUsed>> /\ UNCHANGED FlowUnchanged
    BY DEF StoreCreds
  <1>2. pollers' \in [Poller -> [pc: {"off", "requesting", "waiting", "granted", "saving"},
                                 canceled: BOOLEAN, token: GHToken]]
    BY <1>1, FlowFacts, GHFacts, PollEffect
  <1>3. /\ ghMem' \in [creds: GHToken, flow: Poller \cup {NoCode},
                       cancel: Poller \cup {NoCode}, keys: [GHDevice -> 0 .. MaxKeyNo]]
        /\ ghMem'.keys = ghMem.keys
    BY <1>1, GHFacts, FlowFacts
  <1>. QED  BY <1>1, <1>2, <1>3, GHFacts, FlowFacts, FaultCounted, FlowKeeps

\* The credentials in their file, and the broadcast, keep the parts.
LEMMA SaveCredsKeeps ==
    ASSUME GHParts, NEW p \in Poller, NEW ok \in BOOLEAN, SaveCreds(p, ok)
    PROVE  GHParts'
  <1>1. /\ GHFault(ok)
        /\ ghFile' = IF ok THEN [ghFile EXCEPT !.creds = pollers[p].token] ELSE ghFile
        /\ Poll(p, IF ok THEN OffPoller ELSE [pollers[p] EXCEPT !.pc = "waiting", !.token = NoOAuth])
        /\ IF ok /\ ghMem.creds # NoOAuth
           THEN Push({d \in GHDevice : ghEnabled[d] /\ online[d]}, <<"sync", ghMem.creds>>,
                     SyncEvent(ghMem.creds))
           ELSE UNCHANGED <<ghCommands, ghInbox>>
        /\ UNCHANGED <<ghRequests, ghMem, ghUsed>> /\ UNCHANGED FlowUnchanged
    BY DEF SaveCreds
  <1>2. pollers' \in [Poller -> [pc: {"off", "requesting", "waiting", "granted", "saving"},
                                 canceled: BOOLEAN, token: GHToken]]
    BY <1>1, FlowFacts, GHFacts, PollEffect
  <1>3. /\ ghFile' \in [creds: GHToken, keys: [GHDevice -> 0 .. MaxKeyNo]]
        /\ ghFile'.keys = ghFile.keys
    BY <1>1, GHFacts, FlowFacts
  <1>4. /\ ghCommands' \in [GHDevice -> [CommandKey -> {"none", "queued", "used"}]]
        /\ ghInbox' \in [GHDevice -> Seq(GHEvent)]
    <2>1. SyncEvent(ghMem.creds) \in GHEvent
      BY GHFacts, EventTypes
    <2>2. CASE ok /\ ghMem.creds # NoOAuth
      BY <1>1, <2>1, <2>2, PushEffect
    <2>3. CASE ~(ok /\ ghMem.creds # NoOAuth)
      BY <1>1, <2>3, FlowFacts
    <2>. QED  BY <2>2, <2>3
  <1>. QED  BY <1>1, <1>2, <1>3, <1>4, GHFacts, FlowFacts, FaultCounted, FlowKeeps

----------------------------------------------------------------------------
(* Disconnecting.                                                          *)

\* What the types are made of, for a step that leaves the pollers alone.
LEMMA TypesKept ==
    ASSUME GHParts, UNCHANGED pollers,
           ghMem' \in [creds: GHToken, flow: Poller \cup {NoCode},
                       cancel: Poller \cup {NoCode}, keys: [GHDevice -> 0 .. MaxKeyNo]],
           ghFile' \in [creds: GHToken, keys: [GHDevice -> 0 .. MaxKeyNo]],
           farewell' \in [pc: {"idle", "files", "remote"}, token: GHToken, todo: SUBSET (1 .. MaxKeyNo)],
           dismiss' \in [GHDevice -> [pc : {"idle", "remote", "event"}, token : GHToken,
                                      todo : SUBSET (1 .. MaxKeyNo)]],
           enrol' \in [GHDevice -> [pc : {"idle", "check", "remote", "store", "registered", "refused"},
                                    token : GHToken, key : 0 .. MaxKeyNo]],
           ghAgent' \in [GHDevice -> [token: GHToken \cup {Blank}, key: 0 .. MaxKeyNo,
                                      asks: GHToken \cup {Blank}]],
           ghKeys' \subseteq 1 .. MaxKeyNo,
           ghCommands' \in [GHDevice -> [CommandKey -> {"none", "queued", "used"}]],
           ghInbox' \in [GHDevice -> Seq(GHEvent)],
           ghUsed' \in [grants : SUBSET GHGrant, keys : 0 .. MaxKeyNo], ghFaults' \in Nat,
           \A d \in GHDevice :
              enrol'[d].pc \in {"registered", "refused"} => ghAgent'[d].asks # NoOAuth
    PROVE  GHTypeOK' /\ GHLocalsOK'
  BY DEF GHParts, GHTypeOK, GHLocalsOK

\* What is left of the variables' types.
LEMMA GHMore ==
    ASSUME GHParts
    PROVE  /\ ghCommands \in [GHDevice -> [CommandKey -> {"none", "queued", "used"}]]
           /\ ghInbox \in [GHDevice -> Seq(GHEvent)]
           /\ ghUsed \in [grants : SUBSET GHGrant, keys : 0 .. MaxKeyNo]
           /\ ghFaults \in Nat
           /\ \A d \in GHDevice : enrol[d].pc \in {"registered", "refused"} => ghAgent[d].asks # NoOAuth
  BY DEF GHParts, GHTypeOK, GHLocalsOK

\* Disconnecting keeps the parts: what it is going to delete was listed in memory, where
\* it no longer is, so it is no key that is being registered or dismissed.
LEMMA DisconnectKeeps ==
    ASSUME GHParts, Disconnect
    PROVE  GHParts'
  <1>1. /\ farewell.pc = "idle"
        /\ farewell' = [pc |-> "files", token |-> ghMem.creds, todo |-> Recorded(ghMem.keys)]
        /\ ghMem' = [ghMem EXCEPT !.creds = NoOAuth, !.flow = NoCode, !.keys = NoKeys]
        /\ UNCHANGED <<ghFile, ghCommands, ghInbox, ghKeys, ghFaults, pollers, dismiss, enrol,
                       ghEnabled, online, ghAgent, ghUsed, ghStarts>>
    BY DEF Disconnect, FarewellUnchanged
  <1>2. /\ ghMem.keys \in [GHDevice -> 0 .. MaxKeyNo] /\ NoKeys \in [GHDevice -> 0 .. MaxKeyNo]
        /\ ghMem'.keys = NoKeys
        /\ Recorded(ghMem.keys) \in SUBSET (1 .. MaxKeyNo)
        /\ \A k : k \in Recorded(ghMem.keys) <=> k # NoKeyNo /\ \E d \in GHDevice : ghMem.keys[d] = k
        /\ \A d \in GHDevice : NoKeys[d] = NoKeyNo
    BY <1>1, GHFacts, RecordedType DEF NoKeys
  <1>3. GHTypeOK' /\ GHLocalsOK'
    BY <1>1, <1>2, GHFacts, GHMore, TypesKept
  <1>4. KeyOwners'
    <2>1. \A d \in GHDevice : OwnedBy(d)' \subseteq OwnedBy(d) \cup {NoKeyNo}
      BY <1>1, <1>2 DEF OwnedBy
    <2>2. NoKeyNo <= ghUsed.keys
      BY GHMore DEF NoKeyNo
    <2>. QED  BY <1>1, <2>1, <2>2 DEF KeyOwners, GHParts
  <1>5. EnrolOK'
    BY <1>1, <1>2 DEF EnrolOK, GHParts
  <1>6. ASSUME ghFaults' = 0
        PROVE  KeysLive'
    <2>1. KeysLive
      BY <1>1, <1>6 DEF KeysOK, GHParts
    <2>2. Recorded(ghMem.keys)' = {}
      BY <1>1, <1>2 DEF Recorded
    <2>3. \A d \in GHDevice : enrol[d].pc = "store" => enrol[d].key \notin Recorded(ghMem.keys)
      <3>1. SUFFICES ASSUME NEW d \in GHDevice, enrol[d].pc = "store", NEW e \in GHDevice,
                            ghMem.keys[e] = enrol[d].key
                     PROVE  FALSE
        BY <1>2
      <3>2. enrol[d].key # NoKeyNo /\ e # d
        BY <3>1 DEF GHParts, EnrolOK
      <3>. QED  BY <3>1, <3>2 DEF GHParts, KeyOwners, OwnedBy
    <2>. QED  BY <1>1, <2>1, <2>2, <2>3 DEF KeysLive, Dismissing
  <1>. QED  BY <1>3, <1>4, <1>5, <1>6 DEF GHParts, KeysOK

\* Removing the files keeps the parts.
LEMMA RemoveFilesKeeps ==
    ASSUME GHParts, NEW ok \in BOOLEAN, RemoveFiles(ok)
    PROVE  GHParts'
  <1>1. /\ GHFault(ok)
        /\ ghFile' = IF ok THEN [creds |-> NoOAuth, keys |-> NoKeys] ELSE ghFile
        /\ farewell' = [farewell EXCEPT !.pc = "remote",
                          !.todo = IF farewell.token = NoOAuth THEN {} ELSE farewell.todo]
        /\ UNCHANGED <<ghMem, ghCommands, ghInbox, ghKeys, pollers, dismiss, enrol,
                       ghEnabled, online, ghAgent, ghUsed, ghStarts>>
    BY DEF RemoveFiles, FarewellUnchanged
  <1>2. NoKeys \in [GHDevice -> 0 .. MaxKeyNo] /\ \A d \in GHDevice : NoKeys[d] = NoKeyNo
    BY GHFacts DEF NoKeys
  <1>3. /\ ghFile' \in [creds: GHToken, keys: [GHDevice -> 0 .. MaxKeyNo]]
        /\ \A d \in GHDevice : ghFile'.keys[d] \in {ghFile.keys[d], NoKeyNo}
        /\ ok => Recorded(ghFile'.keys) = {}
    BY <1>1, <1>2, GHFacts DEF Recorded
  <1>4. farewell' \in [pc: {"idle", "files", "remote"}, token: GHToken, todo: SUBSET (1 .. MaxKeyNo)]
        /\ farewell'.todo \subseteq farewell.todo
    BY <1>1, GHFacts
  <1>5. GHTypeOK' /\ GHLocalsOK'
    BY <1>1, <1>3, <1>4, GHFacts, GHMore, FaultCounted, TypesKept
  <1>6. KeyOwners' /\ EnrolOK' /\ KeysOK'
    BY <1>1, <1>3, <1>4, FaultCounted, NothingNew DEF Dismissing
  <1>. QED  BY <1>5, <1>6 DEF GHParts

\* Deleting a key at GitHub keeps the parts: it is no longer listed anywhere.
LEMMA DeleteRemoteKeeps ==
    ASSUME GHParts, NEW k, NEW ok \in BOOLEAN, DeleteRemote(k, ok)
    PROVE  GHParts'
  <1>1. /\ farewell.pc = "remote" /\ k \in farewell.todo /\ GHFault(ok)
        /\ ghKeys' = IF ok THEN ghKeys \ {k} ELSE ghKeys
        /\ farewell' = [farewell EXCEPT !.todo = farewell.todo \ {k}]
        /\ UNCHANGED <<ghMem, ghFile, ghCommands, ghInbox, pollers, dismiss, enrol,
                       ghEnabled, online, ghAgent, ghUsed, ghStarts>>
    BY DEF DeleteRemote, FarewellUnchanged
  <1>2. /\ farewell' \in [pc: {"idle", "files", "remote"}, token: GHToken, todo: SUBSET (1 .. MaxKeyNo)]
        /\ farewell'.todo = farewell.todo \ {k} /\ farewell'.pc = farewell.pc
    BY <1>1, GHFacts
  <1>3. GHTypeOK' /\ GHLocalsOK'
    BY <1>1, <1>2, GHFacts, GHMore, FaultCounted, TypesKept
  <1>4. KeyOwners' /\ EnrolOK'
    BY <1>1 DEF GHParts, KeyOwners, OwnedBy, EnrolOK
  <1>5. ASSUME ghFaults' = 0
        PROVE  KeysLive'
    <2>1. KeysLive /\ ghKeys' = ghKeys \ {k}
      BY <1>1, <1>5, FaultCounted DEF KeysOK, GHParts
    <2>. QED  BY <1>1, <1>2, <2>1 DEF KeysLive, Dismissing
  <1>. QED  BY <1>3, <1>4, <1>5 DEF GHParts, KeysOK

\* Telling the agents keeps the parts.
LEMMA BroadcastRevokeKeeps ==
    ASSUME GHParts, BroadcastRevoke
    PROVE  GHParts'
  <1>1. /\ farewell' = NoFarewell
        /\ Push({d \in GHDevice : online[d]}, <<"revoke", "account_disconnected">>, RevokeEvent)
        /\ UNCHANGED <<ghMem, ghFile, ghKeys, ghFaults, pollers, dismiss, enrol,
                       ghEnabled, online, ghAgent, ghUsed, ghStarts>>
    BY DEF BroadcastRevoke, FarewellUnchanged
  <1>2. farewell' \in [pc: {"idle", "files", "remote"}, token: GHToken, todo: SUBSET (1 .. MaxKeyNo)]
        /\ farewell'.todo = {} /\ farewell'.pc = "idle"
    BY <1>1, GHFacts DEF NoFarewell
  <1>3. /\ ghCommands' \in [GHDevice -> [CommandKey -> {"none", "queued", "used"}]]
        /\ ghInbox' \in [GHDevice -> Seq(GHEvent)]
    BY <1>1, EventTypes, PushEffect
  <1>4. GHTypeOK' /\ GHLocalsOK'
    BY <1>1, <1>2, <1>3, GHFacts, GHMore, TypesKept
  <1>5. KeyOwners' /\ EnrolOK' /\ KeysOK'
    BY <1>1, <1>2, NothingNew DEF Dismissing
  <1>. QED  BY <1>4, <1>5 DEF GHParts

----------------------------------------------------------------------------
(* The switch of one device.                                               *)

\* Switching on keeps the parts.
LEMMA EnableSyncKeeps ==
    ASSUME GHParts, NEW d \in GHDevice, EnableSync(d)
    PROVE  GHParts'
  <1>1. /\ IF ghMem.creds # NoOAuth
           THEN Push({d}, <<"sync", ghMem.creds>>, SyncEvent(ghMem.creds))
           ELSE UNCHANGED <<ghCommands, ghInbox>>
        /\ UNCHANGED <<ghMem, ghFile, online, ghAgent, ghKeys, ghUsed, ghFaults, ghStarts,
                       pollers, farewell, dismiss, enrol>>
    BY DEF EnableSync, serverVars
  <1>2. /\ ghCommands' \in [GHDevice -> [CommandKey -> {"none", "queued", "used"}]]
        /\ ghInbox' \in [GHDevice -> Seq(GHEvent)]
    <2>1. SyncEvent(ghMem.creds) \in GHEvent
      BY GHFacts, EventTypes
    <2>2. CASE ghMem.creds # NoOAuth
      BY <1>1, <2>1, <2>2, PushEffect
    <2>3. CASE ghMem.creds = NoOAuth
      BY <1>1, <2>3, GHMore
    <2>. QED  BY <2>2, <2>3
  <1>3. GHTypeOK' /\ GHLocalsOK'
    BY <1>1, <1>2, GHFacts, GHMore, TypesKept
  <1>4. KeyOwners' /\ EnrolOK' /\ KeysOK'
    BY <1>1, NothingNew DEF Dismissing
  <1>. QED  BY <1>3, <1>4 DEF GHParts

\* Switching off keeps the parts: the key is struck off before it is deleted.
LEMMA DisableSyncKeeps ==
    ASSUME GHParts, NEW d \in GHDevice, NEW ok \in BOOLEAN, DisableSync(d, ok)
    PROVE  GHParts'
  <1>1. /\ dismiss[d].pc = "idle" /\ GHFault(ok)
        /\ ghMem' = [ghMem EXCEPT !.keys = StruckOff(d)]
        /\ ghFile' = IF ok THEN [ghFile EXCEPT !.keys = StruckOff(d)] ELSE ghFile
        /\ dismiss' = [dismiss EXCEPT ![d] =
             [pc |-> "remote", token |-> ghMem.creds,
              todo |-> IF ghMem.creds = NoOAuth THEN {} ELSE {ghMem.keys[d]} \ {NoKeyNo}]]
        /\ UNCHANGED <<pollers, farewell, enrol, ghCommands, ghKeys, ghUsed, ghStarts,
                       ghInbox, ghAgent, online>>
    BY DEF DisableSync, deviceVars
  <1>2. /\ StruckOff(d) \in [GHDevice -> 0 .. MaxKeyNo] /\ StruckOff(d)[d] = NoKeyNo
        /\ \A e \in GHDevice \ {d} : StruckOff(d)[e] = ghMem.keys[e]
    BY GHFacts DEF StruckOff
  <1>3. /\ ghMem' \in [creds: GHToken, flow: Poller \cup {NoCode},
                       cancel: Poller \cup {NoCode}, keys: [GHDevice -> 0 .. MaxKeyNo]]
        /\ ghMem'.keys = StruckOff(d)
        /\ ghFile' \in [creds: GHToken, keys: [GHDevice -> 0 .. MaxKeyNo]]
        /\ ghFile'.keys = IF ok THEN StruckOff(d) ELSE ghFile.keys
    BY <1>1, <1>2, GHFacts
  <1>4. /\ dismiss' \in [GHDevice -> [pc : {"idle", "remote", "event"}, token : GHToken,
                                      todo : SUBSET (1 .. MaxKeyNo)]]
        /\ dismiss'[d].todo \subseteq {ghMem.keys[d]} \ {NoKeyNo}
        /\ \A e \in GHDevice \ {d} : dismiss'[e] = dismiss[e]
    <2>1. /\ ghMem.keys[d] \in 0 .. MaxKeyNo
          /\ {ghMem.keys[d]} \ {NoKeyNo} \in SUBSET (1 .. MaxKeyNo)
      BY GHFacts
    <2>. QED  BY <1>1, <2>1, GHFacts
  <1>5. GHTypeOK' /\ GHLocalsOK'
    BY <1>1, <1>3, <1>4, GHFacts, GHMore, FaultCounted, TypesKept
  <1>6. KeyOwners'
    <2>1. \A e \in GHDevice : OwnedBy(e)' \subseteq OwnedBy(e) \cup {NoKeyNo}
      BY <1>1, <1>2, <1>3 DEF OwnedBy
    <2>2. NoKeyNo <= ghUsed.keys
      BY GHMore DEF NoKeyNo
    <2>. QED  BY <1>1, <2>1, <2>2 DEF KeyOwners, GHParts
  <1>7. EnrolOK'
    BY <1>1, <1>2, <1>3 DEF EnrolOK, GHParts
  <1>8. ASSUME ghFaults' = 0
        PROVE  KeysLive'
    <2>1. KeysLive /\ ok
      BY <1>1, <1>8, FaultCounted DEF KeysOK, GHParts
    <2>2. Recorded(ghMem.keys)' = Recorded(StruckOff(d)) /\ Recorded(ghFile.keys)' = Recorded(StruckOff(d))
      BY <1>3, <2>1 DEF Recorded
    <2>3. Recorded(StruckOff(d)) \subseteq Recorded(ghMem.keys)
      BY <1>2 DEF Recorded
    <2>4. dismiss'[d].todo \cap Recorded(StruckOff(d)) = {}
      <3>1. SUFFICES ASSUME NEW e \in GHDevice, StruckOff(d)[e] = ghMem.keys[d], ghMem.keys[d] # NoKeyNo
                     PROVE  FALSE
        BY <1>4 DEF Recorded
      <3>2. e # d /\ ghMem.keys[e] = ghMem.keys[d]
        BY <1>2, <3>1
      <3>. QED  BY <3>1, <3>2 DEF GHParts, KeyOwners, OwnedBy
    <2>5. dismiss'[d].todo \subseteq Recorded(ghMem.keys)
      BY <1>4 DEF Recorded
    <2>6. \A e \in GHDevice : enrol[e].pc = "store" => enrol[e].key \notin dismiss'[d].todo
      <3>1. SUFFICES ASSUME NEW e \in GHDevice, enrol[e].pc = "store", enrol[e].key = ghMem.keys[d]
                     PROVE  FALSE
        BY <1>4
      <3>2. enrol[e].key # NoKeyNo /\ e # d
        BY <3>1 DEF GHParts, EnrolOK
      <3>. QED  BY <3>1, <3>2 DEF GHParts, KeyOwners, OwnedBy
    <2>7. (Recorded(ghMem.keys) \cup Recorded(ghFile.keys))' \subseteq ghKeys'
      BY <1>1, <2>1, <2>2, <2>3 DEF KeysLive
    <2>8. \A e \in GHDevice : enrol'[e].pc = "store" =>
              /\ enrol'[e].key \in ghKeys' /\ enrol'[e].key \notin farewell'.todo
              /\ \A f \in GHDevice : Dismissing(f)' => enrol'[e].key \notin dismiss'[f].todo
      BY <1>1, <1>4, <2>1, <2>6 DEF KeysLive, Dismissing
    <2>9. /\ farewell'.todo \subseteq ghKeys' /\ farewell'.todo \cap Recorded(ghMem.keys)' = {}
          /\ farewell'.pc = "remote" => farewell'.todo \cap Recorded(ghFile.keys)' = {}
      BY <1>1, <2>1, <2>2, <2>3 DEF KeysLive
    <2>10. \A e \in GHDevice : Dismissing(e)' =>
              /\ dismiss'[e].todo \subseteq ghKeys' /\ dismiss'[e].todo \cap farewell'.todo = {}
              /\ dismiss'[e].todo \cap (Recorded(ghMem.keys) \cup Recorded(ghFile.keys))' = {}
      BY <1>1, <1>4, <2>1, <2>2, <2>3, <2>4, <2>5 DEF KeysLive, Dismissing
    <2>11. \A e, f \in GHDevice : Dismissing(e)' /\ Dismissing(f)' /\ f # e =>
              dismiss'[e].todo \cap dismiss'[f].todo = {}
      <3>1. \A e \in GHDevice \ {d} : Dismissing(e)' => dismiss'[e].todo \cap Recorded(ghMem.keys) = {}
        BY <1>4, <2>1 DEF KeysLive, Dismissing
      <3>2. \A e, f \in GHDevice \ {d} : Dismissing(e)' /\ Dismissing(f)' /\ f # e =>
               dismiss'[e].todo \cap dismiss'[f].todo = {}
        BY <1>4, <2>1 DEF KeysLive, Dismissing
      <3>. QED  BY <3>1, <3>2, <2>5
    <2>. QED  BY <2>7, <2>8, <2>9, <2>10, <2>11 DEF KeysLive
  <1>. QED  BY <1>5, <1>6, <1>7, <1>8 DEF GHParts, KeysOK

\* Deleting the key of the device keeps the parts.
LEMMA DismissKeyKeeps ==
    ASSUME GHParts, NEW d \in GHDevice, NEW ok \in BOOLEAN, DismissKey(d, ok)
    PROVE  GHParts'
  <1>1. /\ dismiss[d].pc = "remote" /\ GHFault(ok)
        /\ ghKeys' = IF ok THEN ghKeys \ dismiss[d].todo ELSE ghKeys
        /\ dismiss' = [dismiss EXCEPT ![d].pc = "event"]
        /\ UNCHANGED <<ghMem, ghFile, pollers, farewell, enrol, ghEnabled, ghCommands, ghUsed,
                       ghInbox, ghAgent, online>>
    BY DEF DismissKey, deviceVars
  <1>2. /\ dismiss' \in [GHDevice -> [pc : {"idle", "remote", "event"}, token : GHToken,
                                      todo : SUBSET (1 .. MaxKeyNo)]]
        /\ dismiss'[d].pc = "event"
        /\ \A e \in GHDevice \ {d} : dismiss'[e] = dismiss[e]
    BY <1>1, GHFacts
  <1>3. GHTypeOK' /\ GHLocalsOK'
    BY <1>1, <1>2, GHFacts, GHMore, FaultCounted, TypesKept
  <1>4. KeyOwners' /\ EnrolOK'
    BY <1>1 DEF GHParts, KeyOwners, OwnedBy, EnrolOK
  <1>5. ASSUME ghFaults' = 0
        PROVE  KeysLive'
    <2>1. KeysLive /\ ghKeys' = ghKeys \ dismiss[d].todo
      BY <1>1, <1>5, FaultCounted DEF KeysOK, GHParts
    <2>2. /\ \A e \in GHDevice : Dismissing(e)' => e # d /\ Dismissing(e) /\ dismiss'[e] = dismiss[e]
          /\ Dismissing(d)
      BY <1>1, <1>2 DEF Dismissing
    <2>. QED  BY <1>1, <2>1, <2>2 DEF KeysLive
  <1>. QED  BY <1>3, <1>4, <1>5 DEF GHParts, KeysOK

\* Telling the device keeps the parts.
LEMMA DismissEventKeeps ==
    ASSUME GHParts, NEW d \in GHDevice, DismissEvent(d)
    PROVE  GHParts'
  <1>1. /\ dismiss' = [dismiss EXCEPT ![d] = NoFarewell]
        /\ Push({d}, <<"revoke", "sync_disabled">>, RevokeEvent)
        /\ UNCHANGED <<ghMem, ghFile, pollers, farewell, enrol, ghEnabled, online, ghAgent,
                       ghKeys, ghUsed, ghFaults, ghStarts>>
    BY DEF DismissEvent
  <1>2. /\ dismiss' \in [GHDevice -> [pc : {"idle", "remote", "event"}, token : GHToken,
                                      todo : SUBSET (1 .. MaxKeyNo)]]
        /\ \A e \in GHDevice : Dismissing(e)' => Dismissing(e) /\ dismiss'[e] = dismiss[e]
    BY <1>1, GHFacts DEF NoFarewell, Dismissing
  <1>3. /\ ghCommands' \in [GHDevice -> [CommandKey -> {"none", "queued", "used"}]]
        /\ ghInbox' \in [GHDevice -> Seq(GHEvent)]
    BY <1>1, EventTypes, PushEffect
  <1>4. GHTypeOK' /\ GHLocalsOK'
    BY <1>1, <1>2, <1>3, GHFacts, GHMore, TypesKept
  <1>5. KeyOwners' /\ EnrolOK' /\ KeysOK'
    BY <1>1, <1>2, NothingNew
  <1>. QED  BY <1>4, <1>5 DEF GHParts

----------------------------------------------------------------------------
(* The agent.                                                              *)

\* What arrives on a stream that opens are events.
LEMMA RecoveredEvents ==
    ASSUME GHParts, NEW queued, NEW order \in UNION {[1 .. n -> queued] : n \in 0 .. 2},
           NEW first \in Seq(GHEvent)
    PROVE  first \o [i \in DOMAIN order |-> Recovered(order[i])] \in Seq(GHEvent)
  <1>1. PICK n \in 0 .. 2 : order \in [1 .. n -> queued]
    OBVIOUS
  <1>2. \A k : Recovered(k) \in GHEvent
    BY EventTypes DEF Recovered
  <1>3. [i \in DOMAIN order |-> Recovered(order[i])] \in [1 .. n -> GHEvent]
    BY <1>1, <1>2
  <1>4. [i \in DOMAIN order |-> Recovered(order[i])] \in Seq(GHEvent)
    BY <1>3
  <1>. QED  BY <1>4

\* A stream that opens keeps the parts.
LEMMA ConnectKeeps ==
    ASSUME GHParts, NEW d \in GHDevice, Connect(d)
    PROVE  GHParts'
  <1>. DEFINE queued == {k \in CommandKey : ghCommands[d][k] = "queued"}
              first == IF ghEnabled[d] /\ ghMem.creds # NoOAuth
                       THEN <<SyncEvent(ghMem.creds)>> ELSE <<>>
  <1>1. PICK order \in UNION {[1 .. n -> queued] : n \in 0 .. 2} :
          ghInbox' = [ghInbox EXCEPT ![d] = first \o [i \in DOMAIN order |-> Recovered(order[i])]]
    BY DEF Connect
  <1>2. /\ ghCommands' = [ghCommands EXCEPT ![d] =
             [k \in CommandKey |-> IF k \in queued THEN "used" ELSE ghCommands[d][k]]]
        /\ UNCHANGED <<enrol, ghAgent, ghUsed, ghFaults, ghMem, ghFile, pollers, farewell, dismiss,
                       ghEnabled, ghKeys, ghStarts>>
    BY DEF Connect, AgentUnchanged
  <1>3. first \in Seq(GHEvent)
    <2>1. SyncEvent(ghMem.creds) \in GHEvent
      BY GHFacts, EventTypes
    <2>. QED  BY <2>1
  <1>4. ghInbox' \in [GHDevice -> Seq(GHEvent)]
    <2>. DEFINE arrives == first \o [i \in DOMAIN order |-> Recovered(order[i])]
    <2>1. arrives \in Seq(GHEvent)
      BY <1>3, RecoveredEvents
    <2>2. ghInbox' = [ghInbox EXCEPT ![d] = arrives]
      BY <1>1
    <2>. HIDE DEF arrives
    <2>. QED  BY <2>1, <2>2, GHMore
  <1>5. ghCommands' \in [GHDevice -> [CommandKey -> {"none", "queued", "used"}]]
    BY <1>2, GHMore
  <1>6. GHTypeOK' /\ GHLocalsOK'
    BY <1>2, <1>4, <1>5, GHFacts, GHMore, TypesKept
  <1>7. KeyOwners' /\ EnrolOK' /\ KeysOK'
    BY <1>2, NothingNew DEF Dismissing
  <1>. QED  BY <1>6, <1>7 DEF GHParts

\* A stream that breaks keeps the parts.
LEMMA DisconnectedKeeps ==
    ASSUME GHParts, NEW d \in GHDevice, Disconnected(d)
    PROVE  GHParts'
  <1>1. /\ ghInbox' = [ghInbox EXCEPT ![d] = <<>>]
        /\ UNCHANGED <<enrol, ghAgent, ghCommands, ghUsed, ghFaults, ghMem, ghFile, pollers,
                       farewell, dismiss, ghEnabled, ghKeys, ghStarts>>
    BY DEF Disconnected, AgentUnchanged
  <1>2. ghInbox' \in [GHDevice -> Seq(GHEvent)]
    BY <1>1, GHMore
  <1>3. GHTypeOK' /\ GHLocalsOK'
    BY <1>1, <1>2, GHFacts, GHMore, TypesKept
  <1>4. KeyOwners' /\ EnrolOK' /\ KeysOK'
    BY <1>1, NothingNew DEF Dismissing
  <1>. QED  BY <1>3, <1>4 DEF GHParts

\* Taking an event keeps the stream one of events.
LEMMA EventTaken ==
    ASSUME GHParts, NEW d \in GHDevice, ghInbox[d] # <<>>
    PROVE  /\ Head(ghInbox[d]) \in GHEvent
           /\ [ghInbox EXCEPT ![d] = Tail(ghInbox[d])] \in [GHDevice -> Seq(GHEvent)]
  BY GHMore

\* A synchronisation keeps the parts: the key it reports is the agent's own, or one
\* that nobody has yet.
LEMMA ReceiveSyncKeeps ==
    ASSUME GHParts, NEW d \in GHDevice, ReceiveSync(d)
    PROVE  GHParts'
  <1>1. /\ ghInbox[d] # <<>>
        /\ ghAgent[d].key = NoKeyNo => ghUsed.keys < MaxKeyNo
        /\ ghUsed' = IF ghAgent[d].key = NoKeyNo
                     THEN [ghUsed EXCEPT !.keys = ghUsed.keys + 1] ELSE ghUsed
        /\ ghAgent' = [ghAgent EXCEPT ![d] =
             [token |-> ghAgent[d].token,
              key |-> IF ghAgent[d].key = NoKeyNo THEN ghUsed.keys + 1 ELSE ghAgent[d].key,
              asks |-> Head(ghInbox[d]).token]]
        /\ enrol' = [enrol EXCEPT ![d] = [pc |-> "check", token |-> NoOAuth, key |-> ghAgent'[d].key]]
        /\ enrol[d].pc = "idle"
        /\ ghInbox' = [ghInbox EXCEPT ![d] = Tail(ghInbox[d])]
        /\ UNCHANGED <<ghCommands, ghFaults, ghMem, ghFile, pollers, farewell, dismiss, ghEnabled,
                       ghKeys, ghStarts>>
    BY DEF ReceiveSync, AgentUnchanged
  <1>. DEFINE key == IF ghAgent[d].key = NoKeyNo THEN ghUsed.keys + 1 ELSE ghAgent[d].key
  <1>2. /\ ghUsed.keys \in 0 .. MaxKeyNo /\ ghAgent[d].key \in 0 .. MaxKeyNo
        /\ key \in 1 .. MaxKeyNo /\ Head(ghInbox[d]).token \in GHToken \cup {Blank}
        /\ ghAgent[d].token \in GHToken \cup {Blank}
    BY <1>1, GHFacts, GHMore, EventTaken DEF GHEvent
  <1>3. ghUsed' \in [grants : SUBSET GHGrant, keys : 0 .. MaxKeyNo]
        /\ ghUsed.keys <= ghUsed'.keys
        /\ ghUsed'.keys = IF ghAgent[d].key = NoKeyNo THEN ghUsed.keys + 1 ELSE ghUsed.keys
    <2>1. MaxKeyNo \in Nat /\ ghUsed \in [grants : SUBSET GHGrant, keys : 0 .. MaxKeyNo]
      BY GHFacts, GHMore
    <2>2. CASE ghAgent[d].key = NoKeyNo
      <3>1. ghUsed' = [ghUsed EXCEPT !.keys = ghUsed.keys + 1] /\ ghUsed.keys + 1 \in 0 .. MaxKeyNo
        BY <1>1, <1>2, <2>1, <2>2
      <3>. QED  BY <2>1, <2>2, <3>1
    <2>3. CASE ghAgent[d].key # NoKeyNo
      BY <1>1, <2>1, <2>3
    <2>. QED  BY <2>2, <2>3
  <1>4. /\ ghAgent' \in [GHDevice -> [token: GHToken \cup {Blank}, key: 0 .. MaxKeyNo,
                                      asks: GHToken \cup {Blank}]]
        /\ ghAgent'[d].key = key
        /\ \A e \in GHDevice \ {d} : ghAgent'[e] = ghAgent[e]
    BY <1>1, <1>2, GHFacts
  <1>5. /\ enrol' \in [GHDevice -> [pc : {"idle", "check", "remote", "store", "registered", "refused"},
                                    token : GHToken, key : 0 .. MaxKeyNo]]
        /\ enrol'[d].pc = "check" /\ enrol'[d].key = key
        /\ \A e \in GHDevice \ {d} : enrol'[e] = enrol[e]
    BY <1>1, <1>2, <1>4, GHFacts
  <1>6. GHTypeOK' /\ GHLocalsOK'
    <2>1. \A e \in GHDevice : enrol'[e].pc \in {"registered", "refused"} => ghAgent'[e].asks # NoOAuth
      BY <1>4, <1>5, GHMore
    <2>2. ghInbox' \in [GHDevice -> Seq(GHEvent)]
      BY <1>1, EventTaken
    <2>. QED  BY <1>1, <1>3, <1>4, <1>5, <2>1, <2>2, GHFacts, GHMore, TypesKept
  <1>. HIDE DEF key
  <1>7. KeyOwners'
    <2>1. /\ \A e \in GHDevice \ {d} : OwnedBy(e)' = OwnedBy(e)
          /\ OwnedBy(d)' \subseteq OwnedBy(d) \cup {key}
      BY <1>1, <1>4, <1>5 DEF OwnedBy
    <2>2. \A e \in GHDevice : OwnedBy(e) \subseteq 0 .. MaxKeyNo
      BY GHFacts DEF OwnedBy
    <2>3. KeyOwners
      BY DEF GHParts
    <2>4. key <= ghUsed'.keys
      <3>1. CASE ghAgent[d].key = NoKeyNo
        BY <1>2, <1>3, <3>1 DEF key
      <3>2. CASE ghAgent[d].key # NoKeyNo
        BY <1>2, <1>3, <2>3, <3>2 DEF key, KeyOwners, OwnedBy
      <3>. QED  BY <3>1, <3>2
    <2>5. \A e \in GHDevice : \A k \in OwnedBy(e)' : k <= ghUsed'.keys
      <3>1. SUFFICES ASSUME NEW e \in GHDevice, NEW k \in OwnedBy(e), k # key
                     PROVE  k <= ghUsed'.keys
        BY <2>1, <2>4
      <3>2. k <= ghUsed.keys /\ k \in Nat /\ ghUsed.keys \in Nat /\ ghUsed'.keys \in Nat
        BY <1>2, <1>3, <2>2, <2>3, <3>1 DEF KeyOwners
      <3>. QED  BY <1>3, <3>2
    <2>6. \A e \in GHDevice \ {d} : key \notin OwnedBy(e)
      <3>1. CASE ghAgent[d].key = NoKeyNo
        <4>1. ghUsed.keys \in Nat /\ key = ghUsed.keys + 1
          BY <1>2, <3>1, GHFacts DEF key
        <4>2. \A e \in GHDevice : \A k \in OwnedBy(e) : k <= ghUsed.keys
          BY <2>3 DEF KeyOwners
        <4>3. ~(key <= ghUsed.keys)
          BY <4>1
        <4>. QED  BY <4>2, <4>3
      <3>2. CASE ghAgent[d].key # NoKeyNo
        BY <2>3, <3>2 DEF key, KeyOwners, OwnedBy
      <3>. QED  BY <3>1, <3>2
    <2>7. \A e, f \in GHDevice : e # f => \A k \in OwnedBy(e)' \cap OwnedBy(f)' : k = NoKeyNo
      BY <2>1, <2>3, <2>6 DEF KeyOwners
    <2>. QED  BY <2>5, <2>7 DEF KeyOwners
  <1>8. EnrolOK'
    BY <1>1, <1>2, <1>5, GHFacts DEF EnrolOK, GHParts
  <1>9. ASSUME ghFaults' = 0
        PROVE  KeysLive'
    <2>1. KeysLive
      BY <1>1, <1>9 DEF KeysOK, GHParts
    <2>. QED  BY <1>1, <1>5, <2>1 DEF KeysLive, Dismissing
  <1>. QED  BY <1>6, <1>7, <1>8, <1>9 DEF GHParts, KeysOK

\* A revocation keeps the parts.
LEMMA ReceiveRevokeKeeps ==
    ASSUME GHParts, NEW d \in GHDevice, ReceiveRevoke(d)
    PROVE  GHParts'
  <1>1. /\ ghInbox[d] # <<>> /\ ghAgent[d].asks = NoOAuth
        /\ ghAgent' = [ghAgent EXCEPT ![d] = [token |-> NoOAuth, key |-> NoKeyNo, asks |-> NoOAuth]]
        /\ ghInbox' = [ghInbox EXCEPT ![d] = Tail(ghInbox[d])]
        /\ UNCHANGED <<enrol, ghCommands, ghUsed, ghFaults, ghMem, ghFile, pollers,
                       farewell, dismiss, ghEnabled, ghKeys, ghStarts>>
    BY DEF ReceiveRevoke, AgentUnchanged
  <1>2. /\ ghAgent' \in [GHDevice -> [token: GHToken \cup {Blank}, key: 0 .. MaxKeyNo,
                                      asks: GHToken \cup {Blank}]]
        /\ \A e \in GHDevice : ghAgent'[e].key \in {ghAgent[e].key, NoKeyNo}
                               /\ ghAgent'[e].asks = ghAgent[e].asks
    BY <1>1, GHFacts
  <1>3. GHTypeOK' /\ GHLocalsOK'
    <2>1. ghInbox' \in [GHDevice -> Seq(GHEvent)]
      BY <1>1, EventTaken
    <2>. QED  BY <1>1, <1>2, <2>1, GHFacts, GHMore, TypesKept
  <1>4. KeyOwners' /\ EnrolOK' /\ KeysOK'
    BY <1>1, <1>2, NothingNew DEF Dismissing
  <1>. QED  BY <1>3, <1>4 DEF GHParts

\* The end of the agent's wait keeps the parts.
LEMMA AppliesKeeps ==
    ASSUME GHParts, NEW d \in GHDevice, NEW ok \in BOOLEAN, Applies(d, ok)
    PROVE  GHParts'
  <1>1. /\ ok => enrol[d].pc = "registered"
        /\ ghAgent' = [ghAgent EXCEPT ![d].token = IF ok THEN ghAgent[d].asks ELSE ghAgent[d].token,
                                      ![d].asks = NoOAuth]
        /\ enrol' = IF enrol[d].pc \in {"registered", "refused"}
                    THEN [enrol EXCEPT ![d].pc = "idle"] ELSE enrol
        /\ IF enrol[d].pc = "refused" THEN UNCHANGED ghFaults ELSE GHFault(ok)
        /\ UNCHANGED <<ghInbox, ghCommands, ghUsed, ghMem, ghFile, pollers,
                       farewell, dismiss, ghEnabled, ghKeys, ghStarts>>
    BY DEF Applies, AgentUnchanged
  <1>2. /\ ghAgent' \in [GHDevice -> [token: GHToken \cup {Blank}, key: 0 .. MaxKeyNo,
                                      asks: GHToken \cup {Blank}]]
        /\ \A e \in GHDevice : ghAgent'[e].key = ghAgent[e].key
        /\ \A e \in GHDevice \ {d} : ghAgent'[e] = ghAgent[e]
    <2>. DEFINE token == IF ok THEN ghAgent[d].asks ELSE ghAgent[d].token
    <2>1. token \in GHToken \cup {Blank} /\ NoOAuth \in GHToken \cup {Blank}
      BY GHFacts
    <2>2. ghAgent' = [ghAgent EXCEPT ![d].token = token, ![d].asks = NoOAuth]
      BY <1>1
    <2>. DEFINE a == [token |-> token, key |-> ghAgent[d].key, asks |-> NoOAuth]
    <2>. HIDE DEF token
    <2>3. a \in [token: GHToken \cup {Blank}, key: 0 .. MaxKeyNo, asks: GHToken \cup {Blank}]
          /\ a.key = ghAgent[d].key
      BY <2>1, GHFacts
    <2>4. ghAgent' = [ghAgent EXCEPT ![d] = a]
      <3>1. ghAgent[d] \in [token: GHToken \cup {Blank}, key: 0 .. MaxKeyNo, asks: GHToken \cup {Blank}]
        BY GHFacts
      <3>2. [[ghAgent[d] EXCEPT !.token = token] EXCEPT !.asks = NoOAuth] = a
        <4>. DEFINE b == [token |-> token, key |-> ghAgent[d].key, asks |-> ghAgent[d].asks]
        <4>1. [ghAgent[d] EXCEPT !.token = token] = b
          BY <3>1
        <4>2. [b EXCEPT !.asks = NoOAuth] = a
          OBVIOUS
        <4>. QED  BY <4>1, <4>2
      <3>3. ghAgent' = [ghAgent EXCEPT ![d] = [[ghAgent[d] EXCEPT !.token = token] EXCEPT !.asks = NoOAuth]]
        BY <2>2, GHFacts
      <3>. QED  BY <3>2, <3>3
    <2>. HIDE DEF a
    <2>. QED  BY <2>3, <2>4, GHFacts
  <1>3. /\ enrol' \in [GHDevice -> [pc : {"idle", "check", "remote", "store", "registered", "refused"},
                                    token : GHToken, key : 0 .. MaxKeyNo]]
        /\ \A e \in GHDevice \ {d} : enrol'[e] = enrol[e]
        /\ enrol'[d].key = enrol[d].key /\ enrol'[d].pc \notin {"registered", "refused"}
        /\ enrol'[d].pc = enrol[d].pc \/ enrol'[d].pc = "idle"
    BY <1>1, GHFacts
  <1>4. ghFaults' \in Nat /\ (ghFaults' = 0 => ghFaults = 0)
    BY <1>1, GHMore, FaultCounted
  <1>5. GHTypeOK' /\ GHLocalsOK'
    <2>1. \A e \in GHDevice : enrol'[e].pc \in {"registered", "refused"} => ghAgent'[e].asks # NoOAuth
      BY <1>2, <1>3, GHMore
    <2>. QED  BY <1>1, <1>2, <1>3, <1>4, <2>1, GHFacts, GHMore, TypesKept
  <1>6. KeyOwners' /\ EnrolOK' /\ KeysOK'
    BY <1>1, <1>2, <1>3, <1>4, NothingNew DEF Dismissing
  <1>. QED  BY <1>5, <1>6 DEF GHParts

\* Forgetting a command keeps the parts.
LEMMA CommandForgottenKeeps ==
    ASSUME GHParts, NEW d \in GHDevice, NEW k \in CommandKey, CommandForgotten(d, k)
    PROVE  GHParts'
  <1>1. /\ ghCommands' = [ghCommands EXCEPT ![d][k] = "none"]
        /\ UNCHANGED <<ghMem, ghFile, ghEnabled, ghKeys, ghUsed, ghFaults, ghStarts, ghInbox,
                       ghAgent, online, pollers, farewell, dismiss, enrol>>
    BY DEF CommandForgotten, deviceVars, serverVars
  <1>2. ghCommands' \in [GHDevice -> [CommandKey -> {"none", "queued", "used"}]]
    BY <1>1, GHMore
  <1>3. GHTypeOK' /\ GHLocalsOK'
    BY <1>1, <1>2, GHFacts, GHMore, TypesKept
  <1>4. KeyOwners' /\ EnrolOK' /\ KeysOK'
    BY <1>1, NothingNew DEF Dismissing
  <1>. QED  BY <1>3, <1>4 DEF GHParts

----------------------------------------------------------------------------
(* The registration of a key.                                              *)

\* The checks of a registration keep the parts.
LEMMA EnrolCheckKeeps ==
    ASSUME GHParts, NEW d \in GHDevice, EnrolCheck(d)
    PROVE  GHParts'
  <1>1. /\ enrol[d].pc = "check"
        /\ enrol' = [enrol EXCEPT ![d] =
             IF ~ghEnabled[d] \/ ghMem.creds = NoOAuth
             THEN [enrol[d] EXCEPT !.pc = Answer(d, "refused")]
             ELSE IF ghMem.keys[d] = enrol[d].key
             THEN [enrol[d] EXCEPT !.pc = Answer(d, "registered")]
             ELSE [enrol[d] EXCEPT !.pc = "remote", !.token = ghMem.creds]]
        /\ UNCHANGED <<ghMem, ghFile, ghKeys, ghFaults, pollers, farewell, dismiss, ghEnabled,
                       ghCommands, ghAgent, ghInbox, ghRequests, online, ghUsed, ghStarts>>
    BY DEF EnrolCheck, EnrolUnchanged
  <1>2. /\ enrol' \in [GHDevice -> [pc : {"idle", "check", "remote", "store", "registered", "refused"},
                                    token : GHToken, key : 0 .. MaxKeyNo]]
        /\ \A e \in GHDevice \ {d} : enrol'[e] = enrol[e]
        /\ enrol'[d].key = enrol[d].key
        /\ \/ enrol'[d].pc = "remote" /\ ghMem.keys[d] # enrol[d].key
           \/ enrol'[d].pc \in {"idle", "registered", "refused"}
        /\ enrol'[d].pc \in {"registered", "refused"} => ghAgent[d].asks # NoOAuth
    <2>. DEFINE r == enrol'[d]
    <2>1. /\ enrol[d] \in [pc : {"idle", "check", "remote", "store", "registered", "refused"},
                            token : GHToken, key : 0 .. MaxKeyNo]
          /\ ghMem.creds \in GHToken
      BY GHFacts
    <2>2. /\ r = IF ~ghEnabled[d] \/ ghMem.creds = NoOAuth
                 THEN [enrol[d] EXCEPT !.pc = Answer(d, "refused")]
                 ELSE IF ghMem.keys[d] = enrol[d].key
                 THEN [enrol[d] EXCEPT !.pc = Answer(d, "registered")]
                 ELSE [enrol[d] EXCEPT !.pc = "remote", !.token = ghMem.creds]
          /\ \A e \in GHDevice \ {d} : enrol'[e] = enrol[e]
          /\ enrol' = [enrol EXCEPT ![d] = r]
      BY <1>1, GHFacts
    <2>3. /\ r \in [pc : {"idle", "check", "remote", "store", "registered", "refused"},
                     token : GHToken, key : 0 .. MaxKeyNo]
          /\ r.key = enrol[d].key
          /\ \/ r.pc = "remote" /\ ghMem.keys[d] # enrol[d].key
             \/ r.pc \in {"idle", "registered", "refused"}
          /\ r.pc \in {"registered", "refused"} => ghAgent[d].asks # NoOAuth
      <3>1. CASE ~ghEnabled[d] \/ ghMem.creds = NoOAuth
        BY <2>1, <2>2, <3>1 DEF Answer
      <3>2. CASE ~(~ghEnabled[d] \/ ghMem.creds = NoOAuth) /\ ghMem.keys[d] = enrol[d].key
        BY <2>1, <2>2, <3>2 DEF Answer
      <3>3. CASE ~(~ghEnabled[d] \/ ghMem.creds = NoOAuth) /\ ghMem.keys[d] # enrol[d].key
        <4>1. r = [pc |-> "remote", token |-> ghMem.creds, key |-> enrol[d].key]
          BY <2>1, <2>2, <3>3
        <4>. QED  BY <2>1, <3>3, <4>1
      <3>. QED  BY <3>1, <3>2, <3>3
    <2>. HIDE DEF r
    <2>4. enrol' \in [GHDevice -> [pc : {"idle", "check", "remote", "store", "registered", "refused"},
                                   token : GHToken, key : 0 .. MaxKeyNo]]
      BY <2>2, <2>3, GHFacts
    <2>. QED  BY <2>2, <2>3, <2>4 DEF r
  <1>3. GHTypeOK' /\ GHLocalsOK'
    <2>1. \A e \in GHDevice : enrol'[e].pc \in {"registered", "refused"} => ghAgent'[e].asks # NoOAuth
      BY <1>1, <1>2, GHMore
    <2>. QED  BY <1>1, <1>2, <2>1, GHFacts, GHMore, TypesKept
  <1>4. KeyOwners'
    BY <1>1, <1>2 DEF GHParts, KeyOwners, OwnedBy
  <1>5. EnrolOK'
    BY <1>1, <1>2 DEF GHParts, EnrolOK
  <1>6. KeysOK'
    BY <1>1, <1>2 DEF GHParts, KeysOK, KeysLive, Dismissing
  <1>. QED  BY <1>3, <1>4, <1>5, <1>6 DEF GHParts

\* GitHub's answer keeps the parts: a key that is added was in nobody's plan to delete.
LEMMA EnrolRemoteKeeps ==
    ASSUME GHParts, NEW d \in GHDevice, NEW result \in {"added", "refused", "unanswered"},
           EnrolRemote(d, result)
    PROVE  GHParts'
  <1>1. /\ enrol[d].pc = "remote" /\ (result = "added" => enrol[d].key \notin ghKeys)
        /\ IF enrol[d].key \in ghKeys THEN UNCHANGED ghFaults ELSE GHFault(result = "added")
        /\ ghKeys' = IF result = "refused" THEN ghKeys ELSE ghKeys \cup {enrol[d].key}
        /\ enrol' = [enrol EXCEPT ![d].pc =
                       IF result = "added" THEN "store" ELSE Answer(d, "refused")]
        /\ UNCHANGED <<ghMem, ghFile, pollers, farewell, dismiss, ghEnabled, ghCommands, ghAgent,
                       ghInbox, ghRequests, online, ghUsed, ghStarts>>
    BY DEF EnrolRemote, EnrolUnchanged
  <1>2. /\ enrol' \in [GHDevice -> [pc : {"idle", "check", "remote", "store", "registered", "refused"},
                                    token : GHToken, key : 0 .. MaxKeyNo]]
        /\ \A e \in GHDevice \ {d} : enrol'[e] = enrol[e]
        /\ enrol'[d].key = enrol[d].key
        /\ enrol'[d].pc = "store" <=> result = "added"
        /\ enrol'[d].pc \in {"store", "idle", "refused"}
        /\ enrol'[d].pc = "refused" => ghAgent[d].asks # NoOAuth
    BY <1>1, GHFacts DEF Answer
  <1>3. enrol[d].key \in 1 .. MaxKeyNo
    BY <1>1, GHFacts DEF GHParts, EnrolOK
  <1>4. ghFaults' \in Nat /\ (ghFaults' = 0 => ghFaults = 0)
    BY <1>1, GHMore, FaultCounted
  <1>5. GHTypeOK' /\ GHLocalsOK'
    <2>1. \A e \in GHDevice : enrol'[e].pc \in {"registered", "refused"} => ghAgent'[e].asks # NoOAuth
      BY <1>1, <1>2, GHMore
    <2>2. ghKeys' \subseteq 1 .. MaxKeyNo
      BY <1>1, <1>3, GHFacts
    <2>. QED  BY <1>1, <1>2, <1>4, <2>1, <2>2, GHFacts, GHMore, TypesKept
  <1>6. KeyOwners'
    BY <1>1, <1>2 DEF GHParts, KeyOwners, OwnedBy
  <1>7. EnrolOK'
    BY <1>1, <1>2 DEF GHParts, EnrolOK
  <1>8. ASSUME ghFaults' = 0
        PROVE  KeysLive'
    <2>1. KeysLive /\ ghKeys \subseteq ghKeys'
      BY <1>1, <1>4, <1>8 DEF KeysOK, GHParts
    <2>2. \A e \in GHDevice : enrol'[e].pc = "store" =>
              /\ enrol'[e].key \in ghKeys' /\ enrol'[e].key \notin farewell.todo
              /\ \A f \in GHDevice : Dismissing(f) => enrol'[e].key \notin dismiss[f].todo
      <3>1. \A e \in GHDevice \ {d} : enrol'[e].pc = "store" =>
              /\ enrol'[e].key \in ghKeys' /\ enrol'[e].key \notin farewell.todo
              /\ \A f \in GHDevice : Dismissing(f) => enrol'[e].key \notin dismiss[f].todo
        BY <1>2, <2>1 DEF KeysLive
      <3>2. enrol'[d].pc = "store" =>
              /\ enrol'[d].key \in ghKeys' /\ enrol'[d].key \notin farewell.todo
              /\ \A f \in GHDevice : Dismissing(f) => enrol'[d].key \notin dismiss[f].todo
        BY <1>1, <1>2, <2>1 DEF KeysLive
      <3>. QED  BY <3>1, <3>2
    <2>. QED  BY <1>1, <2>1, <2>2 DEF KeysLive, Dismissing
  <1>. QED  BY <1>5, <1>6, <1>7, <1>8 DEF GHParts, KeysOK

\* Listing the key keeps the parts.
LEMMA EnrolStoreKeeps ==
    ASSUME GHParts, NEW d \in GHDevice, NEW ok \in BOOLEAN, EnrolStore(d, ok)
    PROVE  GHParts'
  <1>. DEFINE keys == [ghMem.keys EXCEPT ![d] = enrol[d].key]
  <1>1. /\ enrol[d].pc = "store" /\ GHFault(ok)
        /\ ghMem' = [ghMem EXCEPT !.keys = keys]
        /\ ghFile' = IF ok THEN [ghFile EXCEPT !.keys = keys] ELSE ghFile
        /\ enrol' = [enrol EXCEPT ![d].pc = Answer(d, "registered")]
        /\ UNCHANGED <<ghKeys, pollers, farewell, dismiss, ghEnabled, ghCommands, ghAgent,
                       ghInbox, ghRequests, online, ghUsed, ghStarts>>
    BY DEF EnrolStore, EnrolUnchanged
  <1>2. /\ keys \in [GHDevice -> 0 .. MaxKeyNo] /\ keys[d] = enrol[d].key
        /\ \A e \in GHDevice \ {d} : keys[e] = ghMem.keys[e]
    BY GHFacts
  <1>. HIDE DEF keys
  <1>3. /\ ghMem' \in [creds: GHToken, flow: Poller \cup {NoCode},
                       cancel: Poller \cup {NoCode}, keys: [GHDevice -> 0 .. MaxKeyNo]]
        /\ ghMem'.keys = keys
        /\ ghFile' \in [creds: GHToken, keys: [GHDevice -> 0 .. MaxKeyNo]]
        /\ ghFile'.keys = IF ok THEN keys ELSE ghFile.keys
    BY <1>1, <1>2, GHFacts
  <1>4. /\ enrol' \in [GHDevice -> [pc : {"idle", "check", "remote", "store", "registered", "refused"},
                                    token : GHToken, key : 0 .. MaxKeyNo]]
        /\ \A e \in GHDevice \ {d} : enrol'[e] = enrol[e]
        /\ enrol'[d].key = enrol[d].key /\ enrol'[d].pc \in {"idle", "registered"}
        /\ enrol'[d].pc = "registered" => ghAgent[d].asks # NoOAuth
    <2>1. /\ Answer(d, "registered") \in {"idle", "registered"}
          /\ Answer(d, "registered") = "registered" => ghAgent[d].asks # NoOAuth
      BY DEF Answer
    <2>. QED  BY <1>1, <2>1, GHFacts
  <1>5. GHTypeOK' /\ GHLocalsOK'
    <2>1. \A e \in GHDevice : enrol'[e].pc \in {"registered", "refused"} => ghAgent'[e].asks # NoOAuth
      BY <1>1, <1>4, GHMore
    <2>. QED  BY <1>1, <1>3, <1>4, <2>1, GHFacts, GHMore, FaultCounted, TypesKept
  <1>6. KeyOwners'
    <2>1. \A e \in GHDevice : OwnedBy(e)' \subseteq OwnedBy(e)
      BY <1>1, <1>2, <1>3, <1>4 DEF OwnedBy
    <2>. QED  BY <1>1, <2>1 DEF GHParts, KeyOwners
  <1>7. EnrolOK'
    BY <1>1, <1>2, <1>3, <1>4 DEF GHParts, EnrolOK
  <1>8. ASSUME ghFaults' = 0
        PROVE  KeysLive'
    <2>1. KeysLive /\ ok
      BY <1>1, <1>8, FaultCounted DEF KeysOK, GHParts
    <2>2. Recorded(ghMem.keys)' = Recorded(keys) /\ Recorded(ghFile.keys)' = Recorded(keys)
      BY <1>3, <2>1 DEF Recorded
    <2>3. Recorded(keys) \subseteq Recorded(ghMem.keys) \cup {enrol[d].key}
      BY <1>2 DEF Recorded
    <2>4. \A e \in GHDevice : enrol'[e].pc = "store" => enrol'[e] = enrol[e]
      BY <1>4
    <2>. QED  BY <1>1, <2>1, <2>2, <2>3, <2>4 DEF KeysLive, Dismissing
  <1>. QED  BY <1>5, <1>6, <1>7, <1>8 DEF GHParts, KeysOK

\* A restart keeps the parts.
LEMMA RestartServiceKeeps ==
    ASSUME GHParts, RestartService
    PROVE  GHParts'
  <1>1. /\ ghMem' = [creds |-> ghFile.creds, flow |-> NoCode, cancel |-> NoCode, keys |-> ghFile.keys]
        /\ pollers' = [p \in Poller |-> OffPoller]
        /\ farewell' = NoFarewell
        /\ dismiss' = [d \in GHDevice |-> NoFarewell]
        /\ enrol' = [d \in GHDevice |-> [pc |-> IF ghAgent[d].asks = NoOAuth THEN "idle" ELSE "refused",
                                         token |-> NoOAuth, key |-> NoKeyNo]]
        /\ ghInbox' = [d \in GHDevice |-> <<>>]
        /\ UNCHANGED <<ghFile, ghEnabled, ghCommands, ghAgent, ghKeys, ghUsed, ghRequests, ghFaults>>
    BY DEF RestartService
  <1>2. GHTypeOK'
    BY <1>1, GHFacts, GHMore DEF GHTypeOK, OffPoller, NoFarewell
  <1>3. GHLocalsOK'
    BY <1>1, GHFacts, GHMore DEF GHLocalsOK, NoFarewell
  <1>4. KeyOwners'
    <2>1. \A d \in GHDevice : OwnedBy(d)' \subseteq OwnedBy(d) \cup {NoKeyNo}
      BY <1>1 DEF OwnedBy
    <2>2. NoKeyNo <= ghUsed.keys
      BY GHMore DEF NoKeyNo
    <2>. QED  BY <1>1, <2>1, <2>2 DEF GHParts, KeyOwners
  <1>5. EnrolOK'
    BY <1>1 DEF EnrolOK
  <1>6. KeysOK'
    BY <1>1 DEF GHParts, KeysOK, KeysLive, Dismissing, NoFarewell
  <1>. QED  BY <1>2, <1>3, <1>4, <1>5, <1>6 DEF GHParts

----------------------------------------------------------------------------
(* The invariant.                                                          *)

\* The initial state has the parts.
LEMMA GHInitParts == GHInit => GHParts
  <1>1. SUFFICES ASSUME GHInit PROVE GHParts
    OBVIOUS
  <1>2. NoOAuth \in GHToken /\ MaxKeyNo \in Nat /\ \A d \in GHDevice : NoKeys[d] = 0
    BY GitHubSyncAssumption DEF GHToken, NoKeys, NoKeyNo
  <1>3. GHTypeOK
    BY <1>1, <1>2 DEF GHInit, GHTypeOK, NoKeys, NoKeyNo, OffPoller, NoFarewell
  <1>4. GHLocalsOK
    BY <1>1, <1>2 DEF GHInit, GHLocalsOK, NoKeyNo, NoFarewell
  <1>5. KeyOwners /\ EnrolOK
    BY <1>1, <1>2 DEF GHInit, KeyOwners, EnrolOK, OwnedBy, NoKeyNo
  <1>6. KeysOK
    BY <1>1, <1>2 DEF GHInit, KeysOK, KeysLive, Recorded, Dismissing, NoFarewell, NoKeyNo
  <1>. QED  BY <1>3, <1>4, <1>5, <1>6 DEF GHParts

\* Every step keeps the parts.
LEMMA GHStepKeeps == GHParts /\ [GHNext]_ghVars => GHParts'
  <1>1. SUFFICES ASSUME GHParts, [GHNext]_ghVars PROVE GHParts'
    OBVIOUS
  <1>2. CASE UNCHANGED ghVars
    BY <1>1, <1>2 DEF ghVars, GHParts, GHTypeOK, GHLocalsOK, KeyOwners, OwnedBy, EnrolOK, KeysOK,
                      KeysLive, Dismissing
  <1>3. ASSUME NEW p \in Poller, FlowStep(p) PROVE GHParts'
    BY <1>1, <1>3, BeginFlowKeeps, GetCodeKeeps, PollerEndsKeeps, PollGrantedKeeps, StoreCredsKeeps,
       SaveCredsKeeps DEF FlowStep
  <1>4. CASE DisconnectStep
    BY <1>1, <1>4, DisconnectKeeps, RemoveFilesKeeps, DeleteRemoteKeeps, BroadcastRevokeKeeps
       DEF DisconnectStep
  <1>5. ASSUME NEW d \in GHDevice, PatchStep(d) PROVE GHParts'
    BY <1>1, <1>5, EnableSyncKeeps, DisableSyncKeeps, DismissKeyKeeps, DismissEventKeeps DEF PatchStep
  <1>6. ASSUME NEW d \in GHDevice, GHDeviceStep(d) PROVE GHParts'
    BY <1>1, <1>6, ConnectKeeps, DisconnectedKeeps, ReceiveSyncKeeps, ReceiveRevokeKeeps, AppliesKeeps,
       EnrolCheckKeeps, EnrolRemoteKeeps, EnrolStoreKeeps, CommandForgottenKeeps DEF GHDeviceStep
  <1>7. CASE RestartService
    BY <1>1, <1>7, RestartServiceKeeps
  <1>. QED  BY <1>1, <1>2, <1>3, <1>4, <1>5, <1>6, <1>7 DEF GHNext

\* The parts hold in every reachable state.
THEOREM GHInvariant == GHSpec => []GHParts
  BY GHInitParts, GHStepKeeps, PTL DEF GHSpec

\* Of every number of devices, pollers and restarts: a key the service lists for a device
\* is at GitHub, as long as no call and no save failed.
THEOREM GHConsistent == GHSpec => []GHInv
  <1>1. GHParts => GHInv
    BY DEF GHParts, GHInv, ListedKeyLives, KeysOK, KeysLive
  <1>. QED  BY <1>1, GHInvariant, PTL
=============================================================================
