------------------------------ MODULE MCAgent ------------------------------
(* The agent's side: its command ledger, its upgrade with the plans of the   *)
(* server behind it, the journal of an upgrade, and the GitHub credentials.  *)
(* They share no state; `subject' says which of them moves.                  *)
EXTENDS AgentLedger, AgentUpgrade, UpgradeJournal, GitHubSync, TLC

VARIABLE subject

agentVars == <<vars, agentUpgradeVars, journalVars, ghVars, subject>>

AgentInit ==
    /\ subject \in {"ledger", "upgrade", "journal", "github"}
    /\ Init /\ AgentUpgradeInit /\ JournalInit /\ GHInit

\* Bounds of the upgrade.  A request without a key asks for version 2, or for version 1
\* with force, a batch for version 2, and one with a key for either of them; handlers
\* overlap as long as nothing fails, and come one after the other from then on.
Update == [target |-> 2, force |-> FALSE]
Reinstall == [target |-> 1, force |-> TRUE]

AtWork == {q \in UpgradeRequest : requests[q].pc \notin {"idle", "answered"}}

UpgradeInput(r) ==
    \/ r.key = NoKey /\ r.payload = Update
    \/ r.key = NoKey /\ r.payload = Reinstall /\ ~r.batch
    \/ r.key # NoKey /\ ~r.payload.force /\ ~r.batch

UpgradeBounds ==
    /\ \A q \in AtWork : UpgradeInput(requests[q])
    /\ deviceFaults = 0 \/ Cardinality(AtWork) <= 1

AgentNext ==
    /\ UNCHANGED subject
    /\ \/ subject = "ledger" /\ Next /\ UNCHANGED <<agentUpgradeVars, journalVars, ghVars>>
       \/ /\ subject = "upgrade" /\ AgentUpgradeNext /\ UpgradeBounds'
          /\ UNCHANGED <<vars, journalVars, ghVars>>
       \/ subject = "journal" /\ JournalNext /\ UNCHANGED <<vars, agentUpgradeVars, ghVars>>
       \/ subject = "github" /\ GHNext /\ UNCHANGED <<vars, agentUpgradeVars, journalVars>>

AgentSpec == AgentInit /\ [][AgentNext]_agentVars

AgentSymmetry == Permutations(Poller) \cup Permutations(GHGrant)
=============================================================================
