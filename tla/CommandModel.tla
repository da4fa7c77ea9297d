---------------------------- MODULE CommandModel ----------------------------
(***************************************************************************)
(* The data model of a control-plane command: internal/command/model.go,   *)
(* and the pure part of internal/command/file/repository.go (the           *)
(* transition table, the effect of a transition on a record, the answer    *)
(* CreateOrGet gives, the retention rule of write()).                      *)
(*                                                                         *)
(* A command record keeps the fields the code branches on.  Times are      *)
(* natural numbers with 0 for a nil pointer.  An ACK outcome stands for    *)
(* its SHA-256 digest (equal digests iff equal outcomes).                  *)
(***************************************************************************)
EXTENDS Naturals, FiniteSets

CONSTANTS
    ID,             \* command IDs (128 random bits: never drawn twice)
    Device,         \* device IDs
    Kind,           \* the command kinds in use
    Key,            \* actor + Idempotency-Key pairs
    NoKey,          \* a request without Idempotency-Key
    Digest,         \* digests of the normalised request
    Result,         \* what the final ACK of an agent says besides its status
    Converged,      \* the result deviceAck writes for phase commit_ready
    NoAck,          \* the empty FinalAckDigest
    AcceptTimeout,  \* TimeoutPolicy.Accept
    FinishTimeout,  \* TimeoutPolicy.Finish
    RetainMax,      \* commands kept regardless of age (1000 in the code)
    RetainAge,      \* age from which a finished command may go (30 days)
    SweepLimit      \* the limit Expire passes to ListExpired

AllKinds == {"ssh_keys", "upgrade", "shutdown",
             "github_credentials_sync", "github_credentials_revoke"}

FinalStatus == {"succeeded", "failed"}
AuditStatus == {"timed_out", "canceled", "interrupted"}
TerminalStatus == FinalStatus \cup AuditStatus \cup {"legacy_untracked"}
InFlightStatus == {"queued", "dispatching", "dispatched", "accepted"}
\* "none": the ID has not been drawn; "pruned": write() dropped the record.
GoneStatus == {"none", "pruned"}
Status == TerminalStatus \cup InFlightStatus \cup GoneStatus

Ack == [status : FinalStatus, result : Result]
ProjectionStatus == {"pending", "applied", "failed"}

ASSUME KindAssumption == Kind \subseteq AllKinds
ASSUME NoneAssumption == NoKey \notin Key /\ NoAck \notin Ack
ASSUME TimeoutAssumption ==
    /\ AcceptTimeout \in Nat \ {0} /\ FinishTimeout \in Nat \ {0}
    /\ RetainMax \in Nat /\ RetainAge \in Nat /\ SweepLimit \in Nat \ {0}
ASSUME FiniteAssumption == IsFiniteSet(ID)
ASSUME RequestAssumption ==
    Kind # {} /\ Device # {} /\ Digest # {} /\ Converged \in Result

Command == [kind       : AllKinds,
            device     : Device,
            key        : Key \cup {NoKey},
            digest     : Digest,
            status     : Status,
            rev        : Nat,
            acceptBy   : Nat,              \* AcceptDeadline
            finishBy   : Nat,              \* FinishDeadline
            finishedAt : Nat,
            finalAck   : Ack \cup {NoAck}, \* FinalAckDigest
            outcomeRev : Nat,
            lateAcks   : SUBSET Ack,
            proj       : ProjectionStatus,
            projRev    : Nat,
            progress   : Nat]              \* Progress.Sequence

Request == [kind : Kind, device : Device, key : Key \cup {NoKey}, digest : Digest]

\* Command.Terminal
Terminal(c) == c.status \in TerminalStatus
Live(c) == c.status \notin GoneStatus
InFlight(c) == c.status \in InFlightStatus

-----------------------------------------------------------------------------
(* Creation *)

NewCommand(req) ==
    [kind |-> req.kind, device |-> req.device, key |-> req.key, digest |-> req.digest,
     status |-> "queued", rev |-> 1, acceptBy |-> 0, finishBy |-> 0, finishedAt |-> 0,
     finalAck |-> NoAck, outcomeRev |-> 0, lateAcks |-> {},
     proj |-> "pending", projRev |-> 0, progress |-> 0]

\* The place of an ID that has not been drawn.
Undrawn == [NewCommand(CHOOSE r \in Request : TRUE) EXCEPT !.status = "none", !.rev = 0]

\* idem: actor, device, kind and key all agree
SameKey(c, req) ==
    /\ req.key # NoKey
    /\ c.key = req.key /\ c.device = req.device /\ c.kind = req.kind

\* The concurrency slot: one in-flight command per device and kind, and
\* shutdown and upgrade exclude each other on a device.
Excludes(k1, k2) == k1 = k2 \/ {k1, k2} = {"shutdown", "upgrade"}

SlotTaken_SameKindOnly(c, req) == InFlight(c) /\ c.device = req.device /\ c.kind = req.kind

SlotTaken(c, req) == InFlight(c) /\ c.device = req.device /\ Excludes(c.kind, req.kind)

CreateStops_InFlightOnly(cmds, req) ==
    {id \in ID : InFlight(cmds[id]) /\ (SameKey(cmds[id], req) \/ SlotTaken(cmds[id], req))}

\* The commands that stop the loop of CreateOrGet: the request is answered
\* with the command its key names, or refused, and nothing is created.
CreateStops(cmds, req) ==
    {id \in ID : Live(cmds[id]) /\ (SameKey(cmds[id], req) \/ SlotTaken(cmds[id], req))}

-----------------------------------------------------------------------------
(* Transitions *)

valid_CancelAccepted(from, to) ==
    \/ from = to
    \/ from \in InFlightStatus /\ to # "queued"

valid_AcceptedNeverTimesOut(from, to) ==
    \/ from = to
    \/ from \in InFlightStatus /\ to # "queued" /\ ~(from = "accepted" /\ to = "timed_out")

\* valid
valid(from, to) ==
    \/ from = to
    \/ from = "queued" /\ to \in {"dispatching", "canceled", "interrupted"}
    \/ /\ from = "dispatching"
       /\ to \in {"queued", "dispatched", "accepted"} \cup FinalStatus \cup AuditStatus
    \/ /\ from = "dispatched"
       /\ to \in {"accepted", "legacy_untracked"} \cup FinalStatus \cup AuditStatus
    \/ from = "accepted" /\ to \in FinalStatus \cup {"timed_out", "interrupted"}

Transitioned_FinishUnarmed(c, to, ack, at) ==
    [c EXCEPT
        !.status     = to,
        !.rev        = c.rev + 1,
        !.acceptBy   = IF to = "dispatching" THEN at + AcceptTimeout ELSE @,
        !.finalAck   = IF to \in FinalStatus THEN ack ELSE @,
        !.outcomeRev = IF to \in FinalStatus THEN c.rev + 1 ELSE @,
        !.finishedAt = IF to \in TerminalStatus THEN at ELSE @]

\* The record Repository.Transition stores.
Transitioned(c, to, ack, at) ==
    [c EXCEPT
        !.status     = to,
        !.rev        = c.rev + 1,
        !.acceptBy   = IF to = "dispatching" THEN at + AcceptTimeout ELSE @,
        !.finishBy   = IF to = "accepted" THEN at + FinishTimeout ELSE @,
        !.finalAck   = IF to \in FinalStatus THEN ack ELSE @,
        !.outcomeRev = IF to \in FinalStatus THEN c.rev + 1 ELSE @,
        !.finishedAt = IF to \in TerminalStatus THEN at ELSE @]

\* The record InterruptNonTerminal stores at startup.
Interrupted(c, at) ==
    IF InFlight(c)
    THEN [c EXCEPT !.status = "interrupted", !.rev = @ + 1, !.finishedAt = at]
    ELSE c

-----------------------------------------------------------------------------
(* Deadlines *)

Deadline(c) == IF c.status = "accepted" THEN c.finishBy ELSE c.acceptBy

Expired(c, at) == InFlight(c) /\ Deadline(c) # 0 /\ Deadline(c) <= at

\* The lists ListExpired may return: the earliest deadlines first (ties in
\* any order), at most SweepLimit of them.
ExpiredLists(cmds, at) ==
    LET due  == {id \in ID : Expired(cmds[id], at)}
        n    == IF Cardinality(due) < SweepLimit THEN Cardinality(due) ELSE SweepLimit
    IN  {s \in [1..n -> due] :
            /\ \A i, j \in 1..n : i < j => /\ s[i] # s[j]
                                           /\ Deadline(cmds[s[i]]) <= Deadline(cmds[s[j]])
            /\ \A id \in due : \A i \in 1..n :
                  (\A j \in 1..n : s[j] # id) => Deadline(cmds[s[i]]) <= Deadline(cmds[id])}

-----------------------------------------------------------------------------
(* Retention *)

PruneCandidates_AnyAge(cmds, at) == {id \in ID : Terminal(cmds[id])}

PruneCandidates(cmds, at) ==
    {id \in ID : Terminal(cmds[id]) /\ cmds[id].finishedAt + RetainAge < at}

\* The sets pruneIDsLocked may return: the oldest finished commands, as many
\* as exceed RetainMax.
PruneSets(cmds, at) ==
    LET live == Cardinality({id \in ID : Live(cmds[id])})
        cand == PruneCandidates(cmds, at)
    IN  {d \in SUBSET cand :
            /\ live <= RetainMax => d = {}
            /\ live > RetainMax =>
                  \/ Cardinality(d) = live - RetainMax
                  \/ d = cand /\ Cardinality(cand) < live - RetainMax
            /\ \A x \in d, y \in cand \ d : cmds[x].finishedAt <= cmds[y].finishedAt}

Pruned(c) == [c EXCEPT !.status = "pruned"]

Without(cmds, drop) == [id \in ID |-> IF id \in drop THEN Pruned(cmds[id]) ELSE cmds[id]]

=============================================================================
