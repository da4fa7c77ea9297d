--------------------------- MODULE DeviceNetwork ---------------------------
(***************************************************************************)
(* The IPv6 addresses of a device on their way to its DNS record: the      *)
(* agent that reports snapshots (sendNetworkReport and revisionStore in    *)
(* cmd/homeagent-agent), the handlers that store device and router reports *)
(* (putDeviceNetworkState, putRouterPrefixes in internal/api/api.go, over  *)
(* internal/devicestate and internal/prefixstate), and the reconciler that *)
(* publishes an address (internal/ddns/service.go).                        *)
(*                                                                         *)
(* One device on one network: nothing is shared between devices but the    *)
(* prefixes.  networkStateMu lets one of the two handlers run at a time,   *)
(* the lock of the device one reconciliation; between the two there is     *)
(* only the store's lock, which makes one Get or Save atomic.  Everybody   *)
(* works on a copy of the whole record and saves the whole record.         *)
(*                                                                         *)
(* An address stands for a candidate that passed the filters; a set of     *)
(* prefixes is the set of addresses it contains.  A Save whose file write  *)
(* fails is rolled back; the reconciler goes on as if it had been written. *)
(***************************************************************************)
EXTENDS Naturals, FiniteSets

CONSTANTS
    Addr,       \* candidate addresses, in their numeric order
    Snapshot,   \* the sets of candidates the machine may have
    Prefixes,   \* the sets of addresses the router's prefixes may cover
    Report,     \* report goroutines of the agent
    Associated, \* HOMEAGENT_DDNS_ROUTER_ID says the network has a router
    Grace,      \* EmptyAddressGracePeriod
    Outcome,    \* of a save whose error the reconciler ignores: was it written
    MaxRev,     \* bound: revisions the agent allocates
    MaxCrashes, \* bound: crashes of the server
    Horizon     \* bound: the clock stops here

NoAddr == 0

ASSUME NetworkAssumption ==
    /\ Addr \subseteq Nat \ {0} /\ IsFiniteSet(Addr)
    /\ Snapshot \subseteq SUBSET Addr /\ Prefixes \subseteq SUBSET Addr
    /\ Associated \in BOOLEAN
    /\ Grace \in Nat \ {0} /\ Outcome \subseteq BOOLEAN /\ MaxCrashes \in Nat /\ MaxRev \in Nat /\ Horizon \in Nat

SyncStatus == {"pending", "syncing", "synced", "failed", "grace_period"}

\* DeviceIPv6State; revision 0: the store has no record of the device.
State == [rev     : Nat,
          addrs   : SUBSET Addr,
          desired : Addr \cup {NoAddr},
          applied : Addr \cup {NoAddr},
          status  : SyncStatus,
          grace   : Nat]               \* GracePeriodEnd, 0 for nil

NoState == [rev |-> 0, addrs |-> {}, desired |-> NoAddr, applied |-> NoAddr,
            status |-> "pending", grace |-> 0]

VARIABLES
    revision,   \* the agent's revision file
    reports,    \* the agent's report goroutines
    state,      \* the device's record in the store and its file
    prefix,     \* the router's state: has it reported, what, is it stale
    handler,    \* the handler that holds networkStateMu
    ddns,       \* the reconciliation that holds the device's lock
    dns,        \* the AAAA record at the provider
    now,
    crashes     \* how often the server died

vars == <<revision, reports, state, prefix, handler, ddns, dns, now, crashes>>

\* send: about to be delivered, perhaps again; conflict: answered 409 with the
\* server's revision.
ReportState == [pc : {"idle", "send", "conflict"}, rev : Nat, addrs : SUBSET Addr,
                recovered : BOOLEAN, current : Nat]
IdleReport == [pc |-> "idle", rev |-> 0, addrs |-> {}, recovered |-> FALSE, current |-> 0]

Handler == [pc : {"idle", "list", "save"}, st : State, from : Report \cup {"router"}]
IdleHandler == [pc |-> "idle", st |-> NoState, from |-> "router"]

\* plan: it has its copy; begin: about to save it; upsert, delete: at the
\* provider; end: about to save the result.
Reconcile == [pc : {"idle", "plan", "begin", "upsert", "delete", "end"}, st : State]
IdleReconcile == [pc |-> "idle", st |-> NoState]

\* Types, and of every copy of the record: a grace period has an end and an
\* address to keep (the saves of ReconcileDevice and the handlers).
TypeOK ==
    /\ revision \in Nat /\ now \in Nat /\ crashes \in Nat
    /\ reports \in [Report -> ReportState]
    /\ state \in State
    /\ prefix \in [known : BOOLEAN, cover : SUBSET Addr, stale : BOOLEAN]
    /\ handler \in Handler /\ ddns \in Reconcile
    /\ dns \in Addr \cup {NoAddr}
    /\ \A st \in {state, handler.st, ddns.st} :
          st.status = "grace_period" => st.grace # 0 /\ st.applied # NoAddr

Init ==
    /\ revision = 0 /\ now = 1
    /\ reports = [r \in Report |-> IdleReport]
    /\ state = NoState
    /\ prefix = [known |-> FALSE, cover |-> {}, stale |-> FALSE]
    /\ handler = IdleHandler /\ ddns = IdleReconcile
    /\ dns = NoAddr /\ crashes = 0

-----------------------------------------------------------------------------
(* The agent *)

\* OnSnapshot starts a goroutine for a changed snapshot or a heartbeat, which
\* allocates a revision: the file is written before the number is used.
StartReport(r, addrs) ==
    /\ reports[r].pc = "idle" /\ revision < MaxRev
    /\ revision' = revision + 1
    /\ reports' = [reports EXCEPT ![r] =
                     [pc |-> "send", rev |-> revision + 1, addrs |-> addrs,
                      recovered |-> FALSE, current |-> 0]]
    /\ UNCHANGED <<state, prefix, handler, ddns, dns, now, crashes>>

AdvanceAfterConflict_Current(stored, current) == current + 1

\* revisionStore.AdvanceAfterConflict
AdvanceAfterConflict(stored, current) == (IF current > stored THEN current ELSE stored) + 1

\* A 409 is answered once with a new revision for the same snapshot; when the
\* revision file cannot be written, the report is sent again as it was.
RecoverReport(r, written) ==
    LET next == AdvanceAfterConflict(revision, reports[r].current)
        rev  == IF written THEN next ELSE reports[r].rev
    IN
    /\ reports[r].pc = "conflict" /\ next <= MaxRev
    /\ revision' = IF written THEN next ELSE revision
    /\ reports' = [reports EXCEPT ![r] =
                     [reports[r] EXCEPT !.pc = "send", !.current = 0,
                                        !.recovered = written, !.rev = rev]]
    /\ UNCHANGED <<state, prefix, handler, ddns, dns, now, crashes>>

\* Five attempts failed, or the agent ends; the answer to a report may be lost.
GiveUp(r) ==
    /\ reports[r].pc # "idle"
    /\ reports' = [reports EXCEPT ![r] = IdleReport]
    /\ UNCHANGED <<revision, state, prefix, handler, ddns, dns, now, crashes>>

-----------------------------------------------------------------------------
(* The handlers *)

\* UpdateReportedAddresses on a report with a newer revision, or the first one.
Updated(st, rev, addrs) ==
    [st EXCEPT !.rev = rev, !.addrs = addrs,
               !.status = IF st.rev = 0 \/ st.addrs # addrs THEN "pending" ELSE @]

Accepts(st, rep) == rep.rev > st.rev \/ (rep.rev = st.rev /\ rep.addrs = st.addrs)

\* putDeviceNetworkState up to UpdateReportedAddresses.  A refused report is
\* answered with the stored revision; the first such answer is recovered from.
PutReport(r, written) ==
    LET rep == reports[r] IN
    /\ handler.pc = "idle" /\ rep.pc = "send"
    /\ IF Accepts(state, rep)
       THEN LET st == IF rep.rev > state.rev THEN Updated(state, rep.rev, rep.addrs) ELSE state
            IN  /\ state' = IF written THEN st ELSE state
                /\ handler' = IF written \/ st = state
                              THEN [pc |-> "save", st |-> st, from |-> r] ELSE handler
                /\ UNCHANGED reports
       ELSE /\ reports' = IF rep.recovered THEN reports
                          ELSE [reports EXCEPT ![r].pc = "conflict", ![r].current = state.rev]
            /\ UNCHANGED <<state, handler>>
    /\ UNCHANGED <<revision, prefix, ddns, dns, now, crashes>>

Lowest(addrs) == CHOOSE a \in addrs : \A b \in addrs : a <= b

\* SelectAddress: the address in use stays while it is a candidate.
SelectAddress(candidates, current) ==
    IF candidates = {} THEN NoAddr
    ELSE IF current \in candidates THEN current ELSE Lowest(candidates)

\* selectDeviceDesiredAddress: without a router every candidate will do, with
\* one only those in its prefixes, and none when they are stale.
Desired(st) ==
    LET candidates == IF ~prefix.known /\ ~Associated THEN st.addrs
                      ELSE IF prefix.stale THEN {} ELSE st.addrs \cap prefix.cover
        a == SelectAddress(candidates, st.desired)
    IN  [st EXCEPT !.desired = a, !.status = IF a # st.desired THEN "pending" ELSE @]

\* The rest of either handler: the copy is saved with its desired address.
\* The answer to a report ends it, or is lost and the report is sent again.
SaveDesired(written, answered) ==
    /\ handler.pc = "save"
    /\ state' = IF written THEN Desired(handler.st) ELSE state
    /\ handler' = IdleHandler
    /\ reports' = IF handler.from \in Report /\ written /\ answered
                     /\ reports[handler.from].pc = "send"
                     /\ reports[handler.from].rev = handler.st.rev
                  THEN [reports EXCEPT ![handler.from] = IdleReport] ELSE reports
    /\ UNCHANGED <<revision, prefix, ddns, dns, now, crashes>>

\* putRouterPrefixes: an accepted report of the router.  (What its revision
\* check refuses changes nothing.)
PutPrefixes(cover) ==
    /\ handler.pc = "idle"
    /\ prefix' = [known |-> TRUE, cover |-> cover, stale |-> FALSE]
    /\ handler' = [pc |-> "list", st |-> NoState, from |-> "router"]
    /\ UNCHANGED <<revision, reports, state, ddns, dns, now, crashes>>

\* List: the copies that are recalculated.
ListDevices ==
    /\ handler.pc = "list"
    /\ handler' = IF state.rev = 0 THEN IdleHandler
                  ELSE [handler EXCEPT !.pc = "save", !.st = state]
    /\ UNCHANGED <<revision, reports, state, prefix, ddns, dns, now, crashes>>

\* The router has not been heard of for PrefixStateTTL.
PrefixesStale ==
    /\ prefix.known /\ ~prefix.stale
    /\ prefix' = [prefix EXCEPT !.stale = TRUE]
    /\ UNCHANGED <<revision, reports, state, handler, ddns, dns, now, crashes>>

-----------------------------------------------------------------------------
(* ReconcileDevice, started by a changed report and every minute *)

ReconcileGet ==
    /\ ddns.pc = "idle" /\ state.rev # 0
    /\ ddns' = [pc |-> "plan", st |-> state]
    /\ UNCHANGED <<revision, reports, state, prefix, handler, dns, now, crashes>>

Candidates(st) == st.addrs \cap prefix.cover

\* What is done with the copy: nothing, a save, or a save and a call.
Plan(st) ==
    LET a == SelectAddress(Candidates(st), st.applied) IN
    IF a # NoAddr
    THEN IF st.applied = a /\ st.status = "synced" THEN IdleReconcile
         ELSE [pc |-> "begin",
               st |-> [st EXCEPT !.grace = 0, !.desired = a, !.status = "syncing"]]
    ELSE IF st.applied = NoAddr
    THEN [pc |-> "end", st |-> [st EXCEPT !.desired = NoAddr, !.status = "synced"]]
    ELSE IF st.grace = 0
    THEN [pc |-> "end", st |-> [st EXCEPT !.grace = now + Grace, !.status = "grace_period"]]
    ELSE IF now < st.grace THEN IdleReconcile
    ELSE [pc |-> "begin", st |-> [st EXCEPT !.status = "syncing"]]

\* Stale prefixes change nothing.
ReconcilePlan ==
    /\ ddns.pc = "plan"
    /\ ddns' = IF prefix.stale THEN IdleReconcile ELSE Plan(ddns.st)
    /\ UNCHANGED <<revision, reports, state, prefix, handler, dns, now, crashes>>

\* The copy that says syncing is saved; the call deletes the record when the
\* grace period is over (GracePeriodEnd is still set), else publishes.
ReconcileBegin(written) ==
    /\ ddns.pc = "begin"
    /\ state' = IF written THEN ddns.st ELSE state
    /\ ddns' = [ddns EXCEPT !.pc = IF ddns.st.grace = 0 THEN "upsert" ELSE "delete"]
    /\ UNCHANGED <<revision, reports, prefix, handler, dns, now, crashes>>

Published(st, ok) == IF ok THEN [st EXCEPT !.applied = st.desired, !.status = "synced"]
                     ELSE [st EXCEPT !.status = "failed"]

Removed(st, ok) == IF ok THEN [st EXCEPT !.applied = NoAddr, !.desired = NoAddr,
                                         !.grace = 0, !.status = "synced"]
                   ELSE [st EXCEPT !.status = "failed"]

\* A call that fails may have reached the provider (done, but not ok).
UpsertAAAA(done, ok) ==
    /\ ddns.pc = "upsert" /\ (ok => done)
    /\ dns' = IF done THEN ddns.st.desired ELSE dns
    /\ ddns' = [pc |-> "end", st |-> Published(ddns.st, ok)]
    /\ UNCHANGED <<revision, reports, state, prefix, handler, now, crashes>>

DeleteAAAA(done, ok) ==
    /\ ddns.pc = "delete" /\ (ok => done)
    /\ dns' = IF done THEN NoAddr ELSE dns
    /\ ddns' = [pc |-> "end", st |-> Removed(ddns.st, ok)]
    /\ UNCHANGED <<revision, reports, state, prefix, handler, now, crashes>>

ReconcileEnd(written) ==
    /\ ddns.pc = "end"
    /\ state' = IF written THEN ddns.st ELSE state
    /\ ddns' = IdleReconcile
    /\ UNCHANGED <<revision, reports, prefix, handler, dns, now, crashes>>

-----------------------------------------------------------------------------

\* The server dies; its files stay.
ServerCrash ==
    /\ crashes < MaxCrashes /\ crashes' = crashes + 1
    /\ handler' = IdleHandler /\ ddns' = IdleReconcile
    /\ UNCHANGED <<revision, reports, state, prefix, dns, now>>

Tick ==
    /\ now < Horizon
    /\ now' = now + 1
    /\ UNCHANGED <<revision, reports, state, prefix, handler, ddns, dns, crashes>>

ReconcileStep ==
    \/ ReconcileGet \/ ReconcilePlan
    \/ \E written \in Outcome : ReconcileBegin(written) \/ ReconcileEnd(written)
    \/ \E done, ok \in BOOLEAN : UpsertAAAA(done, ok) \/ DeleteAAAA(done, ok)

Next ==
    \/ \E r \in Report :
          \/ \E addrs \in Snapshot : StartReport(r, addrs)
          \/ \E written \in BOOLEAN : RecoverReport(r, written) \/ PutReport(r, written)
          \/ GiveUp(r)
    \/ \E written, answered \in BOOLEAN : SaveDesired(written, answered)
    \/ \E cover \in Prefixes : PutPrefixes(cover)
    \/ ListDevices \/ PrefixesStale
    \/ ReconcileStep
    \/ ServerCrash
    \/ Tick

Spec == Init /\ [][Next]_vars

\* StartBackgroundSweep reconciles every minute, a reconciliation that started
\* goes on, and a provider that is asked again and again answers in the end.
Fairness == WF_vars(ReconcileStep) /\ SF_vars(UpsertAAAA(TRUE, TRUE))

FairSpec == Spec /\ Fairness

-----------------------------------------------------------------------------
(* Properties *)

\* A revision names one snapshot: the server never holds, and nobody carries,
\* different addresses under the revision of a report on its way, whatever
\* crashes, whatever is sent again and whichever stale copy is saved last.
\* So revision_content_mismatch is never answered (Allocate and
\* AdvanceAfterConflict write the file before the number is used).
RevisionNamesSnapshot ==
    \A r \in Report : reports[r].pc # "idle" =>
        /\ state.rev = reports[r].rev => state.addrs = reports[r].addrs
        /\ ddns.st.rev = reports[r].rev => ddns.st.addrs = reports[r].addrs
        /\ handler.st.rev = reports[r].rev => handler.st.addrs = reports[r].addrs
        /\ \A q \in Report : reports[q].pc # "idle" /\ reports[q].rev = reports[r].rev => q = r

\* In the end the right address is published: once the stored addresses in
\* fresh prefixes stay the same and there are any, the DNS record comes to be,
\* and stays, one of them (ReconcileDevice, swept every minute).
Converges ==
    \A c \in SUBSET Addr \ {{}} :
        <>[](~prefix.stale /\ Candidates(state) = c) => <>[](dns \in c)
=============================================================================
