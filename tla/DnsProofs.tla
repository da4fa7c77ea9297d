----------------------------- MODULE DnsProofs -----------------------------
(***************************************************************************)
(* Theorems about DeviceNetwork and about DomainBinding, for every set of  *)
(* addresses, snapshots, bindings and workers, and every bound.  Each has  *)
(* its own inductive invariant, NetworkInv and BindingParts.               *)
(***************************************************************************)
EXTENDS DeviceNetwork, DomainBinding, FiniteSetTheorems, WellFoundedInduction, TLAPS

----------------------------------------------------------------------------
(* Device network state and DDNS.                                          *)

\* A grace period has an end and an address to keep.
GraceHasEnd(st) == st.status = "grace_period" => st.grace # 0 /\ st.applied # NoAddr

\* A copy of the record that ReconcileDevice or a handler may work on.
Sound(st) == st \in State /\ GraceHasEnd(st)

\* A copy carries the report of the record it was made from, or nothing.
SameReport(new, st) == new.rev = 0 \/ (new.rev = st.rev /\ new.addrs = st.addrs)

\* Nothing that is stored, copied or on its way carries a revision the agent
\* has not written to its file.
Allocated ==
    /\ state.rev <= revision /\ handler.st.rev <= revision /\ ddns.st.rev <= revision
    /\ \A r \in Report : /\ reports[r].rev <= revision /\ reports[r].current <= revision
                         /\ reports[r].pc # "idle" => reports[r].rev > 0

\* The inductive invariant.
NetworkInv == TypeOK /\ Allocated /\ RevisionNamesSnapshot

\* The record of a device that has not reported is sound.
LEMMA NoStateSound == Sound(NoState)
  BY DEF NoState, State, SyncStatus, GraceHasEnd, Sound, NoAddr

\* SelectAddress returns a candidate or no address.
LEMMA SelectTyped ==
  ASSUME NEW candidates \in SUBSET Addr, NEW current \in Addr \cup {NoAddr}
  PROVE  SelectAddress(candidates, current) \in Addr \cup {NoAddr}
<1>1. CASE candidates = {}
  BY <1>1 DEF SelectAddress
<1>2. CASE candidates # {} /\ current \in candidates
  BY <1>2 DEF SelectAddress
<1>3. CASE candidates # {} /\ current \notin candidates
  <2>1. candidates \subseteq Nat
    BY NetworkAssumption
  <2>2. PICK a \in candidates : \A b \in candidates : ~ (<<b, a>> \in OpToRel(<, Nat))
    BY <1>3, <2>1, WFMin, NatLessThanWellFounded
  <2>3. \A b \in Nat : b < a => <<b, a>> \in OpToRel(<, Nat)
    BY <2>1 DEF OpToRel
  <2> HIDE DEF OpToRel
  <2>4. \A b \in candidates : b \in Nat /\ ~ (b < a)
    BY <2>1, <2>2, <2>3
  <2>6. \A b \in candidates : a <= b
    BY <2>1, <2>4
  <2>5. Lowest(candidates) \in candidates
    BY <2>6 DEF Lowest
  <2> QED
    BY <1>3, <2>5 DEF SelectAddress
<1> QED
  BY <1>1, <1>2, <1>3

\* Every record the handlers and the reconciler save is sound if their copy is.
LEMMA SavedSound ==
  ASSUME TypeOK, NEW st, Sound(st)
  PROVE  /\ \A rev \in Nat, addrs \in SUBSET Addr :
              Sound(Updated(st, rev, addrs)) /\ Updated(st, rev, addrs).rev = rev
              /\ Updated(st, rev, addrs).addrs = addrs
         /\ Sound(Desired(st)) /\ SameReport(Desired(st), st)
         /\ Plan(st) \in Reconcile /\ Sound(Plan(st).st)
         /\ SameReport(Plan(st).st, st)
         /\ \A ok \in BOOLEAN :
              /\ Sound(Published(st, ok)) /\ SameReport(Published(st, ok), st)
              /\ Sound(Removed(st, ok)) /\ SameReport(Removed(st, ok), st)
<1> USE DEF Sound, State, GraceHasEnd, SyncStatus, SameReport
<1>1. ASSUME NEW rev \in Nat, NEW addrs \in SUBSET Addr
      PROVE  Sound(Updated(st, rev, addrs)) /\ Updated(st, rev, addrs).rev = rev
                         /\ Updated(st, rev, addrs).addrs = addrs
  BY DEF Updated
<1>2. Sound(Desired(st)) /\ SameReport(Desired(st), st)
  <2> DEFINE candidates == IF ~prefix.known /\ ~Associated THEN st.addrs
                           ELSE IF prefix.stale THEN {} ELSE st.addrs \cap prefix.cover
             a == SelectAddress(candidates, st.desired)
  <2>1. candidates \in SUBSET Addr
    OBVIOUS
  <2> HIDE DEF candidates
  <2>2. a \in Addr \cup {NoAddr}
    BY <2>1, SelectTyped
  <2> HIDE DEF a
  <2>3. Desired(st) = [st EXCEPT !.desired = a, !.status = IF a # st.desired THEN "pending" ELSE @]
    BY DEF Desired, a, candidates
  <2> QED
    BY <2>2, <2>3
<1>3. /\ Plan(st) \in Reconcile /\ Sound(Plan(st).st)
      /\ SameReport(Plan(st).st, st)
  <2> DEFINE a == SelectAddress(Candidates(st), st.applied)
  <2>1. a \in Addr \cup {NoAddr}
    BY SelectTyped DEF Candidates
  <2> HIDE DEF a
  <2>2. IdleReconcile \in Reconcile /\ Sound(IdleReconcile.st) /\ IdleReconcile.st.rev = 0
    BY NoStateSound DEF IdleReconcile, Reconcile, NoState
  <2>3. \/ Plan(st) = IdleReconcile
        \/ a # NoAddr /\ Plan(st) = [pc |-> "begin",
               st |-> [st EXCEPT !.grace = 0, !.desired = a, !.status = "syncing"]]
        \/ Plan(st) = [pc |-> "end", st |-> [st EXCEPT !.desired = NoAddr, !.status = "synced"]]
        \/ st.applied # NoAddr /\ Plan(st) = [pc |-> "end",
               st |-> [st EXCEPT !.grace = now + Grace, !.status = "grace_period"]]
        \/ Plan(st) = [pc |-> "begin", st |-> [st EXCEPT !.status = "syncing"]]
    BY DEF Plan, a
  <2>4. now + Grace \in Nat /\ now + Grace # 0
    BY NetworkAssumption DEF TypeOK
  <2>5. CASE Plan(st) = IdleReconcile
    BY <2>2, <2>5
  <2>6. CASE Plan(st) = [pc |-> "begin", st |-> [st EXCEPT !.grace = 0, !.desired = a, !.status = "syncing"]]
    <3> DEFINE new == [st EXCEPT !.grace = 0, !.desired = a, !.status = "syncing"]
    <3>1. Sound(new) /\ SameReport(new, st)
      BY <2>1
    <3>2. Plan(st) = [pc |-> "begin", st |-> new]
      BY <2>6
    <3> HIDE DEF new
    <3> QED
      BY <3>1, <3>2 DEF Reconcile
  <2>7. CASE Plan(st) = [pc |-> "end", st |-> [st EXCEPT !.desired = NoAddr, !.status = "synced"]]
    <3> DEFINE new == [st EXCEPT !.desired = NoAddr, !.status = "synced"]
    <3>1. Sound(new) /\ SameReport(new, st)
      BY <2>1
    <3>2. Plan(st) = [pc |-> "end", st |-> new]
      BY <2>7
    <3> HIDE DEF new
    <3> QED
      BY <3>1, <3>2 DEF Reconcile
  <2>8. CASE st.applied # NoAddr /\ Plan(st) = [pc |-> "end", st |-> [st EXCEPT !.grace = now + Grace, !.status = "grace_period"]]
    <3> DEFINE new == [st EXCEPT !.grace = now + Grace, !.status = "grace_period"]
    <3>1. Sound(new) /\ SameReport(new, st)
      BY <2>4, <2>8
    <3>2. Plan(st) = [pc |-> "end", st |-> new]
      BY <2>8
    <3> HIDE DEF new
    <3> QED
      BY <3>1, <3>2 DEF Reconcile
  <2>9. CASE Plan(st) = [pc |-> "begin", st |-> [st EXCEPT !.status = "syncing"]]
    <3> DEFINE new == [st EXCEPT !.status = "syncing"]
    <3>1. Sound(new) /\ SameReport(new, st)
      BY <2>1
    <3>2. Plan(st) = [pc |-> "begin", st |-> new]
      BY <2>9
    <3> HIDE DEF new
    <3> QED
      BY <3>1, <3>2 DEF Reconcile
  <2> QED
    BY <2>3, <2>5, <2>6, <2>7, <2>8, <2>9
<1>4. ASSUME NEW ok \in BOOLEAN
      PROVE  /\ Sound(Published(st, ok)) /\ SameReport(Published(st, ok), st)
             /\ Sound(Removed(st, ok)) /\ SameReport(Removed(st, ok), st)
  BY DEF Published, Removed
<1> QED
  BY <1>1, <1>2, <1>3, <1>4

\* TypeOK, with what it says of the copies in one word.
LEMMA TypeIsSound ==
  TypeOK <=> /\ revision \in Nat /\ now \in Nat /\ crashes \in Nat
             /\ reports \in [Report -> ReportState]
             /\ prefix \in [known : BOOLEAN, cover : SUBSET Addr, stale : BOOLEAN]
             /\ handler \in Handler /\ ddns \in Reconcile
             /\ dns \in Addr \cup {NoAddr}
             /\ Sound(state) /\ Sound(handler.st) /\ Sound(ddns.st)
  BY DEF TypeOK, Sound, GraceHasEnd, Handler, Reconcile

\* The same of the next state.
LEMMA NextTyped ==
  ASSUME revision' \in Nat, now' \in Nat, crashes' \in Nat,
         reports' \in [Report -> ReportState],
         prefix' \in [known : BOOLEAN, cover : SUBSET Addr, stale : BOOLEAN],
         handler' \in Handler, ddns' \in Reconcile, dns' \in Addr \cup {NoAddr},
         Sound(state'), Sound(handler'.st), Sound(ddns'.st)
  PROVE  TypeOK'
  BY DEF TypeOK, Sound, GraceHasEnd, Handler, Reconcile

\* What NetworkInv says of the copies and the reports, fact by fact.
LEMMA InvFacts ==
  ASSUME NetworkInv
  PROVE  /\ Sound(state) /\ Sound(handler.st) /\ Sound(ddns.st)
         /\ state.rev \in Nat /\ handler.st.rev \in Nat /\ ddns.st.rev \in Nat
         /\ \A r \in Report : /\ reports[r] \in ReportState
                              /\ reports[r].rev \in Nat /\ reports[r].current \in Nat
  BY TypeIsSound DEF NetworkInv, Sound, State, ReportState

\* A step that leaves the agent and its reports alone and replaces copies of
\* the record only by copies of the same report keeps the revisions right.
LEMMA CopiesKeepRevisions ==
  ASSUME NetworkInv, UNCHANGED <<revision, reports>>, TypeOK',
         NEW a \in {state, handler.st, ddns.st}, SameReport(state', a),
         NEW b \in {state, handler.st, ddns.st}, SameReport(handler'.st, b),
         NEW c \in {state, handler.st, ddns.st}, SameReport(ddns'.st, c)
  PROVE  (Allocated /\ RevisionNamesSnapshot)'
<1>1. /\ a.rev \in Nat /\ b.rev \in Nat /\ c.rev \in Nat
      /\ a.rev <= revision /\ b.rev <= revision /\ c.rev <= revision
  BY InvFacts DEF NetworkInv, Allocated
<1>2. \A r \in Report : reports[r].pc # "idle" =>
        /\ reports[r].rev > 0
        /\ a.rev = reports[r].rev => a.addrs = reports[r].addrs
        /\ b.rev = reports[r].rev => b.addrs = reports[r].addrs
        /\ c.rev = reports[r].rev => c.addrs = reports[r].addrs
  BY DEF NetworkInv, Allocated, RevisionNamesSnapshot
<1>3. revision \in Nat
  BY DEF NetworkInv, TypeOK
<1>4. Allocated'
  BY <1>1, <1>3 DEF NetworkInv, Allocated, SameReport
<1>5. RevisionNamesSnapshot'
  BY <1>1, <1>2 DEF NetworkInv, RevisionNamesSnapshot, SameReport
<1> QED
  BY <1>4, <1>5

\* A step that leaves all copies alone and gives reports new revisions only
\* above the stored one, which it stores, keeps the invariant.
LEMMA FreshRevision ==
  ASSUME NetworkInv, UNCHANGED <<state, handler, ddns, prefix, dns, now, crashes>>,
         NEW r \in Report, NEW new \in ReportState,
         reports' = [reports EXCEPT ![r] = new],
         revision' \in Nat, revision' >= revision, new.current <= revision',
         new.pc # "idle" => new.rev > 0,
         \/ new.pc = "idle" /\ new.rev = 0
         \/ new.rev = revision' /\ revision' > revision
         \/ reports[r].pc # "idle" /\ new.rev = reports[r].rev /\ new.addrs = reports[r].addrs
  PROVE  NetworkInv'
<1>1. revision \in Nat /\ new.rev \in Nat /\ new.current \in Nat
  BY DEF NetworkInv, TypeOK, ReportState
<1>2. \A q \in Report : /\ reports[q].rev \in Nat /\ reports[q].current \in Nat
                        /\ reports[q].rev <= revision /\ reports[q].current <= revision
                        /\ reports'[q] = IF q = r THEN new ELSE reports[q]
  BY InvFacts DEF NetworkInv, Allocated, TypeOK
<1>3. /\ state.rev \in Nat /\ handler.st.rev \in Nat /\ ddns.st.rev \in Nat
      /\ state.rev <= revision /\ handler.st.rev <= revision /\ ddns.st.rev <= revision
  BY InvFacts DEF NetworkInv, Allocated
<1>4. Allocated'
  BY <1>1, <1>2, <1>3 DEF NetworkInv, Allocated
<1>5. RevisionNamesSnapshot'
  <2>1. CASE new.pc = "idle" /\ new.rev = 0
    BY <1>1, <1>2, <2>1 DEF NetworkInv, RevisionNamesSnapshot
  <2>2. CASE new.rev = revision' /\ revision' > revision
    <3>1. \A q \in Report : reports[q].rev # new.rev
      BY <1>1, <1>2, <2>2
    <3>2. state.rev # new.rev /\ handler.st.rev # new.rev /\ ddns.st.rev # new.rev
      BY <1>1, <1>3, <2>2
    <3> QED
      BY <1>2, <3>1, <3>2 DEF NetworkInv, RevisionNamesSnapshot
  <2>3. CASE reports[r].pc # "idle" /\ new.rev = reports[r].rev /\ new.addrs = reports[r].addrs
    BY <1>2, <2>3 DEF NetworkInv, RevisionNamesSnapshot
  <2> QED
    BY <2>1, <2>2, <2>3
<1>6. TypeOK'
  BY DEF NetworkInv, TypeOK
<1> QED
  BY <1>4, <1>5, <1>6 DEF NetworkInv

\* The report steps of the agent keep the invariant.
LEMMA AgentKeeps ==
  ASSUME NetworkInv, NEW r \in Report,
         \/ \E addrs \in Snapshot : StartReport(r, addrs)
         \/ \E written \in BOOLEAN : RecoverReport(r, written)
         \/ GiveUp(r)
  PROVE  NetworkInv'
<1>1. revision \in Nat /\ reports \in [Report -> ReportState]
  BY DEF NetworkInv, TypeOK
<1>2. ASSUME NEW addrs \in Snapshot, StartReport(r, addrs)
      PROVE  NetworkInv'
  <2> DEFINE new == [pc |-> "send", rev |-> revision + 1, addrs |-> addrs,
                     recovered |-> FALSE, current |-> 0]
  <2>1. /\ revision' = revision + 1 /\ reports' = [reports EXCEPT ![r] = new]
        /\ UNCHANGED <<state, handler, ddns, prefix, dns, now, crashes>>
    BY <1>2 DEF StartReport
  <2>2. addrs \in SUBSET Addr
    BY NetworkAssumption
  <2>3. new \in ReportState
    BY <1>1, <2>2 DEF ReportState
  <2>4. new.rev = revision + 1 /\ new.current = 0 /\ new.pc = "send"
    OBVIOUS
  <2> HIDE DEF new
  <2>5. /\ revision' \in Nat /\ revision' >= revision /\ new.current <= revision'
        /\ new.rev > 0 /\ new.rev = revision' /\ revision' > revision
    BY <1>1, <2>1, <2>4
  <2> QED
    BY <2>1, <2>3, <2>5, FreshRevision
<1>3. ASSUME NEW written \in BOOLEAN, RecoverReport(r, written)
      PROVE  NetworkInv'
  <2> DEFINE next == AdvanceAfterConflict(revision, reports[r].current)
             rev == IF written THEN next ELSE reports[r].rev
             new == [reports[r] EXCEPT !.pc = "send", !.current = 0, !.recovered = written,
                                       !.rev = rev]
  <2>1. /\ reports[r] \in ReportState /\ reports[r].rev \in Nat /\ reports[r].current \in Nat
        /\ reports[r].pc = "conflict"
    BY <1>1, <1>3 DEF ReportState, RecoverReport
  <2>2. reports[r].rev > 0
    BY <2>1 DEF NetworkInv, Allocated
  <2>3. next \in Nat /\ next > revision
    BY <1>1, <2>1 DEF AdvanceAfterConflict
  <2>4. /\ revision' = (IF written THEN next ELSE revision)
        /\ reports' = [reports EXCEPT ![r] = new]
        /\ UNCHANGED <<state, handler, ddns, prefix, dns, now, crashes>>
    BY <1>3 DEF RecoverReport
  <2> HIDE DEF next
  <2>5. rev \in Nat /\ rev > 0
    BY <1>1, <2>1, <2>2, <2>3
  <2> HIDE DEF rev
  <2>6. /\ new \in ReportState /\ new.current = 0 /\ new.addrs = reports[r].addrs
        /\ new.rev = rev
    BY <2>1, <2>5 DEF ReportState
  <2> HIDE DEF new
  <2>7. revision' \in Nat /\ revision' >= revision /\ new.current <= revision'
    BY <1>1, <2>3, <2>4, <2>6
  <2>8. \/ new.rev = revision' /\ revision' > revision
        \/ new.rev = reports[r].rev
    BY <1>1, <2>3, <2>4, <2>6 DEF rev
  <2> QED
    BY <2>1, <2>4, <2>5, <2>6, <2>7, <2>8, FreshRevision
<1>4. ASSUME GiveUp(r)
      PROVE  NetworkInv'
  <2>1. /\ revision' = revision /\ reports' = [reports EXCEPT ![r] = IdleReport]
        /\ UNCHANGED <<state, handler, ddns, prefix, dns, now, crashes>>
    BY <1>4 DEF GiveUp
  <2>2. /\ IdleReport \in ReportState /\ IdleReport.pc = "idle" /\ IdleReport.rev = 0
        /\ IdleReport.current = 0
    BY DEF IdleReport, ReportState
  <2>3. revision' \in Nat /\ revision' >= revision /\ IdleReport.current <= revision'
    BY <1>1, <2>1, <2>2
  <2> QED
    BY <2>1, <2>2, <2>3, FreshRevision
<1> QED
  BY <1>2, <1>3, <1>4

\* Storing a report keeps the invariant.
LEMMA PutKeeps ==
  ASSUME NetworkInv, NEW r \in Report, NEW written \in BOOLEAN, PutReport(r, written)
  PROVE  NetworkInv'
<1> DEFINE rep == reports[r]
<1>1. /\ revision \in Nat /\ reports \in [Report -> ReportState] /\ rep \in ReportState
      /\ rep.rev \in Nat /\ rep.addrs \in SUBSET Addr /\ rep.pc = "send"
      /\ UNCHANGED <<revision, prefix, ddns, dns, now, crashes>>
  BY DEF NetworkInv, TypeOK, ReportState, PutReport
<1>2. /\ rep.rev <= revision /\ rep.rev > 0 /\ rep.current <= revision
      /\ state.rev <= revision /\ handler.st.rev <= revision /\ ddns.st.rev <= revision
  BY <1>1 DEF NetworkInv, Allocated
<1>3. state.rev \in Nat /\ Sound(state) /\ Sound(handler.st) /\ Sound(ddns.st)
  BY InvFacts
<1>4. CASE ~Accepts(state, rep)
  <2>1. UNCHANGED <<state, handler>>
    BY <1>4 DEF PutReport
  <2>2. CASE rep.recovered
    <3>1. UNCHANGED reports
      BY <1>4, <2>2 DEF PutReport
    <3> QED
      BY <1>1, <2>1, <3>1 DEF NetworkInv, TypeOK, Allocated, RevisionNamesSnapshot
  <2>3. CASE ~rep.recovered
    <3> DEFINE new == [rep EXCEPT !.pc = "conflict", !.current = state.rev]
    <3>1. reports' = [reports EXCEPT ![r] = new]
      BY <1>1, <1>4, <2>3 DEF PutReport
    <3>2. /\ new \in ReportState /\ new.rev = rep.rev /\ new.addrs = rep.addrs
          /\ new.current = state.rev
      BY <1>1, <1>3 DEF ReportState
    <3> HIDE DEF new
    <3>3. revision' \in Nat /\ revision' >= revision /\ new.current <= revision'
      BY <1>1, <1>2, <3>2
    <3>4. reports[r].pc # "idle" /\ new.rev = reports[r].rev /\ new.rev > 0
      BY <1>1, <1>2, <3>2
    <3> QED
      BY <1>1, <2>1, <3>1, <3>2, <3>3, <3>4, FreshRevision
  <2> QED
    BY <2>2, <2>3
<1>5. CASE Accepts(state, rep)
  <2> DEFINE st == IF rep.rev > state.rev THEN Updated(state, rep.rev, rep.addrs) ELSE state
  <2>1. /\ state' = IF written THEN st ELSE state
        /\ handler' = IF written \/ st = state
                      THEN [pc |-> "save", st |-> st, from |-> r] ELSE handler
        /\ UNCHANGED reports
    BY <1>5 DEF PutReport
  <2>2. LET new == Updated(state, rep.rev, rep.addrs)
        IN  Sound(new) /\ new.rev = rep.rev /\ new.addrs = rep.addrs
    BY <1>1, <1>3, SavedSound DEF NetworkInv
  <2>3. Sound(st) /\ (st = state \/ (st.rev = rep.rev /\ st.addrs = rep.addrs))
    BY <1>3, <2>2
  <2> HIDE DEF st
  <2>4. /\ handler' \in Handler /\ Sound(state') /\ Sound(handler'.st)
    <3>1. [pc |-> "save", st |-> st, from |-> r] \in Handler
      BY <2>3 DEF Handler, Sound
    <3>2. handler \in Handler
      BY DEF NetworkInv, TypeOK
    <3> QED
      BY <1>3, <2>1, <2>3, <3>1, <3>2
  <2>5. TypeOK'
    <3>1. /\ now \in Nat /\ crashes \in Nat /\ ddns \in Reconcile /\ dns \in Addr \cup {NoAddr}
          /\ prefix \in [known : BOOLEAN, cover : SUBSET Addr, stale : BOOLEAN]
      BY DEF NetworkInv, TypeOK
    <3> QED
      BY <1>1, <1>3, <2>1, <2>4, <3>1, NextTyped
  <2>6. (state' = state \/ state' = st) /\ (handler'.st = handler.st \/ handler'.st = st)
    BY <2>1
  <2>7. st.rev <= revision
    BY <1>2, <2>3
  <2>8. Allocated'
    BY <1>1, <1>2, <2>1, <2>6, <2>7 DEF NetworkInv, Allocated
  <2>9. RevisionNamesSnapshot'
    <3>1. \A q \in Report : reports[q].pc # "idle" /\ reports[q].rev = st.rev =>
                               st.addrs = reports[q].addrs
      BY <1>1, <2>3 DEF NetworkInv, RevisionNamesSnapshot
    <3> QED
      BY <1>1, <2>1, <2>6, <3>1 DEF NetworkInv, RevisionNamesSnapshot
  <2> QED
    BY <2>5, <2>8, <2>9 DEF NetworkInv
<1> QED
  BY <1>4, <1>5

\* A step of the handlers or the reconciler that keeps the types and replaces
\* copies of the record only by copies of the same report keeps the invariant.
LEMMA CopyKeeps ==
  ASSUME NetworkInv, UNCHANGED <<revision, reports>>,
         now' \in Nat, crashes' \in Nat,
         prefix' \in [known : BOOLEAN, cover : SUBSET Addr, stale : BOOLEAN],
         handler' \in Handler, ddns' \in Reconcile, dns' \in Addr \cup {NoAddr},
         NEW a \in {state, handler.st, ddns.st}, Sound(state'), SameReport(state', a),
         NEW b \in {state, handler.st, ddns.st}, Sound(handler'.st), SameReport(handler'.st, b),
         NEW c \in {state, handler.st, ddns.st}, Sound(ddns'.st), SameReport(ddns'.st, c)
  PROVE  NetworkInv'
<1>1. revision' \in Nat /\ reports' \in [Report -> ReportState]
  BY DEF NetworkInv, TypeOK
<1>2. TypeOK'
  BY <1>1, NextTyped
<1>3. (Allocated /\ RevisionNamesSnapshot)'
  BY <1>2, CopiesKeepRevisions
<1> QED
  BY <1>2, <1>3 DEF NetworkInv

\* The other steps of the handlers keep the invariant.
LEMMA HandlerKeeps ==
  ASSUME NetworkInv,
         \/ \E cover \in Prefixes : PutPrefixes(cover)
         \/ ListDevices \/ PrefixesStale \/ Tick
  PROVE  NetworkInv'
<1> DEFINE copies == {state, handler.st, ddns.st}
<1>1. /\ now \in Nat /\ crashes \in Nat /\ dns \in Addr \cup {NoAddr}
      /\ prefix \in [known : BOOLEAN, cover : SUBSET Addr, stale : BOOLEAN]
      /\ handler \in Handler /\ ddns \in Reconcile
  BY DEF NetworkInv, TypeOK
<1>2. Sound(state) /\ Sound(handler.st) /\ Sound(ddns.st) /\ Sound(NoState)
  BY InvFacts, NoStateSound
<1>3. \A st : SameReport(st, st) /\ SameReport(NoState, st)
  BY DEF SameReport, NoState
<1>4. ASSUME NEW cover \in Prefixes, PutPrefixes(cover)
      PROVE  NetworkInv'
  <2>1. cover \in SUBSET Addr
    BY NetworkAssumption
  <2>2. /\ handler' = [pc |-> "list", st |-> NoState, from |-> "router"]
        /\ prefix' = [known |-> TRUE, cover |-> cover, stale |-> FALSE]
        /\ UNCHANGED <<revision, reports, state, ddns, dns, now, crashes>>
    BY <1>4 DEF PutPrefixes
  <2>3. handler' \in Handler /\ handler'.st = NoState
    BY <1>2, <2>2 DEF Handler, Sound
  <2>4. prefix' \in [known : BOOLEAN, cover : SUBSET Addr, stale : BOOLEAN]
    BY <2>1, <2>2
  <2>5. /\ SameReport(state', state) /\ SameReport(handler'.st, state)
        /\ SameReport(ddns'.st, ddns.st)
        /\ Sound(state') /\ Sound(handler'.st) /\ Sound(ddns'.st)
    BY <1>2, <1>3, <2>2, <2>3
  <2> QED
    BY <1>1, <2>2, <2>3, <2>4, <2>5, CopyKeeps
<1>5. CASE ListDevices
  <2>1. /\ handler' = IF state.rev = 0 THEN IdleHandler
                      ELSE [handler EXCEPT !.pc = "save", !.st = state]
        /\ UNCHANGED <<revision, reports, state, prefix, ddns, dns, now, crashes>>
    BY <1>5 DEF ListDevices
  <2>2. IdleHandler \in Handler /\ IdleHandler.st = NoState
    BY <1>2 DEF Handler, Sound, IdleHandler
  <2>3. /\ [handler EXCEPT !.pc = "save", !.st = state] \in Handler
        /\ [handler EXCEPT !.pc = "save", !.st = state].st = state
    BY <1>1, <1>2 DEF Handler, Sound
  <2>4. handler' \in Handler /\ (handler'.st = NoState \/ handler'.st = state)
    BY <2>1, <2>2, <2>3
  <2>5. /\ SameReport(state', state) /\ SameReport(handler'.st, state)
        /\ SameReport(ddns'.st, ddns.st)
        /\ Sound(state') /\ Sound(handler'.st) /\ Sound(ddns'.st)
    BY <1>2, <1>3, <2>1, <2>4
  <2> QED
    BY <1>1, <2>1, <2>4, <2>5, CopyKeeps
<1>6. CASE PrefixesStale
  <2>1. /\ prefix' = [prefix EXCEPT !.stale = TRUE]
        /\ UNCHANGED <<revision, reports, state, handler, ddns, dns, now, crashes>>
    BY <1>6 DEF PrefixesStale
  <2>2. prefix' \in [known : BOOLEAN, cover : SUBSET Addr, stale : BOOLEAN]
    BY <1>1, <2>1
  <2> QED
    BY <1>1, <1>2, <1>3, <2>1, <2>2, CopyKeeps
<1>7. CASE Tick
  <2>1. /\ now' = now + 1
        /\ UNCHANGED <<revision, reports, state, prefix, handler, ddns, dns, crashes>>
    BY <1>7 DEF Tick
  <2>2. now' \in Nat
    BY <1>1, <2>1
  <2> QED
    BY <1>1, <1>2, <1>3, <2>1, <2>2, CopyKeeps
<1> QED
  BY <1>4, <1>5, <1>6, <1>7

\* The last step of a handler keeps the invariant: its copy may be stale, but
\* carries a report the agent made, and a report that is answered is gone.
LEMMA SaveKeeps ==
  ASSUME NetworkInv, NEW written \in BOOLEAN, NEW answered \in BOOLEAN,
         SaveDesired(written, answered)
  PROVE  NetworkInv'
<1> DEFINE new == Desired(handler.st)
<1>1. /\ revision \in Nat /\ now \in Nat /\ crashes \in Nat /\ dns \in Addr \cup {NoAddr}
      /\ prefix \in [known : BOOLEAN, cover : SUBSET Addr, stale : BOOLEAN]
      /\ ddns \in Reconcile /\ reports \in [Report -> ReportState]
  BY DEF NetworkInv, TypeOK
<1>2. /\ state' = (IF written THEN new ELSE state) /\ handler' = IdleHandler
      /\ UNCHANGED <<revision, prefix, ddns, dns, now, crashes>>
      /\ \/ reports' = reports
         \/ handler.from \in Report /\ reports' = [reports EXCEPT ![handler.from] = IdleReport]
  BY DEF SaveDesired
<1>3. Sound(state) /\ Sound(handler.st) /\ Sound(ddns.st) /\ Sound(NoState)
  BY InvFacts, NoStateSound
<1>4. Sound(new) /\ SameReport(new, handler.st)
  BY <1>3, SavedSound DEF NetworkInv
<1> HIDE DEF new
<1>5. IdleHandler \in Handler /\ IdleHandler.st = NoState /\ NoState.rev = 0
  BY <1>3 DEF Handler, Sound, IdleHandler, NoState
<1>6. IdleReport \in ReportState /\ IdleReport.pc = "idle" /\ IdleReport.rev = 0 /\ IdleReport.current = 0
  BY DEF IdleReport, ReportState
<1>7. /\ reports' \in [Report -> ReportState]
      /\ \A q \in Report : reports'[q] = reports[q] \/ reports'[q] = IdleReport
  BY <1>1, <1>2, <1>6
<1>8. Sound(state') /\ (state' = state \/ SameReport(state', handler.st))
  BY <1>2, <1>3, <1>4
<1>9. TypeOK'
  BY <1>1, <1>2, <1>3, <1>5, <1>7, <1>8, NextTyped
<1>10. /\ state.rev \in Nat /\ handler.st.rev \in Nat /\ ddns.st.rev \in Nat
       /\ state.rev <= revision /\ handler.st.rev <= revision /\ ddns.st.rev <= revision
  BY InvFacts DEF NetworkInv, Allocated
<1>11. Allocated'
  <2>1. state'.rev <= revision
    BY <1>1, <1>8, <1>10 DEF SameReport
  <2>2. \A q \in Report : /\ reports'[q].rev <= revision /\ reports'[q].current <= revision
                          /\ reports'[q].pc # "idle" => reports'[q].rev > 0
    BY <1>1, <1>6, <1>7 DEF NetworkInv, Allocated
  <2> QED
    BY <1>1, <1>2, <1>5, <1>10, <2>1, <2>2 DEF Allocated
<1>12. RevisionNamesSnapshot'
  <2>1. \A q \in Report : reports'[q].pc # "idle" =>
                             /\ reports'[q] = reports[q] /\ reports[q].pc # "idle"
                             /\ reports[q].rev > 0
    BY <1>6, <1>7 DEF NetworkInv, Allocated
  <2>2. \A q \in Report : reports'[q].pc # "idle" /\ state'.rev = reports[q].rev =>
                             state'.addrs = reports[q].addrs
    BY <1>8, <2>1 DEF NetworkInv, RevisionNamesSnapshot, SameReport
  <2> QED
    BY <1>2, <1>5, <2>1, <2>2 DEF NetworkInv, RevisionNamesSnapshot
<1> QED
  BY <1>9, <1>11, <1>12 DEF NetworkInv

\* A step of a reconciliation, or the end of the server, keeps the invariant.
LEMMA ReconcileKeeps ==
  ASSUME NetworkInv, ReconcileStep \/ ServerCrash
  PROVE  NetworkInv'
<1>1. /\ now \in Nat /\ crashes \in Nat /\ dns \in Addr \cup {NoAddr}
      /\ prefix \in [known : BOOLEAN, cover : SUBSET Addr, stale : BOOLEAN]
      /\ handler \in Handler /\ ddns \in Reconcile
  BY DEF NetworkInv, TypeOK
<1>2. Sound(state) /\ Sound(handler.st) /\ Sound(ddns.st) /\ Sound(NoState)
  BY InvFacts, NoStateSound
<1>3. \A st : SameReport(st, st) /\ SameReport(NoState, st)
  BY DEF SameReport, NoState
<1>4. IdleReconcile \in Reconcile /\ IdleReconcile.st = NoState
  BY <1>2 DEF Reconcile, IdleReconcile, Sound
<1>5. ASSUME UNCHANGED <<revision, reports, prefix, handler, now, crashes>>,
             dns' \in Addr \cup {NoAddr}, ddns' \in Reconcile, Sound(ddns'.st),
             NEW c \in {state, ddns.st}, SameReport(ddns'.st, c),
             state' \in {state, ddns.st}
      PROVE  NetworkInv'
  <2>1. SameReport(state', state) \/ SameReport(state', ddns.st)
    BY <1>3, <1>5
  <2>2. Sound(state') /\ SameReport(handler'.st, handler.st) /\ Sound(handler'.st)
    BY <1>2, <1>3, <1>5
  <2>3. CASE SameReport(state', state)
    BY <1>1, <1>5, <2>2, <2>3, CopyKeeps
  <2>4. CASE SameReport(state', ddns.st)
    BY <1>1, <1>5, <2>2, <2>4, CopyKeeps
  <2> QED
    BY <2>1, <2>3, <2>4
<1>6. CASE ReconcileGet
  <2>1. /\ ddns' = [pc |-> "plan", st |-> state]
        /\ UNCHANGED <<revision, reports, state, prefix, handler, dns, now, crashes>>
    BY <1>6 DEF ReconcileGet
  <2>2. ddns' \in Reconcile /\ ddns'.st = state
    BY <1>2, <2>1 DEF Reconcile, Sound
  <2> QED
    BY <1>1, <1>2, <1>3, <1>5, <2>1, <2>2
<1>7. CASE ReconcilePlan
  <2>1. /\ ddns' = (IF prefix.stale THEN IdleReconcile ELSE Plan(ddns.st))
        /\ UNCHANGED <<revision, reports, state, prefix, handler, dns, now, crashes>>
    BY <1>7 DEF ReconcilePlan
  <2>2. /\ Plan(ddns.st) \in Reconcile /\ Sound(Plan(ddns.st).st)
        /\ SameReport(Plan(ddns.st).st, ddns.st)
    BY <1>2, SavedSound DEF NetworkInv
  <2>3. ddns' \in Reconcile /\ Sound(ddns'.st) /\ SameReport(ddns'.st, ddns.st)
    BY <1>2, <1>3, <1>4, <2>1, <2>2
  <2> QED
    BY <1>1, <1>5, <2>1, <2>3
<1>8. ASSUME NEW written \in Outcome, ReconcileBegin(written)
      PROVE  NetworkInv'
  <2>1. /\ state' = (IF written THEN ddns.st ELSE state)
        /\ ddns' = [ddns EXCEPT !.pc = IF ddns.st.grace = 0 THEN "upsert" ELSE "delete"]
        /\ UNCHANGED <<revision, reports, prefix, handler, dns, now, crashes>>
    BY <1>8 DEF ReconcileBegin
  <2>2. ddns' \in Reconcile /\ ddns'.st = ddns.st
    BY <1>1, <2>1 DEF Reconcile
  <2>3. state' \in {state, ddns.st}
    BY <2>1
  <2> QED
    BY <1>1, <1>2, <1>3, <1>5, <2>1, <2>2, <2>3
<1>9. ASSUME NEW written \in Outcome, ReconcileEnd(written)
      PROVE  NetworkInv'
  <2>1. /\ state' = (IF written THEN ddns.st ELSE state) /\ ddns' = IdleReconcile
        /\ UNCHANGED <<revision, reports, prefix, handler, dns, now, crashes>>
    BY <1>9 DEF ReconcileEnd
  <2>2. state' \in {state, ddns.st} /\ SameReport(ddns'.st, state) /\ Sound(ddns'.st)
    BY <1>2, <1>3, <1>4, <2>1
  <2> QED
    BY <1>1, <1>4, <1>5, <2>1, <2>2
<1>10. ASSUME NEW done \in BOOLEAN, NEW ok \in BOOLEAN,
              UpsertAAAA(done, ok) \/ DeleteAAAA(done, ok)
       PROVE  NetworkInv'
  <2>1. /\ \/ ddns' = [pc |-> "end", st |-> Published(ddns.st, ok)]
           \/ ddns' = [pc |-> "end", st |-> Removed(ddns.st, ok)]
        /\ dns' \in {dns, ddns.st.desired, NoAddr}
        /\ UNCHANGED <<revision, reports, state, prefix, handler, now, crashes>>
    BY <1>10 DEF UpsertAAAA, DeleteAAAA
  <2>2. /\ Sound(Published(ddns.st, ok)) /\ SameReport(Published(ddns.st, ok), ddns.st)
        /\ Sound(Removed(ddns.st, ok)) /\ SameReport(Removed(ddns.st, ok), ddns.st)
    BY <1>2, SavedSound DEF NetworkInv
  <2>3. ddns' \in Reconcile /\ Sound(ddns'.st) /\ SameReport(ddns'.st, ddns.st)
    BY <2>1, <2>2 DEF Reconcile, Sound
  <2>4. dns' \in Addr \cup {NoAddr}
    BY <1>1, <1>2, <2>1 DEF Sound, State
  <2> QED
    BY <1>5, <2>1, <2>3, <2>4
<1>11. CASE ServerCrash
  <2>1. /\ crashes' = crashes + 1 /\ handler' = IdleHandler /\ ddns' = IdleReconcile
        /\ UNCHANGED <<revision, reports, state, prefix, dns, now>>
    BY <1>11 DEF ServerCrash
  <2>2. IdleHandler \in Handler /\ IdleHandler.st = NoState
    BY <1>2 DEF Handler, Sound, IdleHandler
  <2>3. crashes' \in Nat
    BY <1>1, <2>1
  <2> QED
    BY <1>1, <1>2, <1>3, <1>4, <2>1, <2>2, <2>3, CopyKeeps
<1> QED
  BY <1>6, <1>7, <1>8, <1>9, <1>10, <1>11 DEF ReconcileStep

\* NetworkInv holds at the start and every step keeps it.
LEMMA NetworkInvariant == Spec => []NetworkInv
<1>1. Init => NetworkInv
  <2> SUFFICES ASSUME Init PROVE NetworkInv
    OBVIOUS
  <2>1. Sound(NoState) /\ NoState.rev = 0
    BY NoStateSound DEF NoState
  <2>2. IdleHandler \in Handler /\ IdleHandler.st = NoState
    BY <2>1 DEF IdleHandler, Handler, Sound
  <2>3. IdleReconcile \in Reconcile /\ IdleReconcile.st = NoState
    BY <2>1 DEF IdleReconcile, Reconcile, Sound
  <2>4. IdleReport \in ReportState /\ IdleReport.pc = "idle" /\ IdleReport.rev = 0 /\ IdleReport.current = 0
    BY DEF IdleReport, ReportState
  <2>5. /\ state = NoState /\ handler = IdleHandler /\ ddns = IdleReconcile
        /\ revision = 0 /\ now = 1 /\ crashes = 0 /\ dns = NoAddr
        /\ prefix = [known |-> FALSE, cover |-> {}, stale |-> FALSE]
        /\ reports = [r \in Report |-> IdleReport]
    BY DEF Init
  <2>6. TypeOK
    BY <2>1, <2>2, <2>3, <2>4, <2>5, TypeIsSound
  <2>7. Allocated
    BY <2>1, <2>2, <2>3, <2>4, <2>5 DEF Allocated
  <2>8. RevisionNamesSnapshot
    BY <2>4, <2>5 DEF RevisionNamesSnapshot
  <2> QED
    BY <2>6, <2>7, <2>8 DEF NetworkInv
<1>2. NetworkInv /\ [Next]_vars => NetworkInv'
  <2> SUFFICES ASSUME NetworkInv, [Next]_vars PROVE NetworkInv'
    OBVIOUS
  <2>1. CASE Next
    BY <2>1, AgentKeeps, PutKeeps, HandlerKeeps, SaveKeeps, ReconcileKeeps DEF Next
  <2>2. CASE UNCHANGED vars
    BY <2>2 DEF vars, NetworkInv, TypeOK, Allocated, RevisionNamesSnapshot
  <2> QED
    BY <2>1, <2>2
<1> QED
  BY <1>1, <1>2, PTL DEF Spec

\* Every copy of a device's record keeps its type, and whoever holds a record
\* in a grace period has the end of that period and the address it keeps, for
\* every set of addresses, prefixes and reports (ReconcileDevice, the handlers).
THEOREM NetworkTypes == Spec => []TypeOK
<1>1. NetworkInv => TypeOK
  BY DEF NetworkInv
<1> QED
  BY <1>1, NetworkInvariant, PTL

\* For any number of reports on their way, crashes and stale saves, a revision
\* names one snapshot (Allocate and AdvanceAfterConflict of revisionStore).
THEOREM RevisionsNameSnapshots == Spec => []RevisionNamesSnapshot
<1>1. NetworkInv => RevisionNamesSnapshot
  BY DEF NetworkInv
<1> QED
  BY <1>1, NetworkInvariant, PTL

----------------------------------------------------------------------------
(* Domain bindings.                                                        *)

\* A binding that was created has a name and a revision, an unused ID has neither.
Named(r) == IF r.state = "none" THEN r.revision = 0 ELSE r.name \in Name /\ r.revision >= 1

BindingsOK ==
    /\ bindings \in [Binding -> BindingRecord]
    /\ \A b \in Binding : Named(bindings[b])

\* What a task, or a task that a sweep took, says of its binding.
Fits(t) ==
    /\ t.revision <= bindings[t.binding].revision
    /\ t.revision = bindings[t.binding].revision => t.desired = bindings[t.binding].desired

SameTask(t, k) == t.binding = k.binding /\ t.revision = k.revision

\* One task for each revision, and none that is active for a past one.
TasksOK ==
    /\ tasks \in SUBSET Task
    /\ \A t \in tasks : Fits(t) /\ (Active(t) => Current(t) /\ t.attempts < MaxAttempt)
    /\ \A t, k \in tasks : SameTask(t, k) => t = k

\* What the sweep listed is what the binding is, or the binding has moved on.
ViewOK ==
    \A b \in Binding :
        /\ Named(sweep.view[b])
        /\ sweep.view[b].state \in {"none", "observing", "enabled"}
        /\ sweep.view[b].state # "none" =>
             /\ sweep.view[b].revision <= bindings[b].revision
             /\ sweep.view[b].revision = bindings[b].revision =>
                    sweep.view[b].state = bindings[b].state

\* The task being applied, and what the provider was asked to serve for it.
Applying == sweep.phase \in {"apply", "verify", "complete"}

ApplyOK ==
    Applying =>
        /\ sweep.task \in Task /\ Fits(sweep.task) /\ sweep.task.attempts < MaxAttempt
        /\ sweep.task.revision = bindings[sweep.task.binding].revision =>
               bindings[sweep.task.binding].state = "enabled"
        /\ sweep.view[sweep.task.binding].state # "none"
        /\ sweep.view[sweep.task.binding].desired = sweep.task.desired
        /\ sweep.phase = "verify" \/ (sweep.phase = "complete" /\ sweep.outcome.error = "none") =>
               sweep.outcome.ip = sweep.task.desired

\* What was found due is still queued as it was, or gone; each task is taken once.
QueueOK ==
    /\ sweep.phase \in {"idle", "visit"} => sweep.queue = {}
    /\ \A t \in sweep.queue :
         /\ Fits(t) /\ t.attempts < MaxAttempt
         /\ \A k \in tasks : SameTask(t, k) => k = t
         /\ \A k \in sweep.queue : SameTask(t, k) => k = t
         /\ Applying => ~SameTask(t, sweep.task)

\* Enable looked at a binding that lives, or that has moved on.
EnableOK ==
    enabling # NoEnable =>
        /\ enabling.binding \in Binding /\ enabling.revision < MaxRevision
        /\ enabling.revision <= bindings[enabling.binding].revision
        /\ enabling.revision = bindings[enabling.binding].revision => Live(enabling.binding)

CreateOK == creating # NoCreate => creating.name \in Name

BindingVarsOK ==
    /\ records \in [Name -> RecordOf \cup {Unset}] /\ recordCount \in 0 .. MaxRecord
    /\ sweep \in [phase : {"idle", "visit", "process", "apply", "verify", "complete"},
                  view : [Binding -> BindingRecord], left : SUBSET Binding, queue : SUBSET Task,
                  task : Task \cup {Unset}, outcome : SyncOutcome]
    /\ creating \in [name : Name \cup {Unset}, record : RecordID \cup {Unset}, ip : Address \cup {Unset}]
    /\ enabling \in [binding : Binding \cup {Unset}, revision : 0 .. MaxRevision,
                     record : RecordID \cup {Unset}, ip : Address \cup {Unset}]
    /\ dnsFaults \in 0 .. MaxDNSFault

BindingParts ==
    /\ BindingsOK /\ BindingVarsOK /\ NameOnce /\ TasksOK /\ ViewOK /\ ApplyOK /\ QueueOK
    /\ EnableOK /\ CreateOK /\ SyncedIsConfirmed /\ StoppedStaysQuiet

----------------------------------------------------------------------------
(* What the commits do.                                                    *)

\* A commit leaves a binding at its revision, or moves it on.
Forward ==
    \A b \in Binding :
        \/ bindings'[b].revision > bindings[b].revision
        \/ /\ bindings'[b].revision = bindings[b].revision
           /\ bindings'[b].state = bindings[b].state /\ bindings'[b].name = bindings[b].name

\* The address that is wanted changes with the revision only.
WantedStays ==
    \A b \in Binding : bindings'[b].revision = bindings[b].revision =>
                           bindings'[b].desired = bindings[b].desired

\* Only what was observed of the bindings changed.
OnlyObserved ==
    \A b \in Binding :
        /\ bindings'[b].revision = bindings[b].revision /\ bindings'[b].state = bindings[b].state
        /\ bindings'[b].name = bindings[b].name /\ bindings'[b].desired = bindings[b].desired

\* A binding is replaced by a record of its type.
LEMMA ReplaceBinding ==
    ASSUME BindingsOK, NEW b \in Binding, NEW r \in BindingRecord, Named(r),
           bindings' = [bindings EXCEPT ![b] = r]
    PROVE  /\ BindingsOK' /\ bindings'[b] = r
           /\ \A c \in Binding : c # b => bindings'[c] = bindings[c]
  BY DEF BindingsOK

\* TransitionDomainBinding sets the state, clears the runtime and moves the revision.
LEMMA TransitionEffect ==
    ASSUME BindingsOK, NEW b \in Binding, NEW goal \in {"enabled", "disabled", "deleted"},
           Live(b), bindings[b].revision < MaxRevision, Transition(b, goal)
    PROVE  /\ BindingsOK' /\ tasks' = tasks \ ActiveOf(b) /\ creating' = NoCreate
           /\ bindings'[b] = [bindings[b] EXCEPT !.state = goal, !.runtime = "waiting_report",
                                                 !.revision = bindings[b].revision + 1]
           /\ \A c \in Binding : c # b => bindings'[c] = bindings[c]
  <1> DEFINE r == [bindings[b] EXCEPT !.state = goal, !.runtime = "waiting_report",
                                      !.revision = bindings[b].revision + 1]
  <1>1. bindings[b] \in BindingRecord /\ Named(bindings[b])
    BY DEF BindingsOK
  <1>a. bindings[b].revision + 1 \in 0 .. MaxRevision
    BY <1>1, DomainBindingAssumption DEF BindingRecord
  <1>2. r \in BindingRecord
    BY <1>1, <1>a DEF BindingRecord
  <1>3. Named(r)
    BY <1>1 DEF Named, Live, BindingRecord
  <1>4. bindings' = [bindings EXCEPT ![b] = r]
    BY DEF Transition, Commit
  <1>5. tasks' = tasks \ ActiveOf(b) /\ creating' = NoCreate
    BY DEF Transition, Commit
  <1>6. BindingsOK' /\ bindings'[b] = r /\ \A c \in Binding : c # b => bindings'[c] = bindings[c]
    <2> HIDE DEF r
    <2>. QED  BY <1>2, <1>3, <1>4, ReplaceBinding
  <1>. QED  BY <1>5, <1>6

\* What a look at the provider stores leaves state, name, revision and wish alone.
LEMMA ObservedEffect ==
    ASSUME BindingsOK, NEW b \in Binding, NEW r \in BindingRecord,
           r.state = bindings[b].state, r.name = bindings[b].name,
           r.revision = bindings[b].revision, r.desired = bindings[b].desired,
           bindings' = [bindings EXCEPT ![b] = r]
    PROVE  /\ BindingsOK' /\ OnlyObserved /\ bindings'[b] = r
           /\ \A c \in Binding : c # b => bindings'[c] = bindings[c]
  <1>1. bindings[b] \in BindingRecord /\ Named(bindings[b])
    BY DEF BindingsOK
  <1>2. Named(r)
    BY <1>1 DEF Named
  <1>3. BindingsOK' /\ bindings'[b] = r /\ \A c \in Binding : c # b => bindings'[c] = bindings[c]
    BY <1>2, ReplaceBinding
  <1>. QED  BY <1>3 DEF OnlyObserved

\* A name, seen at the provider.
LEMMA ObserveType ==
    ASSUME records \in [Name -> RecordOf \cup {Unset}], NEW n \in Name, NEW known
    PROVE  /\ Observe(n, known) \in SyncOutcome
           /\ Observe(n, known).record \in RecordID \cup {Unset}
           /\ Observe(n, known).ip \in Address \cup {Unset}
  BY DEF Observe, Nothing, ProviderAnswer, SyncOutcome, RecordOf

\* Enable goes on with a binding that lives, or that has moved on.
LEMMA EnableForward ==
    ASSUME EnableOK, BindingVarsOK, BindingsOK, BindingsOK', Forward, enabling' = enabling
    PROVE  EnableOK'
  BY DEF EnableOK, Forward, Live, BindingsOK, BindingRecord, BindingVarsOK

\* What was listed stays what the binding is, unless it moves on.
LEMMA ViewForward ==
    ASSUME ViewOK, BindingsOK, BindingsOK', BindingVarsOK, Forward,
           \A b \in Binding : sweep'.view[b] \in {sweep.view[b], NoBinding}
    PROVE  ViewOK'
  <1>1. NoBinding.state = "none" /\ Named(NoBinding)
    BY DEF NoBinding, Named
  <1>. SUFFICES ASSUME NEW b \in Binding
       PROVE /\ Named(sweep'.view[b])
             /\ sweep'.view[b].state \in {"none", "observing", "enabled"}
             /\ sweep'.view[b].state # "none" =>
                   /\ sweep'.view[b].revision <= bindings'[b].revision
                   /\ sweep'.view[b].revision = bindings'[b].revision =>
                          sweep'.view[b].state = bindings'[b].state
    BY DEF ViewOK, Named
  <1>2. CASE sweep'.view[b] = NoBinding
    BY <1>1, <1>2
  <1>3. CASE sweep'.view[b] = sweep.view[b]
    BY <1>3 DEF ViewOK, Forward, BindingsOK, BindingRecord, BindingVarsOK
  <1>. QED  BY <1>2, <1>3

\* What a task says of its binding stays so.
LEMMA FitsForward ==
    ASSUME BindingsOK, BindingsOK', Forward, WantedStays, NEW t \in Task, Fits(t)
    PROVE  Fits(t)'
  BY DEF Fits, Forward, WantedStays, BindingsOK, BindingRecord, Task

\* The task being applied, while the sweep stands where it does.
LEMMA ApplyForward ==
    ASSUME ApplyOK, BindingsOK, BindingsOK', Forward, WantedStays, sweep' = sweep
    PROVE  ApplyOK'
  <1>1. Applying' <=> Applying
    BY DEF Applying
  <1>. SUFFICES ASSUME Applying PROVE ApplyOK'
    BY <1>1 DEF ApplyOK
  <1>2. Fits(sweep.task)' /\ sweep.task \in Task
    <2>1. sweep.task \in Task /\ Fits(sweep.task)
      BY DEF ApplyOK
    <2>. DEFINE t == sweep.task
    <2>2. PICK k \in Task : k = sweep.task
      BY <2>1
    <2>3. Fits(k)'
      BY <2>1, <2>2, FitsForward
    <2>. QED  BY <2>1, <2>2, <2>3 DEF Fits
  <1>3. sweep.task.binding \in Binding /\ sweep.task.revision \in Nat
    BY <1>2 DEF Task
  <1>4. sweep.task.revision = bindings'[sweep.task.binding].revision =>
            bindings'[sweep.task.binding].state = "enabled"
    BY <1>3 DEF ApplyOK, Fits, Forward, BindingsOK, BindingRecord
  <1>. QED  BY <1>1, <1>2, <1>4 DEF ApplyOK

\* The queue, while tasks only go or stay as they are.
LEMMA QueueForward ==
    ASSUME QueueOK, BindingVarsOK, BindingsOK, BindingsOK', Forward,
           sweep.phase \in {"idle", "visit"} \/ WantedStays, sweep' = sweep,
           sweep.phase \in {"idle", "visit"} \/ tasks' \subseteq tasks
    PROVE  QueueOK'
  <1>1. Applying' <=> Applying
    BY DEF Applying
  <1>2. CASE sweep.phase \in {"idle", "visit"}
    BY <1>2 DEF QueueOK
  <1>3. CASE WantedStays /\ tasks' \subseteq tasks
    <2>1. sweep.queue \subseteq Task
      BY DEF BindingVarsOK
    <2>2. \A t \in sweep.queue : Fits(t)'
      BY <1>3, <2>1, FitsForward DEF QueueOK
    <2>. QED  BY <1>1, <1>3, <2>1, <2>2 DEF QueueOK, SameTask
  <1>. QED  BY <1>2, <1>3

\* Nothing that was queued survives a transition.
LEMMA TransitionKeeps ==
    ASSUME BindingParts, NEW b \in Binding, NEW goal \in {"enabled", "disabled", "deleted"},
           Live(b), bindings[b].revision < MaxRevision, Transition(b, goal)
    PROVE  /\ Forward /\ WantedStays /\ tasks' \subseteq tasks /\ creating' = NoCreate
           /\ BindingsOK' /\ NameOnce' /\ TasksOK' /\ SyncedIsConfirmed' /\ StoppedStaysQuiet'
  <1>. USE DEF BindingParts
  <1>e. /\ BindingsOK' /\ tasks' = tasks \ ActiveOf(b) /\ creating' = NoCreate
        /\ bindings'[b] = [bindings[b] EXCEPT !.state = goal, !.runtime = "waiting_report",
                                              !.revision = bindings[b].revision + 1]
        /\ \A c \in Binding : c # b => bindings'[c] = bindings[c]
    BY TransitionEffect
  <1>r. bindings[b] \in BindingRecord /\ bindings[b].revision \in Nat
    BY DEF BindingsOK, BindingRecord
  <1>s. /\ bindings'[b].state = goal /\ bindings'[b].runtime = "waiting_report"
        /\ bindings'[b].revision = bindings[b].revision + 1 /\ bindings'[b].name = bindings[b].name
    BY <1>e, <1>r DEF BindingRecord
  <1>o. \A c \in Binding : c # b => bindings'[c] = bindings[c]
    BY <1>e
  <1>1. Forward /\ WantedStays
    <2>. SUFFICES ASSUME NEW c \in Binding
         PROVE /\ \/ bindings'[c].revision > bindings[c].revision
                  \/ /\ bindings'[c].revision = bindings[c].revision
                     /\ bindings'[c].state = bindings[c].state /\ bindings'[c].name = bindings[c].name
               /\ bindings'[c].revision = bindings[c].revision => bindings'[c].desired = bindings[c].desired
      BY DEF Forward, WantedStays
    <2>. QED  BY <1>o, <1>r, <1>s
  <1>2. NameOnce'
    BY <1>o, <1>s DEF NameOnce, Live
  <1>3. TasksOK'
    <2>1. tasks' \in SUBSET Task
      BY <1>e DEF TasksOK
    <2>2. \A t \in tasks' : Fits(t)'
      BY <1>e, <1>1, FitsForward DEF TasksOK
    <2>3. ASSUME NEW t \in tasks', Active(t) PROVE Current(t)' /\ t.attempts < MaxAttempt
      <3>1. t \in tasks /\ t \in Task /\ t.binding # b
        BY <1>e, <2>3 DEF ActiveOf, TasksOK
      <3>2. t.binding \in Binding
        BY <3>1 DEF Task
      <3>. QED  BY <1>e, <2>3, <3>1, <3>2 DEF TasksOK, Current
    <2>. QED  BY <1>e, <2>1, <2>2, <2>3 DEF TasksOK, Active, SameTask
  <1>4. SyncedIsConfirmed' /\ StoppedStaysQuiet'
    BY <1>o, <1>s DEF SyncedIsConfirmed, StoppedStaysQuiet
  <1>. QED  BY <1>e, <1>1, <1>2, <1>3, <1>4

\* An observation leaves names and tasks alone.
LEMMA OnlyObservedKeeps ==
    ASSUME BindingParts, BindingsOK', OnlyObserved
    PROVE  /\ Forward /\ WantedStays /\ NameOnce' /\ (tasks' = tasks => TasksOK')
           /\ \A t \in Task : Fits(t)' /\ Current(t)' <=> Fits(t) /\ Current(t)
           /\ \A t \in Task : (Fits(t)' <=> Fits(t)) /\ (Current(t)' <=> Current(t))
  <1>. USE DEF BindingParts
  <1>1. Forward /\ WantedStays
    BY DEF Forward, WantedStays, OnlyObserved
  <1>2. NameOnce'
    BY DEF NameOnce, OnlyObserved, Live
  <1>3. \A t \in Task : (Fits(t)' <=> Fits(t)) /\ (Current(t)' <=> Current(t))
    <2>. SUFFICES ASSUME NEW t \in Task PROVE (Fits(t)' <=> Fits(t)) /\ (Current(t)' <=> Current(t))
      OBVIOUS
    <2>. QED  BY DEF OnlyObserved, Fits, Current, Task
  <1>4. ASSUME tasks' = tasks PROVE TasksOK'
    <2>1. \A t \in tasks : Fits(t)' /\ (Current(t)' <=> Current(t))
      BY <1>3 DEF TasksOK
    <2>. QED  BY <1>4, <2>1 DEF TasksOK, Active, SameTask
  <1>. QED  BY <1>1, <1>2, <1>3, <1>4

\* A look at the provider is stored for a binding that is not stopped.
LEMMA RecordObservationKeeps ==
    ASSUME BindingParts, NEW b \in Binding, NEW rev, NEW seen,
           seen.record \in RecordID \cup {Unset}, seen.ip \in Address \cup {Unset},
           NEW runtime \in {"waiting_report", "failed", "stale"},
           bindings[b].revision = rev =>
               bindings[b].state \in {"observing", "enabled"} \/ runtime = "waiting_report",
           RecordObservation(b, rev, seen, runtime)
    PROVE  /\ Forward /\ WantedStays /\ tasks' = tasks /\ creating' \in {creating, NoCreate}
           /\ BindingsOK' /\ NameOnce' /\ TasksOK' /\ SyncedIsConfirmed' /\ StoppedStaysQuiet'
  <1>. USE DEF BindingParts
  <1>1. CASE bindings[b].revision = rev
    <2> DEFINE r == [bindings[b] EXCEPT !.record = seen.record, !.ip = seen.ip,
                                        !.applied = bindings[b].applied, !.runtime = runtime]
    <2>1. bindings[b] \in BindingRecord
      BY DEF BindingsOK
    <2>2. /\ bindings' = [bindings EXCEPT ![b].record = seen.record, ![b].ip = seen.ip, ![b].runtime = runtime]
          /\ tasks' = tasks /\ creating' = NoCreate
      BY <1>1 DEF RecordObservation, Commit
    <2>3. bindings' = [bindings EXCEPT ![b] = r]
      BY <2>1, <2>2 DEF BindingRecord, BindingsOK
    <2>4. /\ r \in BindingRecord /\ r.state = bindings[b].state /\ r.name = bindings[b].name
          /\ r.revision = bindings[b].revision /\ r.desired = bindings[b].desired
          /\ r.ip = seen.ip /\ r.runtime = runtime
      BY <2>1 DEF BindingRecord
    <2>5. /\ BindingsOK' /\ OnlyObserved /\ bindings'[b].ip = seen.ip /\ bindings'[b].runtime = runtime
          /\ \A c \in Binding : c # b => bindings'[c] = bindings[c]
      <3> HIDE DEF r
      <3>. QED  BY <2>3, <2>4, ObservedEffect
    <2>6. SyncedIsConfirmed'
      BY <2>5 DEF SyncedIsConfirmed
    <2>7. StoppedStaysQuiet'
      BY <1>1, <2>5 DEF StoppedStaysQuiet, OnlyObserved
    <2>. QED  BY <2>2, <2>5, <2>6, <2>7, OnlyObservedKeeps
  <1>2. CASE bindings[b].revision # rev
    <2>1. UNCHANGED <<bindings, tasks, creating>>
      BY <1>2 DEF RecordObservation, NoCommit
    <2>2. OnlyObserved /\ BindingsOK'
      BY <2>1 DEF OnlyObserved, BindingsOK
    <2>3. SyncedIsConfirmed' /\ StoppedStaysQuiet'
      BY <2>1 DEF SyncedIsConfirmed, StoppedStaysQuiet
    <2>. QED  BY <2>1, <2>2, <2>3, OnlyObservedKeeps
  <1>. QED  BY <1>1, <1>2

\* A step that commits nothing.
LEMMA NoCommitKeeps ==
    ASSUME BindingParts, UNCHANGED <<bindings, tasks>>
    PROVE  /\ Forward /\ WantedStays
           /\ BindingsOK' /\ NameOnce' /\ TasksOK' /\ SyncedIsConfirmed' /\ StoppedStaysQuiet'
  <1>. USE DEF BindingParts
  <1>1. OnlyObserved /\ BindingsOK'
    BY DEF OnlyObserved, BindingsOK
  <1>2. SyncedIsConfirmed' /\ StoppedStaysQuiet'
    BY DEF SyncedIsConfirmed, StoppedStaysQuiet
  <1>. QED  BY <1>1, <1>2, OnlyObservedKeeps

----------------------------------------------------------------------------
(* One lemma for each action.                                              *)

\* The sweep, while something else commits.
LEMMA SweepStays ==
    ASSUME BindingParts, Forward, WantedStays, BindingsOK', tasks' \subseteq tasks, sweep' = sweep
    PROVE  ViewOK' /\ ApplyOK' /\ QueueOK'
  <1>. USE DEF BindingParts
  <1>1. ViewOK'
    BY ViewForward
  <1>. QED  BY <1>1, ApplyForward, QueueForward

\* Someone else's record of a name is no state of HomeAgent's.
LEMMA OutsideKeeps ==
    ASSUME BindingParts, NEW n \in Name,
           OutsideRemove(n) \/ \E a \in Address : OutsideWrite(n, a)
    PROVE  BindingParts'
  <1>. USE DEF BindingParts
  <1>1. UNCHANGED <<bindings, tasks, creating, sweep, enabling, dnsFaults>>
    BY DEF OutsideRemove, OutsideWrite, NoCommit
  <1>2. records' \in [Name -> RecordOf \cup {Unset}] /\ recordCount' \in 0 .. MaxRecord
    <2>1. CASE OutsideRemove(n)
      BY <2>1 DEF OutsideRemove, BindingVarsOK
    <2>2. ASSUME NEW a \in Address, OutsideWrite(n, a)
          PROVE  records' \in [Name -> RecordOf \cup {Unset}] /\ recordCount' \in 0 .. MaxRecord
      <3>1. recordCount + 1 \in RecordID /\ recordCount' = recordCount + 1
        BY <2>2, DomainBindingAssumption DEF OutsideWrite, BindingVarsOK, RecordID
      <3>2. [id |-> recordCount + 1, ip |-> a] \in RecordOf
        BY <3>1 DEF RecordOf
      <3>3. records[n] # Unset => [records[n] EXCEPT !.ip = a] \in RecordOf
        BY DEF BindingVarsOK, RecordOf
      <3>4. records' = [records EXCEPT ![n] = IF records[n] = Unset THEN [id |-> recordCount + 1, ip |-> a]
                                              ELSE [records[n] EXCEPT !.ip = a]]
        BY <2>2 DEF OutsideWrite
      <3> DEFINE new == IF records[n] = Unset THEN [id |-> recordCount + 1, ip |-> a]
                                              ELSE [records[n] EXCEPT !.ip = a]
      <3>5. new \in RecordOf
        BY <3>2, <3>3
      <3>6. records' = [records EXCEPT ![n] = new]
        BY <3>4
      <3> HIDE DEF new
      <3>7. records' \in [Name -> RecordOf \cup {Unset}]
        BY <3>5, <3>6 DEF BindingVarsOK
      <3>. QED  BY <3>1, <3>7 DEF RecordID
    <2>. QED  BY <2>1, <2>2
  <1>3. /\ Forward /\ WantedStays
        /\ BindingsOK' /\ NameOnce' /\ TasksOK' /\ SyncedIsConfirmed' /\ StoppedStaysQuiet'
    BY <1>1, NoCommitKeeps
  <1>4. ViewOK' /\ ApplyOK' /\ QueueOK'
    BY <1>1, <1>3, SweepStays
  <1>5. EnableOK' /\ CreateOK'
    BY <1>1, <1>3, EnableForward DEF CreateOK
  <1>6. BindingVarsOK'
    BY <1>1, <1>2 DEF BindingVarsOK
  <1>. QED  BY <1>3, <1>4, <1>5, <1>6

\* Preflight looks at the provider.
LEMMA PreflightBindingKeeps ==
    ASSUME BindingParts, NEW n \in Name, NEW bad \in BOOLEAN, PreflightBinding(n, bad)
    PROVE  BindingParts'
  <1>. USE DEF BindingParts
  <1>1. UNCHANGED <<bindings, tasks, records, recordCount, sweep, enabling>>
    BY DEF PreflightBinding
  <1>2. /\ Forward /\ WantedStays
        /\ BindingsOK' /\ NameOnce' /\ TasksOK' /\ SyncedIsConfirmed' /\ StoppedStaysQuiet'
    BY <1>1, NoCommitKeeps
  <1>3. ViewOK' /\ ApplyOK' /\ QueueOK' /\ EnableOK'
    BY <1>1, <1>2, SweepStays, EnableForward
  <1>4. dnsFaults' \in 0 .. MaxDNSFault
    BY DomainBindingAssumption DEF PreflightBinding, DNSFault, BindingVarsOK
  <1>5. /\ creating' \in [name : Name \cup {Unset}, record : RecordID \cup {Unset}, ip : Address \cup {Unset}]
        /\ CreateOK'
    <2>1. /\ Observe(n, Unset).record \in RecordID \cup {Unset}
          /\ Observe(n, Unset).ip \in Address \cup {Unset}
      BY ObserveType DEF BindingVarsOK
    <2>2. creating' = NoCreate \/ creating' = [name |-> n, record |-> Observe(n, Unset).record,
                                               ip |-> Observe(n, Unset).ip]
      BY DEF PreflightBinding
    <2>. QED  BY <2>1, <2>2 DEF NoCreate, CreateOK
  <1>6. BindingVarsOK'
    BY <1>1, <1>4, <1>5 DEF BindingVarsOK
  <1>. QED  BY <1>2, <1>3, <1>5, <1>6

\* CreateDomainBinding gives an unused ID to a free name.
LEMMA CreateBindingKeeps ==
    ASSUME BindingParts, NEW b \in Binding, CreateBinding(b)
    PROVE  BindingParts'
  <1>. USE DEF BindingParts
  <1> DEFINE goal == IF creating.record = Unset THEN "enabled" ELSE "observing"
  <1> DEFINE r == [NoBinding EXCEPT !.state = goal, !.name = creating.name, !.revision = 1,
                                    !.record = creating.record, !.ip = creating.ip]
  <1>1. /\ UNCHANGED <<records, recordCount, sweep, enabling, dnsFaults, tasks>> /\ creating' = NoCreate
        /\ bindings' = [bindings EXCEPT ![b] = r]
    BY DEF CreateBinding, Commit
  <1>2. creating.name \in Name /\ NameFree(creating.name) /\ bindings[b].state = "none"
    BY DEF CreateBinding, CreateOK, FreshBindings
  <1>3. /\ creating.record \in RecordID \cup {Unset} /\ creating.ip \in Address \cup {Unset}
        /\ 1 \in 0 .. MaxRevision
    BY DomainBindingAssumption DEF BindingVarsOK
  <1>4. /\ r.state \in {"enabled", "observing"} /\ r.name = creating.name /\ r.revision = 1
        /\ r.runtime = "waiting_report"
    BY DEF NoBinding
  <1>5. r \in BindingRecord
    BY <1>2, <1>3 DEF NoBinding, BindingRecord
  <1>6. Named(r)
    BY <1>2, <1>4 DEF Named
  <1> HIDE DEF r, goal
  <1>7. BindingsOK' /\ bindings'[b] = r /\ \A c \in Binding : c # b => bindings'[c] = bindings[c]
    BY <1>1, <1>5, <1>6, ReplaceBinding
  <1>8. bindings[b].revision = 0
    BY <1>2 DEF BindingsOK, Named
  <1>9. Forward /\ WantedStays
    BY <1>4, <1>7, <1>8 DEF Forward, WantedStays
  <1>10. NameOnce'
    BY <1>2, <1>4, <1>7 DEF NameOnce, Live, NameFree
  <1>11. TasksOK'
    <2>1. \A t \in tasks : t \in Task /\ t.binding \in Binding /\ t.revision \in Nat \ {0}
      BY DEF TasksOK, Task
    <2>2. \A t \in tasks : Fits(t)'
      BY <1>7, <1>9, <2>1, FitsForward DEF TasksOK
    <2>3. \A t \in tasks : t.binding # b
      BY <1>8, <2>1 DEF TasksOK, Fits
    <2>4. \A t \in tasks : Current(t)' <=> Current(t)
      BY <1>7, <2>1, <2>3 DEF Current
    <2>. QED  BY <1>1, <2>2, <2>4 DEF TasksOK, Active, SameTask
  <1>12. SyncedIsConfirmed' /\ StoppedStaysQuiet'
    BY <1>4, <1>7 DEF SyncedIsConfirmed, StoppedStaysQuiet
  <1>13. ViewOK' /\ ApplyOK' /\ QueueOK'
    BY <1>1, <1>7, <1>9, SweepStays
  <1>14. EnableOK' /\ CreateOK'
    BY <1>1, <1>7, <1>9, EnableForward DEF CreateOK
  <1>15. BindingVarsOK'
    BY <1>1 DEF BindingVarsOK, NoCreate
  <1>. QED  BY <1>7, <1>10, <1>11, <1>12, <1>13, <1>14, <1>15

\* Enable looks at the provider.
LEMMA BeginEnableKeeps ==
    ASSUME BindingParts, NEW b \in Binding, NEW bad \in BOOLEAN, BeginEnable(b, bad)
    PROVE  BindingParts'
  <1>. USE DEF BindingParts
  <1>1. UNCHANGED <<bindings, tasks, creating, records, recordCount, sweep>>
    BY DEF BeginEnable, NoCommit
  <1>2. /\ Forward /\ WantedStays
        /\ BindingsOK' /\ NameOnce' /\ TasksOK' /\ SyncedIsConfirmed' /\ StoppedStaysQuiet'
    BY <1>1, NoCommitKeeps
  <1>3. ViewOK' /\ ApplyOK' /\ QueueOK' /\ CreateOK'
    BY <1>1, <1>2, SweepStays DEF CreateOK
  <1>4. dnsFaults' \in 0 .. MaxDNSFault
    BY DomainBindingAssumption DEF BeginEnable, DNSFault, BindingVarsOK
  <1> DEFINE seen == Observe(bindings[b].name, bindings[b].record)
  <1>5. enabling' = NoEnable \/ enabling' = [binding |-> b, revision |-> bindings[b].revision,
                                             record |-> seen.record, ip |-> seen.ip]
    BY DEF BeginEnable
  <1>6. Live(b) /\ bindings[b].revision \in 0 .. MaxRevision /\ bindings[b].revision < MaxRevision
        /\ bindings[b].name \in Name
    BY DEF BeginEnable, CanMove, BindingsOK, BindingRecord, Named, Live
  <1>7. seen.record \in RecordID \cup {Unset} /\ seen.ip \in Address \cup {Unset}
    BY <1>6, ObserveType DEF BindingVarsOK
  <1> HIDE DEF seen
  <1>8. enabling' \in [binding : Binding \cup {Unset}, revision : 0 .. MaxRevision,
                       record : RecordID \cup {Unset}, ip : Address \cup {Unset}]
    BY <1>5, <1>6, <1>7, DomainBindingAssumption DEF NoEnable
  <1>9. EnableOK'
    BY <1>1, <1>5, <1>6 DEF EnableOK, Live
  <1>10. BindingVarsOK'
    BY <1>1, <1>4, <1>8 DEF BindingVarsOK
  <1>. QED  BY <1>2, <1>3, <1>9, <1>10

\* Enable takes over the record it found for a disabled binding.
LEMMA AdoptRecordKeeps ==
    ASSUME BindingParts, AdoptRecord
    PROVE  BindingParts'
  <1>. USE DEF BindingParts
  <1>1. PICK b \in Binding : b = enabling.binding
    BY DEF AdoptRecord, Adopts, EnableOK
  <1>2. /\ enabling.record \in RecordID \cup {Unset} /\ enabling.ip \in Address \cup {Unset}
        /\ bindings[b].state = "disabled" /\ bindings[b] \in BindingRecord
        /\ bindings[b].revision = enabling.revision /\ enabling # NoEnable
    BY <1>1 DEF AdoptRecord, Adopts, BindingVarsOK, BindingsOK
  <1>3. /\ bindings' = [bindings EXCEPT ![b].record = enabling.record, ![b].ip = enabling.ip]
        /\ UNCHANGED <<tasks, records, recordCount, sweep, dnsFaults>> /\ creating' = NoCreate
        /\ enabling' = [enabling EXCEPT !.record = Unset, !.ip = Unset]
    BY <1>1 DEF AdoptRecord, Commit
  <1> DEFINE r == [bindings[b] EXCEPT !.record = enabling.record, !.ip = enabling.ip]
  <1>4. bindings' = [bindings EXCEPT ![b] = r]
    BY <1>3 DEF BindingsOK
  <1>5. /\ r \in BindingRecord /\ r.state = bindings[b].state /\ r.name = bindings[b].name
        /\ r.revision = bindings[b].revision /\ r.desired = bindings[b].desired
        /\ r.runtime = bindings[b].runtime
    BY <1>2 DEF BindingRecord
  <1> HIDE DEF r
  <1>6. BindingsOK' /\ OnlyObserved /\ bindings'[b] = r /\ \A c \in Binding : c # b => bindings'[c] = bindings[c]
    BY <1>4, <1>5, ObservedEffect
  <1>7. Forward /\ WantedStays /\ NameOnce' /\ TasksOK'
    BY <1>3, <1>6, OnlyObservedKeeps
  <1>8. bindings[b].runtime = "waiting_report"
    BY <1>2 DEF StoppedStaysQuiet
  <1>9. SyncedIsConfirmed' /\ StoppedStaysQuiet'
    BY <1>5, <1>6, <1>8 DEF SyncedIsConfirmed, StoppedStaysQuiet
  <1>10. ViewOK' /\ ApplyOK' /\ QueueOK' /\ CreateOK'
    BY <1>3, <1>6, <1>7, SweepStays DEF CreateOK
  <1>11. /\ enabling' \in [binding : Binding \cup {Unset}, revision : 0 .. MaxRevision,
                           record : RecordID \cup {Unset}, ip : Address \cup {Unset}]
         /\ enabling'.binding = b /\ enabling'.revision = enabling.revision
    BY <1>1, <1>3 DEF BindingVarsOK
  <1>12. EnableOK'
    BY <1>2, <1>5, <1>6, <1>11, <1>1 DEF EnableOK, Live
  <1>13. BindingVarsOK'
    BY <1>3, <1>11 DEF BindingVarsOK, NoCreate
  <1>. QED  BY <1>6, <1>7, <1>9, <1>10, <1>12, <1>13

\* Enable's transition, refused when the binding moved on.
LEMMA FinishEnableKeeps ==
    ASSUME BindingParts, FinishEnable
    PROVE  BindingParts'
  <1>. USE DEF BindingParts
  <1>1. PICK b \in Binding : b = enabling.binding
    BY DEF FinishEnable, EnableOK
  <1>2. UNCHANGED <<records, recordCount, sweep, dnsFaults>> /\ enabling' = NoEnable
    BY DEF FinishEnable
  <1>3. /\ Forward /\ WantedStays /\ tasks' \subseteq tasks /\ creating' \in {creating, NoCreate}
        /\ BindingsOK' /\ NameOnce' /\ TasksOK' /\ SyncedIsConfirmed' /\ StoppedStaysQuiet'
    <2>1. CASE bindings[b].revision = enabling.revision
      <3>1. Transition(b, "enabled")
        BY <1>1, <2>1 DEF FinishEnable
      <3>2. Live(b) /\ bindings[b].revision < MaxRevision
        BY <1>1, <2>1 DEF FinishEnable, EnableOK
      <3>. QED  BY <3>1, <3>2, TransitionKeeps
    <2>2. CASE bindings[b].revision # enabling.revision
      <3>1. UNCHANGED <<bindings, tasks, creating>>
        BY <1>1, <2>2 DEF FinishEnable, NoCommit
      <3>. QED  BY <3>1, NoCommitKeeps
    <2>. QED  BY <2>1, <2>2
  <1>4. ViewOK' /\ ApplyOK' /\ QueueOK' /\ CreateOK' /\ EnableOK'
    BY <1>2, <1>3, SweepStays DEF CreateOK, EnableOK
  <1>5. BindingVarsOK'
    BY <1>2, <1>3, DomainBindingAssumption DEF BindingVarsOK, NoCreate, NoEnable
  <1>. QED  BY <1>3, <1>4, <1>5

\* Disable and Delete.
LEMMA StopBindingKeeps ==
    ASSUME BindingParts, NEW b \in Binding, NEW goal \in {"disabled", "deleted"}, StopBinding(b, goal)
    PROVE  BindingParts'
  <1>. USE DEF BindingParts
  <1>1. UNCHANGED <<records, recordCount, sweep, enabling, dnsFaults>>
    BY DEF StopBinding
  <1>2. /\ Forward /\ WantedStays /\ tasks' \subseteq tasks /\ creating' = NoCreate
        /\ BindingsOK' /\ NameOnce' /\ TasksOK' /\ SyncedIsConfirmed' /\ StoppedStaysQuiet'
    BY TransitionKeeps DEF StopBinding, CanMove
  <1>3. ViewOK' /\ ApplyOK' /\ QueueOK' /\ CreateOK' /\ EnableOK'
    BY <1>1, <1>2, SweepStays, EnableForward DEF CreateOK
  <1>4. BindingVarsOK'
    BY <1>1, <1>2 DEF BindingVarsOK, NoCreate
  <1>. QED  BY <1>2, <1>3, <1>4

\* RunOnce lists the bindings.
LEMMA BeginSweepKeeps ==
    ASSUME BindingParts, BeginSweep
    PROVE  BindingParts'
  <1>. USE DEF BindingParts
  <1>1. UNCHANGED <<bindings, tasks, creating, records, recordCount, enabling, dnsFaults>>
    BY DEF BeginSweep, NoCommit, SweepUnchanged
  <1>2. /\ Forward /\ WantedStays
        /\ BindingsOK' /\ NameOnce' /\ TasksOK' /\ SyncedIsConfirmed' /\ StoppedStaysQuiet'
    BY <1>1, NoCommitKeeps
  <1>3. NoBinding \in BindingRecord
    BY DomainBindingAssumption DEF NoBinding, BindingRecord
  <1>4. ViewOf(Swept) \in [Binding -> BindingRecord]
    BY <1>3 DEF ViewOf, BindingsOK
  <1>5. /\ sweep'.phase = "visit" /\ sweep'.view = ViewOf(Swept) /\ sweep'.queue = {}
        /\ sweep' \in [phase : {"idle", "visit", "process", "apply", "verify", "complete"},
                       view : [Binding -> BindingRecord], left : SUBSET Binding, queue : SUBSET Task,
                       task : Task \cup {Unset}, outcome : SyncOutcome]
    BY <1>4 DEF BeginSweep, IdleSweep, Swept, Nothing, ProviderAnswer, SyncOutcome
  <1>6. ViewOK'
    <2>. SUFFICES ASSUME NEW b \in Binding
         PROVE /\ Named(ViewOf(Swept)[b])
               /\ ViewOf(Swept)[b].state \in {"none", "observing", "enabled"}
               /\ ViewOf(Swept)[b].state # "none" => ViewOf(Swept)[b] = bindings[b]
      BY <1>1, <1>5 DEF ViewOK, Named, BindingsOK, BindingRecord
    <2>1. CASE b \in Swept
      <3>1. ViewOf(Swept)[b] = bindings[b]
        BY <2>1 DEF ViewOf
      <3>. QED  BY <2>1, <3>1 DEF Swept, BindingsOK
    <2>2. CASE b \notin Swept
      <3>1. ViewOf(Swept)[b] = NoBinding
        BY <2>2 DEF ViewOf
      <3>. QED  BY <3>1 DEF NoBinding, Named
    <2>. QED  BY <2>1, <2>2
  <1>7. ApplyOK' /\ QueueOK'
    BY <1>5 DEF ApplyOK, QueueOK, Applying
  <1>8. CreateOK' /\ EnableOK'
    BY <1>1, <1>2, EnableForward DEF CreateOK
  <1>9. BindingVarsOK'
    BY <1>1, <1>5 DEF BindingVarsOK
  <1>. QED  BY <1>2, <1>6, <1>7, <1>8, <1>9

\* A binding that was visited is forgotten by the sweep.
LEMMA VisitedEffect ==
    ASSUME BindingParts, NEW b \in Binding, Visited(b), sweep.phase = "visit",
           Forward, BindingsOK'
    PROVE  /\ sweep' \in [phase : {"idle", "visit", "process", "apply", "verify", "complete"},
                          view : [Binding -> BindingRecord], left : SUBSET Binding, queue : SUBSET Task,
                          task : Task \cup {Unset}, outcome : SyncOutcome]
           /\ ViewOK' /\ ApplyOK' /\ QueueOK'
  <1>. USE DEF BindingParts
  <1>1. NoBinding \in BindingRecord
    BY DomainBindingAssumption DEF NoBinding, BindingRecord
  <1> DEFINE view == [sweep.view EXCEPT ![b] = NoBinding]
  <1>2. sweep' = [sweep EXCEPT !.left = sweep.left \ {b}, !.view = view]
    BY DEF Visited, BindingVarsOK
  <1>3. view \in [Binding -> BindingRecord] /\ \A c \in Binding : view[c] \in {sweep.view[c], NoBinding}
    BY <1>1 DEF BindingVarsOK
  <1> HIDE DEF view
  <1>4. /\ sweep' \in [phase : {"idle", "visit", "process", "apply", "verify", "complete"},
                       view : [Binding -> BindingRecord], left : SUBSET Binding, queue : SUBSET Task,
                       task : Task \cup {Unset}, outcome : SyncOutcome]
        /\ sweep'.view = view /\ sweep'.phase = "visit" /\ sweep'.queue = sweep.queue
    BY <1>2, <1>3 DEF BindingVarsOK
  <1>5. ViewOK'
    BY <1>3, <1>4, ViewForward
  <1>6. ApplyOK' /\ QueueOK'
    BY <1>4 DEF ApplyOK, QueueOK, Applying
  <1>. QED  BY <1>4, <1>5, <1>6

\* What a visit commits, and what it leaves alone.
LEMMA VisitKeeps ==
    ASSUME BindingParts, NEW b \in Binding, Visited(b), sweep.phase = "visit", SweepUnchanged,
           dnsFaults' \in 0 .. MaxDNSFault, creating' \in {creating, NoCreate}, Forward,
           BindingsOK', NameOnce', TasksOK', SyncedIsConfirmed', StoppedStaysQuiet'
    PROVE  BindingParts'
  <1>. USE DEF BindingParts
  <1>1. UNCHANGED <<records, recordCount, enabling>>
    BY DEF SweepUnchanged
  <1>2. /\ sweep' \in [phase : {"idle", "visit", "process", "apply", "verify", "complete"},
                       view : [Binding -> BindingRecord], left : SUBSET Binding, queue : SUBSET Task,
                       task : Task \cup {Unset}, outcome : SyncOutcome]
        /\ ViewOK' /\ ApplyOK' /\ QueueOK'
    BY VisitedEffect
  <1>3. CreateOK' /\ EnableOK'
    BY <1>1, EnableForward DEF CreateOK
  <1>4. BindingVarsOK'
    BY <1>1, <1>2 DEF BindingVarsOK, NoCreate
  <1>. QED  BY <1>2, <1>3, <1>4

\* A binding that is only observed.
LEMMA VisitObservingKeeps ==
    ASSUME BindingParts, NEW b \in Binding, NEW bad \in BOOLEAN, VisitObserving(b, bad)
    PROVE  BindingParts'
  <1>. USE DEF BindingParts
  <1> DEFINE seen == IF bad THEN Nothing("retryable")
                     ELSE Observe(sweep.view[b].name, sweep.view[b].record)
  <1> DEFINE runtime == IF seen.error = "none" THEN "waiting_report" ELSE "failed"
  <1>1. /\ sweep.phase = "visit" /\ sweep.view[b].state = "observing" /\ Visited(b) /\ SweepUnchanged
        /\ RecordObservation(b, sweep.view[b].revision, seen, runtime)
    BY DEF VisitObserving
  <1>2. dnsFaults' \in 0 .. MaxDNSFault
    BY DomainBindingAssumption DEF VisitObserving, DNSFault, BindingVarsOK
  <1>3. sweep.view[b].name \in Name
    BY <1>1 DEF ViewOK, Named
  <1>4. seen.record \in RecordID \cup {Unset} /\ seen.ip \in Address \cup {Unset}
    BY <1>3, ObserveType DEF BindingVarsOK, Nothing, ProviderAnswer
  <1>5. bindings[b].revision = sweep.view[b].revision => bindings[b].state = "observing"
    BY <1>1 DEF ViewOK
  <1>6. runtime \in {"waiting_report", "failed", "stale"}
    OBVIOUS
  <1> HIDE DEF seen, runtime
  <1>7. /\ Forward /\ creating' \in {creating, NoCreate}
        /\ BindingsOK' /\ NameOnce' /\ TasksOK' /\ SyncedIsConfirmed' /\ StoppedStaysQuiet'
    BY <1>1, <1>4, <1>5, <1>6, RecordObservationKeeps
  <1>. QED  BY <1>1, <1>2, <1>7, VisitKeeps

\* The owner may not publish any more.
LEMMA VisitUnauthorizedKeeps ==
    ASSUME BindingParts, NEW b \in Binding, VisitUnauthorized(b)
    PROVE  BindingParts'
  <1>. USE DEF BindingParts
  <1>1. /\ sweep.phase = "visit" /\ sweep.view[b].state = "enabled" /\ Visited(b) /\ SweepUnchanged
        /\ dnsFaults' \in 0 .. MaxDNSFault
    BY DEF VisitUnauthorized, VisitEnabled, BindingVarsOK
  <1>2. /\ Forward /\ creating' \in {creating, NoCreate}
        /\ BindingsOK' /\ NameOnce' /\ TasksOK' /\ SyncedIsConfirmed' /\ StoppedStaysQuiet'
    <2>1. CASE bindings[b].revision = sweep.view[b].revision
      <3>1. Transition(b, "disabled") /\ bindings[b].revision < MaxRevision
        BY <2>1 DEF VisitUnauthorized
      <3>2. Live(b)
        BY <1>1, <2>1 DEF ViewOK, Live
      <3>. QED  BY <3>1, <3>2, TransitionKeeps
    <2>2. CASE bindings[b].revision # sweep.view[b].revision
      <3>1. UNCHANGED <<bindings, tasks, creating>>
        BY <2>2 DEF VisitUnauthorized, NoCommit
      <3>. QED  BY <3>1, NoCommitKeeps
    <2>. QED  BY <2>1, <2>2
  <1>. QED  BY <1>1, <1>2, VisitKeeps

\* The source has no address.
LEMMA VisitNoAddressKeeps ==
    ASSUME BindingParts, NEW b \in Binding, VisitNoAddress(b)
    PROVE  BindingParts'
  <1>. USE DEF BindingParts
  <1> DEFINE runtime == IF sweep.view[b].applied # Unset THEN "stale" ELSE "waiting_report"
  <1> DEFINE seen == ProviderAnswer(sweep.view[b].record, sweep.view[b].ip, "none")
  <1>1. /\ sweep.phase = "visit" /\ sweep.view[b].state = "enabled" /\ Visited(b) /\ SweepUnchanged
        /\ dnsFaults' \in 0 .. MaxDNSFault
    BY DEF VisitNoAddress, VisitEnabled, BindingVarsOK
  <1>2. \/ RecordObservation(b, sweep.view[b].revision, seen, runtime)
        \/ UNCHANGED <<bindings, tasks, creating>>
    BY DEF VisitNoAddress, NoCommit
  <1>3. seen.record \in RecordID \cup {Unset} /\ seen.ip \in Address \cup {Unset}
    BY DEF BindingVarsOK, BindingRecord, ProviderAnswer
  <1>4. bindings[b].revision = sweep.view[b].revision => bindings[b].state = "enabled"
    BY <1>1 DEF ViewOK
  <1>5. runtime \in {"waiting_report", "failed", "stale"}
    OBVIOUS
  <1> HIDE DEF seen, runtime
  <1>6. /\ Forward /\ creating' \in {creating, NoCreate}
        /\ BindingsOK' /\ NameOnce' /\ TasksOK' /\ SyncedIsConfirmed' /\ StoppedStaysQuiet'
    <2>1. CASE RecordObservation(b, sweep.view[b].revision, seen, runtime)
      BY <2>1, <1>3, <1>4, <1>5, RecordObservationKeeps
    <2>2. CASE UNCHANGED <<bindings, tasks, creating>>
      BY <2>2, NoCommitKeeps
    <2>. QED  BY <1>2, <2>1, <2>2
  <1>. QED  BY <1>1, <1>6, VisitKeeps

\* A task queued for the address that is wanted now takes the place of the others.
LEMMA QueueKeeps ==
    ASSUME BindingParts, NEW b \in Binding, NEW a \in Address,
           bindings[b].state = "enabled",
           bindings' = Queued(b, a),
           tasks' = {t \in tasks : ~(t.binding = b /\ (Active(t) \/ t.revision = bindings[b].revision))}
                    \cup {[binding |-> b, revision |-> bindings[b].revision, desired |-> a,
                           status |-> "pending", attempts |-> 0]}
    PROVE  /\ Forward /\ BindingsOK' /\ NameOnce' /\ TasksOK' /\ SyncedIsConfirmed' /\ StoppedStaysQuiet'
  <1>. USE DEF BindingParts
  <1> DEFINE r == [bindings[b] EXCEPT !.desired = a, !.runtime = "pending"]
  <1> DEFINE fresh == [binding |-> b, revision |-> bindings[b].revision, desired |-> a,
                       status |-> "pending", attempts |-> 0]
  <1>1. bindings[b] \in BindingRecord /\ Named(bindings[b])
    BY DEF BindingsOK
  <1>2. bindings' = [bindings EXCEPT ![b] = r]
    BY DEF Queued, BindingsOK
  <1>3. /\ r \in BindingRecord /\ r.state = bindings[b].state /\ r.name = bindings[b].name
        /\ r.revision = bindings[b].revision /\ r.desired = a /\ r.runtime = "pending"
    BY <1>1 DEF BindingRecord
  <1>4. Named(r)
    BY <1>1, <1>3 DEF Named
  <1>5. fresh \in Task
    <2>1. bindings[b].revision \in 1 .. MaxRevision
      BY <1>1 DEF Named, BindingRecord
    <2>. QED  BY <2>1, DomainBindingAssumption DEF Task
  <1>6. /\ fresh.binding = b /\ fresh.revision = bindings[b].revision /\ fresh.desired = a
        /\ fresh.attempts = 0
    OBVIOUS
  <1>7. tasks' = {t \in tasks : ~(t.binding = b /\ (Active(t) \/ t.revision = bindings[b].revision))}
                 \cup {fresh}
    OBVIOUS
  <1> HIDE DEF r, fresh
  <1>8. BindingsOK' /\ bindings'[b] = r /\ \A c \in Binding : c # b => bindings'[c] = bindings[c]
    BY <1>2, <1>3, <1>4, ReplaceBinding
  <1>9. Forward
    BY <1>3, <1>8 DEF Forward
  <1>10. NameOnce'
    BY <1>3, <1>8 DEF NameOnce, Live
  <1>11. TasksOK'
    <2>1. tasks' \in SUBSET Task
      BY <1>5, <1>7 DEF TasksOK
    <2>2. ASSUME NEW t \in tasks' PROVE Fits(t)' /\ (Active(t) => Current(t)' /\ t.attempts < MaxAttempt)
      <3>1. CASE t = fresh
        BY <1>1, <1>3, <1>6, <1>8, <3>1, DomainBindingAssumption DEF Fits, Current, BindingRecord
      <3>2. CASE t \in tasks /\ t.binding # b
        <4>1. t.binding \in Binding
          BY <3>2 DEF TasksOK, Task
        <4>. QED  BY <1>8, <3>2, <4>1 DEF TasksOK, Fits, Current
      <3>3. CASE t \in tasks /\ t.binding = b /\ ~Active(t) /\ t.revision # bindings[b].revision
        BY <1>3, <1>8, <3>3 DEF TasksOK, Fits, Current
      <3>. QED  BY <1>7, <3>1, <3>2, <3>3
    <2>3. \A t, k \in tasks' : SameTask(t, k) => t = k
      BY <1>6, <1>7 DEF TasksOK, SameTask
    <2>. QED  BY <2>1, <2>2, <2>3 DEF TasksOK, Active, SameTask
  <1>12. SyncedIsConfirmed' /\ StoppedStaysQuiet'
    BY <1>3, <1>8 DEF SyncedIsConfirmed, StoppedStaysQuiet
  <1>. QED  BY <1>8, <1>9, <1>10, <1>11, <1>12

\* QueueReconcileTask, at the revision that was listed.
LEMMA VisitAddressKeeps ==
    ASSUME BindingParts, NEW b \in Binding, NEW a \in Address, VisitAddress(b, a)
    PROVE  BindingParts'
  <1>. USE DEF BindingParts
  <1>1. /\ sweep.phase = "visit" /\ sweep.view[b].state = "enabled" /\ Visited(b) /\ SweepUnchanged
        /\ dnsFaults' \in 0 .. MaxDNSFault
    BY DEF VisitAddress, VisitEnabled, BindingVarsOK
  <1>2. \/ /\ bindings' = bindings /\ tasks' \subseteq tasks /\ creating' = NoCreate
        \/ /\ bindings[b].revision = sweep.view[b].revision /\ bindings' = Queued(b, a)
           /\ tasks' = {t \in tasks : ~(t.binding = b /\ (Active(t) \/ t.revision = bindings[b].revision))}
                       \cup {[binding |-> b, revision |-> bindings[b].revision, desired |-> a,
                              status |-> "pending", attempts |-> 0]}
           /\ creating' = NoCreate
        \/ UNCHANGED <<bindings, tasks, creating>>
    BY DEF VisitAddress, Commit, NoCommit
  <1>3. /\ Forward /\ creating' \in {creating, NoCreate}
        /\ BindingsOK' /\ NameOnce' /\ TasksOK' /\ SyncedIsConfirmed' /\ StoppedStaysQuiet'
    <2>1. CASE bindings' = bindings /\ tasks' \subseteq tasks /\ creating' = NoCreate
      <3>1. BindingsOK' /\ NameOnce' /\ SyncedIsConfirmed' /\ StoppedStaysQuiet' /\ Forward
        BY <2>1 DEF BindingsOK, NameOnce, Live, SyncedIsConfirmed, StoppedStaysQuiet, Forward
      <3>2. TasksOK'
        BY <2>1 DEF TasksOK, Fits, Active, Current, SameTask
      <3>. QED  BY <2>1, <3>1, <3>2
    <2>2. CASE /\ bindings[b].revision = sweep.view[b].revision /\ bindings' = Queued(b, a)
               /\ tasks' = {t \in tasks : ~(t.binding = b /\ (Active(t) \/ t.revision = bindings[b].revision))}
                           \cup {[binding |-> b, revision |-> bindings[b].revision, desired |-> a,
                                  status |-> "pending", attempts |-> 0]}
               /\ creating' = NoCreate
      <3>1. bindings[b].state = "enabled"
        BY <1>1, <2>2 DEF ViewOK
      <3>. QED  BY <2>2, <3>1, QueueKeeps
    <2>3. CASE UNCHANGED <<bindings, tasks, creating>>
      BY <2>3, NoCommitKeeps
    <2>. QED  BY <1>2, <2>1, <2>2, <2>3
  <1>. QED  BY <1>1, <1>3, VisitKeeps

\* RecoverReconcileTasks keeps the tasks that are current and takes up the due ones.
LEMMA RecoverTasksKeeps ==
    ASSUME BindingParts, NEW due, RecoverTasks(due)
    PROVE  BindingParts'
  <1>. USE DEF BindingParts
  <1> DEFINE kept == {t \in tasks : Current(t)}
  <1> DEFINE again(t) == IF t.status = "syncing" THEN [t EXCEPT !.status = "pending"] ELSE t
  <1>1. /\ UNCHANGED <<bindings, records, recordCount, enabling, dnsFaults>> /\ creating' = NoCreate
        /\ tasks' = {again(t) : t \in kept}
        /\ due \subseteq {t \in {again(k) : k \in kept} : t.status = "pending"}
        /\ sweep' = [IdleSweep EXCEPT !.phase = "process", !.queue = due]
    BY DEF RecoverTasks, Commit, SweepUnchanged
  <1>2. ASSUME NEW t \in kept
        PROVE  /\ again(t) \in Task /\ again(t).binding = t.binding /\ again(t).revision = t.revision
               /\ again(t).desired = t.desired /\ again(t).attempts = t.attempts
               /\ Active(again(t)) => Active(t)
               /\ Fits(t) /\ Current(t) /\ t.binding \in Binding
    <2>1. t \in Task /\ Fits(t) /\ Current(t)
      BY DEF TasksOK
    <2>2. again(t) \in Task /\ again(t).binding = t.binding /\ again(t).revision = t.revision
          /\ again(t).desired = t.desired /\ again(t).attempts = t.attempts
          /\ (again(t).status \in {"pending", "syncing"} => t.status \in {"pending", "syncing"})
      <3>1. CASE t.status = "syncing"
        BY <2>1, <3>1 DEF Task
      <3>2. CASE t.status # "syncing"
        BY <2>1, <3>2
      <3>. QED  BY <3>1, <3>2
    <2>3. t.binding \in Binding
      BY <2>1 DEF Task
    <2> HIDE DEF again
    <2>. QED  BY <2>1, <2>2, <2>3 DEF Active
  <1>3. tasks' = {again(t) : t \in kept} /\ due \subseteq tasks'
        /\ \A t \in due : t.status = "pending"
    BY <1>1
  <1>k. kept \subseteq tasks
    OBVIOUS
  <1> HIDE DEF kept, again
  <1>4. OnlyObserved /\ BindingsOK' /\ SyncedIsConfirmed' /\ StoppedStaysQuiet'
    BY <1>1 DEF OnlyObserved, BindingsOK, SyncedIsConfirmed, StoppedStaysQuiet
  <1>5. Forward /\ WantedStays /\ NameOnce'
    BY <1>4, OnlyObservedKeeps
  <1>6. ASSUME NEW k \in tasks'
        PROVE  /\ k \in Task /\ Fits(k) /\ Fits(k)'
               /\ (Active(k) => Current(k)' /\ k.attempts < MaxAttempt)
    <2>1. PICK t \in kept : k = again(t)
      BY <1>3
    <2>2. k \in Task /\ k.binding = t.binding /\ k.revision = t.revision
          /\ k.desired = t.desired /\ k.attempts = t.attempts /\ (Active(k) => Active(t))
          /\ Fits(t) /\ Current(t)
      BY <1>2, <2>1
    <2>3. Active(k) => k.attempts < MaxAttempt
      BY <1>k, <2>2 DEF TasksOK
    <2>4. Fits(k)
      BY <2>2 DEF Fits
    <2>5. Fits(k)' /\ (Current(k)' <=> Current(k))
      BY <1>4, <2>2, <2>4, OnlyObservedKeeps
    <2>6. Current(k)
      BY <2>2 DEF Current
    <2>. QED  BY <2>2, <2>3, <2>4, <2>5, <2>6
  <1>7. \A t, k \in tasks' : SameTask(t, k) => t = k
    <2>. SUFFICES ASSUME NEW t \in kept, NEW k \in kept, SameTask(again(t), again(k))
         PROVE  again(t) = again(k)
      BY <1>3
    <2>1. SameTask(t, k)
      BY <1>2 DEF SameTask
    <2>. QED  BY <1>k, <2>1 DEF TasksOK
  <1>8. TasksOK'
    BY <1>6, <1>7 DEF TasksOK, Active, SameTask
  <1>9. /\ sweep' \in [phase : {"idle", "visit", "process", "apply", "verify", "complete"},
                       view : [Binding -> BindingRecord], left : SUBSET Binding, queue : SUBSET Task,
                       task : Task \cup {Unset}, outcome : SyncOutcome]
        /\ sweep'.phase = "process" /\ sweep'.queue = due /\ sweep'.view = [b \in Binding |-> NoBinding]
    <2>1. NoBinding \in BindingRecord
      BY DomainBindingAssumption DEF NoBinding, BindingRecord
    <2>2. due \in SUBSET Task
      BY <1>3, <1>6
    <2>. QED  BY <1>1, <2>1, <2>2 DEF IdleSweep, Nothing, ProviderAnswer, SyncOutcome
  <1>10. ViewOK'
    BY <1>9 DEF ViewOK, NoBinding, Named
  <1>11. ApplyOK'
    BY <1>9 DEF ApplyOK, Applying
  <1>12. QueueOK'
    <2>1. \A t \in due : Fits(t)' /\ t.attempts < MaxAttempt
      BY <1>3, <1>6 DEF Active
    <2>2. \A t \in due : \A k \in tasks' : SameTask(t, k) => k = t
      BY <1>3, <1>7
    <2>. QED  BY <1>3, <1>9, <2>1, <2>2 DEF QueueOK, Applying, SameTask
  <1>13. EnableOK' /\ CreateOK'
    BY <1>1, <1>4, <1>5, EnableForward DEF CreateOK
  <1>14. BindingVarsOK'
    BY <1>1, <1>9 DEF BindingVarsOK, NoCreate
  <1>. QED  BY <1>4, <1>5, <1>8, <1>10, <1>11, <1>12, <1>13, <1>14

\* The sweep goes back to its queue, or is gone.
LEMMA BackToQueue ==
    ASSUME BindingParts, NEW queue \in SUBSET sweep.queue, NEW phase \in {"idle", "process"},
           phase = "idle" => queue = {},
           sweep' = [phase |-> phase, view |-> [b \in Binding |-> NoBinding], left |-> {},
                     queue |-> queue, task |-> Unset, outcome |-> Nothing("none")],
           Forward, WantedStays, BindingsOK',
           \A t \in queue, k \in tasks' : SameTask(t, k) => k \in tasks
    PROVE  /\ sweep' \in [phase : {"idle", "visit", "process", "apply", "verify", "complete"},
                          view : [Binding -> BindingRecord], left : SUBSET Binding, queue : SUBSET Task,
                          task : Task \cup {Unset}, outcome : SyncOutcome]
           /\ ViewOK' /\ ApplyOK' /\ QueueOK'
  <1>. USE DEF BindingParts
  <1>1. NoBinding \in BindingRecord
    BY DomainBindingAssumption DEF NoBinding, BindingRecord
  <1>2. queue \in SUBSET Task
    BY DEF BindingVarsOK
  <1>3. /\ sweep' \in [phase : {"idle", "visit", "process", "apply", "verify", "complete"},
                       view : [Binding -> BindingRecord], left : SUBSET Binding, queue : SUBSET Task,
                       task : Task \cup {Unset}, outcome : SyncOutcome]
        /\ sweep'.phase = phase /\ sweep'.queue = queue /\ sweep'.view = [b \in Binding |-> NoBinding]
    BY <1>1, <1>2 DEF Nothing, ProviderAnswer, SyncOutcome
  <1>4. ViewOK'
    BY <1>3 DEF ViewOK, NoBinding, Named
  <1>5. ApplyOK'
    BY <1>3 DEF ApplyOK, Applying
  <1>6. QueueOK'
    <2>1. \A t \in queue : Fits(t)'
      BY <1>2, FitsForward DEF QueueOK
    <2>. QED  BY <1>3, <2>1 DEF QueueOK, Applying, SameTask
  <1>. QED  BY <1>3, <1>4, <1>5, <1>6

\* MarkReconcileTaskSyncing takes one task from the queue.
LEMMA ProcessTaskKeeps ==
    ASSUME BindingParts, NEW t \in Task, ProcessTask(t)
    PROVE  BindingParts'
  <1>. USE DEF BindingParts
  <1>1. /\ UNCHANGED <<records, recordCount, enabling, dnsFaults>>
        /\ sweep.phase = "process" /\ t \in sweep.queue /\ t.binding \in Binding
    BY DEF ProcessTask, SweepUnchanged, Task
  <1>2. CASE ~(TaskNow(t) # {} /\ Current(t))
    <2>1. UNCHANGED <<bindings, tasks, creating>> /\ sweep' = [sweep EXCEPT !.queue = sweep.queue \ {t}]
      BY <1>2 DEF ProcessTask, NoCommit
    <2>2. /\ Forward /\ WantedStays
          /\ BindingsOK' /\ NameOnce' /\ TasksOK' /\ SyncedIsConfirmed' /\ StoppedStaysQuiet'
      BY <2>1, NoCommitKeeps
    <2>3. /\ sweep' \in [phase : {"idle", "visit", "process", "apply", "verify", "complete"},
                         view : [Binding -> BindingRecord], left : SUBSET Binding, queue : SUBSET Task,
                         task : Task \cup {Unset}, outcome : SyncOutcome]
          /\ sweep'.phase = "process" /\ sweep'.view = sweep.view /\ sweep'.queue \subseteq sweep.queue
      BY <1>1, <2>1 DEF BindingVarsOK
    <2>4. ViewOK'
      BY <2>1, <2>2, <2>3, ViewForward
    <2>5. ApplyOK' /\ QueueOK'
      <3>1. \A k \in sweep.queue : Fits(k)' <=> Fits(k)
        BY <2>1 DEF Fits
      <3>. QED  BY <1>1, <2>1, <2>3, <3>1 DEF ApplyOK, QueueOK, Applying, SameTask
    <2>6. EnableOK' /\ CreateOK'
      BY <1>1, <2>1, <2>2, EnableForward DEF CreateOK
    <2>7. BindingVarsOK'
      BY <1>1, <2>1, <2>3 DEF BindingVarsOK
    <2>. QED  BY <2>2, <2>4, <2>5, <2>6, <2>7
  <1>3. CASE TaskNow(t) # {} /\ Current(t)
    <2> DEFINE b == t.binding
    <2> DEFINE r == [bindings[b] EXCEPT !.runtime = "syncing"]
    <2> DEFINE marked(k) == IF k \in TaskNow(t) THEN [k EXCEPT !.status = "syncing"] ELSE k
    <2>1. /\ bindings' = [bindings EXCEPT ![b] = r] /\ creating' = NoCreate
          /\ tasks' = {marked(k) : k \in tasks}
          /\ sweep' = [sweep EXCEPT !.phase = "apply", !.queue = sweep.queue \ {t}, !.task = t,
                                    !.view = ViewOf({b})]
      BY <1>3 DEF ProcessTask, Commit, BindingsOK
    <2>2. bindings[b] \in BindingRecord /\ bindings[b].state = "enabled" /\ bindings[b].revision = t.revision
      BY <1>1, <1>3 DEF BindingsOK, Current
    <2>3. /\ r \in BindingRecord /\ r.state = bindings[b].state /\ r.name = bindings[b].name
          /\ r.revision = bindings[b].revision /\ r.desired = bindings[b].desired
          /\ r.runtime = "syncing"
      BY <2>2 DEF BindingRecord
    <2> HIDE DEF r
    <2>4. BindingsOK' /\ OnlyObserved /\ bindings'[b] = r /\ \A c \in Binding : c # b => bindings'[c] = bindings[c]
      BY <1>1, <2>1, <2>3, ObservedEffect
    <2>5. /\ Forward /\ WantedStays /\ NameOnce'
          /\ \A k \in Task : (Fits(k)' <=> Fits(k)) /\ (Current(k)' <=> Current(k))
      BY <2>4, OnlyObservedKeeps
    <2>6. SyncedIsConfirmed' /\ StoppedStaysQuiet'
      BY <2>2, <2>3, <2>4 DEF SyncedIsConfirmed, StoppedStaysQuiet
    <2>7. TaskNow(t) = {t} /\ t.attempts < MaxAttempt /\ Fits(t)
      BY <1>1, <1>3 DEF TaskNow, QueueOK, SameTask
    <2>8. marked(t) \in Task /\ marked(t).binding = b /\ marked(t).revision = t.revision
          /\ marked(t).desired = t.desired /\ marked(t).attempts = t.attempts
      BY <2>7 DEF Task
    <2>9. \A k \in tasks : k # t => marked(k) = k
      BY <2>7
    <2>10. t \in tasks
      BY <2>7 DEF TaskNow
    <2>m. PICK m : m = marked(t)
      OBVIOUS
    <2>11. tasks' = (tasks \ {t}) \cup {m}
      <3> HIDE DEF marked
      <3>. QED  BY <2>m, <2>1, <2>9, <2>10
    <2>12. m \in Task /\ SameTask(m, t) /\ m.desired = t.desired /\ m.attempts = t.attempts
      BY <2>m, <2>8 DEF SameTask
    <2> HIDE DEF marked
    <2>13. TasksOK'
      <3>1. tasks' \in SUBSET Task
        BY <2>11, <2>12 DEF TasksOK
      <3>2. Fits(m)' /\ Current(m)' /\ m.attempts < MaxAttempt
        <4>1. Fits(m) /\ Current(m)
          BY <1>3, <2>7, <2>12 DEF Fits, Current, SameTask
        <4>. QED  BY <2>5, <2>7, <2>12, <4>1
      <3>3. \A k \in tasks : Fits(k)' /\ (Active(k) => Current(k)' /\ k.attempts < MaxAttempt)
        BY <2>5 DEF TasksOK
      <3>4. \A k \in tasks \ {t} : ~SameTask(k, m)
        BY <2>10, <2>12 DEF TasksOK, SameTask
      <3>5. \A k, l \in tasks' : SameTask(k, l) => k = l
        BY <2>11, <3>4 DEF TasksOK, SameTask
      <3>. QED  BY <2>11, <3>1, <3>2, <3>3, <3>5 DEF TasksOK, Active, SameTask
    <2>14. NoBinding \in BindingRecord /\ NoBinding.state = "none" /\ Named(NoBinding)
      BY DomainBindingAssumption DEF NoBinding, BindingRecord, Named
    <2>15. /\ ViewOf({b}) \in [Binding -> BindingRecord] /\ ViewOf({b})[b] = bindings[b]
           /\ \A c \in Binding : c # b => ViewOf({b})[c] = NoBinding
      BY <1>1, <2>14 DEF ViewOf, BindingsOK
    <2>16. /\ sweep' \in [phase : {"idle", "visit", "process", "apply", "verify", "complete"},
                          view : [Binding -> BindingRecord], left : SUBSET Binding, queue : SUBSET Task,
                          task : Task \cup {Unset}, outcome : SyncOutcome]
           /\ sweep'.phase = "apply" /\ sweep'.view = ViewOf({b}) /\ sweep'.task = t
           /\ sweep'.queue = sweep.queue \ {t}
      BY <2>1, <2>15 DEF BindingVarsOK
    <2>17. ViewOK'
      <3>. SUFFICES ASSUME NEW c \in Binding
           PROVE /\ Named(ViewOf({b})[c])
                 /\ ViewOf({b})[c].state \in {"none", "observing", "enabled"}
                 /\ ViewOf({b})[c].state # "none" =>
                      /\ ViewOf({b})[c].revision <= bindings'[c].revision
                      /\ ViewOf({b})[c].revision = bindings'[c].revision =>
                             ViewOf({b})[c].state = bindings'[c].state
        BY <2>16 DEF ViewOK, Named
      <3>1. CASE c # b
        BY <2>14, <2>15, <3>1
      <3>2. CASE c = b
        BY <2>2, <2>3, <2>4, <2>15, <3>2 DEF BindingsOK, BindingRecord
      <3>. QED  BY <3>1, <3>2
    <2>18. Fits(t)' /\ bindings[b].desired = t.desired
      BY <2>2, <2>5, <2>7 DEF Fits
    <2>19. ApplyOK'
      <3>1. ViewOf({b})[b].state = "enabled" /\ ViewOf({b})[b].desired = t.desired
        BY <2>2, <2>15, <2>18
      <3>2. bindings'[b].state = "enabled"
        BY <2>2, <2>3, <2>4
      <3>. QED  BY <1>1, <2>7, <2>16, <2>18, <3>1, <3>2 DEF ApplyOK, Applying, Fits
    <2>20. QueueOK'
      <3>1. \A k \in sweep.queue : k \in Task /\ Fits(k)'
        BY <2>5 DEF QueueOK, BindingVarsOK
      <3>2. \A k \in sweep.queue \ {t} : ~SameTask(k, t) /\ ~SameTask(k, m)
        BY <1>1, <2>12 DEF QueueOK, SameTask
      <3>. QED  BY <2>11, <2>16, <3>1, <3>2 DEF QueueOK, SameTask
    <2>21. EnableOK' /\ CreateOK'
      BY <1>1, <2>1, <2>4, <2>5, EnableForward DEF CreateOK
    <2>22. BindingVarsOK'
      BY <1>1, <2>1, <2>16 DEF BindingVarsOK, NoCreate
    <2>. QED  BY <2>4, <2>5, <2>6, <2>13, <2>17, <2>19, <2>20, <2>21, <2>22
  <1>. QED  BY <1>2, <1>3

\* The sweep ends with an empty queue.
LEMMA EndSweepKeeps ==
    ASSUME BindingParts, EndSweep
    PROVE  BindingParts'
  <1>. USE DEF BindingParts
  <1>1. UNCHANGED <<bindings, tasks, creating, records, recordCount, enabling, dnsFaults>>
    BY DEF EndSweep, NoCommit, SweepUnchanged
  <1>2. /\ Forward /\ WantedStays
        /\ BindingsOK' /\ NameOnce' /\ TasksOK' /\ SyncedIsConfirmed' /\ StoppedStaysQuiet'
    BY <1>1, NoCommitKeeps
  <1>3. sweep' = [phase |-> "idle", view |-> [b \in Binding |-> NoBinding], left |-> {},
                  queue |-> {}, task |-> Unset, outcome |-> Nothing("none")]
    BY DEF EndSweep, IdleSweep
  <1>4. /\ sweep' \in [phase : {"idle", "visit", "process", "apply", "verify", "complete"},
                       view : [Binding -> BindingRecord], left : SUBSET Binding, queue : SUBSET Task,
                       task : Task \cup {Unset}, outcome : SyncOutcome]
        /\ ViewOK' /\ ApplyOK' /\ QueueOK'
    <2>1. {} \in SUBSET sweep.queue /\ "idle" \in {"idle", "process"}
      OBVIOUS
    <2>. QED  BY <1>2, <1>3, <2>1, BackToQueue
  <1>5. EnableOK' /\ CreateOK'
    BY <1>1, <1>2, EnableForward DEF CreateOK
  <1>6. BindingVarsOK'
    BY <1>1, <1>4 DEF BindingVarsOK
  <1>. QED  BY <1>2, <1>4, <1>5, <1>6

\* The process dies.
LEMMA BindingCrashKeeps ==
    ASSUME BindingParts, BindingCrash
    PROVE  BindingParts'
  <1>. USE DEF BindingParts
  <1>1. /\ UNCHANGED <<bindings, tasks, records, recordCount, dnsFaults>>
        /\ enabling' = NoEnable /\ creating' = NoCreate
    BY DEF BindingCrash
  <1>2. /\ Forward /\ WantedStays
        /\ BindingsOK' /\ NameOnce' /\ TasksOK' /\ SyncedIsConfirmed' /\ StoppedStaysQuiet'
    BY <1>1, NoCommitKeeps
  <1>3. sweep' = [phase |-> "idle", view |-> [b \in Binding |-> NoBinding], left |-> {},
                  queue |-> {}, task |-> Unset, outcome |-> Nothing("none")]
    BY DEF BindingCrash, IdleSweep
  <1>4. /\ sweep' \in [phase : {"idle", "visit", "process", "apply", "verify", "complete"},
                       view : [Binding -> BindingRecord], left : SUBSET Binding, queue : SUBSET Task,
                       task : Task \cup {Unset}, outcome : SyncOutcome]
        /\ ViewOK' /\ ApplyOK' /\ QueueOK'
    <2>1. {} \in SUBSET sweep.queue /\ "idle" \in {"idle", "process"}
      OBVIOUS
    <2>. QED  BY <1>2, <1>3, <2>1, BackToQueue
  <1>5. EnableOK' /\ CreateOK'
    BY <1>1 DEF EnableOK, CreateOK
  <1>6. BindingVarsOK'
    BY <1>1, <1>4, DomainBindingAssumption DEF BindingVarsOK, NoCreate, NoEnable
  <1>. QED  BY <1>2, <1>4, <1>5, <1>6

\* The sweep while it applies a task: its view, queue and task stay.
LEMMA ApplyingStays ==
    ASSUME BindingParts, Applying, Forward, WantedStays, BindingsOK', tasks' \subseteq tasks,
           NEW phase \in {"verify", "complete"}, NEW outcome \in SyncOutcome,
           phase = "verify" \/ outcome.error = "none" => outcome.ip = sweep.task.desired,
           sweep' = [sweep EXCEPT !.phase = phase, !.outcome = outcome]
    PROVE  /\ sweep' \in [phase : {"idle", "visit", "process", "apply", "verify", "complete"},
                          view : [Binding -> BindingRecord], left : SUBSET Binding, queue : SUBSET Task,
                          task : Task \cup {Unset}, outcome : SyncOutcome]
           /\ ViewOK' /\ ApplyOK' /\ QueueOK'
  <1>. USE DEF BindingParts
  <1>1. /\ sweep' \in [phase : {"idle", "visit", "process", "apply", "verify", "complete"},
                       view : [Binding -> BindingRecord], left : SUBSET Binding, queue : SUBSET Task,
                       task : Task \cup {Unset}, outcome : SyncOutcome]
        /\ sweep'.phase = phase /\ sweep'.view = sweep.view /\ sweep'.queue = sweep.queue
        /\ sweep'.task = sweep.task /\ sweep'.outcome = outcome
    BY DEF BindingVarsOK
  <1>2. ViewOK'
    BY <1>1, ViewForward
  <1>3. PICK t \in Task : t = sweep.task
    BY DEF ApplyOK
  <1>4. Fits(t)' /\ Fits(t) /\ t.binding \in Binding /\ t.revision \in Nat
    BY <1>3, FitsForward DEF ApplyOK, Task
  <1>5. t.revision = bindings'[t.binding].revision => bindings'[t.binding].state = "enabled"
    BY <1>3, <1>4 DEF ApplyOK, Fits, Forward, BindingsOK, BindingRecord
  <1>6. ApplyOK'
    BY <1>1, <1>3, <1>4, <1>5 DEF ApplyOK, Fits
  <1>7. QueueOK'
    <2>1. \A k \in sweep.queue : k \in Task /\ Fits(k)'
      BY FitsForward DEF QueueOK, BindingVarsOK
    <2>. QED  BY <1>1, <2>1 DEF QueueOK, SameTask
  <1>. QED  BY <1>1, <1>2, <1>6, <1>7

\* Apply writes the record of the binding's name at the provider.
LEMMA ApplyRecordKeeps ==
    ASSUME BindingParts, NEW result \in {"ok", "lost", "unanswered", "denied"}, ApplyRecord(result)
    PROVE  BindingParts'
  <1>. USE DEF BindingParts
  <1> DEFINE view == sweep.view[sweep.task.binding]
  <1> DEFINE there == records[view.name]
  <1> DEFINE mine == IF view.record = Unset THEN there = Unset ELSE there # Unset /\ there.id = view.record
  <1> DEFINE writes == mine /\ result \in {"ok", "lost"}
  <1> DEFINE id == IF view.record = Unset THEN recordCount + 1 ELSE view.record
  <1> DEFINE phase == IF writes /\ result = "ok" THEN "verify" ELSE "complete"
  <1> DEFINE outcome == IF ~mine \/ result = "denied" THEN Nothing("final")
                        ELSE IF result = "ok" THEN ProviderAnswer(id, view.desired, "none")
                        ELSE Nothing("retryable")
  <1>1. /\ UNCHANGED <<bindings, tasks, creating, enabling>> /\ sweep.phase = "apply"
        /\ writes /\ view.record = Unset => recordCount < MaxRecord
        /\ records' = IF writes THEN [records EXCEPT ![view.name] = [id |-> id, ip |-> view.desired]] ELSE records
        /\ recordCount' = IF writes /\ view.record = Unset THEN recordCount + 1 ELSE recordCount
        /\ sweep' = [sweep EXCEPT !.phase = phase, !.outcome = outcome]
        /\ mine \/ result = "ok"
    BY DEF ApplyRecord, NoCommit
  <1>2. dnsFaults' \in 0 .. MaxDNSFault
    <2>1. DNSFault(result # "ok")
      BY DEF ApplyRecord
    <2>. QED  BY <2>1, DomainBindingAssumption DEF DNSFault, BindingVarsOK
  <1>3. sweep.task \in Task /\ sweep.task.binding \in Binding /\ sweep.task.desired \in Address
        /\ view.desired = sweep.task.desired /\ view.state # "none"
    BY <1>1 DEF ApplyOK, Applying, Task
  <1>4. view.name \in Name /\ view.record \in RecordID \cup {Unset}
    BY <1>3 DEF ViewOK, Named, BindingVarsOK, BindingRecord
  <1>c. /\ recordCount \in 0 .. MaxRecord /\ MaxRecord \in Nat
        /\ writes => view.record # Unset \/ recordCount < MaxRecord
        /\ recordCount' = recordCount \/ (writes /\ view.record = Unset /\ recordCount' = recordCount + 1)
    BY <1>1, DomainBindingAssumption DEF BindingVarsOK
  <1>5. ASSUME writes PROVE id \in RecordID
    <2>1. CASE view.record = Unset
      <3>1. id = recordCount + 1 /\ recordCount < MaxRecord
        BY <1>c, <1>5, <2>1
      <3>. QED  BY <1>c, <3>1 DEF RecordID
    <2>2. CASE view.record # Unset
      BY <1>4, <2>2
    <2>. QED  BY <2>1, <2>2
  <1>6. recordCount' \in 0 .. MaxRecord
    <2>1. CASE recordCount' = recordCount
      BY <1>c, <2>1
    <2>2. CASE writes /\ view.record = Unset /\ recordCount' = recordCount + 1
      <3>1. recordCount < MaxRecord
        BY <1>c, <2>2
      <3>. QED  BY <1>c, <2>2, <3>1
    <2>. QED  BY <1>c, <2>1, <2>2
  <1>7. records' \in [Name -> RecordOf \cup {Unset}]
    <2>1. CASE writes
      <3>1. [id |-> id, ip |-> view.desired] \in RecordOf
        BY <1>3, <1>5, <2>1 DEF RecordOf
      <3>. QED  BY <1>1, <1>4, <2>1, <3>1 DEF BindingVarsOK
    <2>2. CASE ~writes
      BY <1>1, <2>2 DEF BindingVarsOK
    <2>. QED  BY <2>1, <2>2
  <1>8. /\ outcome \in SyncOutcome /\ phase \in {"verify", "complete"}
        /\ phase = "verify" \/ outcome.error = "none" => outcome.ip = sweep.task.desired
    <2>1. CASE ~mine \/ result = "denied"
      BY <2>1 DEF Nothing, ProviderAnswer, SyncOutcome
    <2>2. CASE mine /\ result = "ok"
      <3>1. id \in RecordID /\ outcome = ProviderAnswer(id, view.desired, "none")
        BY <1>5, <2>2
      <3>. QED  BY <1>3, <3>1 DEF ProviderAnswer, SyncOutcome
    <2>3. CASE mine /\ result # "denied" /\ result # "ok"
      BY <2>3 DEF Nothing, ProviderAnswer, SyncOutcome
    <2>. QED  BY <2>1, <2>2, <2>3
  <1>9. /\ Forward /\ WantedStays
        /\ BindingsOK' /\ NameOnce' /\ TasksOK' /\ SyncedIsConfirmed' /\ StoppedStaysQuiet'
    BY <1>1, NoCommitKeeps
  <1>s. sweep' = [sweep EXCEPT !.phase = phase, !.outcome = outcome]
    BY <1>1
  <1>a. Applying /\ tasks' \subseteq tasks
    BY <1>1 DEF Applying
  <1> HIDE DEF phase, outcome
  <1>10. /\ sweep' \in [phase : {"idle", "visit", "process", "apply", "verify", "complete"},
                        view : [Binding -> BindingRecord], left : SUBSET Binding, queue : SUBSET Task,
                        task : Task \cup {Unset}, outcome : SyncOutcome]
         /\ ViewOK' /\ ApplyOK' /\ QueueOK'
    BY <1>8, <1>9, <1>s, <1>a, ApplyingStays
  <1>11. EnableOK' /\ CreateOK'
    BY <1>1, <1>9, EnableForward DEF CreateOK
  <1>12. BindingVarsOK'
    BY <1>1, <1>2, <1>6, <1>7, <1>10 DEF BindingVarsOK
  <1>. QED  BY <1>9, <1>10, <1>11, <1>12

\* The record is read again; what was seen of a name that does not resolve is stored.
LEMMA VerifyRecordKeeps ==
    ASSUME BindingParts, NEW result \in {"ok", "unresolved", "unanswered"}, VerifyRecord(result)
    PROVE  BindingParts'
  <1>. USE DEF BindingParts
  <1> DEFINE b == sweep.task.binding
  <1> DEFINE view == sweep.view[b]
  <1> DEFINE there == records[view.name]
  <1> DEFINE same == there # Unset /\ there = [id |-> sweep.outcome.record, ip |-> view.desired]
  <1> DEFINE seen == IF result = "unanswered" THEN Nothing("retryable")
                     ELSE IF ~same THEN Nothing("final")
                     ELSE IF result = "unresolved" THEN [sweep.outcome EXCEPT !.error = "retryable"]
                     ELSE sweep.outcome
  <1> DEFINE stored == seen.error # "none" /\ seen.record # Unset
  <1>1. /\ UNCHANGED <<records, recordCount, enabling>> /\ sweep.phase = "verify"
        /\ IF stored THEN RecordObservation(b, sweep.task.revision, seen, "failed") ELSE NoCommit
        /\ sweep' = IF stored /\ bindings[b].revision # sweep.task.revision
                    THEN [IdleSweep EXCEPT !.phase = "process", !.queue = sweep.queue]
                    ELSE [sweep EXCEPT !.phase = "complete", !.outcome = seen]
    BY DEF VerifyRecord, SweepUnchanged
  <1>2. dnsFaults' \in 0 .. MaxDNSFault
    BY DomainBindingAssumption DEF VerifyRecord, DNSFault, BindingVarsOK
  <1>3. /\ sweep.task \in Task /\ b \in Binding /\ Applying
        /\ sweep.task.revision = bindings[b].revision => bindings[b].state = "enabled"
        /\ sweep.outcome \in SyncOutcome /\ sweep.outcome.ip = sweep.task.desired
    BY <1>1 DEF ApplyOK, Applying, Task, BindingVarsOK
  <1>4. seen \in SyncOutcome /\ (seen.error = "none" => seen.ip = sweep.task.desired)
    <2>1. CASE result = "unanswered" \/ ~same
      BY <2>1 DEF Nothing, ProviderAnswer, SyncOutcome
    <2>2. CASE same /\ result = "unresolved"
      BY <1>3, <2>2 DEF SyncOutcome
    <2>3. CASE same /\ result = "ok"
      BY <1>3, <2>3
    <2>. QED  BY <2>1, <2>2, <2>3
  <1>5. seen.record \in RecordID \cup {Unset} /\ seen.ip \in Address \cup {Unset}
    BY <1>4 DEF SyncOutcome
  <1> HIDE DEF seen
  <1>6. /\ Forward /\ WantedStays /\ tasks' = tasks /\ creating' \in {creating, NoCreate}
        /\ BindingsOK' /\ NameOnce' /\ TasksOK' /\ SyncedIsConfirmed' /\ StoppedStaysQuiet'
    <2>1. CASE stored
      <3>1. RecordObservation(b, sweep.task.revision, seen, "failed")
        BY <1>1, <2>1
      <3> HIDE DEF b
      <3>. QED  BY <1>3, <1>5, <3>1, RecordObservationKeeps
    <2>2. CASE ~stored
      <3>1. UNCHANGED <<bindings, tasks, creating>>
        BY <1>1, <2>2 DEF NoCommit
      <3>. QED  BY <3>1, NoCommitKeeps
    <2>. QED  BY <2>1, <2>2
  <1>7. /\ sweep' \in [phase : {"idle", "visit", "process", "apply", "verify", "complete"},
                       view : [Binding -> BindingRecord], left : SUBSET Binding, queue : SUBSET Task,
                       task : Task \cup {Unset}, outcome : SyncOutcome]
        /\ ViewOK' /\ ApplyOK' /\ QueueOK'
    <2>1. CASE stored /\ bindings[b].revision # sweep.task.revision
      <3>1. sweep' = [phase |-> "process", view |-> [c \in Binding |-> NoBinding], left |-> {},
                      queue |-> sweep.queue, task |-> Unset, outcome |-> Nothing("none")]
        BY <1>1, <2>1 DEF IdleSweep
      <3>2. sweep.queue \in SUBSET sweep.queue /\ "process" \in {"idle", "process"}
        OBVIOUS
      <3>. QED  BY <1>6, <3>1, <3>2, BackToQueue
    <2>2. CASE ~(stored /\ bindings[b].revision # sweep.task.revision)
      <3>1. sweep' = [sweep EXCEPT !.phase = "complete", !.outcome = seen]
        BY <1>1, <2>2
      <3>2. tasks' \subseteq tasks /\ "complete" \in {"verify", "complete"}
        BY <1>6
      <3>. QED  BY <1>3, <1>4, <1>6, <3>1, <3>2, ApplyingStays
    <2>. QED  BY <2>1, <2>2
  <1>8. EnableOK' /\ CreateOK'
    BY <1>1, <1>6, EnableForward DEF CreateOK
  <1>9. BindingVarsOK'
    BY <1>1, <1>2, <1>6, <1>7 DEF BindingVarsOK, NoCreate
  <1>. QED  BY <1>6, <1>7, <1>8, <1>9

\* CompleteReconcileTask takes a result for the present task and address only.
LEMMA CompleteTaskKeeps ==
    ASSUME BindingParts, CompleteTask
    PROVE  BindingParts'
  <1>. USE DEF BindingParts
  <1> DEFINE seen == sweep.outcome
  <1>1. PICK t \in Task : t = sweep.task
    BY DEF CompleteTask, ApplyOK, Applying
  <1> DEFINE b == t.binding
  <1> DEFINE tries == [t EXCEPT !.attempts = t.attempts + 1,
                                !.status = IF seen.error = "retryable" /\ t.attempts + 1 < MaxAttempt
                                           THEN "pending" ELSE "failed"]
  <1>2. /\ UNCHANGED <<records, recordCount, enabling, dnsFaults>> /\ sweep.phase = "complete" /\ Applying
        /\ sweep' = [phase |-> "process", view |-> [c \in Binding |-> NoBinding], left |-> {},
                     queue |-> sweep.queue, task |-> Unset, outcome |-> Nothing("none")]
    BY DEF CompleteTask, SweepUnchanged, Applying, IdleSweep
  <1>3. /\ Fits(t) /\ t.attempts < MaxAttempt /\ b \in Binding /\ seen \in SyncOutcome
        /\ seen.error = "none" => seen.ip = t.desired
        /\ bindings[b] \in BindingRecord /\ t.desired \in Address /\ t.desired # Unset
    BY <1>1, <1>2, DomainBindingAssumption DEF ApplyOK, Task, BindingVarsOK, BindingsOK
  <1>4. /\ Forward /\ WantedStays /\ creating' \in {creating, NoCreate}
        /\ BindingsOK' /\ NameOnce' /\ TasksOK' /\ SyncedIsConfirmed' /\ StoppedStaysQuiet'
        /\ \A k \in tasks' : k \in tasks \/ SameTask(k, t)
    <2>1. CASE ~ResultApplies(t)
      <3>1. UNCHANGED <<bindings, tasks, creating>>
        BY <1>1, <2>1 DEF CompleteTask, NoCommit
      <3>. QED  BY <3>1, NoCommitKeeps
    <2>2. CASE ResultApplies(t)
      <3>1. Current(t) /\ bindings[b].desired = t.desired /\ bindings[b].state = "enabled"
        BY <1>3, <2>2 DEF ResultApplies, Current, Fits
      <3> DEFINE r == IF seen.error = "none"
                      THEN [bindings[b] EXCEPT !.record = seen.record, !.ip = seen.ip,
                                               !.applied = t.desired, !.runtime = "synced"]
                      ELSE [bindings[b] EXCEPT !.runtime = "failed"]
      <3>2. /\ bindings' = [bindings EXCEPT ![b] = r] /\ creating' = NoCreate
            /\ tasks' = IF seen.error = "none" THEN tasks \ TaskNow(t) ELSE (tasks \ TaskNow(t)) \cup {tries}
        <4>1. CASE seen.error = "none"
          BY <1>1, <2>2, <4>1 DEF CompleteTask, Commit, BindingsOK
        <4>2. CASE seen.error # "none"
          BY <1>1, <2>2, <4>2 DEF CompleteTask, Commit, BindingsOK
        <4>. QED  BY <4>1, <4>2
      <3>3. /\ r \in BindingRecord /\ r.state = bindings[b].state /\ r.name = bindings[b].name
            /\ r.revision = bindings[b].revision /\ r.desired = bindings[b].desired
            /\ r.runtime = "synced" => r.applied = t.desired /\ r.ip = t.desired
        <4>1. CASE seen.error = "none"
          BY <1>3, <4>1 DEF BindingRecord, SyncOutcome
        <4>2. CASE seen.error # "none"
          BY <1>3, <4>2 DEF BindingRecord
        <4>. QED  BY <4>1, <4>2
      <3> HIDE DEF r
      <3>4. BindingsOK' /\ OnlyObserved /\ bindings'[b] = r /\ \A c \in Binding : c # b => bindings'[c] = bindings[c]
        <4> HIDE DEF b
        <4>. QED  BY <1>3, <3>2, <3>3, ObservedEffect
      <3>5. /\ Forward /\ WantedStays /\ NameOnce'
            /\ \A k \in Task : (Fits(k)' <=> Fits(k)) /\ (Current(k)' <=> Current(k))
        BY <3>4, OnlyObservedKeeps
      <3>6. SyncedIsConfirmed' /\ StoppedStaysQuiet'
        BY <1>3, <3>1, <3>3, <3>4 DEF SyncedIsConfirmed, StoppedStaysQuiet
      <3>7. PICK w : w = tries
        OBVIOUS
      <3>8. /\ w \in Task /\ w.binding = b /\ w.revision = t.revision /\ w.desired = t.desired
            /\ Active(w) => w.attempts < MaxAttempt
        <4>1. t.attempts + 1 \in 0 .. MaxAttempt
          BY <1>3, DomainBindingAssumption DEF Task
        <4>2. (IF seen.error = "retryable" /\ t.attempts + 1 < MaxAttempt THEN "pending" ELSE "failed")
                 \in {"pending", "failed"}
          OBVIOUS
        <4>3. w.attempts = t.attempts + 1 /\ w.status = IF seen.error = "retryable" /\ t.attempts + 1 < MaxAttempt
                                                       THEN "pending" ELSE "failed"
          BY <3>7 DEF Task
        <4>4. w \in Task /\ w.binding = b /\ w.revision = t.revision /\ w.desired = t.desired
          BY <3>7, <4>1, <4>2 DEF Task
        <4>. QED  BY <4>3, <4>4 DEF Active
      <3>9. tasks' \subseteq (tasks \ TaskNow(t)) \cup {w}
        BY <3>2, <3>7
      <3> HIDE DEF tries
      <3>10. Fits(w)' /\ Current(w)'
        <4>1. Fits(w) /\ Current(w)
          BY <1>3, <3>1, <3>8 DEF Fits, Current
        <4>. QED  BY <3>5, <3>8, <4>1
      <3>11. \A k \in tasks \ TaskNow(t) : ~SameTask(k, w) /\ ~SameTask(w, k)
        BY <3>8 DEF TaskNow, SameTask
      <3>12. TasksOK'
        <4>1. tasks' \in SUBSET Task
          BY <3>8, <3>9 DEF TasksOK
        <4>2. \A k \in tasks : Fits(k)' /\ (Active(k) => Current(k)' /\ k.attempts < MaxAttempt)
          BY <3>5 DEF TasksOK
        <4>3. \A k, l \in tasks' : SameTask(k, l) => k = l
          BY <3>9, <3>11 DEF TasksOK
        <4>. QED  BY <3>8, <3>9, <3>10, <4>1, <4>2, <4>3 DEF TasksOK, Active, SameTask
      <3>13. \A k \in tasks' : k \in tasks \/ SameTask(k, t)
        BY <3>8, <3>9 DEF SameTask
      <3>. QED  BY <3>2, <3>4, <3>5, <3>6, <3>12, <3>13
    <2>. QED  BY <2>1, <2>2
  <1>5. /\ sweep' \in [phase : {"idle", "visit", "process", "apply", "verify", "complete"},
                       view : [Binding -> BindingRecord], left : SUBSET Binding, queue : SUBSET Task,
                       task : Task \cup {Unset}, outcome : SyncOutcome]
        /\ ViewOK' /\ ApplyOK' /\ QueueOK'
    <2>1. sweep.queue \in SUBSET sweep.queue /\ "process" \in {"idle", "process"}
      OBVIOUS
    <2>2. \A q \in sweep.queue, k \in tasks' : SameTask(q, k) => k \in tasks
      BY <1>1, <1>2, <1>4 DEF QueueOK, SameTask
    <2>. QED  BY <1>2, <1>4, <2>1, <2>2, BackToQueue
  <1>6. EnableOK' /\ CreateOK'
    BY <1>2, <1>4, EnableForward DEF CreateOK
  <1>7. BindingVarsOK'
    BY <1>2, <1>4, <1>5 DEF BindingVarsOK, NoCreate
  <1>. QED  BY <1>4, <1>5, <1>6, <1>7

----------------------------------------------------------------------------
(* The theorems.                                                           *)

\* Nothing is bound yet.
LEMMA BindingInitOK ==
    BindingInit => BindingParts
  <1>. SUFFICES ASSUME BindingInit PROVE BindingParts
    OBVIOUS
  <1>. USE DEF BindingInit
  <1>1. NoBinding \in BindingRecord /\ Named(NoBinding) /\ NoBinding.state = "none"
        /\ NoBinding.runtime = "waiting_report"
    BY DomainBindingAssumption DEF NoBinding, BindingRecord, Named
  <1>2. BindingsOK /\ NameOnce /\ SyncedIsConfirmed /\ StoppedStaysQuiet
    BY <1>1 DEF BindingsOK, NameOnce, Live, SyncedIsConfirmed, StoppedStaysQuiet
  <1>3. BindingVarsOK
    BY <1>1, DomainBindingAssumption
    DEF BindingVarsOK, IdleSweep, NoCreate, NoEnable, Nothing, ProviderAnswer, SyncOutcome
  <1>4. TasksOK /\ EnableOK /\ CreateOK
    BY DEF TasksOK, EnableOK, CreateOK
  <1>5. ViewOK /\ ApplyOK /\ QueueOK
    BY <1>1 DEF ViewOK, ApplyOK, QueueOK, Applying, IdleSweep
  <1>. QED  BY <1>2, <1>3, <1>4, <1>5 DEF BindingParts

\* Every step of a request, the sweep, the provider or a crash keeps the invariant.
LEMMA BindingStepKeeps ==
    ASSUME BindingParts, [BindingNext]_bindingVars
    PROVE  BindingParts'
  <1>1. CASE RequestStep
    BY <1>1, PreflightBindingKeeps, BeginEnableKeeps, CreateBindingKeeps, AdoptRecordKeeps,
       FinishEnableKeeps, StopBindingKeeps DEF RequestStep
  <1>2. CASE SweepStep
    <2>1. ASSUME NEW b \in Binding, VisitStep(b) PROVE BindingParts'
      BY <2>1, VisitObservingKeeps, VisitUnauthorizedKeeps, VisitNoAddressKeeps, VisitAddressKeeps
      DEF VisitStep
    <2>2. ASSUME NEW t \in sweep.queue, ProcessTask(t) PROVE BindingParts'
      <3>1. t \in Task
        BY DEF BindingParts, BindingVarsOK
      <3>. QED  BY <2>2, <3>1, ProcessTaskKeeps
    <2>. QED  BY <1>2, <2>1, <2>2, BeginSweepKeeps, RecoverTasksKeeps, ApplyRecordKeeps,
              VerifyRecordKeeps, CompleteTaskKeeps, EndSweepKeeps DEF SweepStep
  <1>3. CASE OutsideStep
    BY <1>3, OutsideKeeps DEF OutsideStep
  <1>4. CASE BindingCrash
    BY <1>4, BindingCrashKeeps
  <1>5. CASE UNCHANGED bindingVars
    BY <1>5 DEF bindingVars, BindingParts, BindingsOK, BindingVarsOK, NameOnce, Live, TasksOK, Fits,
       Active, Current, SameTask, ViewOK, ApplyOK, QueueOK, Applying, EnableOK, CreateOK,
       SyncedIsConfirmed, StoppedStaysQuiet
  <1>. QED  BY <1>1, <1>2, <1>3, <1>4, <1>5 DEF BindingNext

\* The bindings, their tasks, the sweep and the requests agree, whatever interleaves.
THEOREM BindingInvariant == BindingSpec => []BindingParts
  <1>1. BindingInit => BindingParts
    BY BindingInitOK
  <1>2. BindingParts /\ [BindingNext]_bindingVars => BindingParts'
    BY BindingStepKeeps
  <1>. QED  BY <1>1, <1>2, PTL DEF BindingSpec

\* A name is given once, and what is queued of a binding is one task at most, for its
\* present revision and address: no disable, delete or new address leaves one behind.
THEOREM BindingsConsistent == BindingSpec => []BindingInv
  <1>1. BindingParts => BindingInv
    <2>. SUFFICES ASSUME BindingParts PROVE BindingInv
      OBVIOUS
    <2>. USE DEF BindingParts
    <2>1. BindingTypeOK
      BY DEF BindingTypeOK, BindingVarsOK, BindingsOK, TasksOK
    <2>2. ASSUME NEW b \in Binding
          PROVE  /\ Cardinality(ActiveOf(b)) <= 1
                 /\ \A t \in ActiveOf(b) : Current(t) /\ t.desired = bindings[b].desired
      <3>1. \A t \in ActiveOf(b) : Current(t) /\ t.desired = bindings[b].desired
        BY DEF ActiveOf, TasksOK, Fits, Current
      <3>2. \A t, k \in ActiveOf(b) : t = k
        BY DEF ActiveOf, TasksOK, SameTask, Current
      <3>3. CASE ActiveOf(b) = {}
        <4>1. Cardinality(ActiveOf(b)) = 0
          BY <3>3, FS_EmptySet, Zenon
        <4>. QED  BY <3>1, <4>1
      <3>4. CASE ActiveOf(b) # {}
        <4>1. PICK t : t \in ActiveOf(b)
          BY <3>4
        <4>2. ActiveOf(b) = {t}
          BY <3>2, <4>1
        <4>3. Cardinality(ActiveOf(b)) = 1
          BY <4>2, FS_Singleton, Zenon
        <4>. QED  BY <3>1, <4>3
      <3>. QED  BY <3>3, <3>4
    <2>3. ActiveTaskIsCurrent
      BY <2>2 DEF ActiveTaskIsCurrent
    <2>. QED  BY <2>1, <2>3 DEF BindingInv
  <1>. QED  BY <1>1, BindingInvariant, PTL

\* A binding that shows synced shows what the provider confirmed for the address it
\* wants, whichever sweep or request came between.
THEOREM SyncedConfirmed == BindingSpec => []SyncedIsConfirmed
  <1>1. BindingParts => SyncedIsConfirmed
    BY DEF BindingParts
  <1>. QED  BY <1>1, BindingInvariant, PTL

\* No result of a sweep that was under way shows in a binding that was stopped.
THEOREM StoppedQuiet == BindingSpec => []StoppedStaysQuiet
  <1>1. BindingParts => StoppedStaysQuiet
    BY DEF BindingParts
  <1>. QED  BY <1>1, BindingInvariant, PTL
=============================================================================
