-------------------------- MODULE CommandLifecycle --------------------------
(***************************************************************************)
(* What the command service promises about the life of one command, by the *)
(* transition table of the repository (valid), as it looks to an           *)
(* administrator: a command waits, is out for delivery, may be running on  *)
(* the device, and is then closed exactly once, either with the outcome    *)
(* the device reported or with a verdict of the server.  A restart closes  *)
(* every open command at once; a closed command may be forgotten.          *)
(***************************************************************************)
CONSTANTS
    ID,         \* command IDs
    Outcome,    \* what a device can report
    NoOutcome,
    Verdict     \* the ways the server closes a command by itself

VARIABLES
    phase,      \* the phase of each command
    outcome     \* the outcome recorded for it

Open == {"waiting", "out", "running"}
Closed == {"reported"} \cup Verdict

LifecycleInit ==
    /\ phase = [id \in ID |-> "absent"]
    /\ outcome = [id \in ID |-> NoOutcome]

Moves == {<<"absent", "waiting">>, <<"waiting", "out">>, <<"out", "waiting">>,
          <<"out", "running">>}

\* The moves of an open command, and how one is closed.  A running command
\* is closed by its report, its deadline or a restart: it cannot be canceled.
May(from, to) ==
    \/ <<from, to>> \in Moves
    \/ from \in {"out", "running"} /\ to \in {"reported", "timed_out"}
    \/ from \in {"waiting", "out"} /\ to = "canceled"
    \/ from = "out" /\ to = "legacy_untracked"

\* One command moves; closed commands may be forgotten in the same write.
Advance(id, to) ==
    /\ May(phase[id], to)
    /\ \E gone \in SUBSET {x \in ID : phase[x] \in Closed \/ (x = id /\ to \in Closed)} :
          phase' = [x \in ID |-> IF x \in gone THEN "forgotten"
                                 ELSE IF x = id THEN to ELSE phase[x]]
    /\ IF to = "reported"
       THEN \E o \in Outcome : outcome' = [outcome EXCEPT ![id] = o]
       ELSE UNCHANGED outcome

\* A write that moves no command may still forget closed ones.
Forget ==
    /\ \E gone \in SUBSET {x \in ID : phase[x] \in Closed} :
          phase' = [x \in ID |-> IF x \in gone THEN "forgotten" ELSE phase[x]]
    /\ UNCHANGED outcome

Restart ==
    /\ \E gone \in SUBSET {x \in ID : phase[x] \in Open \cup Closed} :
          phase' = [x \in ID |-> IF x \in gone THEN "forgotten"
                                 ELSE IF phase[x] \in Open THEN "interrupted" ELSE phase[x]]
    /\ UNCHANGED outcome

LifecycleNext ==
    \/ \E id \in ID, to \in Open \cup Closed : Advance(id, to)
    \/ Forget
    \/ Restart

LifecycleSpec == LifecycleInit /\ [][LifecycleNext]_<<phase, outcome>>
=============================================================================
