-------------------------- MODULE CommandExecution --------------------------
(***************************************************************************)
(* What an agent promises to whoever sent it commands, whatever is         *)
(* delivered twice, cannot be written, gets lost or dies on the way.       *)
(* Commands that must not be repeated (shutdowns) run at most once, and    *)
(* once the server has a definite answer of one it does not run any more;  *)
(* the others may be applied again.  Only what ran is reported as a        *)
(* success, a failure that was never tried is reported only of a shutdown  *)
(* or of a payload that does not parse, and the first answer stays.        *)
(***************************************************************************)
EXTENDS Naturals

CONSTANTS
    ID,             \* commands
    Once,           \* those that must not run twice
    Unreadable,     \* those whose payload does not parse
    Outcome,        \* what an agent can report
    NoAnswer

VARIABLES
    runs,           \* how often each command ran
    answer          \* the answer the server has recorded for it

ExecutionInit ==
    /\ runs = [id \in ID |-> 0]
    /\ answer = [id \in ID |-> NoAnswer]

\* The answers that say what became of a command.
Definite == Outcome \ {"uncertain"}

MayRun(id) ==
    /\ id \notin Unreadable
    /\ id \in Once => runs[id] = 0 /\ answer[id] \notin Definite

Run(id) ==
    /\ MayRun(id)
    /\ runs' = [runs EXCEPT ![id] = @ + 1]
    /\ UNCHANGED answer

\* An agent does not know only of what must not run twice: the others it
\* would rather run again than leave open.
MayReport(id, outcome) ==
    /\ answer[id] = NoAnswer
    /\ outcome = "succeeded" => runs[id] > 0
    /\ outcome = "failed" => runs[id] > 0 \/ id \in Once \cup Unreadable
    /\ outcome = "uncertain" => id \in Once

Report(id, outcome) ==
    /\ MayReport(id, outcome)
    /\ answer' = [answer EXCEPT ![id] = outcome]
    /\ UNCHANGED runs

ExecutionNext == \E id \in ID : Run(id) \/ \E outcome \in Outcome : Report(id, outcome)

ExecutionSpec == ExecutionInit /\ [][ExecutionNext]_<<runs, answer>>
=============================================================================
