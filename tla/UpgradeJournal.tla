--------------------------- MODULE UpgradeJournal ---------------------------
(***************************************************************************)
(* The transaction journal of an upgrade (internal/daemon/upgrade,         *)
(* journal.go): a file with a magic header to which AppendRecord appends   *)
(* one record at a time and which OpenJournal plays back, record by        *)
(* record, until the first one that is not whole.                          *)
(*                                                                         *)
(* A record carries its revision and the hash of the record before it.     *)
(* Hashes are taken to be injective, so a record stands for the chain of   *)
(* the fields appended up to it: its hash is the chain, the hash before it *)
(* the chain without its last element, its revision the chain's length.    *)
(* A torn record is a prefix of the bytes of one; records are shorter than *)
(* 64 KiB, so the bytes that follow a torn one are read as its body and    *)
(* fail its checksum, and never as a length beyond MaxRecordBytes.         *)
(***************************************************************************)
EXTENDS Naturals, Sequences

CONSTANTS
    Fields,           \* what a record may carry
    NoHeader,         \* the journal has no file
    MaxRecords,       \* calls of AppendRecord
    MaxJournalFault,  \* writes and syncs that fail
    MaxOpen           \* starts of the process

ASSUME JournalAssumption ==
    /\ MaxRecords \in Nat /\ MaxJournalFault \in Nat /\ MaxOpen \in Nat
    /\ NoHeader \notin BOOLEAN

VARIABLES
    header,       \* the file's magic: no file, whole (TRUE) or damaged (FALSE)
    records,      \* the records behind it: [whole, chain]
    opened,       \* a process has the journal open, or was refused
    chain,        \* state.LastRecordHash, and its length LastJournalRevision
    applied,      \* the fields the state was built from, in order
    acked,        \* the chain of the last append that returned without error
    appends, journalFaults, opens

journalVars == <<header, records, opened, chain, applied, acked, appends,
                 journalFaults, opens>>

JournalInit ==
    /\ header = NoHeader
    /\ records = <<>>
    /\ opened = "closed"
    /\ chain = <<>>
    /\ applied = <<>>
    /\ acked = <<>>
    /\ appends = 0 /\ journalFaults = 0 /\ opens = 0

\* playback: the records up to the first that is not whole; a record whose
\* previous hash is not the hash of the one before it is an error, except for
\* the first.
Readable == {n \in 0 .. Len(records) : \A i \in 1 .. n : records[i].whole}

\* A mutation: the hashes are not compared.
ChainHolds_Unchecked(n) == TRUE

ChainHolds(n) ==
    \A i \in 2 .. n : LET c == records[i].chain
                      IN  SubSeq(c, 1, Len(c) - 1) = records[i - 1].chain

LastOf(c) == c[Len(c)]

\* OpenJournal.  A file that ends within the header counts as empty; any other
\* damage to the header, and a broken chain, is refused.
OpenJournal ==
    \E n \in Readable :
        /\ \A m \in Readable : m <= n
        /\ opened = "closed"
        /\ opens < MaxOpen
        /\ opens' = opens + 1
        /\ UNCHANGED <<header, records, acked, appends, journalFaults>>
        /\ IF header = NoHeader \/ (header = FALSE /\ records = <<>>)
           THEN opened' = "open" /\ chain' = <<>> /\ applied' = <<>>
           ELSE IF header = FALSE \/ ~ChainHolds(n)
           THEN opened' = "refused" /\ UNCHANGED <<chain, applied>>
           ELSE /\ opened' = "open"
                /\ chain' = IF n = 0 THEN <<>> ELSE records[n].chain
                /\ applied' = [i \in 1 .. n |-> LastOf(records[i].chain)]

Written(next, whole) == Append(records, [whole |-> whole, chain |-> next])

\* AppendRecord: a new file gets the header first; the record is written and
\* synced; memory follows only when all of it succeeded.  A write that fails
\* may leave a part of what it wrote ("torn"), a failed sync all of it.
AppendRecord(f, result) ==
    LET next == Append(chain, f)
    IN  /\ opened = "open"
        /\ appends < MaxRecords
        /\ appends' = appends + 1
        /\ journalFaults' = journalFaults + (IF result = "ok" THEN 0 ELSE 1)
        /\ journalFaults' <= MaxJournalFault
        /\ result = "header" => header = NoHeader
        /\ header' = IF header # NoHeader THEN header ELSE result # "header"
        /\ records' = CASE result = "ok" \/ result = "sync" -> Written(next, TRUE)
                        [] result = "torn" -> Written(next, FALSE)
                        [] OTHER -> records
        /\ IF result = "ok"
           THEN chain' = next /\ applied' = Append(applied, f) /\ acked' = next
           ELSE UNCHANGED <<chain, applied, acked>>
        /\ UNCHANGED <<opened, opens>>

\* The process ends between two calls, or within one (as the failed write with
\* the same bytes on disk).
CloseJournal ==
    /\ opened = "open"
    /\ opened' = "closed"
    /\ chain' = <<>> /\ applied' = <<>>
    /\ UNCHANGED <<header, records, acked, appends, journalFaults, opens>>

JournalNext ==
    \/ OpenJournal
    \/ \E f \in Fields, result \in {"ok", "header", "none", "torn", "sync"} :
            AppendRecord(f, result)
    \/ CloseJournal

JournalSpec == JournalInit /\ [][JournalNext]_journalVars

-----------------------------------------------------------------------------
\* Every variable keeps its type; revisions are those of the calls made.
JournalTypeOK ==
    /\ header \in BOOLEAN \cup {NoHeader}
    /\ records \in Seq([whole: BOOLEAN, chain: Seq(Fields) \ {<<>>}])
    /\ opened \in {"closed", "open", "refused"}
    /\ chain \in Seq(Fields) /\ applied \in Seq(Fields) /\ acked \in Seq(Fields)
    /\ Len(chain) <= appends /\ Len(records) <= appends
    /\ appends \in 0 .. MaxRecords /\ journalFaults \in 0 .. MaxJournalFault
    /\ opens \in 0 .. MaxOpen

\* The state a process works with is built from exactly the records its last
\* hash vouches for: no failed append, torn record or crash between two calls
\* makes playback apply a record twice, skip one or apply one of a fork.
StateMatchesChain == opened = "open" => applied = chain

\* The types, and the state the journal vouches for.
JournalInv ==
    /\ JournalTypeOK
    /\ StateMatchesChain

\* The comment of AppendRecord: a record it returned for is on disk, and a
\* later process reads it back.
\* The code does not keep it: a record written behind a torn one, or behind a damaged
\* header, is never reached.
AckedIsReadBack ==
    [][OpenJournal => /\ opened' = "open"
                      /\ Len(acked) <= Len(chain')]_journalVars
=============================================================================
