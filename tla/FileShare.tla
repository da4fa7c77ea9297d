------------------------------ MODULE FileShare ------------------------------
(***************************************************************************)
(* Shared files, their download links, and the tokens that give scripts    *)
(* access to them.                                                         *)
(*                                                                         *)
(* internal/fileshare/service.go keeps records and links in memory and in  *)
(* metadata.json and the contents as objects next to it; an upload streams *)
(* into a partial file, reserving quota chunk by chunk, and is committed   *)
(* under the lock: rename, record, write.  A start drops what metadata and *)
(* objects do not agree on.  internal/fileaccess/service.go keeps the      *)
(* tokens; an upload or a link made with a token is committed under the    *)
(* token's lock, after the token was checked once more.                    *)
(***************************************************************************)
EXTENDS Naturals, FiniteSets, FiniteSetsExt

CONSTANTS
    File, Link, Upload, FileToken,   \* IDs, never used twice
    NoLink, NoCredential,
    Quota,             \* bytes the service may store
    TokenLimit,        \* active tokens of one user
    MaxAccountVersion, \* bound: session version of the user
    MaxShareFault,     \* bound: operations on files that fail
    MaxShareStart      \* bound: starts of the server

ASSUME FileShareAssumption ==
    /\ Quota \in Nat /\ TokenLimit \in Nat \ {0} /\ MaxAccountVersion \in Nat \ {0}
    /\ MaxShareFault \in Nat /\ MaxShareStart \in Nat
    /\ NoCredential \notin FileToken /\ IsFiniteSet(File) /\ IsFiniteSet(Upload)

VARIABLES
    files,         \* state.Files: status and size
    links,         \* state.Links
    objects,       \* blobs on disk
    metadata,      \* metadata.json: [files, links]
    used, reserved,
    uploads,       \* uploads in flight
    usedIDs,       \* files that were ever stored
    pastFiles,     \* files whose retention is over
    fileTokens,    \* fileaccess.Service.tokens
    tokenFile,     \* file-access-tokens.json
    minting,       \* the token Create is about to return; Create holds the lock
    account,       \* the user behind the tokens: [active, version]
    serving,       \* the server is up
    deadLinks,     \* history: links whose end was confirmed
    condemned,     \* history: files whose deletion stopped at the object
    lateCommit,    \* history: a commit with a token whose revocation was confirmed
    shareStarts, shareFaults

shareVars == <<files, links, objects, metadata, used, reserved, uploads, usedIDs, pastFiles,
               fileTokens, tokenFile, minting, account, serving, deadLinks, condemned, lateCommit,
               shareStarts, shareFaults>>
tokenVars == <<fileTokens, tokenFile, minting, account>>

NoRecordOf == [status |-> "none", size |-> 0]
FileRecord == [status : {"none", "ready", "delete_failed"}, size : 0 .. Quota]
LinkRecord == [file : File, revoked : BOOLEAN]
NoMint == [status |-> "none", version |-> 0]
TokenRecord == [status : {"none", "issued", "revoked"}, version : 0 .. MaxAccountVersion]
IdleUpload == [active |-> FALSE, acquired |-> 0, credential |-> NoCredential]

SizeOf(table, S) == FoldSet(LAMBDA f, n : n + table[f].size, 0, S)
Stored(table) == {f \in File : table[f].status # "none"}

ShareInit ==
    /\ files = [f \in File |-> NoRecordOf] /\ links = [l \in Link |-> NoLink]
    /\ metadata = [files |-> files, links |-> links]
    /\ objects = {} /\ used = 0 /\ reserved = 0 /\ usedIDs = {} /\ pastFiles = {}
    /\ uploads = [u \in Upload |-> IdleUpload]
    /\ fileTokens = [t \in FileToken |-> NoMint] /\ tokenFile = fileTokens /\ minting = NoCredential
    /\ account = [active |-> TRUE, version |-> 1]
    /\ serving = FALSE /\ deadLinks = {} /\ condemned = {} /\ lateCommit = FALSE /\ shareStarts = 0 /\ shareFaults = 0

\* IDs are random; which of the unused ones it is makes no difference.
IsFresh(id, unused) == id \in unused /\ id = CHOOSE x \in unused : TRUE

Fault(n) == shareFaults + n <= MaxShareFault /\ shareFaults' = shareFaults + n
Faults(bad) == Fault(IF bad THEN 1 ELSE 0)

\* persistLocked
PersistShare(ok) ==
    metadata' = IF ok THEN [files |-> files', links |-> links'] ELSE metadata

LinksOf(f) == {l \in Link : links[l] # NoLink /\ links[l].file = f}
DropLinks(f) == [l \in Link |-> IF l \in LinksOf(f) THEN NoLink ELSE links[l]]

----------------------------------------------------------------------------
(* Start and crash.                                                        *)

UsedAfterStart(table) == SizeOf(table, Stored(table))

\* A mutation: records are kept without their object.
Recovered_All == Stored(metadata.files)

\* A mutation: an empty object is taken for a missing one.
Recovered_NonEmpty == {f \in Stored(metadata.files) : f \in objects /\ metadata.files[f].size > 0}

Recovered == {f \in Stored(metadata.files) : f \in objects}

\* Open: load and recover.  Records without an object and objects without a record
\* go, every record that stays is ready, whatever it was before.  An object that Stat
\* cannot look at counts as missing: `kept' are the records it found an object for.
OpenShare(ok, kept) ==
    LET dropped == Stored(metadata.files) # kept
    IN
    /\ ~serving /\ shareStarts < MaxShareStart /\ shareStarts' = shareStarts + 1
    /\ files' = [f \in File |-> IF f \in kept THEN [metadata.files[f] EXCEPT !.status = "ready"]
                                              ELSE NoRecordOf]
    /\ links' = [l \in Link |-> IF metadata.links[l] # NoLink /\ metadata.links[l].file \in kept
                                THEN metadata.links[l] ELSE NoLink]
    /\ objects' = objects \cap kept /\ used' = UsedAfterStart(files') /\ reserved' = 0
    /\ Faults(~ok \/ kept # Recovered) /\ (ok \/ dropped)
    /\ PersistShare(ok /\ dropped)
    /\ serving' = ok
    /\ fileTokens' = tokenFile /\ minting' = NoCredential
    /\ UNCHANGED <<uploads, usedIDs, pastFiles, tokenFile, account, deadLinks, condemned, lateCommit>>

CrashShare ==
    /\ serving /\ serving' = FALSE /\ uploads' = [u \in Upload |-> IdleUpload]
    /\ UNCHANGED <<files, links, objects, metadata, used, reserved, usedIDs, pastFiles, tokenVars,
                   deadLinks, condemned, lateCommit, shareStarts, shareFaults>>

----------------------------------------------------------------------------
(* Tokens.                                                                 *)

\* validate
TokenValid(t) ==
    fileTokens[t].status = "issued" /\ account.active /\ fileTokens[t].version = account.version

ShareUnchanged == UNCHANGED <<files, links, objects, metadata, used, reserved, uploads, usedIDs,
                              pastFiles, serving, deadLinks, condemned, lateCommit, shareStarts>>

PersistTokens(ok) == Faults(~ok) /\ tokenFile' = IF ok THEN fileTokens' ELSE tokenFile

BelowLimit == Cardinality({t \in FileToken : TokenValid(t)}) < TokenLimit

\* Create, up to the first write; it keeps the lock of the service.
CreateFileToken(t, ok) ==
    /\ serving /\ minting = NoCredential /\ account.active /\ BelowLimit
    /\ IsFresh(t, {k \in FileToken : fileTokens[k].status = "none" /\ tokenFile[k].status = "none"})
    /\ fileTokens' = IF ok THEN [fileTokens EXCEPT ![t] = [status |-> "issued", version |-> account.version]]
                           ELSE fileTokens
    /\ minting' = IF ok THEN t ELSE NoCredential
    /\ PersistTokens(ok) /\ UNCHANGED account /\ ShareUnchanged

\* Create looks at the user again and takes the token back if it changed.
FinishFileToken(ok) ==
    /\ serving /\ minting # NoCredential /\ minting' = NoCredential
    /\ IF TokenValid(minting)
       THEN ok /\ UNCHANGED <<fileTokens, tokenFile, shareFaults>>
       ELSE fileTokens' = [fileTokens EXCEPT ![minting] = NoMint] /\ PersistTokens(ok)
    /\ UNCHANGED account /\ ShareUnchanged

\* Revoke; a failed write is taken back.
RevokeFileToken(t, ok) ==
    /\ serving /\ minting = NoCredential /\ fileTokens[t].status = "issued"
    /\ fileTokens' = IF ok THEN [fileTokens EXCEPT ![t].status = "revoked"] ELSE fileTokens
    /\ PersistTokens(ok) /\ UNCHANGED <<minting, account>> /\ ShareUnchanged

\* The session manager changes the user without the service's lock (Accounts): every
\* change but enabling gives a new version.
AccountChanges(active) ==
    /\ serving
    /\ \/ account.version < MaxAccountVersion /\ account' = [active |-> active, version |-> account.version + 1]
       \/ active /\ ~account.active /\ account' = [account EXCEPT !.active = TRUE]
    /\ UNCHANGED <<fileTokens, tokenFile, minting, shareFaults>> /\ ShareUnchanged

----------------------------------------------------------------------------
(* Uploads and files.                                                      *)

\* uploadFile behind fileCredentialBoundary: a session, or a token that is valid now.
BeginUpload(u, c) ==
    /\ serving /\ ~uploads[u].active
    /\ c # NoCredential => minting = NoCredential /\ TokenValid(c)
    /\ uploads' = [uploads EXCEPT ![u] = [active |-> TRUE, acquired |-> 0, credential |-> c]]
    /\ UNCHANGED <<files, links, objects, metadata, used, reserved, usedIDs, pastFiles, tokenVars,
                   serving, deadLinks, condemned, lateCommit, shareStarts, shareFaults>>

\* quotaWriter.Write
WriteChunk(u) ==
    /\ serving /\ uploads[u].active /\ used + reserved + 1 <= Quota
    /\ reserved' = reserved + 1 /\ uploads' = [uploads EXCEPT ![u].acquired = uploads[u].acquired + 1]
    /\ UNCHANGED <<files, links, objects, metadata, used, usedIDs, pastFiles, tokenVars,
                   serving, deadLinks, condemned, lateCommit, shareStarts, shareFaults>>

Released(u) == reserved - uploads[u].acquired

\* A stream that breaks or finds no space.
AbortUpload(u) ==
    /\ serving /\ uploads[u].active
    /\ reserved' = Released(u) /\ uploads' = [uploads EXCEPT ![u] = IdleUpload]
    /\ UNCHANGED <<files, links, objects, metadata, used, usedIDs, pastFiles, tokenVars,
                   serving, deadLinks, condemned, lateCommit, shareStarts, shareFaults>>

\* A mutation: only the check at the start counts.
Guard_None(c) == c # NoCredential => minting = NoCredential

\* fileCommitGuard: Guard validates the token again and keeps its lock to the end.
Guard(c) == c # NoCredential => minting = NoCredential /\ TokenValid(c)

CommitUpload(u, f, result) ==
    LET n == uploads[u].acquired
        c == uploads[u].credential
    IN
    /\ serving /\ uploads[u].active /\ IsFresh(f, File \ usedIDs) /\ Guard(c)
    /\ usedIDs' = usedIDs \cup {f} /\ Faults(result # "ok")
    /\ lateCommit' = (lateCommit \/ (c # NoCredential /\ fileTokens[c].status = "revoked"))
    /\ uploads' = [w \in Upload |-> IF w = u \/ result = "crash" THEN IdleUpload ELSE uploads[w]]
    /\ reserved' = Released(u)
    /\ files' = IF result = "ok" THEN [files EXCEPT ![f] = [status |-> "ready", size |-> n]] ELSE files
    /\ used' = IF result = "ok" THEN used + n ELSE used
    /\ objects' = IF result = "failed" THEN objects ELSE objects \cup {f}
    /\ serving' = (result # "crash")
    /\ UNCHANGED links /\ PersistShare(result = "ok")
    /\ UNCHANGED <<pastFiles, tokenVars, deadLinks, condemned, shareStarts>>

\* A token that is no longer valid: the upload is dropped.
RefuseUpload(u) == ~Guard(uploads[u].credential) /\ AbortUpload(u)

\* Delete; "kept" is an object that cannot be removed: the record waits for another
\* try.  A failed write leaves the file deleted in memory.
DeleteFile(f, result) ==
    /\ serving /\ files[f].status # "none" /\ Faults(result # "ok")
    /\ links' = DropLinks(f)
    /\ files' = [files EXCEPT ![f] = IF result \in {"kept", "kept_unsaved"}
                                     THEN [files[f] EXCEPT !.status = "delete_failed"] ELSE NoRecordOf]
    /\ used' = IF result \in {"kept", "kept_unsaved"} THEN used ELSE used - files[f].size
    /\ objects' = IF result \in {"kept", "kept_unsaved"} THEN objects ELSE objects \ {f}
    /\ PersistShare(result \in {"ok", "kept"})
    /\ serving' = (result # "crash")
    /\ uploads' = IF result = "crash" THEN [u \in Upload |-> IdleUpload] ELSE uploads
    /\ deadLinks' = IF result = "ok" THEN deadLinks \cup LinksOf(f) ELSE deadLinks
    /\ condemned' = IF result = "kept" THEN condemned \cup {f}
                    ELSE IF result = "kept_unsaved" THEN condemned ELSE condemned \ {f}
    /\ UNCHANGED <<reserved, usedIDs, pastFiles, tokenVars, lateCommit, shareStarts>>

\* deleteFile, and the extra part of an upload that is refused.
DeleteRequested(f, result) == files[f].status = "ready" /\ DeleteFile(f, result)

\* CleanupExpired: files whose time is over, and those that could not be removed.
CleanupExpired(f, result) ==
    (f \in pastFiles \/ files[f].status = "delete_failed") /\ DeleteFile(f, result)

RetentionEnds(f) ==
    /\ f \in Stored(files) \ pastFiles /\ pastFiles' = pastFiles \cup {f}
    /\ UNCHANGED <<files, links, objects, metadata, used, reserved, uploads, usedIDs, tokenVars,
                   serving, deadLinks, condemned, lateCommit, shareStarts, shareFaults>>

----------------------------------------------------------------------------
(* Links.                                                                  *)

\* CreateLinkWithCommitGuard
CreateLink(l, f, c, ok) ==
    /\ serving /\ links[l] = NoLink /\ metadata.links[l] = NoLink /\ l \notin deadLinks
    /\ files[f].status = "ready" /\ f \notin pastFiles /\ Guard(c) /\ Faults(~ok)
    /\ links' = IF ok THEN [links EXCEPT ![l] = [file |-> f, revoked |-> FALSE]] ELSE links
    /\ lateCommit' = (lateCommit \/ (c # NoCredential /\ fileTokens[c].status = "revoked"))
    /\ UNCHANGED files /\ PersistShare(ok)
    /\ UNCHANGED <<objects, used, reserved, uploads, usedIDs, pastFiles, tokenVars, serving,
                   deadLinks, condemned, shareStarts>>

\* RevokeLink: revoked in memory even if the write fails.
RevokeLink(l, ok) ==
    /\ serving /\ links[l] # NoLink /\ Faults(~ok)
    /\ links' = [links EXCEPT ![l].revoked = TRUE]
    /\ deadLinks' = IF ok THEN deadLinks \cup {l} ELSE deadLinks
    /\ UNCHANGED files /\ PersistShare(ok)
    /\ UNCHANGED <<objects, used, reserved, uploads, usedIDs, pastFiles, tokenVars,
                   serving, condemned, lateCommit, shareStarts>>

\* What OpenFile and OpenPublicFile accept.
Opens(f) == serving /\ files[f].status = "ready" /\ f \notin pastFiles
OpensPublic(l) == links[l] # NoLink /\ ~links[l].revoked /\ Opens(links[l].file)

----------------------------------------------------------------------------
TokenStep(ok) ==
    \/ \E t \in FileToken : CreateFileToken(t, ok) \/ RevokeFileToken(t, ok)
    \/ FinishFileToken(ok)

UploadStep(u) ==
    \/ \E c \in FileToken \cup {NoCredential} : BeginUpload(u, c)
    \/ WriteChunk(u) \/ AbortUpload(u) \/ RefuseUpload(u)
    \/ \E f \in File, result \in {"ok", "failed", "crash"} : CommitUpload(u, f, result)

FileStep(f) ==
    \/ RetentionEnds(f)
    \/ \E result \in {"ok", "unsaved", "kept", "kept_unsaved", "crash"} :
          DeleteRequested(f, result) \/ CleanupExpired(f, result)

LinkStep(l, ok) ==
    \/ RevokeLink(l, ok)
    \/ \E f \in File, c \in FileToken \cup {NoCredential} : CreateLink(l, f, c, ok)

ShareNext ==
    \/ \E ok \in BOOLEAN : TokenStep(ok) \/ \E kept \in SUBSET Recovered : OpenShare(ok, kept)
    \/ CrashShare
    \/ \E active \in BOOLEAN : AccountChanges(active)
    \/ \E u \in Upload : UploadStep(u)
    \/ \E f \in File : FileStep(f)
    \/ \E l \in Link, ok \in BOOLEAN : LinkStep(l, ok)

ShareSpec == ShareInit /\ [][ShareNext]_shareVars

----------------------------------------------------------------------------
(* Properties.                                                             *)

\* The type invariant.
ShareTypeOK ==
    /\ files \in [File -> FileRecord] /\ links \in [Link -> LinkRecord \cup {NoLink}]
    /\ metadata \in [files : [File -> FileRecord], links : [Link -> LinkRecord \cup {NoLink}]]
    /\ objects \in SUBSET File /\ usedIDs \in SUBSET File /\ pastFiles \in SUBSET File
    /\ used \in Nat /\ reserved \in Nat
    /\ uploads \in [Upload -> [active : BOOLEAN, acquired : 0 .. Quota,
                               credential : FileToken \cup {NoCredential}]]
    /\ fileTokens \in [FileToken -> TokenRecord] /\ tokenFile \in [FileToken -> TokenRecord]
    /\ minting \in FileToken \cup {NoCredential}
    /\ account \in [active : BOOLEAN, version : 1 .. MaxAccountVersion]
    /\ serving \in BOOLEAN /\ deadLinks \in SUBSET Link /\ condemned \in SUBSET File /\ lateCommit \in BOOLEAN
    /\ shareStarts \in 0 .. MaxShareStart /\ shareFaults \in 0 .. MaxShareFault

\* The accounts of the quota are exact while uploads, deletions, failures and restarts
\* overlap: used is what the records hold, reserved what the uploads took, and both
\* together stay within the quota.
QuotaKept ==
    serving =>
        /\ used = SizeOf(files, File)
        /\ reserved = FoldSet(LAMBDA u, n : n + uploads[u].acquired, 0, Upload)
        /\ used + reserved <= Quota

\* Whatever is listed has its object, and every link its file, after any crash between
\* the object's and the metadata's step.
ListedHasObject ==
    serving => /\ Stored(files) \subseteq objects
               /\ \A l \in Link : links[l] # NoLink => links[l].file \in Stored(files)

\* A link whose revocation, or whose file's deletion, was confirmed opens nothing any
\* more, after restarts too.
DeadLinksStayDead == \A l \in deadLinks : ~OpensPublic(l)

\* A user has no more active tokens than the limit, through failed writes, restarts
\* and users that change while a token is made.
TokensWithinLimit == Cardinality({t \in FileToken : TokenValid(t)}) <= TokenLimit

\* Quota, objects, links and tokens stay right through failed writes, overlapping
\* uploads and restarts.
ShareInv ==
    /\ ShareTypeOK
    /\ QuotaKept
    /\ ListedHasObject
    /\ DeadLinksStayDead
    /\ TokensWithinLimit

\* Once the revocation of a token was confirmed nothing is committed with it, not even
\* by an upload that began before.
RevokedCommitsNothing == ~lateCommit

\* In memory, in metadata.json and on disk: what a confirmed upload is.
Secured(f) ==
    /\ f \in objects \cap Stored(files) \cap Stored(metadata.files)
    /\ files[f].size = metadata.files[f].size

\* A start that fails to look at the object of a file and clears it away.
MissedByStart(f) == ~serving /\ shareFaults' > shareFaults /\ f \notin objects'

\* Other uploads, deletions of other files, failed writes, crashes and starts leave a
\* confirmed upload as it is: it ends with its own deletion, or with a start that cannot
\* look at it.  What is gone never comes back.
StoredUntilDeleted ==
    [][\A f \in File :
          /\ Secured(f) => \/ Secured(f)' /\ files'[f].size = files[f].size
                           \/ \E result \in {"ok", "unsaved", "kept", "kept_unsaved", "crash"} :
                                 DeleteFile(f, result)
                           \/ MissedByStart(f)
          /\ f \in usedIDs \ objects => f \notin objects']_shareVars

\* A file whose object could not be removed is no longer available until its removal
\* is tried again.
\* The code does not keep it: a start makes every record that has its object ready.
DeleteFailedUnavailable == \A f \in condemned : ~Opens(f)

=============================================================================
