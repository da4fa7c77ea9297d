------------------------------ MODULE Accounts ------------------------------
(***************************************************************************)
(* User accounts, login sessions and the login rate limiter.               *)
(*                                                                         *)
(* internal/auth/session.go keeps users and sessions in memory under one   *)
(* lock and writes both into auth.json after every change; most operations *)
(* leave memory changed when that write fails.  A login takes four steps   *)
(* under different locks (api/auth_handlers.go): the limiter is asked, the *)
(* password is compared, the result is recorded, the session is created.   *)
(* With the MySQL driver the users table is filled once by the migration   *)
(* and laid over the users of auth.json at every start.                    *)
(*                                                                         *)
(* The index of user names always mirrors the users and is left out.       *)
(***************************************************************************)
EXTENDS Naturals, FiniteSets

CONSTANTS
    User,           \* user IDs, never used twice
    SessionToken,   \* session tokens, never used twice
    Client,         \* login requests in flight, all from one address
    NoSession,
    NoUser,
    MaxFailures,    \* failed logins that lock an address
    MaxVersion,     \* bound: session version of a user
    MaxAuthFault,   \* bound: failed writes
    MaxAuthRestart  \* bound: starts of the server

ASSUME AccountsAssumption ==
    /\ NoSession \notin [user : User, version : Nat] /\ NoUser \notin User
    /\ IsFiniteSet(Client) /\ MaxFailures \in Nat \ {0} /\ MaxVersion \in Nat \ {0}
    /\ MaxAuthFault \in Nat /\ MaxAuthRestart \in Nat

VARIABLES
    users,      \* SessionManager.users
    sessions,   \* SessionManager.sessions
    authFile,   \* auth.json: [users, sessions]
    userTable,  \* the users table of MySQL; never written after the migration
    halfTable,  \* history: the migration stopped half-way
    driver,     \* "file" or "mysql"
    starts,     \* starts of the server
    expired,    \* tokens whose time is over
    issued,     \* tokens that were ever given to a session
    clients,    \* the login requests
    limiter,    \* the limiter's record of the address
    revocation, \* history: what became of a revocation that was reported as done
    authFaults

accountsVars == <<users, sessions, authFile, userTable, halfTable, driver, starts, expired,
                  issued, clients, limiter, revocation, authFaults>>

\* The session manager only asks whether a role is owner; what the others may do
\* is in DeviceRegistry.
Role == {"owner", "other"}
UserRecord == [state : {"none", "active", "disabled", "deleted"}, role : Role,
               version : 0 .. MaxVersion]
Session == [user : User, version : 0 .. MaxVersion]

\* unwritten: auth.json still has the session, memory has not; undone: the server
\* was started from such a file.
Revocation == {"none", "written", "unwritten", "undone"}

Absent == [state |-> "none", role |-> "other", version |-> 0]
NewUser(role) == [state |-> "active", role |-> role, version |-> 1]

Exists(table, u) == table[u].state \in {"active", "disabled"}
ActiveOwners(table) == {u \in User : table[u].state = "active" /\ table[u].role = "owner"}

IdleClient == [pc |-> "idle", user |-> NoUser]
NoRecord == [failures |-> 0, lock |-> "none"]

\* GenerateUserID: an ID no user has.  Which one makes no difference.
FreshUser(table) == CHOOSE u \in User : table[u].state = "none"

\* auth.json before the first start: missing, or of an installation that ran with
\* the file driver before.
AccountsInit ==
    /\ \E first \in {Absent, NewUser("owner")} :
        LET file == [u \in User |-> IF u = FreshUser([v \in User |-> Absent]) THEN first ELSE Absent] IN
          authFile = [users |-> file, sessions |-> [t \in SessionToken |-> NoSession]]
    /\ users = [u \in User |-> Absent] /\ sessions = authFile.sessions
    /\ userTable = users /\ halfTable = FALSE
    /\ driver \in {"file", "mysql"} /\ starts = 0
    /\ expired = {} /\ issued = {} /\ authFaults = 0
    /\ revocation = [t \in SessionToken |-> "none"]
    /\ clients = [c \in Client |-> IdleClient] /\ limiter = NoRecord

----------------------------------------------------------------------------
(* Start of the server.                                                    *)

\* saveLocked: memory is written to auth.json, or the write fails.
SaveAuth(ok) ==
    /\ ok \/ authFaults < MaxAuthFault
    /\ authFaults' = IF ok THEN authFaults ELSE authFaults + 1
    /\ authFile' = IF ok THEN [users |-> users', sessions |-> sessions'] ELSE authFile

\* The caller is told that the sessions of ended are gone; a write that succeeds
\* makes up for those that failed.
Confirm(ended, ok) ==
    revocation' = [t \in SessionToken |->
                     IF t \in ended \/ revocation[t] = "unwritten"
                     THEN IF ok THEN "written" ELSE "unwritten"
                     ELSE revocation[t]]

\* main: UpsertUser replaces a user of auth.json by the row of the table.
Overlay(table) ==
    [u \in User |-> IF Exists(table, u) THEN table[u] ELSE authFile.users[u]]

\* AutoMigrateFileStoreToMySQL: an empty table gets the users of auth.json, or
\* only some of them when an insert fails.
MigratedTables ==
    LET local == {u \in User : Exists(authFile.users, u)} IN
    IF driver = "file" \/ \E u \in User : Exists(userTable, u)
    THEN {userTable}
    ELSE {[u \in User |-> IF u \in S THEN authFile.users[u] ELSE Absent] : S \in SUBSET local}

\* NewSessionManager, the overlay, and the first owner if there is no user at all.
\* What a crash leaves is the file; logins and limiter are gone.
StartServer ==
    /\ starts < MaxAuthRestart /\ starts' = starts + 1
    /\ \E table \in MigratedTables, ok \in BOOLEAN :
          LET loaded == Overlay(table)
              known == {u \in User : Exists(loaded, u)}
          IN
          /\ userTable' = table
          /\ halfTable' = \/ halfTable
                          \/ /\ table # userTable
                             /\ \E u \in User : Exists(authFile.users, u) /\ ~Exists(table, u)
          /\ sessions' = [t \in SessionToken |->
                            IF t \in expired THEN NoSession ELSE authFile.sessions[t]]
          /\ IF known # {}
             THEN /\ users' = loaded /\ ok
                  /\ UNCHANGED <<authFile, authFaults>>
             ELSE /\ \E u \in User : loaded[u].state = "none"
                  /\ users' = [loaded EXCEPT ![FreshUser(loaded)] = NewUser("owner")]
                  /\ SaveAuth(ok)
    /\ clients' = [c \in Client |-> IdleClient] /\ limiter' = NoRecord
    /\ revocation' = [t \in SessionToken |->
                        IF revocation[t] = "unwritten" THEN "undone" ELSE revocation[t]]
    /\ UNCHANGED <<driver, expired, issued>>

----------------------------------------------------------------------------
(* Operations on users; each runs under the manager's lock.                *)

DropSessions(u) ==
    [t \in SessionToken |-> IF sessions[t] # NoSession /\ sessions[t].user = u
                            THEN NoSession ELSE sessions[t]]
TokensOf(u) == {t \in SessionToken : sessions[t] # NoSession /\ sessions[t].user = u}

\* The user gets a new record, all sessions of the user go, and the result is
\* saved; memory stays changed when the write fails.  told: the caller learns of no
\* failure.
Revise(u, record, told, ok) ==
    /\ users' = [users EXCEPT ![u] = record]
    /\ sessions' = DropSessions(u)
    /\ SaveAuth(ok)
    /\ Confirm(IF told THEN TokensOf(u) ELSE {}, ok)
    /\ UNCHANGED <<userTable, halfTable, driver, starts, expired, issued, clients, limiter>>

Bumped(u) == [users[u] EXCEPT !.version = users[u].version + 1]
CanBump(u) == starts > 0 /\ Exists(users, u) /\ users[u].version < MaxVersion

\* A logout everywhere, which is successful whatever RevokeUserSessions returns.
RevokeUserSessions(u, ok) == CanBump(u) /\ Revise(u, Bumped(u), TRUE, ok)

\* UpdateUserPassword, with the old password, and ResetUserPassword without it.
ChangePassword(u, ok) == CanBump(u) /\ Revise(u, Bumped(u), ok, ok)

\* countActiveOwnersLocked() <= 1
LastOwnerLeft == Cardinality(ActiveOwners(users)) <= 1

UpdateUserRole(u, role, ok) ==
    /\ CanBump(u)
    /\ users[u].role = "owner" /\ role # "owner" => ~LastOwnerLeft
    /\ Revise(u, [Bumped(u) EXCEPT !.role = role], ok, ok)

DisableUser(u, ok) ==
    /\ CanBump(u) /\ users[u].state = "active"
    /\ users[u].role = "owner" => ~LastOwnerLeft
    /\ Revise(u, [Bumped(u) EXCEPT !.state = "disabled"], ok, ok)

\* DeleteUser; the devices of the user follow in DeviceRegistry.
RemoveUser(u, ok) ==
    /\ starts > 0 /\ Exists(users, u)
    /\ users[u].role = "owner" /\ users[u].state = "active" => ~LastOwnerLeft
    /\ Revise(u, [users[u] EXCEPT !.state = "deleted"], ok, ok)

EnableUser(u, ok) ==
    /\ starts > 0 /\ users[u].state = "disabled"
    /\ users' = [users EXCEPT ![u].state = "active"]
    /\ UNCHANGED sessions /\ SaveAuth(ok) /\ Confirm({}, ok)
    /\ UNCHANGED <<userTable, halfTable, driver, starts, expired, issued, clients, limiter>>

\* The only operation on users that takes a failed write back.
CreateUser(u, role, ok) ==
    /\ starts > 0 /\ users[u].state = "none" /\ u = FreshUser(users)
    /\ users' = IF ok THEN [users EXCEPT ![u] = NewUser(role)] ELSE users
    /\ UNCHANGED sessions /\ SaveAuth(ok) /\ Confirm({}, ok)
    /\ UNCHANGED <<userTable, halfTable, driver, starts, expired, issued, clients, limiter>>

----------------------------------------------------------------------------
(* Sessions.                                                               *)

\* What ValidateSession accepts.
Valid(t) ==
    /\ sessions[t] # NoSession /\ t \notin expired
    /\ users[sessions[t].user].state = "active"
    /\ sessions[t].version = users[sessions[t].user].version

\* ValidateSession forgets a session it refuses, and ignores a failed write; one it
\* accepts only has its time and role refreshed.
RefuseSession(t, ok) ==
    /\ starts > 0 /\ sessions[t] # NoSession /\ ~Valid(t)
    /\ sessions' = [sessions EXCEPT ![t] = NoSession] /\ UNCHANGED users
    /\ SaveAuth(ok) /\ Confirm({}, ok)
    /\ UNCHANGED <<userTable, halfTable, driver, starts, expired, issued, clients, limiter>>

\* A mutation: a logout only clears the cookie.
RevokeSession_CookieOnly(t, ok) ==
    /\ starts > 0 /\ sessions[t] # NoSession
    /\ UNCHANGED <<sessions, users>> /\ SaveAuth(ok) /\ Confirm({t}, ok)
    /\ UNCHANGED <<userTable, halfTable, driver, starts, expired, issued, clients, limiter>>

\* RevokeSession, for a logout, which is successful whatever it returns.
RevokeSession(t, ok) ==
    /\ starts > 0 /\ sessions[t] # NoSession
    /\ sessions' = [sessions EXCEPT ![t] = NoSession] /\ UNCHANGED users
    /\ SaveAuth(ok) /\ Confirm({t}, ok)
    /\ UNCHANGED <<userTable, halfTable, driver, starts, expired, issued, clients, limiter>>

SessionExpires(t) ==
    /\ t \in issued \ expired /\ expired' = expired \cup {t}
    /\ UNCHANGED <<users, sessions, authFile, userTable, halfTable, driver, starts, issued,
                   clients, limiter, revocation, authFaults>>

----------------------------------------------------------------------------
(* A login: IsLocked, AuthenticateUser, RecordFailure or RecordSuccess,    *)
(* CreateUserSession.                                                      *)

AtClient(c, pc) == starts > 0 /\ clients[c].pc = pc
Go(c, pc, u) == clients' = [clients EXCEPT ![c] = [pc |-> pc, user |-> u]]
OnlyLogin == UNCHANGED <<users, sessions, authFile, userTable, halfTable, driver, starts,
                         expired, issued, revocation, authFaults>>

\* A mutation: the lock is not looked at.
IsLocked_Never(c) ==
    /\ AtClient(c, "idle") /\ Go(c, "checked", clients[c].user)
    /\ limiter' = IF limiter.lock = "over" THEN NoRecord ELSE limiter
    /\ OnlyLogin

\* A locked address is refused; a lock whose time is over is forgotten.
IsLocked(c) ==
    /\ AtClient(c, "idle") /\ limiter.lock # "locked"
    /\ Go(c, "checked", clients[c].user)
    /\ limiter' = IF limiter.lock = "over" THEN NoRecord ELSE limiter
    /\ OnlyLogin

\* match: the user is active and the password is the user's.
AuthenticateUser(c, u, match) ==
    /\ AtClient(c, "checked") /\ (match => users[u].state = "active")
    /\ IF match
       THEN Go(c, "authenticated", u) ELSE Go(c, "failed", NoUser)
    /\ UNCHANGED limiter /\ OnlyLogin

\* A record without a running lock may have been cleaned up before.
RecordFailure(c) ==
    /\ AtClient(c, "failed") /\ Go(c, "idle", IdleClient.user)
    /\ \E cleaned \in BOOLEAN :
          LET record == IF cleaned THEN NoRecord ELSE limiter
              n == record.failures + 1
          IN /\ cleaned => limiter.lock # "locked"
             /\ limiter' = [failures |-> n, lock |-> IF n >= MaxFailures THEN "locked" ELSE record.lock]
    /\ OnlyLogin

RecordSuccess(c) ==
    /\ AtClient(c, "authenticated") /\ Go(c, "recorded", clients[c].user)
    /\ limiter' = NoRecord /\ OnlyLogin

LockExpires ==
    /\ limiter.lock = "locked" /\ limiter' = [limiter EXCEPT !.lock = "over"]
    /\ UNCHANGED clients /\ OnlyLogin

\* The user is read again, with the version it has by now; a failed write takes
\* the session back, but not the expired sessions that were cleaned up.
CreateUserSession(c, ok) ==
    LET u == clients[c].user
        clean == [t \in SessionToken |-> IF t \in expired THEN NoSession ELSE sessions[t]]
    IN
    /\ AtClient(c, "recorded") /\ Go(c, "idle", IdleClient.user)
    /\ UNCHANGED <<users, userTable, halfTable, driver, starts, expired, limiter>>
    /\ IF users[u].state = "active"
       THEN \E t \in SessionToken \ issued :
               /\ issued' = issued \cup {t}
               /\ sessions' = IF ok THEN [clean EXCEPT ![t] = [user |-> u, version |-> users[u].version]]
                                    ELSE clean
               /\ SaveAuth(ok) /\ Confirm({}, ok)
       ELSE ok /\ UNCHANGED <<sessions, authFile, issued, revocation, authFaults>>

\* The requests of an administrator, ...
ChangeUser(u, ok) ==
    \/ \E role \in Role : CreateUser(u, role, ok) \/ UpdateUserRole(u, role, ok)
    \/ DisableUser(u, ok)

ReturnOrRemoveUser(u, ok) == EnableUser(u, ok) \/ RemoveUser(u, ok)

\* ... and those a user makes, the new password by an administrator included.
OwnSession(u, ok) == RevokeUserSessions(u, ok) \/ ChangePassword(u, ok)

UserStep(ok) ==
    \E u \in User : ChangeUser(u, ok) \/ ReturnOrRemoveUser(u, ok) \/ OwnSession(u, ok)

SessionStep(ok) ==
    \E t \in SessionToken : RefuseSession(t, ok) \/ RevokeSession(t, ok)

LoginStep ==
    \E c \in Client :
        \/ IsLocked(c)
        \/ \E u \in User, match \in BOOLEAN : AuthenticateUser(c, u, match)
        \/ RecordFailure(c) \/ RecordSuccess(c)
        \/ \E ok \in BOOLEAN : CreateUserSession(c, ok)

AccountsNext ==
    \/ StartServer
    \/ \E ok \in BOOLEAN : UserStep(ok) \/ SessionStep(ok)
    \/ \E t \in SessionToken : SessionExpires(t)
    \/ LoginStep
    \/ LockExpires

AccountsSpec == AccountsInit /\ [][AccountsNext]_accountsVars

----------------------------------------------------------------------------
(* Properties.                                                             *)

\* The type invariant.
AccountsTypeOK ==
    /\ users \in [User -> UserRecord] /\ userTable \in [User -> UserRecord]
    /\ sessions \in [SessionToken -> Session \cup {NoSession}]
    /\ authFile \in [users : [User -> UserRecord],
                     sessions : [SessionToken -> Session \cup {NoSession}]]
    /\ halfTable \in BOOLEAN /\ driver \in {"file", "mysql"} /\ starts \in 0 .. MaxAuthRestart
    /\ expired \in SUBSET SessionToken /\ issued \in SUBSET SessionToken
    /\ revocation \in [SessionToken -> Revocation] /\ authFaults \in 0 .. MaxAuthFault
    /\ clients \in [Client -> [pc : {"idle", "checked", "failed", "authenticated", "recorded"},
                               user : User \cup {NoUser}]]
    /\ limiter \in [failures : Nat, lock : {"none", "locked", "over"}]

\* An instance that has users always has an active owner, whatever is demoted,
\* disabled or deleted, whichever writes fail and whenever the server restarts;
\* only a table that was filled half-way can take the last one away.
OwnerRemains ==
    (starts > 0 /\ ~halfTable) => ActiveOwners(users) # {}

\* A session whose revocation was confirmed (logout, logout everywhere, password,
\* role, disabling, deletion) is not accepted while the server runs on, and once it
\* or a later change was written, never again: after restarts and with the older
\* session versions of the users table too.
RevokedStaysRevoked ==
    \A t \in SessionToken : revocation[t] \in {"written", "unwritten"} => ~Valid(t)

\* session.go:334 and :357: a logout ends the session, a logout everywhere all of them.
\* The code does not keep it: authLogout and authLogoutAll ignore the error of the
\* write and answer success; a server that starts from the older file accepts the
\* session again.
ConfirmedStaysRevoked == \A t \in SessionToken : revocation[t] # "none" => ~Valid(t)

\* With the file driver no session outlives its user's status or version, in memory
\* and in auth.json: a restart cannot bring one to life.
SessionsFollowUsers ==
    driver = "file" =>
        \A t \in SessionToken :
            /\ sessions[t] # NoSession =>
                  /\ users[sessions[t].user].state = "active"
                  /\ sessions[t].version = users[sessions[t].user].version
            /\ authFile.sessions[t] # NoSession =>
                  LET s == authFile.sessions[t] IN
                  /\ authFile.users[s.user].state = "active"
                  /\ s.version = authFile.users[s.user].version

\* What restarts, failed writes and the database may never undo: an active owner
\* remains, a revocation that was written stays, sessions follow their users.
AccountsInv ==
    /\ AccountsTypeOK
    /\ OwnerRemains
    /\ RevokedStaysRevoked
    /\ SessionsFollowUsers

\* Logins that run at the same time get past the limit by no more than their own
\* number: failures counted and failures still to come stay below the limit plus
\* the requests in flight.
GuessesBounded ==
    limiter.failures + Cardinality({c \in Client : clients[c].pc \in {"checked", "failed"}})
        <= MaxFailures - 1 + Cardinality(Client)

=============================================================================
