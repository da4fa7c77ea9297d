--------------------------- MODULE AccessProofs ----------------------------
(***************************************************************************)
(* Theorems about Accounts and about DeviceRegistry, for every set of users,*)
(* devices, clients and requests, and every bound.  The two components share*)
(* no variable: each has its own inductive invariant, AccountsParts and    *)
(* RegistryParts.                                                          *)
(***************************************************************************)
EXTENDS Accounts, DeviceRegistry, FiniteSetTheorems, TLAPS

----------------------------------------------------------------------------
(* Accounts.                                                               *)

\* Every session follows its user.
Follows(us, ss) ==
    \A t \in SessionToken : ss[t] # NoSession =>
        /\ us[ss[t].user].state = "active"
        /\ ss[t].version = us[ss[t].user].version

\* Owners in memory, in the file and in the table, while the table is whole.
OwnersOK ==
    /\ OwnerRemains
    /\ ~halfTable /\ (\E u \in User : Exists(authFile.users, u)) => ActiveOwners(authFile.users) # {}
    /\ ~halfTable /\ (\E u \in User : Exists(userTable, u)) => ActiveOwners(userTable) # {}

\* The file driver has no table, and its sessions follow their users everywhere.
FollowOK ==
    driver = "file" =>
        /\ \A u \in User : ~Exists(userTable, u)
        /\ Follows(users, sessions) /\ Follows(authFile.users, authFile.sessions)

\* A token is given once; one whose revocation was confirmed is gone from memory, and
\* from the file once that was written.
TokensOK ==
    \A t \in SessionToken :
        /\ sessions[t] # NoSession \/ authFile.sessions[t] # NoSession => t \in issued
        /\ revocation[t] \in {"written", "unwritten"} => t \in issued /\ sessions[t] = NoSession
        /\ revocation[t] = "written" => authFile.sessions[t] = NoSession

\* Requests between the look at the lock and the recorded result.
Guessing == {c \in Client : clients[c].pc \in {"checked", "failed"}}

\* A request whose password matched is some user's.
LoggedIn ==
    \A c \in Client : clients[c].pc \in {"authenticated", "recorded"} => clients[c].user \in User

\* An address that was never locked has failures left.
LimiterOK ==
    /\ LoggedIn
    /\ limiter.lock = "none" => limiter.failures < MaxFailures
    /\ GuessesBounded

AccountsParts == AccountsTypeOK /\ OwnersOK /\ FollowOK /\ TokensOK /\ LimiterOK

----------------------------------------------------------------------------
(* What the operations are built from.                                     *)

\* What a save leaves of the revocations that were confirmed: gone from the sessions in
\* memory, and counted as written only with the file.
RevocationsKept(ok) ==
    /\ revocation' \in [SessionToken -> Revocation]
    /\ \A t \in SessionToken :
          /\ revocation'[t] \in {"written", "unwritten"} => t \in issued' /\ sessions'[t] = NoSession
          /\ ~ok /\ revocation'[t] = "written" => revocation[t] = "written"

\* Telling that sessions are gone, when they are and none has come back.
LEMMA ConfirmKeeps ==
    ASSUME AccountsTypeOK, TokensOK, NEW ended \in SUBSET issued', NEW ok \in BOOLEAN, Confirm(ended, ok),
           issued \subseteq issued', \A t \in ended : sessions'[t] = NoSession,
           \A t \in issued : sessions[t] = NoSession => sessions'[t] = NoSession
    PROVE  RevocationsKept(ok)
  <1>1. /\ revocation \in [SessionToken -> Revocation]
        /\ revocation' = [t \in SessionToken |->
                            IF t \in ended \/ revocation[t] = "unwritten"
                            THEN IF ok THEN "written" ELSE "unwritten"
                            ELSE revocation[t]]
    BY DEF AccountsTypeOK, Confirm
  <1>2. revocation' \in [SessionToken -> Revocation]
    BY <1>1 DEF Revocation
  <1>3. ASSUME NEW t \in SessionToken
        PROVE  /\ revocation'[t] \in {"written", "unwritten"} => t \in issued' /\ sessions'[t] = NoSession
               /\ ~ok /\ revocation'[t] = "written" => revocation[t] = "written"
    BY <1>1 DEF TokensOK
  <1>. QED  BY <1>2, <1>3 DEF RevocationsKept

\* Who changes the users or the sessions changes memory so, and saves.
LEMMA SaveKeeps ==
    ASSUME AccountsParts, NEW ok \in BOOLEAN, SaveAuth(ok),
           starts' \in 1 .. MaxAuthRestart, driver' = driver,
           users' \in [User -> UserRecord], sessions' \in [SessionToken -> Session \cup {NoSession}],
           halfTable => halfTable', ~halfTable' => ActiveOwners(users') # {},
           driver = "file" => Follows(users', sessions'),
           issued \subseteq issued', issued' \subseteq SessionToken,
           \A t \in SessionToken : sessions'[t] # NoSession => t \in issued',
           RevocationsKept(ok)
    PROVE  /\ authFile' \in [users : [User -> UserRecord],
                             sessions : [SessionToken -> Session \cup {NoSession}]]
           /\ authFaults' \in 0 .. MaxAuthFault /\ revocation' \in [SessionToken -> Revocation]
           /\ OwnerRemains'
           /\ ~halfTable' /\ (\E u \in User : Exists(authFile'.users, u)) => ActiveOwners(authFile'.users) # {}
           /\ driver' = "file" => Follows(users', sessions') /\ Follows(authFile'.users, authFile'.sessions)
           /\ TokensOK'
  <1>. USE AccountsAssumption
  <1>. USE DEF AccountsParts
  <1>0. revocation' \in [SessionToken -> Revocation]
    BY DEF RevocationsKept
  <1>1. authFaults' \in 0 .. MaxAuthFault
    BY DEF SaveAuth, AccountsTypeOK
  <1>2. OwnerRemains'
    BY DEF OwnerRemains, ActiveOwners
  <1>3. CASE ok
    <2>1. authFile' = [users |-> users', sessions |-> sessions']
      BY <1>3 DEF SaveAuth
    <2>2. TokensOK'
      BY <2>1 DEF TokensOK, RevocationsKept
    <2>. QED  BY <1>0, <1>1, <1>2, <2>1, <2>2
  <1>4. CASE ~ok
    <2>1. authFile' = authFile
      BY <1>4 DEF SaveAuth
    <2>2. TokensOK'
      BY <1>4, <2>1 DEF TokensOK, RevocationsKept
    <2>. QED  BY <1>0, <1>1, <1>2, <2>1, <2>2 DEF AccountsTypeOK, OwnersOK, FollowOK
  <1>. QED  BY <1>3, <1>4

\* What requests and limiter hold, when a step leaves them alone.
LEMMA LimiterStays ==
    ASSUME LimiterOK, UNCHANGED <<clients, limiter>>
    PROVE  LimiterOK'
  BY DEF LimiterOK, GuessesBounded, LoggedIn

\* The requests that are guessing are no more than there are requests.
LEMMA GuessingCount ==
    ASSUME NEW S \in SUBSET Client
    PROVE  /\ IsFiniteSet(S) /\ Cardinality(S) \in Nat /\ Cardinality(Client) \in Nat
           /\ Cardinality(S) <= Cardinality(Client)
  <1>1. IsFiniteSet(Client)
    BY AccountsAssumption
  <1>2. IsFiniteSet(S) /\ Cardinality(S) <= Cardinality(Client)
    BY <1>1, FS_Subset
  <1>. QED  BY <1>1, <1>2, FS_CardinalityType

\* Leaving one of two owners: the check before a demotion, a disabling or a deletion.
LEMMA OtherOwner ==
    ASSUME ~LastOwnerLeft, NEW u \in ActiveOwners(users)
    PROVE  \E o \in ActiveOwners(users) : o # u
  <1>. SUFFICES ASSUME \A o \in ActiveOwners(users) : o = u PROVE FALSE
    OBVIOUS
  <1>1. ActiveOwners(users) = {u}
    OBVIOUS
  <1>2. Cardinality(ActiveOwners(users)) = 1
    BY <1>1, FS_Singleton, Zenon
  <1>. QED  BY <1>2 DEF LastOwnerLeft

\* The user's record changes, the sessions go, and the result is saved.
LEMMA ReviseKeeps ==
    ASSUME AccountsParts, NEW u \in User, NEW record \in UserRecord, NEW told \in BOOLEAN,
           NEW ok \in BOOLEAN, starts > 0, Revise(u, record, told, ok),
           u \in ActiveOwners(users) =>
               (record.state = "active" /\ record.role = "owner") \/ ~LastOwnerLeft
    PROVE  AccountsParts'
  <1>. USE DEF AccountsParts
  <1>1. /\ users' = [users EXCEPT ![u] = record] /\ sessions' = DropSessions(u) /\ SaveAuth(ok)
        /\ Confirm(IF told THEN TokensOf(u) ELSE {}, ok)
        /\ UNCHANGED <<userTable, halfTable, driver, starts, expired, issued, clients, limiter>>
    BY DEF Revise
  <1>2. users' \in [User -> UserRecord] /\ users'[u] = record /\ \A v \in User : v # u => users'[v] = users[v]
    BY <1>1 DEF AccountsTypeOK
  <1>3. /\ sessions' \in [SessionToken -> Session \cup {NoSession}]
        /\ \A t \in SessionToken : sessions'[t] # NoSession => sessions'[t] = sessions[t] /\ sessions[t].user # u
        /\ \A t \in TokensOf(u) : t \in SessionToken /\ sessions[t] # NoSession /\ sessions'[t] = NoSession
        /\ \A t \in SessionToken : sessions[t] = NoSession => sessions'[t] = NoSession
    BY <1>1 DEF DropSessions, TokensOf, AccountsTypeOK
  <1>4. starts' \in 1 .. MaxAuthRestart
    BY <1>1, AccountsAssumption DEF AccountsTypeOK
  <1>5. ASSUME ~halfTable' PROVE ActiveOwners(users') # {}
    <2>1. PICK o : o \in ActiveOwners(users)
      BY <1>1, <1>5 DEF OwnersOK, OwnerRemains
    <2>2. CASE u \notin ActiveOwners(users)
      BY <1>2, <2>1, <2>2 DEF ActiveOwners
    <2>3. CASE u \in ActiveOwners(users) /\ record.state = "active" /\ record.role = "owner"
      BY <1>2, <2>3 DEF ActiveOwners
    <2>4. CASE u \in ActiveOwners(users) /\ ~LastOwnerLeft
      <3>1. PICK p \in ActiveOwners(users) : p # u
        BY <2>4, OtherOwner
      <3>. QED  BY <1>2, <3>1 DEF ActiveOwners
    <2>. QED  BY <2>2, <2>3, <2>4
  <1>6. ASSUME driver = "file" PROVE Follows(users', sessions')
    <2>1. Follows(users, sessions)
      BY <1>6 DEF FollowOK
    <2>2. \A t \in SessionToken : sessions[t] # NoSession => sessions[t].user \in User
      BY DEF AccountsTypeOK, Session
    <2>. QED  BY <1>2, <1>3, <2>1, <2>2 DEF Follows
  <1>7. /\ issued \subseteq issued' /\ issued' \subseteq SessionToken
        /\ \A t \in SessionToken : sessions'[t] # NoSession => t \in issued'
        /\ RevocationsKept(ok)
    <2>. DEFINE ended == IF told THEN TokensOf(u) ELSE {}
    <2>1. /\ issued \subseteq issued' /\ issued' \subseteq SessionToken
          /\ \A t \in SessionToken : sessions'[t] # NoSession => t \in issued'
      BY <1>1, <1>3 DEF AccountsTypeOK, TokensOK
    <2>2. ended \in SUBSET issued' /\ \A t \in ended : sessions'[t] = NoSession
      BY <1>1, <1>3 DEF TokensOK
    <2>3. Confirm(ended, ok)
      BY <1>1
    <2>4. \A t \in issued : sessions[t] = NoSession => sessions'[t] = NoSession
      BY <1>3 DEF AccountsTypeOK
    <2>. HIDE DEF ended
    <2>. QED  BY <2>1, <2>2, <2>3, <2>4, ConfirmKeeps
  <1>8. /\ authFile' \in [users : [User -> UserRecord],
                          sessions : [SessionToken -> Session \cup {NoSession}]]
        /\ authFaults' \in 0 .. MaxAuthFault /\ revocation' \in [SessionToken -> Revocation]
        /\ OwnerRemains'
        /\ ~halfTable' /\ (\E v \in User : Exists(authFile'.users, v)) => ActiveOwners(authFile'.users) # {}
        /\ driver' = "file" => Follows(users', sessions') /\ Follows(authFile'.users, authFile'.sessions)
        /\ TokensOK'
    BY <1>1, <1>2, <1>3, <1>4, <1>5, <1>6, <1>7, SaveKeeps
  <1>9. AccountsTypeOK'
    BY <1>1, <1>2, <1>3, <1>8 DEF AccountsTypeOK
  <1>10. OwnersOK'
    BY <1>1, <1>8 DEF OwnersOK, Exists, ActiveOwners
  <1>11. FollowOK'
    BY <1>1, <1>8 DEF FollowOK, Exists, Follows
  <1>12. LimiterOK'
    BY <1>1, LimiterStays
  <1>. QED  BY <1>8, <1>9, <1>10, <1>11, <1>12

\* A step that saves what it made of users and sessions, the server running on.
LEMMA SaveStep ==
    ASSUME AccountsParts, NEW ok \in BOOLEAN, SaveAuth(ok), starts > 0,
           UNCHANGED <<userTable, halfTable, driver, starts, expired>>,
           clients' \in [Client -> [pc : {"idle", "checked", "failed", "authenticated", "recorded"},
                                    user : User \cup {NoUser}]],
           limiter' \in [failures : Nat, lock : {"none", "locked", "over"}], LimiterOK',
           users' \in [User -> UserRecord], sessions' \in [SessionToken -> Session \cup {NoSession}],
           ~halfTable => ActiveOwners(users') # {},
           driver = "file" => Follows(users', sessions'),
           issued \subseteq issued', issued' \subseteq SessionToken,
           \A t \in SessionToken : sessions'[t] # NoSession => t \in issued',
           RevocationsKept(ok)
    PROVE  AccountsParts'
  <1>. USE DEF AccountsParts
  <1>1. starts' \in 1 .. MaxAuthRestart /\ driver' = driver /\ halfTable' = halfTable
    BY AccountsAssumption DEF AccountsTypeOK
  <1>2. /\ authFile' \in [users : [User -> UserRecord],
                          sessions : [SessionToken -> Session \cup {NoSession}]]
        /\ authFaults' \in 0 .. MaxAuthFault /\ revocation' \in [SessionToken -> Revocation]
        /\ OwnerRemains'
        /\ ~halfTable' /\ (\E v \in User : Exists(authFile'.users, v)) => ActiveOwners(authFile'.users) # {}
        /\ driver' = "file" => Follows(users', sessions') /\ Follows(authFile'.users, authFile'.sessions)
        /\ TokensOK'
    BY <1>1, SaveKeeps
  <1>3. AccountsTypeOK'
    BY <1>1, <1>2 DEF AccountsTypeOK
  <1>4. OwnersOK'
    BY <1>1, <1>2 DEF OwnersOK, Exists, ActiveOwners
  <1>5. FollowOK'
    BY <1>1, <1>2 DEF FollowOK, Exists, Follows
  <1>. QED  BY <1>2, <1>3, <1>4, <1>5

----------------------------------------------------------------------------
(* One lemma for each action.                                              *)

\* A new session version, as every revision of a user but the deletion has it.
LEMMA BumpedType ==
    ASSUME AccountsParts, NEW u \in User, CanBump(u)
    PROVE  /\ Bumped(u) \in UserRecord /\ Bumped(u).state = users[u].state
           /\ Bumped(u).role = users[u].role
           /\ \A role \in Role : [Bumped(u) EXCEPT !.role = role] \in UserRecord
           /\ [Bumped(u) EXCEPT !.state = "disabled"] \in UserRecord
           /\ [Bumped(u) EXCEPT !.state = "disabled"].role = users[u].role
  <1>1. users[u] \in UserRecord /\ users[u].version + 1 \in 0 .. MaxVersion
    BY AccountsAssumption DEF AccountsParts, AccountsTypeOK, UserRecord, CanBump
  <1>. QED  BY <1>1 DEF Bumped, UserRecord

\* RevokeUserSessions and the passwords.
LEMMA OwnSessionKeeps ==
    ASSUME AccountsParts, NEW u \in User, NEW ok \in BOOLEAN, OwnSession(u, ok)
    PROVE  AccountsParts'
  <1>1. PICK told \in BOOLEAN : CanBump(u) /\ Revise(u, Bumped(u), told, ok) /\ starts > 0
    BY DEF OwnSession, RevokeUserSessions, ChangePassword, CanBump
  <1>2. /\ Bumped(u) \in UserRecord
        /\ u \in ActiveOwners(users) => Bumped(u).state = "active" /\ Bumped(u).role = "owner"
    BY <1>1, BumpedType DEF ActiveOwners
  <1>. QED  BY <1>1, <1>2, ReviseKeeps

\* A role is taken from an owner only when another active owner is left.
LEMMA UpdateUserRoleKeeps ==
    ASSUME AccountsParts, NEW u \in User, NEW role \in Role, NEW ok \in BOOLEAN,
           UpdateUserRole(u, role, ok)
    PROVE  AccountsParts'
  <1>1. /\ CanBump(u) /\ Revise(u, [Bumped(u) EXCEPT !.role = role], ok, ok) /\ starts > 0
        /\ users[u].role = "owner" /\ role # "owner" => ~LastOwnerLeft
    BY DEF UpdateUserRole, CanBump
  <1>2. [Bumped(u) EXCEPT !.role = role] \in UserRecord
    BY <1>1, BumpedType
  <1>3. u \in ActiveOwners(users) =>
            \/ [Bumped(u) EXCEPT !.role = role].state = "active" /\ [Bumped(u) EXCEPT !.role = role].role = "owner"
            \/ ~LastOwnerLeft
    <2>1. Bumped(u) \in UserRecord /\ Bumped(u).state = users[u].state
      BY <1>1, BumpedType
    <2>. QED  BY <1>1, <2>1 DEF ActiveOwners, UserRecord
  <1>. QED  BY <1>1, <1>2, <1>3, ReviseKeeps

\* Nor is the last active owner disabled ...
LEMMA DisableUserKeeps ==
    ASSUME AccountsParts, NEW u \in User, NEW ok \in BOOLEAN, DisableUser(u, ok)
    PROVE  AccountsParts'
  <1>1. /\ CanBump(u) /\ Revise(u, [Bumped(u) EXCEPT !.state = "disabled"], ok, ok) /\ starts > 0
        /\ users[u].role = "owner" => ~LastOwnerLeft
    BY DEF DisableUser, CanBump
  <1>2. [Bumped(u) EXCEPT !.state = "disabled"] \in UserRecord
    BY <1>1, BumpedType
  <1>3. u \in ActiveOwners(users) => ~LastOwnerLeft
    BY <1>1 DEF ActiveOwners
  <1>. QED  BY <1>1, <1>2, <1>3, ReviseKeeps

\* ... or deleted.
LEMMA RemoveUserKeeps ==
    ASSUME AccountsParts, NEW u \in User, NEW ok \in BOOLEAN, RemoveUser(u, ok)
    PROVE  AccountsParts'
  <1>1. /\ Revise(u, [users[u] EXCEPT !.state = "deleted"], ok, ok) /\ starts > 0
        /\ users[u].role = "owner" /\ users[u].state = "active" => ~LastOwnerLeft
    BY DEF RemoveUser
  <1>2. [users[u] EXCEPT !.state = "deleted"] \in UserRecord
    <2>1. users[u] \in UserRecord
      BY DEF AccountsParts, AccountsTypeOK
    <2>. QED  BY <2>1 DEF UserRecord
  <1>3. u \in ActiveOwners(users) => ~LastOwnerLeft
    BY <1>1 DEF ActiveOwners
  <1>. QED  BY <1>1, <1>2, <1>3, ReviseKeeps

\* A user without sessions becomes active.
LEMMA ActivationKeeps ==
    ASSUME AccountsParts, NEW u \in User, NEW record \in UserRecord, NEW ok \in BOOLEAN,
           users[u].state # "active", record.state = "active", starts > 0,
           users' = [users EXCEPT ![u] = record] \/ users' = users,
           SaveAuth(ok), Confirm({}, ok), UNCHANGED sessions,
           UNCHANGED <<userTable, halfTable, driver, starts, expired, issued, clients, limiter>>
    PROVE  AccountsParts'
  <1>. USE DEF AccountsParts
  <1>1. /\ users' \in [User -> UserRecord]
        /\ \A v \in User : v # u => users'[v] = users[v]
    BY DEF AccountsTypeOK
  <1>2. sessions' \in [SessionToken -> Session \cup {NoSession}] /\ limiter' = limiter /\ clients' = clients
        /\ clients' \in [Client -> [pc : {"idle", "checked", "failed", "authenticated", "recorded"},
                                    user : User \cup {NoUser}]]
        /\ limiter' \in [failures : Nat, lock : {"none", "locked", "over"}]
    BY DEF AccountsTypeOK
  <1>3. ASSUME ~halfTable PROVE ActiveOwners(users') # {}
    <2>1. PICK o : o \in ActiveOwners(users)
      BY <1>3 DEF OwnersOK, OwnerRemains
    <2>. QED  BY <1>1, <2>1 DEF ActiveOwners
  <1>4. ASSUME driver = "file" PROVE Follows(users', sessions')
    <2>1. Follows(users, sessions)
      BY <1>4 DEF FollowOK
    <2>2. \A t \in SessionToken : sessions[t] # NoSession => sessions[t].user \in User
      BY DEF AccountsTypeOK, Session
    <2>. QED  BY <1>1, <2>1, <2>2 DEF Follows
  <1>5. /\ issued \subseteq issued' /\ issued' \subseteq SessionToken
        /\ \A t \in SessionToken : sessions'[t] # NoSession => t \in issued'
        /\ RevocationsKept(ok)
    BY ConfirmKeeps DEF AccountsTypeOK, TokensOK
  <1>6. LimiterOK'
    BY <1>2, LimiterStays
  <1>. QED  BY <1>1, <1>2, <1>3, <1>4, <1>5, <1>6, SaveStep

\* EnableUser.
LEMMA EnableUserKeeps ==
    ASSUME AccountsParts, NEW u \in User, NEW ok \in BOOLEAN, EnableUser(u, ok)
    PROVE  AccountsParts'
  <1>1. users[u] \in UserRecord
    BY DEF AccountsParts, AccountsTypeOK
  <1> DEFINE record == [users[u] EXCEPT !.state = "active"]
  <1>2. record \in UserRecord /\ record.state = "active"
    BY <1>1 DEF UserRecord
  <1>3. users' = [users EXCEPT ![u] = record]
    BY DEF EnableUser
  <1> HIDE DEF record
  <1>4. /\ users[u].state # "active" /\ starts > 0 /\ SaveAuth(ok) /\ Confirm({}, ok) /\ UNCHANGED sessions
        /\ UNCHANGED <<userTable, halfTable, driver, starts, expired, issued, clients, limiter>>
    BY DEF EnableUser
  <1>. QED  BY <1>2, <1>3, <1>4, ActivationKeeps

\* CreateUser takes a failed write back.
LEMMA CreateUserKeeps ==
    ASSUME AccountsParts, NEW u \in User, NEW role \in Role, NEW ok \in BOOLEAN, CreateUser(u, role, ok)
    PROVE  AccountsParts'
  <1>1. NewUser(role) \in UserRecord /\ NewUser(role).state = "active"
    BY AccountsAssumption DEF NewUser, UserRecord
  <1>2. /\ users[u].state # "active" /\ starts > 0 /\ SaveAuth(ok) /\ Confirm({}, ok) /\ UNCHANGED sessions
        /\ users' = [users EXCEPT ![u] = NewUser(role)] \/ users' = users
        /\ UNCHANGED <<userTable, halfTable, driver, starts, expired, issued, clients, limiter>>
    BY DEF CreateUser
  <1>. QED  BY <1>1, <1>2, ActivationKeeps

\* A session is forgotten: refused, or revoked by a logout.
LEMMA ForgetSessionKeeps ==
    ASSUME AccountsParts, NEW t \in SessionToken, NEW ok \in BOOLEAN,
           RefuseSession(t, ok) \/ RevokeSession(t, ok)
    PROVE  AccountsParts'
  <1>. USE DEF AccountsParts
  <1>1. /\ starts > 0 /\ sessions[t] # NoSession /\ sessions' = [sessions EXCEPT ![t] = NoSession]
        /\ users' = users /\ SaveAuth(ok) /\ (Confirm({}, ok) \/ Confirm({t}, ok))
        /\ UNCHANGED <<userTable, halfTable, driver, starts, expired, issued, clients, limiter>>
    BY DEF RefuseSession, RevokeSession
  <1>2. /\ users' \in [User -> UserRecord] /\ sessions' \in [SessionToken -> Session \cup {NoSession}]
        /\ \A k \in SessionToken : sessions'[k] # NoSession => k # t /\ sessions'[k] = sessions[k]
        /\ sessions'[t] = NoSession
        /\ \A k \in SessionToken : sessions[k] = NoSession => sessions'[k] = NoSession
    BY <1>1 DEF AccountsTypeOK
  <1>3. /\ clients' \in [Client -> [pc : {"idle", "checked", "failed", "authenticated", "recorded"},
                                    user : User \cup {NoUser}]]
        /\ limiter' \in [failures : Nat, lock : {"none", "locked", "over"}] /\ LimiterOK'
    BY <1>1, LimiterStays DEF AccountsTypeOK
  <1>4. ~halfTable => ActiveOwners(users') # {}
    BY <1>1 DEF OwnersOK, OwnerRemains
  <1>5. driver = "file" => Follows(users', sessions')
    BY <1>1, <1>2 DEF FollowOK, Follows
  <1>6. /\ issued \subseteq issued' /\ issued' \subseteq SessionToken
        /\ \A k \in SessionToken : sessions'[k] # NoSession => k \in issued'
        /\ RevocationsKept(ok)
    <2>1. /\ issued \subseteq issued' /\ issued' \subseteq SessionToken
          /\ \A k \in SessionToken : sessions'[k] # NoSession => k \in issued'
          /\ \A k \in issued : sessions[k] = NoSession => sessions'[k] = NoSession
          /\ {} \in SUBSET issued' /\ {t} \in SUBSET issued' /\ sessions'[t] = NoSession
      BY <1>1, <1>2 DEF AccountsTypeOK, TokensOK
    <2>2. PICK ended \in {{}, {t}} : Confirm(ended, ok)
      BY <1>1
    <2>. QED  BY <2>1, <2>2, ConfirmKeeps
  <1>7. UNCHANGED <<userTable, halfTable, driver, starts, expired>>
    BY <1>1
  <1>. QED  BY <1>1, <1>2, <1>3, <1>4, <1>5, <1>6, <1>7, SaveStep

\* The time of a token is over.
LEMMA SessionExpiresKeeps ==
    ASSUME AccountsParts, NEW t \in SessionToken, SessionExpires(t)
    PROVE  AccountsParts'
  BY LimiterStays
  DEF SessionExpires, AccountsParts, AccountsTypeOK, OwnersOK, OwnerRemains, FollowOK, TokensOK

\* The limiter after a step of a login: every other part stays.
LEMMA LoginKeeps ==
    ASSUME AccountsParts, OnlyLogin,
           clients' \in [Client -> [pc : {"idle", "checked", "failed", "authenticated", "recorded"},
                                    user : User \cup {NoUser}]],
           limiter' \in [failures : Nat, lock : {"none", "locked", "over"}],
           LimiterOK'
    PROVE  AccountsParts'
  BY DEF OnlyLogin, AccountsParts, AccountsTypeOK, OwnersOK, OwnerRemains, FollowOK, TokensOK

\* A request leaves those that guess.
LEMMA GuessingEnds ==
    ASSUME AccountsTypeOK, NEW c \in Client, NEW pc \in {"idle", "authenticated", "recorded"}, NEW u,
           Go(c, pc, u)
    PROVE  /\ Cardinality(Guessing) \in Nat /\ Cardinality(Client) \in Nat
           /\ c \in Guessing => Cardinality(Guessing') = Cardinality(Guessing) - 1
           /\ c \notin Guessing => Guessing' = Guessing
  <1>1. \A d \in Client : clients'[d] = IF d = c THEN [pc |-> pc, user |-> u] ELSE clients[d]
    BY DEF AccountsTypeOK, Go
  <1>2. Guessing' = Guessing \ {c}
    BY <1>1 DEF Guessing
  <1>3. /\ IsFiniteSet(Guessing) /\ Cardinality(Guessing) \in Nat /\ Cardinality(Client) \in Nat
    BY GuessingCount DEF Guessing
  <1>4. ASSUME c \in Guessing PROVE Cardinality(Guessing') = Cardinality(Guessing) - 1
    <2>1. Cardinality(Guessing \ {c}) = Cardinality(Guessing) - 1
      BY <1>3, <1>4, FS_RemoveElement
    <2>. QED  BY <1>2, <2>1, Zenon
  <1>5. ASSUME c \notin Guessing PROVE Guessing' = Guessing
    BY <1>2, <1>5
  <1>. QED  BY <1>3, <1>4, <1>5

\* A request that guesses goes on.
LEMMA GuessingGoesOn ==
    ASSUME AccountsTypeOK, NEW c \in Client, NEW u, Go(c, "failed", u), c \in Guessing
    PROVE  Guessing' = Guessing
  <1>1. \A d \in Client : clients'[d] = IF d = c THEN [pc |-> "failed", user |-> u] ELSE clients[d]
    BY DEF AccountsTypeOK, Go
  <1>. QED  BY <1>1 DEF Guessing

\* IsLocked lets a request through while no lock is running.
LEMMA IsLockedKeeps ==
    ASSUME AccountsParts, NEW c \in Client, IsLocked(c)
    PROVE  AccountsParts'
  <1>. USE AccountsAssumption
  <1>1. /\ Go(c, "checked", clients[c].user) /\ OnlyLogin /\ limiter.lock # "locked"
        /\ limiter' = IF limiter.lock = "over" THEN NoRecord ELSE limiter
    BY DEF IsLocked
  <1>2. /\ clients' \in [Client -> [pc : {"idle", "checked", "failed", "authenticated", "recorded"},
                                    user : User \cup {NoUser}]]
        /\ limiter' \in [failures : Nat, lock : {"none", "locked", "over"}]
    BY <1>1 DEF AccountsParts, AccountsTypeOK, Go, NoRecord
  <1>3. limiter'.failures \in Nat /\ limiter'.failures < MaxFailures
    BY <1>1 DEF AccountsParts, AccountsTypeOK, LimiterOK, NoRecord
  <1>4. /\ Cardinality(Guessing') \in Nat
        /\ Cardinality(Client) \in Nat
        /\ Cardinality(Guessing') <= Cardinality(Client)
    <2>1. Guessing' \in SUBSET Client
      BY DEF Guessing
    <2>. QED  BY <2>1, GuessingCount
  <1>l. LoggedIn'
    BY <1>1 DEF AccountsParts, AccountsTypeOK, LimiterOK, LoggedIn, Go, IsLocked, AtClient
  <1>5. LimiterOK'
    <2>1. limiter'.failures + Cardinality(Guessing') <= MaxFailures - 1 + Cardinality(Client)
      BY <1>3, <1>4
    <2>. QED  BY <1>3, <2>1, <1>l DEF LimiterOK, GuessesBounded, Guessing
  <1>. QED  BY <1>1, <1>2, <1>5, LoginKeeps

\* The password is compared: the request stays among those that guess, or leaves them.
LEMMA AuthenticateUserKeeps ==
    ASSUME AccountsParts, NEW c \in Client, NEW u \in User, NEW match \in BOOLEAN,
           AuthenticateUser(c, u, match)
    PROVE  AccountsParts'
  <1>. USE AccountsAssumption
  <1>0. AccountsTypeOK /\ LimiterOK
    BY DEF AccountsParts
  <1>1. /\ Go(c, "authenticated", u) \/ Go(c, "failed", NoUser)
        /\ OnlyLogin /\ limiter' = limiter /\ c \in Guessing
    BY DEF AuthenticateUser, AtClient, Guessing
  <1>2. /\ clients' \in [Client -> [pc : {"idle", "checked", "failed", "authenticated", "recorded"},
                                    user : User \cup {NoUser}]]
        /\ limiter' \in [failures : Nat, lock : {"none", "locked", "over"}]
    BY <1>1 DEF AccountsParts, AccountsTypeOK, Go
  <1>3. /\ Cardinality(Guessing') \in Int
        /\ Cardinality(Guessing') <= Cardinality(Guessing)
        /\ Cardinality(Guessing) \in Nat /\ Cardinality(Client) \in Nat
    <2>g. Cardinality(Guessing) \in Nat /\ Cardinality(Client) \in Nat
      BY GuessingCount DEF Guessing
    <2>1. CASE Go(c, "authenticated", u)
      <3>1. Cardinality(Guessing') = Cardinality(Guessing) - 1
        BY <1>0, <2>1, <1>1, GuessingEnds
      <3>. QED  BY <2>g, <3>1
    <2>2. CASE Go(c, "failed", NoUser)
      <3>1. Guessing' = Guessing
        BY <1>0, <1>1, <2>2, GuessingGoesOn
      <3>. QED  BY <2>g, <3>1
    <2>. QED  BY <1>1, <2>1, <2>2
  <1>4. limiter.failures \in Nat /\ limiter.failures + Cardinality(Guessing) <= MaxFailures - 1 + Cardinality(Client)
    <2>1. limiter.failures \in Nat
      BY <1>0 DEF AccountsTypeOK
    <2>. QED  BY <1>0, <2>1 DEF LimiterOK, GuessesBounded, Guessing
  <1>l. LoggedIn'
    <2>1. LoggedIn /\ clients \in [Client -> [pc : {"idle", "checked", "failed", "authenticated", "recorded"},
                                             user : User \cup {NoUser}]]
      BY <1>0 DEF AccountsTypeOK, LimiterOK
    <2>2. CASE Go(c, "authenticated", u)
      BY <2>1, <2>2 DEF LoggedIn, Go
    <2>3. CASE Go(c, "failed", NoUser)
      BY <2>1, <2>3 DEF LoggedIn, Go
    <2>. QED  BY <1>1, <2>2, <2>3
  <1>5. LimiterOK'
    <2>1. limiter.failures + Cardinality(Guessing') <= MaxFailures - 1 + Cardinality(Client)
      BY <1>3, <1>4
    <2>. QED  BY <1>0, <1>1, <2>1, <1>l DEF LimiterOK, GuessesBounded, Guessing
  <1>. QED  BY <1>1, <1>2, <1>5, LoginKeeps

\* A failure is counted when its request stops guessing.
LEMMA RecordFailureKeeps ==
    ASSUME AccountsParts, NEW c \in Client, RecordFailure(c)
    PROVE  AccountsParts'
  <1>. USE AccountsAssumption
  <1>0. AccountsTypeOK /\ LimiterOK
    BY DEF AccountsParts
  <1>1. PICK cleaned \in BOOLEAN :
          LET record == IF cleaned THEN NoRecord ELSE limiter
              n == record.failures + 1
          IN limiter' = [failures |-> n, lock |-> IF n >= MaxFailures THEN "locked" ELSE record.lock]
    BY DEF RecordFailure
  <1> DEFINE record == IF cleaned THEN NoRecord ELSE limiter
  <1>2. /\ record.failures \in Nat /\ record.failures <= limiter.failures
        /\ record.lock \in {"none", "locked", "over"} /\ limiter.failures \in Nat
    BY <1>0 DEF NoRecord, AccountsTypeOK
  <1>3. /\ limiter'.failures = record.failures + 1
        /\ limiter' \in [failures : Nat, lock : {"none", "locked", "over"}]
        /\ limiter'.lock = "none" => limiter'.failures < MaxFailures
    <2>1. limiter' = [failures |-> record.failures + 1,
                      lock |-> IF record.failures + 1 >= MaxFailures THEN "locked" ELSE record.lock]
      BY <1>1
    <2> HIDE DEF record
    <2>. QED  BY <1>2, <2>1
  <1>4. Go(c, "idle", IdleClient.user) /\ OnlyLogin /\ c \in Guessing
    BY DEF RecordFailure, AtClient, Guessing
  <1>5. clients' \in [Client -> [pc : {"idle", "checked", "failed", "authenticated", "recorded"},
                                 user : User \cup {NoUser}]]
    BY <1>4 DEF AccountsParts, AccountsTypeOK, Go, IdleClient
  <1>6. /\ Cardinality(Guessing') = Cardinality(Guessing) - 1
        /\ Cardinality(Guessing) \in Nat /\ Cardinality(Client) \in Nat
    BY <1>0, <1>4, GuessingEnds
  <1>7. limiter.failures + Cardinality(Guessing) <= MaxFailures - 1 + Cardinality(Client)
    BY <1>0 DEF LimiterOK, GuessesBounded, Guessing
  <1>l. LoggedIn'
    BY <1>1, <1>4 DEF AccountsParts, AccountsTypeOK, LimiterOK, LoggedIn, Go, IdleClient
  <1>8. LimiterOK'
    <2>1. limiter'.failures + Cardinality(Guessing') <= MaxFailures - 1 + Cardinality(Client)
      <3> HIDE DEF record
      <3>. QED  BY <1>2, <1>3, <1>6, <1>7
    <2>. QED  BY <1>3, <2>1, <1>l DEF LimiterOK, GuessesBounded, Guessing
  <1>. QED  BY <1>3, <1>4, <1>5, <1>8, LoginKeeps

\* A success clears the record of the address.
LEMMA RecordSuccessKeeps ==
    ASSUME AccountsParts, NEW c \in Client, RecordSuccess(c)
    PROVE  AccountsParts'
  <1>. USE AccountsAssumption
  <1>1. Go(c, "recorded", clients[c].user) /\ limiter' = NoRecord /\ OnlyLogin
    BY DEF RecordSuccess
  <1>2. /\ clients' \in [Client -> [pc : {"idle", "checked", "failed", "authenticated", "recorded"},
                                    user : User \cup {NoUser}]]
        /\ limiter' \in [failures : Nat, lock : {"none", "locked", "over"}]
        /\ limiter'.failures = 0
    BY <1>1 DEF AccountsParts, AccountsTypeOK, Go, NoRecord
  <1>3. /\ Cardinality(Guessing') \in Nat
        /\ Cardinality(Client) \in Nat
        /\ Cardinality(Guessing') <= Cardinality(Client)
    <2>1. Guessing' \in SUBSET Client
      BY DEF Guessing
    <2>. QED  BY <2>1, GuessingCount
  <1>l. LoggedIn'
    BY <1>1 DEF AccountsParts, AccountsTypeOK, LimiterOK, LoggedIn, Go, RecordSuccess, AtClient
  <1>4. LimiterOK'
    <2>1. 0 + Cardinality(Guessing') <= MaxFailures - 1 + Cardinality(Client)
      BY <1>3
    <2>. QED  BY <1>2, <2>1, <1>l DEF LimiterOK, GuessesBounded, Guessing
  <1>. QED  BY <1>1, <1>2, <1>4, LoginKeeps

\* The time of the lock is over; the failures are still counted.
LEMMA LockExpiresKeeps ==
    ASSUME AccountsParts, LockExpires
    PROVE  AccountsParts'
  <1>1. /\ limiter' = [limiter EXCEPT !.lock = "over"] /\ clients' = clients /\ OnlyLogin
    BY DEF LockExpires
  <1>2. /\ limiter' \in [failures : Nat, lock : {"none", "locked", "over"}]
        /\ limiter'.failures = limiter.failures /\ limiter'.lock = "over"
        /\ clients' \in [Client -> [pc : {"idle", "checked", "failed", "authenticated", "recorded"},
                                    user : User \cup {NoUser}]]
    BY <1>1 DEF AccountsParts, AccountsTypeOK
  <1>l. LoggedIn'
    BY <1>1 DEF AccountsParts, AccountsTypeOK, LimiterOK, LoggedIn, Go, LockExpires
  <1>3. LimiterOK'
    BY <1>1, <1>2, <1>l DEF AccountsParts, LimiterOK, GuessesBounded
  <1>. QED  BY <1>1, <1>2, <1>3, LoginKeeps

\* CreateUserSession reads the user again; the session follows it, or is taken back.
LEMMA CreateUserSessionKeeps ==
    ASSUME AccountsParts, NEW c \in Client, NEW ok \in BOOLEAN, CreateUserSession(c, ok)
    PROVE  AccountsParts'
  <1>. USE AccountsAssumption
  <1> DEFINE u == clients[c].user
  <1> DEFINE clean == [t \in SessionToken |-> IF t \in expired THEN NoSession ELSE sessions[t]]
  <1>0. AccountsTypeOK /\ OwnersOK /\ FollowOK /\ TokensOK /\ LimiterOK
    BY DEF AccountsParts
  <1>1. /\ starts > 0 /\ clients[c].pc = "recorded" /\ Go(c, "idle", IdleClient.user)
        /\ UNCHANGED <<users, userTable, halfTable, driver, starts, expired, limiter>>
    BY DEF CreateUserSession, AtClient
  <1>2. /\ clients' \in [Client -> [pc : {"idle", "checked", "failed", "authenticated", "recorded"},
                                    user : User \cup {NoUser}]]
        /\ limiter' \in [failures : Nat, lock : {"none", "locked", "over"}]
    BY <1>0, <1>1 DEF AccountsTypeOK, Go, IdleClient
  <1>l. LoggedIn'
    BY <1>1 DEF AccountsParts, AccountsTypeOK, LimiterOK, LoggedIn, Go, IdleClient
  <1>3. LimiterOK'
    <2>1. c \notin Guessing
      BY <1>1 DEF Guessing
    <2>3. Guessing' = Guessing
      BY <1>0, <1>1, <2>1, GuessingEnds
    <2>. QED  BY <1>0, <1>1, <2>3, <1>l DEF LimiterOK, GuessesBounded, Guessing
  <1>4. CASE users[u].state # "active"
    <2>1. UNCHANGED <<sessions, authFile, issued, revocation, authFaults>>
      BY <1>4 DEF CreateUserSession
    <2>2. OnlyLogin
      BY <1>1, <2>1 DEF OnlyLogin
    <2>. QED  BY <1>2, <1>3, <2>2, LoginKeeps
  <1>5. CASE users[u].state = "active"
    <2>1. PICK t \in SessionToken \ issued :
              /\ issued' = issued \cup {t}
              /\ sessions' = IF ok THEN [clean EXCEPT ![t] = [user |-> u, version |-> users[u].version]]
                                   ELSE clean
              /\ SaveAuth(ok) /\ Confirm({}, ok)
      BY <1>5 DEF CreateUserSession
    <2>2. u \in User \cup {NoUser}
      BY <1>0 DEF AccountsTypeOK
    <2>3. clean \in [SessionToken -> Session \cup {NoSession}]
          /\ \A k \in SessionToken : /\ clean[k] # NoSession => clean[k] = sessions[k]
                                     /\ sessions[k] = NoSession => clean[k] = NoSession
      BY <1>0 DEF AccountsTypeOK
    <2>4. u \in User => [user |-> u, version |-> users[u].version] \in Session
      BY <1>0 DEF AccountsTypeOK, UserRecord, Session
    <2>5. issued \subseteq issued' /\ issued' \subseteq SessionToken /\ t \notin issued
      BY <1>0, <1>1, <2>1 DEF AccountsTypeOK, TokensOK
    <2>7. \A k \in SessionToken : sessions[k] # NoSession => k \in issued
      BY <1>0 DEF TokensOK
    <2>u. u \in User
      BY <1>0, <1>1 DEF LimiterOK, LoggedIn
    <2> HIDE DEF clean, u
    <2>8. /\ sessions' \in [SessionToken -> Session \cup {NoSession}]
          /\ \A k \in SessionToken : sessions'[k] # NoSession =>
                \/ sessions'[k] = sessions[k]
                \/ k = t /\ sessions'[k] = [user |-> u, version |-> users[u].version]
      BY <2>1, <2>3, <2>4, <2>u
    <2>9. /\ \A k \in SessionToken : sessions'[k] # NoSession => k \in issued'
          /\ \A k \in issued : sessions[k] = NoSession => sessions'[k] = NoSession
      BY <1>1, <2>1, <2>3, <2>5, <2>7
    <2>r. RevocationsKept(ok)
      BY <1>0, <2>1, <2>5, <2>9, ConfirmKeeps
    <2>10. driver = "file" => Follows(users', sessions')
      BY <1>0, <1>1, <1>5, <2>8 DEF FollowOK, Follows
    <2>11. ~halfTable => ActiveOwners(users') # {}
      BY <1>0, <1>1 DEF OwnersOK, OwnerRemains
    <2>12. users' \in [User -> UserRecord]
      BY <1>0, <1>1 DEF AccountsTypeOK
    <2>. QED  BY <1>1, <1>2, <1>3, <2>1, <2>5, <2>8, <2>9, <2>r, <2>10, <2>11, <2>12, SaveStep
  <1>. QED  BY <1>4, <1>5

\* The table after the migration: whole unless the history says otherwise.
LEMMA MigratedTable ==
    ASSUME AccountsParts, NEW table \in MigratedTables,
           halfTable' = \/ halfTable
                        \/ /\ table # userTable
                           /\ \E u \in User : Exists(authFile.users, u) /\ ~Exists(table, u)
    PROVE  /\ table \in [User -> UserRecord]
           /\ driver = "file" => table = userTable
           /\ ~halfTable' /\ (\E u \in User : Exists(table, u)) => ActiveOwners(table) # {}
  <1>. USE DEF AccountsParts
  <1>1. CASE table = userTable
    BY <1>1 DEF AccountsTypeOK, OwnersOK
  <1>2. CASE table # userTable
    <2>1. ~(driver = "file" \/ \E u \in User : Exists(userTable, u))
      BY <1>2 DEF MigratedTables
    <2>2. PICK S \in SUBSET {u \in User : Exists(authFile.users, u)} :
              table = [u \in User |-> IF u \in S THEN authFile.users[u] ELSE Absent]
      BY <2>1 DEF MigratedTables
    <2>3. Absent \in UserRecord /\ Absent.state = "none"
      BY AccountsAssumption DEF Absent, UserRecord, Role
    <2>4. table \in [User -> UserRecord]
      BY <2>2, <2>3 DEF AccountsTypeOK
    <2>5. \A u \in User : /\ u \in S => table[u] = authFile.users[u]
                          /\ Exists(table, u) => u \in S /\ Exists(authFile.users, u)
      BY <2>2, <2>3 DEF Exists
    <2>6. ASSUME ~halfTable', NEW u \in User, Exists(table, u) PROVE ActiveOwners(table) # {}
      <3>1. ~halfTable /\ Exists(authFile.users, u)
        BY <2>5, <2>6
      <3>2. PICK o : o \in ActiveOwners(authFile.users)
        BY <3>1 DEF OwnersOK
      <3>3. o \in User /\ Exists(authFile.users, o)
        BY <3>2 DEF ActiveOwners, Exists
      <3>4. Exists(table, o)
        BY <1>2, <2>6, <3>3
      <3>5. table[o] = authFile.users[o]
        BY <2>5, <3>3, <3>4
      <3>. QED  BY <3>2, <3>3, <3>5 DEF ActiveOwners
    <2>. QED  BY <2>1, <2>4, <2>6
  <1>. QED  BY <1>1, <1>2

\* The users the server starts with have an active owner, if there are users at all.
LEMMA OverlayOwners ==
    ASSUME AccountsParts, NEW table \in [User -> UserRecord],
           (\E u \in User : Exists(table, u)) => ActiveOwners(table) # {}, ~halfTable,
           NEW v \in User, Exists(Overlay(table), v)
    PROVE  ActiveOwners(Overlay(table)) # {}
  <1>. USE DEF AccountsParts
  <1>1. \A u \in User : Overlay(table)[u] = IF Exists(table, u) THEN table[u] ELSE authFile.users[u]
    BY DEF Overlay
  <1>2. CASE \E u \in User : Exists(table, u)
    <2>1. PICK o : o \in ActiveOwners(table)
      BY <1>2
    <2>2. o \in User /\ Exists(table, o)
      BY <2>1 DEF ActiveOwners, Exists
    <2>3. Overlay(table)[o] = table[o]
      BY <1>1, <2>2
    <2>. QED  BY <2>1, <2>3 DEF ActiveOwners
  <1>3. CASE \A u \in User : ~Exists(table, u)
    <2>1. \A u \in User : Overlay(table)[u] = authFile.users[u]
      BY <1>1, <1>3
    <2>2. Exists(authFile.users, v)
      BY <2>1 DEF Exists
    <2>3. PICK o : o \in ActiveOwners(authFile.users)
      BY <2>2 DEF OwnersOK
    <2>. QED  BY <2>1, <2>3 DEF ActiveOwners
  <1>. QED  BY <1>2, <1>3

\* The server starts with what the file and the table hold, or with a first owner.
LEMMA StartServerKeeps ==
    ASSUME AccountsParts, StartServer
    PROVE  AccountsParts'
  <1>. USE DEF AccountsParts
  <1>1. /\ starts < MaxAuthRestart /\ starts' = starts + 1
        /\ clients' = [c \in Client |-> IdleClient] /\ limiter' = NoRecord
        /\ revocation' = [t \in SessionToken |->
                            IF revocation[t] = "unwritten" THEN "undone" ELSE revocation[t]]
        /\ UNCHANGED <<driver, expired, issued>>
    BY DEF StartServer
  <1>2. PICK table \in MigratedTables, ok \in BOOLEAN :
          LET loaded == Overlay(table)
              known == {u \in User : Exists(loaded, u)}
          IN
          /\ userTable' = table
          /\ halfTable' = \/ halfTable
                          \/ /\ table # userTable
                             /\ \E u \in User : Exists(authFile.users, u) /\ ~Exists(table, u)
          /\ sessions' = [t \in SessionToken |->
                            IF t \in expired THEN NoSession ELSE authFile.sessions[t]]
          /\ IF known # {}
             THEN /\ users' = loaded /\ ok
                  /\ UNCHANGED <<authFile, authFaults>>
             ELSE /\ \E u \in User : loaded[u].state = "none"
                  /\ users' = [loaded EXCEPT ![FreshUser(loaded)] = NewUser("owner")]
                  /\ SaveAuth(ok)
    BY DEF StartServer
  <1> DEFINE loaded == Overlay(table)
  <1>3. /\ userTable' = table
        /\ halfTable' = \/ halfTable
                        \/ /\ table # userTable
                           /\ \E u \in User : Exists(authFile.users, u) /\ ~Exists(table, u)
        /\ sessions' = [t \in SessionToken |-> IF t \in expired THEN NoSession ELSE authFile.sessions[t]]
    BY <1>2
  <1>4. \/ /\ \E u \in User : Exists(loaded, u)
           /\ users' = loaded /\ UNCHANGED <<authFile, authFaults>>
        \/ /\ \A u \in User : ~Exists(loaded, u)
           /\ \E u \in User : loaded[u].state = "none"
           /\ users' = [loaded EXCEPT ![FreshUser(loaded)] = NewUser("owner")] /\ SaveAuth(ok)
    BY <1>2
  <1>5. /\ table \in [User -> UserRecord] /\ (driver = "file" => table = userTable)
        /\ ~halfTable' /\ (\E u \in User : Exists(table, u)) => ActiveOwners(table) # {}
        /\ ~halfTable' => ~halfTable
    BY <1>3, MigratedTable
  <1>6. /\ loaded \in [User -> UserRecord]
        /\ driver = "file" => \A u \in User : loaded[u] = authFile.users[u]
    BY <1>5 DEF Overlay, AccountsTypeOK, FollowOK
  <1>7. /\ sessions' \in [SessionToken -> Session \cup {NoSession}]
        /\ \A t \in SessionToken : sessions'[t] # NoSession => sessions'[t] = authFile.sessions[t]
        /\ \A t \in SessionToken : authFile.sessions[t] = NoSession => sessions'[t] = NoSession
    BY <1>3 DEF AccountsTypeOK
  <1>r. /\ revocation' \in [SessionToken -> Revocation]
        /\ \A t \in SessionToken : revocation'[t] # "unwritten" /\ (revocation'[t] = "written" => revocation[t] = "written")
        /\ \A t \in SessionToken :
              revocation[t] = "written" => t \in issued' /\ sessions'[t] = NoSession
    BY <1>1, <1>7 DEF AccountsTypeOK, Revocation, TokensOK
  <1>8. starts' \in 1 .. MaxAuthRestart /\ driver' = driver /\ halfTable' \in BOOLEAN
    BY <1>1, <1>3, AccountsAssumption DEF AccountsTypeOK
  <1>9. /\ clients' \in [Client -> [pc : {"idle", "checked", "failed", "authenticated", "recorded"},
                                    user : User \cup {NoUser}]]
        /\ limiter' \in [failures : Nat, lock : {"none", "locked", "over"}]
        /\ limiter' = NoRecord /\ \A c \in Client : clients'[c].pc = "idle"
    BY <1>1 DEF IdleClient, NoRecord
  <1>10. LimiterOK'
    <2>1. Guessing' = {} /\ LoggedIn'
      BY <1>9 DEF Guessing, LoggedIn
    <2>2. Cardinality(Guessing') = 0
      BY <2>1, FS_EmptySet, Zenon
    <2>3. Cardinality(Client) \in Nat
      BY AccountsAssumption, FS_CardinalityType
    <2>4. limiter'.failures = 0 /\ limiter'.failures + Cardinality(Guessing') <= MaxFailures - 1 + Cardinality(Client)
      BY <1>9, <2>2, <2>3, AccountsAssumption DEF NoRecord
    <2>. QED  BY <2>1, <2>4, AccountsAssumption DEF LimiterOK, GuessesBounded, Guessing
  <1>11. ~halfTable' /\ (\E u \in User : Exists(loaded, u)) => ActiveOwners(loaded) # {}
    BY <1>5, OverlayOwners
  <1> HIDE DEF loaded
  <1>12. CASE /\ \E u \in User : Exists(loaded, u)
              /\ users' = loaded /\ UNCHANGED <<authFile, authFaults>>
    <2>1. AccountsTypeOK'
      BY <1>1, <1>3, <1>5, <1>6, <1>7, <1>r, <1>8, <1>9, <1>12 DEF AccountsTypeOK
    <2>2. OwnersOK'
      BY <1>3, <1>5, <1>11, <1>12 DEF OwnersOK, OwnerRemains, Exists, ActiveOwners
    <2>3. TokensOK'
      BY <1>1, <1>7, <1>r, <1>12 DEF TokensOK, AccountsTypeOK
    <2>4. FollowOK'
      <3>1. \A t \in SessionToken : authFile.sessions[t] # NoSession => authFile.sessions[t].user \in User
        BY DEF AccountsTypeOK, Session
      <3>. QED  BY <1>1, <1>3, <1>5, <1>6, <1>7, <1>12, <3>1 DEF FollowOK, Follows, Exists
    <2>. QED  BY <1>10, <2>1, <2>2, <2>3, <2>4
  <1>13. CASE /\ \A u \in User : ~Exists(loaded, u)
              /\ \E u \in User : loaded[u].state = "none"
              /\ users' = [loaded EXCEPT ![FreshUser(loaded)] = NewUser("owner")] /\ SaveAuth(ok)
    <2>1. FreshUser(loaded) \in User /\ loaded[FreshUser(loaded)].state = "none"
      BY <1>13 DEF FreshUser
    <2>2. NewUser("owner") \in UserRecord /\ NewUser("owner").state = "active" /\ NewUser("owner").role = "owner"
      BY AccountsAssumption DEF NewUser, UserRecord, Role
    <2>3. users' \in [User -> UserRecord] /\ users'[FreshUser(loaded)] = NewUser("owner")
      BY <1>6, <1>13, <2>1, <2>2
    <2>4. ActiveOwners(users') # {}
      BY <2>1, <2>2, <2>3 DEF ActiveOwners
    <2>5. driver = "file" => Follows(users', sessions')
      <3>1. \A t \in SessionToken : authFile.sessions[t] # NoSession => authFile.sessions[t].user \in User
        BY DEF AccountsTypeOK, Session
      <3>2. ASSUME driver = "file", NEW t \in SessionToken PROVE authFile.sessions[t] = NoSession
        BY <1>6, <1>13, <3>1, <3>2 DEF FollowOK, Follows, Exists
      <3>. QED  BY <1>7, <3>2 DEF Follows
    <2>6. /\ issued \subseteq issued' /\ issued' \subseteq SessionToken
          /\ \A t \in SessionToken : sessions'[t] # NoSession => t \in issued'
          /\ RevocationsKept(ok)
      BY <1>1, <1>7, <1>r DEF TokensOK, AccountsTypeOK, RevocationsKept
    <2>7. halfTable => halfTable'
      BY <1>3
    <2>8. /\ authFile' \in [users : [User -> UserRecord],
                            sessions : [SessionToken -> Session \cup {NoSession}]]
          /\ authFaults' \in 0 .. MaxAuthFault /\ revocation' \in [SessionToken -> Revocation]
          /\ OwnerRemains'
          /\ ~halfTable' /\ (\E v \in User : Exists(authFile'.users, v)) => ActiveOwners(authFile'.users) # {}
          /\ driver' = "file" => Follows(users', sessions') /\ Follows(authFile'.users, authFile'.sessions)
          /\ TokensOK'
      BY <1>7, <1>8, <1>13, <2>3, <2>4, <2>5, <2>6, <2>7, SaveKeeps
    <2>9. AccountsTypeOK'
      BY <1>1, <1>3, <1>5, <1>7, <1>8, <1>9, <2>3, <2>8 DEF AccountsTypeOK
    <2>10. OwnersOK'
      BY <1>3, <1>5, <2>8 DEF OwnersOK, Exists, ActiveOwners
    <2>11. FollowOK'
      BY <1>1, <1>3, <1>5, <2>8 DEF FollowOK, Exists, Follows
    <2>. QED  BY <1>10, <2>8, <2>9, <2>10, <2>11
  <1>. QED  BY <1>4, <1>12, <1>13

----------------------------------------------------------------------------
(* The theorems.                                                           *)

\* auth.json is missing or has one owner.
LEMMA AccountsInitOK ==
    AccountsInit => AccountsParts
  <1>. SUFFICES ASSUME AccountsInit PROVE AccountsParts
    OBVIOUS
  <1>. USE AccountsAssumption
  <1>1. Absent \in UserRecord /\ Absent.state = "none" /\ NewUser("owner") \in UserRecord
        /\ NewUser("owner").state = "active" /\ NewUser("owner").role = "owner"
    BY DEF Absent, NewUser, UserRecord, Role
  <1>2. PICK first \in {Absent, NewUser("owner")} :
          LET file == [u \in User |-> IF u = FreshUser([v \in User |-> Absent]) THEN first ELSE Absent] IN
          authFile = [users |-> file, sessions |-> [t \in SessionToken |-> NoSession]]
    BY DEF AccountsInit
  <1>3. /\ authFile \in [users : [User -> UserRecord],
                         sessions : [SessionToken -> Session \cup {NoSession}]]
        /\ \A u \in User : authFile.users[u] \in {Absent, NewUser("owner")}
        /\ \A t \in SessionToken : authFile.sessions[t] = NoSession
    BY <1>1, <1>2
  <1>4. /\ users = [u \in User |-> Absent] /\ sessions = authFile.sessions
        /\ userTable = users /\ halfTable = FALSE /\ driver \in {"file", "mysql"} /\ starts = 0
        /\ expired = {} /\ issued = {} /\ authFaults = 0
        /\ revocation = [t \in SessionToken |-> "none"]
        /\ clients = [c \in Client |-> IdleClient] /\ limiter = NoRecord
    BY DEF AccountsInit
  <1>5. AccountsTypeOK
    <2>1. users \in [User -> UserRecord] /\ userTable \in [User -> UserRecord]
      BY <1>1, <1>4
    <2>2. sessions \in [SessionToken -> Session \cup {NoSession}]
      BY <1>3, <1>4
    <2>3. clients \in [Client -> [pc : {"idle", "checked", "failed", "authenticated", "recorded"},
                                  user : User \cup {NoUser}]]
      BY <1>4 DEF IdleClient
    <2>4. limiter \in [failures : Nat, lock : {"none", "locked", "over"}]
      BY <1>4 DEF NoRecord
    <2>5. /\ halfTable \in BOOLEAN /\ driver \in {"file", "mysql"} /\ starts \in 0 .. MaxAuthRestart
          /\ expired \in SUBSET SessionToken /\ issued \in SUBSET SessionToken
          /\ revocation \in [SessionToken -> Revocation] /\ authFaults \in 0 .. MaxAuthFault
      <3>1. 0 \in 0 .. MaxAuthRestart /\ 0 \in 0 .. MaxAuthFault
        OBVIOUS
      <3>2. revocation \in [SessionToken -> Revocation]
        BY <1>4 DEF Revocation
      <3>. QED  BY <1>4, <3>1, <3>2, Zenon
    <2>. QED  BY <1>3, <2>1, <2>2, <2>3, <2>4, <2>5 DEF AccountsTypeOK
  <1>6. OwnersOK
    BY <1>1, <1>3, <1>4 DEF OwnersOK, OwnerRemains, Exists, ActiveOwners
  <1>7. FollowOK /\ TokensOK
    BY <1>1, <1>3, <1>4 DEF FollowOK, TokensOK, Follows, Exists
  <1>8. LimiterOK
    <2>1. Guessing = {} /\ LoggedIn
      BY <1>4 DEF Guessing, LoggedIn, IdleClient
    <2>2. Cardinality(Guessing) = 0
      BY <2>1, FS_EmptySet, Zenon
    <2>3. Cardinality(Client) \in Nat
      BY FS_CardinalityType
    <2>4. limiter.failures = 0 /\ limiter.failures + Cardinality(Guessing) <= MaxFailures - 1 + Cardinality(Client)
      BY <1>4, <2>2, <2>3 DEF NoRecord
    <2>. QED  BY <2>1, <2>4 DEF LimiterOK, GuessesBounded, Guessing
  <1>. QED  BY <1>5, <1>6, <1>7, <1>8 DEF AccountsParts

\* Every request, start, expiry or stutter keeps the invariant.
LEMMA AccountsStepKeeps ==
    ASSUME AccountsParts, [AccountsNext]_accountsVars
    PROVE  AccountsParts'
  <1>1. CASE StartServer
    BY <1>1, StartServerKeeps
  <1>2. ASSUME NEW ok \in BOOLEAN, UserStep(ok) \/ SessionStep(ok) PROVE AccountsParts'
    <2>1. ASSUME NEW u \in User, ChangeUser(u, ok) PROVE AccountsParts'
      BY <2>1, CreateUserKeeps, UpdateUserRoleKeeps, DisableUserKeeps DEF ChangeUser
    <2>2. ASSUME NEW u \in User, ReturnOrRemoveUser(u, ok) PROVE AccountsParts'
      BY <2>2, EnableUserKeeps, RemoveUserKeeps DEF ReturnOrRemoveUser
    <2>3. ASSUME NEW u \in User, OwnSession(u, ok) PROVE AccountsParts'
      BY <2>3, OwnSessionKeeps
    <2>4. CASE UserStep(ok)
      BY <2>1, <2>2, <2>3, <2>4 DEF UserStep
    <2>5. CASE SessionStep(ok)
      BY <2>5, ForgetSessionKeeps DEF SessionStep
    <2>. QED  BY <1>2, <2>4, <2>5
  <1>3. ASSUME NEW t \in SessionToken, SessionExpires(t) PROVE AccountsParts'
    BY <1>3, SessionExpiresKeeps
  <1>4. CASE LoginStep
    BY <1>4, IsLockedKeeps, AuthenticateUserKeeps, RecordFailureKeeps, RecordSuccessKeeps,
       CreateUserSessionKeeps DEF LoginStep
  <1>5. CASE LockExpires
    BY <1>5, LockExpiresKeeps
  <1>6. CASE UNCHANGED accountsVars
    BY <1>6 DEF accountsVars, AccountsParts, AccountsTypeOK, OwnersOK, OwnerRemains, FollowOK,
       TokensOK, LimiterOK, GuessesBounded, LoggedIn
  <1>. QED  BY <1>1, <1>2, <1>3, <1>4, <1>5, <1>6 DEF AccountsNext

\* Memory, auth.json and the table agree as far as they have to.
THEOREM AccountsInvariant == AccountsSpec => []AccountsParts
  <1>1. AccountsInit => AccountsParts
    BY AccountsInitOK
  <1>2. AccountsParts /\ [AccountsNext]_accountsVars => AccountsParts'
    BY AccountsStepKeeps
  <1>. QED  BY <1>1, <1>2, PTL DEF AccountsSpec

\* An active owner remains (but for a table that was filled half-way), a session whose
\* revocation was confirmed is not accepted while the server runs on and, once it was
\* written, never again, and with the file driver sessions follow their users, whichever
\* writes fail and whenever the server restarts.
THEOREM AccountsConsistent == AccountsSpec => []AccountsInv
  <1>1. AccountsParts => AccountsInv
    <2>. SUFFICES ASSUME AccountsParts PROVE AccountsInv
      OBVIOUS
    <2>. USE DEF AccountsParts
    <2>1. RevokedStaysRevoked
      BY DEF RevokedStaysRevoked, TokensOK, Valid
    <2>2. SessionsFollowUsers
      BY DEF SessionsFollowUsers, FollowOK, Follows
    <2>. QED  BY <2>1, <2>2 DEF AccountsInv, OwnersOK
  <1>. QED  BY <1>1, AccountsInvariant, PTL

\* Logins that run at the same time pass the limit by no more than their own number.
THEOREM GuessesStayBounded == AccountsSpec => []GuessesBounded
  <1>1. AccountsParts => GuessesBounded
    BY DEF AccountsParts, LimiterOK
  <1>. QED  BY <1>1, AccountsInvariant, PTL

----------------------------------------------------------------------------
(* The device registry.                                                    *)

\* A snapshot that can be served: valid, and its usable tokens have an owner.
StoreOK(s) ==
    /\ s \in Snapshot /\ GrantsValid(s) /\ HardwareValid(s)
    /\ \A t \in ClaimToken : s.tokens[t].uses > 0 => s.tokens[t].owner \in Person

\* What is left of the token issued through the API.
UsesLeft(s) == claims + s.tokens["api"].uses <= MaxUses

StoresOK ==
    /\ StoreOK(plane) /\ UsesLeft(plane)
    /\ StoreOK(planeFile) /\ UsesLeft(planeFile)
    /\ StoreOK(legacy) /\ legacy.tokens["api"] = NoToken

\* A request carries the device it was checked for, or the record it took.
RequestOK(q) ==
    /\ q.at \in {"share", "delete", "facts", "committed"} => q.device \in Device
    /\ q.at \in {"facts", "committed"} => q.record \in DeviceRecord
    /\ q.at = "share" => q.user \in Person

RequestsOK ==
    /\ \A r \in Request : RequestOK(requests[r])
    /\ ~running => \A r \in Request : requests[r] = IdleRequest

\* The registry is what the control plane holds, but for the claims that were
\* committed and are not applied yet.
MirrorOK ==
    running /\ ~unsaved =>
        /\ plane.grants = registry.grants
        /\ \A r \in ClaimsCommitted : requests[r].record = plane.devices[requests[r].device]
        /\ \A d \in Device : (\A r \in ClaimsCommitted : requests[r].device # d) =>
                                 plane.devices[d] = registry.devices[d]

RegistryParts == RegistryTypeOK /\ GrantsValid(registry) /\ StoresOK /\ RequestsOK /\ MirrorOK

----------------------------------------------------------------------------
(* What the operations are built from.                                     *)

\* A commit stores a valid snapshot or leaves the one it has.
LEMMA CommitEffect ==
    ASSUME RegistryTypeOK, NEW next \in Snapshot, NEW result \in CommitResult, Commit(next, result)
    PROVE  /\ commitFaults' \in 0 .. MaxCommitFault
           /\ plane' = plane \/ (plane' = next /\ ValidSnapshot(next))
           /\ planeFile' = planeFile \/ (planeFile' = next /\ ValidSnapshot(next))
           /\ result = "ok" => plane' = next /\ planeFile' = next /\ ValidSnapshot(next)
           /\ result # "ok" => plane' = plane
  <1>1. commitFaults' \in 0 .. MaxCommitFault
    <2>1. result # "ok" /\ ValidSnapshot(next) => commitFaults < MaxCommitFault
      BY DEF Commit
    <2>2. commitFaults' = IF result # "ok" /\ ValidSnapshot(next) THEN commitFaults + 1 ELSE commitFaults
      BY DEF Commit
    <2>. QED  BY <2>1, <2>2, RegistryAssumption DEF RegistryTypeOK
  <1>. QED  BY <1>1 DEF Commit, CommitResult

\* The stores after a commit that leaves the history of claims alone.
LEMMA CommitKeeps ==
    ASSUME RegistryTypeOK, StoresOK, NEW next \in Snapshot, NEW result \in CommitResult,
           Commit(next, result), UNCHANGED <<claims, legacy>>, UsesLeft(next),
           \A t \in ClaimToken : next.tokens[t].uses > 0 => next.tokens[t].owner \in Person
    PROVE  StoresOK' /\ plane' \in Snapshot /\ planeFile' \in Snapshot
  <1>1. /\ plane' = plane \/ (plane' = next /\ ValidSnapshot(next))
        /\ planeFile' = planeFile \/ (planeFile' = next /\ ValidSnapshot(next))
    BY CommitEffect
  <1>2. /\ StoreOK(plane') /\ claims + plane'.tokens["api"].uses <= MaxUses
        /\ StoreOK(planeFile') /\ claims + planeFile'.tokens["api"].uses <= MaxUses
    BY <1>1 DEF StoresOK, StoreOK, ValidSnapshot, UsesLeft
  <1>. QED  BY <1>2 DEF StoresOK, StoreOK, UsesLeft

\* The registry's part of a snapshot replaced.
LEMMA RegistryPart ==
    ASSUME RegistryTypeOK, NEW next \in [devices : Devices, grants : Grants]
    PROVE  /\ [plane EXCEPT !.devices = next.devices, !.grants = next.grants] \in Snapshot
           /\ [plane EXCEPT !.devices = next.devices, !.grants = next.grants].devices = next.devices
           /\ [plane EXCEPT !.devices = next.devices, !.grants = next.grants].grants = next.grants
           /\ [plane EXCEPT !.devices = next.devices, !.grants = next.grants].tokens = plane.tokens
  BY DEF RegistryTypeOK, Snapshot

\* A write of the registry keeps every store valid, and the mirror unless it failed
\* without being taken back or went over a claim that is under way.
LEMMA WriteKeeps ==
    ASSUME RegistryParts, NEW next \in [devices : Devices, grants : Grants],
           NEW kept \in [devices : Devices, grants : Grants], GrantsValid(kept),
           NEW result \in CommitResult, WriteRegistry(next, kept, result), RestUnchanged, running,
           requests' \in [Request ->
             [at : {"idle", "share", "delete", "purge", "facts", "committed"},
              device : Device \cup {NoDevice}, record : DeviceRecord \cup {NoDevice},
              user : Person \cup {Nobody}]],
           \A r \in Request : requests'[r] = requests[r] \/
                              (requests'[r] = IdleRequest /\ requests[r].at # "committed"),
           arrivals' \in 0 .. MaxArrival
    PROVE  RegistryParts'
  <1>. USE DEF RegistryParts
  <1> DEFINE stored == [plane EXCEPT !.devices = next.devices, !.grants = next.grants]
  <1>1. /\ stored \in Snapshot /\ stored.devices = next.devices /\ stored.grants = next.grants
        /\ stored.tokens = plane.tokens
    BY RegistryPart
  <1> HIDE DEF stored
  <1>2. /\ Commit(stored, result) /\ registry' = IF result = "ok" THEN next ELSE kept
        /\ unsaved' = \/ unsaved /\ result # "ok"
                      \/ result # "ok" /\ kept # registry
                      \/ ClaimsCommitted # {}
    BY DEF WriteRegistry, stored
  <1>3. UNCHANGED <<legacy, running, people, credentials, claims, migrated, reimported, planeStarts>>
    BY DEF RestUnchanged
  <1>4. StoresOK' /\ plane' \in Snapshot /\ planeFile' \in Snapshot
    <2>1. UsesLeft(stored) /\ \A t \in ClaimToken : stored.tokens[t].uses > 0 => stored.tokens[t].owner \in Person
      BY <1>1 DEF StoresOK, StoreOK, UsesLeft
    <2>. QED  BY <1>1, <1>2, <1>3, <2>1, CommitKeeps
  <1>5. /\ commitFaults' \in 0 .. MaxCommitFault
        /\ result = "ok" => plane' = stored /\ ValidSnapshot(stored)
        /\ result # "ok" => plane' = plane
    BY <1>1, <1>2, CommitEffect
  <1>6. GrantsValid(registry') /\ registry' \in [devices : Devices, grants : Grants]
    <2>1. ASSUME result = "ok" PROVE GrantsValid(next)
      BY <1>1, <1>5, <2>1 DEF ValidSnapshot, GrantsValid, Known
    <2>. QED  BY <1>2, <2>1
  <1>7. ClaimsCommitted' = ClaimsCommitted /\ \A r \in ClaimsCommitted : requests'[r] = requests[r]
    BY DEF ClaimsCommitted, IdleRequest
  <1>8. RequestsOK'
    <2>1. RequestOK(IdleRequest)
      BY DEF RequestOK, IdleRequest
    <2>. QED  BY <1>3, <2>1 DEF RequestsOK
  <1>9. MirrorOK'
    <2>1. ASSUME ~unsaved' PROVE plane'.grants = registry'.grants /\ plane'.devices = registry'.devices
                                 /\ ClaimsCommitted' = {}
      <3>1. CASE result = "ok"
        BY <1>1, <1>2, <1>5, <1>7, <2>1, <3>1
      <3>2. CASE result # "ok"
        <4>1. ~unsaved /\ kept = registry /\ ClaimsCommitted = {} /\ registry' = registry
          BY <1>2, <2>1, <3>2
        <4>2. plane.grants = registry.grants /\ \A d \in Device : plane.devices[d] = registry.devices[d]
          BY <4>1 DEF MirrorOK
        <4>3. plane.devices \in Devices /\ registry.devices \in Devices
          BY DEF RegistryTypeOK, Snapshot
        <4>4. plane.devices = registry.devices
          BY <4>2, <4>3 DEF Devices
        <4>. QED  BY <1>5, <1>7, <3>2, <4>1, <4>2, <4>4
      <3>. QED  BY <3>1, <3>2
    <2>. QED  BY <2>1 DEF MirrorOK
  <1>10. RegistryTypeOK'
    BY <1>2, <1>3, <1>4, <1>5, <1>6 DEF RegistryTypeOK
  <1>11. GrantsValid(registry)'
    BY <1>6 DEF GrantsValid, Known
  <1>. QED  BY <1>4, <1>8, <1>9, <1>10, <1>11

\* A request ends.
LEMMA DoneEffect ==
    ASSUME RegistryParts, NEW r \in Request, Done(r), requests[r].at # "committed"
    PROVE  /\ requests' \in [Request ->
                [at : {"idle", "share", "delete", "purge", "facts", "committed"},
                 device : Device \cup {NoDevice}, record : DeviceRecord \cup {NoDevice},
                 user : Person \cup {Nobody}]]
           /\ \A q \in Request : requests'[q] = requests[q] \/
                                 (requests'[q] = IdleRequest /\ requests[q].at # "committed")
           /\ arrivals' \in 0 .. MaxArrival
  BY DEF RegistryParts, RegistryTypeOK, Done, IdleRequest

\* A request that ends, or arrives and waits, with the stores as they are.
LEMMA RequestKeeps ==
    ASSUME RegistryParts, UNCHANGED <<registry, plane, planeFile, unsaved, commitFaults>>,
           UNCHANGED <<legacy, running, credentials, claims, migrated, reimported, planeStarts>>,
           people' \in SUBSET Person, arrivals' \in 0 .. MaxArrival, running,
           requests' \in [Request ->
             [at : {"idle", "share", "delete", "purge", "facts", "committed"},
              device : Device \cup {NoDevice}, record : DeviceRecord \cup {NoDevice},
              user : Person \cup {Nobody}]],
           \A q \in Request : requests'[q] = requests[q] \/
               (RequestOK(requests'[q]) /\ requests'[q].at # "committed" /\ requests[q].at # "committed")
    PROVE  RegistryParts'
  <1>. USE DEF RegistryParts
  <1>1. RegistryTypeOK'
    BY DEF RegistryTypeOK
  <1>2. GrantsValid(registry)' /\ StoresOK'
    BY DEF GrantsValid, Known, StoresOK, StoreOK, UsesLeft, HardwareValid
  <1>3. RequestsOK'
    BY DEF RequestsOK
  <1>4. ClaimsCommitted' = ClaimsCommitted /\ \A r \in ClaimsCommitted : requests'[r] = requests[r]
    BY DEF ClaimsCommitted
  <1>5. MirrorOK'
    BY <1>4 DEF MirrorOK
  <1>. QED  BY <1>1, <1>2, <1>3, <1>5

----------------------------------------------------------------------------
(* Every operation keeps the parts.                                        *)

\* Status reports rewrite the registry as it is.
LEMMA RewriteKeeps ==
    ASSUME RegistryParts, NEW d \in Device, NEW result \in CommitResult, Rewrite(d, result)
    PROVE  RegistryParts'
  <1>. USE DEF RegistryParts
  <1>1. /\ running /\ WriteRegistry(registry, registry, result) /\ RestUnchanged
        /\ requests' = requests /\ arrivals' = arrivals
    BY DEF Rewrite
  <1>2. /\ registry \in [devices : Devices, grants : Grants]
        /\ requests' \in [Request ->
             [at : {"idle", "share", "delete", "purge", "facts", "committed"},
              device : Device \cup {NoDevice}, record : DeviceRecord \cup {NoDevice},
              user : Person \cup {Nobody}]]
        /\ arrivals' \in 0 .. MaxArrival
    BY <1>1 DEF RegistryTypeOK
  <1>. QED  BY <1>1, <1>2, WriteKeeps

\* The registry with one device changed.
LEMMA PutType ==
    ASSUME RegistryTypeOK, NEW d \in Device, NEW record \in DeviceRecord
    PROVE  Put(d, record) \in [devices : Devices, grants : Grants]
  BY DEF RegistryTypeOK, Put, Devices

\* The registry without some of its devices.
LEMMA WithoutType ==
    ASSUME RegistryTypeOK, NEW gone \in SUBSET Device, GrantsValid(registry)
    PROVE  Without(gone) \in [devices : Devices, grants : Grants] /\ GrantsValid(Without(gone))
  <1>1. NoGrants \in [Person -> Level \cup {NoGrant}]
    BY DEF NoGrants
  <1>2. Without(gone) \in [devices : Devices, grants : Grants]
    BY <1>1 DEF RegistryTypeOK, Without, Devices, Grants
  <1>3. GrantsValid(Without(gone))
    BY DEF GrantsValid, Known, Without
  <1>. QED  BY <1>2, <1>3

\* deleteDevice keeps the parts.
LEMMA DeleteDeviceKeeps ==
    ASSUME RegistryParts, NEW r \in Request, NEW result \in CommitResult, DeleteDevice(r, result)
    PROVE  RegistryParts'
  <1>. USE DEF RegistryParts
  <1>0. PICK d : d = requests[r].device
    OBVIOUS
  <1>1. At(r, "delete") /\ Done(r) /\ RestUnchanged
    BY DEF DeleteDevice
  <1>2. running /\ requests[r].at = "delete" /\ d \in Device
    BY <1>0, <1>1 DEF At, RequestsOK, RequestOK
  <1>3. /\ requests' \in [Request ->
             [at : {"idle", "share", "delete", "purge", "facts", "committed"},
              device : Device \cup {NoDevice}, record : DeviceRecord \cup {NoDevice},
              user : Person \cup {Nobody}]]
        /\ \A q \in Request : requests'[q] = requests[q] \/
                              (requests'[q] = IdleRequest /\ requests[q].at # "committed")
        /\ arrivals' \in 0 .. MaxArrival
    BY <1>1, <1>2, DoneEffect
  <1>4. CASE registry.devices[d] # NoDevice
    <2>1. PICK kept : kept = [registry EXCEPT !.grants[d] = NoGrants]
      OBVIOUS
    <2>2. WriteRegistry(Without({d}), kept, result)
      BY <1>0, <1>4, <2>1 DEF DeleteDevice
    <2>3. Without({d}) \in [devices : Devices, grants : Grants]
      BY <1>2, WithoutType
    <2>4. kept \in [devices : Devices, grants : Grants] /\ GrantsValid(kept)
      <3>1. NoGrants \in [Person -> Level \cup {NoGrant}]
        BY DEF NoGrants
      <3>. QED  BY <1>2, <2>1, <3>1 DEF RegistryTypeOK, Grants, GrantsValid, Known
    <2>. QED  BY <1>1, <1>2, <1>3, <2>2, <2>3, <2>4, WriteKeeps
  <1>5. CASE registry.devices[d] = NoDevice
    <2>1. UNCHANGED <<registry, plane, planeFile, unsaved, commitFaults>>
      BY <1>0, <1>5 DEF DeleteDevice
    <2>2. RequestOK(IdleRequest) /\ IdleRequest.at # "committed"
      BY DEF RequestOK, IdleRequest
    <2>3. people' \in SUBSET Person
          /\ UNCHANGED <<legacy, running, credentials, claims, migrated, reimported, planeStarts>>
      BY <1>1 DEF RestUnchanged, RegistryTypeOK
    <2>4. \A q \in Request : requests'[q] = requests[q] \/
             (RequestOK(requests'[q]) /\ requests'[q].at # "committed" /\ requests[q].at # "committed")
      BY <1>3, <2>2
    <2>. QED  BY <1>2, <1>3, <2>1, <2>3, <2>4, RequestKeeps
  <1>. QED  BY <1>4, <1>5

\* A change of grants and devices that memory keeps whatever becomes of the write.
LEMMA OwnWriteKeeps ==
    ASSUME RegistryParts, NEW r \in Request, NEW next \in [devices : Devices, grants : Grants],
           GrantsValid(next), NEW result \in CommitResult, running, requests[r].at # "committed",
           Done(r), WriteRegistry(next, next, result), RestUnchanged
    PROVE  RegistryParts'
  <1>1. /\ requests' \in [Request ->
             [at : {"idle", "share", "delete", "purge", "facts", "committed"},
              device : Device \cup {NoDevice}, record : DeviceRecord \cup {NoDevice},
              user : Person \cup {Nobody}]]
        /\ \A q \in Request : requests'[q] = requests[q] \/
                              (requests'[q] = IdleRequest /\ requests[q].at # "committed")
        /\ arrivals' \in 0 .. MaxArrival
    BY DoneEffect
  <1>. QED  BY <1>1, WriteKeeps

\* A request that shares is about a device and a user.
LEMMA ShareEffect ==
    ASSUME RegistryParts, NEW r \in Request, At(r, "share")
    PROVE  /\ running /\ requests[r].device \in Device /\ requests[r].user \in Person
           /\ requests[r].at # "committed"
  BY DEF RegistryParts, RequestsOK, RequestOK, At

\* One grant changed.
LEMMA GrantType ==
    ASSUME RegistryTypeOK, GrantsValid(registry), NEW d \in Device, NEW u \in Person,
           NEW level \in Level \cup {NoGrant}, NEW next, next = [registry EXCEPT !.grants[d][u] = level],
           registry.devices[d] # NoDevice
    PROVE  next \in [devices : Devices, grants : Grants] /\ GrantsValid(next)
  <1>1. /\ registry.grants[d] \in [Person -> Level \cup {NoGrant}]
        /\ registry.grants \in Grants /\ registry.devices \in Devices
    BY DEF RegistryTypeOK, Grants
  <1>2. next = [devices |-> registry.devices,
                grants |-> [registry.grants EXCEPT ![d] = [registry.grants[d] EXCEPT ![u] = level]]]
    BY DEF RegistryTypeOK
  <1>3. [registry.grants[d] EXCEPT ![u] = level] \in [Person -> Level \cup {NoGrant}]
    BY <1>1
  <1>4. [registry.grants EXCEPT ![d] = [registry.grants[d] EXCEPT ![u] = level]] \in Grants
    BY <1>1, <1>3 DEF Grants
  <1>5. \A e \in Device : e # d => next.grants[e] = registry.grants[e]
    BY <1>1, <1>2 DEF Grants
  <1>6. next.devices = registry.devices
    BY <1>2
  <1>7. GrantsValid(next)
    BY <1>5, <1>6 DEF GrantsValid, Known
  <1>. QED  BY <1>1, <1>2, <1>4, <1>7

\* putGrant keeps the parts.
LEMMA SetGrantKeeps ==
    ASSUME RegistryParts, NEW r \in Request, NEW level \in Level, NEW result \in CommitResult,
           SetGrant(r, level, result)
    PROVE  RegistryParts'
  <1>. USE DEF RegistryParts
  <1>1. PICK next : next = [registry EXCEPT !.grants[requests[r].device][requests[r].user] = level]
    OBVIOUS
  <1>2. /\ At(r, "share") /\ Done(r) /\ registry.devices[requests[r].device] # NoDevice
        /\ WriteRegistry(next, next, result) /\ RestUnchanged
    BY <1>1 DEF SetGrant
  <1>3. /\ running /\ requests[r].device \in Device /\ requests[r].user \in Person
        /\ requests[r].at # "committed"
    BY <1>2, ShareEffect
  <1>4. next \in [devices : Devices, grants : Grants] /\ GrantsValid(next)
    BY <1>1, <1>2, <1>3, GrantType
  <1>. QED  BY <1>2, <1>3, <1>4, OwnWriteKeeps

\* deleteGrant keeps the parts.
LEMMA RevokeGrantKeeps ==
    ASSUME RegistryParts, NEW r \in Request, NEW u \in Person, NEW result \in CommitResult,
           RevokeGrant(r, u, result)
    PROVE  RegistryParts'
  <1>. USE DEF RegistryParts
  <1>1. PICK next : next = [registry EXCEPT !.grants[requests[r].device][u] = NoGrant]
    OBVIOUS
  <1>2. /\ At(r, "share") /\ Done(r) /\ registry.devices[requests[r].device] # NoDevice
        /\ WriteRegistry(next, next, result) /\ RestUnchanged
    BY <1>1 DEF RevokeGrant
  <1>3. /\ running /\ requests[r].device \in Device /\ requests[r].at # "committed"
    BY <1>2, ShareEffect
  <1>4. next \in [devices : Devices, grants : Grants] /\ GrantsValid(next)
    BY <1>1, <1>2, <1>3, GrantType
  <1>. QED  BY <1>2, <1>3, <1>4, OwnWriteKeeps

\* TransferOwnership keeps the parts.
LEMMA TransferOwnershipKeeps ==
    ASSUME RegistryParts, NEW r \in Request, NEW retain \in Level \cup {NoGrant},
           NEW result \in CommitResult, TransferOwnership(r, retain, result)
    PROVE  RegistryParts'
  <1>. USE DEF RegistryParts
  <1>1. PICK d, u : d = requests[r].device /\ u = requests[r].user
    OBVIOUS
  <1>2. PICK granted : granted = [p \in Person |-> IF p = u THEN NoGrant
                                     ELSE IF p = registry.devices[d].owner THEN retain
                                     ELSE registry.grants[d][p]]
    OBVIOUS
  <1>3. PICK next : next = [devices |-> [registry.devices EXCEPT ![d].owner = u],
                            grants |-> [registry.grants EXCEPT ![d] = granted]]
    OBVIOUS
  <1>4. /\ At(r, "share") /\ Done(r) /\ registry.devices[d] # NoDevice
        /\ WriteRegistry(next, next, result) /\ RestUnchanged
    BY <1>1, <1>2, <1>3 DEF TransferOwnership
  <1>5. running /\ d \in Device /\ u \in Person /\ requests[r].at # "committed"
    BY <1>1, <1>4, ShareEffect
  <1>6. /\ registry.devices \in Devices /\ registry.devices[d] \in DeviceRecord
        /\ registry.grants \in Grants /\ registry.grants[d] \in [Person -> Level \cup {NoGrant}]
    BY <1>4, <1>5 DEF RegistryTypeOK, Devices, Grants
  <1>7. granted \in [Person -> Level \cup {NoGrant}]
    BY <1>2, <1>6
  <1>8. [registry.grants EXCEPT ![d] = granted] \in Grants
    BY <1>6, <1>7 DEF Grants
  <1>9. [registry.devices[d] EXCEPT !.owner = u] \in DeviceRecord
    BY <1>5, <1>6 DEF DeviceRecord
  <1>10. /\ [registry.devices EXCEPT ![d].owner = u]
              = [registry.devices EXCEPT ![d] = [registry.devices[d] EXCEPT !.owner = u]]
         /\ [registry.devices EXCEPT ![d].owner = u] \in Devices
    BY <1>5, <1>6, <1>9 DEF Devices
  <1>11. /\ next.devices \in Devices /\ next.grants \in Grants
         /\ next \in [devices : Devices, grants : Grants]
         /\ \A e \in Device : e # d => next.grants[e] = registry.grants[e]
                                       /\ next.devices[e] = registry.devices[e]
         /\ next.devices[d] \in DeviceRecord
    BY <1>3, <1>5, <1>6, <1>8, <1>9, <1>10 DEF Devices, Grants
  <1>12. NoDevice \notin DeviceRecord
    BY RegistryAssumption DEF DeviceRecord
  <1>13. GrantsValid(next)
    BY <1>4, <1>11, <1>12 DEF GrantsValid, Known
  <1>. QED  BY <1>4, <1>5, <1>11, <1>13, OwnWriteKeeps

\* DeleteDevicesByOwner keeps the parts.
LEMMA DeleteDevicesByOwnerKeeps ==
    ASSUME RegistryParts, NEW r \in Request, NEW result \in CommitResult, DeleteDevicesByOwner(r, result)
    PROVE  RegistryParts'
  <1>. USE DEF RegistryParts
  <1>1. PICK next : next = WithoutOwned(requests[r].user)
    OBVIOUS
  <1>2. At(r, "purge") /\ Done(r) /\ RestUnchanged
    BY DEF DeleteDevicesByOwner
  <1>3. running /\ requests[r].at = "purge"
    BY <1>2 DEF At
  <1>4. next \in [devices : Devices, grants : Grants] /\ GrantsValid(next)
    BY <1>1, WithoutType DEF WithoutOwned, Known
  <1>5. CASE next # registry
    BY <1>1, <1>2, <1>3, <1>4, <1>5, OwnWriteKeeps DEF DeleteDevicesByOwner
  <1>6. CASE next = registry
    <2>1. UNCHANGED <<registry, plane, planeFile, unsaved, commitFaults>>
      BY <1>1, <1>6 DEF DeleteDevicesByOwner
    <2>2. RequestOK(IdleRequest) /\ IdleRequest.at # "committed"
      BY DEF RequestOK, IdleRequest
    <2>3. people' \in SUBSET Person
          /\ UNCHANGED <<legacy, running, credentials, claims, migrated, reimported, planeStarts>>
      BY <1>2 DEF RestUnchanged, RegistryTypeOK
    <2>4. /\ requests' \in [Request ->
               [at : {"idle", "share", "delete", "purge", "facts", "committed"},
                device : Device \cup {NoDevice}, record : DeviceRecord \cup {NoDevice},
                user : Person \cup {Nobody}]]
          /\ \A q \in Request : requests'[q] = requests[q] \/
                                (requests'[q] = IdleRequest /\ requests[q].at # "committed")
          /\ arrivals' \in 0 .. MaxArrival
      BY <1>2, <1>3, DoneEffect
    <2>5. \A q \in Request : requests'[q] = requests[q] \/
             (RequestOK(requests'[q]) /\ requests'[q].at # "committed" /\ requests[q].at # "committed")
      BY <2>2, <2>4
    <2>. QED  BY <1>3, <2>1, <2>3, <2>4, <2>5, RequestKeeps
  <1>. QED  BY <1>5, <1>6

\* The check of a request of a user keeps the parts.
LEMMA AllowKeeps ==
    ASSUME RegistryParts, NEW r \in Request, NEW u \in Person, NEW target \in Person, NEW d \in Device,
           NEW permission \in {"share", "delete"}, Allow(r, u, permission, d, target)
    PROVE  RegistryParts'
  <1>. USE DEF RegistryParts
  <1>1. /\ running /\ requests[r].at = "idle" /\ arrivals < MaxArrival /\ arrivals' = arrivals + 1
        /\ requests' = [requests EXCEPT ![r] =
              [at |-> permission, device |-> d, record |-> NoDevice, user |-> target]]
        /\ UNCHANGED <<registry, plane, planeFile, unsaved, commitFaults>>
        /\ UNCHANGED <<legacy, running, people, credentials, claims, migrated, reimported, planeStarts>>
    BY DEF Allow, Arrives, At, Waiting, RestUnchanged
  <1>2. /\ arrivals' \in 0 .. MaxArrival /\ people' \in SUBSET Person
        /\ requests' \in [Request ->
             [at : {"idle", "share", "delete", "purge", "facts", "committed"},
              device : Device \cup {NoDevice}, record : DeviceRecord \cup {NoDevice},
              user : Person \cup {Nobody}]]
    BY <1>1, RegistryAssumption DEF RegistryTypeOK
  <1>3. RequestOK([at |-> permission, device |-> d, record |-> NoDevice, user |-> target])
    BY DEF RequestOK
  <1>4. \A q \in Request : requests'[q] = requests[q] \/
             (RequestOK(requests'[q]) /\ requests'[q].at # "committed" /\ requests[q].at # "committed")
    BY <1>1, <1>3 DEF RegistryTypeOK
  <1>. QED  BY <1>1, <1>2, <1>4, RequestKeeps

\* The first half of deleteUser keeps the parts.
LEMMA DeleteUserKeeps ==
    ASSUME RegistryParts, NEW r \in Request, NEW u \in Person, DeleteUser(r, u)
    PROVE  RegistryParts'
  <1>. USE DEF RegistryParts
  <1>1. /\ running /\ requests[r].at = "idle" /\ arrivals < MaxArrival /\ arrivals' = arrivals + 1
        /\ requests' = [requests EXCEPT ![r] =
              [at |-> "purge", device |-> NoDevice, record |-> NoDevice, user |-> u]]
        /\ UNCHANGED <<registry, plane, planeFile, unsaved, commitFaults>>
        /\ UNCHANGED <<legacy, running, credentials, claims, migrated, reimported, planeStarts>>
        /\ people' = people \ {u}
    BY DEF DeleteUser, Arrives, At, Waiting
  <1>2. /\ arrivals' \in 0 .. MaxArrival /\ people' \in SUBSET Person
        /\ requests' \in [Request ->
             [at : {"idle", "share", "delete", "purge", "facts", "committed"},
              device : Device \cup {NoDevice}, record : DeviceRecord \cup {NoDevice},
              user : Person \cup {Nobody}]]
    BY <1>1, RegistryAssumption DEF RegistryTypeOK
  <1>3. RequestOK([at |-> "purge", device |-> NoDevice, record |-> NoDevice, user |-> u])
    BY DEF RequestOK
  <1>4. \A q \in Request : requests'[q] = requests[q] \/
             (RequestOK(requests'[q]) /\ requests'[q].at # "committed" /\ requests[q].at # "committed")
    BY <1>1, <1>3 DEF RegistryTypeOK
  <1>. QED  BY <1>1, <1>2, <1>4, RequestKeeps

\* The first half of putDeviceFacts keeps the parts.
LEMMA FactsGetKeeps ==
    ASSUME RegistryParts, NEW r \in Request, NEW d \in Device, FactsGet(r, d)
    PROVE  RegistryParts'
  <1>. USE DEF RegistryParts
  <1>1. /\ running /\ requests[r].at = "idle" /\ arrivals < MaxArrival /\ arrivals' = arrivals + 1
        /\ registry.devices[d] # NoDevice
        /\ requests' = [requests EXCEPT ![r] =
              [at |-> "facts", device |-> d, record |-> registry.devices[d], user |-> Nobody]]
        /\ UNCHANGED <<registry, plane, planeFile, unsaved, commitFaults>>
        /\ UNCHANGED <<legacy, running, people, credentials, claims, migrated, reimported, planeStarts>>
    BY DEF FactsGet, Arrives, At, Waiting, RestUnchanged
  <1>2. registry.devices[d] \in DeviceRecord
    BY <1>1 DEF RegistryTypeOK, Devices
  <1>3. /\ arrivals' \in 0 .. MaxArrival /\ people' \in SUBSET Person
        /\ requests' \in [Request ->
             [at : {"idle", "share", "delete", "purge", "facts", "committed"},
              device : Device \cup {NoDevice}, record : DeviceRecord \cup {NoDevice},
              user : Person \cup {Nobody}]]
    BY <1>1, <1>2, RegistryAssumption DEF RegistryTypeOK
  <1>4. RequestOK([at |-> "facts", device |-> d, record |-> registry.devices[d], user |-> Nobody])
    BY <1>2 DEF RequestOK
  <1>5. \A q \in Request : requests'[q] = requests[q] \/
             (RequestOK(requests'[q]) /\ requests'[q].at # "committed" /\ requests[q].at # "committed")
    BY <1>1, <1>4 DEF RegistryTypeOK
  <1>. QED  BY <1>1, <1>3, <1>5, RequestKeeps

\* A request that is refused keeps the parts.
LEMMA ShareRefusedKeeps ==
    ASSUME RegistryParts, NEW r \in Request, ShareRefused(r)
    PROVE  RegistryParts'
  <1>. USE DEF RegistryParts
  <1>1. /\ At(r, "share") /\ Done(r)
        /\ UNCHANGED <<registry, plane, planeFile, unsaved, commitFaults>>
        /\ UNCHANGED <<legacy, running, people, credentials, claims, migrated, reimported, planeStarts>>
    BY DEF ShareRefused, RestUnchanged
  <1>2. running /\ requests[r].at # "committed" /\ people' \in SUBSET Person
    BY <1>1 DEF At, RegistryTypeOK
  <1>3. /\ requests' \in [Request ->
             [at : {"idle", "share", "delete", "purge", "facts", "committed"},
              device : Device \cup {NoDevice}, record : DeviceRecord \cup {NoDevice},
              user : Person \cup {Nobody}]]
        /\ \A q \in Request : requests'[q] = requests[q] \/
                              (requests'[q] = IdleRequest /\ requests[q].at # "committed")
        /\ arrivals' \in 0 .. MaxArrival
    BY <1>1, <1>2, DoneEffect
  <1>4. RequestOK(IdleRequest) /\ IdleRequest.at # "committed"
    BY DEF RequestOK, IdleRequest
  <1>5. \A q \in Request : requests'[q] = requests[q] \/
             (RequestOK(requests'[q]) /\ requests'[q].at # "committed" /\ requests[q].at # "committed")
    BY <1>3, <1>4
  <1>. QED  BY <1>1, <1>2, <1>3, <1>5, RequestKeeps

\* The second half of putDeviceFacts keeps the parts, stale as its copy may be.
LEMMA FactsSaveKeeps ==
    ASSUME RegistryParts, NEW r \in Request, NEW hardware \in Fingerprint \cup {NoFingerprint},
           NEW result \in CommitResult, FactsSave(r, hardware, result)
    PROVE  RegistryParts'
  <1>. USE DEF RegistryParts
  <1>1. PICK record : record = IF hardware = NoFingerprint THEN requests[r].record
                               ELSE [requests[r].record EXCEPT !.hardware = hardware]
    OBVIOUS
  <1>2. /\ At(r, "facts") /\ Done(r) /\ RestUnchanged
        /\ WriteRegistry(Put(requests[r].device, record), registry, result)
    BY <1>1 DEF FactsSave, Save
  <1>3. /\ running /\ requests[r].at # "committed"
        /\ requests[r].device \in Device /\ requests[r].record \in DeviceRecord
    BY <1>2 DEF At, RequestsOK, RequestOK
  <1>4. record \in DeviceRecord
    BY <1>1, <1>3 DEF DeviceRecord
  <1>5. /\ Put(requests[r].device, record) \in [devices : Devices, grants : Grants]
        /\ registry \in [devices : Devices, grants : Grants]
    BY <1>3, <1>4, PutType DEF RegistryTypeOK
  <1>6. /\ requests' \in [Request ->
             [at : {"idle", "share", "delete", "purge", "facts", "committed"},
              device : Device \cup {NoDevice}, record : DeviceRecord \cup {NoDevice},
              user : Person \cup {Nobody}]]
        /\ \A q \in Request : requests'[q] = requests[q] \/
                              (requests'[q] = IdleRequest /\ requests[q].at # "committed")
        /\ arrivals' \in 0 .. MaxArrival
    BY <1>2, <1>3, DoneEffect
  <1>. QED  BY <1>2, <1>3, <1>5, <1>6, WriteKeeps

\* A claim token written or deleted.
LEMMA TokenKeeps ==
    ASSUME RegistryParts, NEW t \in ClaimToken, NEW token \in Token, NEW result \in CommitResult,
           token.uses > 0 => token.owner \in Person, t = "api" => claims + token.uses <= MaxUses,
           Commit([plane EXCEPT !.tokens[t] = token], result), running,
           UNCHANGED <<registry, unsaved, requests, arrivals>>, RestUnchanged
    PROVE  RegistryParts'
  <1>. USE DEF RegistryParts
  <1>1. PICK next : next = [plane EXCEPT !.tokens[t] = token]
    OBVIOUS
  <1>2. UNCHANGED <<legacy, running, people, credentials, claims, migrated, reimported, planeStarts>>
    BY DEF RestUnchanged
  <1>3. plane.tokens \in [ClaimToken -> Token]
    BY DEF RegistryTypeOK, Snapshot
  <1>4. /\ next.devices = plane.devices /\ next.grants = plane.grants
        /\ next.tokens = [plane.tokens EXCEPT ![t] = token]
    BY <1>1 DEF RegistryTypeOK, Snapshot
  <1>5. next.tokens[t] = token /\ \A e \in ClaimToken : e # t => next.tokens[e] = plane.tokens[e]
    BY <1>3, <1>4
  <1>6. next \in Snapshot
    BY <1>1, <1>3 DEF RegistryTypeOK, Snapshot
  <1>7. UsesLeft(next) /\ \A e \in ClaimToken : next.tokens[e].uses > 0 => next.tokens[e].owner \in Person
    BY <1>5 DEF StoresOK, StoreOK, UsesLeft, ClaimToken
  <1>8. StoresOK' /\ plane' \in Snapshot /\ planeFile' \in Snapshot
    BY <1>1, <1>2, <1>6, <1>7, CommitKeeps
  <1>9. commitFaults' \in 0 .. MaxCommitFault /\ (plane' = plane \/ plane' = next)
    BY <1>1, <1>6, CommitEffect
  <1>10. RegistryTypeOK'
    BY <1>2, <1>8, <1>9 DEF RegistryTypeOK
  <1>11. GrantsValid(registry)' /\ RequestsOK'
    BY <1>2 DEF GrantsValid, Known, RequestsOK
  <1>12. plane'.devices = plane.devices /\ plane'.grants = plane.grants /\ ClaimsCommitted' = ClaimsCommitted
    BY <1>4, <1>9 DEF ClaimsCommitted
  <1>13. MirrorOK'
    BY <1>2, <1>12 DEF MirrorOK
  <1>. QED  BY <1>8, <1>10, <1>11, <1>13

\* createEnrollmentToken keeps the parts.
LEMMA CreateClaimTokenKeeps ==
    ASSUME RegistryParts, NEW u \in Person, NEW result \in CommitResult, CreateClaimToken(u, result)
    PROVE  RegistryParts'
  <1>1. /\ running /\ claims = 0
        /\ Commit([plane EXCEPT !.tokens["api"] = [uses |-> MaxUses, owner |-> u]], result)
        /\ UNCHANGED <<registry, unsaved, requests, arrivals>> /\ RestUnchanged
    BY DEF CreateClaimToken
  <1>2. PICK token : token = [uses |-> MaxUses, owner |-> u]
    OBVIOUS
  <1>3. /\ token \in Token /\ token.owner \in Person /\ claims + token.uses <= MaxUses
        /\ "api" \in ClaimToken
    BY <1>1, <1>2, RegistryAssumption DEF Token, ClaimToken
  <1>. QED  BY <1>1, <1>2, <1>3, TokenKeeps

\* deleteEnrollmentToken keeps the parts.
LEMMA RevokeClaimTokenKeeps ==
    ASSUME RegistryParts, NEW t \in ClaimToken, NEW result \in CommitResult, RevokeClaimToken(t, result)
    PROVE  RegistryParts'
  <1>1. /\ running /\ Commit([plane EXCEPT !.tokens[t] = NoToken], result)
        /\ UNCHANGED <<registry, unsaved, requests, arrivals>> /\ RestUnchanged
    BY DEF RevokeClaimToken
  <1>2. NoToken \in Token /\ NoToken.uses = 0
    BY RegistryAssumption DEF Token, NoToken
  <1>3. claims + 0 <= MaxUses
    <2>1. plane.tokens["api"].uses \in 0 .. MaxUses /\ claims + plane.tokens["api"].uses <= MaxUses
          /\ claims \in Nat
      BY DEF RegistryParts, RegistryTypeOK, StoresOK, UsesLeft, Snapshot, Token, ClaimToken
    <2>. QED  BY <2>1, RegistryAssumption
  <1>. QED  BY <1>1, <1>2, <1>3, TokenKeeps

\* What is left of a token that was used once.
LEMMA SpentLess ==
    ASSUME NEW token \in Token, Usable(token)
    PROVE  Spent(token) \in Token /\ Spent(token).uses = token.uses - 1
           /\ (Spent(token).uses > 0 => Spent(token).owner = token.owner)
  <1>1. token.uses \in 0 .. MaxUses /\ token.uses > 0 /\ token.owner \in Person \cup {Nobody}
        /\ token = [uses |-> token.uses, owner |-> token.owner]
    BY DEF Token, Usable
  <1>2. CASE token.uses = 1
    BY <1>1, <1>2, RegistryAssumption DEF Spent, NoToken, Token
  <1>3. CASE token.uses # 1
    BY <1>1, <1>3, RegistryAssumption DEF Spent, Token
  <1>. QED  BY <1>2, <1>3

\* A claim keeps the parts: no other claim under way is for the device it gets, and
\* the use it takes is gone in whatever it stored.
LEMMA ClaimDeviceKeeps ==
    ASSUME RegistryParts, NEW r \in Request, NEW t \in ClaimToken, NEW fresh \in Device,
           NEW hardware \in Fingerprint \cup {NoFingerprint}, NEW result \in CommitResult,
           ClaimDevice(r, t, fresh, hardware, result)
    PROVE  RegistryParts'
  <1>. USE DEF RegistryParts
  <1>1. PICK token, same : /\ token = plane.tokens[t]
                           /\ same = {d \in Known(plane) : hardware # NoFingerprint
                                                           /\ plane.devices[d].hardware = hardware}
    OBVIOUS
  <1>2. PICK id, record :
          /\ id = IF same = {} THEN fresh ELSE CHOOSE d \in same : TRUE
          /\ record = [owner |-> token.owner, credential |-> credentials + 1, hardware |-> hardware]
    OBVIOUS
  <1>3. PICK next : next = [plane EXCEPT !.devices[id] = record, !.tokens[t] = Spent(token)]
    OBVIOUS
  <1>4. /\ Arrives(r) /\ Usable(token) /\ credentials < MaxClaim /\ fresh \in Fresh
        /\ \A d \in same : plane.devices[d].owner = token.owner /\ ~JustClaimed(d)
        /\ Commit(next, result) /\ credentials' = credentials + 1
        /\ claims' = IF result = "ok" /\ t = "api" THEN claims + 1 ELSE claims
        /\ IF result = "ok" THEN Waiting(r, "committed", id, record, Nobody) ELSE UNCHANGED requests
        /\ UNCHANGED <<registry, unsaved, legacy, running, people, migrated, reimported, planeStarts>>
    BY <1>1, <1>2, <1>3 DEF ClaimDevice
  <1>5. /\ running /\ requests[r].at = "idle" /\ arrivals' \in 0 .. MaxArrival
        /\ credentials' \in 0 .. MaxClaim /\ credentials + 1 \in 0 .. MaxClaim
    BY <1>4, RegistryAssumption DEF Arrives, At, RegistryTypeOK
  <1>6. /\ token \in Token /\ token.uses > 0 /\ token.owner \in Person
        /\ plane.tokens \in [ClaimToken -> Token] /\ plane.devices \in Devices
    BY <1>1, <1>4 DEF RegistryTypeOK, Snapshot, Usable, StoresOK, StoreOK
  <1>7. id \in Device /\ (same # {} => id \in same)
    BY <1>1, <1>2 DEF Known
  <1>8. record \in DeviceRecord
    BY <1>2, <1>5, <1>6 DEF DeviceRecord
  <1>9. Spent(token) \in Token /\ Spent(token).uses = token.uses - 1
        /\ (Spent(token).uses > 0 => Spent(token).owner = token.owner)
    BY <1>4, <1>6, SpentLess
  <1>10. /\ next.devices = [plane.devices EXCEPT ![id] = record] /\ next.grants = plane.grants
         /\ next.tokens = [plane.tokens EXCEPT ![t] = Spent(token)]
         /\ next = [devices |-> next.devices, grants |-> next.grants, tokens |-> next.tokens]
    BY <1>3 DEF RegistryTypeOK, Snapshot
  <1>11. /\ next.devices \in Devices /\ next.devices[id] = record
         /\ \A d \in Device : d # id => next.devices[d] = plane.devices[d]
         /\ next.tokens \in [ClaimToken -> Token] /\ next.tokens[t] = Spent(token)
         /\ \A e \in ClaimToken : e # t => next.tokens[e] = plane.tokens[e]
    BY <1>6, <1>7, <1>8, <1>9, <1>10 DEF Devices
  <1>12. next \in Snapshot
    BY <1>10, <1>11 DEF RegistryTypeOK, Snapshot
  <1>13. /\ commitFaults' \in 0 .. MaxCommitFault
         /\ plane' = plane \/ (plane' = next /\ ValidSnapshot(next))
         /\ planeFile' = planeFile \/ (planeFile' = next /\ ValidSnapshot(next))
         /\ result = "ok" => plane' = next /\ planeFile' = next /\ ValidSnapshot(next)
         /\ result # "ok" => plane' = plane
    BY <1>4, <1>12, CommitEffect
  <1>14. \A e \in ClaimToken : next.tokens[e].uses > 0 => next.tokens[e].owner \in Person
    BY <1>6, <1>9, <1>11 DEF StoresOK, StoreOK
  <1>15. ValidSnapshot(next) => StoreOK(next)
    BY <1>12, <1>14 DEF StoreOK, ValidSnapshot
  <1>16. /\ claims \in Nat /\ "api" \in ClaimToken
         /\ plane.tokens["api"].uses \in 0 .. MaxUses /\ planeFile.tokens["api"].uses \in 0 .. MaxUses
         /\ next.tokens["api"].uses \in 0 .. MaxUses
    BY <1>11 DEF RegistryTypeOK, Snapshot, Token, ClaimToken
  <1>17. /\ claims + next.tokens["api"].uses <= MaxUses
         /\ t = "api" => (claims + 1) + next.tokens["api"].uses <= MaxUses
    <2>1. claims + plane.tokens["api"].uses <= MaxUses
      BY DEF StoresOK, UsesLeft
    <2>2. CASE t = "api"
      <3>1. next.tokens["api"].uses = plane.tokens["api"].uses - 1
        BY <1>1, <1>9, <1>11, <2>2
      <3>. QED  BY <1>16, <2>1, <2>2, <3>1, RegistryAssumption
    <2>3. CASE t # "api"
      BY <1>11, <1>16, <2>1, <2>3
    <2>. QED  BY <2>2, <2>3
  <1>18. /\ claims' \in Nat /\ claims' + plane'.tokens["api"].uses <= MaxUses
         /\ claims' + planeFile'.tokens["api"].uses <= MaxUses
    <2>1. claims + plane.tokens["api"].uses <= MaxUses /\ claims + planeFile.tokens["api"].uses <= MaxUses
      BY DEF StoresOK, UsesLeft
    <2>2. CASE result = "ok" /\ t = "api"
      BY <1>4, <1>13, <1>16, <1>17, <2>2
    <2>3. CASE ~(result = "ok" /\ t = "api")
      BY <1>4, <1>13, <1>16, <1>17, <2>1, <2>3
    <2>. QED  BY <2>2, <2>3
  <1>19. StoresOK'
    <2>1. StoreOK(plane') /\ StoreOK(planeFile')
      BY <1>13, <1>15 DEF StoresOK
    <2>. QED  BY <1>4, <1>18, <2>1 DEF StoresOK, StoreOK, UsesLeft
  <1>20. plane' \in Snapshot /\ planeFile' \in Snapshot
    BY <1>12, <1>13 DEF RegistryTypeOK
  <1>21. /\ requests' \in [Request ->
              [at : {"idle", "share", "delete", "purge", "facts", "committed"},
               device : Device \cup {NoDevice}, record : DeviceRecord \cup {NoDevice},
               user : Person \cup {Nobody}]]
         /\ \A q \in Request : q # r => requests'[q] = requests[q]
         /\ requests'[r] = IF result = "ok"
                           THEN [at |-> "committed", device |-> id, record |-> record, user |-> Nobody]
                           ELSE requests[r]
    BY <1>4, <1>7, <1>8 DEF RegistryTypeOK, Waiting
  <1>22. RequestsOK'
    <2>1. RequestOK([at |-> "committed", device |-> id, record |-> record, user |-> Nobody])
      BY <1>7, <1>8 DEF RequestOK
    <2>2. \A q \in Request : RequestOK(requests'[q])
      BY <1>21, <2>1 DEF RequestsOK
    <2>. QED  BY <1>4, <1>5, <2>2 DEF RequestsOK
  <1>23. RegistryTypeOK'
    BY <1>4, <1>5, <1>13, <1>18, <1>20, <1>21 DEF RegistryTypeOK
  <1>24. GrantsValid(registry)'
    BY <1>4 DEF GrantsValid, Known
  <1>25. MirrorOK'
    <2>1. SUFFICES ASSUME ~unsaved
                   PROVE  /\ plane'.grants = registry.grants
                          /\ \A q \in ClaimsCommitted' :
                                requests'[q].record = plane'.devices[requests'[q].device]
                          /\ \A d \in Device : (\A q \in ClaimsCommitted' : requests'[q].device # d) =>
                                plane'.devices[d] = registry.devices[d]
      BY <1>4 DEF MirrorOK
    <2>2. /\ plane.grants = registry.grants
          /\ \A q \in ClaimsCommitted : requests[q].record = plane.devices[requests[q].device]
          /\ \A d \in Device : (\A q \in ClaimsCommitted : requests[q].device # d) =>
                plane.devices[d] = registry.devices[d]
      BY <1>5, <2>1 DEF MirrorOK
    <2>3. CASE result = "ok"
      <3>1. ClaimsCommitted' = ClaimsCommitted \cup {r} /\ r \notin ClaimsCommitted
        BY <1>5, <1>21, <2>3 DEF ClaimsCommitted
      <3>2. \A q \in ClaimsCommitted : requests[q].device \in Device /\ requests[q].record \in DeviceRecord
        BY DEF RequestsOK, RequestOK, ClaimsCommitted
      <3>3. NoDevice \notin DeviceRecord
        BY RegistryAssumption DEF DeviceRecord
      <3>4. \A q \in ClaimsCommitted : requests[q].device # id
        <4>1. CASE same = {}
          <5>1. plane.devices[id] = NoDevice
            BY <1>2, <1>4, <4>1 DEF Fresh
          <5>. QED  BY <2>2, <3>2, <3>3, <5>1
        <4>2. CASE same # {}
          BY <1>4, <1>7, <4>2 DEF JustClaimed
        <4>. QED  BY <4>1, <4>2
      <3>5. plane'.grants = registry.grants /\ plane'.devices = next.devices
        BY <1>10, <1>13, <2>2, <2>3
      <3>6. \A q \in ClaimsCommitted' : requests'[q].record = plane'.devices[requests'[q].device]
        <4>1. requests'[r].record = plane'.devices[requests'[r].device]
          BY <1>11, <1>21, <2>3, <3>5
        <4>2. \A q \in ClaimsCommitted : /\ requests'[q] = requests[q]
                                         /\ plane'.devices[requests[q].device]
                                               = plane.devices[requests[q].device]
          BY <1>11, <1>21, <3>1, <3>2, <3>4, <3>5 DEF ClaimsCommitted
        <4>. QED  BY <2>2, <3>1, <4>1, <4>2
      <3>7. ASSUME NEW d \in Device, \A q \in ClaimsCommitted' : requests'[q].device # d
            PROVE  plane'.devices[d] = registry.devices[d]
        <4>1. d # id
          BY <1>21, <2>3, <3>1, <3>7
        <4>2. \A q \in ClaimsCommitted : requests[q].device # d
          BY <1>21, <3>1, <3>7 DEF ClaimsCommitted
        <4>. QED  BY <1>11, <2>2, <3>5, <4>1, <4>2
      <3>. QED  BY <3>5, <3>6, <3>7
    <2>4. CASE result # "ok"
      <3>1. requests' = requests /\ plane' = plane
        BY <1>4, <1>13, <2>4
      <3>2. ClaimsCommitted' = ClaimsCommitted
        BY <3>1 DEF ClaimsCommitted
      <3>. QED  BY <2>2, <3>1, <3>2
    <2>. QED  BY <2>3, <2>4
  <1>. QED  BY <1>19, <1>22, <1>23, <1>24, <1>25

\* A committed claim put into the registry keeps the parts.
LEMMA ApplyCommittedDeviceKeeps ==
    ASSUME RegistryParts, NEW r \in Request, ApplyCommittedDevice(r)
    PROVE  RegistryParts'
  <1>. USE DEF RegistryParts
  <1>1. PICK d, record : d = requests[r].device /\ record = requests[r].record
    OBVIOUS
  <1>2. /\ running /\ requests[r].at = "committed"
        /\ requests' = [requests EXCEPT ![r] = IdleRequest] /\ arrivals' = arrivals
        /\ registry' = Put(d, record)
        /\ UNCHANGED <<plane, planeFile, unsaved, commitFaults>>
        /\ UNCHANGED <<legacy, running, people, credentials, claims, migrated, reimported, planeStarts>>
    BY <1>1 DEF ApplyCommittedDevice, At, Done, RestUnchanged
  <1>3. d \in Device /\ record \in DeviceRecord /\ NoDevice \notin DeviceRecord
    BY <1>1, <1>2, RegistryAssumption DEF RequestsOK, RequestOK, DeviceRecord
  <1>4. registry' \in [devices : Devices, grants : Grants]
    BY <1>2, <1>3, PutType
  <1>5. /\ registry'.grants = registry.grants /\ registry'.devices[d] = record
        /\ \A e \in Device : e # d => registry'.devices[e] = registry.devices[e]
    BY <1>2, <1>3 DEF Put, RegistryTypeOK, Devices
  <1>6. GrantsValid(registry)'
    BY <1>3, <1>5 DEF GrantsValid, Known
  <1>7. /\ requests'[r] = IdleRequest /\ \A q \in Request : q # r => requests'[q] = requests[q]
        /\ requests' \in [Request ->
             [at : {"idle", "share", "delete", "purge", "facts", "committed"},
              device : Device \cup {NoDevice}, record : DeviceRecord \cup {NoDevice},
              user : Person \cup {Nobody}]]
    BY <1>2 DEF RegistryTypeOK, IdleRequest
  <1>8. RegistryTypeOK' /\ StoresOK'
    BY <1>2, <1>4, <1>7 DEF RegistryTypeOK, StoresOK, StoreOK, UsesLeft, GrantsValid, HardwareValid, Known
  <1>9. RequestsOK'
    <2>1. RequestOK(IdleRequest)
      BY DEF RequestOK, IdleRequest
    <2>. QED  BY <1>2, <1>7, <2>1 DEF RequestsOK
  <1>10. ClaimsCommitted' = ClaimsCommitted \ {r}
    BY <1>2, <1>7 DEF ClaimsCommitted, IdleRequest
  <1>11. MirrorOK'
    <2>1. SUFFICES ASSUME ~unsaved
                   PROVE  /\ plane.grants = registry'.grants
                          /\ \A q \in ClaimsCommitted' :
                                requests'[q].record = plane.devices[requests'[q].device]
                          /\ \A e \in Device : (\A q \in ClaimsCommitted' : requests'[q].device # e) =>
                                plane.devices[e] = registry'.devices[e]
      BY <1>2 DEF MirrorOK
    <2>2. /\ plane.grants = registry.grants
          /\ \A q \in ClaimsCommitted : requests[q].record = plane.devices[requests[q].device]
          /\ \A e \in Device : (\A q \in ClaimsCommitted : requests[q].device # e) =>
                plane.devices[e] = registry.devices[e]
      BY <1>2, <2>1 DEF MirrorOK
    <2>3. r \in ClaimsCommitted
      BY <1>2 DEF ClaimsCommitted
    <2>4. plane.devices[d] = registry'.devices[d]
      BY <1>1, <1>5, <2>2, <2>3
    <2>5. \A q \in ClaimsCommitted' : q \in ClaimsCommitted /\ requests'[q] = requests[q]
      BY <1>7, <1>10 DEF ClaimsCommitted
    <2>6. ASSUME NEW e \in Device, \A q \in ClaimsCommitted' : requests'[q].device # e, e # d
          PROVE  plane.devices[e] = registry'.devices[e]
      <3>1. \A q \in ClaimsCommitted : requests[q].device # e
        BY <1>1, <1>10, <2>5, <2>6
      <3>. QED  BY <1>5, <2>2, <2>6, <3>1
    <2>. QED  BY <1>5, <2>2, <2>4, <2>5, <2>6
  <1>. QED  BY <1>6, <1>8, <1>9, <1>11

\* The start of the server keeps the parts: what it imports is valid or refused.
LEMMA StartPlaneKeeps ==
    ASSUME RegistryParts, NEW result \in CommitResult, StartPlane(result)
    PROVE  RegistryParts'
  <1>. USE DEF RegistryParts
  <1>1. PICK next : next = Imported(planeFile)
    OBVIOUS
  <1>2. /\ ~running /\ planeStarts < MaxStart /\ planeStarts' = planeStarts + 1
        /\ result # "ok" /\ ValidSnapshot(next) => commitFaults < MaxCommitFault
        /\ ~ValidSnapshot(next) => result = "failed"
        /\ commitFaults' = IF result # "ok" /\ ValidSnapshot(next) THEN commitFaults + 1 ELSE commitFaults
        /\ planeFile' = IF result = "failed" THEN planeFile ELSE next
        /\ plane' = IF result = "ok" THEN next ELSE planeFile
        /\ running' = (result = "ok") /\ unsaved' = FALSE
        /\ registry' = IF result = "ok" THEN [devices |-> next.devices, grants |-> next.grants] ELSE registry
        /\ UNCHANGED <<legacy, people, requests, arrivals, credentials, claims>>
    BY <1>1 DEF StartPlane
  <1>3. /\ reimported' \in BOOLEAN /\ migrated' \in BOOLEAN
        /\ planeStarts' \in 0 .. MaxStart /\ commitFaults' \in 0 .. MaxCommitFault
    <2>1. reimported' \in BOOLEAN /\ migrated' \in BOOLEAN
      BY DEF StartPlane
    <2>. QED  BY <1>2, <2>1, RegistryAssumption DEF RegistryTypeOK
  <1>4. /\ next.devices \in Devices /\ next.grants \in Grants /\ next \in Snapshot
        /\ next.tokens = legacy.tokens \/ next.tokens = planeFile.tokens
    BY <1>1 DEF Imported, RegistryTypeOK, Snapshot
  <1>5. /\ \A t \in ClaimToken : next.tokens[t].uses > 0 => next.tokens[t].owner \in Person
        /\ UsesLeft(next)
    <2>1. claims \in Nat /\ planeFile.tokens["api"].uses \in 0 .. MaxUses
          /\ claims + planeFile.tokens["api"].uses <= MaxUses
      BY DEF RegistryTypeOK, Snapshot, Token, ClaimToken, StoresOK, UsesLeft
    <2>2. legacy.tokens["api"].uses = 0
      BY DEF StoresOK, NoToken
    <2>3. claims + next.tokens["api"].uses <= MaxUses
      BY <1>4, <2>1, <2>2, RegistryAssumption
    <2>. QED  BY <1>4, <2>3 DEF StoresOK, StoreOK, UsesLeft
  <1>6. ValidSnapshot(next) => StoreOK(next)
    BY <1>4, <1>5 DEF StoreOK, ValidSnapshot
  <1>7. result # "failed" => ValidSnapshot(next)
    BY <1>2
  <1>8. StoresOK'
    <2>1. StoreOK(plane') /\ StoreOK(planeFile') /\ claims + plane'.tokens["api"].uses <= MaxUses
          /\ claims + planeFile'.tokens["api"].uses <= MaxUses
      BY <1>2, <1>5, <1>6, <1>7 DEF StoresOK, UsesLeft
    <2>. QED  BY <1>2, <2>1 DEF StoresOK, StoreOK, UsesLeft
  <1>9. RegistryTypeOK'
    <2>1. registry' \in [devices : Devices, grants : Grants]
      BY <1>2, <1>4 DEF RegistryTypeOK
    <2>2. plane' \in Snapshot /\ planeFile' \in Snapshot
      BY <1>2, <1>4 DEF RegistryTypeOK
    <2>. QED  BY <1>2, <1>3, <2>1, <2>2 DEF RegistryTypeOK
  <1>10. GrantsValid(registry)'
    BY <1>2, <1>7 DEF GrantsValid, Known, ValidSnapshot
  <1>11. RequestsOK' /\ ClaimsCommitted' = {}
    BY <1>2 DEF RequestsOK, RequestOK, ClaimsCommitted, IdleRequest
  <1>12. MirrorOK'
    BY <1>2, <1>11 DEF MirrorOK
  <1>. QED  BY <1>8, <1>9, <1>10, <1>11, <1>12

\* The end of the process keeps the parts.
LEMMA StopPlaneKeeps ==
    ASSUME RegistryParts, StopPlane
    PROVE  RegistryParts'
  <1>. USE DEF RegistryParts
  <1>1. /\ running' = FALSE /\ requests' = [r \in Request |-> IdleRequest]
        /\ UNCHANGED <<registry, plane, planeFile, legacy, people, arrivals, credentials, claims, unsaved,
                       migrated, reimported, planeStarts, commitFaults>>
    BY DEF StopPlane
  <1>2. RegistryTypeOK'
    BY <1>1 DEF RegistryTypeOK, IdleRequest
  <1>3. GrantsValid(registry)' /\ StoresOK'
    BY <1>1 DEF GrantsValid, Known, StoresOK, StoreOK, UsesLeft, HardwareValid
  <1>4. RequestsOK' /\ MirrorOK'
    BY <1>1 DEF RequestsOK, RequestOK, MirrorOK, IdleRequest
  <1>. QED  BY <1>2, <1>3, <1>4

\* What the old version may have left is a snapshot that can be served.
LEMMA LegacyOK ==
    ASSUME NEW s \in LegacyState
    PROVE  StoreOK(s) /\ s.tokens["api"] = NoToken
  <1>1. NoToken \in Token /\ NoToken.uses = 0 /\ NoGrants \in [Person -> Level \cup {NoGrant}]
    BY RegistryAssumption DEF NoToken, Token, NoGrants
  <1>2. EmptySnapshot \in Snapshot
    BY <1>1 DEF EmptySnapshot, Snapshot, Devices, Grants
  <1>3. CASE s = EmptySnapshot
    BY <1>1, <1>2, <1>3 DEF StoreOK, GrantsValid, HardwareValid, Known, EmptySnapshot, ClaimToken
  <1>4. CASE s # EmptySnapshot
    <2>1. PICK d \in Device, p \in Person :
            s = OldDevice(d, p)
      BY <1>4 DEF LegacyState
    <2>2. PICK record, token : /\ record = [owner |-> p, credential |-> 0, hardware |-> NoFingerprint]
                               /\ token = [uses |-> 1, owner |-> p]
      OBVIOUS
    <2>3. record \in DeviceRecord /\ token \in Token /\ record.hardware = NoFingerprint
          /\ token.owner \in Person
      BY <2>2, RegistryAssumption DEF DeviceRecord, Token
    <2>4. s = [devices |-> [EmptySnapshot.devices EXCEPT ![d] = record],
               grants |-> EmptySnapshot.grants,
               tokens |-> [EmptySnapshot.tokens EXCEPT !["legacy"] = token]]
      BY <2>1, <2>2 DEF OldDevice, EmptySnapshot
    <2>5. /\ s.devices \in Devices /\ \A e \in Device : s.devices[e] \in {NoDevice, record}
          /\ s.tokens \in [ClaimToken -> Token]
          /\ s.tokens["api"] = NoToken /\ s.tokens["legacy"] = token
          /\ s.grants = EmptySnapshot.grants
      BY <1>1, <2>3, <2>4 DEF EmptySnapshot, Devices, ClaimToken
    <2>6. s \in Snapshot
      BY <1>2, <2>4, <2>5 DEF Snapshot
    <2>7. GrantsValid(s) /\ HardwareValid(s)
      BY <2>3, <2>5 DEF GrantsValid, HardwareValid, Known, EmptySnapshot
    <2>. QED  BY <1>1, <2>3, <2>5, <2>6, <2>7 DEF StoreOK, ClaimToken
  <1>. QED  BY <1>3, <1>4

\* The parts hold before the first start.
LEMMA RegistryInitParts ==
    ASSUME RegistryInit
    PROVE  RegistryParts
  <1>1. EmptySnapshot \in LegacyState /\ legacy \in LegacyState
    BY DEF RegistryInit, LegacyState
  <1>2. /\ StoreOK(EmptySnapshot) /\ EmptySnapshot.tokens["api"] = NoToken
        /\ StoreOK(legacy) /\ legacy.tokens["api"] = NoToken
    BY <1>1, LegacyOK
  <1>3. StoresOK
    BY <1>2, RegistryAssumption DEF StoresOK, UsesLeft, RegistryInit, NoToken
  <1>4. RegistryTypeOK
    <2>1. EmptySnapshot \in Snapshot /\ legacy \in Snapshot
      BY <1>2 DEF StoreOK
    <2>2. EmptySnapshot.devices \in Devices /\ EmptySnapshot.grants \in Grants
      BY <2>1 DEF Snapshot
    <2>3. IdleRequest \in
            [at : {"idle", "share", "delete", "purge", "facts", "committed"},
             device : Device \cup {NoDevice}, record : DeviceRecord \cup {NoDevice},
             user : Person \cup {Nobody}]
      BY DEF IdleRequest
    <2>4. /\ 0 \in 0 .. MaxArrival /\ 0 \in 0 .. MaxClaim /\ 0 \in 0 .. MaxStart /\ 0 \in 0 .. MaxCommitFault
      BY RegistryAssumption
    <2>5. /\ legacy \in Snapshot /\ plane = EmptySnapshot /\ planeFile = EmptySnapshot
          /\ registry = [devices |-> EmptySnapshot.devices, grants |-> EmptySnapshot.grants]
          /\ running = FALSE /\ people = Person /\ requests = [r \in Request |-> IdleRequest]
          /\ arrivals = 0 /\ credentials = 0 /\ claims = 0 /\ unsaved = FALSE
          /\ migrated = FALSE /\ reimported = FALSE /\ planeStarts = 0 /\ commitFaults = 0
      BY <2>1, Zenon DEF RegistryInit
    <2>. QED  BY <2>1, <2>2, <2>3, <2>4, <2>5 DEF RegistryTypeOK
  <1>5. GrantsValid(registry)
    BY DEF RegistryInit, GrantsValid, Known, EmptySnapshot
  <1>6. RequestsOK /\ MirrorOK
    BY DEF RegistryInit, RequestsOK, RequestOK, MirrorOK, IdleRequest
  <1>. QED  BY <1>3, <1>4, <1>5, <1>6 DEF RegistryParts

\* Every step keeps the parts.
LEMMA RegistryStep ==
    ASSUME RegistryParts, [RegistryNext]_registryVars
    PROVE  RegistryParts'
  <1>1. CASE UNCHANGED registryVars
    BY <1>1 DEF registryVars, RegistryParts, RegistryTypeOK, GrantsValid, Known, StoresOK, StoreOK, UsesLeft,
                HardwareValid, RequestsOK, MirrorOK, ClaimsCommitted
  <1>2. CASE StopPlane
    BY <1>2, StopPlaneKeeps
  <1>3. ASSUME NEW result \in CommitResult, StartPlane(result) PROVE RegistryParts'
    BY <1>3, StartPlaneKeeps
  <1>4. ASSUME NEW result \in CommitResult, NEW d \in Device,
               UpdateStatus(d, result) \/ \E u \in Person : PatchDevice(u, d, result)
        PROVE  RegistryParts'
    BY <1>4, RewriteKeeps DEF UpdateStatus, PatchDevice, UpdateDevice
  <1>5. ASSUME NEW result \in CommitResult, NEW u \in Person, CreateClaimToken(u, result) PROVE RegistryParts'
    BY <1>5, CreateClaimTokenKeeps
  <1>6. ASSUME NEW result \in CommitResult, NEW t \in ClaimToken, RevokeClaimToken(t, result)
        PROVE RegistryParts'
    BY <1>6, RevokeClaimTokenKeeps
  <1>7. ASSUME NEW result \in CommitResult, NEW r \in Request, AgentStep(r, result) PROVE RegistryParts'
    BY <1>7, FactsSaveKeeps, ClaimDeviceKeeps DEF AgentStep
  <1>8. ASSUME NEW result \in CommitResult, NEW r \in Request, UserRequestStep(r, result)
        PROVE RegistryParts'
    BY <1>8, DeleteDeviceKeeps, SetGrantKeeps, RevokeGrantKeeps, TransferOwnershipKeeps,
       DeleteDevicesByOwnerKeeps DEF UserRequestStep
  <1>9. ASSUME NEW r \in Request,
               \/ \E d \in Device : FactsGet(r, d)
               \/ \E u, target \in Person, d \in Device, permission \in {"share", "delete"} :
                     Allow(r, u, permission, d, target)
               \/ \E u \in Person : DeleteUser(r, u)
               \/ ShareRefused(r) \/ ApplyCommittedDevice(r)
        PROVE  RegistryParts'
    BY <1>9, FactsGetKeeps, AllowKeeps, DeleteUserKeeps, ShareRefusedKeeps, ApplyCommittedDeviceKeeps
  <1>. QED  BY <1>1, <1>2, <1>3, <1>4, <1>5, <1>6, <1>7, <1>8, <1>9 DEF RegistryNext

\* The inductive invariant: what is stored can be served, and the registry mirrors it
\* up to the claims that are between their commit and the registry.
THEOREM RegistryInvariant == RegistrySpec => []RegistryParts
  <1>1. RegistryInit => RegistryParts
    BY RegistryInitParts
  <1>2. RegistryParts /\ [RegistryNext]_registryVars => RegistryParts'
    BY RegistryStep
  <1>. QED  BY <1>1, <1>2, PTL DEF RegistrySpec

\* Grants have devices, a machine is one device in the control plane and its file, and
\* registry and control plane agree, whatever commit fails and whoever goes first.
THEOREM RegistryConsistent == RegistrySpec => []RegistryInv
  <1>1. RegistryParts => RegistryInv
    <2>. SUFFICES ASSUME RegistryParts PROVE RegistryInv
      OBVIOUS
    <2>1. RegistryTypeOK /\ GrantsHaveDevices /\ HardwareOnce
      BY DEF RegistryParts, StoresOK, StoreOK, GrantsHaveDevices, HardwareOnce
    <2>2. ASSUME running, ~unsaved, ClaimsCommitted = {}
          PROVE  registry.devices = plane.devices /\ registry.grants = plane.grants
      <3>1. plane.grants = registry.grants /\ \A d \in Device : plane.devices[d] = registry.devices[d]
        BY <2>2 DEF RegistryParts, MirrorOK
      <3>2. plane.devices \in Devices /\ registry.devices \in Devices
        BY <2>1 DEF RegistryTypeOK, Snapshot
      <3>. QED  BY <3>1, <3>2 DEF Devices
    <2>. QED  BY <2>1, <2>2 DEF RegistryInv, MirrorsControlPlane
  <1>. QED  BY <1>1, RegistryInvariant, PTL

\* The API's claim token brings no more devices than it has uses.
THEOREM ClaimsStayWithinUses == RegistrySpec => []ClaimsWithinUses
  <1>1. RegistryParts => ClaimsWithinUses
    <2>. SUFFICES ASSUME RegistryParts PROVE ClaimsWithinUses
      OBVIOUS
    <2>1. claims \in Nat /\ plane.tokens["api"].uses \in 0 .. MaxUses
          /\ claims + plane.tokens["api"].uses <= MaxUses
      BY DEF RegistryParts, RegistryTypeOK, StoresOK, UsesLeft, Snapshot, Token, ClaimToken
    <2>. QED  BY <2>1, RegistryAssumption DEF ClaimsWithinUses
  <1>. QED  BY <1>1, RegistryInvariant, PTL
=============================================================================
