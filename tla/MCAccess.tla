------------------------------ MODULE MCAccess ------------------------------
(* Who may do what: accounts and sessions, and the devices with their grants *)
(* and claims.  They share no state; one run checks both: `subject' says     *)
(* which of them moves, the other stays as it begins.                        *)
EXTENDS Accounts, DeviceRegistry, TLC

\* Logins and requests differ by nothing; a user or a device may be chosen by its ID.
RequestSymmetry == Permutations(Client) \cup Permutations(Request)

VARIABLE subject

accessVars == <<accountsVars, registryVars, subject>>

AccessInit ==
    /\ subject \in {"accounts", "registry"}
    /\ AccountsInit /\ RegistryInit
    /\ subject # "accounts" => driver = "file" /\ \A u \in User : ~Exists(authFile.users, u)
    /\ subject # "registry" => legacy = EmptySnapshot

AccessNext ==
    /\ UNCHANGED subject
    /\ \/ subject = "accounts" /\ AccountsNext /\ UNCHANGED <<registryVars>>
       \/ subject = "registry" /\ RegistryNext /\ UNCHANGED <<accountsVars>>

AccessSpec == AccessInit /\ [][AccessNext]_accessVars
=============================================================================
