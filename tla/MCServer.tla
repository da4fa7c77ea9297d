------------------------------ MODULE MCServer ------------------------------
(* What the server does for itself: its own upgrade, its shared files and    *)
(* its own DNS records.  They share no state; `subject' says which of them   *)
(* moves.                                                                    *)
EXTENDS ServerUpgrade, FileShare, ServerNetwork, TLC

VARIABLE subject

serverVars == <<upgradeVars, shareVars, netVars, subject>>

ServerInit ==
    /\ subject \in {"upgrade", "files", "network"}
    /\ UpgradeInit /\ ShareInit /\ NetInit

\* Bounds of the network: what one behaviour combines of versions, changes of the
\* addresses, faults and starts.
NetBounds == config.version + addrChanges + netFaults + 2 * netStarts <= 6

ServerNext ==
    /\ UNCHANGED subject
    /\ \/ subject = "upgrade" /\ UpgradeNext /\ UNCHANGED <<shareVars, netVars>>
       \/ subject = "files" /\ ShareNext /\ UNCHANGED <<upgradeVars, netVars>>
       \/ subject = "network" /\ NetNext /\ NetBounds' /\ UNCHANGED <<upgradeVars, shareVars>>

ServerSpec == ServerInit /\ [][ServerNext]_serverVars

AdminSymmetry == Permutations(Admin)
=============================================================================
