------------------------------- MODULE MCDns -------------------------------
(* The writers of the DNS records of devices: their reported addresses and   *)
(* the bindings.  They share no state and no record; `subject' says which of *)
(* them moves.                                                               *)
EXTENDS DeviceNetwork, DomainBinding, TLC

VARIABLE subject

dnsVars == <<vars, bindingVars, subject>>

DnsInit ==
    /\ subject \in {"device", "bindings"}
    /\ Init /\ BindingInit

DnsNext ==
    /\ UNCHANGED subject
    /\ \/ subject = "device" /\ Next /\ UNCHANGED <<bindingVars>>
       \/ subject = "bindings" /\ BindingNext /\ UNCHANGED <<vars>>

\* Reports differ in nothing but their name.
DnsSymmetry == Permutations(Report)

DnsSpec == DnsInit /\ [][DnsNext]_dnsVars
=============================================================================
