------------------------------ MODULE Transport ------------------------------
(***************************************************************************)
(* resolveTransport: the message plane of a client is the relay's link or  *)
(* a peer-to-peer transport, chosen once, from the option or else the      *)
(* environment.  The link is not run over the peer-to-peer transport: it   *)
(* waits for a ready frame that a bare peer never sends.                   *)
(***************************************************************************)
EXTENDS DuplexLink, P2pTransport

VARIABLE mode

vars == <<mode, linkVars, p2pVars>>

ResolveTransport == mode \in {"relay", "p2p"}

Init == ResolveTransport /\ LinkInit /\ P2pInit

Next ==
    \/ mode = "relay" /\ LinkNext /\ UNCHANGED <<mode, p2pVars>>
    \/ mode = "p2p" /\ P2pNext /\ UNCHANGED <<mode, linkVars>>

Spec == Init /\ [][Next]_vars

\* With the fairness of the link's own events.
LiveSpec == Spec /\ LinkFairness

\* The states of the link and of the peer-to-peer transport have their types.
TypeOK == mode \in {"relay", "p2p"} /\ LinkTypeOK /\ P2pTypeOK
===============================================================================
