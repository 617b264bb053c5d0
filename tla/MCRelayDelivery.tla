--------------------------- MODULE MCRelayDelivery ---------------------------
(* RelayDelivery for TLC: senders are interchangeable model values, and    *)
(* steps that commute with all others are not postponed.                   *)
EXTENDS RelayDelivery

Symmetry == Permutations(Senders)

\* The recipient is active and connected, and no event is left to change that.
Settled == online /\ events = MaxEvents /\ Recipient \in roster

\* The handlers whose next step reads the registration or the roster only.
Reading == {l \in Links : hand[l].at \in {"stored", "routing"}}

LocalPending ==
    \/ busy = Null /\ inbox # <<>>
    \/ closing \ {live} # {}
    \/ Settled /\ (down # <<>> \/ Reading # {})

\* Decrypt or its failure; the close event of a connection that is not registered any more;
\* and, once Settled, Receive, LookUpTarget and CheckRecipient.
LocalStep ==
    \/ busy = Null /\ inbox # <<>> /\ inbox' = Tail(inbox)
    \/ \E c \in closing \ {live} : closing' = closing \ {c}
    \/ Settled /\ down # <<>> /\ down' = Tail(down)
    \/ Settled /\ \E l \in Reading : hand'[l] # hand[l]

\* These steps stay possible until they are taken and commute with every other
\* step.  NoticeClose changes nothing a property reads; before and after the
\* others the state is not Quiet; and a Decrypt that comes early is judged by
\* LinkOrder while lapsed, which never turns FALSE again, can still be FALSE.
LocalFirst == LocalPending => LocalStep
=============================================================================
