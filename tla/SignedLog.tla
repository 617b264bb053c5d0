------------------------------ MODULE SignedLog ------------------------------
(***************************************************************************)
(* What the membership op-log promises: one writer appends to a log that   *)
(* is never rewritten; every user's view is a prefix of it that only grows *)
(* while its client runs, and falls back to what the client last saved     *)
(* when the client restarts.                                               *)
(***************************************************************************)
EXTENDS Naturals, Sequences

CONSTANTS Users, Writer

VARIABLES
    log,       \* everything the writer has signed
    view,      \* view[u]: the part of the log u's client holds
    durable    \* durable[u]: the part u's client would come back with

logVars == <<log, view, durable>>

Prefixes(s) == {SubSeq(s, 1, n) : n \in 0 .. Len(s)}

LogInit ==
    /\ log = <<>>
    /\ view = [u \in Users |-> <<>>]
    /\ durable = [u \in Users |-> <<>>]

\* The writer appends one entry; it may see its own entry at once.
Write ==
    /\ Len(log') = Len(log) + 1 /\ SubSeq(log', 1, Len(log)) = log
    /\ view' \in {view, [view EXCEPT ![Writer] = log']}
    /\ UNCHANGED durable

\* User u's view grows to a longer prefix.
Learn(u) ==
    /\ \E longer \in Prefixes(log) :
          /\ view[u] \in Prefixes(longer)
          /\ view' = [view EXCEPT ![u] = longer]
    /\ UNCHANGED <<log, durable>>

Save(u) ==
    /\ durable' = [durable EXCEPT ![u] = view[u]]
    /\ UNCHANGED <<log, view>>

Crash(u) ==
    /\ view' = [view EXCEPT ![u] = durable[u]]
    /\ UNCHANGED <<log, durable>>

LogNext == Write \/ \E u \in Users : Learn(u) \/ Save(u) \/ Crash(u)

LogSpec == LogInit /\ [][LogNext]_logVars
=============================================================================
