--------------------------- MODULE StoreAndForward ---------------------------
(***************************************************************************)
(* What relay and client together promise a recipient about the messages   *)
(* posted to it.  An envelope may be lost before it is stored; from then   *)
(* on it stays in the mailbox until the recipient has decided on it, which *)
(* it does once.  The envelopes of a connection are stored in the order    *)
(* they were posted, and a message is shown once however often it was      *)
(* posted.  Connections, drains, pushes and acknowledgements do not occur. *)
(***************************************************************************)
EXTENDS Naturals, Sequences

CONSTANT Connections

VARIABLES
    posted,    \* the envelopes in the order of posting: [msg, link]
    stored,    \* those stored so far, by their position in posted
    box,       \* those in the mailbox
    decided,   \* those the recipient has accepted or rejected
    shown      \* the messages the recipient was shown, in order

mailVars == <<posted, stored, box, decided, shown>>

MailInit ==
    posted = <<>> /\ stored = {} /\ box = {} /\ decided = {} /\ shown = <<>>

\* An envelope with a new message, numbered by its envelope, or with an old one.
Post(l) ==
    /\ \E m \in 1 .. Len(posted) + 1 : posted' = Append(posted, [msg |-> m, link |-> l])
    /\ UNCHANGED <<stored, box, decided, shown>>

Store(i) ==
    /\ \A j \in stored : posted[j].link = posted[i].link => j < i
    /\ stored' = stored \cup {i} /\ box' = box \cup {i}
    /\ UNCHANGED <<posted, decided, shown>>

Shown(m) == \E k \in DOMAIN shown : shown[k] = m

\* The recipient accepts and is shown the message unless it was before, or
\* rejects it.
Decide(i) ==
    /\ i \notin decided
    /\ decided' = decided \cup {i}
    /\ \/ ~Shown(posted[i].msg) /\ shown' = Append(shown, posted[i].msg)
       \/ UNCHANGED shown
    /\ UNCHANGED <<posted, stored, box>>

Discard(i) ==
    /\ i \in decided
    /\ box' = box \ {i}
    /\ UNCHANGED <<posted, stored, decided, shown>>

MailNext ==
    \/ \E l \in Connections : Post(l)
    \/ \E i \in DOMAIN posted : Store(i)
    \/ \E i \in box : Decide(i) \/ Discard(i)

MailSpec == MailInit /\ [][MailNext]_mailVars
=============================================================================
