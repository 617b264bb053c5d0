---------------------------- MODULE RelayDelivery ----------------------------
(***************************************************************************)
(* How messages of one conversation reach one recipient device: the        *)
(* relay's handler of a send frame with its four awaits, the mailbox rows, *)
(* live push and its buffer, the drain after auth or subscribe             *)
(* (apps/node/src/index.ts, mailbox.ts, db.ts), and the recipient's serial *)
(* inbox with its decrypt-once ratchet, gate, msgId dedupe and             *)
(* acknowledgement (client-sdk/src/client.ts).  A database call of the     *)
(* relay that rejects ends its handler and is swallowed (index.ts:576).    *)
(*                                                                         *)
(* A message's ciphertext is its id, drawn from the order of sending.  The *)
(* gate's verdict is MembershipLog's subject and either one here.          *)
(***************************************************************************)
EXTENDS Integers, Sequences, SequencesExt

CONSTANTS
    Null,
    Senders,        \* the users that send
    Recipient,      \* the user whose single device receives
    MaxSends,       \* bound: ciphertexts sent
    MaxLinks,       \* bound: connections of one sender
    MaxEvents       \* bound: link losses, roster changes, resyncs, failing
                    \* database calls and failing decryptions together

ASSUME RecipientDoesNotSend == Recipient \notin Senders
ASSUME NullIsNoSeq == Null \notin Nat
ASSUME BoundsAreNatural == MaxSends \in Nat /\ MaxLinks \in Nat /\ MaxEvents \in Nat

\* A sender's connections, numbered; past the last one it is offline.
Links == Senders \X (1 .. MaxLinks)

VARIABLES
    roster,     \* active members
    sent,       \* sent[i]: msgId and link of ciphertext i
    link,       \* link[s]: number of s's present connection
    up,         \* up[l]: ciphertexts under way on link l
    hand,       \* hand[l]: where the relay is in the send frame it handles
    seqOf,      \* seqOf: the ciphertexts stored so far, in seq order
    rows,       \* the mailbox: seqs stored and not acknowledged
    conn,       \* number of the recipient's latest connection
    online,     \* that connection is open
    live,       \* liveSockets: the connection registered for the device, or 0
    closing,    \* closed connections whose close event the relay has yet to run
    stage,      \* how far the relay is in drainAndPush on it
    draining,   \* live pushes are buffered until the drain after auth has ended
    stuck,      \* that drain has failed, and draining stays TRUE for good
    scanned,    \* the seqs the drain's query returned
    buffer,     \* liveBuffer
    down,       \* seqs under way to the recipient
    upR,        \* frames under way from the recipient
    lateAcks,   \* acks received on a connection that has closed since
    inbox,      \* the client's inbox chain
    busy,       \* the seq being decided, or Null
    decrypted,  \* history: ciphertexts decrypted, in order
    seen,       \* seenMsgIds
    shown,      \* history: msgIds given to onMessage, in order
    handled,    \* history: ciphertexts dispatched, dropped as seen or rejected
    failed,     \* history: ciphertexts that failed to decrypt at least once
    events,     \* how much of MaxEvents is used up
    resynced,   \* opCatchupAttempted
    steady,     \* history: active at the connection's last drain and ever since,
                \* with no call failing that would have drained or pushed a row
    lapsed      \* history: the recipient was inactive when a message came in or
                \* a drain began, or a push, the drain after auth or a decryption
                \* has failed

senderVars == <<sent, link, up>>
relayVars == <<hand, seqOf, rows>>
connVars == <<conn, online, live, closing, stage, draining, stuck, scanned, buffer>>
clientVars == <<inbox, busy, decrypted, seen, shown, handled, failed>>
vars == <<roster, senderVars, relayVars, connVars, down, upR, lateAcks, clientVars,
          events, resynced, steady, lapsed>>

\* The subscribe frame among the acks, which are seqs.
Resync == Null

Idle == [at |-> "idle"]

Init ==
    /\ roster = Senders \cup {Recipient}
    /\ sent = <<>> /\ link = [s \in Senders |-> 1] /\ up = [l \in Links |-> <<>>]
    /\ hand = [l \in Links |-> Idle] /\ seqOf = <<>> /\ rows = {}
    /\ conn = 0 /\ online = FALSE /\ live = 0 /\ closing = {} /\ stage = "idle" /\ draining = FALSE
    /\ stuck = FALSE /\ scanned = {} /\ buffer = <<>>
    /\ down = <<>> /\ upR = <<>> /\ lateAcks = {}
    /\ inbox = <<>> /\ busy = Null /\ decrypted = <<>> /\ seen = {} /\ shown = <<>>
    /\ handled = {} /\ failed = {}
    /\ events = 0 /\ resynced = FALSE /\ steady = FALSE /\ lapsed = FALSE

\* One of the bounded events.
Happens == events < MaxEvents /\ events' = events + 1

---------------------------------------------------------------------------
(***************************************************************************)
(* Senders                                                                 *)
(***************************************************************************)
Transmit(s, msg) ==
    LET l == <<s, link[s]>>
    IN  /\ Len(sent) < MaxSends
        /\ l \in Links
        /\ sent' = Append(sent, [msg |-> msg, link |-> l])
        /\ up' = [up EXCEPT ![l] = Append(@, Len(sent) + 1)]
        /\ UNCHANGED <<roster, link, relayVars, connVars, down, upR, lateAcks, clientVars,
                       events, resynced, steady, lapsed>>

\* send: a fresh msgId.
Send(s) == Transmit(s, Len(sent) + 1)

\* sendRaw once more with the msgId of an earlier message.
Resend(s) ==
    \E i \in DOMAIN sent : sent[i].link[1] = s /\ sent[i].msg = i /\ Transmit(s, i)

\* Link l closes and s gets another.  Of queue, the frames under way on l, the
\* relay has received the first few and goes on to handle them.
CloseLink(l, queue) ==
    /\ link' = [link EXCEPT ![l[1]] = l[2] + 1]
    /\ \E n \in 0 .. Len(queue) : up' = [up EXCEPT ![l] = SubSeq(queue, 1, n)]

CutSender(l) ==
    /\ link[l[1]] = l[2]
    /\ Happens
    /\ CloseLink(l, up[l])
    /\ UNCHANGED <<roster, sent, relayVars, connVars, down, upR, lateAcks, clientVars,
                   resynced, steady, lapsed>>

---------------------------------------------------------------------------
(***************************************************************************)
(* The relay's send handler.  Frames of one link are handled one after the *)
(* other; each await lets every other connection run.                      *)
(***************************************************************************)

\* Mutant: a link's frames are not handled in the order they came.
AdmitSendLast(l) ==
    /\ hand[l] = Idle /\ up[l] # <<>>
    /\ l[1] \in roster
    /\ up' = [up EXCEPT ![l] = Front(@)]
    /\ hand' = [hand EXCEPT ![l] = [at |-> "storing", id |-> Last(up[l])]]
    /\ UNCHANGED <<roster, sent, link, seqOf, rows, connVars, down, upR, lateAcks, clientVars,
                   events, resynced, steady, lapsed>>

\* The sender is an active member.
AdmitSend(l) ==
    /\ hand[l] = Idle /\ up[l] # <<>>
    /\ l[1] \in roster
    /\ up' = [up EXCEPT ![l] = Tail(@)]
    /\ hand' = [hand EXCEPT ![l] = [at |-> "storing", id |-> Head(up[l])]]
    /\ UNCHANGED <<roster, sent, link, seqOf, rows, connVars, down, upR, lateAcks, clientVars,
                   events, resynced, steady, lapsed>>

\* The sender is not: the frame is dropped and the socket closed.
RefuseSend(l) ==
    /\ hand[l] = Idle /\ up[l] # <<>>
    /\ l[1] \notin roster
    /\ \/ link[l[1]] = l[2] /\ CloseLink(l, Tail(up[l]))
       \/ link[l[1]] # l[2] /\ up' = [up EXCEPT ![l] = Tail(@)] /\ UNCHANGED link
    /\ UNCHANGED <<roster, sent, relayVars, connVars, down, upR, lateAcks, clientVars, events,
                   resynced, steady, lapsed>>

\* Mutant: the seq is counted before the row is inserted.
StoreEnvelopeOffByOne(l) ==
    /\ hand[l].at = "storing"
    /\ seqOf' = Append(seqOf, hand[l].id)
    /\ rows' = rows \cup {Len(seqOf)}
    /\ hand' = [hand EXCEPT ![l] = [at |-> "stored", seq |-> Len(seqOf)]]
    /\ lapsed' = (lapsed \/ Recipient \notin roster)
    /\ UNCHANGED <<roster, senderVars, connVars, down, upR, lateAcks, clientVars, events,
                   resynced, steady>>

\* mailbox.store commits: the database gives the row the next seq.
StoreEnvelope(l) ==
    /\ hand[l].at = "storing"
    /\ seqOf' = Append(seqOf, hand[l].id)
    /\ rows' = rows \cup {Len(seqOf) + 1}
    /\ hand' = [hand EXCEPT ![l] = [at |-> "stored", seq |-> Len(seqOf) + 1]]
    /\ lapsed' = (lapsed \/ Recipient \notin roster)
    /\ UNCHANGED <<roster, senderVars, connVars, down, upR, lateAcks, clientVars, events,
                   resynced, steady>>

\* Mutant: a connection counts as live only once its drain has ended.
LiveTargetLate == IF draining THEN 0 ELSE live

LiveTarget == live

\* liveSockets.get: the connection to push to, captured before the last await.
LookUpTarget(l) ==
    /\ hand[l].at = "stored"
    /\ hand' = [hand EXCEPT ![l] =
                  IF LiveTarget # 0
                  THEN [at |-> "routing", seq |-> @.seq, target |-> LiveTarget]
                  ELSE Idle]
    /\ UNCHANGED <<roster, senderVars, seqOf, rows, connVars, down, upR, lateAcks, clientVars,
                   events, resynced, steady, lapsed>>

CheckRecipient(l) ==
    /\ hand[l].at = "routing"
    /\ hand' = [hand EXCEPT ![l] =
                  IF Recipient \in roster THEN [@ EXCEPT !.at = "pushing"] ELSE Idle]
    /\ lapsed' = (lapsed \/ Recipient \notin roster)
    /\ UNCHANGED <<roster, senderVars, seqOf, rows, connVars, down, upR, lateAcks, clientVars,
                   events, resynced, steady>>

\* Mutant: nothing is held back while the mailbox drains.
DeliverAtOnce(seq) == down' = Append(down, seq) /\ UNCHANGED buffer

\* liveConn.deliver
Deliver(seq) ==
    \/ draining /\ buffer' = Append(buffer, seq) /\ UNCHANGED down
    \/ ~draining /\ down' = Append(down, seq) /\ UNCHANGED buffer

LivePush(l) ==
    /\ hand[l].at = "pushing"
    /\ IF online /\ hand[l].target = conn THEN Deliver(hand[l].seq)
                                          ELSE UNCHANGED <<down, buffer>>
    /\ hand' = [hand EXCEPT ![l] = Idle]
    /\ UNCHANGED <<roster, senderVars, seqOf, rows, conn, online, live, closing, stage, draining,
                   stuck, scanned, upR, lateAcks, clientVars, events, resynced, steady, lapsed>>

\* isActiveMember of the sender or mailbox.store rejects: the message is lost.
SendFails(l) ==
    /\ Happens
    /\ \/ /\ hand[l] = Idle /\ up[l] # <<>>
          /\ up' = [up EXCEPT ![l] = Tail(@)]
          /\ UNCHANGED hand
       \/ /\ hand[l].at = "storing"
          /\ hand' = [hand EXCEPT ![l] = Idle]
          /\ UNCHANGED up
    /\ UNCHANGED <<roster, sent, link, seqOf, rows, connVars, down, upR, lateAcks, clientVars,
                   resynced, steady, lapsed>>

\* mailbox.store rejects although the row was committed, or isActiveMember of
\* the recipient does: the row is there and is not pushed.
PushFails(l) ==
    /\ hand[l].at \in {"stored", "routing"}
    /\ Happens
    /\ hand' = [hand EXCEPT ![l] = Idle]
    /\ steady' = FALSE /\ lapsed' = TRUE
    /\ UNCHANGED <<roster, senderVars, seqOf, rows, connVars, down, upR, lateAcks, clientVars,
                   resynced>>

---------------------------------------------------------------------------
(***************************************************************************)
(* The relay's handler of the recipient's connection                       *)
(***************************************************************************)

\* auth: ready, draining, registerLive, and the drain begins.
Connect ==
    /\ ~online
    /\ conn' = conn + 1 /\ online' = TRUE /\ live' = conn + 1
    /\ stage' = "scoping" /\ draining' = TRUE /\ stuck' = FALSE
    /\ scanned' = {} /\ buffer' = <<>>
    /\ UNCHANGED <<roster, senderVars, relayVars, closing, down, upR, lateAcks, clientVars,
                   events, resynced, steady, lapsed>>

\* listActiveConversationIds
DrainScope ==
    /\ stage = "scoping"
    /\ stage' = IF Recipient \in roster THEN "querying" ELSE "sending"
    /\ steady' = (Recipient \in roster /\ ~stuck)
    /\ lapsed' = (lapsed \/ Recipient \notin roster)
    /\ UNCHANGED <<roster, senderVars, relayVars, conn, online, live, closing, draining, stuck,
                   scanned, buffer, down, upR, lateAcks, clientVars, events, resynced>>

\* mailbox.drain
DrainQuery ==
    /\ stage = "querying"
    /\ stage' = "sending" /\ scanned' = rows
    /\ UNCHANGED <<roster, senderVars, relayVars, conn, online, live, closing, draining, stuck,
                   buffer, down, upR, lateAcks, clientVars, events, resynced, steady, lapsed>>

\* Either query rejects.  If this is the drain after auth, nobody will clear
\* draining or send the buffer.
DrainFails ==
    /\ stage \in {"scoping", "querying"}
    /\ Happens
    /\ stage' = "idle" /\ stuck' = draining
    /\ steady' = FALSE /\ lapsed' = (lapsed \/ draining)
    /\ UNCHANGED <<roster, senderVars, relayVars, conn, online, live, closing, draining,
                   scanned, buffer, down, upR, lateAcks, clientVars, resynced>>

\* orderBy: the rows of a query, seqs ascending.
BySeq(found) ==
    CHOOSE q \in [1 .. Cardinality(found) -> found] :
        \A i, j \in DOMAIN q : i < j => q[i] < q[j]

\* The pending rows by seq; the drain after auth goes on to send what was
\* buffered meanwhile.  (A subscribe finds the buffer empty, or stuck.)
DrainSend ==
    /\ stage = "sending"
    /\ stage' = "idle" /\ scanned' = {}
    /\ \/ /\ ~stuck
          /\ down' = down \o BySeq(scanned) \o buffer
          /\ draining' = FALSE /\ buffer' = <<>>
       \/ /\ stuck
          /\ down' = down \o BySeq(scanned)
          /\ UNCHANGED <<draining, buffer>>
    /\ UNCHANGED <<roster, senderVars, relayVars, conn, online, live, closing, stuck, upR,
                   lateAcks, clientVars, events, resynced, steady, lapsed>>

\* Mutant: an ack is a cursor.
AckRange(pending, seq) == {r \in pending : r > seq}

\* ackEnvelopes: exactly the row acknowledged.
AckEnvelope(pending, seq) == pending \ {seq}

HandleAck ==
    /\ online /\ stage = "idle"
    /\ upR # <<>> /\ Head(upR) # Resync
    /\ rows' = AckEnvelope(rows, Head(upR))
    /\ upR' = Tail(upR)
    /\ UNCHANGED <<roster, senderVars, hand, seqOf, connVars, down, lateAcks, clientVars,
                   events, resynced, steady, lapsed>>

HandleLateAck(seq) ==
    /\ seq \in lateAcks
    /\ rows' = AckEnvelope(rows, seq)
    /\ lateAcks' = lateAcks \ {seq}
    /\ UNCHANGED <<roster, senderVars, hand, seqOf, connVars, down, upR, clientVars, events,
                   resynced, steady, lapsed>>

\* The deletion rejects, or the membership query of a subscribe frame does.
AnswerFails ==
    /\ online /\ stage = "idle"
    /\ upR # <<>>
    /\ Happens
    /\ upR' = Tail(upR)
    /\ UNCHANGED <<roster, senderVars, relayVars, connVars, down, lateAcks, clientVars,
                   resynced, steady, lapsed>>

LateAckFails(seq) ==
    /\ seq \in lateAcks
    /\ Happens
    /\ lateAcks' = lateAcks \ {seq}
    /\ UNCHANGED <<roster, senderVars, relayVars, connVars, down, upR, clientVars, resynced,
                   steady, lapsed>>

\* subscribe of an active member: the drain again.
HandleSubscribe ==
    /\ online /\ stage = "idle"
    /\ upR # <<>> /\ Head(upR) = Resync
    /\ Recipient \in roster
    /\ stage' = "scoping"
    /\ upR' = Tail(upR)
    /\ UNCHANGED <<roster, senderVars, relayVars, conn, online, live, closing, draining, stuck,
                   scanned, buffer, down, lateAcks, clientVars, events, resynced, steady, lapsed>>

\* The recipient's socket closes with what is under way; the relay may have
\* received some of its acks.
CloseRecipient ==
    /\ online
    /\ online' = FALSE /\ closing' = closing \cup {conn}
    /\ stage' = "idle" /\ draining' = FALSE /\ stuck' = FALSE
    /\ scanned' = {} /\ buffer' = <<>>
    /\ down' = <<>> /\ upR' = <<>> /\ steady' = FALSE
    /\ \E n \in 0 .. Len(upR) :
          lateAcks' = lateAcks \cup (ToSet(SubSeq(upR, 1, n)) \ {Resync})
    /\ UNCHANGED <<roster, senderVars, relayVars, conn, live, clientVars, resynced, lapsed>>

CutRecipient == Happens /\ CloseRecipient

\* A subscribe of an inactive member: the relay closes.
RefuseSubscribe ==
    /\ stage = "idle"
    /\ upR # <<>> /\ Head(upR) = Resync
    /\ Recipient \notin roster
    /\ CloseRecipient
    /\ UNCHANGED events

\* Mutant: the close event clears the device's entry, whoever it belongs to.
UnregisterAny(c) == 0

\* What is registered once connection c's close event has run: "a reconnect may
\* have replaced us".
Unregister(c) == IF live = c THEN 0 ELSE live

\* The relay's close event, possibly after the device has connected again.
NoticeClose(c) ==
    /\ c \in closing
    /\ closing' = closing \ {c}
    /\ live' = Unregister(c)
    /\ UNCHANGED <<roster, senderVars, relayVars, conn, online, stage, draining, stuck,
                   scanned, buffer, down, upR, lateAcks, clientVars, events, resynced, steady,
                   lapsed>>

---------------------------------------------------------------------------
(***************************************************************************)
(* The recipient's client                                                  *)
(***************************************************************************)

\* enqueueIncoming
Receive ==
    /\ down # <<>>
    /\ inbox' = Append(inbox, Head(down))
    /\ down' = Tail(down)
    /\ UNCHANGED <<roster, senderVars, relayVars, connVars, upR, lateAcks, busy, decrypted,
                   seen, shown, handled, failed, events, resynced, steady, lapsed>>

\* handleIncomingEnvelope up to the gate.  A message key works once: a copy of
\* a ciphertext already decrypted throws and is dropped, without an ack.
Decrypt ==
    /\ busy = Null /\ inbox # <<>>
    /\ inbox' = Tail(inbox)
    /\ LET id == seqOf[Head(inbox)]
       IN  IF id \in ToSet(decrypted)
           THEN UNCHANGED <<busy, decrypted>>
           ELSE busy' = Head(inbox) /\ decrypted' = Append(decrypted, id)
    /\ UNCHANGED <<roster, senderVars, relayVars, connVars, down, upR, lateAcks, seen, shown,
                   handled, failed, events, resynced, steady, lapsed>>

\* A ciphertext fails to decrypt for another reason: no session fits it, or the
\* crypto stores throw.  It is dropped without an ack, and may succeed when a
\* later drain brings it again.
DecryptFails ==
    /\ busy = Null /\ inbox # <<>>
    /\ seqOf[Head(inbox)] \notin ToSet(decrypted)
    /\ Happens
    /\ inbox' = Tail(inbox)
    /\ failed' = failed \cup {seqOf[Head(inbox)]}
    /\ lapsed' = TRUE
    /\ UNCHANGED <<roster, senderVars, relayVars, connVars, down, upR, lateAcks, busy, decrypted,
                   seen, shown, handled, resynced, steady>>

\* awaitChainReady while the gate waits for a chain.
Subscribe ==
    /\ busy # Null /\ online
    /\ ~resynced /\ resynced' = TRUE
    /\ Happens
    /\ upR' = Append(upR, Resync)
    /\ UNCHANGED <<roster, senderVars, relayVars, connVars, down, lateAcks, clientVars, steady,
                   lapsed>>

\* safeAck: only if the link is ready now.
SafeAck(seq) == upR' = IF online THEN Append(upR, seq) ELSE upR

\* Mutant: the message is shown whether or not its msgId was seen.
ShowAlways(msg) == shown' = Append(shown, msg) /\ seen' = seen \cup {msg}

Show(msg) ==
    /\ shown' = IF msg \in seen THEN shown ELSE Append(shown, msg)
    /\ seen' = seen \cup {msg}

\* The gate's verdict: dispatch unless the msgId was seen, or drop; ack both.
Decide(accepted) ==
    /\ busy # Null
    /\ IF accepted THEN Show(sent[seqOf[busy]].msg) ELSE UNCHANGED <<shown, seen>>
    /\ SafeAck(busy)
    /\ handled' = handled \cup {seqOf[busy]}
    /\ busy' = Null
    /\ UNCHANGED <<roster, senderVars, relayVars, connVars, down, lateAcks, inbox, decrypted,
                   failed, events, resynced, steady, lapsed>>

---------------------------------------------------------------------------
\* The conversation's admin removes or invites someone.
ChangeRoster(u) ==
    /\ Happens
    /\ roster' = IF u \in roster THEN roster \ {u} ELSE roster \cup {u}
    /\ steady' = (steady /\ u # Recipient)
    /\ UNCHANGED <<senderVars, relayVars, connVars, down, upR, lateAcks, clientVars, resynced,
                   lapsed>>

HandlerStep(l) ==
    \/ AdmitSend(l) \/ RefuseSend(l) \/ StoreEnvelope(l)
    \/ LookUpTarget(l) \/ CheckRecipient(l) \/ LivePush(l)

Next ==
    \/ \E s \in Senders : Send(s) \/ Resend(s)
    \/ \E l \in Links : HandlerStep(l) \/ SendFails(l) \/ PushFails(l) \/ CutSender(l)
    \/ Connect \/ DrainScope \/ DrainQuery \/ DrainSend \/ DrainFails
    \/ HandleAck \/ HandleSubscribe \/ AnswerFails \/ RefuseSubscribe \/ CutRecipient
    \/ \E seq \in lateAcks : HandleLateAck(seq) \/ LateAckFails(seq)
    \/ \E c \in closing : NoticeClose(c)
    \/ Receive \/ Decrypt \/ DecryptFails \/ Subscribe
    \/ \E accepted \in BOOLEAN : Decide(accepted)
    \/ \E u \in Senders \cup {Recipient} : ChangeRoster(u)

Spec == Init /\ [][Next]_vars

---------------------------------------------------------------------------
(***************************************************************************)
(* Properties                                                              *)
(***************************************************************************)

\* The shape of the state; every seq anywhere is one the mailbox has given out.
TypeOK ==
    /\ roster \subseteq Senders \cup {Recipient}
    /\ sent \in Seq([msg : 1 .. MaxSends, link : Links])
    /\ link \in [Senders -> 1 .. MaxLinks + 1]
    /\ up \in [Links -> Seq(DOMAIN sent)]
    /\ hand \in [Links -> {Idle} \cup [at : {"storing"}, id : DOMAIN sent]
                    \cup [at : {"stored"}, seq : DOMAIN seqOf]
                    \cup [at : {"routing", "pushing"}, seq : DOMAIN seqOf, target : 1 .. conn]]
    /\ seqOf \in Seq(DOMAIN sent) /\ rows \subseteq DOMAIN seqOf
    /\ conn \in 0 .. MaxEvents + 1 /\ online \in BOOLEAN
    /\ live \in 0 .. conn /\ closing \subseteq 1 .. conn
    /\ draining \in BOOLEAN /\ stuck \in BOOLEAN
    /\ stage \in {"idle", "scoping", "querying", "sending"}
    /\ scanned \subseteq DOMAIN seqOf /\ buffer \in Seq(DOMAIN seqOf)
    /\ down \in Seq(DOMAIN seqOf) /\ upR \in Seq({Resync} \cup DOMAIN seqOf)
    /\ lateAcks \subseteq DOMAIN seqOf
    /\ inbox \in Seq(DOMAIN seqOf) /\ busy \in {Null} \cup DOMAIN seqOf
    /\ decrypted \in Seq(DOMAIN sent) /\ handled \subseteq DOMAIN sent
    /\ failed \subseteq DOMAIN sent
    /\ seen \subseteq 1 .. MaxSends /\ shown \in Seq(1 .. MaxSends)
    /\ events \in 0 .. MaxEvents /\ resynced \in BOOLEAN /\ steady \in BOOLEAN /\ lapsed \in BOOLEAN

\* No envelope leaves the mailbox unhandled: whatever was stored is still
\* there, or the client has decided it, although acks race with drains, live
\* pushes and rows of other senders ("an ack must NOT delete everything at or
\* below seq", db.ts:414-415).
DeletedOnlyIfHandled ==
    \A seq \in DOMAIN seqOf : seq \in rows \/ seqOf[seq] \in handled

\* onMessage sees a message once, however often it is redelivered or resent
\* (client.ts:984-985; index.ts:504-505 "the recipient dedups by msgId").
ShownOnce == \A i, j \in DOMAIN shown : shown[i] = shown[j] => i = j

\* Messages sent on one connection are taken up in the order they were sent:
\* "a live push can never land ahead of an older, still-draining envelope"
\* (index.ts:503-504) and one link's frames are stored in order (567-571).  A
\* message that came in while the recipient was not active, or that a drain left
\* behind for that reason, waits in the mailbox for the next drain, which live
\* pushes do not; so does one whose push, drain or decryption failed.
LinkOrder ==
    lapsed \/ \A i, j \in DOMAIN decrypted :
        i < j /\ sent[decrypted[i]].link = sent[decrypted[j]].link
            => decrypted[i] < decrypted[j]

\* Nothing is under way between the relay and the client.
Quiet ==
    /\ stage = "idle" /\ \A l \in Links : hand[l] = Idle
    /\ down = <<>> /\ inbox = <<>> /\ busy = Null

\* No envelope is stranded between the drain and the live push: once nothing is
\* under way, a recipient that was active when its connection was drained and
\* has stayed so has decrypted every row of its mailbox, unless decrypting it
\* failed.  What is left there beside that was decided but its ack was lost.  A
\* rejecting query takes this from the recipient until its next drain, and if it
\* was one of the drain after auth, until it connects again, since everything
\* pushed to it goes to a buffer that nobody sends (index.ts:509-513, 606-615).
NoneStranded ==
    online /\ steady /\ Quiet => \A seq \in rows : seqOf[seq] \in handled \cup failed

\* The handlers, drains, live pushes, buffers and acks, their losses and their
\* races do what the abstract mailbox promises (index.ts:567-618, db.ts:399-420,
\* client.ts:945-1029).
AbstractMail == INSTANCE StoreAndForward WITH
    Connections <- Links, posted <- sent, stored <- {seqOf[p] : p \in DOMAIN seqOf},
    box <- {seqOf[p] : p \in rows}, decided <- handled
ImplementsMailbox == AbstractMail!MailSpec
=============================================================================
