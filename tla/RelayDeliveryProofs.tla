------------------------- MODULE RelayDeliveryProofs -------------------------
(***************************************************************************)
(* Proofs about RelayDelivery: no envelope is lost, shown twice, stranded  *)
(* or overtaken, for any number of senders, links, messages and events.    *)
(***************************************************************************)
EXTENDS RelayDelivery, SequenceFacts

\* Where the relay may be in a send frame, with n ciphertexts, m seqs and c
\* connections so far.
Storing(n) == [at : {"storing"}, id : 1 .. n]
Stored(m) == [at : {"stored"}, seq : 1 .. m]
Routing(m, c) == [at : {"routing", "pushing"}, seq : 1 .. m, target : 1 .. c]
Hand(n, m, c) == {Idle} \cup Storing(n) \cup Stored(m) \cup Routing(m, c)

Sent == [msg : 1 .. MaxSends, link : Links]

Stages == {"idle", "scoping", "querying", "sending"}

\* The types of the specification, by what bounds them, but for the number of
\* connections.
SenderShape ==
    /\ roster \subseteq Senders \cup {Recipient}
    /\ sent \in Seq(Sent)
    /\ link \in [Senders -> 1 .. MaxLinks + 1]
    /\ up \in [Links -> Seq(1 .. Len(sent))]

HandShape == hand \in [Links -> Hand(Len(sent), Len(seqOf), conn)]

StoreShape == seqOf \in Seq(1 .. Len(sent)) /\ rows \subseteq 1 .. Len(seqOf)

ConnShape ==
    /\ conn \in Nat /\ online \in BOOLEAN /\ live \in 0 .. conn /\ closing \subseteq 1 .. conn
    /\ draining \in BOOLEAN /\ stuck \in BOOLEAN /\ stage \in Stages

FlowShape ==
    /\ scanned \subseteq 1 .. Len(seqOf) /\ buffer \in Seq(1 .. Len(seqOf))
    /\ down \in Seq(1 .. Len(seqOf)) /\ upR \in Seq({Resync} \cup 1 .. Len(seqOf))
    /\ lateAcks \subseteq 1 .. Len(seqOf) /\ inbox \in Seq(1 .. Len(seqOf))
    /\ busy \in {Null} \cup 1 .. Len(seqOf)

ClientShape ==
    /\ decrypted \in Seq(1 .. Len(sent)) /\ handled \subseteq 1 .. Len(sent)
    /\ failed \subseteq 1 .. Len(sent)
    /\ seen \subseteq 1 .. MaxSends /\ shown \in Seq(1 .. MaxSends)

CountShape ==
    /\ events \in 0 .. MaxEvents /\ resynced \in BOOLEAN
    /\ steady \in BOOLEAN /\ lapsed \in BOOLEAN

Shape ==
    /\ SenderShape /\ HandShape /\ StoreShape /\ ConnShape
    /\ FlowShape /\ ClientShape /\ CountShape

\* Every connection but the open one has used up an event, and so has a
\* subscribe frame that the relay may yet answer by closing.
ConnCounted ==
    /\ conn <= events + (IF online THEN 1 ELSE 0)
    /\ (\E i \in DOMAIN upR : upR[i] = Resync) => conn <= events
    /\ ~online => upR = <<>>

\* What the client has acknowledged it has decided.
AcksHandled ==
    /\ \A i \in DOMAIN upR : upR[i] # Resync => seqOf[upR[i]] \in handled
    /\ \A seq \in lateAcks : seqOf[seq] \in handled

ShownSeen == \A i \in DOMAIN shown : shown[i] \in seen

\* A ciphertext was decrypted.
Taken(id) == \E i \in DOMAIN decrypted : decrypted[i] = id

\* The client has decided what it decrypted, but for the one it is busy with.
DecidedIsTaken ==
    /\ \A id \in handled : Taken(id)
    /\ busy # Null => Taken(seqOf[busy])
    /\ \A i \in DOMAIN decrypted :
          decrypted[i] \in handled \/ (busy # Null /\ decrypted[i] = seqOf[busy])

\* What the client is busy with it has not decided yet.
Undecided == busy # Null => seqOf[busy] \notin handled

\* The open connection is the one registered; a closed one leaves nothing.  A
\* drain that failed, and a decryption that did, are remembered.
Registered ==
    /\ online => live = conn /\ conn # 0 /\ conn \notin closing
    /\ ~online => stage = "idle" /\ ~draining /\ ~steady
    /\ stage # "sending" => scanned = {}
    /\ draining => stage # "idle" \/ stuck
    /\ ~draining => buffer = <<>>
    /\ steady => Recipient \in roster
    /\ stuck => draining /\ ~steady /\ lapsed
    /\ failed # {} => lapsed

In(p, q) == \E i \in DOMAIN q : q[i] = p

Before(p, q, i) == \E j \in DOMAIN q : j < i /\ q[j] = p

\* A send handler is about to push seq p to the open connection.
Held(p) ==
    \E l \in Links :
        \/ hand[l].at = "stored" /\ hand[l].seq = p
        \/ /\ hand[l].at \in {"routing", "pushing"} /\ hand[l].seq = p
           /\ hand[l].target = conn

Pending == stage \in {"scoping", "querying"}

\* Seq p has been taken up, or failed to be, or is on its way; or a drain under
\* way will send it, which OnItsWay counts if told to.
Underway(p) ==
    Taken(seqOf[p]) \/ seqOf[p] \in failed \/ In(p, inbox) \/ In(p, down) \/ Held(p)
ToDrain(p) == Pending \/ p \in scanned \/ In(p, buffer)
OnItsWay(p, drain) == Underway(p) \/ (drain /\ ToDrain(p))

\* Every envelope is on its way to a recipient that has been active since its
\* connection was drained.
Reached == online /\ steady => \A p \in DOMAIN seqOf : OnItsWay(p, TRUE)

\* So it is as long as the recipient was active whenever that mattered; and then
\* only the drain after auth, which holds live pushes back, has to be relied on.
ReachedInOrder == online /\ ~lapsed => \A p \in DOMAIN seqOf : OnItsWay(p, draining)

LinkOf(p) == sent[seqOf[p]].link

\* The ciphertexts of one link get their seqs in the order of sending.
StoredAscending ==
    \A p, q \in DOMAIN seqOf : p < q /\ LinkOf(p) = LinkOf(q) => seqOf[p] < seqOf[q]

\* What is under way on link l comes after what the relay has of it.
QueueInOrder(l) ==
    \A i \in DOMAIN up[l] :
        /\ sent[up[l][i]].link = l
        /\ \A j \in DOMAIN up[l] : i < j => up[l][i] < up[l][j]
        /\ \A p \in DOMAIN seqOf : LinkOf(p) = l => seqOf[p] < up[l][i]
        /\ hand[l].at = "storing" => hand[l].id < up[l][i]

\* The frame being handled is the link's latest.
HandInOrder(l) ==
    /\ hand[l].at = "storing" =>
          /\ sent[hand[l].id].link = l
          /\ \A p \in DOMAIN seqOf : LinkOf(p) = l => seqOf[p] < hand[l].id
    /\ hand[l].at \in {"stored", "routing", "pushing"} =>
          /\ LinkOf(hand[l].seq) = l
          /\ \A p \in DOMAIN seqOf : LinkOf(p) = l => p <= hand[l].seq

StoredInOrder == StoredAscending /\ \A l \in Links : QueueInOrder(l) /\ HandInOrder(l)

Earlier(p, q) == p < q /\ LinkOf(p) = LinkOf(q)

\* Wherever envelopes wait, none is ahead of the earlier envelope p of its link.
InboxInOrder(p) == \A i \in DOMAIN inbox : Earlier(p, inbox[i]) => Before(p, inbox, i)
DownInOrder(p) ==
    \A i \in DOMAIN down : Earlier(p, down[i]) => In(p, inbox) \/ Before(p, down, i)
ScanInOrder(p) ==
    \A q \in scanned : Earlier(p, q) => In(p, inbox) \/ In(p, down) \/ p \in scanned
BufferInOrder(p) ==
    \A i \in DOMAIN buffer :
        Earlier(p, buffer[i]) =>
            In(p, inbox) \/ In(p, down) \/ p \in scanned \/ Pending \/ Before(p, buffer, i)
TakenInOrder(p) == \A q \in DOMAIN seqOf : Earlier(p, q) => ~Taken(seqOf[q])

\* On the way to the client no envelope overtakes an earlier one of its link
\* that is not taken up yet.
FlowsInOrder ==
    \A p \in DOMAIN seqOf : ~Taken(seqOf[p]) =>
        /\ InboxInOrder(p) /\ DownInOrder(p) /\ ScanInOrder(p)
        /\ BufferInOrder(p) /\ TakenInOrder(p)

\* What is decrypted was stored.
TakenIsStored == \A i \in DOMAIN decrypted : \E p \in DOMAIN seqOf : decrypted[i] = seqOf[p]

Ordered == ReachedInOrder /\ StoredInOrder /\ (lapsed \/ FlowsInOrder) /\ TakenIsStored

Inv ==
    /\ Shape /\ ConnCounted /\ AcksHandled /\ ShownSeen /\ DecidedIsTaken /\ Undecided
    /\ Registered /\ Reached /\ Ordered

---------------------------------------------------------------------------
(***************************************************************************)
(* Types                                                                   *)
(***************************************************************************)

\* The domains that the shape gives.
LEMMA Domains ==
    ASSUME Shape
    PROVE  /\ Len(sent) \in Nat /\ DOMAIN sent = 1 .. Len(sent)
           /\ Len(seqOf) \in Nat /\ DOMAIN seqOf = 1 .. Len(seqOf)
           /\ \A p \in DOMAIN seqOf : seqOf[p] \in 1 .. Len(sent) /\ sent[seqOf[p]] \in Sent
           /\ \A i \in DOMAIN sent : sent[i] \in Sent
<1> USE DEF Shape
<1>1. Len(sent) \in Nat /\ DOMAIN sent = 1 .. Len(sent)  BY LenProperties DEF SenderShape
<1>2. Len(seqOf) \in Nat /\ DOMAIN seqOf = 1 .. Len(seqOf)  BY LenProperties DEF StoreShape
<1>3. \A p \in DOMAIN seqOf : seqOf[p] \in 1 .. Len(sent)
  BY <1>2, ElementOfSeq DEF StoreShape
<1>4. \A i \in DOMAIN sent : sent[i] \in Sent  BY <1>1, ElementOfSeq DEF SenderShape
<1> QED  BY <1>1, <1>2, <1>3, <1>4

\* What the relay holds at each point of a send frame.
LEMMA HandAt ==
    ASSUME Shape, NEW l \in Links
    PROVE  /\ hand[l].at \in {"idle", "storing", "stored", "routing", "pushing"}
           /\ hand[l].at = "idle" => hand[l] = Idle
           /\ hand[l].at = "storing" => hand[l].id \in 1 .. Len(sent)
           /\ hand[l].at = "stored" => hand[l].seq \in 1 .. Len(seqOf)
           /\ hand[l].at \in {"routing", "pushing"} =>
                 /\ hand[l] \in Routing(Len(seqOf), conn)
                 /\ hand[l].seq \in 1 .. Len(seqOf) /\ hand[l].target \in 1 .. conn
<1>1. hand[l] \in Hand(Len(sent), Len(seqOf), conn)  BY DEF Shape, HandShape
<1>2. CASE hand[l] = Idle  BY <1>2 DEF Idle
<1>3. CASE hand[l] \in Storing(Len(sent))  BY <1>3 DEF Storing
<1>4. CASE hand[l] \in Stored(Len(seqOf))  BY <1>4 DEF Stored
<1>5. CASE hand[l] \in Routing(Len(seqOf), conn)  BY <1>5 DEF Routing
<1> QED  BY <1>1, <1>2, <1>3, <1>4, <1>5 DEF Hand

\* What the relay may hold only grows with what there is.
LEMMA HandGrows ==
    ASSUME NEW n \in Nat, NEW m \in Nat, NEW c \in Nat,
           NEW n2 \in Nat, NEW m2 \in Nat, NEW c2 \in Nat, n <= n2, m <= m2, c <= c2
    PROVE  Hand(n, m, c) \subseteq Hand(n2, m2, c2)
<1>1. Storing(n) \subseteq Storing(n2)  BY DEF Storing
<1>2. Stored(m) \subseteq Stored(m2)  BY DEF Stored
<1>3. Routing(m, c) \subseteq Routing(m2, c2)  BY DEF Routing
<1> QED  BY <1>1, <1>2, <1>3 DEF Hand

\* The relay goes on with the frame of one link.
LEMMA HandSet ==
    ASSUME Shape, NEW l \in Links, NEW h, hand' = [hand EXCEPT ![l] = h]
    PROVE  /\ hand'[l] = h /\ \A k \in Links : k # l => hand'[k] = hand[k]
           /\ UNCHANGED <<sent, seqOf, conn>> /\ h \in Hand(Len(sent), Len(seqOf), conn)
                 => HandShape'
<1>1. hand \in [Links -> Hand(Len(sent), Len(seqOf), conn)]  BY DEF Shape, HandShape
<1>2. hand'[l] = h /\ \A k \in Links : k # l => hand'[k] = hand[k]  BY <1>1
<1>3. ASSUME UNCHANGED <<sent, seqOf, conn>>, h \in Hand(Len(sent), Len(seqOf), conn)
      PROVE  HandShape'
  <2> DEFINE H == Hand(Len(sent), Len(seqOf), conn)
  <2>1. H' = H  BY <1>3
  <2>2. hand' \in [Links -> H]
    <3> HIDE DEF H
    <3> QED  BY <1>1, <1>3 DEF H
  <2> QED  BY <2>1, <2>2 DEF HandShape
<1> QED  BY <1>2, <1>3

\* The queue of one link changed.
LEMMA UpSet ==
    ASSUME Shape, NEW l \in Links, NEW q \in Seq(1 .. Len(sent)), up' = [up EXCEPT ![l] = q]
    PROVE  /\ up' \in [Links -> Seq(1 .. Len(sent))]
           /\ up'[l] = q /\ \A k \in Links : k # l => up'[k] = up[k]
BY DEF Shape, SenderShape

\* The types hold at first.
LEMMA ShapeInitially == ASSUME Init PROVE Shape
<1>1. /\ sent = <<>> /\ seqOf = <<>> /\ Len(sent) = 0 /\ Len(seqOf) = 0
      /\ \A S : <<>> \in Seq(S)
  BY DEF Init
<1>2. SenderShape  BY <1>1, BoundsAreNatural DEF Init, SenderShape
<1>3. HandShape  BY DEF Init, HandShape, Hand
<1>4. StoreShape  BY <1>1 DEF Init, StoreShape
<1>5. ConnShape
  <2>1. conn \in Nat /\ live \in 0 .. conn /\ closing \subseteq 1 .. conn  BY DEF Init
  <2>2. online \in BOOLEAN /\ draining \in BOOLEAN /\ stuck \in BOOLEAN /\ stage \in Stages
    BY DEF Init, Stages
  <2> QED  BY <2>1, <2>2 DEF ConnShape
<1>6. FlowShape  BY <1>1 DEF Init, FlowShape
<1>7. ClientShape  BY <1>1 DEF Init, ClientShape
<1>8. CountShape
  <2>1. events \in 0 .. MaxEvents  BY BoundsAreNatural DEF Init
  <2>2. resynced \in BOOLEAN /\ steady \in BOOLEAN /\ lapsed \in BOOLEAN  BY DEF Init
  <2> QED  BY <2>1, <2>2 DEF CountShape
<1> QED  BY <1>2, <1>3, <1>4, <1>5, <1>6, <1>7, <1>8 DEF Shape

\* They are kept by the senders' steps.
LEMMA ShapeTransmit ==
    ASSUME Shape, NEW s \in Senders, NEW msg \in 1 .. MaxSends, Transmit(s, msg)
    PROVE  /\ Shape' /\ Len(sent') = Len(sent) + 1 /\ DOMAIN sent' = 1 .. (Len(sent) + 1)
           /\ \A i \in DOMAIN sent : sent'[i] = sent[i]
           /\ sent'[Len(sent) + 1] = [msg |-> msg, link |-> <<s, link[s]>>]
           /\ <<s, link[s]>> \in Links
           /\ \A k \in Links : up'[k] = IF k = <<s, link[s]>> THEN Append(up[k], Len(sent) + 1)
                                                            ELSE up[k]
<1> USE DEF Shape
<1> DEFINE l == <<s, link[s]>>
           e == [msg |-> msg, link |-> l]
           n == Len(sent)
<1>1. l \in Links /\ sent' = Append(sent, e) /\ up' = [up EXCEPT ![l] = Append(@, n + 1)]
      /\ UNCHANGED <<roster, link, relayVars, connVars, down, upR, lateAcks, clientVars,
                     events, resynced, steady, lapsed>>
  BY DEF Transmit
<1>2. e \in Sent  BY <1>1 DEF Sent
<1> HIDE DEF e, l
<1>3. /\ sent' \in Seq(Sent) /\ Len(sent') = n + 1 /\ DOMAIN sent' = 1 .. (n + 1) /\ n \in Nat
      /\ \A i \in DOMAIN sent : sent'[i] = sent[i]
      /\ sent'[n + 1] = e
  BY <1>1, <1>2, Appended DEF SenderShape
<1>4. 1 .. n \subseteq 1 .. (n + 1) /\ n + 1 \in 1 .. (n + 1) /\ n <= n + 1  BY <1>3
<1> HIDE DEF n
<1>5. \A k \in Links : up[k] \in Seq(1 .. (n + 1))
  BY <1>4, SeqMonotonic DEF SenderShape, n
<1>6. \A k \in Links : Append(up[k], n + 1) \in Seq(1 .. (n + 1))
  BY <1>4, <1>5, AppendProperties
<1>7. /\ up' \in [Links -> Seq(1 .. (n + 1))]
      /\ \A k \in Links : up'[k] = IF k = l THEN Append(up[k], n + 1) ELSE up[k]
  <2>1. up \in [Links -> Seq(1 .. n)]  BY DEF SenderShape, n
  <2> QED  BY <1>1, <1>5, <1>6, <2>1
<1>8. SenderShape'  BY <1>1, <1>3, <1>7 DEF SenderShape
<1>9. HandShape'
  <2>1. Len(seqOf) \in Nat /\ conn \in Nat  BY Domains DEF ConnShape
  <2>2. \A m, c \in Nat : Hand(n, m, c) \subseteq Hand(n + 1, m, c)
    <3> SUFFICES ASSUME NEW m \in Nat, NEW c \in Nat
                 PROVE  Hand(n, m, c) \subseteq Hand(n + 1, m, c)
      OBVIOUS
    <3>1. n \in Nat /\ n + 1 \in Nat /\ m <= m /\ c <= c  BY <1>3 DEF n
    <3> QED  BY <1>4, <3>1, HandGrows
  <2>3. hand \in [Links -> Hand(n + 1, Len(seqOf), conn)]
    BY <2>1, <2>2 DEF HandShape, n
  <2> QED  BY <1>1, <1>3, <2>3 DEF HandShape, relayVars, connVars
<1>10. StoreShape'
  <2>1. seqOf \in Seq(1 .. (n + 1))  BY <1>4, SeqMonotonic DEF StoreShape, n
  <2> QED  BY <1>1, <1>3, <2>1 DEF StoreShape, relayVars
<1>11. ClientShape'
  <2>1. decrypted \in Seq(1 .. (n + 1))  BY <1>4, SeqMonotonic DEF ClientShape, n
  <2> QED  BY <1>1, <1>3, <1>4, <2>1 DEF ClientShape, clientVars, n
<1>12. ConnShape' /\ FlowShape' /\ CountShape'
  BY <1>1 DEF ConnShape, FlowShape, CountShape, relayVars, connVars, clientVars
<1> QED  BY <1>1, <1>3, <1>7, <1>8, <1>9, <1>10, <1>11, <1>12 DEF e, l, n

\* The sender's message is the sender's own, new or sent before.
LEMMA MessageIsValid ==
    ASSUME Shape, NEW s \in Senders, Send(s) \/ Resend(s)
    PROVE  \E msg \in 1 .. MaxSends : Transmit(s, msg)
<1>1. CASE Send(s)
  <2>1. Len(sent) + 1 \in 1 .. MaxSends
    BY <1>1, Domains, BoundsAreNatural DEF Send, Transmit
  <2> QED  BY <1>1, <2>1 DEF Send
<1>2. CASE Resend(s)
  <2>1. PICK i \in DOMAIN sent : sent[i].msg = i /\ Transmit(s, i)  BY <1>2 DEF Resend
  <2>2. sent[i].msg \in 1 .. MaxSends  BY Domains DEF Sent
  <2> QED  BY <2>1, <2>2
<1> QED  BY <1>1, <1>2

\* A link closes with some of what is under way on it.
LEMMA ShapeCloseLink ==
    ASSUME Shape, NEW l \in Links, NEW queue \in Seq(1 .. Len(sent)), CloseLink(l, queue),
           UNCHANGED <<roster, sent>>
    PROVE  /\ SenderShape'
           /\ \E n \in 0 .. Len(queue) : up'[l] = SubSeq(queue, 1, n)
           /\ \A k \in Links : k # l => up'[k] = up[k]
<1>1. PICK n \in 0 .. Len(queue) : up' = [up EXCEPT ![l] = SubSeq(queue, 1, n)]
  BY DEF CloseLink
<1>2. SubSeq(queue, 1, n) \in Seq(1 .. Len(sent))  BY Shortened
<1>3. /\ up' \in [Links -> Seq(1 .. Len(sent))] /\ up'[l] = SubSeq(queue, 1, n)
      /\ \A k \in Links : k # l => up'[k] = up[k]
  BY <1>1, <1>2, UpSet
<1>4. link' \in [Senders -> 1 .. MaxLinks + 1]
  <2>1. l[1] \in Senders /\ l[2] + 1 \in 1 .. MaxLinks + 1  BY BoundsAreNatural DEF Links
  <2> QED  BY <2>1 DEF CloseLink, Shape, SenderShape
<1> QED  BY <1>3, <1>4 DEF SenderShape, Shape

\* What a step leaves alone keeps its types.
LEMMA ShapeKept ==
    ASSUME Shape
    PROVE  /\ UNCHANGED <<roster, sent, link, up>> => SenderShape'
           /\ UNCHANGED <<sent, seqOf, conn, hand>> => HandShape'
           /\ UNCHANGED <<sent, seqOf, rows>> => StoreShape'
           /\ UNCHANGED <<conn, online, live, closing, draining, stuck, stage>> => ConnShape'
           /\ UNCHANGED <<seqOf, scanned, buffer, down, upR, lateAcks, inbox, busy>> => FlowShape'
           /\ UNCHANGED <<sent, decrypted, handled, failed, seen, shown>> => ClientShape'
           /\ UNCHANGED <<events, resynced, steady, lapsed>> => CountShape'
<1> USE DEF Shape
<1>1. UNCHANGED <<roster, sent, link, up>> => SenderShape'  BY DEF SenderShape
<1>2. UNCHANGED <<sent, seqOf, conn, hand>> => HandShape'  BY DEF HandShape
<1>3. UNCHANGED <<sent, seqOf, rows>> => StoreShape'  BY DEF StoreShape
<1>4. UNCHANGED <<conn, online, live, closing, draining, stuck, stage>> => ConnShape'
  BY DEF ConnShape
<1>5. UNCHANGED <<seqOf, scanned, buffer, down, upR, lateAcks, inbox, busy>> => FlowShape'
  BY DEF FlowShape
<1>6. UNCHANGED <<sent, decrypted, handled, failed, seen, shown>> => ClientShape'  BY DEF ClientShape
<1>7. UNCHANGED <<events, resynced, steady, lapsed>> => CountShape'  BY DEF CountShape
<1> QED  BY <1>1, <1>2, <1>3, <1>4, <1>5, <1>6, <1>7

\* Losing a sender's link.
LEMMA ShapeCutSender == ASSUME Shape, NEW l \in Links, CutSender(l) PROVE Shape'
<1>1. up[l] \in Seq(1 .. Len(sent))  BY DEF Shape, SenderShape
<1>2. SenderShape'  BY <1>1, ShapeCloseLink DEF CutSender
<1>3. CountShape'
  <2>1. events' \in 0 .. MaxEvents
    BY BoundsAreNatural DEF CutSender, Happens, Shape, CountShape
  <2> QED  BY <2>1 DEF CutSender, Shape, CountShape
<1> QED
  BY <1>2, <1>3, ShapeKept DEF CutSender, Shape, relayVars, connVars, clientVars

\* The first frame of a link is taken off its queue.
LEMMA FrameTaken ==
    ASSUME Shape, NEW l \in Links, up[l] # <<>>
    PROVE  /\ Tail(up[l]) \in Seq(1 .. Len(sent)) /\ Head(up[l]) \in 1 .. Len(sent)
           /\ Head(up[l]) = up[l][1] /\ 1 \in DOMAIN up[l]
           /\ \A i \in DOMAIN Tail(up[l]) :
                 i + 1 \in DOMAIN up[l] /\ i \in Nat \ {0} /\ Tail(up[l])[i] = up[l][i + 1]
<1>1. up[l] \in Seq(1 .. Len(sent))  BY DEF Shape, SenderShape
<1>2. /\ Tail(up[l]) \in Seq(1 .. Len(sent)) /\ Head(up[l]) \in 1 .. Len(sent)
      /\ Head(up[l]) = up[l][1] /\ 1 \in DOMAIN up[l]
      /\ Len(up[l]) \in Nat /\ DOMAIN Tail(up[l]) = 1 .. (Len(up[l]) - 1)
      /\ \A i \in DOMAIN Tail(up[l]) : i + 1 \in DOMAIN up[l] /\ Tail(up[l])[i] = up[l][i + 1]
  BY <1>1, Shortened
<1>3. \A i \in DOMAIN Tail(up[l]) : i \in Nat \ {0}  BY <1>2
<1> QED  BY <1>2, <1>3

\* A send frame is begun.
LEMMA ShapeAdmit ==
    ASSUME Shape, NEW l \in Links, AdmitSend(l)
    PROVE  /\ Shape' /\ up[l] # <<>> /\ up'[l] = Tail(up[l])
           /\ \A k \in Links : k # l => up'[k] = up[k] /\ hand'[k] = hand[k]
           /\ hand'[l] = [at |-> "storing", id |-> Head(up[l])]
<1> DEFINE h == [at |-> "storing", id |-> Head(up[l])]
<1>1. /\ up[l] # <<>> /\ up' = [up EXCEPT ![l] = Tail(up[l])] /\ hand' = [hand EXCEPT ![l] = h]
      /\ UNCHANGED <<roster, sent, link, seqOf, rows, connVars, down, upR, lateAcks, clientVars,
                     events, resynced, steady, lapsed>>
  BY DEF AdmitSend, Shape, SenderShape
<1>2. Tail(up[l]) \in Seq(1 .. Len(sent)) /\ Head(up[l]) \in 1 .. Len(sent)
  BY <1>1, FrameTaken
<1>3. h \in Hand(Len(sent), Len(seqOf), conn)  BY <1>2 DEF Hand, Storing
<1>4. /\ up' \in [Links -> Seq(1 .. Len(sent))]
      /\ up'[l] = Tail(up[l]) /\ \A k \in Links : k # l => up'[k] = up[k]
  BY <1>1, <1>2, UpSet
<1>5. SenderShape'  BY <1>1, <1>4 DEF Shape, SenderShape
<1> HIDE DEF h
<1>6. /\ HandShape' /\ hand'[l] = h /\ \A k \in Links : k # l => hand'[k] = hand[k]
  BY <1>1, <1>3, HandSet DEF connVars
<1>7. Shape'  BY <1>1, <1>5, <1>6, ShapeKept DEF Shape, connVars, clientVars
<1> QED  BY <1>1, <1>4, <1>6, <1>7 DEF h

\* A send frame is refused: at most the link's queue gets shorter.
LEMMA ShapeRefuse ==
    ASSUME Shape, NEW l \in Links, RefuseSend(l)
    PROVE  /\ Shape' /\ up[l] # <<>> /\ \A k \in Links : k # l => up'[k] = up[k]
           /\ \/ up'[l] = Tail(up[l])
              \/ \E n \in 0 .. Len(Tail(up[l])) : up'[l] = SubSeq(Tail(up[l]), 1, n)
<1>1. /\ up[l] # <<>>
      /\ \/ CloseLink(l, Tail(up[l]))
         \/ up' = [up EXCEPT ![l] = Tail(up[l])] /\ UNCHANGED link
      /\ UNCHANGED <<roster, sent, relayVars, connVars, down, upR, lateAcks, clientVars, events,
                     resynced, steady, lapsed>>
  BY DEF RefuseSend, Shape, SenderShape
<1>2. Tail(up[l]) \in Seq(1 .. Len(sent))  BY <1>1, FrameTaken
<1>3. /\ SenderShape' /\ \A k \in Links : k # l => up'[k] = up[k]
      /\ \/ up'[l] = Tail(up[l])
         \/ \E n \in 0 .. Len(Tail(up[l])) : up'[l] = SubSeq(Tail(up[l]), 1, n)
  <2>1. CASE CloseLink(l, Tail(up[l]))  BY <1>1, <1>2, <2>1, ShapeCloseLink
  <2>2. CASE up' = [up EXCEPT ![l] = Tail(up[l])] /\ UNCHANGED link
    BY <1>1, <1>2, <2>2, UpSet DEF Shape, SenderShape
  <2> QED  BY <1>1, <2>1, <2>2
<1>4. Shape'
  BY <1>1, <1>3, ShapeKept DEF Shape, relayVars, connVars, clientVars
<1> QED  BY <1>1, <1>3, <1>4

\* An envelope is stored: the row gets the next seq.
LEMMA ShapeStore ==
    ASSUME Shape, NEW l \in Links, StoreEnvelope(l)
    PROVE  /\ Shape' /\ Len(seqOf') = Len(seqOf) + 1 /\ DOMAIN seqOf' = 1 .. (Len(seqOf) + 1)
           /\ \A p \in DOMAIN seqOf : seqOf'[p] = seqOf[p] /\ p # Len(seqOf) + 1
           /\ seqOf'[Len(seqOf) + 1] = hand[l].id /\ hand[l].at = "storing"
           /\ hand'[l] = [at |-> "stored", seq |-> Len(seqOf) + 1]
           /\ \A k \in Links : k # l => hand'[k] = hand[k]
<1> USE DEF Shape
<1> DEFINE m == Len(seqOf)
           id == hand[l].id
           h == [at |-> "stored", seq |-> m + 1]
<1>1. /\ hand[l].at = "storing" /\ seqOf' = Append(seqOf, id) /\ rows' = rows \cup {m + 1}
      /\ hand' = [hand EXCEPT ![l] = h] /\ lapsed' = (lapsed \/ Recipient \notin roster)
      /\ UNCHANGED <<roster, senderVars, connVars, down, upR, lateAcks, clientVars, events,
                     resynced, steady>>
  BY DEF StoreEnvelope
<1>2. id \in 1 .. Len(sent)  BY <1>1, HandAt
<1> HIDE DEF id
<1>3. /\ seqOf' \in Seq(1 .. Len(sent)) /\ Len(seqOf') = m + 1 /\ DOMAIN seqOf' = 1 .. (m + 1)
      /\ m \in Nat /\ DOMAIN seqOf = 1 .. m
      /\ \A p \in DOMAIN seqOf : seqOf'[p] = seqOf[p]
      /\ seqOf'[m + 1] = id
  BY <1>1, <1>2, Appended DEF StoreShape
<1>4. /\ 1 .. m \subseteq 1 .. (m + 1) /\ m + 1 \in 1 .. (m + 1) /\ m <= m + 1 /\ m + 1 \in Nat
      /\ \A p \in 1 .. m : p # m + 1
  BY <1>3
<1>5. StoreShape'  BY <1>1, <1>3, <1>4 DEF StoreShape, senderVars
<1>6. /\ \A q \in Seq(1 .. m) : q \in Seq(1 .. (m + 1))
      /\ \A q \in Seq({Resync} \cup 1 .. m) : q \in Seq({Resync} \cup 1 .. (m + 1))
  <2>1. {Resync} \cup 1 .. m \subseteq {Resync} \cup 1 .. (m + 1)  BY <1>4
  <2> QED  BY <1>4, <2>1, SeqMonotonic
<1>7. /\ scanned \subseteq 1 .. m /\ buffer \in Seq(1 .. m)
      /\ down \in Seq(1 .. m) /\ upR \in Seq({Resync} \cup 1 .. m)
      /\ lateAcks \subseteq 1 .. m /\ inbox \in Seq(1 .. m) /\ busy \in {Null} \cup 1 .. m
  BY DEF FlowShape
<1> HIDE DEF m, h
<1>8. FlowShape'
  BY <1>1, <1>3, <1>4, <1>6, <1>7 DEF FlowShape, connVars, clientVars
<1>9. h \in Hand(Len(sent), m + 1, conn)
  BY <1>4 DEF h, Hand, Stored
<1>10. \A n, c \in Nat : Hand(n, m, c) \subseteq Hand(n, m + 1, c)
  <2> SUFFICES ASSUME NEW n \in Nat, NEW c \in Nat
               PROVE  Hand(n, m, c) \subseteq Hand(n, m + 1, c)
    OBVIOUS
  <2>1. n <= n /\ c <= c /\ m \in Nat /\ m + 1 \in Nat /\ m <= m + 1  BY <1>3, <1>4
  <2> QED  BY <2>1, HandGrows
<1>11. hand \in [Links -> Hand(Len(sent), m + 1, conn)]
  BY <1>10, Domains DEF HandShape, ConnShape, m
<1>12. /\ hand' \in [Links -> Hand(Len(sent), m + 1, conn)]
       /\ hand'[l] = h /\ \A k \in Links : k # l => hand'[k] = hand[k]
  BY <1>1, <1>9, <1>11
<1>13. HandShape'  BY <1>1, <1>3, <1>12 DEF HandShape, senderVars, connVars
<1>14. CountShape'
  <2>1. (lapsed \/ Recipient \notin roster) \in BOOLEAN  OBVIOUS
  <2> QED  BY <1>1, <2>1 DEF CountShape
<1>15. SenderShape' /\ ConnShape' /\ ClientShape'
  BY <1>1, ShapeKept DEF senderVars, connVars, clientVars
<1> QED
  BY <1>1, <1>3, <1>4, <1>5, <1>8, <1>12, <1>13, <1>14, <1>15 DEF m, h, id

\* The rest of a send frame: the relay moves on in it.
LEMMA ShapeLookUp ==
    ASSUME Shape, NEW l \in Links, LookUpTarget(l)
    PROVE  /\ Shape' /\ hand[l].at = "stored"
           /\ live # 0 => hand'[l] = [at |-> "routing", seq |-> hand[l].seq, target |-> live]
           /\ live = 0 => hand'[l] = Idle
           /\ \A k \in Links : k # l => hand'[k] = hand[k]
<1> DEFINE h == IF live # 0 THEN [at |-> "routing", seq |-> hand[l].seq, target |-> live] ELSE Idle
<1>1. /\ hand[l].at = "stored" /\ hand' = [hand EXCEPT ![l] = h]
      /\ UNCHANGED <<roster, senderVars, seqOf, rows, connVars, down, upR, lateAcks, clientVars,
                     events, resynced, steady, lapsed>>
  BY DEF LookUpTarget, LiveTarget, Shape, HandShape
<1>2. h \in Hand(Len(sent), Len(seqOf), conn)
  <2>1. hand[l].seq \in 1 .. Len(seqOf)  BY <1>1, HandAt
  <2>2. CASE live # 0
    <3>1. live \in 1 .. conn  BY <2>2 DEF Shape, ConnShape
    <3>2. h \in Routing(Len(seqOf), conn)  BY <2>1, <2>2, <3>1 DEF Routing
    <3> QED  BY <3>2 DEF Hand
  <2>3. CASE live = 0  BY <2>3 DEF Hand
  <2> QED  BY <2>2, <2>3
<1>3. live # 0 => h = [at |-> "routing", seq |-> hand[l].seq, target |-> live]  OBVIOUS
<1>4. live = 0 => h = Idle  OBVIOUS
<1> HIDE DEF h
<1>5. /\ HandShape' /\ hand'[l] = h /\ \A k \in Links : k # l => hand'[k] = hand[k]
  BY <1>1, <1>2, HandSet DEF senderVars, connVars
<1>6. Shape'
  BY <1>1, <1>5, ShapeKept DEF Shape, senderVars, connVars, clientVars
<1> QED  BY <1>1, <1>3, <1>4, <1>5, <1>6

\* The check of the recipient's membership.
LEMMA ShapeCheck ==
    ASSUME Shape, NEW l \in Links, CheckRecipient(l)
    PROVE  /\ Shape' /\ hand[l].at = "routing"
           /\ Recipient \in roster =>
                 /\ hand'[l].at = "pushing" /\ hand'[l].seq = hand[l].seq
                 /\ hand'[l].target = hand[l].target
           /\ Recipient \notin roster => hand'[l] = Idle
           /\ \A k \in Links : k # l => hand'[k] = hand[k]
<1> DEFINE h == IF Recipient \in roster THEN [hand[l] EXCEPT !.at = "pushing"] ELSE Idle
<1>1. /\ hand[l].at = "routing" /\ hand' = [hand EXCEPT ![l] = h]
      /\ lapsed' = (lapsed \/ Recipient \notin roster)
      /\ UNCHANGED <<roster, senderVars, seqOf, rows, connVars, down, upR, lateAcks, clientVars,
                     events, resynced, steady>>
  BY DEF CheckRecipient, Shape, HandShape
<1>2. /\ h \in Hand(Len(sent), Len(seqOf), conn)
      /\ Recipient \in roster =>
            h.at = "pushing" /\ h.seq = hand[l].seq /\ h.target = hand[l].target
      /\ Recipient \notin roster => h = Idle
  <2>1. hand[l] \in Routing(Len(seqOf), conn)  BY <1>1, HandAt
  <2>2. CASE Recipient \in roster
    <3>1. /\ h \in Routing(Len(seqOf), conn)
          /\ h.at = "pushing" /\ h.seq = hand[l].seq /\ h.target = hand[l].target
      BY <2>1, <2>2 DEF Routing
    <3> QED  BY <2>2, <3>1 DEF Hand
  <2>3. CASE Recipient \notin roster  BY <2>3 DEF Hand
  <2> QED  BY <2>2, <2>3
<1> HIDE DEF h
<1>3. /\ HandShape' /\ hand'[l] = h /\ \A k \in Links : k # l => hand'[k] = hand[k]
  BY <1>1, <1>2, HandSet DEF senderVars, connVars
<1>4. CountShape'
  <2>1. (lapsed \/ Recipient \notin roster) \in BOOLEAN  OBVIOUS
  <2> QED  BY <1>1, <2>1 DEF Shape, CountShape
<1>5. Shape'
  BY <1>1, <1>3, <1>4, ShapeKept DEF Shape, senderVars, connVars, clientVars
<1> QED  BY <1>1, <1>2, <1>3, <1>5

\* The push to the connection captured, if that is still the open one.
LEMMA ShapePush ==
    ASSUME Shape, NEW l \in Links, LivePush(l)
    PROVE  /\ Shape' /\ hand[l].at = "pushing" /\ hand'[l] = Idle
           /\ \A k \in Links : k # l => hand'[k] = hand[k]
           /\ hand[l].seq \in 1 .. Len(seqOf)
           /\ \/ /\ online /\ hand[l].target = conn
                 /\ \/ draining /\ buffer' = Append(buffer, hand[l].seq) /\ UNCHANGED down
                    \/ ~draining /\ down' = Append(down, hand[l].seq) /\ UNCHANGED buffer
              \/ ~(online /\ hand[l].target = conn) /\ UNCHANGED <<down, buffer>>
<1>1. /\ hand[l].at = "pushing" /\ hand' = [hand EXCEPT ![l] = Idle]
      /\ UNCHANGED <<roster, senderVars, seqOf, rows, conn, online, live, closing, stage, draining,
                     stuck, scanned, upR, lateAcks, clientVars, events, resynced, steady, lapsed>>
  BY DEF LivePush
<1>2. \/ /\ online /\ hand[l].target = conn
         /\ \/ draining /\ buffer' = Append(buffer, hand[l].seq) /\ UNCHANGED down
            \/ ~draining /\ down' = Append(down, hand[l].seq) /\ UNCHANGED buffer
      \/ ~(online /\ hand[l].target = conn) /\ UNCHANGED <<down, buffer>>
  BY DEF LivePush, Deliver
<1>3. Idle \in Hand(Len(sent), Len(seqOf), conn)  BY DEF Hand
<1>4. /\ HandShape' /\ hand'[l] = Idle /\ \A k \in Links : k # l => hand'[k] = hand[k]
  BY <1>1, <1>3, HandSet DEF senderVars
<1>5. hand[l].seq \in 1 .. Len(seqOf)  BY <1>1, HandAt
<1>6. FlowShape'
  <2>1. buffer' \in Seq(1 .. Len(seqOf)) /\ down' \in Seq(1 .. Len(seqOf))
    <3> DEFINE S == 1 .. Len(seqOf)
    <3>1. buffer \in Seq(S) /\ down \in Seq(S)  BY DEF Shape, FlowShape
    <3>2. \A q \in Seq(S) : Append(q, hand[l].seq) \in Seq(S)
      <4> HIDE DEF S
      <4> QED  BY <1>5, AppendProperties DEF S
    <3> QED  BY <1>2, <3>1, <3>2
  <2> QED  BY <1>1, <2>1 DEF Shape, FlowShape, clientVars
<1>7. Shape'
  BY <1>1, <1>4, <1>6, ShapeKept DEF Shape, senderVars, clientVars
<1> QED  BY <1>1, <1>2, <1>4, <1>5, <1>7

\* The recipient connects.
LEMMA ShapeConnect == ASSUME Shape, Connect PROVE Shape' /\ conn' = conn + 1
<1> USE DEF Shape
<1>1. /\ conn' = conn + 1 /\ online' = TRUE /\ live' = conn + 1
      /\ stage' = "scoping" /\ draining' = TRUE /\ stuck' = FALSE
      /\ scanned' = {} /\ buffer' = <<>>
      /\ UNCHANGED <<roster, senderVars, relayVars, closing, down, upR, lateAcks, clientVars,
                     events, resynced, steady, lapsed>>
  BY DEF Connect
<1>2. conn \in Nat /\ conn + 1 \in Nat /\ conn <= conn + 1  BY DEF ConnShape
<1>3. ConnShape'
  <2>1. conn' \in Nat /\ live' \in 0 .. conn' /\ closing' \subseteq 1 .. conn'
    BY <1>1, <1>2 DEF ConnShape
  <2>2. online' \in BOOLEAN /\ draining' \in BOOLEAN /\ stuck' \in BOOLEAN /\ stage' \in Stages
    BY <1>1 DEF Stages
  <2> QED  BY <2>1, <2>2 DEF ConnShape
<1>4. HandShape'
  <2> DEFINE c == conn
  <2> HIDE DEF c
  <2>1. \A n, m \in Nat : Hand(n, m, c) \subseteq Hand(n, m, c + 1)
    <3> SUFFICES ASSUME NEW n \in Nat, NEW m \in Nat
                 PROVE  Hand(n, m, c) \subseteq Hand(n, m, c + 1)
      OBVIOUS
    <3>1. n <= n /\ m <= m /\ c \in Nat /\ c + 1 \in Nat /\ c <= c + 1  BY <1>2 DEF c
    <3> QED  BY <3>1, HandGrows
  <2>2. hand \in [Links -> Hand(Len(sent), Len(seqOf), conn + 1)]
    BY <2>1, Domains DEF HandShape, c
  <2> QED  BY <1>1, <2>2 DEF HandShape, senderVars, relayVars
<1>5. FlowShape'
  <2>1. <<>> \in Seq(1 .. Len(seqOf))  OBVIOUS
  <2> QED  BY <1>1, <2>1 DEF FlowShape, relayVars, clientVars
<1> QED
  BY <1>1, <1>3, <1>4, <1>5, ShapeKept DEF senderVars, relayVars, clientVars

\* The drain finds out whether the recipient is active.
LEMMA ShapeScope == ASSUME Shape, DrainScope PROVE Shape'
<1>1. /\ stage' = (IF Recipient \in roster THEN "querying" ELSE "sending")
      /\ steady' = (Recipient \in roster /\ ~stuck) /\ lapsed' = (lapsed \/ Recipient \notin roster)
      /\ UNCHANGED <<roster, senderVars, relayVars, conn, online, live, closing, draining,
                     stuck, scanned, buffer, down, upR, lateAcks, clientVars, events, resynced>>
  BY DEF DrainScope
<1>2. ConnShape'
  <2>1. stage' \in Stages  BY <1>1 DEF Stages
  <2> QED  BY <1>1, <2>1 DEF Shape, ConnShape
<1>3. CountShape'
  <2>1. /\ (lapsed \/ Recipient \notin roster) \in BOOLEAN 
        /\ (Recipient \in roster /\ ~stuck) \in BOOLEAN
    OBVIOUS
  <2> QED  BY <1>1, <2>1 DEF Shape, CountShape
<1> QED
  BY <1>1, <1>2, <1>3, ShapeKept DEF Shape, senderVars, relayVars, clientVars

\* The query returns the rows there are.
LEMMA ShapeQuery == ASSUME Shape, DrainQuery PROVE Shape'
<1>1. /\ stage' = "sending" /\ scanned' = rows
      /\ UNCHANGED <<roster, senderVars, relayVars, conn, online, live, closing, draining, stuck,
                     buffer, down, upR, lateAcks, clientVars, events, resynced, steady, lapsed>>
  BY DEF DrainQuery
<1>2. ConnShape'
  <2>1. stage' \in Stages  BY <1>1 DEF Stages
  <2> QED  BY <1>1, <2>1 DEF Shape, ConnShape
<1>3. FlowShape'  BY <1>1 DEF Shape, FlowShape, StoreShape, relayVars, clientVars
<1> QED
  BY <1>1, <1>2, <1>3, ShapeKept DEF Shape, senderVars, relayVars, clientVars

\* The rows found, as the drain sends them.
LEMMA Sorted ==
    ASSUME NEW n \in Nat, NEW S \in SUBSET (1 .. n)
    PROVE  /\ BySeq(S) \in Seq(S) /\ BySeq(S) \in Seq(1 .. n)
           /\ \A i, j \in DOMAIN BySeq(S) : i < j => BySeq(S)[i] < BySeq(S)[j]
           /\ \A i, j \in DOMAIN BySeq(S) : BySeq(S)[i] < BySeq(S)[j] => i < j
           /\ \A p \in S : \E i \in DOMAIN BySeq(S) : BySeq(S)[i] = p
<1> DEFINE Asc(q) == \A i, j \in DOMAIN q : i < j => q[i] < q[j]
<1>1. \E q \in [1 .. Cardinality(S) -> S] : Asc(q)  BY AscendingExists
<1>2. BySeq(S) = CHOOSE q \in [1 .. Cardinality(S) -> S] : Asc(q)  BY DEF BySeq
<1>3. BySeq(S) \in [1 .. Cardinality(S) -> S] /\ Asc(BySeq(S))
  <2> HIDE DEF Asc
  <2> QED  BY <1>1, <1>2
<1> DEFINE q == BySeq(S)
<1>4. q \in [1 .. Cardinality(S) -> S] /\ \A i, j \in DOMAIN q : i < j => q[i] < q[j]  BY <1>3
<1> HIDE DEF q
<1>5. /\ q \in Seq(S) /\ \A p \in S : \E i \in DOMAIN q : q[i] = p
      /\ \A i, j \in DOMAIN q : q[i] < q[j] => i < j
  BY <1>4, AscendingIsAll
<1>6. q \in Seq(1 .. n)  BY <1>5, SeqMonotonic
<1> QED  BY <1>4, <1>5, <1>6 DEF q

\* What is under way once the drain's rows and the buffer are sent: first what
\* was, then the rows, then the buffer, unless that is stuck.
LEMMA ShapeDrain ==
    ASSUME Shape, DrainSend
    PROVE  /\ Shape' /\ BySeq(scanned) \in Seq(1 .. Len(seqOf))
           /\ Len(down) \in Nat /\ Len(BySeq(scanned)) \in Nat /\ Len(buffer) \in Nat
           /\ DOMAIN down = 1 .. Len(down) /\ DOMAIN buffer = 1 .. Len(buffer)
           /\ DOMAIN BySeq(scanned) = 1 .. Len(BySeq(scanned))
           /\ \A i \in DOMAIN down : i \in DOMAIN down' /\ down'[i] = down[i]
           /\ ~stuck =>
                 /\ DOMAIN down' = 1 .. (Len(down) + Len(BySeq(scanned)) + Len(buffer))
                 /\ \A i \in DOMAIN BySeq(scanned) : down'[Len(down) + i] = BySeq(scanned)[i]
                 /\ \A i \in DOMAIN buffer :
                       down'[Len(down) + Len(BySeq(scanned)) + i] = buffer[i]
<1> DEFINE S == 1 .. Len(seqOf)
           b == BySeq(scanned)
<1>1. /\ stage' = "idle" /\ scanned' = {}
      /\ \/ ~stuck /\ down' = down \o b \o buffer /\ draining' = FALSE /\ buffer' = <<>>
         \/ stuck /\ down' = down \o b /\ UNCHANGED <<draining, buffer>>
      /\ UNCHANGED <<roster, senderVars, relayVars, conn, online, live, closing, stuck, upR,
                     lateAcks, clientVars, events, resynced, steady, lapsed>>
  BY DEF DrainSend
<1>2. down \in Seq(S) /\ buffer \in Seq(S) /\ scanned \subseteq S  BY DEF Shape, FlowShape
<1>3. b \in Seq(S)  BY <1>2, Domains, Sorted
<1> HIDE DEF b, S
<1>4. /\ Len(down) \in Nat /\ DOMAIN down = 1 .. Len(down)
      /\ Len(buffer) \in Nat /\ DOMAIN buffer = 1 .. Len(buffer)
      /\ Len(b) \in Nat /\ DOMAIN b = 1 .. Len(b)
  BY <1>2, <1>3, LenProperties
<1>5. /\ down \o b \in Seq(S) /\ Len(down \o b) = Len(down) + Len(b)
      /\ \A i \in 1 .. Len(down) : (down \o b)[i] = down[i]
      /\ \A i \in 1 .. Len(b) : (down \o b)[Len(down) + i] = b[i]
  BY <1>2, <1>3, Joined
<1> DEFINE c == down \o b
<1>6. c \in Seq(S) /\ Len(c) = Len(down) + Len(b)  BY <1>5
<1>7. \A i \in 1 .. Len(down) : c[i] = down[i]  BY <1>5
<1>8. \A i \in 1 .. Len(b) : c[Len(down) + i] = b[i]  BY <1>5
<1>9. (~stuck => down' = c \o buffer) /\ (stuck => down' = c)  BY <1>1
<1> HIDE DEF c
<1>10. \A i \in 1 .. Len(down) : i \in 1 .. Len(c)  BY <1>4, <1>6
<1>11. ASSUME stuck
       PROVE  down' \in Seq(S) /\ \A i \in DOMAIN down : i \in DOMAIN down' /\ down'[i] = down[i]
  <2>1. down' = c /\ DOMAIN c = 1 .. Len(c)  BY <1>6, <1>9, <1>11, LenProperties
  <2> QED  BY <1>4, <1>6, <1>7, <1>10, <2>1
<1>12. ASSUME ~stuck
       PROVE  /\ down' \in Seq(S)
              /\ \A i \in DOMAIN down : i \in DOMAIN down' /\ down'[i] = down[i]
              /\ DOMAIN down' = 1 .. (Len(down) + Len(b) + Len(buffer))
              /\ \A i \in DOMAIN b : down'[Len(down) + i] = b[i]
              /\ \A i \in DOMAIN buffer : down'[Len(down) + Len(b) + i] = buffer[i]
  <2>1. /\ c \o buffer \in Seq(S) /\ Len(c \o buffer) = Len(c) + Len(buffer)
        /\ \A i \in 1 .. Len(c) : (c \o buffer)[i] = c[i]
        /\ \A i \in 1 .. Len(buffer) : (c \o buffer)[Len(c) + i] = buffer[i]
    <3>1. buffer \in Seq(S) /\ c \in Seq(S)  BY <1>2, <1>6
    <3> QED  BY <3>1, Joined
  <2>2. /\ down' \in Seq(S) /\ Len(down') = Len(c) + Len(buffer)
        /\ \A i \in 1 .. Len(c) : down'[i] = c[i]
        /\ \A i \in 1 .. Len(buffer) : down'[Len(c) + i] = buffer[i]
    BY <1>9, <1>12, <2>1, Zenon
  <2>3. DOMAIN down' = 1 .. (Len(down) + Len(b) + Len(buffer))
    BY <1>6, <2>2, LenProperties
  <2>4. \A i \in DOMAIN down : down'[i] = down[i]  BY <1>4, <1>7, <1>10, <2>2
  <2>5. \A i \in DOMAIN down : i \in DOMAIN down'  BY <1>4, <2>3
  <2>6. \A i \in DOMAIN b : down'[Len(down) + i] = b[i]
    <3>1. \A i \in 1 .. Len(b) : Len(down) + i \in 1 .. Len(c)  BY <1>4, <1>6
    <3> QED  BY <1>4, <1>8, <2>2, <3>1
  <2>7. \A i \in DOMAIN buffer : down'[Len(down) + Len(b) + i] = buffer[i]
    BY <1>4, <1>6, <2>2
  <2> QED  BY <2>2, <2>3, <2>4, <2>5, <2>6, <2>7
<1>13. FlowShape'
  <2>1. <<>> \in Seq(S)  OBVIOUS
  <2>2. UNCHANGED seqOf  BY <1>1 DEF relayVars
  <2>3. down' \in Seq(S) /\ buffer' \in Seq(S)  BY <1>1, <1>2, <1>11, <1>12, <2>1
  <2> QED  BY <1>1, <2>2, <2>3 DEF S, Shape, FlowShape, clientVars
<1>14. ConnShape'
  <2>1. draining' \in BOOLEAN /\ stage' \in Stages  BY <1>1 DEF Stages, Shape, ConnShape
  <2> QED  BY <1>1, <2>1 DEF Shape, ConnShape
<1>15. Shape'
  BY <1>1, <1>13, <1>14, ShapeKept DEF Shape, senderVars, relayVars, clientVars
<1> QED  BY <1>3, <1>4, <1>11, <1>12, <1>15 DEF b, S

\* The first of the recipient's frames is taken off its queue.
LEMMA AnswerTaken ==
    ASSUME Shape, upR # <<>>
    PROVE  /\ Tail(upR) \in Seq({Resync} \cup 1 .. Len(seqOf))
           /\ Head(upR) \in {Resync} \cup 1 .. Len(seqOf)
           /\ Head(upR) = upR[1] /\ 1 \in DOMAIN upR
           /\ \A i \in DOMAIN Tail(upR) : i + 1 \in DOMAIN upR /\ Tail(upR)[i] = upR[i + 1]
<1>1. upR \in Seq({Resync} \cup 1 .. Len(seqOf))  BY DEF Shape, FlowShape
<1> QED  BY <1>1, Shortened

\* Acks delete rows.
LEMMA ShapeAck == ASSUME Shape, HandleAck PROVE Shape'
<1>1. /\ upR # <<>> /\ rows' = rows \ {Head(upR)} /\ upR' = Tail(upR)
      /\ UNCHANGED <<roster, senderVars, hand, seqOf, connVars, down, lateAcks, clientVars,
                     events, resynced, steady, lapsed>>
  BY DEF HandleAck, AckEnvelope
<1>2. FlowShape'  BY <1>1, AnswerTaken DEF Shape, FlowShape, connVars, clientVars
<1>3. StoreShape'  BY <1>1 DEF Shape, StoreShape, senderVars
<1> QED
  BY <1>1, <1>2, <1>3, ShapeKept DEF Shape, senderVars, connVars, clientVars

\* So do those that came before their connection closed.
LEMMA ShapeLateAck == ASSUME Shape, NEW seq, HandleLateAck(seq) PROVE Shape'
<1>1. /\ rows' = rows \ {seq} /\ lateAcks' = lateAcks \ {seq}
      /\ UNCHANGED <<roster, senderVars, hand, seqOf, connVars, down, upR, clientVars, events,
                     resynced, steady, lapsed>>
  BY DEF HandleLateAck, AckEnvelope
<1>2. FlowShape'  BY <1>1 DEF Shape, FlowShape, connVars, clientVars
<1>3. StoreShape'  BY <1>1 DEF Shape, StoreShape, senderVars
<1> QED
  BY <1>1, <1>2, <1>3, ShapeKept DEF Shape, senderVars, connVars, clientVars

\* A subscribe frame begins a drain.
LEMMA ShapeHandleSubscribe == ASSUME Shape, HandleSubscribe PROVE Shape'
<1>1. /\ upR # <<>> /\ stage' = "scoping" /\ upR' = Tail(upR)
      /\ UNCHANGED <<roster, senderVars, relayVars, conn, online, live, closing, draining,
                     stuck, scanned, buffer, down, lateAcks, clientVars, events, resynced, steady, lapsed>>
  BY DEF HandleSubscribe
<1>2. FlowShape'  BY <1>1, AnswerTaken DEF Shape, FlowShape, relayVars, clientVars
<1>3. ConnShape'
  <2>1. stage' \in Stages  BY <1>1 DEF Stages
  <2> QED  BY <1>1, <2>1 DEF Shape, ConnShape
<1> QED
  BY <1>1, <1>2, <1>3, ShapeKept DEF Shape, senderVars, relayVars, clientVars

\* The recipient's connection closes; the acks received are among those sent.
LEMMA ShapeClose ==
    ASSUME Shape, CloseRecipient, Registered
    PROVE  /\ SenderShape' /\ HandShape' /\ StoreShape' /\ ConnShape' /\ FlowShape' /\ ClientShape'
           /\ \A seq \in lateAcks' : seq \in lateAcks \/
                 \E i \in DOMAIN upR : upR[i] # Resync /\ upR[i] = seq
<1>1. /\ online /\ online' = FALSE /\ closing' = closing \cup {conn}
      /\ stage' = "idle" /\ draining' = FALSE /\ stuck' = FALSE
      /\ scanned' = {} /\ buffer' = <<>>
      /\ down' = <<>> /\ upR' = <<>> /\ steady' = FALSE
      /\ UNCHANGED <<roster, senderVars, relayVars, conn, live, clientVars, resynced, lapsed>>
  BY DEF CloseRecipient
<1>2. PICK n \in 0 .. Len(upR) :
          lateAcks' = lateAcks \cup (ToSet(SubSeq(upR, 1, n)) \ {Resync})
  BY DEF CloseRecipient
<1>3. upR \in Seq({Resync} \cup 1 .. Len(seqOf)) /\ Len(upR) \in Nat /\ DOMAIN upR = 1 .. Len(upR)
  BY LenProperties DEF Shape, FlowShape
<1>4. \A seq \in ToSet(SubSeq(upR, 1, n)) : \E i \in DOMAIN upR : upR[i] = seq
  <2>1. /\ SubSeq(upR, 1, n) \in Seq({Resync} \cup 1 .. Len(seqOf))
        /\ Len(SubSeq(upR, 1, n)) = n /\ n \in Nat
        /\ \A i \in 1 .. n : SubSeq(upR, 1, n)[i] = upR[i]
    <3>1. n \in Int /\ 1 \in Int /\ \A i \in 1 .. n : upR[i] \in {Resync} \cup 1 .. Len(seqOf)
      BY <1>3, ElementOfSeq
    <3>2. IF 1 <= n THEN n - 1 + 1 = n ELSE n = 0  BY <1>3
    <3>3. \A i \in 1 .. n : 1 + i - 1 = i  OBVIOUS
    <3> QED  BY <1>3, <3>1, <3>2, <3>3, SubSeqProperties
  <2>2. DOMAIN SubSeq(upR, 1, n) = 1 .. n  BY <2>1, LenProperties
  <2>3. 1 .. n \subseteq 1 .. Len(upR)  BY <1>3
  <2> QED  BY <1>3, <2>1, <2>2, <2>3 DEF ToSet
<1>5. \A seq \in lateAcks' : seq \in lateAcks \/
         \E i \in DOMAIN upR : upR[i] # Resync /\ upR[i] = seq
  BY <1>2, <1>4
<1>6. lateAcks' \subseteq 1 .. Len(seqOf)
  <2>1. \A i \in DOMAIN upR : upR[i] \in {Resync} \cup 1 .. Len(seqOf)
    BY <1>3, ElementOfSeq
  <2> QED  BY <1>5, <2>1 DEF Shape, FlowShape
<1>7. FlowShape'
  <2>1. \A S : <<>> \in Seq(S)  OBVIOUS
  <2> QED  BY <1>1, <1>6, <2>1 DEF Shape, FlowShape, relayVars, clientVars
<1>8. ConnShape'
  <2>1. closing' \subseteq 1 .. conn  BY <1>1 DEF Registered, Shape, ConnShape
  <2>2. online' \in BOOLEAN /\ draining' \in BOOLEAN /\ stuck' \in BOOLEAN /\ stage' \in Stages
    BY <1>1 DEF Stages
  <2> QED  BY <1>1, <2>1, <2>2 DEF Shape, ConnShape
<1> QED
  BY <1>1, <1>5, <1>7, <1>8, ShapeKept DEF Shape, senderVars, relayVars, clientVars

\* The relay notices a close.
LEMMA ShapeNotice == ASSUME Shape, NEW c \in closing, NoticeClose(c) PROVE Shape'
<1>1. /\ closing' = closing \ {c} /\ live' = (IF live = c THEN 0 ELSE live)
      /\ UNCHANGED <<roster, senderVars, relayVars, conn, online, stage, draining, stuck,
                     scanned, buffer, down, upR, lateAcks, clientVars, events, resynced, steady, lapsed>>
  BY DEF NoticeClose, Unregister
<1>2. live' \in 0 .. conn /\ closing' \subseteq 1 .. conn
  <2>1. live \in 0 .. conn /\ 0 \in 0 .. conn /\ closing \subseteq 1 .. conn
    BY DEF Shape, ConnShape
  <2> QED  BY <1>1, <2>1
<1>3. ConnShape'  BY <1>1, <1>2 DEF Shape, ConnShape
<1> QED
  BY <1>1, <1>3, ShapeKept DEF Shape, senderVars, relayVars, clientVars

\* The first element of a queue to the client.
LEMMA QueueTaken ==
    ASSUME NEW n, NEW q \in Seq(1 .. n), q # <<>>
    PROVE  /\ Tail(q) \in Seq(1 .. n) /\ Head(q) \in 1 .. n /\ Head(q) = q[1] /\ 1 \in DOMAIN q
           /\ Len(q) \in Nat /\ DOMAIN q = 1 .. Len(q) /\ DOMAIN Tail(q) = 1 .. (Len(q) - 1)
           /\ \A i \in DOMAIN Tail(q) : i + 1 \in DOMAIN q /\ Tail(q)[i] = q[i + 1]
           /\ \A i \in DOMAIN q : i # 1 => i - 1 \in DOMAIN Tail(q) /\ Tail(q)[i - 1] = q[i]
<1> DEFINE S == 1 .. n
<1> HIDE DEF S
<1>1. q \in Seq(S)  BY DEF S
<1>2. /\ Tail(q) \in Seq(S) /\ Head(q) \in S /\ Head(q) = q[1] /\ 1 \in DOMAIN q
      /\ Len(q) \in Nat /\ DOMAIN q = 1 .. Len(q) /\ DOMAIN Tail(q) = 1 .. (Len(q) - 1)
      /\ \A i \in DOMAIN Tail(q) : i + 1 \in DOMAIN q /\ Tail(q)[i] = q[i + 1]
      /\ \A i \in DOMAIN q : i # 1 => i - 1 \in DOMAIN Tail(q) /\ Tail(q)[i - 1] = q[i]
  BY <1>1, Shortened
<1> QED  BY <1>2 DEF S

\* An envelope arrives.
LEMMA ShapeReceive ==
    ASSUME Shape, Receive
    PROVE  /\ Shape' /\ down # <<>> /\ down \in Seq(1 .. Len(seqOf)) /\ down' = Tail(down)
           /\ inbox \in Seq(1 .. Len(seqOf)) /\ down[1] \in 1 .. Len(seqOf)
           /\ inbox' = Append(inbox, down[1])
<1>1. /\ down # <<>> /\ inbox' = Append(inbox, Head(down)) /\ down' = Tail(down)
      /\ UNCHANGED <<roster, senderVars, relayVars, connVars, upR, lateAcks, busy, decrypted,
                     seen, shown, handled, failed, events, resynced, steady, lapsed>>
  BY DEF Receive
<1>2. down \in Seq(1 .. Len(seqOf)) /\ inbox \in Seq(1 .. Len(seqOf))  BY DEF Shape, FlowShape
<1>3. Tail(down) \in Seq(1 .. Len(seqOf)) /\ Head(down) \in 1 .. Len(seqOf) /\ Head(down) = down[1]
  BY <1>1, <1>2, QueueTaken
<1>4. inbox' \in Seq(1 .. Len(seqOf))  BY <1>1, <1>2, <1>3, AppendProperties
<1>5. FlowShape'  BY <1>1, <1>3, <1>4 DEF Shape, FlowShape, relayVars, connVars
<1>6. Shape'  BY <1>1, <1>5, ShapeKept DEF Shape, senderVars, relayVars, connVars
<1> QED  BY <1>1, <1>2, <1>3, <1>6

\* An envelope is decrypted, unless it was before.
LEMMA ShapeDecrypt ==
    ASSUME Shape, Decrypt
    PROVE  /\ Shape' /\ inbox # <<>> /\ inbox \in Seq(1 .. Len(seqOf)) /\ inbox' = Tail(inbox)
           /\ inbox[1] \in 1 .. Len(seqOf) /\ decrypted \in Seq(1 .. Len(sent)) /\ busy = Null
           /\ \/ Taken(seqOf[inbox[1]]) /\ UNCHANGED <<busy, decrypted>>
              \/ /\ ~Taken(seqOf[inbox[1]]) /\ busy' = inbox[1]
                 /\ decrypted' = Append(decrypted, seqOf[inbox[1]])
<1>1. /\ inbox # <<>> /\ inbox' = Tail(inbox) /\ busy = Null
      /\ UNCHANGED <<roster, senderVars, relayVars, connVars, down, upR, lateAcks, seen, shown,
                     handled, failed, events, resynced, steady, lapsed>>
  BY DEF Decrypt
<1>2. inbox \in Seq(1 .. Len(seqOf)) /\ decrypted \in Seq(1 .. Len(sent))
  BY DEF Shape, FlowShape, ClientShape
<1>3. /\ Tail(inbox) \in Seq(1 .. Len(seqOf)) /\ Head(inbox) \in 1 .. Len(seqOf)
      /\ Head(inbox) = inbox[1]
  BY <1>1, <1>2, QueueTaken
<1>4. \/ Taken(seqOf[inbox[1]]) /\ UNCHANGED <<busy, decrypted>>
      \/ /\ ~Taken(seqOf[inbox[1]]) /\ busy' = inbox[1]
         /\ decrypted' = Append(decrypted, seqOf[inbox[1]])
  <2>1. seqOf[inbox[1]] \in ToSet(decrypted) <=> Taken(seqOf[inbox[1]])
    BY DEF ToSet, Taken
  <2>2. IF seqOf[inbox[1]] \in ToSet(decrypted)
        THEN UNCHANGED <<busy, decrypted>>
        ELSE busy' = inbox[1] /\ decrypted' = Append(decrypted, seqOf[inbox[1]])
    BY <1>3 DEF Decrypt
  <2> QED  BY <2>1, <2>2
<1>5. seqOf[inbox[1]] \in 1 .. Len(sent)  BY <1>3, Domains
<1>6. decrypted' \in Seq(1 .. Len(sent))
  <2>1. Append(decrypted, seqOf[inbox[1]]) \in Seq(1 .. Len(sent))
    BY <1>2, <1>5, AppendProperties
  <2> QED  BY <1>2, <1>4, <2>1
<1>7. FlowShape'
  <2>1. busy' \in {Null} \cup 1 .. Len(seqOf)  BY <1>1, <1>3, <1>4
  <2> QED  BY <1>1, <1>3, <2>1 DEF Shape, FlowShape, relayVars, connVars
<1>8. ClientShape'  BY <1>1, <1>6 DEF Shape, ClientShape, senderVars
<1>9. Shape'
  BY <1>1, <1>7, <1>8, ShapeKept DEF Shape, senderVars, relayVars, connVars
<1> QED  BY <1>1, <1>2, <1>3, <1>4, <1>9

\* A frame more from the recipient.
LEMMA AnswerAdded ==
    ASSUME Shape, NEW f \in {Resync} \cup 1 .. Len(seqOf)
    PROVE  /\ Append(upR, f) \in Seq({Resync} \cup 1 .. Len(seqOf))
           /\ \A i \in DOMAIN Append(upR, f) :
                 Append(upR, f)[i] = f \/ (i \in DOMAIN upR /\ Append(upR, f)[i] = upR[i])
<1> DEFINE S == {Resync} \cup 1 .. Len(seqOf)
<1>1. upR \in Seq(S)  BY DEF Shape, FlowShape
<1>2. f \in S  OBVIOUS
<1> HIDE DEF S
<1>3. /\ Append(upR, f) \in Seq(S) /\ DOMAIN Append(upR, f) = 1 .. (Len(upR) + 1)
      /\ Len(upR) \in Nat /\ DOMAIN upR = 1 .. Len(upR)
      /\ \A i \in DOMAIN upR : Append(upR, f)[i] = upR[i]
      /\ Append(upR, f)[Len(upR) + 1] = f
  BY <1>1, <1>2, Appended
<1>4. \A i \in 1 .. (Len(upR) + 1) : i = Len(upR) + 1 \/ i \in 1 .. Len(upR)  BY <1>3
<1> QED  BY <1>3, <1>4 DEF S

\* The client asks for a drain.
LEMMA ShapeSubscribe == ASSUME Shape, Subscribe PROVE Shape'
<1>1. /\ resynced' = TRUE /\ events < MaxEvents /\ events' = events + 1
      /\ upR' = Append(upR, Resync)
      /\ UNCHANGED <<roster, senderVars, relayVars, connVars, down, lateAcks, clientVars, steady,
                     lapsed>>
  BY DEF Subscribe, Happens
<1>2. FlowShape'  BY <1>1, AnswerAdded DEF Shape, FlowShape, relayVars, connVars, clientVars
<1>3. CountShape'
  <2>1. events' \in 0 .. MaxEvents  BY <1>1, BoundsAreNatural DEF Shape, CountShape
  <2>2. resynced' \in BOOLEAN  BY <1>1
  <2> QED  BY <1>1, <2>1, <2>2 DEF Shape, CountShape
<1> QED
  BY <1>1, <1>2, <1>3, ShapeKept DEF Shape, senderVars, relayVars, connVars, clientVars

\* An envelope is decided.
LEMMA ShapeDecide ==
    ASSUME Shape, NEW accepted \in BOOLEAN, Decide(accepted)
    PROVE  /\ Shape' /\ busy # Null /\ busy \in 1 .. Len(seqOf) /\ seqOf[busy] \in 1 .. Len(sent)
           /\ sent[seqOf[busy]].msg \in 1 .. MaxSends
           /\ busy' = Null /\ handled' = handled \cup {seqOf[busy]}
           /\ upR' = IF online THEN Append(upR, busy) ELSE upR
           /\ \/ UNCHANGED <<shown, seen>>
              \/ /\ shown' = IF sent[seqOf[busy]].msg \in seen
                             THEN shown ELSE Append(shown, sent[seqOf[busy]].msg)
                 /\ seen' = seen \cup {sent[seqOf[busy]].msg}
<1> DEFINE msg == sent[seqOf[busy]].msg
<1>1. /\ busy # Null /\ busy' = Null /\ handled' = handled \cup {seqOf[busy]}
      /\ upR' = IF online THEN Append(upR, busy) ELSE upR
      /\ UNCHANGED <<roster, senderVars, relayVars, connVars, down, lateAcks, inbox, decrypted,
                     failed, events, resynced, steady, lapsed>>
  BY DEF Decide, SafeAck
<1>2. \/ UNCHANGED <<shown, seen>>
      \/ /\ shown' = IF msg \in seen THEN shown ELSE Append(shown, msg)
         /\ seen' = seen \cup {msg}
  BY DEF Decide, Show
<1>3. busy \in 1 .. Len(seqOf)  BY <1>1 DEF Shape, FlowShape
<1>4. seqOf[busy] \in 1 .. Len(sent) /\ sent[seqOf[busy]] \in Sent  BY <1>3, Domains
<1>5. msg \in 1 .. MaxSends  BY <1>4 DEF Sent
<1> HIDE DEF msg
<1>6. FlowShape'
  <2>1. Append(upR, busy) \in Seq({Resync} \cup 1 .. Len(seqOf))  BY <1>3, AnswerAdded
  <2> QED  BY <1>1, <2>1 DEF Shape, FlowShape, relayVars, connVars
<1>7. ClientShape'
  <2>1. Append(shown, msg) \in Seq(1 .. MaxSends)
    BY <1>5, AppendProperties DEF Shape, ClientShape
  <2>2. shown' \in Seq(1 .. MaxSends) /\ seen' \subseteq 1 .. MaxSends
    BY <1>2, <1>5, <2>1 DEF Shape, ClientShape
  <2> QED  BY <1>1, <1>4, <2>2 DEF Shape, ClientShape, senderVars
<1>8. Shape'
  BY <1>1, <1>6, <1>7, ShapeKept DEF Shape, senderVars, relayVars, connVars
<1> QED  BY <1>1, <1>2, <1>3, <1>4, <1>5, <1>8 DEF msg

\* Someone joins or leaves.
LEMMA ShapeRoster ==
    ASSUME Shape, NEW u \in Senders \cup {Recipient}, ChangeRoster(u)
    PROVE  Shape'
<1>1. /\ events < MaxEvents /\ events' = events + 1
      /\ roster' = (IF u \in roster THEN roster \ {u} ELSE roster \cup {u})
      /\ steady' = (steady /\ u # Recipient)
      /\ UNCHANGED <<senderVars, relayVars, connVars, down, upR, lateAcks, clientVars, resynced,
                     lapsed>>
  BY DEF ChangeRoster, Happens
<1>2. SenderShape'  BY <1>1 DEF Shape, SenderShape, senderVars
<1>3. CountShape'
  <2>1. events' \in 0 .. MaxEvents  BY <1>1, BoundsAreNatural DEF Shape, CountShape
  <2>2. (steady /\ u # Recipient) \in BOOLEAN  OBVIOUS
  <2> QED  BY <1>1, <2>1, <2>2 DEF Shape, CountShape
<1> QED
  BY <1>1, <1>2, <1>3, ShapeKept DEF Shape, senderVars, relayVars, connVars, clientVars

\* The relay's send handler fails before the row is stored, or after that.
LEMMA ShapeSendFails ==
    ASSUME Shape, NEW l \in Links, SendFails(l)
    PROVE  /\ Shape' /\ \A k \in Links : k # l => up'[k] = up[k] /\ hand'[k] = hand[k]
           /\ \/ up[l] # <<>> /\ up'[l] = Tail(up[l]) /\ hand'[l] = hand[l]
              \/ up'[l] = up[l] /\ hand[l].at = "storing" /\ hand'[l] = Idle
<1>1. /\ events < MaxEvents /\ events' = events + 1
      /\ \/ up[l] # <<>> /\ up' = [up EXCEPT ![l] = Tail(up[l])] /\ UNCHANGED hand
         \/ hand[l].at = "storing" /\ hand' = [hand EXCEPT ![l] = Idle] /\ UNCHANGED up
      /\ UNCHANGED <<roster, sent, link, seqOf, rows, connVars, down, upR, lateAcks, clientVars,
                     resynced, steady, lapsed>>
  BY DEF SendFails, Happens, Shape, SenderShape
<1>2. CountShape'
  <2>1. events' \in 0 .. MaxEvents  BY <1>1, BoundsAreNatural DEF Shape, CountShape
  <2> QED  BY <1>1, <2>1 DEF Shape, CountShape
<1>3. CASE up[l] # <<>> /\ up' = [up EXCEPT ![l] = Tail(up[l])] /\ UNCHANGED hand
  <2>1. Tail(up[l]) \in Seq(1 .. Len(sent))  BY <1>3, FrameTaken
  <2>2. /\ up' \in [Links -> Seq(1 .. Len(sent))] /\ up'[l] = Tail(up[l])
        /\ \A k \in Links : k # l => up'[k] = up[k]
    BY <1>3, <2>1, UpSet
  <2>3. SenderShape'  BY <1>1, <2>2 DEF Shape, SenderShape
  <2>4. Shape'  BY <1>1, <1>2, <1>3, <2>3, ShapeKept DEF Shape, connVars, clientVars
  <2> QED  BY <1>3, <2>2, <2>4
<1>4. CASE hand[l].at = "storing" /\ hand' = [hand EXCEPT ![l] = Idle] /\ UNCHANGED up
  <2>1. Idle \in Hand(Len(sent), Len(seqOf), conn)  BY DEF Hand
  <2>2. HandShape' /\ hand'[l] = Idle /\ \A k \in Links : k # l => hand'[k] = hand[k]
    BY <1>1, <1>4, <2>1, HandSet DEF connVars
  <2>3. Shape'  BY <1>1, <1>2, <1>4, <2>2, ShapeKept DEF Shape, connVars, clientVars
  <2> QED  BY <1>4, <2>2, <2>3
<1> QED  BY <1>1, <1>3, <1>4

\* It fails with the row stored.
LEMMA ShapePushFails ==
    ASSUME Shape, NEW l \in Links, PushFails(l)
    PROVE  /\ Shape' /\ hand'[l] = Idle /\ \A k \in Links : k # l => hand'[k] = hand[k]
           /\ UNCHANGED up
<1>1. /\ events < MaxEvents /\ events' = events + 1
      /\ hand' = [hand EXCEPT ![l] = Idle] /\ steady' = FALSE /\ lapsed' = TRUE
      /\ UNCHANGED <<roster, senderVars, seqOf, rows, connVars, down, upR, lateAcks, clientVars,
                     resynced>>
  BY DEF PushFails, Happens
<1>2. CountShape'
  <2>1. events' \in 0 .. MaxEvents  BY <1>1, BoundsAreNatural DEF Shape, CountShape
  <2> QED  BY <1>1, <2>1 DEF Shape, CountShape
<1>3. Idle \in Hand(Len(sent), Len(seqOf), conn)  BY DEF Hand
<1>4. HandShape' /\ hand'[l] = Idle /\ \A k \in Links : k # l => hand'[k] = hand[k]
  BY <1>1, <1>3, HandSet DEF senderVars, connVars
<1>5. Shape'  BY <1>1, <1>2, <1>4, ShapeKept DEF Shape, senderVars, connVars, clientVars
<1> QED  BY <1>1, <1>4, <1>5 DEF senderVars

\* A drain fails.
LEMMA ShapeDrainFails == ASSUME Shape, DrainFails PROVE Shape'
<1>1. /\ events < MaxEvents /\ events' = events + 1
      /\ stage' = "idle" /\ stuck' = draining
      /\ steady' = FALSE /\ lapsed' = (lapsed \/ draining)
      /\ UNCHANGED <<roster, senderVars, relayVars, conn, online, live, closing, draining,
                     scanned, buffer, down, upR, lateAcks, clientVars, resynced>>
  BY DEF DrainFails, Happens
<1>2. CountShape'
  <2>1. events' \in 0 .. MaxEvents  BY <1>1, BoundsAreNatural DEF Shape, CountShape
  <2>2. (lapsed \/ draining) \in BOOLEAN  OBVIOUS
  <2> QED  BY <1>1, <2>1, <2>2 DEF Shape, CountShape
<1>3. ConnShape'
  <2>1. stage' \in Stages /\ stuck' \in BOOLEAN  BY <1>1 DEF Stages, Shape, ConnShape
  <2> QED  BY <1>1, <2>1 DEF Shape, ConnShape
<1> QED
  BY <1>1, <1>2, <1>3, ShapeKept DEF Shape, senderVars, relayVars, clientVars

\* The handler of an ack or of a subscribe frame fails.
LEMMA ShapeAnswerFails ==
    ASSUME Shape, AnswerFails \/ (\E seq \in lateAcks : LateAckFails(seq)) PROVE Shape'
<1>1. /\ events < MaxEvents /\ events' = events + 1
      /\ UNCHANGED <<roster, senderVars, relayVars, connVars, down, clientVars, resynced,
                     steady, lapsed>>
      /\ UNCHANGED upR \/ (upR # <<>> /\ upR' = Tail(upR))
      /\ lateAcks' \subseteq lateAcks
  BY DEF AnswerFails, LateAckFails, Happens
<1>2. CountShape'
  <2>1. events' \in 0 .. MaxEvents  BY <1>1, BoundsAreNatural DEF Shape, CountShape
  <2> QED  BY <1>1, <2>1 DEF Shape, CountShape
<1>3. FlowShape'
  <2>1. upR' \in Seq({Resync} \cup 1 .. Len(seqOf))  BY <1>1, AnswerTaken DEF Shape, FlowShape
  <2> QED  BY <1>1, <2>1 DEF Shape, FlowShape, relayVars, connVars, clientVars
<1> QED
  BY <1>1, <1>2, <1>3, ShapeKept DEF Shape, senderVars, relayVars, connVars, clientVars

\* A decryption fails.
LEMMA ShapeDecryptFails ==
    ASSUME Shape, DecryptFails
    PROVE  /\ Shape' /\ inbox # <<>> /\ inbox' = Tail(inbox)
           /\ failed' = failed \cup {seqOf[inbox[1]]}
<1>1. /\ events < MaxEvents /\ events' = events + 1
      /\ inbox # <<>> /\ inbox' = Tail(inbox) /\ lapsed' = TRUE
      /\ failed' = failed \cup {seqOf[Head(inbox)]}
      /\ UNCHANGED <<roster, senderVars, relayVars, connVars, down, upR, lateAcks, busy,
                     decrypted, seen, shown, handled, resynced, steady>>
  BY DEF DecryptFails, Happens
<1>2. inbox \in Seq(1 .. Len(seqOf))  BY DEF Shape, FlowShape
<1>3. /\ Tail(inbox) \in Seq(1 .. Len(seqOf)) /\ Head(inbox) \in 1 .. Len(seqOf)
      /\ Head(inbox) = inbox[1]
  BY <1>1, <1>2, QueueTaken
<1>4. CountShape'
  <2>1. events' \in 0 .. MaxEvents  BY <1>1, BoundsAreNatural DEF Shape, CountShape
  <2> QED  BY <1>1, <2>1 DEF Shape, CountShape
<1>5. FlowShape'  BY <1>1, <1>3 DEF Shape, FlowShape, relayVars, connVars
<1>6. ClientShape'
  <2>1. seqOf[inbox[1]] \in 1 .. Len(sent)  BY <1>3, Domains
  <2>2. failed' \subseteq 1 .. Len(sent)  BY <1>1, <1>3, <2>1 DEF Shape, ClientShape
  <2> QED  BY <1>1, <2>2 DEF Shape, ClientShape, senderVars
<1>7. Shape'
  BY <1>1, <1>4, <1>5, <1>6, ShapeKept DEF Shape, senderVars, relayVars, connVars
<1> QED  BY <1>1, <1>3, <1>7

\* A database call of the relay or a decryption fails.
Fault ==
    \/ \E l \in Links : SendFails(l) \/ PushFails(l)
    \/ DrainFails \/ AnswerFails \/ DecryptFails
    \/ \E seq \in lateAcks : LateAckFails(seq)

\* What no failure changes, and which one changes what.
LEMMA FaultEffects ==
    ASSUME Fault
    PROVE  /\ UNCHANGED <<roster, sent, link, seqOf, rows, conn, online, live, closing, draining,
                          scanned, buffer, down, busy, decrypted, seen, shown, handled>>
           /\ events' = events + 1
           /\ (\E l \in Links : SendFails(l)) \/ UNCHANGED up
           /\ (\E l \in Links : SendFails(l) \/ PushFails(l)) \/ UNCHANGED hand
           /\ DrainFails \/ UNCHANGED <<stage, stuck>>
           /\ AnswerFails \/ UNCHANGED upR
           /\ (\E seq \in lateAcks : LateAckFails(seq)) \/ UNCHANGED lateAcks
           /\ DecryptFails \/ UNCHANGED <<inbox, failed>>
           /\ (\E l \in Links : PushFails(l)) \/ DrainFails \/ UNCHANGED steady
           /\ (\E l \in Links : PushFails(l)) \/ DrainFails \/ DecryptFails \/ UNCHANGED lapsed
<1> USE DEF Happens, senderVars, relayVars, connVars, clientVars
<1>1. CASE \E l \in Links : SendFails(l)  BY <1>1 DEF SendFails
<1>2. CASE \E l \in Links : PushFails(l)  BY <1>2 DEF PushFails
<1>3. CASE DrainFails  BY <1>3 DEF DrainFails
<1>4. CASE AnswerFails  BY <1>4 DEF AnswerFails
<1>5. CASE DecryptFails  BY <1>5 DEF DecryptFails
<1>6. CASE \E seq \in lateAcks : LateAckFails(seq)  BY <1>6 DEF LateAckFails
<1> QED  BY <1>1, <1>2, <1>3, <1>4, <1>5, <1>6 DEF Fault

\* What a step may be.
LEMMA Steps ==
    ASSUME Shape, [Next]_vars
    PROVE  \/ UNCHANGED vars
           \/ \E s \in Senders, msg \in 1 .. MaxSends : Transmit(s, msg)
           \/ \E l \in Links : AdmitSend(l)
           \/ \E l \in Links : RefuseSend(l)
           \/ \E l \in Links : StoreEnvelope(l)
           \/ \E l \in Links : LookUpTarget(l)
           \/ \E l \in Links : CheckRecipient(l)
           \/ \E l \in Links : LivePush(l)
           \/ \E l \in Links : CutSender(l)
           \/ Connect \/ DrainScope \/ DrainQuery \/ DrainSend
           \/ HandleAck \/ HandleSubscribe \/ RefuseSubscribe \/ CutRecipient
           \/ \E seq \in lateAcks : HandleLateAck(seq)
           \/ \E c \in closing : NoticeClose(c)
           \/ Receive \/ Decrypt \/ Subscribe
           \/ \E accepted \in BOOLEAN : Decide(accepted)
           \/ \E u \in Senders \cup {Recipient} : ChangeRoster(u)
           \/ Fault
<1>1. CASE \E s \in Senders : Send(s) \/ Resend(s)  BY <1>1, MessageIsValid
<1>2. CASE \E l \in Links : HandlerStep(l) \/ SendFails(l) \/ PushFails(l) \/ CutSender(l)
  BY <1>2, Zenon DEF HandlerStep, Fault
<1>3. CASE \E seq \in lateAcks : HandleLateAck(seq) \/ LateAckFails(seq)
  BY <1>3, Zenon DEF Fault
<1>4. CASE DrainFails \/ AnswerFails \/ DecryptFails  BY <1>4, Zenon DEF Fault
<1> QED  BY <1>1, <1>2, <1>3, <1>4, Zenon DEF Next

\* A lapse is not forgotten, and one that matters is noted.
LEMMA LapsedStays ==
    ASSUME Shape, [Next]_vars
    PROVE  /\ lapsed => lapsed'
           /\ DrainScope \/ (\E l \in Links : CheckRecipient(l) \/ StoreEnvelope(l))
                 => Recipient \in roster \/ lapsed'
           /\ (\E l \in Links : PushFails(l)) \/ DecryptFails \/ (DrainFails /\ draining)
                 => lapsed'
<1>1. \/ UNCHANGED lapsed
      \/ DrainScope \/ \E l \in Links : CheckRecipient(l) \/ StoreEnvelope(l)
      \/ (\E l \in Links : PushFails(l)) \/ DrainFails \/ DecryptFails
  BY Steps, FaultEffects DEF vars, Transmit, AdmitSend, RefuseSend,
     LookUpTarget, LivePush, CutSender, Connect, DrainQuery,
     DrainSend, HandleAck, HandleSubscribe, RefuseSubscribe, CutRecipient, CloseRecipient,
     HandleLateAck, NoticeClose, Receive, Decrypt, Subscribe, Decide, ChangeRoster
<1>2. ASSUME DrainScope \/ \E l \in Links : CheckRecipient(l) \/ StoreEnvelope(l)
      PROVE  lapsed' = (lapsed \/ Recipient \notin roster)
  BY <1>2, Zenon DEF DrainScope, CheckRecipient, StoreEnvelope
<1>3. ASSUME DrainScope \/ \E l \in Links : CheckRecipient(l) \/ StoreEnvelope(l)
      PROVE  (lapsed => lapsed') /\ (Recipient \in roster \/ lapsed')
  <2>1. lapsed' <=> (lapsed \/ Recipient \notin roster)  BY <1>2, <1>3
  <2> QED  BY <2>1
<1>4. ASSUME (\E l \in Links : PushFails(l)) \/ DecryptFails PROVE lapsed'
  BY <1>4 DEF PushFails, DecryptFails
<1>5. ASSUME DrainFails PROVE lapsed' <=> lapsed \/ draining
  <2>1. lapsed' = (lapsed \/ draining)  BY <1>5 DEF DrainFails
  <2> QED  BY <2>1
<1> QED  BY <1>1, <1>3, <1>4, <1>5

\* The types are kept.
LEMMA ShapeStep == ASSUME Shape, Registered, [Next]_vars PROVE Shape'
<1>1. CASE UNCHANGED vars
  BY <1>1, ShapeKept DEF Shape, vars, senderVars, relayVars, connVars, clientVars
<1>2. CASE RefuseSubscribe
  <2>1. CloseRecipient /\ UNCHANGED events  BY <1>2 DEF RefuseSubscribe
  <2>2. CountShape'  BY <2>1 DEF CloseRecipient, Shape, CountShape
  <2> QED  BY <2>1, <2>2, ShapeClose DEF Shape
<1>3. CASE CutRecipient
  <2>1. CloseRecipient /\ events < MaxEvents /\ events' = events + 1
    BY <1>3 DEF CutRecipient, Happens
  <2>2. CountShape'
    <3>1. events' \in 0 .. MaxEvents  BY <2>1, BoundsAreNatural DEF Shape, CountShape
    <3> QED  BY <2>1, <3>1 DEF CloseRecipient, Shape, CountShape
  <2> QED  BY <2>1, <2>2, ShapeClose DEF Shape
<1>4. CASE Fault
  BY <1>4, ShapeSendFails, ShapePushFails, ShapeDrainFails, ShapeAnswerFails, ShapeDecryptFails
     DEF Fault
<1> QED
  BY <1>1, <1>2, <1>3, <1>4, Steps, ShapeTransmit, ShapeAdmit, ShapeRefuse, ShapeStore, ShapeLookUp,
     ShapeCheck, ShapePush, ShapeCutSender, ShapeConnect, ShapeScope, ShapeQuery, ShapeDrain,
     ShapeAck, ShapeHandleSubscribe, ShapeLateAck, ShapeNotice, ShapeReceive, ShapeDecrypt,
     ShapeSubscribe, ShapeDecide, ShapeRoster

\* The registered connection is the open one.
LEMMA RegisteredStep == ASSUME Shape, Registered, [Next]_vars PROVE Registered'
<1>0. lapsed => lapsed'  BY LapsedStays
<1>1. ASSUME UNCHANGED <<roster, connVars, steady, failed>> PROVE Registered'
  BY <1>0, <1>1 DEF Registered, connVars
<1>2. CASE \/ UNCHANGED vars
           \/ \E s \in Senders, msg \in 1 .. MaxSends : Transmit(s, msg)
           \/ \E l \in Links : AdmitSend(l) \/ RefuseSend(l) \/ StoreEnvelope(l)
                               \/ LookUpTarget(l) \/ CheckRecipient(l) \/ CutSender(l)
           \/ HandleAck \/ (\E seq \in lateAcks : HandleLateAck(seq))
           \/ Receive \/ Decrypt \/ Subscribe \/ (\E accepted \in BOOLEAN : Decide(accepted))
  BY <1>1, <1>2 DEF vars, clientVars, Transmit, AdmitSend, RefuseSend, StoreEnvelope, LookUpTarget,
     CheckRecipient, CutSender, HandleAck, HandleLateAck, Receive, Decrypt, Subscribe, Decide
<1>3. CASE \E l \in Links : LivePush(l)
  <2>1. PICK l \in Links : LivePush(l)  BY <1>3
  <2>2. UNCHANGED <<roster, conn, online, live, closing, stage, draining, stuck, scanned, steady,
                  failed, lapsed>>
    BY <2>1 DEF LivePush, clientVars
  <2>3. ~draining => UNCHANGED buffer  BY <2>1, ShapePush
  <2> QED  BY <2>2, <2>3 DEF Registered
<1>4. CASE Connect
  <2>1. conn + 1 # 0 /\ conn + 1 \notin closing  BY DEF Shape, ConnShape
  <2>2. ~steady  BY <1>4 DEF Connect, Registered
  <2> QED  BY <1>0, <1>4, <2>1, <2>2 DEF Connect, Registered, clientVars
<1>5. CASE DrainScope
  <2>1. online  BY <1>5 DEF DrainScope, Registered
  <2>2. scanned = {}  BY <1>5 DEF DrainScope, Registered
  <2> QED  BY <1>0, <1>5, <2>1, <2>2 DEF DrainScope, Registered, clientVars
<1>6. CASE DrainQuery
  <2>1. online  BY <1>6 DEF DrainQuery, Registered
  <2> QED  BY <1>0, <1>6, <2>1 DEF DrainQuery, Registered, clientVars
<1>7. CASE DrainSend  BY <1>0, <1>7 DEF DrainSend, Registered, clientVars
<1>8. CASE HandleSubscribe  BY <1>0, <1>8 DEF HandleSubscribe, Registered, clientVars
<1>9. CASE RefuseSubscribe \/ CutRecipient
  <2>1. CloseRecipient  BY <1>9 DEF RefuseSubscribe, CutRecipient
  <2> QED  BY <1>0, <2>1 DEF CloseRecipient, Registered, clientVars
<1>10. CASE \E c \in closing : NoticeClose(c)
  BY <1>0, <1>10 DEF NoticeClose, Unregister, Registered, clientVars
<1>11. CASE \E u \in Senders \cup {Recipient} : ChangeRoster(u)
  <2>1. PICK u \in Senders \cup {Recipient} : ChangeRoster(u)  BY <1>11
  <2>2. UNCHANGED <<connVars, failed>> /\ steady' = (steady /\ u # Recipient)
        /\ roster' = (IF u \in roster THEN roster \ {u} ELSE roster \cup {u})
    BY <2>1 DEF ChangeRoster, clientVars
  <2>3. steady' => Recipient \in roster'  BY <2>2 DEF Registered
  <2> QED  BY <1>0, <2>2, <2>3 DEF Registered, connVars
<1>12. CASE DrainFails
  <2>1. lapsed' <=> lapsed \/ draining
    <3>1. lapsed' = (lapsed \/ draining)  BY <1>12 DEF DrainFails
    <3> QED  BY <3>1
  <2>2. online /\ scanned = {}  BY <1>12 DEF DrainFails, Registered
  <2>3. stuck' = draining /\ ~steady'  BY <1>12 DEF DrainFails
  <2>4. /\ UNCHANGED <<conn, online, live, closing, draining, scanned, buffer, failed>>
        /\ stage' = "idle"
    BY <1>12 DEF DrainFails, clientVars
  <2> QED  BY <1>0, <2>1, <2>2, <2>3, <2>4 DEF Registered
<1>13. CASE DecryptFails
  <2>1. lapsed' /\ UNCHANGED <<roster, connVars, steady>>  BY <1>13 DEF DecryptFails
  <2> QED  BY <2>1 DEF Registered, connVars
<1>14. CASE \E l \in Links : PushFails(l)
  <2>1. lapsed' /\ ~steady' /\ UNCHANGED <<roster, connVars, failed>>
    BY <1>14 DEF PushFails, clientVars
  <2> QED  BY <2>1 DEF Registered, connVars
<1>15. CASE Fault /\ ~DrainFails /\ ~DecryptFails /\ ~\E l \in Links : PushFails(l)
  BY <1>1, <1>15, FaultEffects DEF connVars
<1> QED
  BY <1>2, <1>3, <1>4, <1>5, <1>6, <1>7, <1>8, <1>9, <1>10, <1>11, <1>12, <1>13, <1>14, <1>15,
     Steps

\* Connections are paid for with events.
LEMMA ConnCountedStep == ASSUME Shape, Registered, ConnCounted, [Next]_vars PROVE ConnCounted'
<1>1. conn \in Nat /\ events \in Nat  BY BoundsAreNatural DEF Shape, ConnShape, CountShape
<1>2. ASSUME UNCHANGED <<conn, online, upR>>, events' = events \/ events' = events + 1
      PROVE  ConnCounted'
  <2>1. conn' <= events' + (IF online' THEN 1 ELSE 0)  BY <1>1, <1>2 DEF ConnCounted
  <2>2. conn <= events => conn' <= events'  BY <1>1, <1>2
  <2> QED  BY <1>2, <2>1, <2>2 DEF ConnCounted
<1>3. CASE \/ UNCHANGED vars
           \/ \E s \in Senders, msg \in 1 .. MaxSends : Transmit(s, msg)
           \/ \E l \in Links : AdmitSend(l) \/ RefuseSend(l) \/ StoreEnvelope(l)
                               \/ LookUpTarget(l) \/ CheckRecipient(l) \/ LivePush(l)
           \/ DrainScope \/ DrainQuery \/ DrainSend \/ (\E c \in closing : NoticeClose(c))
           \/ (\E seq \in lateAcks : HandleLateAck(seq)) \/ Receive \/ Decrypt
  <2>1. UNCHANGED <<conn, online, upR, events>>
    BY <1>3 DEF vars, connVars, Transmit, AdmitSend, RefuseSend, StoreEnvelope, LookUpTarget,
       CheckRecipient, LivePush, DrainScope, DrainQuery, DrainSend, NoticeClose, HandleLateAck,
       Receive, Decrypt
  <2> QED  BY <1>2, <2>1
<1>4. CASE (\E l \in Links : CutSender(l)) \/ (\E u \in Senders \cup {Recipient} : ChangeRoster(u))
  <2>1. UNCHANGED <<conn, online, upR>> /\ events' = events + 1
    BY <1>4 DEF connVars, CutSender, ChangeRoster, Happens
  <2> QED  BY <1>2, <2>1
<1>5. CASE Connect
  <2>1. ~online /\ conn' = conn + 1 /\ online' /\ UNCHANGED <<upR, events>>
    BY <1>5 DEF Connect
  <2>2. upR = <<>> /\ conn <= events  BY <1>1, <2>1 DEF ConnCounted
  <2>3. conn' <= events' + 1  BY <1>1, <2>1, <2>2
  <2>4. DOMAIN upR' = {}  BY <2>1, <2>2
  <2> QED  BY <2>1, <2>3, <2>4 DEF ConnCounted
<1>6. CASE HandleAck \/ HandleSubscribe
  <2>1. upR # <<>> /\ upR' = Tail(upR) /\ online /\ UNCHANGED <<conn, online, events>>
    BY <1>6 DEF HandleAck, HandleSubscribe, connVars
  <2>2. \A i \in DOMAIN Tail(upR) : i + 1 \in DOMAIN upR /\ Tail(upR)[i] = upR[i + 1]
    BY <2>1, AnswerTaken
  <2>3. (\E i \in DOMAIN upR' : upR'[i] = Resync) => \E i \in DOMAIN upR : upR[i] = Resync
    BY <2>1, <2>2
  <2> QED  BY <2>1, <2>3 DEF ConnCounted
<1>7. CASE RefuseSubscribe
  <2>1. upR # <<>> /\ Head(upR) = Resync /\ CloseRecipient /\ UNCHANGED events
    BY <1>7 DEF RefuseSubscribe
  <2>2. conn <= events  BY <2>1, AnswerTaken DEF ConnCounted
  <2>3. UNCHANGED conn /\ ~online' /\ upR' = <<>>  BY <2>1 DEF CloseRecipient
  <2>4. conn' <= events' + 0 /\ DOMAIN upR' = {}  BY <1>1, <2>1, <2>2, <2>3
  <2> QED  BY <2>3, <2>4 DEF ConnCounted
<1>8. CASE CutRecipient
  <2>1. CloseRecipient /\ events' = events + 1  BY <1>8 DEF CutRecipient, Happens
  <2>2. UNCHANGED conn /\ ~online' /\ upR' = <<>> /\ online  BY <2>1 DEF CloseRecipient
  <2>3. conn <= events + 1  BY <2>2 DEF ConnCounted
  <2>4. conn' <= events' + 0 /\ DOMAIN upR' = {}  BY <1>1, <2>1, <2>2, <2>3
  <2> QED  BY <2>2, <2>4 DEF ConnCounted
<1>9. CASE Subscribe
  <2>1. online /\ events' = events + 1 /\ UNCHANGED <<conn, online>>
    BY <1>9 DEF Subscribe, Happens, connVars
  <2>2. conn <= events + 1  BY <2>1 DEF ConnCounted
  <2>3. conn' <= events' /\ conn' <= events' + 1  BY <1>1, <2>1, <2>2
  <2> QED  BY <2>1, <2>3 DEF ConnCounted
<1>10. CASE \E accepted \in BOOLEAN : Decide(accepted)
  <2>1. PICK accepted \in BOOLEAN : Decide(accepted)  BY <1>10
  <2>2. UNCHANGED <<conn, online, events>>  BY <2>1 DEF Decide, connVars
  <2>3. busy \in 1 .. Len(seqOf) /\ busy # Null /\ upR' = IF online THEN Append(upR, busy) ELSE upR
    BY <2>1, ShapeDecide
  <2>4. (\E i \in DOMAIN upR' : upR'[i] = Resync) => \E i \in DOMAIN upR : upR[i] = Resync
    BY <2>3, AnswerAdded DEF Resync
  <2> QED  BY <2>2, <2>3, <2>4 DEF ConnCounted
<1>11. CASE AnswerFails
  <2>1. /\ upR # <<>> /\ upR' = Tail(upR) /\ online /\ UNCHANGED <<conn, online>>
        /\ events' = events + 1
    BY <1>11 DEF AnswerFails, connVars, Happens
  <2>2. \A i \in DOMAIN Tail(upR) : i + 1 \in DOMAIN upR /\ Tail(upR)[i] = upR[i + 1]
    BY <2>1, AnswerTaken
  <2>3. (\E i \in DOMAIN upR' : upR'[i] = Resync) => \E i \in DOMAIN upR : upR[i] = Resync
    BY <2>1, <2>2
  <2>4. conn <= events + 1  BY <2>1 DEF ConnCounted
  <2>5. conn' <= events' + 1 /\ (conn <= events => conn' <= events')  BY <1>1, <2>1, <2>4
  <2> QED  BY <2>1, <2>3, <2>5 DEF ConnCounted
<1>12. CASE Fault /\ ~AnswerFails
  <2>1. UNCHANGED <<conn, online, upR>> /\ events' = events + 1  BY <1>12, FaultEffects
  <2> QED  BY <1>2, <2>1
<1> QED
  BY <1>3, <1>4, <1>5, <1>6, <1>7, <1>8, <1>9, <1>10, <1>11, <1>12, Steps

---------------------------------------------------------------------------
(***************************************************************************)
(* Nothing is lost and nothing shown twice                                 *)
(***************************************************************************)

\* Rows are deleted for envelopes decided.
LEMMA AcksStep ==
    ASSUME Shape, Registered, AcksHandled, DeletedOnlyIfHandled, [Next]_vars
    PROVE  AcksHandled' /\ DeletedOnlyIfHandled'
<1> USE DEF Shape
<1>0. /\ DOMAIN seqOf = 1 .. Len(seqOf)
      /\ \A i \in DOMAIN upR : upR[i] \in {Resync} \cup DOMAIN seqOf
      /\ lateAcks \subseteq DOMAIN seqOf
  BY Domains, ElementOfSeq, LenProperties DEF FlowShape
<1>1. ASSUME UNCHANGED <<seqOf, rows, upR, lateAcks, handled>>
      PROVE  AcksHandled' /\ DeletedOnlyIfHandled'
  BY <1>1 DEF AcksHandled, DeletedOnlyIfHandled
<1>2. CASE \/ UNCHANGED vars
           \/ \E s \in Senders, msg \in 1 .. MaxSends : Transmit(s, msg)
           \/ \E l \in Links : AdmitSend(l) \/ RefuseSend(l)
                               \/ LookUpTarget(l) \/ CheckRecipient(l) \/ LivePush(l) \/ CutSender(l)
           \/ Connect \/ DrainScope \/ DrainQuery \/ DrainSend
           \/ (\E c \in closing : NoticeClose(c)) \/ Receive \/ Decrypt
           \/ \E u \in Senders \cup {Recipient} : ChangeRoster(u)
  BY <1>1, <1>2 DEF vars, relayVars, clientVars, Transmit, AdmitSend, RefuseSend, LookUpTarget,
     CheckRecipient, LivePush, CutSender, Connect, DrainScope, DrainQuery, DrainSend, NoticeClose,
     Receive, Decrypt, ChangeRoster
<1>3. CASE \E l \in Links : StoreEnvelope(l)
  <2>1. PICK l \in Links : StoreEnvelope(l)  BY <1>3
  <2>2. /\ DOMAIN seqOf' = 1 .. (Len(seqOf) + 1) /\ Len(seqOf) \in Nat
        /\ \A p \in DOMAIN seqOf : seqOf'[p] = seqOf[p]
        /\ rows' = rows \cup {Len(seqOf) + 1} /\ UNCHANGED <<upR, lateAcks, handled>>
    BY <2>1, ShapeStore, Domains DEF StoreEnvelope, clientVars
  <2>3. \A p \in DOMAIN seqOf' : p \in DOMAIN seqOf \/ p = Len(seqOf) + 1  BY <1>0, <2>2
  <2> HIDE DEF Shape
  <2>4. DeletedOnlyIfHandled'  BY <2>2, <2>3 DEF DeletedOnlyIfHandled
  <2>5. AcksHandled'  BY <1>0, <2>2 DEF AcksHandled
  <2> QED  BY <2>4, <2>5
<1>4. CASE HandleAck
  <2>1. /\ upR # <<>> /\ Head(upR) # Resync /\ rows' = rows \ {Head(upR)} /\ upR' = Tail(upR)
        /\ UNCHANGED <<seqOf, lateAcks, handled>>
    BY <1>4 DEF HandleAck, AckEnvelope, clientVars
  <2>2. /\ Head(upR) = upR[1] /\ 1 \in DOMAIN upR
        /\ \A i \in DOMAIN Tail(upR) : i + 1 \in DOMAIN upR /\ Tail(upR)[i] = upR[i + 1]
    BY <2>1, AnswerTaken
  <2>3. seqOf[Head(upR)] \in handled  BY <2>1, <2>2 DEF AcksHandled
  <2>4. DeletedOnlyIfHandled'  BY <2>1, <2>3 DEF DeletedOnlyIfHandled
  <2>5. AcksHandled'  BY <2>1, <2>2 DEF AcksHandled
  <2> QED  BY <2>4, <2>5
<1>5. CASE \E seq \in lateAcks : HandleLateAck(seq)
  <2>1. PICK seq \in lateAcks : HandleLateAck(seq)  BY <1>5
  <2>2. /\ rows' = rows \ {seq} /\ lateAcks' = lateAcks \ {seq}
        /\ UNCHANGED <<seqOf, upR, handled>>
    BY <2>1 DEF HandleLateAck, AckEnvelope, clientVars
  <2>3. DeletedOnlyIfHandled'  BY <2>1, <2>2 DEF DeletedOnlyIfHandled, AcksHandled
  <2>4. AcksHandled'  BY <2>2 DEF AcksHandled
  <2> QED  BY <2>3, <2>4
<1>6. CASE HandleSubscribe
  <2>1. upR # <<>> /\ upR' = Tail(upR) /\ UNCHANGED <<seqOf, rows, lateAcks, handled>>
    BY <1>6 DEF HandleSubscribe, relayVars, clientVars
  <2>2. \A i \in DOMAIN Tail(upR) : i + 1 \in DOMAIN upR /\ Tail(upR)[i] = upR[i + 1]
    BY <2>1, AnswerTaken
  <2> QED  BY <2>1, <2>2 DEF AcksHandled, DeletedOnlyIfHandled
<1>7. CASE RefuseSubscribe \/ CutRecipient
  <2>1. CloseRecipient  BY <1>7 DEF RefuseSubscribe, CutRecipient
  <2>2. upR' = <<>> /\ UNCHANGED <<seqOf, rows, handled>>
    BY <2>1 DEF CloseRecipient, relayVars, clientVars
  <2>3. \A seq \in lateAcks' : seq \in lateAcks \/
           \E i \in DOMAIN upR : upR[i] # Resync /\ upR[i] = seq
    BY <2>1, ShapeClose
  <2>4. DOMAIN upR' = {}  BY <2>2
  <2> QED  BY <2>2, <2>3, <2>4 DEF AcksHandled, DeletedOnlyIfHandled
<1>8. CASE Subscribe
  <2>1. upR' = Append(upR, Resync) /\ UNCHANGED <<seqOf, rows, lateAcks, handled>>
    BY <1>8 DEF Subscribe, relayVars, clientVars
  <2>2. \A i \in DOMAIN upR' : upR'[i] = Resync \/ (i \in DOMAIN upR /\ upR'[i] = upR[i])
    BY <2>1, AnswerAdded
  <2> QED  BY <2>1, <2>2 DEF AcksHandled, DeletedOnlyIfHandled
<1>9. CASE \E accepted \in BOOLEAN : Decide(accepted)
  <2>1. PICK accepted \in BOOLEAN : Decide(accepted)  BY <1>9
  <2>2. UNCHANGED <<seqOf, rows, lateAcks>>  BY <2>1 DEF Decide, relayVars
  <2>3. /\ busy \in 1 .. Len(seqOf) /\ handled' = handled \cup {seqOf[busy]}
        /\ upR' = IF online THEN Append(upR, busy) ELSE upR
    BY <2>1, ShapeDecide
  <2>4. \A i \in DOMAIN upR' : upR'[i] = busy \/ (i \in DOMAIN upR /\ upR'[i] = upR[i])
    BY <2>3, AnswerAdded
  <2> QED  BY <2>2, <2>3, <2>4 DEF AcksHandled, DeletedOnlyIfHandled
<1>10. CASE AnswerFails
  <2>1. upR # <<>> /\ upR' = Tail(upR) /\ UNCHANGED <<seqOf, rows, lateAcks, handled>>
    BY <1>10 DEF AnswerFails, relayVars, clientVars
  <2>2. \A i \in DOMAIN Tail(upR) : i + 1 \in DOMAIN upR /\ Tail(upR)[i] = upR[i + 1]
    BY <2>1, AnswerTaken
  <2> QED  BY <2>1, <2>2 DEF AcksHandled, DeletedOnlyIfHandled
<1>11. CASE \E seq \in lateAcks : LateAckFails(seq)
  <2>1. lateAcks' \subseteq lateAcks /\ UNCHANGED <<seqOf, rows, upR, handled>>
    BY <1>11 DEF LateAckFails, relayVars, clientVars
  <2> QED  BY <2>1 DEF AcksHandled, DeletedOnlyIfHandled
<1>12. CASE Fault /\ ~AnswerFails /\ ~\E seq \in lateAcks : LateAckFails(seq)
  BY <1>1, <1>12, FaultEffects
<1> QED
  BY <1>2, <1>3, <1>4, <1>5, <1>6, <1>7, <1>8, <1>9, <1>10, <1>11, <1>12, Steps

\* A message shown is seen, and only one not seen is shown.
LEMMA ShownStep ==
    ASSUME Shape, ShownSeen, ShownOnce, [Next]_vars
    PROVE  ShownSeen' /\ ShownOnce'
<1>1. CASE \E accepted \in BOOLEAN : Decide(accepted)
  <2>1. PICK accepted \in BOOLEAN : Decide(accepted)  BY <1>1
  <2> DEFINE msg == sent[seqOf[busy]].msg
  <2>2. /\ msg \in 1 .. MaxSends
        /\ \/ UNCHANGED <<shown, seen>>
           \/ /\ shown' = IF msg \in seen THEN shown ELSE Append(shown, msg)
              /\ seen' = seen \cup {msg}
    BY <2>1, ShapeDecide
  <2> HIDE DEF msg
  <2>3. CASE UNCHANGED shown /\ seen \subseteq seen'  BY <2>3 DEF ShownSeen, ShownOnce
  <2>4. CASE shown' = Append(shown, msg) /\ msg \notin seen /\ seen' = seen \cup {msg}
    <3>1. shown \in Seq(1 .. MaxSends)  BY DEF Shape, ClientShape
    <3>2. /\ DOMAIN shown' = 1 .. (Len(shown) + 1) /\ DOMAIN shown = 1 .. Len(shown)
          /\ Len(shown) \in Nat /\ \A j \in DOMAIN shown : shown'[j] = shown[j]
          /\ shown'[Len(shown) + 1] = msg
      BY <2>2, <2>4, <3>1, Appended
    <3>3. \A j \in DOMAIN shown' : j \in DOMAIN shown \/ j = Len(shown) + 1  BY <3>2
    <3> QED  BY <2>4, <3>2, <3>3 DEF ShownSeen, ShownOnce
  <2> QED  BY <2>2, <2>3, <2>4
<1>2. CASE ~\E accepted \in BOOLEAN : Decide(accepted)
  <2>1. UNCHANGED <<shown, seen>>
    BY <1>2, Steps, FaultEffects DEF vars, clientVars, Transmit, AdmitSend, RefuseSend, StoreEnvelope,
       LookUpTarget, CheckRecipient, LivePush, CutSender, Connect, DrainScope, DrainQuery,
       DrainSend, HandleAck, HandleSubscribe, RefuseSubscribe, CutRecipient, CloseRecipient,
       HandleLateAck, NoticeClose, Receive, Decrypt, Subscribe, ChangeRoster
  <2> QED  BY <2>1 DEF ShownSeen, ShownOnce
<1> QED  BY <1>1, <1>2

---------------------------------------------------------------------------
(***************************************************************************)
(* Nothing is stranded                                                     *)
(***************************************************************************)

\* Seqs and ciphertexts, once given, stay.
LEMMA SeqsKept ==
    ASSUME Shape, [Next]_vars
    PROVE  /\ \A p \in DOMAIN seqOf : p \in DOMAIN seqOf' /\ seqOf'[p] = seqOf[p]
           /\ \A i \in DOMAIN sent : i \in DOMAIN sent' /\ sent'[i] = sent[i]
<1>1. CASE \E l \in Links : StoreEnvelope(l)
  <2>1. PICK l \in Links : StoreEnvelope(l)  BY <1>1
  <2>2. /\ DOMAIN seqOf' = 1 .. (Len(seqOf) + 1) /\ Len(seqOf) \in Nat
        /\ DOMAIN seqOf = 1 .. Len(seqOf) /\ \A p \in DOMAIN seqOf : seqOf'[p] = seqOf[p]
    BY <2>1, ShapeStore, Domains
  <2>3. DOMAIN seqOf \subseteq DOMAIN seqOf'  BY <2>2
  <2>4. UNCHANGED sent  BY <2>1 DEF StoreEnvelope, senderVars
  <2> QED  BY <2>2, <2>3, <2>4
<1>2. CASE \E s \in Senders, msg \in 1 .. MaxSends : Transmit(s, msg)
  <2>1. PICK s \in Senders, msg \in 1 .. MaxSends : Transmit(s, msg)  BY <1>2
  <2>2. /\ DOMAIN sent' = 1 .. (Len(sent) + 1) /\ Len(sent) \in Nat
        /\ DOMAIN sent = 1 .. Len(sent) /\ \A i \in DOMAIN sent : sent'[i] = sent[i]
    BY <2>1, ShapeTransmit, Domains
  <2>3. DOMAIN sent \subseteq DOMAIN sent'  BY <2>2
  <2>4. UNCHANGED seqOf  BY <2>1 DEF Transmit, relayVars
  <2> QED  BY <2>2, <2>3, <2>4
<1>3. CASE /\ ~\E l \in Links : StoreEnvelope(l)
           /\ ~\E s \in Senders, msg \in 1 .. MaxSends : Transmit(s, msg)
  <2>1. UNCHANGED <<sent, seqOf>>
    BY <1>3, Steps, FaultEffects DEF vars, senderVars, relayVars, AdmitSend, RefuseSend,
       LookUpTarget, CheckRecipient, LivePush, CutSender, Connect, DrainScope, DrainQuery,
       DrainSend, HandleAck, HandleSubscribe, RefuseSubscribe, CutRecipient, CloseRecipient,
       HandleLateAck, NoticeClose, Receive, Decrypt, Subscribe, Decide, ChangeRoster
  <2> QED  BY <2>1
<1> QED  BY <1>1, <1>2, <1>3

\* What is decrypted stays so; one step adds one ciphertext, the inbox's first.
LEMMA TakenStep ==
    ASSUME Shape, [Next]_vars
    PROVE  /\ \A id : Taken(id) => Taken(id)'
           /\ \/ UNCHANGED decrypted
              \/ /\ Decrypt /\ ~Taken(seqOf[inbox[1]])
                 /\ \A id : Taken(id)' <=> Taken(id) \/ id = seqOf[inbox[1]]
<1>1. CASE UNCHANGED decrypted  BY <1>1 DEF Taken
<1>2. CASE ~UNCHANGED decrypted
  <2>1. Decrypt
    BY <1>2, Steps, FaultEffects DEF vars, clientVars, Transmit, AdmitSend, RefuseSend, StoreEnvelope,
       LookUpTarget, CheckRecipient, LivePush, CutSender, Connect, DrainScope, DrainQuery,
       DrainSend, HandleAck, HandleSubscribe, RefuseSubscribe, CutRecipient, CloseRecipient,
       HandleLateAck, NoticeClose, Receive, Subscribe, Decide, ChangeRoster
  <2> DEFINE e == seqOf[inbox[1]]
  <2>2. /\ decrypted \in Seq(1 .. Len(sent)) /\ inbox[1] \in 1 .. Len(seqOf)
        /\ decrypted' = Append(decrypted, e) /\ ~Taken(e)
    BY <1>2, <2>1, ShapeDecrypt
  <2>3. e \in 1 .. Len(sent)  BY <2>2, Domains
  <2> HIDE DEF e
  <2>4. /\ DOMAIN decrypted' = 1 .. (Len(decrypted) + 1) /\ Len(decrypted) \in Nat
        /\ DOMAIN decrypted = 1 .. Len(decrypted)
        /\ \A j \in DOMAIN decrypted : decrypted'[j] = decrypted[j]
        /\ decrypted'[Len(decrypted) + 1] = e
    BY <2>2, <2>3, Appended
  <2>5. /\ \A j \in DOMAIN decrypted' : j \in DOMAIN decrypted \/ j = Len(decrypted) + 1
        /\ \A j \in DOMAIN decrypted : j \in DOMAIN decrypted'
        /\ Len(decrypted) + 1 \in DOMAIN decrypted'
    BY <2>4
  <2>6. \A id : Taken(id) => Taken(id)'  BY <2>4, <2>5 DEF Taken
  <2>7. \A id : Taken(id)' => Taken(id) \/ id = e  BY <2>4, <2>5 DEF Taken
  <2>8. \A id : id = e => Taken(id)'  BY <2>4, <2>5 DEF Taken
  <2> QED  BY <2>1, <2>2, <2>6, <2>7, <2>8 DEF e
<1> QED  BY <1>1, <1>2

\* What is decrypted is decided, or being decided.
LEMMA DecidedStep ==
    ASSUME Shape, DecidedIsTaken, [Next]_vars
    PROVE  DecidedIsTaken'
<1>0. /\ busy \in {Null} \cup DOMAIN seqOf
      /\ \A p \in DOMAIN seqOf : p \in DOMAIN seqOf' /\ seqOf'[p] = seqOf[p]
      /\ \A id : Taken(id) => Taken(id)'
  BY Domains, SeqsKept, TakenStep DEF Shape, FlowShape
<1>1. CASE Decrypt
  <2>1. /\ busy = Null /\ inbox[1] \in 1 .. Len(seqOf) /\ UNCHANGED <<handled, seqOf>>
        /\ \/ UNCHANGED <<busy, decrypted>>
           \/ busy' = inbox[1] /\ decrypted' = Append(decrypted, seqOf[inbox[1]])
    BY <1>1, ShapeDecrypt DEF Decrypt, relayVars
  <2>2. inbox[1] # Null /\ inbox[1] \in DOMAIN seqOf
    BY <2>1, Domains, NullIsNoSeq
  <2>3. CASE UNCHANGED <<busy, decrypted>>
    BY <2>1, <2>3 DEF DecidedIsTaken, Taken
  <2>4. CASE busy' = inbox[1] /\ decrypted' = Append(decrypted, seqOf[inbox[1]])
    <3> DEFINE e == seqOf[inbox[1]]
    <3>1. /\ decrypted \in Seq(1 .. Len(sent)) /\ e \in 1 .. Len(sent)
          /\ decrypted' = Append(decrypted, e)
      BY <2>2, <2>4, Domains DEF Shape, ClientShape
    <3>2. seqOf'[busy'] = e /\ busy' # Null  BY <2>1, <2>2, <2>4
    <3> HIDE DEF e
    <3>3. /\ DOMAIN decrypted' = 1 .. (Len(decrypted) + 1) /\ Len(decrypted) \in Nat
          /\ DOMAIN decrypted = 1 .. Len(decrypted)
          /\ \A j \in DOMAIN decrypted : decrypted'[j] = decrypted[j]
          /\ decrypted'[Len(decrypted) + 1] = e
      BY <3>1, Appended
    <3>4. /\ \A j \in DOMAIN decrypted' : j \in DOMAIN decrypted \/ j = Len(decrypted) + 1
          /\ Len(decrypted) + 1 \in DOMAIN decrypted'
      BY <3>3
    <3>5. \A id \in handled' : Taken(id)'  BY <1>0, <2>1 DEF DecidedIsTaken
    <3>6. Taken(seqOf[busy])'
      <4>1. \E i \in DOMAIN decrypted' : decrypted'[i] = seqOf'[busy']  BY <3>2, <3>3, <3>4
      <4> QED  BY <4>1 DEF Taken
    <3>7. \A i \in DOMAIN decrypted' :
             decrypted'[i] \in handled' \/ (busy' # Null /\ decrypted'[i] = seqOf'[busy'])
      BY <2>1, <3>2, <3>3, <3>4 DEF DecidedIsTaken
    <3> QED  BY <3>5, <3>6, <3>7 DEF DecidedIsTaken
  <2> QED  BY <2>1, <2>3, <2>4
<1>2. CASE \E accepted \in BOOLEAN : Decide(accepted)
  <2>1. PICK accepted \in BOOLEAN : Decide(accepted)  BY <1>2
  <2>2. /\ busy # Null /\ busy' = Null /\ handled' = handled \cup {seqOf[busy]}
        /\ UNCHANGED <<seqOf, decrypted>>
    BY <2>1, ShapeDecide DEF Decide, relayVars
  <2> QED  BY <2>2 DEF DecidedIsTaken, Taken
<1>3. CASE ~Decrypt /\ ~\E accepted \in BOOLEAN : Decide(accepted)
  <2>1. UNCHANGED <<handled, busy, decrypted>>
    BY <1>3, Steps, FaultEffects DEF vars, clientVars, Transmit, AdmitSend, RefuseSend, StoreEnvelope,
       LookUpTarget, CheckRecipient, LivePush, CutSender, Connect, DrainScope, DrainQuery,
       DrainSend, HandleAck, HandleSubscribe, RefuseSubscribe, CutRecipient, CloseRecipient,
       HandleLateAck, NoticeClose, Receive, Subscribe, ChangeRoster
  <2>2. busy # Null => seqOf'[busy] = seqOf[busy]  BY <1>0
  <2> QED  BY <2>1, <2>2 DEF DecidedIsTaken, Taken
<1> QED  BY <1>1, <1>2, <1>3

\* A ciphertext is decrypted once, and so decided once.
LEMMA UndecidedStep ==
    ASSUME Shape, DecidedIsTaken, Undecided, [Next]_vars
    PROVE  Undecided'
<1>1. CASE Decrypt
  <2>1. UNCHANGED <<handled, seqOf>>  BY <1>1 DEF Decrypt, relayVars
  <2>2. busy = Null /\ (UNCHANGED busy \/ (busy' = inbox[1] /\ ~Taken(seqOf[inbox[1]])))
    BY <1>1, ShapeDecrypt
  <2>3. ~Taken(seqOf[inbox[1]]) => seqOf[inbox[1]] \notin handled  BY DEF DecidedIsTaken
  <2> QED  BY <2>1, <2>2, <2>3 DEF Undecided
<1>2. CASE \E accepted \in BOOLEAN : Decide(accepted)
  <2>1. busy' = Null  BY <1>2 DEF Decide
  <2> QED  BY <2>1 DEF Undecided
<1>3. CASE ~Decrypt /\ ~\E accepted \in BOOLEAN : Decide(accepted)
  <2>1. UNCHANGED <<handled, busy>>
    BY <1>3, Steps, FaultEffects DEF vars, clientVars, Transmit, AdmitSend, RefuseSend, StoreEnvelope,
       LookUpTarget, CheckRecipient, LivePush, CutSender, Connect, DrainScope, DrainQuery,
       DrainSend, HandleAck, HandleSubscribe, RefuseSubscribe, CutRecipient, CloseRecipient,
       HandleLateAck, NoticeClose, Receive, Subscribe, ChangeRoster
  <2>2. busy # Null => seqOf'[busy] = seqOf[busy]
    BY Domains, SeqsKept DEF Shape, FlowShape
  <2> QED  BY <2>1, <2>2 DEF Undecided
<1> QED  BY <1>1, <1>2, <1>3

\* A handler that has an envelope to push keeps it, but for the last two steps.
LEMMA HeldStep ==
    ASSUME Shape, Registered, [Next]_vars, online, online', NEW p, Held(p),
           Recipient \in roster \/ ~\E l \in Links : CheckRecipient(l),
           ~\E l \in Links : PushFails(l)
    PROVE  \/ Held(p)'
           \/ \E l \in Links : LivePush(l) /\ hand[l].seq = p /\ hand[l].target = conn
<1>1. PICK k \in Links :
         \/ hand[k].at = "stored" /\ hand[k].seq = p
         \/ /\ hand[k].at \in {"routing", "pushing"} /\ hand[k].seq = p
            /\ hand[k].target = conn
  BY DEF Held
<1>2. ASSUME hand'[k] = hand[k], UNCHANGED conn PROVE Held(p)'
  BY <1>1, <1>2 DEF Held
<1>3. CASE UNCHANGED hand
  <2>1. UNCHANGED conn
    BY <1>3, Steps, FaultEffects DEF vars, connVars, Transmit, AdmitSend, RefuseSend, StoreEnvelope,
       LookUpTarget, CheckRecipient, LivePush, CutSender, Connect, DrainScope, DrainQuery,
       DrainSend, HandleAck, HandleSubscribe, RefuseSubscribe, CutRecipient, CloseRecipient,
       HandleLateAck, NoticeClose, Receive, Decrypt, Subscribe, Decide, ChangeRoster
  <2> QED  BY <1>2, <1>3, <2>1
<1>4. CASE \E l \in Links : AdmitSend(l) \/ StoreEnvelope(l)
  <2>1. PICK l \in Links : AdmitSend(l) \/ StoreEnvelope(l)  BY <1>4
  <2>2. hand[l] = Idle \/ hand[l].at = "storing"  BY <2>1 DEF AdmitSend, StoreEnvelope
  <2>3. k # l  BY <1>1, <2>2 DEF Idle
  <2>4. hand'[k] = hand[k] /\ UNCHANGED conn
    BY <2>1, <2>3, ShapeAdmit, ShapeStore DEF AdmitSend, StoreEnvelope, connVars
  <2> QED  BY <1>2, <2>4
<1>5. CASE \E l \in Links : LookUpTarget(l)
  <2>1. PICK l \in Links : LookUpTarget(l)  BY <1>5
  <2>2. UNCHANGED conn  BY <2>1 DEF LookUpTarget, connVars
  <2>3. CASE k # l  BY <1>2, <2>1, <2>2, <2>3, ShapeLookUp
  <2>4. CASE k = l
    <3>1. hand[l].at = "stored"  BY <2>1, ShapeLookUp
    <3>2. hand[l].seq = p  BY <1>1, <2>4, <3>1
    <3>3. live # 0 /\ live = conn  BY DEF Registered
    <3>4. hand'[l] = [at |-> "routing", seq |-> p, target |-> conn]
      BY <2>1, <3>2, <3>3, ShapeLookUp
    <3>5. hand'[l].at = "routing" /\ hand'[l].seq = p /\ hand'[l].target = conn'
      BY <2>2, <3>4
    <3> QED  BY <3>5 DEF Held
  <2> QED  BY <2>3, <2>4
<1>6. CASE \E l \in Links : CheckRecipient(l)
  <2>1. PICK l \in Links : CheckRecipient(l)  BY <1>6
  <2>2. UNCHANGED conn /\ Recipient \in roster  BY <2>1 DEF CheckRecipient, connVars
  <2>3. CASE k # l  BY <1>2, <2>1, <2>2, <2>3, ShapeCheck
  <2>4. CASE k = l
    <3>1. /\ hand[l].at = "routing" /\ hand'[l].at = "pushing" /\ hand'[l].seq = hand[l].seq
          /\ hand'[l].target = hand[l].target
      BY <2>1, <2>2, ShapeCheck
    <3>2. hand'[l].at \in {"routing", "pushing"} /\ hand'[l].seq = p /\ hand'[l].target = conn'
      BY <1>1, <2>2, <2>4, <3>1
    <3> QED  BY <3>2 DEF Held
  <2> QED  BY <2>3, <2>4
<1>7. CASE \E l \in Links : LivePush(l)
  <2>1. PICK l \in Links : LivePush(l)  BY <1>7
  <2>2. UNCHANGED conn  BY <2>1 DEF LivePush
  <2>3. CASE k # l  BY <1>2, <2>1, <2>2, <2>3, ShapePush
  <2>4. CASE k = l
    <3>1. hand[l].at = "pushing"  BY <2>1, ShapePush
    <3> QED  BY <1>1, <2>1, <2>4, <3>1
  <2> QED  BY <2>3, <2>4
<1>8. CASE /\ ~\E l \in Links : AdmitSend(l) \/ StoreEnvelope(l) \/ LookUpTarget(l)
                                \/ CheckRecipient(l) \/ LivePush(l) \/ SendFails(l)
           /\ ~UNCHANGED hand
  BY <1>8, Steps, FaultEffects DEF vars, relayVars, Transmit, RefuseSend,
       CutSender, Connect, DrainScope, DrainQuery,
       DrainSend, HandleAck, HandleSubscribe, RefuseSubscribe, CutRecipient, CloseRecipient,
       HandleLateAck, NoticeClose, Receive, Decrypt, Subscribe, Decide, ChangeRoster
<1>9. CASE \E l \in Links : SendFails(l)
  <2>1. PICK l \in Links : SendFails(l)  BY <1>9
  <2>2. UNCHANGED conn  BY <2>1 DEF SendFails, connVars
  <2>3. /\ \A j \in Links : j # l => hand'[j] = hand[j]
        /\ hand'[l] = hand[l] \/ hand[l].at = "storing"
    BY <2>1, ShapeSendFails
  <2>4. hand'[k] = hand[k]  BY <1>1, <2>3
  <2> QED  BY <1>2, <2>2, <2>4
<1> QED  BY <1>3, <1>4, <1>5, <1>6, <1>7, <1>8, <1>9

\* Who is in a queue that got longer or shorter.
LEMMA InQueue ==
    ASSUME NEW n, NEW q \in Seq(1 .. n)
    PROVE  /\ \A p : \A e \in 1 .. n : In(p, Append(q, e)) <=> In(p, q) \/ p = e
           /\ q # <<>> => \A p : In(p, q) <=> In(p, Tail(q)) \/ p = q[1]
<1>1. ASSUME NEW e \in 1 .. n, NEW p PROVE In(p, Append(q, e)) <=> In(p, q) \/ p = e
  <2>1. /\ DOMAIN Append(q, e) = 1 .. (Len(q) + 1) /\ DOMAIN q = 1 .. Len(q) /\ Len(q) \in Nat
        /\ \A j \in DOMAIN q : Append(q, e)[j] = q[j]
        /\ Append(q, e)[Len(q) + 1] = e
    BY Appended
  <2>2. /\ \A j \in DOMAIN Append(q, e) : j \in DOMAIN q \/ j = Len(q) + 1
        /\ \A j \in DOMAIN q : j \in DOMAIN Append(q, e)
        /\ Len(q) + 1 \in DOMAIN Append(q, e)
    BY <2>1
  <2> QED  BY <2>1, <2>2 DEF In
<1>2. ASSUME q # <<>>, NEW p PROVE In(p, q) <=> In(p, Tail(q)) \/ p = q[1]
  <2>1. /\ 1 \in DOMAIN q
        /\ \A i \in DOMAIN Tail(q) : i + 1 \in DOMAIN q /\ Tail(q)[i] = q[i + 1]
        /\ \A i \in DOMAIN q : i # 1 => i - 1 \in DOMAIN Tail(q) /\ Tail(q)[i - 1] = q[i]
    BY <1>2, QueueTaken
  <2> QED  BY <2>1 DEF In
<1> QED  BY <1>1, <1>2

\* What is on its way to the client stays so, or is held back for the drain.
LEMMA UnderwayStep ==
    ASSUME Shape, Registered, [Next]_vars, online, online', NEW p \in DOMAIN seqOf, Underway(p),
           Recipient \in roster \/ ~\E l \in Links : CheckRecipient(l),
           ~\E l \in Links : PushFails(l)
    PROVE  Underway(p)' \/ (draining /\ ~DrainSend /\ In(p, buffer'))
<1>0. /\ seqOf'[p] = seqOf[p] /\ \A id : Taken(id) => Taken(id)'
      /\ down \in Seq(1 .. Len(seqOf)) /\ inbox \in Seq(1 .. Len(seqOf))
      /\ buffer \in Seq(1 .. Len(seqOf))
  BY SeqsKept, TakenStep DEF Shape, FlowShape
<1>q. /\ \A x : \A e \in 1 .. Len(seqOf) : In(x, Append(down, e)) <=> In(x, down) \/ x = e
      /\ \A x : \A e \in 1 .. Len(seqOf) : In(x, Append(inbox, e)) <=> In(x, inbox) \/ x = e
      /\ \A x : \A e \in 1 .. Len(seqOf) : In(x, Append(buffer, e)) <=> In(x, buffer) \/ x = e
  BY <1>0, InQueue, Zenon
<1>1. CASE Taken(seqOf[p])
  <2>1. Taken(seqOf[p])'
    <3> DEFINE id == seqOf[p]
    <3>1. id' = id /\ Taken(id)  BY <1>0, <1>1
    <3>2. \E i \in DOMAIN decrypted' : decrypted'[i] = id
      <4> HIDE DEF id
      <4> QED  BY <1>0, <3>1 DEF Taken
    <3> QED  BY <3>1, <3>2 DEF Taken
  <2> QED  BY <2>1 DEF Underway
<1>2. CASE In(p, inbox)
  <2>1. CASE Receive
    <3>1. down[1] \in 1 .. Len(seqOf) /\ inbox' = Append(inbox, down[1])
      BY <2>1, ShapeReceive
    <3>2. In(p, inbox')  BY <1>q, <1>2, <3>1, Zenon
    <3> QED  BY <3>2 DEF Underway
  <2>2. CASE Decrypt
    <3>1. inbox # <<>> /\ inbox' = Tail(inbox)
          /\ \/ Taken(seqOf[inbox[1]]) /\ UNCHANGED <<busy, decrypted>>
             \/ decrypted' = Append(decrypted, seqOf[inbox[1]])
      BY <2>2, ShapeDecrypt
    <3>2. In(p, Tail(inbox)) \/ p = inbox[1]  BY <1>0, <1>2, <3>1, InQueue
    <3>3. CASE In(p, Tail(inbox))  BY <3>1, <3>3 DEF Underway
    <3>4. CASE p = inbox[1]
      <4> DEFINE id == seqOf[p]
      <4>1. \E i \in DOMAIN decrypted' : decrypted'[i] = id
        <5>1. CASE Taken(id)
          <6> HIDE DEF id
          <6> QED  BY <1>0, <5>1 DEF Taken
        <5>2. CASE ~Taken(id)
          <6>1. ~UNCHANGED decrypted  BY <3>1, <3>4, <5>2, AppendProperties DEF Shape, ClientShape
          <6>2. \A x : Taken(x)' <=> Taken(x) \/ x = id  BY <3>4, <6>1, TakenStep
          <6> HIDE DEF id
          <6> QED  BY <6>2 DEF Taken
        <5> QED  BY <5>1, <5>2
      <4>2. Taken(seqOf[p])'  BY <1>0, <4>1 DEF Taken
      <4> QED  BY <4>2 DEF Underway
    <3> QED  BY <3>2, <3>3, <3>4
  <2>3. CASE DecryptFails
    <3>1. /\ inbox # <<>> /\ inbox' = Tail(inbox) /\ failed' = failed \cup {seqOf[inbox[1]]}
      BY <2>3, ShapeDecryptFails
    <3>2. In(p, Tail(inbox)) \/ p = inbox[1]  BY <1>0, <1>2, <3>1, InQueue
    <3>3. CASE In(p, Tail(inbox))  BY <3>1, <3>3 DEF Underway
    <3>4. CASE p = inbox[1]
      <4>1. seqOf'[p] \in failed'  BY <1>0, <3>1, <3>4
      <4> QED  BY <4>1 DEF Underway
    <3> QED  BY <3>2, <3>3, <3>4
  <2>4. CASE ~Receive /\ ~Decrypt /\ ~DecryptFails
    <3>1. UNCHANGED inbox
      BY <2>4, Steps, FaultEffects DEF vars, clientVars, Transmit, AdmitSend, RefuseSend, StoreEnvelope,
         LookUpTarget, CheckRecipient, LivePush, CutSender, Connect, DrainScope, DrainQuery,
         DrainSend, HandleAck, HandleSubscribe, RefuseSubscribe, CutRecipient, CloseRecipient,
         HandleLateAck, NoticeClose, Subscribe, Decide, ChangeRoster
    <3> QED  BY <1>2, <3>1 DEF Underway
  <2> QED  BY <2>1, <2>2, <2>3, <2>4
<1>3. CASE In(p, down)
  <2>1. CASE Receive
    <3>1. In(p, Tail(down)) \/ p = down[1]  BY <1>0, <1>3, <2>1, ShapeReceive, InQueue
    <3>2. p = down[1] => In(p, inbox')
      <4>1. down[1] \in 1 .. Len(seqOf) /\ inbox' = Append(inbox, down[1])
        BY <2>1, ShapeReceive
      <4> QED  BY <1>q, <4>1, Zenon
    <3>3. In(p, Tail(down)) => In(p, down')  BY <2>1, ShapeReceive
    <3> QED  BY <3>1, <3>2, <3>3 DEF Underway
  <2>2. CASE DrainSend
    <3>1. PICK i \in DOMAIN down : down[i] = p  BY <1>3 DEF In
    <3>2. i \in DOMAIN down'  BY <2>2, <3>1, ShapeDrain
    <3>3. down'[i] = p  BY <2>2, <3>1, ShapeDrain
    <3> QED  BY <3>2, <3>3 DEF Underway, In
  <2>3. CASE \E l \in Links : LivePush(l)
    <3>1. PICK l \in Links : LivePush(l)  BY <2>3
    <3>2. /\ hand[l].seq \in 1 .. Len(seqOf)
          /\ down' = down \/ down' = Append(down, hand[l].seq)
      BY <3>1, ShapePush
    <3>3. In(p, down')  BY <1>q, <1>3, <3>2, Zenon
    <3> QED  BY <3>3 DEF Underway
  <2>4. CASE ~Receive /\ ~DrainSend /\ ~\E l \in Links : LivePush(l)
    <3>1. UNCHANGED down
      BY <2>4, Steps, FaultEffects DEF vars, Transmit, AdmitSend, RefuseSend, StoreEnvelope,
         LookUpTarget, CheckRecipient, CutSender, Connect, DrainScope, DrainQuery,
         HandleAck, HandleSubscribe, RefuseSubscribe, CutRecipient, CloseRecipient,
         HandleLateAck, NoticeClose, Decrypt, Subscribe, Decide, ChangeRoster
    <3> QED  BY <1>3, <3>1 DEF Underway
  <2> QED  BY <2>1, <2>2, <2>3, <2>4
<1>4. CASE Held(p)
  <2>1. \/ Held(p)'
        \/ \E l \in Links : LivePush(l) /\ hand[l].seq = p /\ hand[l].target = conn
    BY <1>4, HeldStep
  <2>2. CASE Held(p)'  BY <2>2 DEF Underway
  <2>3. CASE \E l \in Links : LivePush(l) /\ hand[l].seq = p /\ hand[l].target = conn
    <3>1. PICK l \in Links : LivePush(l) /\ hand[l].seq = p /\ hand[l].target = conn  BY <2>3
    <3>2. /\ p \in 1 .. Len(seqOf)
          /\ \/ draining /\ buffer' = Append(buffer, p)
             \/ down' = Append(down, p)
      BY <3>1, ShapePush
    <3>3. ~DrainSend  BY <3>1 DEF LivePush, DrainSend
    <3>4. (draining /\ In(p, buffer')) \/ In(p, down')
      BY <1>q, <3>2, Zenon
    <3> QED  BY <3>3, <3>4 DEF Underway
  <2> QED  BY <2>1, <2>2, <2>3
<1>5. CASE seqOf[p] \in failed
  <2>1. failed \subseteq failed'
    <3>1. UNCHANGED failed \/ DecryptFails
      BY Steps, FaultEffects DEF vars, clientVars, Transmit, AdmitSend, RefuseSend, StoreEnvelope,
         LookUpTarget, CheckRecipient, LivePush, CutSender, Connect, DrainScope, DrainQuery,
         DrainSend, HandleAck, HandleSubscribe, RefuseSubscribe, CutRecipient, CloseRecipient,
         HandleLateAck, NoticeClose, Receive, Decrypt, Subscribe, Decide, ChangeRoster
    <3> QED  BY <3>1, ShapeDecryptFails
  <2>2. seqOf'[p] \in failed'  BY <1>0, <1>5, <2>1
  <2> QED  BY <2>2 DEF Underway
<1> QED  BY <1>1, <1>2, <1>3, <1>4, <1>5 DEF Underway

\* What a drain has to send it keeps until it is sent.
LEMMA ToDrainStep ==
    ASSUME Shape, Registered, DecidedIsTaken, DeletedOnlyIfHandled, [Next]_vars, online, online',
           NEW p \in DOMAIN seqOf, ToDrain(p), Recipient \in roster \/ ~DrainScope,
           ~stuck, ~DrainFails
    PROVE  (~DrainSend /\ ToDrain(p)') \/ Underway(p)'
<1>0. /\ DOMAIN seqOf = 1 .. Len(seqOf) /\ Len(seqOf) \in Nat
      /\ scanned \subseteq 1 .. Len(seqOf) /\ buffer \in Seq(1 .. Len(seqOf))
  BY Domains DEF Shape, FlowShape
<1>1. CASE DrainSend
  <2>1. p \in scanned \/ In(p, buffer)  BY <1>1 DEF DrainSend, ToDrain, Pending
  <2>2. In(p, down')
    <3> DEFINE b == BySeq(scanned)
    <3>1. /\ Len(down) \in Nat /\ Len(b) \in Nat /\ Len(buffer) \in Nat
          /\ DOMAIN buffer = 1 .. Len(buffer) /\ DOMAIN b = 1 .. Len(b)
          /\ DOMAIN down' = 1 .. (Len(down) + Len(b) + Len(buffer))
          /\ \A i \in DOMAIN b : down'[Len(down) + i] = b[i]
          /\ \A i \in DOMAIN buffer : down'[Len(down) + Len(b) + i] = buffer[i]
      BY <1>1, ShapeDrain
    <3>2. \A x \in scanned : \E i \in DOMAIN b : b[i] = x  BY <1>0, Sorted
    <3> HIDE DEF b
    <3>3. /\ \A i \in DOMAIN b : Len(down) + i \in DOMAIN down'
          /\ \A i \in DOMAIN buffer : Len(down) + Len(b) + i \in DOMAIN down'
      BY <3>1
    <3> QED  BY <2>1, <3>1, <3>2, <3>3 DEF In
  <2> QED  BY <2>2 DEF Underway
<1>2. CASE ~DrainSend
  <2>1. CASE Pending
    <3>1. CASE DrainScope
      <4>1. stage' = "querying"  BY <3>1 DEF DrainScope
      <4> QED  BY <1>2, <4>1 DEF ToDrain, Pending
    <3>2. CASE DrainQuery
      <4>1. scanned' = rows /\ UNCHANGED <<seqOf, decrypted>>
        BY <3>2 DEF DrainQuery, relayVars, clientVars
      <4>2. p \in rows \/ Taken(seqOf[p])  BY DEF DeletedOnlyIfHandled, DecidedIsTaken
      <4>3. p \in rows => ToDrain(p)'  BY <4>1 DEF ToDrain
      <4>4. Taken(seqOf[p]) => Underway(p)'  BY <4>1 DEF Underway, Taken
      <4> QED  BY <1>2, <4>2, <4>3, <4>4
    <3>3. CASE ~DrainScope /\ ~DrainQuery
      <4>1. UNCHANGED stage
        BY <1>2, <2>1, <3>3, Steps, FaultEffects DEF Pending, vars, connVars, Transmit, AdmitSend, RefuseSend,
           StoreEnvelope, LookUpTarget, CheckRecipient, LivePush, CutSender, Connect,
           HandleAck, HandleSubscribe, RefuseSubscribe, CutRecipient, CloseRecipient,
           HandleLateAck, NoticeClose, Receive, Decrypt, Subscribe, Decide, ChangeRoster
      <4> QED  BY <1>2, <2>1, <4>1 DEF ToDrain, Pending
    <3> QED  BY <3>1, <3>2, <3>3
  <2>2. CASE p \in scanned
    <3>1. stage = "sending"  BY <2>2 DEF Registered
    <3>2. UNCHANGED scanned
      BY <1>2, <3>1, Steps, FaultEffects DEF vars, connVars, Transmit, AdmitSend, RefuseSend,
         StoreEnvelope, LookUpTarget, CheckRecipient, LivePush, CutSender, Connect, DrainScope,
         DrainQuery, HandleAck, HandleSubscribe, RefuseSubscribe, CutRecipient, CloseRecipient,
         HandleLateAck, NoticeClose, Receive, Decrypt, Subscribe, Decide, ChangeRoster
    <3> QED  BY <1>2, <2>2, <3>2 DEF ToDrain
  <2>3. CASE In(p, buffer)
    <3>1. CASE \E l \in Links : LivePush(l)
      <4>1. PICK l \in Links : LivePush(l)  BY <3>1
      <4>2. /\ hand[l].seq \in 1 .. Len(seqOf)
            /\ buffer' = buffer \/ buffer' = Append(buffer, hand[l].seq)
        BY <4>1, ShapePush
      <4>3. \A x : \A e \in 1 .. Len(seqOf) : In(x, Append(buffer, e)) <=> In(x, buffer) \/ x = e
        BY <1>0, InQueue, Zenon
      <4>4. In(p, buffer')  BY <2>3, <4>2, <4>3, Zenon
      <4> QED  BY <1>2, <4>4 DEF ToDrain
    <3>2. CASE ~\E l \in Links : LivePush(l)
      <4>1. UNCHANGED buffer
        BY <1>2, <3>2, Steps, FaultEffects DEF vars, connVars, Transmit, AdmitSend, RefuseSend,
           StoreEnvelope, LookUpTarget, CheckRecipient, CutSender, Connect, DrainScope,
           DrainQuery, HandleAck, HandleSubscribe, RefuseSubscribe, CutRecipient, CloseRecipient,
           HandleLateAck, NoticeClose, Receive, Decrypt, Subscribe, Decide, ChangeRoster
      <4> QED  BY <1>2, <2>3, <4>1 DEF ToDrain
    <3> QED  BY <3>1, <3>2
  <2> QED  BY <2>1, <2>2, <2>3 DEF ToDrain
<1> QED  BY <1>1, <1>2

\* A seq just given is held by the handler that stored it.
LEMMA NewSeqHeld ==
    ASSUME Shape, [Next]_vars, NEW p \in DOMAIN seqOf', p \notin DOMAIN seqOf
    PROVE  Underway(p)' /\ \E l \in Links : StoreEnvelope(l) /\ p = Len(seqOf) + 1
<1>1. PICK l \in Links : StoreEnvelope(l)
  <2>1. ~UNCHANGED seqOf  OBVIOUS
  <2> QED
    BY <2>1, Steps, FaultEffects DEF vars, relayVars, Transmit, AdmitSend, RefuseSend,
       LookUpTarget, CheckRecipient, LivePush, CutSender, Connect, DrainScope, DrainQuery,
       DrainSend, HandleAck, HandleSubscribe, RefuseSubscribe, CutRecipient, CloseRecipient,
       HandleLateAck, NoticeClose, Receive, Decrypt, Subscribe, Decide, ChangeRoster
<1>2. /\ DOMAIN seqOf' = 1 .. (Len(seqOf) + 1) /\ DOMAIN seqOf = 1 .. Len(seqOf)
      /\ Len(seqOf) \in Nat /\ hand'[l] = [at |-> "stored", seq |-> Len(seqOf) + 1]
  BY <1>1, ShapeStore, Domains
<1>3. p = Len(seqOf) + 1  BY <1>2
<1>4. hand'[l].at = "stored" /\ hand'[l].seq = p  BY <1>2, <1>3
<1> QED  BY <1>1, <1>3, <1>4 DEF Underway, Held

\* Every envelope is on its way to a recipient that stays active.
LEMMA ReachedStep ==
    ASSUME Shape, Registered, DecidedIsTaken, DeletedOnlyIfHandled, Reached, [Next]_vars
    PROVE  Reached'
<1> SUFFICES ASSUME online', steady', NEW p \in DOMAIN seqOf' PROVE Underway(p)' \/ ToDrain(p)'
  BY DEF Reached, OnItsWay
<1>1. CASE p \notin DOMAIN seqOf  BY <1>1, NewSeqHeld
<1>2. CASE DrainScope
  <2>1. stage' = "querying"  BY <1>2 DEF DrainScope
  <2> QED  BY <2>1 DEF ToDrain, Pending
<1>3. CASE Connect
  <2>1. stage' = "scoping"  BY <1>3 DEF Connect
  <2> QED  BY <2>1 DEF ToDrain, Pending
<1>4. CASE p \in DOMAIN seqOf /\ ~DrainScope /\ ~Connect
  <2>1. ~DrainFails /\ ~\E l \in Links : PushFails(l)  BY DEF DrainFails, PushFails
  <2>2. online /\ steady
    BY <1>4, <2>1, Steps, FaultEffects DEF vars, connVars, Transmit, AdmitSend, RefuseSend, StoreEnvelope,
       LookUpTarget, CheckRecipient, LivePush, CutSender, DrainQuery,
       DrainSend, HandleAck, HandleSubscribe, RefuseSubscribe, CutRecipient, CloseRecipient,
       HandleLateAck, NoticeClose, Receive, Decrypt, Subscribe, Decide, ChangeRoster
  <2>3. Recipient \in roster /\ ~stuck  BY <2>2 DEF Registered
  <2>4. Underway(p) \/ ToDrain(p)  BY <1>4, <2>2 DEF Reached, OnItsWay
  <2>5. CASE Underway(p)
    <3>1. Underway(p)' \/ (draining /\ ~DrainSend /\ In(p, buffer'))
      BY <1>4, <2>2, <2>3, <2>5, <2>1, UnderwayStep
    <3> QED  BY <3>1 DEF ToDrain
  <2>6. CASE ToDrain(p)  BY <1>4, <2>2, <2>3, <2>6, <2>1, ToDrainStep
  <2> QED  BY <2>4, <2>5, <2>6
<1> QED  BY <1>1, <1>2, <1>3, <1>4

\* With nothing under way, it has been decided.
LEMMA ReachedIsDecided ==
    ASSUME Shape, DecidedIsTaken, Reached, Registered
    PROVE  NoneStranded
<1> SUFFICES ASSUME online, steady, Quiet, NEW p \in rows
             PROVE  seqOf[p] \in handled \cup failed
  BY DEF NoneStranded
<1>1. p \in DOMAIN seqOf  BY Domains DEF Shape, StoreShape
<1>2. Underway(p) \/ ToDrain(p)  BY <1>1 DEF Reached, OnItsWay
<1>3. stage = "idle" /\ down = <<>> /\ inbox = <<>> /\ busy = Null
      /\ \A l \in Links : hand[l] = Idle
  BY DEF Quiet
<1>4. ~ToDrain(p)
  <2>1. scanned = {} /\ buffer = <<>>  BY <1>3 DEF Registered
  <2>2. DOMAIN buffer = {}  BY <2>1
  <2> QED  BY <1>3, <2>1, <2>2 DEF ToDrain, Pending, In
<1>5. DOMAIN inbox = {} /\ DOMAIN down = {}  BY <1>3
<1>6. ~Held(p)  BY <1>3 DEF Held, Idle
<1>7. Taken(seqOf[p]) \/ seqOf[p] \in failed  BY <1>2, <1>4, <1>5, <1>6 DEF Underway, In
<1> QED  BY <1>3, <1>7 DEF Taken, DecidedIsTaken

---------------------------------------------------------------------------
(***************************************************************************)
(* Nothing is overtaken                                                    *)
(***************************************************************************)

\* As long as the recipient was active whenever that mattered, every envelope is
\* on its way, and none by a drain that live pushes would overtake.
LEMMA ReachedInOrderStep ==
    ASSUME Shape, Registered, DecidedIsTaken, DeletedOnlyIfHandled, ReachedInOrder, [Next]_vars
    PROVE  ReachedInOrder'
<1> SUFFICES ASSUME online', ~lapsed', NEW p \in DOMAIN seqOf'
             PROVE  Underway(p)' \/ (draining' /\ ToDrain(p)')
  BY DEF ReachedInOrder, OnItsWay
<1>1. CASE p \notin DOMAIN seqOf  BY <1>1, NewSeqHeld
<1>2. CASE Connect
  <2>1. stage' = "scoping" /\ draining'  BY <1>2 DEF Connect
  <2> QED  BY <2>1 DEF ToDrain, Pending
<1>3. CASE p \in DOMAIN seqOf /\ ~Connect
  <2>1. online /\ ~lapsed
    <3>1. ~lapsed  BY LapsedStays
    <3> QED
    BY <1>3, <3>1, Steps, FaultEffects DEF vars, connVars, Transmit, AdmitSend, RefuseSend, StoreEnvelope,
       LookUpTarget, CheckRecipient, LivePush, CutSender, DrainScope, DrainQuery,
       DrainSend, HandleAck, HandleSubscribe, RefuseSubscribe, CutRecipient, CloseRecipient,
       HandleLateAck, NoticeClose, Receive, Decrypt, Subscribe, Decide, ChangeRoster
  <2>2. DrainSend \/ UNCHANGED draining
    BY <1>3, <2>1, Steps, FaultEffects DEF vars, connVars, Transmit, AdmitSend, RefuseSend, StoreEnvelope,
       LookUpTarget, CheckRecipient, LivePush, CutSender, DrainScope, DrainQuery,
       HandleAck, HandleSubscribe, RefuseSubscribe, CutRecipient, CloseRecipient,
       HandleLateAck, NoticeClose, Receive, Decrypt, Subscribe, Decide, ChangeRoster
  <2>3. Recipient \in roster \/ ~(DrainScope \/ \E l \in Links : CheckRecipient(l))
    BY LapsedStays
  <2>4. /\ ~stuck /\ ~\E l \in Links : PushFails(l)
        /\ draining => ~DrainFails
    BY <2>1, LapsedStays DEF Registered
  <2>5. Underway(p) \/ (draining /\ ToDrain(p))  BY <1>3, <2>1 DEF ReachedInOrder, OnItsWay
  <2>6. CASE Underway(p)
    <3>1. Underway(p)' \/ (draining /\ ~DrainSend /\ In(p, buffer'))
      BY <1>3, <2>1, <2>3, <2>6, <2>4, UnderwayStep
    <3> QED  BY <2>2, <3>1 DEF ToDrain
  <2>7. CASE draining /\ ToDrain(p)
    <3>1. (~DrainSend /\ ToDrain(p)') \/ Underway(p)'
      BY <1>3, <2>1, <2>3, <2>7, <2>4, ToDrainStep
    <3> QED  BY <2>2, <2>7, <3>1
  <2> QED  BY <2>5, <2>6, <2>7
<1> QED  BY <1>1, <1>2, <1>3

\* An envelope keeps its link.
LEMMA LinkKept ==
    ASSUME Shape, [Next]_vars
    PROVE  /\ \A p \in DOMAIN seqOf : LinkOf(p)' = LinkOf(p)
           /\ \A p, q \in DOMAIN seqOf : Earlier(p, q)' <=> Earlier(p, q)
           /\ \A i \in 1 .. Len(sent) : sent'[i].link = sent[i].link
<1>1. \A p \in DOMAIN seqOf : LinkOf(p)' = LinkOf(p)
  <2> SUFFICES ASSUME NEW p \in DOMAIN seqOf PROVE LinkOf(p)' = LinkOf(p)  OBVIOUS
  <2>1. seqOf'[p] = seqOf[p] /\ seqOf[p] \in DOMAIN sent  BY SeqsKept, Domains
  <2>2. sent'[seqOf[p]] = sent[seqOf[p]]  BY <2>1, SeqsKept
  <2> QED  BY <2>1, <2>2 DEF LinkOf
<1>2. \A p, q \in DOMAIN seqOf : Earlier(p, q)' <=> Earlier(p, q)  BY <1>1 DEF Earlier
<1>3. \A i \in 1 .. Len(sent) : sent'[i].link = sent[i].link  BY SeqsKept, Domains
<1> QED  BY <1>1, <1>2, <1>3

\* A link's queue that only lost frames, maybe the first of them to the handler.
LEMMA QueueShrinks ==
    ASSUME Shape, NEW l \in Links, QueueInOrder(l), UNCHANGED <<sent, seqOf>>,
           NEW o \in Nat,
           \A i \in DOMAIN up'[l] : /\ i \in Nat \ {0} /\ i + o \in DOMAIN up[l]
                                   /\ up'[l][i] = up[l][i + o],
           \/ hand'[l] = hand[l]
           \/ o = 1 /\ 1 \in DOMAIN up[l] /\ hand'[l].id = up[l][1]
    PROVE  QueueInOrder(l)'
<1> SUFFICES ASSUME NEW i \in DOMAIN up'[l]
             PROVE  /\ sent[up'[l][i]].link = l
                    /\ \A j \in DOMAIN up'[l] : i < j => up'[l][i] < up'[l][j]
                    /\ \A p \in DOMAIN seqOf : LinkOf(p) = l => seqOf[p] < up'[l][i]
                    /\ hand'[l].at = "storing" => hand'[l].id < up'[l][i]
  BY DEF QueueInOrder, LinkOf
<1>1. i \in Nat \ {0} /\ i + o \in DOMAIN up[l] /\ up'[l][i] = up[l][i + o]  OBVIOUS
<1>2. sent[up'[l][i]].link = l  BY <1>1 DEF QueueInOrder
<1>3. \A p \in DOMAIN seqOf : LinkOf(p) = l => seqOf[p] < up'[l][i]  BY <1>1 DEF QueueInOrder
<1>4. ASSUME NEW j \in DOMAIN up'[l], i < j PROVE up'[l][i] < up'[l][j]
  <2>1. j \in Nat /\ j + o \in DOMAIN up[l] /\ up'[l][j] = up[l][j + o]  OBVIOUS
  <2>2. i + o < j + o  BY <1>1, <1>4, <2>1
  <2> QED  BY <1>1, <2>1, <2>2 DEF QueueInOrder
<1>5. ASSUME hand'[l].at = "storing" PROVE hand'[l].id < up'[l][i]
  <2>1. CASE hand'[l] = hand[l]  BY <1>1, <1>5, <2>1 DEF QueueInOrder
  <2>2. CASE o = 1 /\ 1 \in DOMAIN up[l] /\ hand'[l].id = up[l][1]
    <3>1. 1 < i + o  BY <1>1, <2>2
    <3> QED  BY <1>1, <2>2, <3>1 DEF QueueInOrder
  <2> QED  BY <2>1, <2>2
<1> QED  BY <1>2, <1>3, <1>4, <1>5

\* Frames are stored in the order of sending: the senders' steps.
LEMMA OrderTransmit ==
    ASSUME Shape, StoredInOrder, [Next]_vars,
           NEW s \in Senders, NEW msg \in 1 .. MaxSends, Transmit(s, msg)
    PROVE  StoredInOrder'
<1> DEFINE l == <<s, link[s]>>
           n == Len(sent)
<1>1. /\ n \in Nat /\ sent'[n + 1].link = l /\ l \in Links
      /\ \A k \in Links : up'[k] = IF k = l THEN Append(up[k], n + 1) ELSE up[k]
      /\ UNCHANGED <<seqOf, hand>>
  <2>1. UNCHANGED <<seqOf, hand>>  BY DEF Transmit, relayVars
  <2>2. n \in Nat  BY Domains
  <2>3. /\ sent'[Len(sent) + 1] = [msg |-> msg, link |-> <<s, link[s]>>]
        /\ <<s, link[s]>> \in Links
        /\ \A k \in Links : up'[k] = IF k = <<s, link[s]>> THEN Append(up[k], Len(sent) + 1)
                                                            ELSE up[k]
    BY ShapeTransmit
  <2> QED  BY <2>1, <2>2, <2>3
<1> HIDE DEF l
<1>2. /\ DOMAIN seqOf = 1 .. Len(seqOf) /\ \A p \in DOMAIN seqOf : seqOf[p] \in 1 .. n
      /\ \A p \in DOMAIN seqOf : LinkOf(p)' = LinkOf(p)
      /\ \A i \in 1 .. n : sent'[i].link = sent[i].link
  BY Domains, LinkKept
<1>3. StoredAscending'  BY <1>1, <1>2 DEF StoredInOrder, StoredAscending
<1>4. ASSUME NEW k \in Links PROVE HandInOrder(k)'
  <2>1. /\ hand[k].at = "storing" => hand[k].id \in 1 .. n
        /\ hand[k].at \in {"stored", "routing", "pushing"} => hand[k].seq \in DOMAIN seqOf
    BY <1>2, HandAt
  <2>2. HandInOrder(k)  BY DEF StoredInOrder
  <2>3. ASSUME hand[k].at = "storing"
        PROVE  /\ sent'[hand[k].id].link = k
               /\ \A p \in DOMAIN seqOf : LinkOf(p)' = k => seqOf[p] < hand[k].id
    BY <1>2, <2>1, <2>2, <2>3 DEF HandInOrder
  <2>4. ASSUME hand[k].at \in {"stored", "routing", "pushing"}
        PROVE  /\ LinkOf(hand[k].seq)' = k
               /\ \A p \in DOMAIN seqOf : LinkOf(p)' = k => p <= hand[k].seq
    <3>1. LinkOf(hand[k].seq) = k /\ \A p \in DOMAIN seqOf : LinkOf(p) = k => p <= hand[k].seq
      BY <2>2, <2>4 DEF HandInOrder
    <3> DEFINE x == hand[k].seq
    <3>2. x \in DOMAIN seqOf /\ x' = x  BY <1>1, <2>1, <2>4
    <3>3. LinkOf(x)' = LinkOf(x)
      <4>1. \A y \in DOMAIN seqOf : y = x => LinkOf(y)' = LinkOf(x)  BY <1>2
      <4>2. seqOf'[x] = seqOf[x] /\ sent'[seqOf[x]].link = sent[seqOf[x]].link
        BY <1>1, <1>2, <3>2
      <4> QED  BY <3>2, <4>2 DEF LinkOf
    <3> QED  BY <1>2, <3>1, <3>3
  <2> QED  BY <1>1, <2>3, <2>4 DEF HandInOrder
<1>5. ASSUME NEW k \in Links PROVE QueueInOrder(k)'
  <2>1. QueueInOrder(k) /\ up[k] \in Seq(1 .. n)  BY DEF StoredInOrder, Shape, SenderShape
  <2>2. /\ \A i \in DOMAIN up[k] : up[k][i] \in 1 .. n
        /\ DOMAIN up[k] = 1 .. Len(up[k]) /\ Len(up[k]) \in Nat
    BY <2>1, ElementOfSeq, LenProperties
  <2>3. hand[k].at = "storing" => hand[k].id \in 1 .. n  BY HandAt
  <2>4. \A i \in DOMAIN up[k] :
           /\ sent'[up[k][i]].link = k
           /\ \A p \in DOMAIN seqOf : LinkOf(p)' = k => seqOf[p] < up[k][i]
           /\ \A j \in DOMAIN up[k] : i < j => up[k][i] < up[k][j]
           /\ hand[k].at = "storing" => hand[k].id < up[k][i]
    BY <1>2, <2>1, <2>2 DEF QueueInOrder
  <2>5. CASE k # l
    <3>1. up'[k] = up[k]  BY <1>1, <2>5
    <3> QED  BY <1>1, <2>4, <3>1 DEF QueueInOrder
  <2>6. CASE k = l
    <3>1. up'[k] = Append(up[k], n + 1)  BY <1>1, <2>6
    <3> DEFINE m == Len(up[k])
               q == up'[k]
    <3>2. /\ DOMAIN q = 1 .. (m + 1) /\ m \in Nat /\ DOMAIN up[k] = 1 .. m
          /\ \A j \in DOMAIN up[k] : q[j] = up[k][j]
          /\ q[m + 1] = n + 1
      BY <2>1, <3>1, AppendProperties, LenProperties
    <3> HIDE DEF m, q
    <3>3. \A i \in DOMAIN q : i \in DOMAIN up[k] \/ i = m + 1  BY <3>2
    <3>4. \A i \in DOMAIN q : sent'[q[i]].link = k  BY <1>1, <2>4, <2>6, <3>2, <3>3
    <3>5. \A i \in DOMAIN q, p \in DOMAIN seqOf : LinkOf(p)' = k => seqOf[p] < q[i]
      <4>1. \A p \in DOMAIN seqOf : seqOf[p] < n + 1  BY <1>1, <1>2
      <4> QED  BY <2>4, <3>2, <3>3, <4>1
    <3>6. \A i \in DOMAIN q : hand[k].at = "storing" => hand[k].id < q[i]
      <4>1. hand[k].at = "storing" => hand[k].id < n + 1  BY <1>1, <2>3
      <4> QED  BY <2>4, <3>2, <3>3, <4>1
    <3>7. \A i, j \in DOMAIN q : i < j => q[i] < q[j]
      <4> SUFFICES ASSUME NEW i \in DOMAIN q, NEW j \in DOMAIN q, i < j PROVE q[i] < q[j]
        OBVIOUS
      <4>1. i \in DOMAIN up[k]  BY <3>2, <3>3
      <4>2. CASE j \in DOMAIN up[k]  BY <2>4, <3>2, <4>1, <4>2
      <4>3. CASE j = m + 1
        <5>1. up[k][i] \in 1 .. n /\ q[i] = up[k][i]  BY <2>2, <3>2, <4>1
        <5> QED  BY <1>1, <3>2, <4>3, <5>1
      <4> QED  BY <3>3, <4>2, <4>3
    <3> QED  BY <1>1, <3>4, <3>5, <3>6, <3>7 DEF QueueInOrder, q
  <2> QED  BY <2>5, <2>6
<1> QED  BY <1>3, <1>4, <1>5 DEF StoredInOrder

\* The other steps on a link's queue.
LEMMA OrderQueue ==
    ASSUME Shape, StoredInOrder, [Next]_vars, NEW l \in Links,
           AdmitSend(l) \/ RefuseSend(l) \/ CutSender(l)
    PROVE  StoredInOrder'
<1>1. UNCHANGED <<sent, seqOf>>
  BY DEF AdmitSend, RefuseSend, CutSender, relayVars
<1>2. \A k \in Links : k # l => up'[k] = up[k] /\ hand'[k] = hand[k]
  <2>1. up[l] \in Seq(1 .. Len(sent))  BY DEF Shape, SenderShape
  <2> QED
    BY <1>1, <2>1, ShapeAdmit, ShapeRefuse, ShapeCloseLink DEF RefuseSend, CutSender, relayVars
<1>3. StoredAscending'  BY <1>1 DEF StoredInOrder, StoredAscending, LinkOf
<1>4. ASSUME NEW k \in Links, k # l PROVE QueueInOrder(k)' /\ HandInOrder(k)'
  BY <1>1, <1>2, <1>4 DEF StoredInOrder, QueueInOrder, HandInOrder, LinkOf
<1>5. up[l] \in Seq(1 .. Len(sent)) /\ DOMAIN up[l] = 1 .. Len(up[l]) /\ Len(up[l]) \in Nat
  BY LenProperties DEF Shape, SenderShape
<1>6. CASE AdmitSend(l)
  <2>1. /\ up[l] # <<>> /\ up'[l] = Tail(up[l])
        /\ hand'[l] = [at |-> "storing", id |-> Head(up[l])]
    BY <1>6, ShapeAdmit
  <2>2. /\ Head(up[l]) = up[l][1] /\ 1 \in DOMAIN up[l]
        /\ \A i \in DOMAIN up'[l] : /\ i \in Nat \ {0} /\ i + 1 \in DOMAIN up[l]
                                    /\ up'[l][i] = up[l][i + 1]
    BY <2>1, FrameTaken, Zenon
  <2>3. hand'[l].at = "storing" /\ hand'[l].id = up[l][1]  BY <2>1, <2>2
  <2>4. QueueInOrder(l)'
    BY <1>1, <2>2, <2>3, QueueShrinks DEF StoredInOrder
  <2>5. HandInOrder(l)'
    BY <1>1, <2>2, <2>3 DEF StoredInOrder, QueueInOrder, HandInOrder, LinkOf
  <2> QED  BY <1>3, <1>4, <2>4, <2>5 DEF StoredInOrder
<1>7. CASE RefuseSend(l) \/ CutSender(l)
  <2>1. hand' = hand  BY <1>7 DEF RefuseSend, CutSender, relayVars
  <2>2. HandInOrder(l)'  BY <1>1, <2>1 DEF StoredInOrder, HandInOrder, LinkOf
  <2>3. \E o \in Nat : \A i \in DOMAIN up'[l] : /\ i \in Nat \ {0} /\ i + o \in DOMAIN up[l]
                                                /\ up'[l][i] = up[l][i + o]
    <3>1. ASSUME NEW q \in Seq(1 .. Len(sent)), NEW m \in 0 .. Len(q)
          PROVE  \A i \in DOMAIN SubSeq(q, 1, m) :
                    i \in Nat \ {0} /\ i \in DOMAIN q /\ SubSeq(q, 1, m)[i] = q[i]
      <4>1. Len(q) \in Nat /\ DOMAIN q = 1 .. Len(q)  BY LenProperties
      <4>2. m \in Int /\ 1 \in Int /\ \A i \in 1 .. m : q[i] \in 1 .. Len(sent)
        BY <4>1, ElementOfSeq
      <4>3. IF 1 <= m THEN m - 1 + 1 = m ELSE m = 0  BY <4>1
      <4>4. \A i \in 1 .. m : 1 + i - 1 = i  OBVIOUS
      <4>5. /\ SubSeq(q, 1, m) \in Seq(1 .. Len(sent)) /\ Len(SubSeq(q, 1, m)) = m
            /\ \A i \in 1 .. m : SubSeq(q, 1, m)[i] = q[i]
        BY <4>1, <4>2, <4>3, <4>4, SubSeqProperties
      <4>6. DOMAIN SubSeq(q, 1, m) = 1 .. m  BY <4>5, LenProperties
      <4>7. \A i \in 1 .. m : i \in Nat \ {0} /\ i \in 1 .. Len(q)  BY <4>1
      <4> QED  BY <4>1, <4>5, <4>6, <4>7
    <3>2. CASE CutSender(l)
      <4>1. PICK m \in 0 .. Len(up[l]) : up'[l] = SubSeq(up[l], 1, m)
        BY <1>1, <1>5, <3>2, ShapeCloseLink DEF CutSender
      <4>2. \A i \in DOMAIN up'[l] : i \in Nat \ {0} /\ i \in DOMAIN up[l] /\ up'[l][i] = up[l][i]
        BY <1>5, <3>1, <4>1
      <4>3. \A i \in Nat : i + 0 = i  OBVIOUS
      <4> QED  BY <4>2, <4>3
    <3>3. CASE RefuseSend(l)
      <4> DEFINE t == Tail(up[l])
      <4>1. /\ up[l] # <<>>
            /\ up'[l] = t \/ \E m \in 0 .. Len(t) : up'[l] = SubSeq(t, 1, m)
        BY <3>3, ShapeRefuse
      <4>2. /\ t \in Seq(1 .. Len(sent))
            /\ \A i \in DOMAIN t : i + 1 \in DOMAIN up[l] /\ i \in Nat \ {0}
                                   /\ t[i] = up[l][i + 1]
        BY <4>1, FrameTaken
      <4> HIDE DEF t
      <4>3. \A i \in DOMAIN up'[l] : i \in DOMAIN t /\ up'[l][i] = t[i]
        BY <3>1, <4>1, <4>2
      <4> QED  BY <4>2, <4>3, 1 \in Nat
    <3> QED  BY <1>7, <3>2, <3>3
  <2>4. QueueInOrder(l)'
    BY <1>1, <2>1, <2>3, QueueShrinks DEF StoredInOrder
  <2> QED  BY <1>3, <1>4, <2>2, <2>4 DEF StoredInOrder
<1> QED  BY <1>6, <1>7

\* The row of a stored envelope gets the next seq.
LEMMA OrderStore ==
    ASSUME Shape, StoredInOrder, [Next]_vars, NEW l \in Links, StoreEnvelope(l)
    PROVE  StoredInOrder'
<1> DEFINE N == Len(seqOf) + 1
           id == hand[l].id
<1>1. /\ Len(seqOf) \in Nat /\ DOMAIN seqOf = 1 .. Len(seqOf) /\ DOMAIN seqOf' = 1 .. N
      /\ \A p \in DOMAIN seqOf : seqOf'[p] = seqOf[p] /\ p # N
      /\ seqOf'[N] = id /\ hand[l].at = "storing"
      /\ hand'[l] = [at |-> "stored", seq |-> N]
      /\ \A k \in Links : k # l => hand'[k] = hand[k]
      /\ \A p \in DOMAIN seqOf : LinkOf(p)' = LinkOf(p)
  BY ShapeStore, Domains, LinkKept
<1>2. UNCHANGED <<sent, up>>  BY DEF StoreEnvelope, senderVars
<1>3. /\ sent[id].link = l
      /\ \A p \in DOMAIN seqOf : LinkOf(p) = l => seqOf[p] < id
      /\ \A i \in DOMAIN up[l] : id < up[l][i]
  BY <1>1 DEF StoredInOrder, HandInOrder, QueueInOrder
<1> HIDE DEF N, id
<1>4. /\ \A p \in DOMAIN seqOf' : p \in DOMAIN seqOf \/ p = N
      /\ N \in DOMAIN seqOf' /\ \A p \in DOMAIN seqOf' : p <= N
      /\ \A p \in DOMAIN seqOf : p \in DOMAIN seqOf'
  BY <1>1 DEF N
<1>5. \A p \in DOMAIN seqOf' :
         LinkOf(p)' = IF p \in DOMAIN seqOf THEN LinkOf(p) ELSE l
  <2>1. ASSUME NEW p \in DOMAIN seqOf', p \notin DOMAIN seqOf PROVE LinkOf(p)' = l
    BY <1>1, <1>2, <1>3, <1>4, <2>1 DEF LinkOf
  <2> QED  BY <1>1, <2>1
<1>6. StoredAscending'
  <2> SUFFICES ASSUME NEW p \in DOMAIN seqOf', NEW q \in DOMAIN seqOf', p < q,
                      LinkOf(p)' = LinkOf(q)'
               PROVE  seqOf'[p] < seqOf'[q]
    BY DEF StoredAscending
  <2>1. p \in DOMAIN seqOf
    <3>1. p # N
      <4>1. p \in 1 .. N /\ q \in 1 .. N /\ N \in Nat  BY <1>1 DEF N
      <4> QED  BY <4>1
    <3> QED  BY <1>4, <3>1
  <2>2. CASE q \in DOMAIN seqOf
    BY <1>1, <2>1, <2>2 DEF StoredInOrder, StoredAscending
  <2>3. CASE q \notin DOMAIN seqOf
    <3>1. q = N /\ LinkOf(p) = l  BY <1>4, <1>5, <2>1, <2>3
    <3> QED  BY <1>1, <1>3, <2>1, <3>1
  <2> QED  BY <2>2, <2>3
<1>7. ASSUME NEW k \in Links PROVE HandInOrder(k)'
  <2>1. CASE k = l
    <3>1. hand'[k].at = "stored" /\ hand'[k].seq = N  BY <1>1, <2>1
    <3>2. sent'[seqOf'[N]].link = l  BY <1>1, <1>2, <1>3
    <3> QED  BY <1>4, <2>1, <3>1, <3>2 DEF HandInOrder, LinkOf
  <2>2. CASE k # l
    <3>1. hand'[k] = hand[k] /\ HandInOrder(k)  BY <1>1, <2>2 DEF StoredInOrder
    <3>2. ASSUME hand[k].at = "storing"
          PROVE  /\ sent'[hand[k].id].link = k
                 /\ \A p \in DOMAIN seqOf' : LinkOf(p)' = k => seqOf'[p] < hand[k].id
      BY <1>1, <1>2, <1>4, <1>5, <2>2, <3>1, <3>2 DEF HandInOrder
    <3>3. ASSUME hand[k].at \in {"stored", "routing", "pushing"}
          PROVE  /\ sent'[seqOf'[hand[k].seq]].link = k
                 /\ \A p \in DOMAIN seqOf' : LinkOf(p)' = k => p <= hand[k].seq
      <4>1. hand[k].seq \in DOMAIN seqOf  BY <1>1, <3>3, HandAt
      <4>2. LinkOf(hand[k].seq) = k /\ \A p \in DOMAIN seqOf : LinkOf(p) = k => p <= hand[k].seq
        BY <3>1, <3>3 DEF HandInOrder
      <4>3. sent'[seqOf'[hand[k].seq]].link = k  BY <1>1, <1>2, <4>1, <4>2 DEF LinkOf
      <4>4. \A p \in DOMAIN seqOf' : LinkOf(p)' = k => p <= hand[k].seq
        BY <1>4, <1>5, <2>2, <4>2
      <4> QED  BY <4>3, <4>4
    <3> QED  BY <3>1, <3>2, <3>3 DEF HandInOrder, LinkOf
  <2> QED  BY <2>1, <2>2
<1>8. ASSUME NEW k \in Links PROVE QueueInOrder(k)'
  <2>1. QueueInOrder(k)  BY DEF StoredInOrder
  <2>2. ASSUME NEW i \in DOMAIN up[k], NEW p \in DOMAIN seqOf', LinkOf(p)' = k
        PROVE  seqOf'[p] < up[k][i]
    <3>1. CASE p \in DOMAIN seqOf  BY <1>1, <2>1, <2>2, <3>1 DEF QueueInOrder
    <3>2. CASE p \notin DOMAIN seqOf  BY <1>1, <1>3, <1>4, <1>5, <2>2, <3>2
    <3> QED  BY <3>1, <3>2
  <2>3. hand'[k].at = "storing" => hand'[k] = hand[k]
    <3>1. hand'[l].at # "storing"  BY <1>1
    <3> QED  BY <1>1, <3>1
  <2> QED  BY <1>2, <2>1, <2>2, <2>3 DEF QueueInOrder
<1> QED  BY <1>6, <1>7, <1>8 DEF StoredInOrder

\* The rest of the handler.
LEMMA OrderHandler ==
    ASSUME Shape, StoredInOrder, [Next]_vars, NEW l \in Links,
           LookUpTarget(l) \/ CheckRecipient(l) \/ LivePush(l)
    PROVE  StoredInOrder'
<1>1. UNCHANGED <<sent, up, seqOf>>
  BY DEF LookUpTarget, CheckRecipient, LivePush, senderVars
<1>2. \A k \in Links : k # l => hand'[k] = hand[k]  BY ShapeLookUp, ShapeCheck, ShapePush
<1>3. \/ hand'[l].at = "idle"
      \/ /\ hand'[l].at \in {"routing", "pushing"} /\ hand'[l].seq = hand[l].seq
         /\ hand[l].at \in {"stored", "routing", "pushing"}
  <2>1. CASE LookUpTarget(l)
    <3>1. /\ hand[l].at = "stored"
          /\ live # 0 => hand'[l] = [at |-> "routing", seq |-> hand[l].seq, target |-> live]
          /\ live = 0 => hand'[l] = Idle
      BY <2>1, ShapeLookUp
    <3> QED  BY <3>1 DEF Idle
  <2>2. CASE CheckRecipient(l)  BY <2>2, ShapeCheck DEF Idle
  <2>3. CASE LivePush(l)  BY <2>3, ShapePush DEF Idle
  <2> QED  BY <2>1, <2>2, <2>3
<1>4. StoredAscending'  BY <1>1 DEF StoredInOrder, StoredAscending, LinkOf
<1>5. ASSUME NEW k \in Links PROVE QueueInOrder(k)' /\ HandInOrder(k)'
  <2>1. QueueInOrder(k) /\ HandInOrder(k)  BY DEF StoredInOrder
  <2>2. CASE k # l
    BY <1>1, <1>2, <2>1, <2>2 DEF QueueInOrder, HandInOrder, LinkOf
  <2>3. CASE k = l
    BY <1>1, <1>3, <2>1, <2>3 DEF QueueInOrder, HandInOrder, LinkOf
  <2> QED  BY <2>2, <2>3
<1> QED  BY <1>4, <1>5 DEF StoredInOrder

\* A send handler that fails.
LEMMA OrderFails ==
    ASSUME Shape, StoredInOrder, [Next]_vars, NEW l \in Links, SendFails(l) \/ PushFails(l)
    PROVE  StoredInOrder'
<1>1. UNCHANGED <<sent, seqOf>>  BY DEF SendFails, PushFails, senderVars
<1>2. /\ \A k \in Links : k # l => up'[k] = up[k] /\ hand'[k] = hand[k]
      /\ \/ up[l] # <<>> /\ up'[l] = Tail(up[l]) /\ hand'[l] = hand[l]
         \/ up'[l] = up[l] /\ hand'[l] = Idle
  <2>1. CASE SendFails(l)  BY <2>1, ShapeSendFails
  <2>2. CASE PushFails(l)  BY <2>2, ShapePushFails
  <2> QED  BY <2>1, <2>2
<1>3. StoredAscending'  BY <1>1 DEF StoredInOrder, StoredAscending, LinkOf
<1>4. ASSUME NEW k \in Links, k # l PROVE QueueInOrder(k)' /\ HandInOrder(k)'
  BY <1>1, <1>2, <1>4 DEF StoredInOrder, QueueInOrder, HandInOrder, LinkOf
<1>5. CASE up[l] # <<>> /\ up'[l] = Tail(up[l]) /\ hand'[l] = hand[l]
  <2>1. \A i \in DOMAIN up'[l] : /\ i \in Nat \ {0} /\ i + 1 \in DOMAIN up[l]
                                  /\ up'[l][i] = up[l][i + 1]
    BY <1>5, FrameTaken, Zenon
  <2>2. QueueInOrder(l)'  BY <1>1, <1>5, <2>1, QueueShrinks, 1 \in Nat DEF StoredInOrder
  <2>3. HandInOrder(l)'  BY <1>1, <1>5 DEF StoredInOrder, HandInOrder, LinkOf
  <2> QED  BY <1>3, <1>4, <2>2, <2>3 DEF StoredInOrder
<1>6. CASE up'[l] = up[l] /\ hand'[l] = Idle
  <2>1. hand'[l].at = "idle"  BY <1>6 DEF Idle
  <2>2. QueueInOrder(l)' /\ HandInOrder(l)'
    BY <1>1, <1>6, <2>1 DEF StoredInOrder, QueueInOrder, HandInOrder, LinkOf
  <2> QED  BY <1>3, <1>4, <2>2 DEF StoredInOrder
<1> QED  BY <1>2, <1>5, <1>6

\* All of them.
LEMMA StoredInOrderStep == ASSUME Shape, StoredInOrder, [Next]_vars PROVE StoredInOrder'
<1>1. CASE UNCHANGED <<sent, up, hand, seqOf>>
  BY <1>1 DEF StoredInOrder, StoredAscending, QueueInOrder, HandInOrder, LinkOf
<1>2. \/ UNCHANGED <<sent, up, hand, seqOf>>
      \/ \E s \in Senders, msg \in 1 .. MaxSends : Transmit(s, msg)
      \/ \E l \in Links : \/ AdmitSend(l) \/ RefuseSend(l) \/ CutSender(l) \/ StoreEnvelope(l)
                          \/ LookUpTarget(l) \/ CheckRecipient(l) \/ LivePush(l)
                          \/ SendFails(l) \/ PushFails(l)
  BY Steps, FaultEffects DEF vars, senderVars, relayVars, Connect, DrainScope, DrainQuery,
     DrainSend, HandleAck, HandleSubscribe, RefuseSubscribe, CutRecipient, CloseRecipient,
     HandleLateAck, NoticeClose, Receive, Decrypt, Subscribe, Decide, ChangeRoster
<1> QED  BY <1>1, <1>2, OrderTransmit, OrderQueue, OrderStore, OrderHandler, OrderFails

\* What is decrypted stays among what was stored.
LEMMA TakenIsStoredStep == ASSUME Shape, TakenIsStored, [Next]_vars PROVE TakenIsStored'
<1>1. \A id : Taken(id) => \E p \in DOMAIN seqOf : id = seqOf[p]
  BY DEF Taken, TakenIsStored
<1>2. \A id : Taken(id)' => Taken(id) \/ \E p \in DOMAIN seqOf : id = seqOf[p]
  <2>1. CASE UNCHANGED decrypted  BY <2>1 DEF Taken
  <2>2. CASE ~UNCHANGED decrypted
    <3>1. inbox[1] \in DOMAIN seqOf  BY <2>2, TakenStep, ShapeDecrypt, Domains
    <3>2. \A id : Taken(id)' <=> Taken(id) \/ id = seqOf[inbox[1]]  BY <2>2, TakenStep
    <3> QED  BY <3>1, <3>2
  <2> QED  BY <2>1, <2>2
<1>3. \A id : Taken(id)' => \E p \in DOMAIN seqOf' : id = seqOf'[p]
  BY <1>1, <1>2, SeqsKept
<1>4. \A id : \A i \in DOMAIN decrypted' : id = decrypted'[i] => Taken(id)'  BY DEF Taken
<1> QED  BY <1>3, <1>4 DEF TakenIsStored

\* What was not taken up after a step was not before, nor is it what the step
\* takes up.
LEMMA NotTaken ==
    ASSUME Shape, [Next]_vars, NEW p \in DOMAIN seqOf, ~Taken(seqOf[p])'
    PROVE  ~Taken(seqOf[p]) /\ (Decrypt => p # inbox[1])
<1> DEFINE id == seqOf[p]
<1>1. seqOf'[p] = id  BY SeqsKept
<1>2. \A x : x = id => ~Taken(x)'
  <2> SUFFICES ASSUME NEW x, x = id, Taken(x)' PROVE FALSE  OBVIOUS
  <2>1. \E i \in DOMAIN decrypted' : decrypted'[i] = seqOf'[p]  BY <1>1 DEF Taken
  <2> QED  BY <2>1 DEF Taken
<1>3. ~Taken(id)
  <2>1. \A x : Taken(x) => Taken(x)'  BY TakenStep
  <2> HIDE DEF id
  <2> QED  BY <1>2, <2>1
<1>4. ASSUME Decrypt PROVE p # inbox[1]
  <2> SUFFICES ASSUME p = inbox[1] PROVE FALSE  OBVIOUS
  <2>1. ~UNCHANGED decrypted
    <3>1. decrypted' = Append(decrypted, id) /\ decrypted \in Seq(1 .. Len(sent))
      BY <1>3, <1>4, ShapeDecrypt
    <3>2. id \in 1 .. Len(sent)  BY Domains
    <3> QED  BY <3>1, <3>2, AppendProperties
  <2>2. \A x : Taken(x)' <=> Taken(x) \/ x = id  BY <2>1, TakenStep
  <2> HIDE DEF id
  <2> QED  BY <1>2, <2>2
<1> QED  BY <1>3, <1>4

\* Queue r is q with e at its end, and what that leaves ahead of each place.
Longer(q, e, r) ==
    /\ DOMAIN r = DOMAIN q \cup {Len(q) + 1}
    /\ r[Len(q) + 1] = e /\ \A i \in DOMAIN q : r[i] = q[i]
    /\ \A p : \A i \in DOMAIN q : Before(p, q, i) => Before(p, r, i)
    /\ \A p : In(p, q) => Before(p, r, Len(q) + 1)

\* So it is when e is appended.
LEMMA QueueLonger ==
    ASSUME NEW n, NEW q \in Seq(1 .. n), NEW e \in 1 .. n
    PROVE  Longer(q, e, Append(q, e))
<1> DEFINE r == Append(q, e)
<1>1. /\ DOMAIN r = 1 .. (Len(q) + 1) /\ r[Len(q) + 1] = e /\ \A i \in DOMAIN q : r[i] = q[i]
      /\ Len(q) \in Nat /\ DOMAIN q = 1 .. Len(q)
  BY Appended
<1>2. 1 .. (Len(q) + 1) = (1 .. Len(q)) \cup {Len(q) + 1}  BY <1>1
<1>3. DOMAIN r = DOMAIN q \cup {Len(q) + 1}  BY <1>1, <1>2
<1>4. ASSUME NEW p, NEW i \in DOMAIN q, Before(p, q, i) PROVE Before(p, r, i)
  BY <1>1, <1>3, <1>4 DEF Before
<1>5. ASSUME NEW p, In(p, q) PROVE Before(p, r, Len(q) + 1)
  <2>1. PICK j \in DOMAIN q : q[j] = p  BY <1>5 DEF In
  <2>2. j < Len(q) + 1  BY <1>1
  <2> QED  BY <1>1, <1>3, <2>1, <2>2 DEF Before
<1> QED  BY <1>1, <1>3, <1>4, <1>5 DEF Longer

\* Nothing is ahead of the first.
LEMMA NothingBeforeFirst == ASSUME NEW S, NEW q \in Seq(S), NEW p PROVE ~Before(p, q, 1)
<1>1. DOMAIN q = 1 .. Len(q)  BY LenProperties
<1> QED  BY <1>1 DEF Before

\* What is ahead of a place in a queue r that lost its first.
LEMMA QueueShorter ==
    ASSUME NEW n, NEW q \in Seq(1 .. n), q # <<>>, NEW r, r = Tail(q)
    PROVE  \A p : \A i \in DOMAIN r : p # q[1] /\ Before(p, q, i + 1) => Before(p, r, i)
<1> SUFFICES ASSUME NEW p, NEW i \in DOMAIN r, p # q[1], Before(p, q, i + 1)
             PROVE  Before(p, r, i)
  OBVIOUS
<1>1. /\ DOMAIN r = 1 .. (Len(q) - 1) /\ Len(q) \in Nat /\ DOMAIN q = 1 .. Len(q)
      /\ \A j \in DOMAIN q : j # 1 => j - 1 \in DOMAIN r /\ r[j - 1] = q[j]
  BY QueueTaken
<1>2. PICK j \in DOMAIN q : j < i + 1 /\ q[j] = p  BY DEF Before
<1>3. j # 1  BY <1>2
<1>4. j - 1 < i  BY <1>1, <1>2
<1> QED  BY <1>1, <1>2, <1>3, <1>4 DEF Before

\* What is ahead of others stays so, as long as the connection is open.
LEMMA AheadKept ==
    ASSUME Shape, [Next]_vars, NEW p, Decrypt => p # inbox[1], ~DecryptFails
    PROVE  /\ In(p, inbox) => In(p, inbox')
           /\ In(p, down) => \/ In(p, inbox') \/ In(p, down')
                             \/ RefuseSubscribe \/ CutRecipient
<1>0. /\ down \in Seq(1 .. Len(seqOf)) /\ inbox \in Seq(1 .. Len(seqOf))
  BY DEF Shape, FlowShape
<1>q. /\ \A x : \A e \in 1 .. Len(seqOf) : In(x, Append(down, e)) <=> In(x, down) \/ x = e
      /\ \A x : \A e \in 1 .. Len(seqOf) : In(x, Append(inbox, e)) <=> In(x, inbox) \/ x = e
      /\ down # <<>> => \A x : In(x, down) <=> In(x, Tail(down)) \/ x = down[1]
      /\ inbox # <<>> => \A x : In(x, inbox) <=> In(x, Tail(inbox)) \/ x = inbox[1]
  BY <1>0, InQueue, Zenon
<1>1. CASE Receive
  <2>1. /\ down # <<>> /\ down' = Tail(down)
        /\ down[1] \in 1 .. Len(seqOf) /\ inbox' = Append(inbox, down[1])
    BY <1>1, ShapeReceive
  <2> QED  BY <1>q, <2>1, Zenon
<1>2. CASE Decrypt
  <2>1. inbox # <<>> /\ inbox' = Tail(inbox) /\ down' = down  BY <1>2, ShapeDecrypt DEF Decrypt
  <2> QED  BY <1>2, <1>q, <2>1, Zenon
<1>3. CASE \E l \in Links : LivePush(l)
  <2>1. PICK l \in Links : LivePush(l)  BY <1>3
  <2>2. /\ hand[l].seq \in 1 .. Len(seqOf)
        /\ down' = down \/ down' = Append(down, hand[l].seq)
    BY <2>1, ShapePush
  <2>3. inbox' = inbox  BY <2>1 DEF LivePush, clientVars
  <2>4. In(p, down) => In(p, down')
    <3> DEFINE e == hand[l].seq
    <3>1. e \in 1 .. Len(seqOf) /\ (down' = down \/ down' = Append(down, e))  BY <2>2
    <3> HIDE DEF e
    <3>2. In(p, down) => In(p, Append(down, e))  BY <1>q, <3>1
    <3> QED  BY <3>1, <3>2
  <2> QED  BY <2>3, <2>4
<1>4. CASE DrainSend
  <2>1. inbox' = inbox  BY <1>4 DEF DrainSend, clientVars
  <2>2. ASSUME In(p, down) PROVE In(p, down')
    <3>1. PICK i \in DOMAIN down : down[i] = p  BY <2>2 DEF In
    <3>2. i \in DOMAIN down' /\ down'[i] = p  BY <1>4, <3>1, ShapeDrain
    <3> QED  BY <3>2 DEF In
  <2> QED  BY <2>1, <2>2
<1>5. CASE RefuseSubscribe \/ CutRecipient
  <2>1. inbox' = inbox  BY <1>5 DEF RefuseSubscribe, CutRecipient, CloseRecipient, clientVars
  <2> QED  BY <1>5, <2>1
<1>6. CASE ~(Receive \/ Decrypt \/ DrainSend \/ RefuseSubscribe \/ CutRecipient
             \/ \E l \in Links : LivePush(l))
  <2>1. UNCHANGED <<inbox, down>>
    BY <1>6, Steps, FaultEffects DEF vars, clientVars, Transmit, AdmitSend, RefuseSend, StoreEnvelope,
       LookUpTarget, CheckRecipient, CutSender, Connect, DrainScope, DrainQuery,
       HandleAck, HandleSubscribe, HandleLateAck, NoticeClose, Subscribe, Decide, ChangeRoster
  <2> QED  BY <2>1
<1> QED  BY <1>1, <1>2, <1>3, <1>4, <1>5, <1>6

\* The order after a step, in terms of the links before it.
LEMMA FlowPrimed ==
    ASSUME Shape, Shape', [Next]_vars, NEW p \in DOMAIN seqOf
    PROVE  /\ (\A i \in DOMAIN inbox', q \in DOMAIN seqOf :
                  inbox'[i] = q /\ Earlier(p, q) => Before(p, inbox', i)) => InboxInOrder(p)'
           /\ (\A i \in DOMAIN down', q \in DOMAIN seqOf :
                  down'[i] = q /\ Earlier(p, q) => In(p, inbox') \/ Before(p, down', i))
                => DownInOrder(p)'
           /\ (\A q \in scanned' : q \in DOMAIN seqOf /\ Earlier(p, q) =>
                  In(p, inbox') \/ In(p, down') \/ p \in scanned') => ScanInOrder(p)'
           /\ (\A i \in DOMAIN buffer', q \in DOMAIN seqOf :
                  buffer'[i] = q /\ Earlier(p, q) =>
                     \/ In(p, inbox') \/ In(p, down') \/ p \in scanned'
                     \/ Pending' \/ Before(p, buffer', i)) => BufferInOrder(p)'
<1>1. /\ inbox' \in Seq(1 .. Len(seqOf)) /\ down' \in Seq(1 .. Len(seqOf))
      /\ buffer' \in Seq(1 .. Len(seqOf)) /\ scanned' \subseteq 1 .. Len(seqOf)
  <2>1. CASE \E l \in Links : StoreEnvelope(l)
    <3>1. UNCHANGED <<inbox, down, buffer, scanned>>
      BY <2>1 DEF StoreEnvelope, connVars, clientVars
    <3> QED  BY <3>1 DEF Shape, FlowShape
  <2>2. CASE ~\E l \in Links : StoreEnvelope(l)
    <3>1. UNCHANGED seqOf
      BY <2>2, Steps, FaultEffects DEF vars, relayVars, Transmit, AdmitSend, RefuseSend,
         LookUpTarget, CheckRecipient, LivePush, CutSender, Connect, DrainScope, DrainQuery,
         DrainSend, HandleAck, HandleSubscribe, RefuseSubscribe, CutRecipient, CloseRecipient,
         HandleLateAck, NoticeClose, Receive, Decrypt, Subscribe, Decide, ChangeRoster
    <3> QED  BY <3>1 DEF Shape, FlowShape
  <2> QED  BY <2>1, <2>2
<1>2. /\ \A i \in DOMAIN inbox' : inbox'[i] \in DOMAIN seqOf
      /\ \A i \in DOMAIN down' : down'[i] \in DOMAIN seqOf
      /\ \A i \in DOMAIN buffer' : buffer'[i] \in DOMAIN seqOf
      /\ scanned' \subseteq DOMAIN seqOf
  BY <1>1, Domains, ElementOfSeq, LenProperties
<1>3. \A q \in DOMAIN seqOf : sent'[seqOf'[q]].link = sent[seqOf[q]].link
  <2>1. \A q \in DOMAIN seqOf : LinkOf(q)' = LinkOf(q)  BY LinkKept
  <2> QED  BY <2>1 DEF LinkOf
<1>4. (\A i \in DOMAIN inbox', q \in DOMAIN seqOf :
          inbox'[i] = q /\ Earlier(p, q) => Before(p, inbox', i)) => InboxInOrder(p)'
  BY <1>2, <1>3 DEF InboxInOrder, Earlier, LinkOf
<1>5. (\A i \in DOMAIN down', q \in DOMAIN seqOf :
          down'[i] = q /\ Earlier(p, q) => In(p, inbox') \/ Before(p, down', i))
        => DownInOrder(p)'
  BY <1>2, <1>3 DEF DownInOrder, Earlier, LinkOf
<1>6. (\A q \in scanned' : q \in DOMAIN seqOf /\ Earlier(p, q) =>
          In(p, inbox') \/ In(p, down') \/ p \in scanned') => ScanInOrder(p)'
  BY <1>2, <1>3 DEF ScanInOrder, Earlier, LinkOf
<1>7. (\A i \in DOMAIN buffer', q \in DOMAIN seqOf :
          buffer'[i] = q /\ Earlier(p, q) =>
             \/ In(p, inbox') \/ In(p, down') \/ p \in scanned'
             \/ Pending' \/ Before(p, buffer', i)) => BufferInOrder(p)'
  BY <1>2, <1>3 DEF BufferInOrder, Earlier, LinkOf
<1> QED  BY <1>4, <1>5, <1>6, <1>7

\* The client's inbox.
LEMMA InboxStep ==
    ASSUME Shape, Shape', [Next]_vars, NEW p \in DOMAIN seqOf, ~Taken(seqOf[p])',
           InboxInOrder(p), DownInOrder(p), ~DecryptFails
    PROVE  InboxInOrder(p)'
<1> SUFFICES ASSUME NEW i \in DOMAIN inbox', NEW q \in DOMAIN seqOf, inbox'[i] = q, Earlier(p, q)
             PROVE  Before(p, inbox', i)
  BY FlowPrimed
<1>0. down \in Seq(1 .. Len(seqOf)) /\ inbox \in Seq(1 .. Len(seqOf))
  BY DEF Shape, FlowShape
<1>1. CASE Receive
  <2> DEFINE e == down[1]
  <2>1. down # <<>> /\ e \in 1 .. Len(seqOf) /\ inbox' = Append(inbox, e) /\ 1 \in DOMAIN down
    BY <1>0, <1>1, ShapeReceive, QueueTaken
  <2>2. /\ DOMAIN inbox' = DOMAIN inbox \cup {Len(inbox) + 1}
        /\ inbox'[Len(inbox) + 1] = e /\ \A k \in DOMAIN inbox : inbox'[k] = inbox[k]
        /\ \A k \in DOMAIN inbox : Before(p, inbox, k) => Before(p, inbox', k)
        /\ In(p, inbox) => Before(p, inbox', Len(inbox) + 1)
        /\ ~Before(p, down, 1)
    <3> HIDE DEF e
    <3>1. e \in 1 .. Len(seqOf) /\ inbox' = Append(inbox, e)  BY <2>1
    <3>2. /\ DOMAIN inbox' = DOMAIN inbox \cup {Len(inbox) + 1}
          /\ inbox'[Len(inbox) + 1] = e /\ \A k \in DOMAIN inbox : inbox'[k] = inbox[k]
          /\ \A x : \A k \in DOMAIN inbox : Before(x, inbox, k) => Before(x, inbox', k)
          /\ \A x : In(x, inbox) => Before(x, inbox', Len(inbox) + 1)
      <4>1. Longer(inbox, e, Append(inbox, e))  BY <1>0, <3>1, QueueLonger
      <4>2. Longer(inbox, e, inbox')  BY <3>1, <4>1, Zenon
      <4> QED  BY <4>2 DEF Longer
    <3>3. ~Before(p, down, 1)  BY <1>0, NothingBeforeFirst
    <3> QED  BY <3>2, <3>3
  <2>3. CASE i \in DOMAIN inbox  BY <2>2, <2>3 DEF InboxInOrder
  <2>4. CASE i = Len(inbox) + 1
    <3>1. Earlier(p, down[1])  BY <2>2, <2>4
    <3>2. In(p, inbox)  BY <2>1, <2>2, <3>1 DEF DownInOrder
    <3> QED  BY <2>2, <2>4, <3>2
  <2> QED  BY <2>2, <2>3, <2>4
<1>2. CASE Decrypt
  <2>1. inbox # <<>> /\ inbox' = Tail(inbox) /\ p # inbox[1]
    BY <1>2, ShapeDecrypt, NotTaken
  <2>2. i + 1 \in DOMAIN inbox /\ inbox[i + 1] = q  BY <1>0, <2>1, QueueTaken
  <2>3. Before(p, inbox, i + 1)  BY <2>2 DEF InboxInOrder
  <2>4. \A x : \A k \in DOMAIN inbox' :
           x # inbox[1] /\ Before(x, inbox, k + 1) => Before(x, inbox', k)
    BY <1>0, <2>1, QueueShorter
  <2>5. i \in DOMAIN inbox' /\ p # inbox[1]  BY <2>1
  <2> QED  BY <2>3, <2>4, <2>5, Zenon
<1>3. CASE ~Receive /\ ~Decrypt
  <2>1. UNCHANGED inbox
    BY <1>3, Steps, FaultEffects DEF vars, clientVars, Transmit, AdmitSend, RefuseSend, StoreEnvelope,
       LookUpTarget, CheckRecipient, LivePush, CutSender, Connect, DrainScope, DrainQuery,
       DrainSend, HandleAck, HandleSubscribe, RefuseSubscribe, CutRecipient, CloseRecipient,
       HandleLateAck, NoticeClose, Subscribe, Decide, ChangeRoster
  <2> QED  BY <2>1 DEF InboxInOrder
<1> QED  BY <1>1, <1>2, <1>3

\* A push to the open connection: the earlier envelopes of its link are past the
\* handler, which has at most one.
LEMMA PushedIsNext ==
    ASSUME Shape, Registered, StoredInOrder, ReachedInOrder, ~lapsed, NEW p \in DOMAIN seqOf,
           ~Taken(seqOf[p]), NEW l \in Links, LivePush(l), online, Earlier(p, hand[l].seq)
    PROVE  In(p, inbox) \/ In(p, down) \/ (draining /\ ToDrain(p))
<1>1. Underway(p) \/ (draining /\ ToDrain(p))  BY DEF ReachedInOrder, OnItsWay
<1>2. ~Held(p)
  <2> SUFFICES ASSUME Held(p) PROVE FALSE  OBVIOUS
  <2>1. PICK k \in Links : hand[k].at \in {"stored", "routing", "pushing"} /\ hand[k].seq = p
    BY DEF Held
  <2>2. LinkOf(p) = k  BY <2>1 DEF StoredInOrder, HandInOrder
  <2>3. hand[l].at = "pushing"  BY DEF LivePush
  <2>4. LinkOf(hand[l].seq) = l  BY <2>3 DEF StoredInOrder, HandInOrder
  <2>5. k = l  BY <2>2, <2>4 DEF Earlier
  <2>6. p < p  BY <2>1, <2>5 DEF Earlier
  <2>7. p \in Nat  BY Domains
  <2> QED  BY <2>6, <2>7
<1>3. failed = {}  BY DEF Registered
<1> QED  BY <1>1, <1>2, <1>3 DEF Underway

\* What is under way to the client.
LEMMA DownStep ==
    ASSUME Shape, Shape', [Next]_vars, NEW p \in DOMAIN seqOf, ~Taken(seqOf[p])',
           Registered, StoredInOrder, ReachedInOrder, ~lapsed, ~DecryptFails,
           DownInOrder(p), ScanInOrder(p), BufferInOrder(p)
    PROVE  DownInOrder(p)'
<1> SUFFICES ASSUME NEW i \in DOMAIN down', NEW q \in DOMAIN seqOf, down'[i] = q, Earlier(p, q)
             PROVE  In(p, inbox') \/ Before(p, down', i)
  BY FlowPrimed
<1>0. /\ down \in Seq(1 .. Len(seqOf)) /\ inbox \in Seq(1 .. Len(seqOf))
      /\ Len(seqOf) \in Nat /\ scanned \in SUBSET (1 .. Len(seqOf))
  BY Domains DEF Shape, FlowShape
<1>a. ~Taken(seqOf[p]) /\ (In(p, inbox) => In(p, inbox'))  BY NotTaken, AheadKept
<1>1. CASE Receive
  <2>1. /\ down # <<>> /\ down' = Tail(down)
        /\ down[1] \in 1 .. Len(seqOf) /\ inbox' = Append(inbox, down[1])
    BY <1>1, ShapeReceive
  <2>2. i + 1 \in DOMAIN down /\ down[i + 1] = q  BY <1>0, <2>1, QueueTaken
  <2>3. In(p, inbox) \/ Before(p, down, i + 1)  BY <2>2 DEF DownInOrder
  <2>4. \A x : \A k \in DOMAIN down' :
           x # down[1] /\ Before(x, down, k + 1) => Before(x, down', k)
    BY <1>0, <2>1, QueueShorter
  <2>5. p = down[1] => In(p, inbox')
    <3>1. \A x : \A e \in 1 .. Len(seqOf) : In(x, Append(inbox, e)) <=> In(x, inbox) \/ x = e
      BY <1>0, InQueue, Zenon
    <3> QED  BY <2>1, <3>1, Zenon
  <2>6. i \in DOMAIN down'  OBVIOUS
  <2> QED  BY <1>a, <2>3, <2>4, <2>5, <2>6, Zenon
<1>2. CASE \E l \in Links : LivePush(l)
  <2>1. PICK l \in Links : LivePush(l)  BY <1>2
  <2> DEFINE e == hand[l].seq
  <2>2. /\ e \in 1 .. Len(seqOf)
        /\ \/ down' = down
           \/ online /\ ~draining /\ down' = Append(down, e)
    BY <2>1, ShapePush
  <2>3. CASE down' = down  BY <1>a, <2>3 DEF DownInOrder
  <2>4. CASE online /\ ~draining /\ down' = Append(down, e)
    <3>1. Earlier(p, e) => In(p, inbox) \/ In(p, down)
      BY <1>a, <2>1, <2>4, PushedIsNext
    <3> HIDE DEF e
    <3>2. e \in 1 .. Len(seqOf) /\ down' = Append(down, e)  BY <2>2, <2>4
    <3>3. /\ DOMAIN down' = DOMAIN down \cup {Len(down) + 1}
          /\ down'[Len(down) + 1] = e /\ \A k \in DOMAIN down : down'[k] = down[k]
          /\ \A x : \A k \in DOMAIN down : Before(x, down, k) => Before(x, down', k)
          /\ \A x : In(x, down) => Before(x, down', Len(down) + 1)
      <4>1. Longer(down, e, Append(down, e))  BY <1>0, <3>2, QueueLonger
      <4>2. Longer(down, e, down')  BY <3>2, <4>1, Zenon
      <4> QED  BY <4>2 DEF Longer
    <3>4. CASE i \in DOMAIN down
      <4>1. down[i] = q  BY <3>3, <3>4
      <4>2. In(p, inbox) \/ Before(p, down, i)  BY <3>4, <4>1 DEF DownInOrder
      <4> QED  BY <1>a, <3>3, <3>4, <4>2, Zenon
    <3>5. CASE i = Len(down) + 1
      <4>1. q = e  BY <3>3, <3>5
      <4> QED  BY <1>a, <3>1, <3>3, <3>5, <4>1
    <3> QED  BY <3>3, <3>4, <3>5
  <2> QED  BY <2>2, <2>3, <2>4
<1>3. CASE DrainSend
  <2> DEFINE b == BySeq(scanned)
             d == Len(down)
             m == Len(b)
  <2>1. /\ d \in Nat /\ m \in Nat /\ Len(buffer) \in Nat
        /\ DOMAIN down = 1 .. d /\ DOMAIN b = 1 .. m /\ DOMAIN buffer = 1 .. Len(buffer)
        /\ DOMAIN down' = 1 .. (d + m + Len(buffer))
        /\ \A k \in DOMAIN down : down'[k] = down[k]
        /\ \A k \in DOMAIN b : down'[d + k] = b[k]
        /\ \A k \in DOMAIN buffer : down'[d + m + k] = buffer[k]
    <3>1. ~stuck  BY DEF Registered
    <3> QED  BY <1>3, <3>1, ShapeDrain
  <2>2. /\ \A j, k \in DOMAIN b : b[j] < b[k] => j < k
        /\ \A x \in scanned : \E k \in DOMAIN b : b[k] = x
        /\ b \in Seq(scanned)
    BY <1>0, Sorted
  <2>3. ~Pending  BY <1>3 DEF DrainSend, Pending
  <2> HIDE DEF b, d, m
  <2>4. i \in 1 .. (d + m + Len(buffer))  BY <2>1
  <2>5. CASE i \in DOMAIN down
    <3>1. In(p, inbox) \/ Before(p, down, i)  BY <2>1, <2>5 DEF DownInOrder
    <3>2. \A k \in DOMAIN down : k \in DOMAIN down'  BY <2>1
    <3> QED  BY <1>a, <2>1, <3>1, <3>2 DEF Before
  <2>6. ASSUME In(p, down), i > d PROVE Before(p, down', i)
    <3>1. PICK k \in DOMAIN down : down[k] = p  BY <2>6 DEF In
    <3>2. k < i /\ k \in DOMAIN down'  BY <2>1, <2>4, <2>6
    <3> QED  BY <2>1, <3>1, <3>2 DEF Before
  <2>7. CASE i > d /\ i - d \in DOMAIN b
    <3>1. b[i - d] = q
      <4>1. down'[d + (i - d)] = b[i - d] /\ d + (i - d) = i  BY <2>1, <2>4, <2>7
      <4> QED  BY <4>1
    <3>2. q \in scanned  BY <2>2, <2>7, <3>1, ElementOfSeq, LenProperties
    <3>3. In(p, inbox) \/ In(p, down) \/ p \in scanned  BY <3>2 DEF ScanInOrder
    <3>4. ASSUME p \in scanned PROVE Before(p, down', i)
      <4>1. PICK k \in DOMAIN b : b[k] = p  BY <2>2, <3>4
      <4>2. k < i - d  BY <2>2, <2>7, <3>1, <4>1 DEF Earlier
      <4>3. d + k < i /\ d + k \in DOMAIN down'  BY <2>1, <2>4, <4>1, <4>2
      <4> QED  BY <2>1, <4>1, <4>3 DEF Before
    <3> QED  BY <1>a, <2>6, <2>7, <3>3, <3>4
  <2>8. CASE i > d + m /\ i - d - m \in DOMAIN buffer
    <3> DEFINE k == i - d - m
    <3>1. buffer[k] = q /\ i > d
      <4>1. down'[d + m + k] = buffer[k] /\ d + m + k = i  BY <2>1, <2>4, <2>8
      <4> QED  BY <2>1, <2>8, <4>1
    <3>2. In(p, inbox) \/ In(p, down) \/ p \in scanned \/ Before(p, buffer, k)
      BY <2>3, <2>8, <3>1 DEF BufferInOrder
    <3>3. ASSUME p \in scanned PROVE Before(p, down', i)
      <4>1. PICK j \in DOMAIN b : b[j] = p  BY <2>2, <3>3
      <4>2. d + j < i /\ d + j \in DOMAIN down'  BY <2>1, <2>4, <2>8, <4>1
      <4> QED  BY <2>1, <4>1, <4>2 DEF Before
    <3>4. ASSUME Before(p, buffer, k) PROVE Before(p, down', i)
      <4>1. PICK j \in DOMAIN buffer : j < k /\ buffer[j] = p  BY <3>4 DEF Before
      <4>2. d + m + j < i /\ d + m + j \in DOMAIN down'  BY <2>1, <2>4, <2>8, <4>1
      <4> QED  BY <2>1, <4>1, <4>2 DEF Before
    <3> QED  BY <1>a, <2>6, <3>1, <3>2, <3>3, <3>4
  <2>9. \/ i \in DOMAIN down
        \/ i > d /\ i - d \in DOMAIN b
        \/ i > d + m /\ i - d - m \in DOMAIN buffer
    BY <2>1, <2>4
  <2> QED  BY <2>5, <2>7, <2>8, <2>9
<1>4. CASE RefuseSubscribe \/ CutRecipient
  <2>1. down' = <<>>  BY <1>4 DEF RefuseSubscribe, CutRecipient, CloseRecipient
  <2>2. DOMAIN down' = {}  BY <2>1
  <2> QED  BY <2>2
<1>5. CASE ~(Receive \/ DrainSend \/ RefuseSubscribe \/ CutRecipient
             \/ \E l \in Links : LivePush(l))
  <2>1. UNCHANGED down
    BY <1>5, Steps, FaultEffects DEF vars, Transmit, AdmitSend, RefuseSend, StoreEnvelope,
       LookUpTarget, CheckRecipient, CutSender, Connect, DrainScope, DrainQuery,
       HandleAck, HandleSubscribe, HandleLateAck, NoticeClose, Decrypt, Subscribe, Decide,
       ChangeRoster
  <2> QED  BY <1>a, <2>1 DEF DownInOrder
<1> QED  BY <1>1, <1>2, <1>3, <1>4, <1>5

\* What the drain is about to send.
LEMMA ScanStep ==
    ASSUME Shape, Shape', [Next]_vars, NEW p \in DOMAIN seqOf, ~Taken(seqOf[p])',
           DecidedIsTaken, DeletedOnlyIfHandled, ScanInOrder(p), ~DecryptFails
    PROVE  ScanInOrder(p)'
<1> SUFFICES ASSUME NEW q \in scanned', q \in DOMAIN seqOf, Earlier(p, q)
             PROVE  In(p, inbox') \/ In(p, down') \/ p \in scanned'
  BY FlowPrimed
<1>1. ~Taken(seqOf[p]) /\ (Decrypt => p # inbox[1])  BY NotTaken
<1>2. CASE DrainQuery
  <2>1. p \in rows  BY <1>1 DEF DecidedIsTaken, DeletedOnlyIfHandled
  <2> QED  BY <1>2, <2>1 DEF DrainQuery
<1>3. CASE DrainSend \/ Connect \/ RefuseSubscribe \/ CutRecipient
  <2>1. scanned' = {}
    BY <1>3 DEF DrainSend, Connect, RefuseSubscribe, CutRecipient, CloseRecipient
  <2> QED  BY <2>1
<1>4. CASE ~(DrainQuery \/ DrainSend \/ Connect \/ RefuseSubscribe \/ CutRecipient)
  <2>1. UNCHANGED scanned
    BY <1>4, Steps, FaultEffects DEF vars, connVars, Transmit, AdmitSend, RefuseSend, StoreEnvelope,
       LookUpTarget, CheckRecipient, LivePush, CutSender, DrainScope, HandleAck,
       HandleSubscribe, HandleLateAck, NoticeClose, Receive, Decrypt, Subscribe, Decide,
       ChangeRoster
  <2>2. In(p, inbox) \/ In(p, down) \/ p \in scanned  BY <2>1 DEF ScanInOrder
  <2>3. /\ In(p, inbox) => In(p, inbox')
        /\ In(p, down) => In(p, inbox') \/ In(p, down')
    BY <1>1, <1>4, AheadKept
  <2> QED  BY <2>1, <2>2, <2>3
<1> QED  BY <1>2, <1>3, <1>4

\* What is held back for the end of the drain.
LEMMA BufferStep ==
    ASSUME Shape, Shape', [Next]_vars, NEW p \in DOMAIN seqOf, ~Taken(seqOf[p])', ~lapsed',
           Registered, DecidedIsTaken, DeletedOnlyIfHandled, StoredInOrder, ReachedInOrder,
           BufferInOrder(p)
    PROVE  BufferInOrder(p)'
<1> SUFFICES ASSUME NEW i \in DOMAIN buffer', NEW q \in DOMAIN seqOf, buffer'[i] = q,
                    Earlier(p, q)
             PROVE  \/ In(p, inbox') \/ In(p, down') \/ p \in scanned'
                    \/ Pending' \/ Before(p, buffer', i)
  BY FlowPrimed
<1>1. ~Taken(seqOf[p]) /\ (Decrypt => p # inbox[1])  BY NotTaken
<1>2. ~lapsed /\ ~DecryptFails /\ (DrainScope => Recipient \in roster)  BY LapsedStays
<1>3. buffer \in Seq(1 .. Len(seqOf))  BY DEF Shape, FlowShape
<1>4. CASE \E l \in Links : LivePush(l)
  <2>1. PICK l \in Links : LivePush(l)  BY <1>4
  <2>2. UNCHANGED <<stage, scanned, inbox, draining>>  BY <2>1 DEF LivePush, clientVars
  <2>3. /\ In(p, inbox) => In(p, inbox')
        /\ In(p, down) => In(p, inbox') \/ In(p, down')
        /\ p \in scanned => p \in scanned'
        /\ Pending => Pending'
    <3>1. In(p, down) => In(p, inbox') \/ In(p, down') \/ RefuseSubscribe \/ CutRecipient
      BY <1>1, <1>2, AheadKept
    <3>2. ~RefuseSubscribe /\ ~CutRecipient
      <4>1. hand' = hand => hand[l] = Idle  BY <2>1, ShapePush
      <4>2. hand[l].at = "pushing"  BY <2>1 DEF LivePush
      <4>3. hand' # hand  BY <4>1, <4>2 DEF Idle
      <4> QED
        BY <4>3 DEF RefuseSubscribe, CutRecipient, CloseRecipient, relayVars
    <3> QED  BY <2>2, <3>1, <3>2 DEF Pending
  <2> DEFINE e == hand[l].seq
  <2>4. /\ e \in 1 .. Len(seqOf)
        /\ buffer' = buffer \/ (online /\ draining /\ buffer' = Append(buffer, e))
    BY <2>1, ShapePush
  <2>5. CASE buffer' = buffer  BY <2>3, <2>5 DEF BufferInOrder
  <2>6. CASE online /\ draining /\ buffer' = Append(buffer, e)
    <3>1. Earlier(p, e) => \/ In(p, inbox) \/ In(p, down) \/ Pending
                           \/ p \in scanned \/ In(p, buffer)
      BY <1>1, <1>2, <2>1, <2>6, PushedIsNext DEF ToDrain
    <3> HIDE DEF e
    <3>2. e \in 1 .. Len(seqOf) /\ buffer' = Append(buffer, e)  BY <2>4, <2>6
    <3>3. Longer(buffer, e, Append(buffer, e))  BY <1>3, <3>2, QueueLonger
    <3>4. Longer(buffer, e, buffer')  BY <3>2, <3>3, Zenon
    <3>5. CASE i \in DOMAIN buffer
      <4>1. buffer[i] = q  BY <3>4, <3>5 DEF Longer
      <4>2. \/ In(p, inbox) \/ In(p, down) \/ p \in scanned
            \/ Pending \/ Before(p, buffer, i)
        BY <3>5, <4>1 DEF BufferInOrder
      <4>3. Before(p, buffer, i) => Before(p, buffer', i)  BY <3>4, <3>5 DEF Longer
      <4> QED  BY <2>3, <4>2, <4>3
    <3>6. CASE i = Len(buffer) + 1
      <4>1. q = e  BY <3>4, <3>6 DEF Longer
      <4>2. In(p, buffer) => Before(p, buffer', i)  BY <3>4, <3>6 DEF Longer
      <4> QED  BY <2>3, <3>1, <4>1, <4>2
    <3>7. i \in DOMAIN buffer \/ i = Len(buffer) + 1  BY <3>4 DEF Longer
    <3> QED  BY <3>5, <3>6, <3>7
  <2> QED  BY <2>4, <2>5, <2>6
<1>5. CASE DrainScope
  <2>1. Pending'  BY <1>2, <1>5 DEF DrainScope, Pending
  <2> QED  BY <2>1
<1>6. CASE HandleSubscribe
  <2>1. Pending'  BY <1>6 DEF HandleSubscribe, Pending
  <2> QED  BY <2>1
<1>7. CASE DrainQuery
  <2>1. p \in rows  BY <1>1 DEF DecidedIsTaken, DeletedOnlyIfHandled
  <2> QED  BY <1>7, <2>1 DEF DrainQuery
<1>8. CASE DrainSend \/ Connect \/ RefuseSubscribe \/ CutRecipient
  <2>1. buffer' = <<>>
    BY <1>2, <1>8 DEF DrainSend, Connect, RefuseSubscribe, CutRecipient, CloseRecipient,
       Registered
  <2>2. DOMAIN buffer' = {}  BY <2>1
  <2> QED  BY <2>2
<1>9. CASE DrainFails
  <2>1. ~draining  BY <1>9, LapsedStays
  <2>2. buffer' = <<>>  BY <1>9, <2>1 DEF DrainFails, Registered
  <2>3. DOMAIN buffer' = {}  BY <2>2
  <2> QED  BY <2>3
<1>10. CASE ~(DrainFails \/ DrainScope \/ HandleSubscribe \/ DrainQuery \/ DrainSend \/ Connect
             \/ RefuseSubscribe \/ CutRecipient \/ \E l \in Links : LivePush(l))
  <2>1. UNCHANGED <<stage, scanned, buffer>>
    BY <1>10, Steps, FaultEffects DEF vars, connVars, Transmit, AdmitSend, RefuseSend, StoreEnvelope,
       LookUpTarget, CheckRecipient, CutSender, HandleAck, HandleLateAck, NoticeClose,
       Receive, Decrypt, Subscribe, Decide, ChangeRoster
  <2>2. /\ In(p, inbox) => In(p, inbox')
        /\ In(p, down) => In(p, inbox') \/ In(p, down')
    BY <1>1, <1>2, <1>10, AheadKept
  <2> QED  BY <2>1, <2>2 DEF BufferInOrder, Pending
<1> QED  BY <1>4, <1>5, <1>6, <1>7, <1>8, <1>10, <1>9

\* What is taken up.
LEMMA TakenOrderStep ==
    ASSUME Shape, [Next]_vars, NEW p \in DOMAIN seqOf, ~Taken(seqOf[p])',
           StoredInOrder, TakenIsStored, InboxInOrder(p), TakenInOrder(p)
    PROVE  TakenInOrder(p)'
<1>1. ~Taken(seqOf[p]) /\ (Decrypt => p # inbox[1])  BY NotTaken
<1>2. ASSUME NEW q \in DOMAIN seqOf, Earlier(p, q) PROVE \A id : id = seqOf[q] => ~Taken(id)'
  <2> SUFFICES ASSUME NEW id, id = seqOf[q], Taken(id)' PROVE FALSE  OBVIOUS
  <2> DEFINE h == inbox[1]
  <2>1. ~Taken(id)  BY <1>2 DEF TakenInOrder
  <2>2. Decrypt /\ id = seqOf[h]
    <3>1. CASE UNCHANGED decrypted  BY <2>1, <3>1 DEF Taken
    <3>2. CASE ~UNCHANGED decrypted  BY <2>1, <3>2, TakenStep
    <3> QED  BY <3>1, <3>2
  <2>3. inbox # <<>> /\ inbox \in Seq(1 .. Len(seqOf)) /\ h \in 1 .. Len(seqOf)
        /\ 1 \in DOMAIN inbox
    BY <2>2, ShapeDecrypt, QueueTaken
  <2> HIDE DEF h
  <2>4. q = h
    <3>1. h \in DOMAIN seqOf /\ LinkOf(q) = LinkOf(h)  BY <2>2, <2>3, Domains DEF LinkOf
    <3>2. seqOf[q] = seqOf[h] /\ seqOf[h] \in Nat /\ q \in Nat /\ h \in Nat
      BY <2>2, <3>1, Domains
    <3>3. ~(q < h) /\ ~(h < q)  BY <3>1, <3>2 DEF StoredInOrder, StoredAscending
    <3> QED  BY <3>2, <3>3
  <2>5. Before(p, inbox, 1)  BY <1>2, <2>3, <2>4 DEF h, InboxInOrder
  <2> QED  BY <2>3, <2>5, NothingBeforeFirst
<1>3. ASSUME NEW q \in DOMAIN seqOf', q \notin DOMAIN seqOf
      PROVE  \A id : id = seqOf'[q] => ~Taken(id)'
  <2> SUFFICES ASSUME NEW id, id = seqOf'[q], Taken(id)' PROVE FALSE  OBVIOUS
  <2>1. PICK l \in Links : StoreEnvelope(l) /\ q = Len(seqOf) + 1  BY <1>3, NewSeqHeld
  <2>2. id = hand[l].id /\ hand[l].at = "storing"  BY <2>1, ShapeStore
  <2>3. Taken(id)  BY <2>1 DEF StoreEnvelope, clientVars, Taken
  <2>4. PICK p0 \in DOMAIN seqOf : id = seqOf[p0]  BY <2>3 DEF Taken, TakenIsStored
  <2>5. seqOf[p0] < id
    <3>1. HandInOrder(l)  BY DEF StoredInOrder
    <3>2. sent[id].link = l /\ \A x \in DOMAIN seqOf : LinkOf(x) = l => seqOf[x] < id
      BY <2>2, <3>1 DEF HandInOrder
    <3>3. LinkOf(p0) = l  BY <2>4, <3>2 DEF LinkOf
    <3> QED  BY <3>2, <3>3
  <2>6. id \in Nat  BY <2>4, Domains
  <2> QED  BY <2>4, <2>5, <2>6
<1>4. \A q \in DOMAIN seqOf : seqOf'[q] = seqOf[q] /\ q \in DOMAIN seqOf'  BY SeqsKept
<1>5. \A q \in DOMAIN seqOf : Earlier(p, q)' <=> Earlier(p, q)  BY LinkKept
<1>6. ASSUME NEW q \in DOMAIN seqOf', Earlier(p, q)' PROVE ~Taken(seqOf[q])'
  <2>1. \A id : id = seqOf'[q] => ~Taken(id)'
    <3>1. CASE q \in DOMAIN seqOf  BY <1>2, <1>4, <1>5, <1>6, <3>1
    <3>2. CASE q \notin DOMAIN seqOf  BY <1>3, <3>2
    <3> QED  BY <3>1, <3>2
  <2> QED  BY <2>1 DEF Taken
<1> QED  BY <1>6 DEF TakenInOrder

\* Envelopes of one link do not overtake each other.
LEMMA FlowsStep ==
    ASSUME Shape, Shape', [Next]_vars, Registered, DecidedIsTaken, DeletedOnlyIfHandled,
           StoredInOrder, ReachedInOrder, TakenIsStored, lapsed \/ FlowsInOrder
    PROVE  lapsed' \/ FlowsInOrder'
<1> SUFFICES ASSUME ~lapsed' PROVE FlowsInOrder'  OBVIOUS
<1> SUFFICES ASSUME NEW p \in DOMAIN seqOf', ~Taken(seqOf[p])'
             PROVE  /\ InboxInOrder(p)' /\ DownInOrder(p)' /\ ScanInOrder(p)'
                    /\ BufferInOrder(p)' /\ TakenInOrder(p)'
  BY DEF FlowsInOrder
<1>1. ~lapsed /\ ~DecryptFails  BY LapsedStays
<1>2. CASE p \in DOMAIN seqOf
  <2>1. ~Taken(seqOf[p])  BY <1>2, NotTaken
  <2>2. /\ InboxInOrder(p) /\ DownInOrder(p) /\ ScanInOrder(p)
        /\ BufferInOrder(p) /\ TakenInOrder(p)
    BY <1>1, <1>2, <2>1 DEF FlowsInOrder
  <2>3. InboxInOrder(p)'  BY <1>1, <1>2, <2>2, InboxStep
  <2>4. DownInOrder(p)'  BY <1>1, <1>2, <2>2, DownStep
  <2>5. ScanInOrder(p)'  BY <1>1, <1>2, <2>2, ScanStep
  <2>6. BufferInOrder(p)'  BY <1>2, <2>2, BufferStep
  <2>7. TakenInOrder(p)'  BY <1>2, <2>2, TakenOrderStep
  <2> QED  BY <2>3, <2>4, <2>5, <2>6, <2>7
<1>3. CASE p \notin DOMAIN seqOf
  <2>1. \A q \in 1 .. Len(seqOf') : ~Earlier(p, q)'
    <3>1. PICK l \in Links : StoreEnvelope(l) /\ p = Len(seqOf) + 1  BY <1>3, NewSeqHeld
    <3>2. Len(seqOf') = p /\ p \in Nat  BY <3>1, ShapeStore, Domains
    <3>3. \A q \in 1 .. Len(seqOf') : ~(p < q)  BY <3>2
    <3> QED  BY <3>3 DEF Earlier
  <2>2. /\ \A i \in DOMAIN inbox' : inbox'[i] \in 1 .. Len(seqOf')
        /\ \A i \in DOMAIN down' : down'[i] \in 1 .. Len(seqOf')
        /\ \A i \in DOMAIN buffer' : buffer'[i] \in 1 .. Len(seqOf')
        /\ scanned' \subseteq 1 .. Len(seqOf')
        /\ DOMAIN seqOf' = 1 .. Len(seqOf')
    <3>1. /\ inbox' \in Seq(1 .. Len(seqOf')) /\ down' \in Seq(1 .. Len(seqOf'))
          /\ buffer' \in Seq(1 .. Len(seqOf')) /\ scanned' \subseteq 1 .. Len(seqOf')
          /\ seqOf' \in Seq(1 .. Len(sent'))
      BY DEF Shape, FlowShape, StoreShape
    <3> QED  BY <3>1, ElementOfSeq, LenProperties
  <2>3. InboxInOrder(p)'  BY <2>1, <2>2 DEF InboxInOrder
  <2>4. DownInOrder(p)'  BY <2>1, <2>2 DEF DownInOrder
  <2>5. ScanInOrder(p)'  BY <2>1, <2>2 DEF ScanInOrder
  <2>6. BufferInOrder(p)'  BY <2>1, <2>2 DEF BufferInOrder
  <2>7. TakenInOrder(p)'  BY <2>1, <2>2 DEF TakenInOrder
  <2> QED  BY <2>3, <2>4, <2>5, <2>6, <2>7
<1> QED  BY <1>2, <1>3

\* What is decrypted comes after what was decrypted of its link.
LEMMA LinkOrderStep ==
    ASSUME Shape, [Next]_vars, StoredInOrder, TakenIsStored, lapsed \/ FlowsInOrder, LinkOrder
    PROVE  LinkOrder'
<1> SUFFICES ASSUME ~lapsed', NEW i \in DOMAIN decrypted', NEW j \in DOMAIN decrypted', i < j,
                    sent'[decrypted'[i]].link = sent'[decrypted'[j]].link
             PROVE  decrypted'[i] < decrypted'[j]
  BY DEF LinkOrder
<1>1. ~lapsed  BY LapsedStays
<1>2. /\ \A k \in DOMAIN decrypted : decrypted[k] \in 1 .. Len(sent)
      /\ DOMAIN decrypted = 1 .. Len(decrypted) /\ Len(decrypted) \in Nat
      /\ decrypted \in Seq(1 .. Len(sent))
  BY ElementOfSeq, LenProperties DEF Shape, ClientShape
<1>3. \A k \in 1 .. Len(sent) : sent'[k].link = sent[k].link  BY LinkKept
<1>4. ASSUME i \in DOMAIN decrypted, j \in DOMAIN decrypted,
             decrypted'[i] = decrypted[i], decrypted'[j] = decrypted[j]
      PROVE  decrypted'[i] < decrypted'[j]
  BY <1>1, <1>2, <1>3, <1>4 DEF LinkOrder
<1>5. CASE UNCHANGED decrypted  BY <1>4, <1>5
<1>6. CASE ~UNCHANGED decrypted
  <2> DEFINE h == inbox[1]
  <2>1. Decrypt /\ ~Taken(seqOf[h])  BY <1>6, TakenStep
  <2>2. h \in 1 .. Len(seqOf) /\ decrypted' = Append(decrypted, seqOf[h])
    BY <2>1, ShapeDecrypt
  <2>3. h \in DOMAIN seqOf /\ seqOf[h] \in 1 .. Len(sent)  BY <2>2, Domains
  <2> HIDE DEF h
  <2>4. /\ DOMAIN decrypted' = 1 .. (Len(decrypted) + 1)
        /\ \A k \in DOMAIN decrypted : decrypted'[k] = decrypted[k]
        /\ decrypted'[Len(decrypted) + 1] = seqOf[h]
    BY <1>2, <2>2, <2>3, Appended
  <2>5. i \in DOMAIN decrypted /\ (j \in DOMAIN decrypted \/ j = Len(decrypted) + 1)
    BY <1>2, <2>4
  <2>6. CASE j \in DOMAIN decrypted  BY <1>4, <2>4, <2>5, <2>6
  <2>7. CASE j = Len(decrypted) + 1
    <3>1. PICK q \in DOMAIN seqOf : decrypted[i] = seqOf[q]  BY <2>5 DEF TakenIsStored
    <3>2. Taken(seqOf[q])
      <4>1. \A id : decrypted[i] = id => Taken(id)  BY <2>5 DEF Taken
      <4> QED  BY <3>1, <4>1
    <3>3. LinkOf(q) = LinkOf(h)
      <4>1. decrypted'[i] = seqOf[q] /\ decrypted'[j] = seqOf[h]  BY <2>4, <2>5, <2>7, <3>1
      <4>2. seqOf[q] \in 1 .. Len(sent)  BY Domains
      <4> QED  BY <1>3, <2>3, <4>1, <4>2 DEF LinkOf
    <3>4. q # h  BY <2>1, <3>2
    <3>5. ~(h < q)
      <4>1. TakenInOrder(h)  BY <1>1, <2>1, <2>3 DEF FlowsInOrder
      <4>2. ~Earlier(h, q)  BY <3>2, <4>1 DEF TakenInOrder
      <4> QED  BY <3>3, <4>2 DEF Earlier
    <3>6. q < h
      <4>1. q \in Nat /\ h \in Nat  BY <2>2, Domains
      <4> QED  BY <3>4, <3>5, <4>1
    <3>7. seqOf[q] < seqOf[h]  BY <2>3, <3>3, <3>6 DEF StoredInOrder, StoredAscending
    <3> QED  BY <2>4, <2>5, <2>7, <3>1, <3>7
  <2> QED  BY <2>5, <2>6, <2>7
<1> QED  BY <1>5, <1>6

---------------------------------------------------------------------------
(***************************************************************************)
(* The invariant and what it shows                                         *)
(***************************************************************************)

\* What the code keeps: the invariant above with the properties that it is
\* proved together with.
IInv == Inv /\ DeletedOnlyIfHandled /\ ShownOnce /\ LinkOrder

\* It holds at first: nothing is stored, sent or shown.
LEMMA InvInitially == ASSUME Init PROVE IInv
<1>1. Shape  BY ShapeInitially
<1>2. /\ sent = <<>> /\ seqOf = <<>> /\ upR = <<>> /\ decrypted = <<>> /\ shown = <<>>
      /\ DOMAIN seqOf = {} /\ DOMAIN upR = {} /\ DOMAIN decrypted = {} /\ DOMAIN shown = {}
      /\ lateAcks = {} /\ handled = {} /\ conn = 0 /\ events = 0 /\ ~online /\ busy = Null
  BY DEF Init
<1>3. ConnCounted  BY <1>2 DEF ConnCounted
<1>4. AcksHandled /\ ShownSeen /\ DeletedOnlyIfHandled /\ ShownOnce
  BY <1>2 DEF AcksHandled, ShownSeen, DeletedOnlyIfHandled, ShownOnce
<1>5. DecidedIsTaken /\ Undecided  BY <1>2 DEF DecidedIsTaken, Undecided
<1>6. Registered  BY DEF Init, Registered
<1>7. Reached /\ ReachedInOrder  BY <1>2 DEF Reached, ReachedInOrder
<1>8. StoredInOrder
  <2>1. ASSUME NEW l \in Links PROVE up[l] = <<>> /\ hand[l] = Idle  BY DEF Init
  <2>2. ASSUME NEW l \in Links PROVE QueueInOrder(l) /\ HandInOrder(l)
    BY <2>1 DEF QueueInOrder, HandInOrder, Idle
  <2> QED  BY <1>2, <2>2 DEF StoredInOrder, StoredAscending
<1>9. FlowsInOrder /\ TakenIsStored /\ LinkOrder
  BY <1>2 DEF FlowsInOrder, TakenIsStored, LinkOrder
<1> QED
  BY <1>1, <1>3, <1>4, <1>5, <1>6, <1>7, <1>8, <1>9 DEF IInv, Inv, Ordered

\* Every step keeps it.
LEMMA InvStep == ASSUME IInv, [Next]_vars PROVE IInv'
<1> USE DEF IInv, Inv, Ordered
<1>1. Shape'  BY ShapeStep
<1>2. ConnCounted'  BY ConnCountedStep
<1>3. AcksHandled' /\ DeletedOnlyIfHandled'  BY AcksStep
<1>4. ShownSeen' /\ ShownOnce'  BY ShownStep
<1>5. DecidedIsTaken' /\ Undecided'  BY DecidedStep, UndecidedStep
<1>6. Registered'  BY RegisteredStep
<1>7. Reached'  BY ReachedStep
<1>8. ReachedInOrder'  BY ReachedInOrderStep
<1>9. StoredInOrder'  BY StoredInOrderStep
<1>10. lapsed' \/ FlowsInOrder'  BY <1>1, FlowsStep
<1>11. TakenIsStored'  BY TakenIsStoredStep
<1>12. LinkOrder'  BY LinkOrderStep
<1> QED
  BY <1>1, <1>2, <1>3, <1>4, <1>5, <1>6, <1>7, <1>8, <1>9, <1>10, <1>11, <1>12

\* It holds throughout.
LEMMA Invariance == Spec => []IInv
<1>1. Init => IInv  BY InvInitially
<1>2. IInv /\ [Next]_vars => IInv'  BY InvStep
<1> QED  BY <1>1, <1>2, PTL DEF Spec

\* The shape, with the number of connections counted, is the specification's.
LEMMA ShapeIsType == ASSUME Shape, ConnCounted PROVE TypeOK
<1> USE DEF Shape
<1>1. DOMAIN sent = 1 .. Len(sent) /\ DOMAIN seqOf = 1 .. Len(seqOf)  BY Domains
<1>2. /\ roster \subseteq Senders \cup {Recipient}
      /\ sent \in Seq([msg : 1 .. MaxSends, link : Links])
      /\ link \in [Senders -> 1 .. MaxLinks + 1]
      /\ up \in [Links -> Seq(DOMAIN sent)]
  BY <1>1 DEF SenderShape, Sent
<1>3. hand \in [Links -> {Idle} \cup [at : {"storing"}, id : DOMAIN sent]
                    \cup [at : {"stored"}, seq : DOMAIN seqOf]
                    \cup [at : {"routing", "pushing"}, seq : DOMAIN seqOf, target : 1 .. conn]]
  BY <1>1 DEF HandShape, Hand, Storing, Stored, Routing
<1>4. seqOf \in Seq(DOMAIN sent) /\ rows \subseteq DOMAIN seqOf  BY <1>1 DEF StoreShape
<1>5. conn \in 0 .. MaxEvents + 1
  <2>1. conn \in Nat /\ events \in 0 .. MaxEvents  BY DEF ConnShape, CountShape
  <2>2. conn <= events + 1 \/ conn <= events + 0  BY DEF ConnCounted
  <2> QED  BY <2>1, <2>2, BoundsAreNatural
<1>6. /\ online \in BOOLEAN /\ live \in 0 .. conn /\ closing \subseteq 1 .. conn
      /\ draining \in BOOLEAN /\ stuck \in BOOLEAN
      /\ stage \in {"idle", "scoping", "querying", "sending"}
  BY DEF ConnShape, Stages
<1>7. /\ scanned \subseteq DOMAIN seqOf /\ buffer \in Seq(DOMAIN seqOf)
      /\ down \in Seq(DOMAIN seqOf) /\ upR \in Seq({Resync} \cup DOMAIN seqOf)
      /\ lateAcks \subseteq DOMAIN seqOf
      /\ inbox \in Seq(DOMAIN seqOf) /\ busy \in {Null} \cup DOMAIN seqOf
  BY <1>1 DEF FlowShape
<1>8. /\ decrypted \in Seq(DOMAIN sent) /\ handled \subseteq DOMAIN sent
      /\ failed \subseteq DOMAIN sent
      /\ seen \subseteq 1 .. MaxSends /\ shown \in Seq(1 .. MaxSends)
  BY <1>1 DEF ClientShape
<1>9. /\ events \in 0 .. MaxEvents /\ resynced \in BOOLEAN /\ steady \in BOOLEAN
      /\ lapsed \in BOOLEAN
  BY DEF CountShape
<1> QED  BY <1>2, <1>3, <1>4, <1>5, <1>6, <1>7, <1>8, <1>9 DEF TypeOK

\* The state has the shape stated, and every seq anywhere is one the mailbox has
\* given out.
THEOREM DeliveryTypes == Spec => []TypeOK
<1>1. IInv => TypeOK  BY ShapeIsType DEF IInv, Inv
<1> QED  BY <1>1, Invariance, PTL

\* No envelope leaves the mailbox before the client has decided it.
THEOREM NoneLost == Spec => []DeletedOnlyIfHandled
<1>1. IInv => DeletedOnlyIfHandled  BY DEF IInv
<1> QED  BY <1>1, Invariance, PTL

\* onMessage sees a message once.
THEOREM NoneTwice == Spec => []ShownOnce
<1>1. IInv => ShownOnce  BY DEF IInv
<1> QED  BY <1>1, Invariance, PTL

\* Between the drain and the live push no envelope is stranded.
THEOREM DrainMeetsPush == Spec => []NoneStranded
<1>1. IInv => NoneStranded  BY ReachedIsDecided DEF IInv, Inv
<1> QED  BY <1>1, Invariance, PTL

\* The messages of one connection are taken up in the order they were sent.
THEOREM NoneOvertakes == Spec => []LinkOrder
<1>1. IInv => LinkOrder  BY DEF IInv
<1> QED  BY <1>1, Invariance, PTL

---------------------------------------------------------------------------
(***************************************************************************)
(* Refinement of StoreAndForward                                           *)
(***************************************************************************)

\* A ciphertext has one seq.
LEMMA OneSeq ==
    ASSUME Shape, StoredInOrder, NEW p \in DOMAIN seqOf, NEW q \in DOMAIN seqOf,
           seqOf[p] = seqOf[q]
    PROVE  p = q
<1>1. p \in Nat /\ q \in Nat /\ seqOf[q] \in Nat  BY Domains
<1>2. LinkOf(p) = LinkOf(q)  BY DEF LinkOf
<1>3. ~(p < q) /\ ~(q < p)  BY <1>1, <1>2 DEF StoredInOrder, StoredAscending
<1> QED  BY <1>1, <1>3

\* Sending posts a message, a new one or one posted before.
LEMMA SendPosts ==
    ASSUME IInv, NEW s \in Senders, Send(s) \/ Resend(s)
    PROVE  AbstractMail!MailNext
<1> DEFINE l == <<s, link[s]>>
<1>1. Len(sent) \in Nat /\ DOMAIN sent = 1 .. Len(sent)  BY Domains DEF IInv, Inv
<1>2. \E m \in 1 .. Len(sent) + 1 : Transmit(s, m)  BY <1>1 DEF Send, Resend
<1>3. l \in Links /\ UNCHANGED <<seqOf, rows, handled, shown>>
      /\ \E m \in 1 .. Len(sent) + 1 : sent' = Append(sent, [msg |-> m, link |-> l])
  BY <1>2 DEF Transmit, relayVars, clientVars
<1> HIDE DEF l
<1>4. AbstractMail!Post(l)  BY <1>3 DEF AbstractMail!Post
<1> QED  BY <1>3, <1>4 DEF AbstractMail!MailNext

\* The row inserted is the latest of its connection.
LEMMA StoreStores ==
    ASSUME IInv, NEW l \in Links, StoreEnvelope(l)
    PROVE  AbstractMail!MailNext
<1> DEFINE m == Len(seqOf)
<1> USE DEF IInv, Inv, Ordered
<1>0. PICK id : id = hand[l].id  OBVIOUS
<1>1. /\ m \in Nat /\ DOMAIN seqOf = 1 .. m /\ DOMAIN seqOf' = 1 .. (m + 1)
      /\ \A p \in DOMAIN seqOf : seqOf'[p] = seqOf[p]
      /\ seqOf'[m + 1] = id /\ hand[l].at = "storing"
  BY <1>0, ShapeStore, Domains
<1>2. id \in DOMAIN sent /\ rows \subseteq 1 .. m  BY <1>0, <1>1, HandAt, Domains DEF Shape, StoreShape
<1>3. rows' = rows \cup {m + 1} /\ UNCHANGED <<sent, handled, shown>>
  BY DEF StoreEnvelope, senderVars, clientVars
<1>4. sent[id].link = l /\ \A p \in DOMAIN seqOf : LinkOf(p) = l => seqOf[p] < id
  BY <1>0, <1>1 DEF StoredInOrder, HandInOrder
<1> HIDE DEF m
<1>5. 1 .. (m + 1) = 1 .. m \cup {m + 1}  BY <1>1
<1>6. {seqOf'[p] : p \in DOMAIN seqOf'} = {seqOf[p] : p \in DOMAIN seqOf} \cup {id}
  BY <1>1, <1>5
<1>7. {seqOf'[p] : p \in rows'} = {seqOf[p] : p \in rows} \cup {id}
  BY <1>1, <1>2, <1>3
<1>8. \A j \in {seqOf[p] : p \in DOMAIN seqOf} : sent[j].link = sent[id].link => j < id
  BY <1>4 DEF LinkOf
<1>9. AbstractMail!Store(id)  BY <1>3, <1>6, <1>7, <1>8 DEF AbstractMail!Store
<1>10. \E i \in DOMAIN sent : AbstractMail!Store(i)  BY <1>2, <1>9
<1> QED  BY <1>10 DEF AbstractMail!MailNext

\* The client decides what is still in the mailbox, once.
LEMMA DecideDecides ==
    ASSUME IInv, NEW accepted \in BOOLEAN, Decide(accepted)
    PROVE  AbstractMail!MailNext
<1> DEFINE id == seqOf[busy]
<1> USE DEF IInv, Inv
<1>1. busy # Null /\ busy \in DOMAIN seqOf  BY Domains DEF Decide, Shape, FlowShape
<1>2. id \notin handled /\ busy \in rows  BY <1>1 DEF Undecided, DeletedOnlyIfHandled
<1>3. id \in {seqOf[p] : p \in rows}  BY <1>2
<1>4. handled' = handled \cup {id} /\ UNCHANGED <<sent, seqOf, rows>>
  BY DEF Decide, senderVars, relayVars
<1>5. \/ ~AbstractMail!Shown(sent[id].msg) /\ shown' = Append(shown, sent[id].msg)
      \/ UNCHANGED shown
  <2>1. sent[id].msg \notin seen => ~AbstractMail!Shown(sent[id].msg)
    BY DEF ShownSeen, AbstractMail!Shown
  <2>2. UNCHANGED shown \/ (sent[id].msg \notin seen /\ shown' = Append(shown, sent[id].msg))
    BY DEF Decide, Show
  <2> QED  BY <2>1, <2>2
<1> HIDE DEF id
<1>6. AbstractMail!Decide(id)  BY <1>2, <1>4, <1>5 DEF AbstractMail!Decide
<1> QED  BY <1>3, <1>6 DEF AbstractMail!MailNext

\* An acknowledgement, in time or late, discards what was decided; a second one
\* finds nothing.
LEMMA AckDiscards ==
    ASSUME IInv, NEW seq \in DOMAIN seqOf, seqOf[seq] \in handled,
           rows' = AckEnvelope(rows, seq), UNCHANGED <<sent, seqOf, handled, shown>>
    PROVE  AbstractMail!MailNext \/ UNCHANGED AbstractMail!mailVars
<1> USE DEF IInv, Inv, Ordered
<1>1. rows' = rows \ {seq} /\ rows \subseteq DOMAIN seqOf
  BY Domains DEF AckEnvelope, Shape, StoreShape
<1>2. CASE seq \in rows
  <2>0. PICK id : id = seqOf[seq]  OBVIOUS
  <2>1. id \in {seqOf[p] : p \in rows} /\ id \in handled  BY <1>2, <2>0
  <2>2. \A p \in rows : seqOf[p] = id => p = seq  BY <1>1, <2>0, OneSeq
  <2>3. {seqOf'[p] : p \in rows'} = {seqOf[p] : p \in rows} \ {id}  BY <1>1, <2>0, <2>2
  <2>4. AbstractMail!Discard(id)  BY <2>1, <2>3 DEF AbstractMail!Discard
  <2>5. \E i \in {seqOf[p] : p \in rows} : AbstractMail!Discard(i)  BY <2>1, <2>4
  <2> QED  BY <2>5 DEF AbstractMail!MailNext
<1>3. CASE seq \notin rows
  <2>1. UNCHANGED rows  BY <1>1, <1>3
  <2> QED  BY <2>1 DEF AbstractMail!mailVars
<1> QED  BY <1>2, <1>3

\* Every step of the relay and the client is a step of the abstract mailbox or
\* leaves it as it was.
LEMMA MailStep ==
    ASSUME IInv, [Next]_vars
    PROVE  [AbstractMail!MailNext]_(AbstractMail!mailVars)
<1>0. Shape /\ AcksHandled  BY DEF IInv, Inv
<1>1. CASE \E s \in Senders : Send(s) \/ Resend(s)  BY <1>1, SendPosts
<1>2. CASE \E l \in Links : StoreEnvelope(l)  BY <1>2, StoreStores
<1>3. CASE \E accepted \in BOOLEAN : Decide(accepted)  BY <1>3, DecideDecides
<1>4. CASE HandleAck
  <2>1. upR # <<>> /\ Head(upR) # Resync /\ rows' = AckEnvelope(rows, Head(upR))
        /\ UNCHANGED <<sent, seqOf, handled, shown>>
    BY <1>4 DEF HandleAck, senderVars, clientVars
  <2>2. upR \in Seq({Resync} \cup 1 .. Len(seqOf))  BY <1>0 DEF Shape, FlowShape
  <2>3. 1 \in DOMAIN upR /\ Head(upR) = upR[1] /\ upR[1] \in {Resync} \cup 1 .. Len(seqOf)
    BY <2>1, <2>2, QueueTaken
  <2>4. upR[1] \in DOMAIN seqOf /\ seqOf[upR[1]] \in handled
    BY <1>0, <2>1, <2>3, Domains DEF AcksHandled
  <2> QED  BY <2>1, <2>3, <2>4, AckDiscards
<1>5. CASE \E seq \in lateAcks : HandleLateAck(seq)
  <2>1. PICK seq \in lateAcks : HandleLateAck(seq)  BY <1>5
  <2>2. rows' = AckEnvelope(rows, seq) /\ UNCHANGED <<sent, seqOf, handled, shown>>
    BY <2>1 DEF HandleLateAck, senderVars, clientVars
  <2>3. seq \in DOMAIN seqOf /\ seqOf[seq] \in handled
    BY <1>0, Domains DEF AcksHandled, Shape, FlowShape
  <2> QED  BY <2>2, <2>3, AckDiscards
<1>6. ASSUME UNCHANGED <<sent, seqOf, rows, handled, shown>>
      PROVE  UNCHANGED AbstractMail!mailVars
  BY <1>6 DEF AbstractMail!mailVars
<1>7. CASE UNCHANGED vars  BY <1>6, <1>7 DEF vars, senderVars, relayVars, clientVars
<1>8. ASSUME NEW l \in Links,
             \/ AdmitSend(l) \/ RefuseSend(l) \/ LookUpTarget(l)
             \/ CheckRecipient(l) \/ LivePush(l) \/ CutSender(l)
      PROVE  UNCHANGED AbstractMail!mailVars
  <2>1. UNCHANGED <<sent, seqOf, rows, handled, shown>>
    BY <1>8 DEF AdmitSend, RefuseSend, LookUpTarget, CheckRecipient, LivePush, CutSender,
       senderVars, relayVars, clientVars
  <2> QED  BY <1>6, <2>1
<1>9. ASSUME \/ Connect \/ DrainScope \/ DrainQuery \/ DrainSend
             \/ HandleSubscribe \/ RefuseSubscribe \/ CutRecipient
      PROVE  UNCHANGED AbstractMail!mailVars
  <2>1. UNCHANGED <<sent, seqOf, rows, handled, shown>>
    BY <1>9 DEF Connect, DrainScope, DrainQuery, DrainSend, HandleSubscribe,
       RefuseSubscribe, CutRecipient, CloseRecipient, senderVars, relayVars, clientVars
  <2> QED  BY <1>6, <2>1
<1>10. ASSUME \/ \E c \in closing : NoticeClose(c)
              \/ Receive \/ Decrypt \/ Subscribe
              \/ \E u \in Senders \cup {Recipient} : ChangeRoster(u)
       PROVE  UNCHANGED AbstractMail!mailVars
  <2>1. UNCHANGED <<sent, seqOf, rows, handled, shown>>
    BY <1>10 DEF NoticeClose, Receive, Decrypt, Subscribe, ChangeRoster, senderVars,
       relayVars, clientVars
  <2> QED  BY <1>6, <2>1
<1>11. ASSUME Fault PROVE UNCHANGED AbstractMail!mailVars
  <2>1. UNCHANGED <<sent, seqOf, rows, handled, shown>>  BY <1>11, FaultEffects
  <2> QED  BY <1>6, <2>1
<1>12. CASE \E l \in Links : HandlerStep(l) \/ SendFails(l) \/ PushFails(l) \/ CutSender(l)
  BY <1>2, <1>8, <1>12, <1>11 DEF HandlerStep, Fault
<1>13. CASE Next
  BY <1>1, <1>3, <1>4, <1>5, <1>9, <1>10, <1>12, <1>13, <1>11 DEF Next, Fault
<1> QED  BY <1>7, <1>13

\* Relay and client implement the abstract mailbox: what is stored stays until it
\* is decided, is decided once, is stored in the order of its connection, and a
\* message is shown once.
THEOREM MailboxRefinement == Spec => ImplementsMailbox
<1>1. Init => AbstractMail!MailInit  BY DEF Init, AbstractMail!MailInit
<1>2. IInv /\ [Next]_vars => [AbstractMail!MailNext]_(AbstractMail!mailVars)  BY MailStep
<1> QED
  BY <1>1, <1>2, Invariance, PTL DEF Spec, ImplementsMailbox, AbstractMail!MailSpec
=============================================================================
