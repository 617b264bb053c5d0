--------------------------- MODULE TransportProofs ---------------------------
(***************************************************************************)
(* Proofs about Transport: the client's link keeps at most one connection, *)
(* is ready only over a live one and stays quiet once disconnected.        *)
(***************************************************************************)
EXTENDS Transport, SequenceFacts

LinkRecord ==
    [closedByUser : BOOLEAN, backoff : InitialBackoff .. MaxBackoff,
     reconnectTimer : BOOLEAN, keepalive : BOOLEAN, ready : BOOLEAN,
     connect : {"pending", "resolved", "rejected"}]

SocketRecord(n) ==
    [link : 1 .. n, st : {"dialing", "open", "closing", "closed"},
     opened : BOOLEAN, readied : BOOLEAN, settled : BOOLEAN, mute : BOOLEAN]

\* The link's types, as the proofs use them.
LinkShape ==
    /\ links \in Seq(LinkRecord)
    /\ sockets \in Seq(SocketRecord(Len(links)))
    /\ reported \in {"connecting", "connected", "disconnected"}
    /\ faults \in 0 .. MaxFaults

\* Only the last socket of a link can be alive.
LastIsLive ==
    \A j, k \in DOMAIN sockets :
        j < k /\ sockets[j].link = sockets[k].link => sockets[j].st = "closed"

\* A reconnect waits only on a link that the application keeps and whose
\* sockets are all gone.
TimerAlone ==
    \A l \in DOMAIN links : links[l].reconnectTimer =>
        /\ ~links[l].closedByUser
        /\ \A k \in DOMAIN sockets : sockets[k].link = l => sockets[k].st = "closed"

\* A link that is ready, or pings, has a live socket that had its ready frame.
ReadyHasSocket ==
    \A l \in DOMAIN links : links[l].ready \/ links[l].keepalive =>
        \E k \in DOMAIN sockets :
            sockets[k].link = l /\ sockets[k].st # "closed" /\ sockets[k].readied

ReportedTruly == Len(links) = 1 => (reported = "connected" <=> links[1].ready)

LinkInv == LinkShape /\ LastIsLive /\ TimerAlone /\ ReadyHasSocket /\ ReportedTruly

RawRecord(n) ==
    [of : 1 .. n, st : {"dialing", "open", "ended"}, opened : BOOLEAN, failed : BOOLEAN]

SockRecord(n) ==
    [open : BOOLEAN, relayAttempted : BOOLEAN, raw : 1 .. n,
     fallbackTimer : BOOLEAN, closed : BOOLEAN]

WireRecord == [frame : 1 .. MaxFrames, opened : BOOLEAN]

\* The peer-to-peer transport's types, as the proofs use them.
StreamShape ==
    /\ relayThrough \in BOOLEAN
    /\ raws \in Seq(RawRecord(Len(socks)))
    /\ socks \in Seq(SockRecord(Len(raws)))
    /\ late \subseteq 1 .. Len(socks)

QueueShape ==
    /\ spinning \in BOOLEAN /\ sent \in 0 .. MaxFrames
    /\ outbox \in Seq(1 .. MaxFrames)
    /\ wire \in Seq(WireRecord)

\* The stream that a socket writes to was dialed for it, and is the only one
\* dialed for it that may not have ended.
OwnStream ==
    /\ \A s \in DOMAIN socks : raws[socks[s].raw].of = s
    /\ \A r \in DOMAIN raws : raws[r].st # "ended" => r = socks[raws[r].of].raw

\* A closed socket waits for nothing, and has a stream only by a late error.
ClosedIsOver ==
    \A s \in DOMAIN socks :
        socks[s].closed => /\ ~socks[s].fallbackTimer
                           /\ raws[socks[s].raw].st = "ended" \/ s \in late

\* An open socket writes to a stream that opened.
OpenIsOpened == \A s \in DOMAIN socks : socks[s].open => raws[socks[s].raw].opened

\* Once the newest socket is open nothing waits, or a later frame would pass
\* the queued ones.
NoneWaitsForOpen == socks # <<>> /\ socks[Len(socks)].open => outbox = <<>>

\* The frames written, then those queued, count up from one.
Counted ==
    /\ Len(wire) + Len(outbox) = sent
    /\ \A i \in DOMAIN wire : wire[i].frame = i /\ wire[i].opened
    /\ \A i \in DOMAIN outbox : outbox[i] = Len(wire) + i

StreamInv == StreamShape /\ OwnStream /\ ClosedIsOver /\ OpenIsOpened

QueueInv == QueueShape /\ NoneWaitsForOpen /\ Counted

P2pInv == StreamInv /\ QueueInv

---------------------------------------------------------------------------
\* The types of the specification and the shape used here are the same.
LEMMA LinkShapeIsType == LinkShape <=> LinkTypeOK
<1>1. ASSUME NEW S PROVE links \in Seq(S) => DOMAIN links = 1 .. Len(links)
  BY LenProperties
<1>2. LinkShape => DOMAIN links = 1 .. Len(links)  BY <1>1 DEF LinkShape
<1>3. LinkTypeOK => DOMAIN links = 1 .. Len(links)  BY <1>1 DEF LinkTypeOK
<1> QED  BY <1>2, <1>3 DEF LinkShape, LinkTypeOK, LinkRecord, SocketRecord

---------------------------------------------------------------------------
\* What a step of socket k leaves of the other sockets and links.
OthersKept(k) ==
    /\ Len(links') = Len(links) /\ DOMAIN links' = DOMAIN links
    /\ Len(sockets') = Len(sockets) /\ DOMAIN sockets' = DOMAIN sockets
    /\ sockets'[k].link = sockets[k].link
    /\ \A j \in DOMAIN sockets : j # k => sockets'[j] = sockets[j]
    /\ \A l \in DOMAIN links : l # sockets[k].link => links'[l] = links[l]

\* The socket goes on living, and so does what its link waits for.
LivesOn(k) ==
    LET l == sockets[k].link
    IN  /\ sockets[k].st # "closed" /\ sockets'[k].st # "closed"
        /\ sockets[k].readied => sockets'[k].readied
        /\ links'[l].reconnectTimer = links[l].reconnectTimer
        /\ links'[l].closedByUser = links[l].closedByUser
        /\ \/ links'[l].ready = links[l].ready /\ links'[l].keepalive = links[l].keepalive
              /\ reported' = reported
           \/ links'[l].ready /\ sockets'[k].readied /\ reported' = "connected"

\* The socket is gone, and a reconnect waits unless the application left.
IsGone(k) ==
    LET l == sockets[k].link
    IN  /\ sockets[k].st # "closed" /\ sockets'[k].st = "closed"
        /\ ~links'[l].ready /\ ~links'[l].keepalive /\ reported' # "connected"
        /\ links'[l].closedByUser = links[l].closedByUser
        /\ links'[l].reconnectTimer => links[l].reconnectTimer \/ ~links[l].closedByUser

\* The delay between two dials stays between its first value and its cap.
LEMMA DoubleBounded ==
    ASSUME NEW b \in InitialBackoff .. MaxBackoff
    PROVE  Double(b) \in InitialBackoff .. MaxBackoff
BY LinkAssumption DEF Double

\* What the shape says of one socket and its link.
LEMMA OneShape ==
    ASSUME LinkShape, NEW k \in DOMAIN sockets
    PROVE  /\ sockets[k] \in SocketRecord(Len(links))
           /\ sockets[k].link \in DOMAIN links
           /\ links[sockets[k].link] \in LinkRecord
           /\ Len(links) \in Nat /\ Len(sockets) \in Nat
           /\ DOMAIN links = 1 .. Len(links) /\ DOMAIN sockets = 1 .. Len(sockets)
<1>1. DOMAIN links = 1 .. Len(links) /\ DOMAIN sockets = 1 .. Len(sockets)
      /\ Len(links) \in Nat /\ Len(sockets) \in Nat
  BY LenProperties DEF LinkShape
<1>2. sockets[k] \in SocketRecord(Len(links))  BY <1>1, ElementOfSeq DEF LinkShape
<1>3. sockets[k].link \in DOMAIN links  BY <1>1, <1>2 DEF SocketRecord
<1>4. links[sockets[k].link] \in LinkRecord  BY <1>1, <1>3, ElementOfSeq DEF LinkShape
<1> QED  BY <1>1, <1>2, <1>3, <1>4

\* One link and one socket replaced by well-typed ones leave the shape and
\* all others as they are.
LEMMA OthersStay ==
    ASSUME LinkShape, NEW k \in DOMAIN sockets,
           NEW link \in LinkRecord, NEW sock \in SocketRecord(Len(links)),
           sock.link = sockets[k].link,
           links' = [links EXCEPT ![sockets[k].link] = link],
           sockets' = [sockets EXCEPT ![k] = sock],
           reported' \in {"connecting", "connected", "disconnected"},
           faults' \in 0 .. MaxFaults
    PROVE  /\ LinkShape' /\ OthersKept(k)
           /\ sockets'[k] = sock /\ links'[sockets[k].link] = link
<1> DEFINE l == sockets[k].link
<1>1. l \in DOMAIN links  BY OneShape
<1>2. /\ links' \in Seq(LinkRecord) /\ Len(links') = Len(links) /\ DOMAIN links' = DOMAIN links
      /\ \A m \in DOMAIN links : links'[m] = IF m = l THEN link ELSE links[m]
  BY <1>1, Replaced DEF LinkShape
<1>3. /\ sockets' \in Seq(SocketRecord(Len(links))) /\ Len(sockets') = Len(sockets)
      /\ DOMAIN sockets' = DOMAIN sockets
      /\ \A j \in DOMAIN sockets : sockets'[j] = IF j = k THEN sock ELSE sockets[j]
  BY Replaced DEF LinkShape
<1>4. LinkShape'  BY <1>2, <1>3 DEF LinkShape
<1> QED  BY <1>1, <1>2, <1>3, <1>4 DEF OthersKept

\* A socket's own events keep the shape and leave the others alone; the socket
\* lives on, except for the close event.
LEMMA SocketEffect ==
    ASSUME LinkShape, NEW k \in DOMAIN sockets, SocketStep(k)
    PROVE  LinkShape' /\ OthersKept(k) /\ (LivesOn(k) \/ IsGone(k))
<1> DEFINE l == sockets[k].link
           lk == links[l]
           sk == sockets[k]
<1>0. sk \in SocketRecord(Len(links)) /\ l \in DOMAIN links /\ lk \in LinkRecord
  BY OneShape
<1>f. faults \in 0 .. MaxFaults /\ MaxFaults \in Nat
      /\ reported \in {"connecting", "connected", "disconnected"}
  BY LinkAssumption DEF LinkShape
<1>l. links = [links EXCEPT ![l] = lk]
  BY <1>0, LenProperties DEF LinkShape
<1>1. CASE Open(k)
  <2> DEFINE sock == [sk EXCEPT !.st = "open", !.opened = TRUE]
  <2>1. sock \in SocketRecord(Len(links)) /\ sock.link = l /\ sock.st = "open"
        /\ sock.readied = sk.readied
    BY <1>0 DEF SocketRecord
  <2>2. sockets' = [sockets EXCEPT ![k] = sock] /\ links' = [links EXCEPT ![l] = lk]
    BY <1>1, <1>l DEF Open
  <2>3. LinkShape' /\ OthersKept(k) /\ sockets'[k] = sock /\ links'[l] = lk
    BY <1>0, <1>1, <1>f, <2>1, <2>2, OthersStay DEF Open
  <2> QED  BY <1>1, <2>1, <2>3 DEF Open, LivesOn
<1>2. CASE Ready(k)
  <2> DEFINE sock == [sk EXCEPT !.readied = TRUE, !.settled = TRUE]
             link == [lk EXCEPT !.ready = TRUE, !.backoff = InitialBackoff,
                                !.keepalive = TRUE, !.connect = Settle(k, "resolved")]
  <2>1. sock \in SocketRecord(Len(links)) /\ sock.link = l /\ sock.st = sk.st /\ sock.readied
    BY <1>0 DEF SocketRecord
  <2>2. Settle(k, "resolved") \in {"pending", "resolved", "rejected"}
    BY <1>0 DEF Settle, LinkRecord
  <2>3. link \in LinkRecord /\ link.ready /\ link.reconnectTimer = lk.reconnectTimer
        /\ link.closedByUser = lk.closedByUser
    <3>1. InitialBackoff \in InitialBackoff .. MaxBackoff  BY LinkAssumption
    <3>2. \A c \in {"pending", "resolved", "rejected"} :
             [lk EXCEPT !.ready = TRUE, !.backoff = InitialBackoff,
                        !.keepalive = TRUE, !.connect = c] \in LinkRecord
      BY <1>0, <3>1 DEF LinkRecord
    <3>3. link \in LinkRecord  BY <2>2, <3>2
    <3> QED  BY <1>0, <3>3 DEF LinkRecord
  <2>4. sockets' = [sockets EXCEPT ![k] = sock] /\ links' = [links EXCEPT ![l] = link]
    BY <1>2 DEF Ready
  <2>5. LinkShape' /\ OthersKept(k) /\ sockets'[k] = sock /\ links'[l] = link
    <3>1. reported' \in {"connecting", "connected", "disconnected"} /\ faults' \in 0 .. MaxFaults
      BY <1>2, <1>f DEF Ready
    <3> HIDE DEF sock, link
    <3> QED  BY <2>1, <2>3, <2>4, <3>1, OthersStay
  <2> QED  BY <1>2, <2>1, <2>3, <2>5 DEF Ready, LivesOn, Live
<1>6. CASE AuthRejects(k)
  <2> DEFINE sock == [sk EXCEPT !.mute = TRUE]
  <2>1. sock \in SocketRecord(Len(links)) /\ sock.link = l /\ sock.st = sk.st
        /\ sock.readied = sk.readied
    BY <1>0 DEF SocketRecord
  <2>2. sockets' = [sockets EXCEPT ![k] = sock] /\ links' = [links EXCEPT ![l] = lk]
    BY <1>6, <1>l DEF AuthRejects
  <2>3. faults' \in 0 .. MaxFaults  BY <1>6, <1>f DEF AuthRejects
  <2>4. LinkShape' /\ OthersKept(k) /\ sockets'[k] = sock /\ links'[l] = lk
    BY <1>0, <1>6, <1>f, <2>1, <2>2, <2>3, OthersStay DEF AuthRejects
  <2> QED  BY <1>6, <2>1, <2>4 DEF AuthRejects, Live, LivesOn
<1>3. CASE Error(k)
  <2> DEFINE sock == [sk EXCEPT !.st = "closing", !.settled = TRUE]
             link == [lk EXCEPT !.connect = Settle(k, "rejected")]
  <2>1. sock \in SocketRecord(Len(links)) /\ sock.link = l /\ sock.st = "closing"
        /\ sock.readied = sk.readied
    BY <1>0 DEF SocketRecord
  <2>2. Settle(k, "rejected") \in {"pending", "resolved", "rejected"}
    BY <1>0 DEF Settle, LinkRecord
  <2>3. link \in LinkRecord /\ link.ready = lk.ready /\ link.keepalive = lk.keepalive
        /\ link.reconnectTimer = lk.reconnectTimer /\ link.closedByUser = lk.closedByUser
    BY <1>0, <2>2 DEF LinkRecord
  <2>4. sockets' = [sockets EXCEPT ![k] = sock] /\ links' = [links EXCEPT ![l] = link]
    BY <1>3 DEF Error
  <2>5. faults' \in 0 .. MaxFaults  BY <1>3, <1>f DEF Error
  <2>6. LinkShape' /\ OthersKept(k) /\ sockets'[k] = sock /\ links'[l] = link
    BY <1>0, <1>3, <1>f, <2>1, <2>3, <2>4, <2>5, OthersStay DEF Error
  <2> QED  BY <1>3, <2>1, <2>3, <2>6 DEF Error, LivesOn, Live
<1>4. CASE Lose(k)
  <2> DEFINE sock == [sk EXCEPT !.st = "closing"]
  <2>1. sock \in SocketRecord(Len(links)) /\ sock.link = l /\ sock.st = "closing"
        /\ sock.readied = sk.readied
    BY <1>0 DEF SocketRecord
  <2>2. sockets' = [sockets EXCEPT ![k] = sock] /\ links' = [links EXCEPT ![l] = lk]
    BY <1>4, <1>l DEF Lose
  <2>3. faults' \in 0 .. MaxFaults  BY <1>4, <1>f DEF Lose
  <2>4. LinkShape' /\ OthersKept(k) /\ sockets'[k] = sock /\ links'[l] = lk
    BY <1>0, <1>4, <1>f, <2>1, <2>2, <2>3, OthersStay DEF Lose
  <2> QED  BY <1>4, <2>1, <2>4 DEF Lose, LivesOn
<1>5. CASE Close(k)
  <2> DEFINE sock == [sk EXCEPT !.st = "closed", !.settled = TRUE]
             down == Down(k)
             link == IF lk.closedByUser THEN down ELSE ScheduleReconnect(down)
  <2>1. sock \in SocketRecord(Len(links)) /\ sock.link = l /\ sock.st = "closed"
    BY <1>0 DEF SocketRecord
  <2>2. Settle(k, "rejected") \in {"pending", "resolved", "rejected"}
    BY <1>0 DEF Settle, LinkRecord
  <2>3. down \in LinkRecord /\ ~down.ready /\ ~down.keepalive
        /\ down.reconnectTimer = lk.reconnectTimer /\ down.closedByUser = lk.closedByUser
    BY <1>0, <2>2 DEF LinkRecord, Down
  <2>4. Double(down.backoff) \in InitialBackoff .. MaxBackoff
    BY <2>3, DoubleBounded DEF LinkRecord
  <2>5. /\ ScheduleReconnect(down) \in LinkRecord
        /\ ~ScheduleReconnect(down).ready /\ ~ScheduleReconnect(down).keepalive
        /\ ScheduleReconnect(down).closedByUser = lk.closedByUser
    BY <2>3, <2>4 DEF LinkRecord, ScheduleReconnect
  <2>6. link \in LinkRecord /\ ~link.ready /\ ~link.keepalive
        /\ link.closedByUser = lk.closedByUser
        /\ (link.reconnectTimer => lk.reconnectTimer \/ ~lk.closedByUser)
    BY <2>3, <2>5
  <2>7. sockets' = [sockets EXCEPT ![k] = sock] /\ links' = [links EXCEPT ![l] = link]
    BY <1>5 DEF Close
  <2>8. LinkShape' /\ OthersKept(k) /\ sockets'[k] = sock /\ links'[l] = link
    BY <1>0, <1>5, <1>f, <2>1, <2>6, <2>7, OthersStay DEF Close
  <2> QED  BY <1>5, <2>1, <2>6, <2>8 DEF Close, IsGone
<1> QED  BY <1>1, <1>2, <1>3, <1>4, <1>5, <1>6 DEF SocketStep

\* A link at most disconnected, and a socket at most told to close.
LinkMayEnd(m) ==
    \/ links'[m] = links[m]
    \/ /\ links'[m].closedByUser /\ ~links'[m].reconnectTimer
       /\ ~links'[m].keepalive /\ links'[m].ready = links[m].ready

SocketAlike(k) ==
    /\ sockets'[k].link = sockets[k].link /\ sockets'[k].readied = sockets[k].readied
    /\ sockets'[k].st = "closed" <=> sockets[k].st = "closed"

\* What close() on the socket of link l leaves.
LEMMA ClosingEffect ==
    ASSUME LinkShape, NEW l \in DOMAIN links
    PROVE  /\ Closing(l) \in Seq(SocketRecord(Len(links)))
           /\ Len(Closing(l)) = Len(sockets) /\ DOMAIN Closing(l) = DOMAIN sockets
           /\ \A k \in DOMAIN sockets :
                 /\ Closing(l)[k].link = sockets[k].link
                 /\ Closing(l)[k].readied = sockets[k].readied
                 /\ Closing(l)[k].st = "closed" <=> sockets[k].st = "closed"
<1> DEFINE R == SocketRecord(Len(links))
           n == Len(sockets)
           e(k) == IF IsSocketOf(k, l) /\ Live(k) THEN [sockets[k] EXCEPT !.st = "closing"]
                   ELSE sockets[k]
<1>1. n \in Nat /\ DOMAIN sockets = 1 .. n  BY LenProperties DEF LinkShape
<1>2. ASSUME NEW k \in 1 .. n
      PROVE  /\ e(k) \in R /\ e(k).link = sockets[k].link /\ e(k).readied = sockets[k].readied
             /\ e(k).st = "closed" <=> sockets[k].st = "closed"
  <2>1. sockets[k] \in R  BY <1>1, OneShape
  <2>2. CASE IsSocketOf(k, l) /\ Live(k)
    <3>1. e(k) = [sockets[k] EXCEPT !.st = "closing"]  BY <2>2
    <3>2. sockets[k].st # "closed"  BY <2>2 DEF Live
    <3> HIDE DEF e
    <3> QED  BY <2>1, <3>1, <3>2 DEF SocketRecord
  <2>3. CASE ~(IsSocketOf(k, l) /\ Live(k))
    BY <2>1, <2>3
  <2> QED  BY <2>2, <2>3
<1>3. Closing(l) = [k \in 1 .. n |-> e(k)]  BY <1>1 DEF Closing
<1> HIDE DEF e
<1>4. [k \in 1 .. n |-> e(k)] \in [1 .. n -> R]  BY <1>2
<1>5. Closing(l) \in [1 .. n -> R] /\ DOMAIN Closing(l) = 1 .. n
      /\ \A k \in 1 .. n : Closing(l)[k] = e(k)
  BY <1>3, <1>4
<1>6. Closing(l) \in Seq(R) /\ Len(Closing(l)) = n  BY <1>1, <1>5, IsSequence
<1> QED  BY <1>1, <1>2, <1>5, <1>6

\* What disconnect leaves of a link.
LEMMA DisconnectedEffect ==
    ASSUME LinkShape, NEW l \in DOMAIN links
    PROVE  /\ Disconnected(l) \in LinkRecord
           /\ Disconnected(l).closedByUser /\ ~Disconnected(l).reconnectTimer
           /\ ~Disconnected(l).keepalive /\ Disconnected(l).ready = links[l].ready
<1>1. links[l] \in LinkRecord  BY LenProperties, ElementOfSeq DEF LinkShape
<1> QED  BY <1>1 DEF Disconnected, LinkRecord

\* disconnect ends the newest link and asks its socket to close.
LEMMA DisconnectEffect ==
    ASSUME LinkShape, Disconnect
    PROVE  /\ LinkShape' /\ reported' = reported
           /\ Len(links') = Len(links) /\ DOMAIN links' = DOMAIN links
           /\ DOMAIN sockets' = DOMAIN sockets
           /\ \A m \in DOMAIN links : LinkMayEnd(m)
           /\ \A k \in DOMAIN sockets : SocketAlike(k)
<1> DEFINE l == Len(links)
<1>1. l \in DOMAIN links
  BY LenProperties DEF LinkShape, Disconnect
<1>2. sockets' = Closing(l) /\ links' = [links EXCEPT ![l] = Disconnected(l)]
      /\ reported' = reported /\ faults' = faults
  BY DEF Disconnect
<1>3. /\ links' \in Seq(LinkRecord) /\ Len(links') = Len(links) /\ DOMAIN links' = DOMAIN links
      /\ \A m \in DOMAIN links : links'[m] = IF m = l THEN Disconnected(l) ELSE links[m]
  BY <1>1, <1>2, DisconnectedEffect, Replaced DEF LinkShape
<1>4. \A m \in DOMAIN links : LinkMayEnd(m)
  BY <1>1, <1>3, DisconnectedEffect DEF LinkMayEnd
<1>5. \A k \in DOMAIN sockets : SocketAlike(k)
  BY <1>1, <1>2, ClosingEffect DEF SocketAlike
<1>6. sockets' \in Seq(SocketRecord(Len(links))) /\ DOMAIN sockets' = DOMAIN sockets
  BY <1>1, <1>2, ClosingEffect
<1>7. LinkShape'  BY <1>2, <1>3, <1>6 DEF LinkShape
<1> QED  BY <1>2, <1>3, <1>4, <1>5, <1>6, <1>7

\* connect ends the newest link and adds one, with a socket of its own.
LEMMA ConnectEffect ==
    ASSUME LinkShape, Connect
    PROVE  /\ LinkShape' /\ reported' = "connecting"
           /\ Len(links') = Len(links) + 1 /\ DOMAIN links' = 1 .. (Len(links) + 1)
           /\ links'[Len(links) + 1] = NewLink
           /\ DOMAIN sockets' = 1 .. (Len(sockets) + 1)
           /\ sockets'[Len(sockets) + 1] = NewSocket(Len(links) + 1, TRUE)
           /\ \A m \in DOMAIN links : LinkMayEnd(m)
           /\ \A k \in DOMAIN sockets : SocketAlike(k)
<1> DEFINE n == Len(links)
           old == IF n + 1 = 1 THEN links ELSE [links EXCEPT ![n] = Disconnected(n)]
           socks0 == IF n + 1 = 1 THEN sockets ELSE Closing(n)
           R == SocketRecord(n + 1)
<1>1. n \in Nat /\ DOMAIN links = 1 .. n /\ (n + 1 # 1 => n \in DOMAIN links) /\ n + 1 - 1 = n
  BY LenProperties DEF LinkShape
<1>2. /\ links' = Append(old, NewLink) /\ sockets' = Append(socks0, NewSocket(n + 1, TRUE))
      /\ reported' = "connecting" /\ faults' = faults
  BY <1>1 DEF Connect
<1>3. /\ old \in Seq(LinkRecord) /\ Len(old) = n /\ DOMAIN old = DOMAIN links
      /\ \A m \in DOMAIN links :
            \/ old[m] = links[m]
            \/ /\ old[m].closedByUser /\ ~old[m].reconnectTimer
               /\ ~old[m].keepalive /\ old[m].ready = links[m].ready
  <2>1. CASE n + 1 = 1  BY <2>1 DEF LinkShape
  <2>2. CASE n + 1 # 1
    <3>1. old = [links EXCEPT ![n] = Disconnected(n)] /\ n \in DOMAIN links  BY <1>1, <2>2
    <3> HIDE DEF old
    <3> QED  BY <3>1, DisconnectedEffect, Replaced DEF LinkShape
  <2> QED  BY <2>1, <2>2
<1>4. /\ socks0 \in Seq(SocketRecord(n)) /\ Len(socks0) = Len(sockets)
      /\ DOMAIN socks0 = DOMAIN sockets
      /\ \A k \in DOMAIN sockets :
            /\ socks0[k].link = sockets[k].link /\ socks0[k].readied = sockets[k].readied
            /\ socks0[k].st = "closed" <=> sockets[k].st = "closed"
  <2>1. CASE n + 1 = 1  BY <2>1 DEF LinkShape
  <2>2. CASE n + 1 # 1  BY <1>1, <2>2, ClosingEffect
  <2> QED  BY <2>1, <2>2
<1> HIDE DEF old, socks0
<1>5. SocketRecord(n) \subseteq R  BY <1>1 DEF SocketRecord
<1>6. socks0 \in Seq(R)  BY <1>4, <1>5, SeqMonotonic
<1>7. NewLink \in LinkRecord
  BY LinkAssumption DEF NewLink, LinkRecord
<1>8. NewSocket(n + 1, TRUE) \in R  BY <1>1 DEF NewSocket, SocketRecord
<1>9. /\ links' \in Seq(LinkRecord) /\ Len(links') = n + 1 /\ DOMAIN links' = 1 .. (n + 1)
      /\ links'[n + 1] = NewLink /\ \A m \in DOMAIN links : links'[m] = old[m]
  BY <1>2, <1>3, <1>7, Appended
<1>10. /\ sockets' \in Seq(R) /\ DOMAIN sockets' = 1 .. (Len(sockets) + 1)
       /\ sockets'[Len(sockets) + 1] = NewSocket(n + 1, TRUE)
       /\ \A k \in DOMAIN sockets : sockets'[k] = socks0[k]
  <2> DEFINE new == NewSocket(n + 1, TRUE)
  <2>1. new \in R /\ sockets' = Append(socks0, new)  BY <1>2, <1>8
  <2> HIDE DEF new, R
  <2>2. /\ sockets' \in Seq(R) /\ DOMAIN sockets' = 1 .. (Len(socks0) + 1)
        /\ sockets'[Len(socks0) + 1] = new
        /\ \A k \in DOMAIN socks0 : sockets'[k] = socks0[k]
    BY <1>6, <2>1, Appended
  <2> QED  BY <1>4, <2>2 DEF new
<1>11. LinkShape'  BY <1>2, <1>9, <1>10 DEF LinkShape
<1>12. \A m \in DOMAIN links : LinkMayEnd(m)  BY <1>3, <1>9 DEF LinkMayEnd
<1>13. \A k \in DOMAIN sockets : SocketAlike(k)  BY <1>4, <1>10 DEF SocketAlike
<1> QED  BY <1>2, <1>9, <1>10, <1>11, <1>12, <1>13

\* The timer opens one more socket on its link.
LEMMA ReconnectEffect ==
    ASSUME LinkShape, NEW l \in DOMAIN links, Reconnect(l)
    PROVE  /\ LinkShape' /\ reported' = "connecting"
           /\ Len(links') = Len(links) /\ DOMAIN links' = DOMAIN links
           /\ links'[l] = [links[l] EXCEPT !.reconnectTimer = FALSE]
           /\ \A m \in DOMAIN links : m # l => links'[m] = links[m]
           /\ DOMAIN sockets' = 1 .. (Len(sockets) + 1)
           /\ sockets'[Len(sockets) + 1] = NewSocket(l, FALSE)
           /\ \A k \in DOMAIN sockets : sockets'[k] = sockets[k]
<1> DEFINE link == [links[l] EXCEPT !.reconnectTimer = FALSE]
<1>1. DOMAIN links = 1 .. Len(links) /\ links[l] \in LinkRecord /\ Len(links) \in Nat
  BY LenProperties, ElementOfSeq DEF LinkShape
<1>2. link \in LinkRecord  BY <1>1 DEF LinkRecord
<1>3. NewSocket(l, FALSE) \in SocketRecord(Len(links))  BY <1>1 DEF NewSocket, SocketRecord
<1>4. links' = [links EXCEPT ![l] = link] /\ sockets' = Append(sockets, NewSocket(l, FALSE))
      /\ reported' = "connecting" /\ faults' = faults
  BY DEF Reconnect
<1> HIDE DEF link
<1>5. /\ links' \in Seq(LinkRecord) /\ Len(links') = Len(links) /\ DOMAIN links' = DOMAIN links
      /\ \A m \in DOMAIN links : links'[m] = IF m = l THEN link ELSE links[m]
  BY <1>2, <1>4, Replaced DEF LinkShape
<1>6. /\ sockets' \in Seq(SocketRecord(Len(links))) /\ DOMAIN sockets' = 1 .. (Len(sockets) + 1)
      /\ sockets'[Len(sockets) + 1] = NewSocket(l, FALSE)
      /\ \A k \in DOMAIN sockets : sockets'[k] = sockets[k]
  <2> DEFINE new == NewSocket(l, FALSE)
  <2>1. new \in SocketRecord(Len(links)) /\ sockets \in Seq(SocketRecord(Len(links)))
        /\ sockets' = Append(sockets, new)
    BY <1>3, <1>4 DEF LinkShape
  <2> HIDE DEF new
  <2>2. /\ sockets' \in Seq(SocketRecord(Len(links))) /\ DOMAIN sockets' = 1 .. (Len(sockets) + 1)
        /\ sockets'[Len(sockets) + 1] = new
        /\ \A k \in DOMAIN sockets : sockets'[k] = sockets[k]
    BY <2>1, Appended
  <2> QED  BY <2>2 DEF new
<1>7. LinkShape'  BY <1>4, <1>5, <1>6 DEF LinkShape
<1> QED  BY <1>4, <1>5, <1>6, <1>7 DEF link

---------------------------------------------------------------------------
\* The link's invariant holds at first.
LEMMA LinkInitially == ASSUME LinkInit PROVE LinkInv
<1>1. links = <<>> /\ sockets = <<>> /\ reported = "disconnected" /\ faults = 0
  BY DEF LinkInit
<1>2. Len(links) = 0 /\ DOMAIN links = {} /\ DOMAIN sockets = {}
      /\ links \in Seq(LinkRecord) /\ sockets \in Seq(SocketRecord(Len(links)))
  BY <1>1
<1>3. LinkShape  BY <1>1, <1>2, LinkAssumption DEF LinkShape
<1> QED
  BY <1>2, <1>3 DEF LinkInv, LastIsLive, TimerAlone, ReadyHasSocket, ReportedTruly

\* Every step of the link keeps its invariant.
LEMMA LinkStep == ASSUME LinkInv, LinkNext PROVE LinkInv'
<1> USE DEF LinkInv
<1>d. Len(links) \in Nat /\ DOMAIN links = 1 .. Len(links)
      /\ Len(sockets) \in Nat /\ DOMAIN sockets = 1 .. Len(sockets)
  BY LenProperties DEF LinkShape
<1>o. \A k \in DOMAIN sockets : sockets[k].link \in DOMAIN links  BY OneShape
<1>1. CASE Connect
  <2> DEFINE n == Len(links) + 1
             t == Len(sockets) + 1
  <2>1. /\ LinkShape' /\ reported' = "connecting"
        /\ Len(links') = n /\ DOMAIN links' = 1 .. n /\ links'[n] = NewLink
        /\ DOMAIN sockets' = 1 .. t /\ sockets'[t] = NewSocket(n, TRUE)
        /\ \A m \in DOMAIN links : LinkMayEnd(m)
        /\ \A k \in DOMAIN sockets : SocketAlike(k)
    BY <1>1, ConnectEffect
  <2>2. DOMAIN sockets' = DOMAIN sockets \cup {t} /\ t \notin DOMAIN sockets
        /\ DOMAIN links' = DOMAIN links \cup {n} /\ n \notin DOMAIN links
        /\ \A k \in DOMAIN sockets' : ~(t < k)
    BY <1>d, <2>1
  <2>3. sockets'[t].link = n /\ \A k \in DOMAIN sockets : sockets'[k].link = sockets[k].link
    BY <2>1 DEF NewSocket, SocketAlike
  <2>e. /\ \A m \in DOMAIN links : LinkMayEnd(m)
        /\ \A k \in DOMAIN sockets : SocketAlike(k)
        /\ ~links'[n].reconnectTimer /\ ~links'[n].ready /\ ~links'[n].keepalive
    BY <2>1 DEF NewLink
  <2>4. LastIsLive'
    <3> HIDE DEF n, t
    <3> SUFFICES ASSUME NEW j \in DOMAIN sockets', NEW k \in DOMAIN sockets', j < k,
                        sockets'[j].link = sockets'[k].link
                 PROVE  sockets'[j].st = "closed"
      BY DEF LastIsLive
    <3>1. j \in DOMAIN sockets /\ sockets'[j].link # n  BY <1>o, <2>2, <2>3
    <3>2. k \in DOMAIN sockets  BY <2>2, <2>3, <3>1
    <3> QED  BY <2>e, <3>1, <3>2 DEF LastIsLive, SocketAlike
  <2>5. TimerAlone'
    <3> HIDE DEF n, t
    <3> SUFFICES ASSUME NEW m \in DOMAIN links', links'[m].reconnectTimer
                 PROVE  /\ ~links'[m].closedByUser
                        /\ \A k \in DOMAIN sockets' :
                              sockets'[k].link = m => sockets'[k].st = "closed"
      BY DEF TimerAlone
    <3>1. m \in DOMAIN links /\ m # n  BY <2>2, <2>e
    <3>2. links'[m] = links[m]  BY <2>e, <3>1 DEF LinkMayEnd
    <3> QED  BY <2>2, <2>3, <2>e, <3>1, <3>2 DEF TimerAlone, SocketAlike
  <2>6. ReadyHasSocket'
    <3> HIDE DEF n, t
    <3> SUFFICES ASSUME NEW m \in DOMAIN links', links'[m].ready \/ links'[m].keepalive
                 PROVE  \E k \in DOMAIN sockets' :
                           sockets'[k].link = m /\ sockets'[k].st # "closed"
                           /\ sockets'[k].readied
      BY DEF ReadyHasSocket
    <3>1. m \in DOMAIN links  BY <2>2, <2>e
    <3>2. links[m].ready \/ links[m].keepalive  BY <2>e, <3>1 DEF LinkMayEnd
    <3> QED  BY <2>2, <2>e, <3>1, <3>2 DEF ReadyHasSocket, SocketAlike
  <2>7. ReportedTruly'
    <3>1. ~NewLink.ready  BY DEF NewLink
    <3>2. n = 1 => ~links'[1].ready  BY <2>1, <3>1
    <3> QED  BY <2>1, <3>2 DEF ReportedTruly
  <2> QED  BY <2>1, <2>4, <2>5, <2>6, <2>7
<1>2. CASE Disconnect
  <2>1. /\ LinkShape' /\ reported' = reported
        /\ Len(links') = Len(links) /\ DOMAIN links' = DOMAIN links
        /\ DOMAIN sockets' = DOMAIN sockets
        /\ \A m \in DOMAIN links : LinkMayEnd(m)
        /\ \A k \in DOMAIN sockets : SocketAlike(k)
    BY <1>2, DisconnectEffect
  <2>4. LastIsLive'  BY <2>1 DEF LastIsLive, SocketAlike
  <2>5. TimerAlone'  BY <2>1 DEF TimerAlone, SocketAlike, LinkMayEnd
  <2>6. ReadyHasSocket'  BY <2>1 DEF ReadyHasSocket, SocketAlike, LinkMayEnd
  <2>7. ReportedTruly'  BY <1>d, <2>1 DEF ReportedTruly, LinkMayEnd
  <2> QED  BY <2>1, <2>4, <2>5, <2>6, <2>7
<1>3. ASSUME NEW k \in DOMAIN sockets, SocketStep(k) PROVE LinkInv'
  <2> DEFINE l == sockets[k].link
  <2>1. LinkShape' /\ OthersKept(k) /\ l \in DOMAIN links  BY <1>3, <1>o, SocketEffect
  <2>2. CASE LivesOn(k)
    <3>1. LastIsLive'  BY <2>1, <2>2 DEF LastIsLive, OthersKept, LivesOn
    <3>2. TimerAlone'  BY <2>1, <2>2 DEF TimerAlone, OthersKept, LivesOn
    <3>3. ReadyHasSocket'
      <4> SUFFICES ASSUME NEW m \in DOMAIN links', links'[m].ready \/ links'[m].keepalive
                   PROVE  \E j \in DOMAIN sockets' :
                             sockets'[j].link = m /\ sockets'[j].st # "closed"
                             /\ sockets'[j].readied
        BY DEF ReadyHasSocket
      <4>1. CASE m = l /\ sockets'[k].readied
        BY <2>1, <2>2, <4>1 DEF OthersKept, LivesOn
      <4>2. CASE ~(m = l /\ sockets'[k].readied)
        <5>1. links[m].ready \/ links[m].keepalive
          BY <2>1, <2>2, <4>2 DEF OthersKept, LivesOn
        <5>2. PICK j \in DOMAIN sockets :
                 sockets[j].link = m /\ sockets[j].st # "closed" /\ sockets[j].readied
          BY <2>1, <5>1 DEF ReadyHasSocket, OthersKept
        <5> QED  BY <2>1, <2>2, <5>2 DEF OthersKept, LivesOn
      <4> QED  BY <4>1, <4>2
    <3>4. ReportedTruly'
      <4>1. Len(links) = 1 => l = 1  BY <1>d, <2>1
      <4> QED  BY <2>1, <2>2, <4>1 DEF ReportedTruly, OthersKept, LivesOn
    <3> QED  BY <2>1, <3>1, <3>2, <3>3, <3>4
  <2>3. CASE IsGone(k)
    <3>1. LastIsLive'  BY <2>1, <2>3 DEF LastIsLive, OthersKept, IsGone
    <3>2. \A j \in DOMAIN sockets : sockets'[j].link = l => sockets'[j].st = "closed"
      <4> SUFFICES ASSUME NEW j \in DOMAIN sockets, sockets'[j].link = l, j # k
                   PROVE  sockets'[j].st = "closed"
        BY <2>3 DEF IsGone
      <4>1. sockets'[j] = sockets[j] /\ sockets[j].link = l  BY <2>1 DEF OthersKept
      <4>2. j < k \/ k < j  BY <1>d
      <4> QED  BY <2>3, <4>1, <4>2 DEF LastIsLive, IsGone
    <3>3. TimerAlone'
      <4> SUFFICES ASSUME NEW m \in DOMAIN links, links'[m].reconnectTimer
                   PROVE  /\ ~links'[m].closedByUser
                          /\ \A j \in DOMAIN sockets :
                                sockets'[j].link = m => sockets'[j].st = "closed"
        BY <2>1 DEF TimerAlone, OthersKept
      <4>1. CASE m = l
        BY <2>1, <2>3, <3>2, <4>1 DEF TimerAlone, OthersKept, IsGone
      <4>2. CASE m # l
        BY <2>1, <2>3, <4>2 DEF TimerAlone, OthersKept, IsGone
      <4> QED  BY <4>1, <4>2
    <3>4. ReadyHasSocket'
      <4> SUFFICES ASSUME NEW m \in DOMAIN links, links'[m].ready \/ links'[m].keepalive
                   PROVE  \E j \in DOMAIN sockets :
                             sockets'[j].link = m /\ sockets'[j].st # "closed"
                             /\ sockets'[j].readied
        BY <2>1 DEF ReadyHasSocket, OthersKept
      <4>1. m # l /\ links'[m] = links[m]  BY <2>1, <2>3 DEF OthersKept, IsGone
      <4>2. PICK j \in DOMAIN sockets :
               sockets[j].link = m /\ sockets[j].st # "closed" /\ sockets[j].readied
        BY <4>1 DEF ReadyHasSocket
      <4> QED  BY <2>1, <4>1, <4>2 DEF OthersKept
    <3>5. ReportedTruly'
      <4>1. Len(links) = 1 => l = 1  BY <1>d, <2>1
      <4> QED  BY <2>1, <2>3, <4>1 DEF ReportedTruly, OthersKept, IsGone
    <3> QED  BY <2>1, <3>1, <3>3, <3>4, <3>5
  <2> QED  BY <1>3, <2>2, <2>3, SocketEffect
<1>4. ASSUME NEW l \in DOMAIN links, Reconnect(l) PROVE LinkInv'
  <2> DEFINE t == Len(sockets) + 1
  <2>1. /\ LinkShape' /\ reported' = "connecting"
        /\ Len(links') = Len(links) /\ DOMAIN links' = DOMAIN links
        /\ links'[l] = [links[l] EXCEPT !.reconnectTimer = FALSE]
        /\ \A m \in DOMAIN links : m # l => links'[m] = links[m]
        /\ DOMAIN sockets' = 1 .. t /\ sockets'[t] = NewSocket(l, FALSE)
        /\ \A k \in DOMAIN sockets : sockets'[k] = sockets[k]
    BY <1>4, ReconnectEffect
  <2>2. DOMAIN sockets' = DOMAIN sockets \cup {t} /\ t \notin DOMAIN sockets
        /\ \A k \in DOMAIN sockets' : ~(t < k)
    BY <1>d, <2>1
  <2>3. links[l] \in LinkRecord /\ links[l].reconnectTimer
    BY <1>4, <1>d, ElementOfSeq DEF LinkShape, Reconnect
  <2>4. /\ ~links'[l].reconnectTimer /\ links'[l].ready = links[l].ready
        /\ links'[l].keepalive = links[l].keepalive
    BY <2>1, <2>3 DEF LinkRecord
  <2>5. sockets'[t].link = l  BY <2>1 DEF NewSocket
  <2>6. /\ \A k \in DOMAIN sockets : sockets[k].link = l => sockets[k].st = "closed"
        /\ ~links[l].ready /\ ~links[l].keepalive
    BY <2>3 DEF TimerAlone, ReadyHasSocket
  <2>e. /\ DOMAIN links' = DOMAIN links
        /\ \A m \in DOMAIN links : m # l => links'[m] = links[m]
        /\ \A k \in DOMAIN sockets : sockets'[k] = sockets[k]
    BY <2>1
  <2> HIDE DEF t
  <2>7. LastIsLive'
    <3> SUFFICES ASSUME NEW j \in DOMAIN sockets', NEW k \in DOMAIN sockets', j < k,
                        sockets'[j].link = sockets'[k].link
                 PROVE  sockets'[j].st = "closed"
      BY DEF LastIsLive
    <3>1. j \in DOMAIN sockets  BY <2>2
    <3>2. CASE k = t  BY <2>e, <2>5, <2>6, <3>1, <3>2
    <3>3. CASE k # t  BY <2>e, <2>2, <3>1, <3>3 DEF LastIsLive
    <3> QED  BY <3>2, <3>3
  <2>8. TimerAlone'
    <3> SUFFICES ASSUME NEW m \in DOMAIN links, links'[m].reconnectTimer
                 PROVE  /\ ~links'[m].closedByUser
                        /\ \A k \in DOMAIN sockets' :
                              sockets'[k].link = m => sockets'[k].st = "closed"
      BY <2>e DEF TimerAlone
    <3>1. m # l /\ links'[m] = links[m]  BY <2>e, <2>4
    <3> QED  BY <2>e, <2>2, <2>5, <3>1 DEF TimerAlone
  <2>9. ReadyHasSocket'
    <3> SUFFICES ASSUME NEW m \in DOMAIN links, links'[m].ready \/ links'[m].keepalive
                 PROVE  \E k \in DOMAIN sockets' :
                           sockets'[k].link = m /\ sockets'[k].st # "closed"
                           /\ sockets'[k].readied
      BY <2>e DEF ReadyHasSocket
    <3>1. links'[m] = links[m]  BY <2>e, <2>4, <2>6
    <3> QED  BY <2>e, <2>2, <3>1 DEF ReadyHasSocket
  <2>10. ReportedTruly'
    <3>1. Len(links) = 1 => l = 1  BY <1>d
    <3> QED  BY <2>1, <2>4, <2>6, <3>1 DEF ReportedTruly
  <2> QED  BY <2>1, <2>7, <2>8, <2>9, <2>10
<1> QED  BY <1>1, <1>2, <1>3, <1>4 DEF LinkNext

\* The invariant gives the two properties of the link.
LEMMA LinkInvGives == ASSUME LinkInv PROVE OneLiveSocket /\ ReadyMeansLive
<1> USE DEF LinkInv
<1>d. Len(links) \in Nat /\ DOMAIN links = 1 .. Len(links)
      /\ Len(sockets) \in Nat /\ DOMAIN sockets = 1 .. Len(sockets)
  BY LenProperties DEF LinkShape
<1>1. ASSUME NEW l \in DOMAIN links
      PROVE  Cardinality(LiveSockets(l)) + (IF links[l].reconnectTimer THEN 1 ELSE 0) <= 1
  <2>1. LiveSockets(l) \in SUBSET (1 .. Len(sockets))  BY <1>d DEF LiveSockets
  <2>2. ASSUME NEW a \in LiveSockets(l), NEW b \in LiveSockets(l) PROVE a = b
    <3>1. a < b \/ b < a \/ a = b  BY <1>d, <2>1
    <3> QED  BY <3>1 DEF LastIsLive, LiveSockets, Live
  <2>3. Cardinality(LiveSockets(l)) = 0 \/ Cardinality(LiveSockets(l)) = 1
    BY <1>d, <2>1, <2>2, AtMostOne
  <2>4. links[l].reconnectTimer => LiveSockets(l) = {}
    BY DEF TimerAlone, LiveSockets, Live
  <2>5. links[l].reconnectTimer => Cardinality(LiveSockets(l)) = 0
    BY <2>4, FS_EmptySet
  <2> QED  BY <2>3, <2>5
<1>2. ASSUME NEW l \in DOMAIN links, links[l].ready \/ links[l].keepalive
      PROVE  \E k \in LiveSockets(l) : IsSocketOf(k, l) /\ sockets[k].readied
  <2>1. PICK k \in DOMAIN sockets :
           sockets[k].link = l /\ sockets[k].st # "closed" /\ sockets[k].readied
    BY <1>2 DEF ReadyHasSocket
  <2>2. \A j \in DOMAIN sockets : sockets[j].link = l => j <= k
    <3> SUFFICES ASSUME NEW j \in DOMAIN sockets, sockets[j].link = l, ~(j <= k) PROVE FALSE
      OBVIOUS
    <3>1. k < j  BY <1>d
    <3> QED  BY <2>1, <3>1 DEF LastIsLive
  <2> QED  BY <2>1, <2>2 DEF LiveSockets, Live, IsSocketOf
<1> QED  BY <1>1, <1>2 DEF OneLiveSocket, ReadyMeansLive, ReportedTruly

\* A step opens a socket only on a new link or on one that the application
\* has not left.
LEMMA QuietStep ==
    ASSUME LinkInv, LinkNext, NEW k \in DOMAIN sockets' \ DOMAIN sockets,
           sockets'[k].link \in DOMAIN links
    PROVE  ~links[sockets'[k].link].closedByUser
<1> USE DEF LinkInv
<1>d. Len(links) \in Nat /\ DOMAIN links = 1 .. Len(links)
      /\ Len(sockets) \in Nat /\ DOMAIN sockets = 1 .. Len(sockets)
  BY LenProperties DEF LinkShape
<1>1. CASE Connect
  <2>1. k = Len(sockets) + 1 /\ sockets'[k] = NewSocket(Len(links) + 1, TRUE)
    <3>1. DOMAIN sockets' = 1 .. (Len(sockets) + 1)
          /\ sockets'[Len(sockets) + 1] = NewSocket(Len(links) + 1, TRUE)
      BY <1>1, ConnectEffect
    <3>2. k = Len(sockets) + 1  BY <1>d, <3>1
    <3> QED  BY <3>1, <3>2
  <2>2. sockets'[k].link = Len(links) + 1  BY <2>1 DEF NewSocket
  <2> QED  BY <1>d, <2>2
<1>2. CASE Disconnect  BY <1>2, DisconnectEffect
<1>3. ASSUME NEW j \in DOMAIN sockets, SocketStep(j) PROVE FALSE
  BY <1>3, SocketEffect DEF OthersKept
<1>4. ASSUME NEW l \in DOMAIN links, Reconnect(l)
      PROVE  ~links[sockets'[k].link].closedByUser
  <2>1. k = Len(sockets) + 1 /\ sockets'[k] = NewSocket(l, FALSE)
    <3>1. DOMAIN sockets' = 1 .. (Len(sockets) + 1)
          /\ sockets'[Len(sockets) + 1] = NewSocket(l, FALSE)
      BY <1>4, ReconnectEffect
    <3>2. k = Len(sockets) + 1  BY <1>d, <3>1
    <3> QED  BY <3>1, <3>2
  <2>2. sockets'[k].link = l  BY <2>1 DEF NewSocket
  <2> QED  BY <1>4, <2>2 DEF TimerAlone, Reconnect
<1> QED  BY <1>1, <1>2, <1>3, <1>4 DEF LinkNext

---------------------------------------------------------------------------
\* The types of the specification and the shapes used here are the same.
LEMMA P2pShapeIsType == StreamShape /\ QueueShape <=> P2pTypeOK
<1>1. ASSUME NEW S PROVE raws \in Seq(S) => DOMAIN raws = 1 .. Len(raws)
  BY LenProperties
<1>2. ASSUME NEW S PROVE socks \in Seq(S) => DOMAIN socks = 1 .. Len(socks)
  BY LenProperties
<1>3. StreamShape => DOMAIN raws = 1 .. Len(raws) /\ DOMAIN socks = 1 .. Len(socks)
  BY <1>1, <1>2 DEF StreamShape
<1>4. P2pTypeOK => DOMAIN raws = 1 .. Len(raws) /\ DOMAIN socks = 1 .. Len(socks)
  BY <1>1, <1>2 DEF P2pTypeOK
<1> QED
  BY <1>3, <1>4 DEF StreamShape, QueueShape, P2pTypeOK, RawRecord, SockRecord, WireRecord

\* What the shape says of the streams and sockets one by one.
LEMMA StreamShapeGives ==
    ASSUME StreamShape
    PROVE  /\ Len(raws) \in Nat /\ DOMAIN raws = 1 .. Len(raws)
           /\ Len(socks) \in Nat /\ DOMAIN socks = 1 .. Len(socks)
           /\ \A r \in DOMAIN raws :
                 raws[r] \in RawRecord(Len(socks)) /\ raws[r].of \in DOMAIN socks
           /\ \A s \in DOMAIN socks :
                 socks[s] \in SockRecord(Len(raws)) /\ socks[s].raw \in DOMAIN raws
<1>1. /\ Len(raws) \in Nat /\ DOMAIN raws = 1 .. Len(raws)
      /\ Len(socks) \in Nat /\ DOMAIN socks = 1 .. Len(socks)
  BY LenProperties DEF StreamShape
<1>2. \A r \in DOMAIN raws : raws[r] \in RawRecord(Len(socks))
  BY <1>1, ElementOfSeq DEF StreamShape
<1>3. \A s \in DOMAIN socks : socks[s] \in SockRecord(Len(raws))
  BY <1>1, ElementOfSeq DEF StreamShape
<1>4. \A r \in DOMAIN raws : raws[r].of \in DOMAIN socks  BY <1>1, <1>2 DEF RawRecord
<1>5. \A s \in DOMAIN socks : socks[s].raw \in DOMAIN raws  BY <1>1, <1>3 DEF SockRecord
<1> QED  BY <1>1, <1>2, <1>3, <1>4, <1>5

\* now: the streams with some of them ended or failed, and all else kept.
Alike(now) ==
    /\ now \in Seq(RawRecord(Len(socks)))
    /\ Len(now) = Len(raws) /\ DOMAIN now = DOMAIN raws
    /\ \A q \in DOMAIN raws : /\ now[q].of = raws[q].of /\ now[q].opened = raws[q].opened
                              /\ now[q].st = raws[q].st \/ now[q].st = "ended"

\* raw.destroy ends one stream and changes nothing else.
LEMMA DestroyedEffect ==
    ASSUME StreamShape, NEW now, Alike(now), NEW r \in DOMAIN raws
    PROVE  Alike(Destroyed(now, r)) /\ Destroyed(now, r)[r].st = "ended"
<1> DEFINE raw == [now[r] EXCEPT !.st = "ended"]
<1>1. now[r] \in RawRecord(Len(socks))
  BY StreamShapeGives, LenProperties, ElementOfSeq DEF Alike
<1>2. raw \in RawRecord(Len(socks)) /\ raw.of = now[r].of /\ raw.opened = now[r].opened
      /\ raw.st = "ended"
  BY <1>1 DEF RawRecord
<1>3. Destroyed(now, r) = [now EXCEPT ![r] = raw]  BY DEF Destroyed
<1> HIDE DEF raw
<1>4. /\ Destroyed(now, r) \in Seq(RawRecord(Len(socks)))
      /\ Len(Destroyed(now, r)) = Len(now) /\ DOMAIN Destroyed(now, r) = DOMAIN now
      /\ \A q \in DOMAIN now : Destroyed(now, r)[q] = IF q = r THEN raw ELSE now[q]
  BY <1>2, <1>3, Replaced DEF Alike
<1> QED  BY <1>2, <1>4 DEF Alike

\* The streams are like themselves.
LEMMA RawsAlike == ASSUME StreamShape PROVE Alike(raws)
BY DEF StreamShape, Alike

\* An error event ends its stream, if that had not ended, and is its only one.
LEMMA FailedEffect ==
    ASSUME StreamShape, NEW r \in DOMAIN raws
    PROVE  Alike([raws EXCEPT ![r].st = "ended", ![r].failed = TRUE])
<1> DEFINE raw == [raws[r] EXCEPT !.st = "ended", !.failed = TRUE]
           now == [raws EXCEPT ![r] = raw]
<1>1. raws[r] \in RawRecord(Len(socks))  BY StreamShapeGives
<1>2. raw \in RawRecord(Len(socks)) /\ raw.of = raws[r].of /\ raw.opened = raws[r].opened
      /\ raw.st = "ended"
  BY <1>1 DEF RawRecord
<1>3. [raws EXCEPT ![r].st = "ended", ![r].failed = TRUE] = now  OBVIOUS
<1> HIDE DEF raw
<1>4. /\ now \in Seq(RawRecord(Len(socks))) /\ Len(now) = Len(raws) /\ DOMAIN now = DOMAIN raws
      /\ \A q \in DOMAIN raws : now[q] = IF q = r THEN raw ELSE raws[q]
  BY <1>2, Replaced DEF StreamShape
<1> HIDE DEF now
<1>5. Alike(now)  BY <1>2, <1>4 DEF Alike
<1> QED  BY <1>3, <1>5

\* openSocket adds a socket and the stream dialed for it.
LEMMA OpenSocketEffect ==
    ASSUME StreamShape, OpenSocket
    PROVE  LET s == Len(socks) + 1
               r == Len(raws) + 1
           IN  /\ StreamShape'
               /\ Len(socks') = s /\ DOMAIN socks' = 1 .. s /\ DOMAIN raws' = 1 .. r
               /\ raws'[r] = Dialed(s) /\ socks'[s].raw = r
               /\ ~socks'[s].open /\ ~socks'[s].closed
               /\ \A q \in DOMAIN raws : raws'[q] = raws[q]
               /\ \A t \in DOMAIN socks : socks'[t] = socks[t]
               /\ late' = late
<1> DEFINE s == Len(socks) + 1
           r == Len(raws) + 1
           raw == Dialed(s)
           sock == [open |-> FALSE, relayAttempted |-> FALSE, raw |-> r,
                    fallbackTimer |-> relayThrough, closed |-> FALSE]
<1>1. /\ Len(raws) \in Nat /\ DOMAIN raws = 1 .. Len(raws)
      /\ Len(socks) \in Nat /\ DOMAIN socks = 1 .. Len(socks)
  BY StreamShapeGives
<1>2. /\ RawRecord(Len(socks)) \subseteq RawRecord(s)
      /\ SockRecord(Len(raws)) \subseteq SockRecord(r)
  BY <1>1 DEF RawRecord, SockRecord
<1>3. raws \in Seq(RawRecord(s)) /\ socks \in Seq(SockRecord(r))
  BY <1>2, SeqMonotonic DEF StreamShape
<1>4. raw \in RawRecord(s)  BY <1>1 DEF Dialed, RawRecord
<1>5. sock \in SockRecord(r) /\ sock.raw = r /\ ~sock.open /\ ~sock.closed
  BY <1>1 DEF StreamShape, SockRecord
<1>6. raws' = Append(raws, raw)  BY DEF OpenSocket
<1> HIDE DEF raw
<1>7. /\ raws' \in Seq(RawRecord(s)) /\ Len(raws') = r /\ DOMAIN raws' = 1 .. r
      /\ raws'[r] = raw /\ \A q \in DOMAIN raws : raws'[q] = raws[q]
  BY <1>3, <1>4, <1>6, Appended
<1>8. socks' = Append(socks, sock) /\ relayThrough' = relayThrough
  BY <1>7 DEF OpenSocket
<1> HIDE DEF sock
<1>9. /\ socks' \in Seq(SockRecord(r)) /\ Len(socks') = s /\ DOMAIN socks' = 1 .. s
      /\ socks'[s] = sock /\ \A t \in DOMAIN socks : socks'[t] = socks[t]
  BY <1>3, <1>5, <1>8, Appended
<1>10. late' = late /\ late \subseteq 1 .. s
  BY <1>1 DEF OpenSocket, StreamShape
<1>11. StreamShape'
  <2> HIDE DEF s, r
  <2> QED  BY <1>7, <1>8, <1>9, <1>10 DEF StreamShape
<1> QED  BY <1>5, <1>7, <1>9, <1>10, <1>11 DEF raw

\* The fallback ends the socket's stream and gives it one dialed anew.
LEMMA FallbackEffect ==
    ASSUME StreamShape, NEW s \in DOMAIN socks, NEW now, Alike(now),
           TriggerRelayFallback(s, now), UNCHANGED relayThrough,
           late \subseteq late' /\ late' \subseteq late \cup {s}
    PROVE  LET r == Len(raws) + 1
               old == socks[s].raw
           IN  /\ StreamShape'
               /\ Len(socks') = Len(socks) /\ DOMAIN socks' = DOMAIN socks
               /\ DOMAIN raws' = 1 .. r /\ raws'[r] = Dialed(s)
               /\ raws'[old].st = "ended"
               /\ \A q \in DOMAIN raws :
                     /\ raws'[q].of = raws[q].of /\ raws'[q].opened = raws[q].opened
                     /\ raws'[q].st = raws[q].st \/ raws'[q].st = "ended"
               /\ socks'[s].raw = r /\ ~socks'[s].fallbackTimer
               /\ socks'[s].open = socks[s].open /\ socks'[s].closed = socks[s].closed
               /\ \A t \in DOMAIN socks : t # s => socks'[t] = socks[t]
<1> DEFINE r == Len(raws) + 1
           old == socks[s].raw
           raw == Dialed(s)
           sock == [socks[s] EXCEPT !.relayAttempted = TRUE, !.fallbackTimer = FALSE, !.raw = r]
<1>1. /\ Len(raws) \in Nat /\ DOMAIN raws = 1 .. Len(raws)
      /\ Len(socks) \in Nat /\ DOMAIN socks = 1 .. Len(socks)
      /\ old \in DOMAIN raws /\ socks[s] \in SockRecord(Len(raws))
  BY StreamShapeGives
<1>2. SockRecord(Len(raws)) \subseteq SockRecord(r)  BY <1>1 DEF SockRecord
<1>3. socks \in Seq(SockRecord(r)) /\ socks[s] \in SockRecord(r)
  BY <1>1, <1>2, SeqMonotonic DEF StreamShape
<1>4. raw \in RawRecord(Len(socks))  BY <1>1 DEF Dialed, RawRecord
<1>5. sock \in SockRecord(r) /\ sock.raw = r /\ ~sock.fallbackTimer
      /\ sock.open = socks[s].open /\ sock.closed = socks[s].closed
  <2>1. r \in 1 .. r  BY <1>1
  <2> HIDE DEF r
  <2> QED  BY <1>3, <2>1 DEF SockRecord
<1> DEFINE then == Destroyed(now, old)
<1>6. raws' = Append(then, raw)  BY DEF TriggerRelayFallback
<1>7. Alike(then) /\ then[old].st = "ended"  BY <1>1, DestroyedEffect
<1> HIDE DEF raw, then
<1>8. /\ raws' \in Seq(RawRecord(Len(socks))) /\ Len(raws') = r /\ DOMAIN raws' = 1 .. r
      /\ raws'[r] = raw /\ \A q \in DOMAIN raws : raws'[q] = then[q]
  BY <1>4, <1>6, <1>7, Appended DEF Alike
<1>9. socks' = [socks EXCEPT ![s] = sock]
  BY <1>8 DEF TriggerRelayFallback
<1> HIDE DEF sock
<1>10. /\ socks' \in Seq(SockRecord(r)) /\ Len(socks') = Len(socks)
       /\ DOMAIN socks' = DOMAIN socks
       /\ \A t \in DOMAIN socks : socks'[t] = IF t = s THEN sock ELSE socks[t]
  BY <1>3, <1>5, <1>9, Replaced
<1>11. StreamShape'
  <2>1. late' \subseteq 1 .. Len(socks)  BY <1>1 DEF StreamShape
  <2> HIDE DEF r
  <2> QED  BY <1>8, <1>10, <2>1 DEF StreamShape
<1>12. /\ raws'[old].st = "ended"
       /\ \A q \in DOMAIN raws :
             /\ raws'[q].of = raws[q].of /\ raws'[q].opened = raws[q].opened
             /\ raws'[q].st = raws[q].st \/ raws'[q].st = "ended"
  BY <1>1, <1>7, <1>8 DEF Alike
<1> QED  BY <1>5, <1>8, <1>10, <1>11, <1>12 DEF raw

\* One socket's record replaced.
LEMMA SockReplaced ==
    ASSUME StreamShape, NEW s \in DOMAIN socks, NEW sock \in SockRecord(Len(raws)),
           socks' = [socks EXCEPT ![s] = sock]
    PROVE  /\ socks' \in Seq(SockRecord(Len(raws))) /\ Len(socks') = Len(socks)
           /\ DOMAIN socks' = DOMAIN socks /\ socks'[s] = sock
           /\ \A t \in DOMAIN socks : t # s => socks'[t] = socks[t]
BY Replaced DEF StreamShape

\* The streams' part of the invariant holds at first.
LEMMA StreamInitially == ASSUME P2pInit PROVE StreamInv
<1>1. socks = <<>> /\ raws = <<>> /\ relayThrough \in BOOLEAN /\ late = {}  BY DEF P2pInit
<1>2. DOMAIN socks = {} /\ DOMAIN raws = {} /\ raws \in Seq(RawRecord(Len(socks)))
      /\ socks \in Seq(SockRecord(Len(raws)))
  BY <1>1
<1> QED  BY <1>1, <1>2 DEF StreamInv, StreamShape, OwnStream, ClosedIsOver, OpenIsOpened

\* Falling back keeps it, on a socket that is not open and was not closed, or
\* was closed before the error came.
LEMMA StreamFallback ==
    ASSUME StreamInv, NEW s \in DOMAIN socks, ~socks[s].open, NEW now, Alike(now),
           TriggerRelayFallback(s, now), UNCHANGED relayThrough,
           late \subseteq late' /\ late' \subseteq late \cup {s},
           socks[s].closed => s \in late'
    PROVE  StreamInv'
<1> USE DEF StreamInv
<1> DEFINE r == Len(raws) + 1
           old == socks[s].raw
<1>1. /\ Len(raws) \in Nat /\ DOMAIN raws = 1 .. Len(raws)
      /\ \A q \in DOMAIN raws : raws[q].of \in DOMAIN socks
      /\ \A t \in DOMAIN socks : socks[t].raw \in DOMAIN raws
  BY StreamShapeGives
<1>2. /\ StreamShape' /\ DOMAIN socks' = DOMAIN socks
      /\ DOMAIN raws' = 1 .. r /\ raws'[r] = Dialed(s)
      /\ raws'[old].st = "ended"
      /\ \A q \in DOMAIN raws :
            /\ raws'[q].of = raws[q].of /\ raws'[q].opened = raws[q].opened
            /\ raws'[q].st = raws[q].st \/ raws'[q].st = "ended"
      /\ socks'[s].raw = r /\ ~socks'[s].open /\ ~socks'[s].fallbackTimer
      /\ socks'[s].closed = socks[s].closed
      /\ \A t \in DOMAIN socks : t # s => socks'[t] = socks[t]
  BY FallbackEffect
<1>3. r \notin DOMAIN raws /\ DOMAIN raws' = DOMAIN raws \cup {r}  BY <1>1, <1>2
<1>4. raws'[r].of = s  BY <1>2 DEF Dialed
<1> HIDE DEF r
<1>5. \A t \in DOMAIN socks : t # s =>
         /\ socks'[t] = socks[t] /\ socks[t].raw \in DOMAIN raws
         /\ raws'[socks[t].raw].of = raws[socks[t].raw].of
         /\ raws'[socks[t].raw].opened = raws[socks[t].raw].opened
         /\ raws'[socks[t].raw].st = raws[socks[t].raw].st \/ raws'[socks[t].raw].st = "ended"
  BY <1>1, <1>2
<1>7. OwnStream'
  <2>1. ASSUME NEW t \in DOMAIN socks PROVE raws'[socks'[t].raw].of = t
    <3>1. CASE t = s  BY <1>2, <1>4, <3>1
    <3>2. CASE t # s  BY <1>5, <3>2 DEF OwnStream
    <3> QED  BY <3>1, <3>2
  <2>2. ASSUME NEW q \in DOMAIN raws', raws'[q].st # "ended"
        PROVE  q = socks'[raws'[q].of].raw
    <3>1. CASE q = r  BY <1>2, <1>4, <3>1
    <3>2. CASE q # r
      <4>1. q \in DOMAIN raws /\ q # old  BY <1>2, <1>3, <2>2, <3>2
      <4>2. raws'[q].of = raws[q].of /\ q = socks[raws[q].of].raw
        BY <1>2, <2>2, <4>1 DEF OwnStream
      <4>3. raws[q].of # s  BY <4>1, <4>2 DEF old
      <4> QED  BY <1>1, <1>2, <4>1, <4>2, <4>3
    <3> QED  BY <3>1, <3>2
  <2> QED  BY <1>2, <2>1, <2>2 DEF OwnStream
<1>8. ClosedIsOver'
  <2> SUFFICES ASSUME NEW t \in DOMAIN socks, socks'[t].closed
               PROVE  ~socks'[t].fallbackTimer
                      /\ (raws'[socks'[t].raw].st = "ended" \/ t \in late')
    BY <1>2 DEF ClosedIsOver
  <2>1. CASE t = s  BY <1>2, <2>1
  <2>2. CASE t # s  BY <1>5, <2>2 DEF ClosedIsOver
  <2> QED  BY <2>1, <2>2
<1>9. OpenIsOpened'
  <2> SUFFICES ASSUME NEW t \in DOMAIN socks, socks'[t].open
               PROVE  raws'[socks'[t].raw].opened
    BY <1>2 DEF OpenIsOpened
  <2>1. t # s  BY <1>2
  <2> QED  BY <1>5, <2>1 DEF OpenIsOpened
<1> QED  BY <1>2, <1>7, <1>8, <1>9

\* Ending streams keeps it, and also when a socket is closed by that.
LEMMA StreamEnds ==
    ASSUME StreamInv, NEW s \in DOMAIN socks, Alike(raws'), UNCHANGED relayThrough,
           late \subseteq late' /\ late' \subseteq late \cup {s},
           \/ UNCHANGED socks
           \/ raws'[socks[s].raw].st = "ended"
              /\ socks' = [socks EXCEPT ![s].closed = TRUE, ![s].fallbackTimer = FALSE]
    PROVE  StreamInv' /\ Len(socks') = Len(socks)
           /\ \A t \in DOMAIN socks : socks'[t].open = socks[t].open
<1> USE DEF StreamInv
<1> DEFINE sock == [socks[s] EXCEPT !.closed = TRUE, !.fallbackTimer = FALSE]
<1>1. /\ Len(raws) \in Nat /\ DOMAIN raws = 1 .. Len(raws)
      /\ \A q \in DOMAIN raws : raws[q].of \in DOMAIN socks
      /\ \A t \in DOMAIN socks : socks[t].raw \in DOMAIN raws
      /\ socks[s] \in SockRecord(Len(raws))
  BY StreamShapeGives
<1>2. /\ raws' \in Seq(RawRecord(Len(socks))) /\ Len(raws') = Len(raws)
      /\ DOMAIN raws' = DOMAIN raws
      /\ \A q \in DOMAIN raws : /\ raws'[q].of = raws[q].of /\ raws'[q].opened = raws[q].opened
                                /\ raws'[q].st = raws[q].st \/ raws'[q].st = "ended"
  BY DEF Alike
<1>3. /\ sock \in SockRecord(Len(raws)) /\ sock.open = socks[s].open
      /\ sock.raw = socks[s].raw /\ sock.closed /\ ~sock.fallbackTimer
  BY <1>1 DEF SockRecord
<1>4. /\ socks' \in Seq(SockRecord(Len(raws))) /\ Len(socks') = Len(socks)
      /\ DOMAIN socks' = DOMAIN socks
      /\ \A t \in DOMAIN socks :
            /\ socks'[t].open = socks[t].open /\ socks'[t].raw = socks[t].raw
            /\ \/ socks'[t].closed = socks[t].closed
                  /\ socks'[t].fallbackTimer = socks[t].fallbackTimer
               \/ ~socks'[t].fallbackTimer /\ raws'[socks[t].raw].st = "ended"
  <2>1. CASE UNCHANGED socks  BY <2>1 DEF StreamShape
  <2>2. CASE raws'[socks[s].raw].st = "ended"
             /\ socks' = [socks EXCEPT ![s].closed = TRUE, ![s].fallbackTimer = FALSE]
    <3>1. socks' = [socks EXCEPT ![s] = sock]  BY <2>2
    <3> HIDE DEF sock
    <3>2. /\ socks' \in Seq(SockRecord(Len(raws))) /\ Len(socks') = Len(socks)
          /\ DOMAIN socks' = DOMAIN socks /\ socks'[s] = sock
          /\ \A t \in DOMAIN socks : t # s => socks'[t] = socks[t]
      BY <1>3, <3>1, SockReplaced
    <3> QED  BY <1>3, <2>2, <3>2
  <2> QED  BY <2>1, <2>2
<1>5. StreamShape'
  <2>1. late' \subseteq 1 .. Len(socks)  BY StreamShapeGives DEF StreamShape
  <2> QED  BY <1>2, <1>4, <2>1 DEF StreamShape
<1>6. OwnStream'
  <2>1. ASSUME NEW t \in DOMAIN socks PROVE raws'[socks'[t].raw].of = t
    <3>1. raws[socks[t].raw].of = t  BY DEF OwnStream
    <3>2. socks[t].raw \in DOMAIN raws  BY <1>1
    <3> QED  BY <1>2, <1>4, <3>1, <3>2
  <2>2. ASSUME NEW q \in DOMAIN raws, raws'[q].st # "ended"
        PROVE  q = socks'[raws'[q].of].raw
    <3>1. raws'[q].of = raws[q].of /\ raws[q].st # "ended" /\ raws[q].of \in DOMAIN socks
      BY <1>1, <1>2, <2>2
    <3>2. q = socks[raws[q].of].raw  BY <3>1 DEF OwnStream
    <3> QED  BY <1>4, <3>1, <3>2
  <2> QED  BY <1>2, <1>4, <2>1, <2>2 DEF OwnStream
<1>7. ClosedIsOver'  BY <1>1, <1>2, <1>4 DEF ClosedIsOver
<1>8. OpenIsOpened'  BY <1>1, <1>2, <1>4 DEF OpenIsOpened
<1> QED  BY <1>4, <1>5, <1>6, <1>7, <1>8

\* A stream's open event opens its socket, which is still the one it was
\* dialed for.
LEMMA StreamOpens ==
    ASSUME StreamInv, NEW r \in DOMAIN raws, Opened(r)
    PROVE  /\ StreamInv' /\ Len(socks') = Len(socks) /\ DOMAIN socks' = DOMAIN socks
           /\ socks'[raws[r].of].open
           /\ \A t \in DOMAIN socks : t # raws[r].of => socks'[t] = socks[t]
<1> USE DEF StreamInv
<1> DEFINE s == raws[r].of
           raw == [raws[r] EXCEPT !.st = "open", !.opened = TRUE]
           sock == [socks[s] EXCEPT !.open = TRUE, !.fallbackTimer = FALSE]
<1>1. /\ \A q \in DOMAIN raws : raws[q].of \in DOMAIN socks
      /\ \A t \in DOMAIN socks : socks[t].raw \in DOMAIN raws
      /\ s \in DOMAIN socks
      /\ raws[r] \in RawRecord(Len(socks)) /\ socks[s] \in SockRecord(Len(raws))
  BY StreamShapeGives
<1>2. /\ raws' = [raws EXCEPT ![r] = raw] /\ socks' = [socks EXCEPT ![s] = sock]
      /\ raws[r].st = "dialing" /\ relayThrough' = relayThrough /\ late' = late
  BY DEF Opened
<1>3. raw \in RawRecord(Len(socks)) /\ raw.of = s /\ raw.opened
  BY <1>1 DEF RawRecord
<1>4. sock \in SockRecord(Len(raws)) /\ sock.raw = socks[s].raw /\ sock.open
      /\ sock.closed = socks[s].closed /\ ~sock.fallbackTimer
  BY <1>1 DEF SockRecord
<1> HIDE DEF raw, sock
<1>5. /\ socks' \in Seq(SockRecord(Len(raws))) /\ Len(socks') = Len(socks)
      /\ DOMAIN socks' = DOMAIN socks /\ socks'[s] = sock
      /\ \A t \in DOMAIN socks : t # s => socks'[t] = socks[t]
  BY <1>1, <1>2, <1>4, SockReplaced
<1>6. /\ raws' \in Seq(RawRecord(Len(socks))) /\ Len(raws') = Len(raws)
      /\ DOMAIN raws' = DOMAIN raws
      /\ \A q \in DOMAIN raws : raws'[q] = IF q = r THEN raw ELSE raws[q]
  BY <1>2, <1>3, Replaced DEF StreamShape
<1>7. r = socks[s].raw  BY <1>2 DEF OwnStream
<1>8. StreamShape'  BY <1>2, <1>5, <1>6 DEF StreamShape
<1>a. \A t \in DOMAIN socks : socks'[t].raw = socks[t].raw /\ socks'[t].closed = socks[t].closed
                              /\ (t # s => socks[t].raw # r)
  BY <1>4, <1>5 DEF OwnStream
<1>b. \A q \in DOMAIN raws : raws'[q].of = raws[q].of /\ (q # r => raws'[q] = raws[q])
  BY <1>3, <1>6
<1> HIDE DEF s
<1>9. OwnStream'
  <2>1. ASSUME NEW t \in DOMAIN socks PROVE raws'[socks'[t].raw].of = t
    <3>1. raws[socks[t].raw].of = t  BY DEF OwnStream
    <3>2. socks[t].raw \in DOMAIN raws  BY <1>1
    <3> QED  BY <1>a, <1>b, <3>1, <3>2
  <2>2. ASSUME NEW q \in DOMAIN raws, raws'[q].st # "ended"
        PROVE  q = socks'[raws'[q].of].raw
    <3>1. CASE q = r  BY <1>1, <1>7, <1>a, <1>b, <3>1 DEF s
    <3>2. CASE q # r
      <4>1. raws'[q] = raws[q] /\ raws[q].of \in DOMAIN socks  BY <1>1, <1>b, <3>2
      <4>2. q = socks[raws[q].of].raw  BY <2>2, <4>1 DEF OwnStream
      <4> QED  BY <1>a, <4>1, <4>2
    <3> QED  BY <3>1, <3>2
  <2> QED  BY <1>5, <1>6, <2>1, <2>2 DEF OwnStream
<1>11. ClosedIsOver'
  <2> SUFFICES ASSUME NEW t \in DOMAIN socks, socks'[t].closed
               PROVE  ~socks'[t].fallbackTimer
                      /\ (raws'[socks'[t].raw].st = "ended" \/ t \in late')
    BY <1>5 DEF ClosedIsOver
  <2>1. CASE t = s
    <3>1. socks[s].closed => s \in late  BY <1>1, <1>2, <1>7 DEF ClosedIsOver
    <3> QED  BY <1>2, <1>4, <1>5, <2>1, <3>1
  <2>2. CASE t # s
    <3>1. socks'[t] = socks[t] /\ socks[t].raw # r /\ socks[t].raw \in DOMAIN raws
      BY <1>1, <1>5, <1>a, <2>2
    <3> QED  BY <1>2, <1>b, <3>1 DEF ClosedIsOver
  <2> QED  BY <2>1, <2>2
<1>12. OpenIsOpened'
  <2> SUFFICES ASSUME NEW t \in DOMAIN socks, socks'[t].open
               PROVE  raws'[socks'[t].raw].opened
    BY <1>5 DEF OpenIsOpened
  <2>1. CASE t = s  BY <1>3, <1>6, <1>7, <1>a, <2>1
  <2>2. CASE t # s
    <3>1. socks'[t] = socks[t] /\ socks[t].raw # r /\ socks[t].raw \in DOMAIN raws
      BY <1>1, <1>5, <1>a, <2>2
    <3> QED  BY <1>b, <3>1 DEF OpenIsOpened
  <2> QED  BY <2>1, <2>2
<1> QED  BY <1>4, <1>5, <1>8, <1>9, <1>11, <1>12 DEF s

\* openSocket keeps it.
LEMMA StreamDials ==
    ASSUME StreamInv, OpenSocket
    PROVE  StreamInv'
<1> USE DEF StreamInv
<1> DEFINE s == Len(socks) + 1
           r == Len(raws) + 1
<1>1. /\ Len(raws) \in Nat /\ DOMAIN raws = 1 .. Len(raws)
      /\ Len(socks) \in Nat /\ DOMAIN socks = 1 .. Len(socks)
      /\ \A q \in DOMAIN raws : raws[q].of \in DOMAIN socks
      /\ \A t \in DOMAIN socks : socks[t].raw \in DOMAIN raws
  BY StreamShapeGives
<1>2. /\ StreamShape' /\ DOMAIN socks' = 1 .. s /\ DOMAIN raws' = 1 .. r
      /\ raws'[r] = Dialed(s) /\ socks'[s].raw = r
      /\ ~socks'[s].open /\ ~socks'[s].closed
      /\ \A q \in DOMAIN raws : raws'[q] = raws[q]
      /\ \A t \in DOMAIN socks : socks'[t] = socks[t]
      /\ late' = late
  BY OpenSocketEffect
<1>3. DOMAIN socks' = DOMAIN socks \cup {s} /\ DOMAIN raws' = DOMAIN raws \cup {r}
  BY <1>1, <1>2
<1>4. raws'[r].of = s  BY <1>2 DEF Dialed
<1>5. /\ \A q \in DOMAIN raws : raws'[q] = raws[q]
      /\ \A t \in DOMAIN socks : socks'[t] = socks[t]
      /\ socks'[s].raw = r /\ ~socks'[s].open /\ ~socks'[s].closed
      /\ \A q \in DOMAIN raws : raws[q].of \in DOMAIN socks
      /\ \A t \in DOMAIN socks : socks[t].raw \in DOMAIN raws
      /\ late' = late
  BY <1>1, <1>2
<1> HIDE DEF s, r
<1>6. OwnStream'  BY <1>3, <1>4, <1>5 DEF OwnStream
<1>7. ClosedIsOver'  BY <1>3, <1>5 DEF ClosedIsOver
<1>8. OpenIsOpened'  BY <1>3, <1>5 DEF OpenIsOpened
<1> QED  BY <1>2, <1>6, <1>7, <1>8

\* The streams' part of the invariant is kept by every step.
LEMMA StreamStep == ASSUME StreamInv, P2pNext PROVE StreamInv'
<1>s. StreamShape  BY DEF StreamInv
<1>1. CASE OpenSocket  BY <1>1, StreamDials
<1>2. ASSUME NEW r \in DOMAIN raws, Opened(r) PROVE StreamInv'  BY <1>2, StreamOpens
<1>3. ASSUME NEW r \in DOMAIN raws, Failed(r) PROVE StreamInv'
  <2> DEFINE s == raws[r].of
             now == [raws EXCEPT ![r].st = "ended", ![r].failed = TRUE]
  <2>1. s \in DOMAIN socks  BY <1>s, StreamShapeGives
  <2>2. relayThrough' = relayThrough
        /\ late \subseteq late' /\ late' \subseteq late \cup {s}
        /\ (socks[s].closed => s \in late')
    BY <1>3 DEF Failed
  <2>3. Alike(now)  BY <1>s, FailedEffect
  <2>4. IF MayFallBack(s) /\ relayThrough
        THEN TriggerRelayFallback(s, now)
        ELSE raws' = now /\ UNCHANGED socks
    BY <1>3 DEF Failed
  <2> HIDE DEF now, s
  <2>5. CASE MayFallBack(s) /\ relayThrough
    <3>1. TriggerRelayFallback(s, now) /\ ~socks[s].open  BY <2>4, <2>5 DEF MayFallBack
    <3> QED  BY <2>1, <2>2, <2>3, <3>1, StreamFallback
  <2>6. CASE ~(MayFallBack(s) /\ relayThrough)
    <3>1. raws' = now /\ UNCHANGED socks  BY <2>4, <2>6
    <3>2. Alike(raws')  BY <2>3, <3>1
    <3> QED  BY <2>1, <2>2, <3>1, <3>2, StreamEnds
  <2> QED  BY <2>5, <2>6
<1>4. ASSUME NEW s \in DOMAIN socks, FallbackTimeout(s) PROVE StreamInv'
  <2>1. socks[s].fallbackTimer /\ relayThrough' = relayThrough /\ late' = late
    BY <1>4 DEF FallbackTimeout
  <2>2. CASE MayFallBack(s)
    <3>1. ~socks[s].closed  BY <2>1 DEF StreamInv, ClosedIsOver
    <3>2. TriggerRelayFallback(s, raws) /\ ~socks[s].open
      BY <1>4, <2>2 DEF FallbackTimeout, MayFallBack
    <3>3. late \subseteq late' /\ late' \subseteq late \cup {s}  BY <2>1
    <3> QED  BY <1>s, <2>1, <3>1, <3>2, <3>3, RawsAlike, StreamFallback
  <2>3. CASE ~MayFallBack(s)
    <3> DEFINE sock == [socks[s] EXCEPT !.fallbackTimer = FALSE]
    <3>1. raws' = raws /\ socks' = [socks EXCEPT ![s] = sock]  BY <1>4, <2>3 DEF FallbackTimeout
    <3>2. socks[s] \in SockRecord(Len(raws))  BY <1>s, StreamShapeGives
    <3>3. sock \in SockRecord(Len(raws)) /\ sock.open = socks[s].open
          /\ sock.raw = socks[s].raw /\ sock.closed = socks[s].closed /\ ~sock.fallbackTimer
      BY <3>2 DEF SockRecord
    <3> HIDE DEF sock
    <3>4. /\ socks' \in Seq(SockRecord(Len(raws))) /\ Len(socks') = Len(socks)
          /\ DOMAIN socks' = DOMAIN socks /\ socks'[s] = sock
          /\ \A t \in DOMAIN socks : t # s => socks'[t] = socks[t]
      BY <1>s, <3>1, <3>3, SockReplaced
    <3>5. \A t \in DOMAIN socks :
             /\ socks'[t].open = socks[t].open /\ socks'[t].raw = socks[t].raw
             /\ socks'[t].closed = socks[t].closed
             /\ socks'[t].fallbackTimer => socks[t].fallbackTimer
      BY <3>3, <3>4
    <3>6. \A q \in DOMAIN raws : raws[q].of \in DOMAIN socks  BY <1>s, StreamShapeGives
    <3>7. StreamShape'  BY <1>s, <2>1, <3>1, <3>4 DEF StreamShape
    <3>8. OwnStream'  BY <3>1, <3>4, <3>5, <3>6 DEF StreamInv, OwnStream
    <3>9. ClosedIsOver'  BY <2>1, <3>1, <3>4, <3>5 DEF StreamInv, ClosedIsOver
    <3>10. OpenIsOpened'  BY <3>1, <3>4, <3>5 DEF StreamInv, OpenIsOpened
    <3> QED  BY <3>7, <3>8, <3>9, <3>10 DEF StreamInv
  <2> QED  BY <2>2, <2>3
<1>5. ASSUME NEW s \in DOMAIN socks, CloseSocket(s) PROVE StreamInv'
  <2>1. socks[s].raw \in DOMAIN raws  BY <1>s, StreamShapeGives
  <2>2. /\ raws' = Destroyed(raws, socks[s].raw) /\ UNCHANGED <<relayThrough, late>>
        /\ socks' = [socks EXCEPT ![s].closed = TRUE, ![s].fallbackTimer = FALSE]
    BY <1>5 DEF CloseSocket
  <2>3. Alike(raws') /\ raws'[socks[s].raw].st = "ended"
    BY <1>s, <2>1, <2>2, RawsAlike, DestroyedEffect
  <2> QED  BY <2>2, <2>3, StreamEnds
<1>6. ASSUME NEW s, Send(s) PROVE StreamInv'
  <2>1. UNCHANGED <<relayThrough, socks, raws, late>>  BY <1>6 DEF Send
  <2> QED  BY <2>1 DEF StreamInv, StreamShape, OwnStream, ClosedIsOver, OpenIsOpened
<1> QED  BY <1>1, <1>2, <1>3, <1>4, <1>5, <1>6 DEF P2pNext

---------------------------------------------------------------------------
\* raw.write adds the frames, in their order, at the end.
LEMMA WrittenEffect ==
    ASSUME QueueShape, NEW frames \in Seq(1 .. MaxFrames), NEW raw, raw.opened = TRUE
    PROVE  /\ Written(frames, raw) \in Seq(WireRecord)
           /\ Len(Written(frames, raw)) = Len(wire) + Len(frames)
           /\ \A i \in 1 .. Len(wire) : Written(frames, raw)[i] = wire[i]
           /\ \A i \in 1 .. Len(frames) :
                 /\ Written(frames, raw)[Len(wire) + i].frame = frames[i]
                 /\ Written(frames, raw)[Len(wire) + i].opened
<1> DEFINE new == [i \in DOMAIN frames |-> [frame |-> frames[i], opened |-> raw.opened]]
           n == Len(frames)
<1>1. n \in Nat /\ DOMAIN frames = 1 .. n /\ \A i \in 1 .. n : frames[i] \in 1 .. MaxFrames
  BY LenProperties, ElementOfSeq
<1>2. \A i \in 1 .. n : /\ new[i] \in WireRecord /\ new[i].frame = frames[i]
                        /\ new[i].opened
  BY <1>1 DEF WireRecord
<1>3. new \in [1 .. n -> WireRecord]  BY <1>1 DEF WireRecord
<1>4. Written(frames, raw) = wire \o new  BY DEF Written
<1> HIDE DEF new
<1>5. new \in Seq(WireRecord) /\ Len(new) = n  BY <1>1, <1>3, IsSequence
<1>6. wire \in Seq(WireRecord)  BY DEF QueueShape
<1>7. /\ wire \o new \in Seq(WireRecord) /\ Len(wire \o new) = Len(wire) + Len(new)
      /\ \A i \in 1 .. Len(wire) : (wire \o new)[i] = wire[i]
      /\ \A i \in 1 .. Len(new) : (wire \o new)[Len(wire) + i] = new[i]
  <2>1. \A a, b \in Seq(WireRecord) :
           /\ a \o b \in Seq(WireRecord) /\ Len(a \o b) = Len(a) + Len(b)
           /\ \A i \in 1 .. Len(a) : (a \o b)[i] = a[i]
           /\ \A i \in 1 .. Len(b) : (a \o b)[Len(a) + i] = b[i]
    BY Joined
  <2> QED  BY <1>5, <1>6, <2>1, Zenon
<1> QED  BY <1>2, <1>4, <1>5, <1>7

\* The queue's part of the invariant holds at first.
LEMMA QueueInitially == ASSUME P2pInit PROVE QueueInv
<1>1. /\ socks = <<>> /\ outbox = <<>> /\ wire = <<>> /\ sent = 0 /\ spinning = FALSE
  BY DEF P2pInit
<1>2. /\ outbox \in Seq(1 .. MaxFrames) /\ wire \in Seq(WireRecord)
      /\ Len(wire) + Len(outbox) = 0 /\ DOMAIN wire = {} /\ DOMAIN outbox = {}
  BY <1>1
<1>3. sent \in 0 .. MaxFrames  BY <1>1, P2pAssumption
<1> QED  BY <1>1, <1>2, <1>3 DEF QueueInv, QueueShape, NoneWaitsForOpen, Counted

\* It is kept by steps that leave the queue alone and open no newest socket.
LEMMA QueueKept ==
    ASSUME QueueInv, UNCHANGED <<outbox, wire, sent, spinning>>,
           socks' # <<>> /\ socks'[Len(socks')].open => socks # <<>> /\ socks[Len(socks)].open
    PROVE  QueueInv'
BY DEF QueueInv, QueueShape, NoneWaitsForOpen, Counted

\* Sending keeps it: the queue is empty when the frame is written at once.
LEMMA QueueSends ==
    ASSUME StreamInv, QueueInv, socks # <<>>, Send(Len(socks))
    PROVE  QueueInv'
<1> USE DEF QueueInv
<1> DEFINE s == Len(socks)
           f == sent + 1
<1>1. /\ Len(wire) \in Nat /\ DOMAIN wire = 1 .. Len(wire)
      /\ Len(outbox) \in Nat /\ DOMAIN outbox = 1 .. Len(outbox)
      /\ sent \in Nat /\ MaxFrames \in Nat
  BY LenProperties, P2pAssumption DEF QueueShape
<1>2. /\ f \in 1 .. MaxFrames /\ sent' = f /\ f \in 0 .. MaxFrames /\ spinning' = spinning
      /\ socks' = socks
  BY <1>1 DEF Send
<1>3. CASE socks[s].open
  <2> DEFINE raw == raws[socks[s].raw]
  <2>1. outbox = <<>> /\ wire' = Written(<<f>>, raw) /\ outbox' = outbox
    BY <1>3 DEF NoneWaitsForOpen, Send
  <2>2. s \in DOMAIN socks  BY LenProperties, EmptySeq DEF StreamInv, StreamShape
  <2>3. raw.opened = TRUE
    <3>1. raw.opened  BY <1>3, <2>2 DEF StreamInv, OpenIsOpened
    <3>2. raw.opened \in BOOLEAN
      BY <2>2, StreamShapeGives DEF StreamInv, RawRecord
    <3> QED  BY <3>1, <3>2
  <2>4. <<f>> \in Seq(1 .. MaxFrames) /\ Len(<<f>>) = 1 /\ <<f>>[1] = f /\ Len(outbox) = 0
    BY <1>2, <2>1
  <2> HIDE DEF raw
  <2>5. /\ wire' \in Seq(WireRecord) /\ Len(wire') = Len(wire) + 1
        /\ \A i \in 1 .. Len(wire) : wire'[i] = wire[i]
        /\ wire'[Len(wire) + 1].frame = f /\ wire'[Len(wire) + 1].opened
    <3>0. QueueShape  OBVIOUS
    <3> DEFINE one == <<f>>
    <3>1. one \in Seq(1 .. MaxFrames) /\ Len(one) = 1 /\ one[1] = f /\ wire' = Written(one, raw)
      BY <2>1, <2>4
    <3> HIDE DEF one
    <3>2. /\ wire' \in Seq(WireRecord) /\ Len(wire') = Len(wire) + Len(one)
          /\ \A i \in 1 .. Len(wire) : wire'[i] = wire[i]
          /\ \A i \in 1 .. Len(one) : /\ wire'[Len(wire) + i].frame = one[i]
                                      /\ wire'[Len(wire) + i].opened
      <4>1. \A frames \in Seq(1 .. MaxFrames) :
               /\ Written(frames, raw) \in Seq(WireRecord)
               /\ Len(Written(frames, raw)) = Len(wire) + Len(frames)
               /\ \A i \in 1 .. Len(wire) : Written(frames, raw)[i] = wire[i]
               /\ \A i \in 1 .. Len(frames) :
                     /\ Written(frames, raw)[Len(wire) + i].frame = frames[i]
                     /\ Written(frames, raw)[Len(wire) + i].opened
        BY <2>3, <3>0, WrittenEffect
      <4> QED  BY <3>1, <4>1, Zenon
    <3>3. 1 \in 1 .. Len(one)  BY <3>1
    <3> QED  BY <3>1, <3>2, <3>3
  <2>6. DOMAIN wire' = 1 .. (Len(wire) + 1) /\ Len(wire) = sent
    BY <1>1, <2>4, <2>5, LenProperties DEF Counted
  <2>7. ASSUME NEW i \in DOMAIN wire' PROVE wire'[i].frame = i /\ wire'[i].opened
    <3>1. CASE i = Len(wire) + 1  BY <2>5, <2>6, <3>1
    <3>2. CASE i # Len(wire) + 1
      <4>1. i \in DOMAIN wire /\ wire'[i] = wire[i]  BY <1>1, <2>5, <2>6, <3>2
      <4> QED  BY <4>1 DEF Counted
    <3> QED  BY <3>1, <3>2
  <2>8. Counted'
    <3>1. Len(wire') + Len(outbox') = sent'  BY <1>1, <1>2, <2>1, <2>4, <2>5, <2>6
    <3>2. DOMAIN outbox' = {}  BY <2>1
    <3> QED  BY <2>7, <3>1, <3>2 DEF Counted
  <2>9. QueueShape'  BY <1>2, <2>1, <2>5 DEF QueueShape
  <2> QED  BY <1>2, <2>1, <2>8, <2>9 DEF NoneWaitsForOpen
<1>4. CASE ~socks[s].open
  <2>1. wire' = wire /\ outbox' = Append(outbox, f)  BY <1>4 DEF Send
  <2> HIDE DEF f
  <2>2. /\ outbox' \in Seq(1 .. MaxFrames) /\ Len(outbox') = Len(outbox) + 1
        /\ DOMAIN outbox' = 1 .. (Len(outbox) + 1)
        /\ \A i \in DOMAIN outbox : outbox'[i] = outbox[i]
        /\ outbox'[Len(outbox) + 1] = f
    BY <1>2, <2>1, Appended DEF QueueShape
  <2>3. f = Len(wire) + (Len(outbox) + 1)  BY <1>1 DEF f, Counted
  <2>4. ASSUME NEW i \in DOMAIN outbox' PROVE outbox'[i] = Len(wire) + i
    <3>1. CASE i = Len(outbox) + 1  BY <2>2, <2>3, <3>1
    <3>2. CASE i # Len(outbox) + 1
      <4>1. i \in DOMAIN outbox  BY <1>1, <2>2, <3>2
      <4> QED  BY <2>2, <4>1 DEF Counted
    <3> QED  BY <3>1, <3>2
  <2>5. Len(wire') + Len(outbox') = sent'  BY <1>1, <1>2, <2>1, <2>2, <2>3
  <2>6. Counted'  BY <2>1, <2>4, <2>5 DEF Counted
  <2>7. QueueShape'  BY <1>2, <2>1, <2>2 DEF QueueShape
  <2>8. NoneWaitsForOpen'  BY <1>2, <1>4 DEF NoneWaitsForOpen
  <2> QED  BY <2>6, <2>7, <2>8
<1> QED  BY <1>3, <1>4

\* The flush on an open event keeps it: all that waits is written in order.
LEMMA QueueFlushes ==
    ASSUME StreamInv, QueueInv, NEW r \in DOMAIN raws, Opened(r)
    PROVE  QueueInv'
<1> USE DEF QueueInv
<1> DEFINE t == Len(socks)
<1>0. StreamInv' /\ Len(socks') = t /\ DOMAIN socks' = DOMAIN socks /\ raws[r].of \in DOMAIN socks
  BY StreamOpens, StreamShapeGives DEF StreamInv
<1>1. /\ Len(wire) \in Nat /\ DOMAIN wire = 1 .. Len(wire)
      /\ Len(outbox) \in Nat /\ DOMAIN outbox = 1 .. Len(outbox)
  BY LenProperties DEF QueueShape
<1>2. t \in DOMAIN socks'
  BY <1>0, LenProperties DEF StreamInv, StreamShape
<1>3. sent' = sent /\ Flush(socks')  BY DEF Opened
<1>4. CASE socks'[t].open
  <2> DEFINE raw == raws'[socks'[t].raw]
  <2>1. wire' = Written(outbox, raw) /\ outbox' = <<>> /\ spinning' = spinning
    BY <1>3, <1>4 DEF Flush
  <2>2. raw.opened = TRUE
    <3>1. raw.opened  BY <1>0, <1>2, <1>4 DEF StreamInv, OpenIsOpened
    <3>2. socks'[t].raw \in DOMAIN raws'
      <4>1. StreamShape'  BY <1>0 DEF StreamInv
      <4>2. DOMAIN raws' = 1 .. Len(raws') /\ DOMAIN socks' = 1 .. Len(socks')
        BY <4>1, LenProperties DEF StreamShape
      <4>3. socks'[t] \in SockRecord(Len(raws'))
        BY <1>2, <4>1, <4>2, ElementOfSeq DEF StreamShape
      <4> QED  BY <4>2, <4>3 DEF SockRecord
    <3>3. raw \in RawRecord(Len(socks'))
      BY <1>0, <3>2, LenProperties, ElementOfSeq DEF StreamInv, StreamShape
    <3> QED  BY <3>1, <3>3 DEF RawRecord
  <2> HIDE DEF raw
  <2>3. /\ wire' \in Seq(WireRecord) /\ Len(wire') = Len(wire) + Len(outbox)
        /\ \A i \in 1 .. Len(wire) : wire'[i] = wire[i]
        /\ \A i \in 1 .. Len(outbox) :
              wire'[Len(wire) + i].frame = outbox[i] /\ wire'[Len(wire) + i].opened
    BY <2>1, <2>2, WrittenEffect DEF QueueShape
  <2>4. DOMAIN wire' = 1 .. (Len(wire) + Len(outbox))  BY <2>3, LenProperties
  <2>5. ASSUME NEW i \in DOMAIN wire' PROVE wire'[i].frame = i /\ wire'[i].opened
    <3>1. CASE i <= Len(wire)
      <4>1. i \in DOMAIN wire /\ i \in 1 .. Len(wire)  BY <1>1, <2>4, <3>1
      <4> QED  BY <2>3, <4>1 DEF Counted
    <3>2. CASE ~(i <= Len(wire))
      <4>1. PICK j \in 1 .. Len(outbox) : i = Len(wire) + j
        <5>1. i - Len(wire) \in 1 .. Len(outbox) /\ i = Len(wire) + (i - Len(wire))
          BY <1>1, <2>4, <3>2
        <5> QED  BY <5>1
      <4>2. outbox[j] = Len(wire) + j  BY <1>1 DEF Counted
      <4> QED  BY <2>3, <4>1, <4>2
    <3> QED  BY <3>1, <3>2
  <2>6. Len(wire') + Len(outbox') = sent'
    <3>1. Len(outbox') = 0  BY <2>1
    <3> QED  BY <1>1, <1>3, <2>3, <3>1 DEF Counted
  <2>7. Counted'
    <3>1. DOMAIN outbox' = {}  BY <2>1
    <3> QED  BY <2>5, <2>6, <3>1 DEF Counted
  <2>8. QueueShape'  BY <1>3, <2>1, <2>3 DEF QueueShape
  <2>9. NoneWaitsForOpen'  BY <2>1 DEF NoneWaitsForOpen
  <2> QED  BY <2>7, <2>8, <2>9
<1>5. CASE ~socks'[t].open
  <2>1. wire' = wire /\ outbox' = outbox /\ spinning' = (outbox # <<>>)
    BY <1>3, <1>5 DEF Flush
  <2>2. spinning' \in BOOLEAN
    <3>1. (outbox # <<>>) \in BOOLEAN  OBVIOUS
    <3> QED  BY <2>1, <3>1
  <2>3. QueueShape'  BY <1>3, <2>1, <2>2 DEF QueueShape
  <2>4. Counted'  BY <1>3, <2>1 DEF Counted
  <2>5. NoneWaitsForOpen'  BY <1>0, <1>5 DEF NoneWaitsForOpen
  <2> QED  BY <2>3, <2>4, <2>5
<1> QED  BY <1>4, <1>5

\* The queue's part of the invariant is kept by every step.
LEMMA QueueStep == ASSUME P2pInv, P2pNext PROVE QueueInv'
<1> USE DEF P2pInv
<1>s. StreamShape  BY DEF StreamInv
<1>d. Len(socks) \in Nat /\ DOMAIN socks = 1 .. Len(socks) /\ (socks # <<>> <=> Len(socks) # 0)
  <2>1. Len(socks) \in Nat /\ DOMAIN socks = 1 .. Len(socks)  BY <1>s, StreamShapeGives
  <2>2. socks # <<>> <=> Len(socks) # 0  BY EmptySeq, <1>s DEF StreamShape
  <2> QED  BY <2>1, <2>2
<1>k. ASSUME UNCHANGED <<outbox, wire, sent, spinning>>, Len(socks') = Len(socks),
             \A t \in DOMAIN socks : socks'[t].open = socks[t].open
      PROVE  QueueInv'
  <2>1. CASE Len(socks) = 0
    <3>1. UNCHANGED socks
      <4>1. socks = <<>>  BY <1>d, <2>1
      <4>2. StreamInv'  BY StreamStep
      <4>3. socks' = <<>>  BY <1>k, <2>1, <4>2, EmptySeq DEF StreamInv, StreamShape
      <4> QED  BY <4>1, <4>3
    <3> QED  BY <1>k, <3>1, QueueKept
  <2>2. CASE Len(socks) # 0
    <3>1. Len(socks) \in DOMAIN socks  BY <1>d, <2>2
    <3> QED  BY <1>d, <1>k, <2>2, <3>1, QueueKept
  <2> QED  BY <2>1, <2>2
<1>1. CASE OpenSocket
  <2>1. ~socks'[Len(socks')].open  BY <1>1, <1>s, OpenSocketEffect
  <2>2. UNCHANGED <<outbox, wire, sent, spinning>>  BY <1>1 DEF OpenSocket
  <2> QED  BY <2>1, <2>2, QueueKept
<1>2. ASSUME NEW r \in DOMAIN raws, Opened(r) PROVE QueueInv'  BY <1>2, QueueFlushes
<1>3. ASSUME NEW r \in DOMAIN raws, Failed(r) PROVE QueueInv'
  <2> DEFINE s == raws[r].of
  <2>1. s \in DOMAIN socks  BY <1>s, StreamShapeGives
  <2>2. UNCHANGED <<relayThrough, outbox, wire, sent, spinning>>
        /\ late \subseteq late' /\ late' \subseteq late \cup {s}
    BY <1>3 DEF Failed
  <2>3. Len(socks') = Len(socks) /\ \A t \in DOMAIN socks : socks'[t].open = socks[t].open
    <3> DEFINE now == [raws EXCEPT ![r].st = "ended", ![r].failed = TRUE]
    <3>0. Alike(now)  BY <1>s, FailedEffect
    <3>3. TriggerRelayFallback(s, now) \/ UNCHANGED socks  BY <1>3 DEF Failed
    <3> HIDE DEF now
    <3>1. CASE TriggerRelayFallback(s, now)  BY <1>s, <2>1, <2>2, <3>0, <3>1, FallbackEffect
    <3>2. CASE UNCHANGED socks  BY <3>2
    <3> QED  BY <3>1, <3>2, <3>3
  <2> QED  BY <1>k, <2>2, <2>3
<1>4. ASSUME NEW s \in DOMAIN socks, FallbackTimeout(s) PROVE QueueInv'
  <2>2. UNCHANGED <<relayThrough, outbox, wire, sent, spinning, late>>  BY <1>4 DEF FallbackTimeout
  <2>3. Len(socks') = Len(socks) /\ \A t \in DOMAIN socks : socks'[t].open = socks[t].open
    <3>1. CASE TriggerRelayFallback(s, raws)  BY <1>s, <2>2, <3>1, RawsAlike, FallbackEffect
    <3>2. CASE socks' = [socks EXCEPT ![s].fallbackTimer = FALSE] /\ UNCHANGED raws
      <4> DEFINE sock == [socks[s] EXCEPT !.fallbackTimer = FALSE]
      <4>1. socks[s] \in SockRecord(Len(raws))  BY <1>s, StreamShapeGives
      <4>2. sock \in SockRecord(Len(raws)) /\ sock.open = socks[s].open
        BY <4>1 DEF SockRecord
      <4>3. socks' = [socks EXCEPT ![s] = sock]  BY <3>2
      <4> HIDE DEF sock
      <4> QED  BY <1>s, <4>2, <4>3, SockReplaced
    <3> QED  BY <1>4, <3>1, <3>2 DEF FallbackTimeout
  <2> QED  BY <1>k, <2>2, <2>3
<1>5. ASSUME NEW s \in DOMAIN socks, CloseSocket(s) PROVE QueueInv'
  <2>1. socks[s].raw \in DOMAIN raws  BY <1>s, StreamShapeGives
  <2>2. /\ raws' = Destroyed(raws, socks[s].raw)
        /\ socks' = [socks EXCEPT ![s].closed = TRUE, ![s].fallbackTimer = FALSE]
        /\ UNCHANGED <<relayThrough, outbox, wire, sent, spinning, late>>
    BY <1>5 DEF CloseSocket
  <2>4. Alike(raws') /\ raws'[socks[s].raw].st = "ended"
    BY <1>s, <2>1, <2>2, RawsAlike, DestroyedEffect
  <2>3. Len(socks') = Len(socks) /\ \A t \in DOMAIN socks : socks'[t].open = socks[t].open
    BY <2>2, <2>4, StreamEnds
  <2> QED  BY <1>k, <2>2, <2>3
<1>6. CASE socks # <<>> /\ Send(Len(socks))  BY <1>6, QueueSends
<1> QED  BY <1>1, <1>2, <1>3, <1>4, <1>5, <1>6 DEF P2pNext

\* The invariant gives the two properties of the peer-to-peer transport.
LEMMA P2pInvGives == ASSUME P2pInv PROVE ReplayedInOrder /\ OneStream
<1> USE DEF P2pInv
<1>1. ReplayedInOrder
  <2> DEFINE written == [i \in DOMAIN wire |-> wire[i].frame]
             all == [i \in 1 .. sent |-> i]
  <2>1. /\ Len(wire) \in Nat /\ DOMAIN wire = 1 .. Len(wire)
        /\ Len(outbox) \in Nat /\ DOMAIN outbox = 1 .. Len(outbox)
        /\ sent \in Nat /\ Len(wire) + Len(outbox) = sent
    BY LenProperties DEF QueueInv, QueueShape, Counted
  <2>2. written \in [1 .. Len(wire) -> Nat] /\ \A i \in 1 .. Len(wire) : written[i] = i
    BY <2>1 DEF QueueInv, Counted
  <2>3. all \in [1 .. sent -> Nat] /\ \A i \in 1 .. sent : all[i] = i  OBVIOUS
  <2> HIDE DEF written, all
  <2>4. written \in Seq(Nat) /\ Len(written) = Len(wire) /\ all \in Seq(Nat) /\ Len(all) = sent
    BY <2>1, <2>2, <2>3, IsSequence
  <2>5. outbox \in Seq(Nat) /\ \A i \in 1 .. Len(outbox) : outbox[i] = Len(wire) + i
    <3>1. 1 .. MaxFrames \subseteq Nat  BY P2pAssumption
    <3>2. outbox \in Seq(Nat)  BY <3>1, SeqMonotonic DEF QueueInv, QueueShape
    <3> QED  BY <2>1, <3>2 DEF QueueInv, Counted
  <2>6. /\ written \o outbox \in Seq(Nat) /\ Len(written \o outbox) = Len(written) + Len(outbox)
        /\ \A i \in 1 .. Len(written) : (written \o outbox)[i] = written[i]
        /\ \A i \in 1 .. Len(outbox) : (written \o outbox)[Len(written) + i] = outbox[i]
    <3>1. \A a, b \in Seq(Nat) :
             /\ a \o b \in Seq(Nat) /\ Len(a \o b) = Len(a) + Len(b)
             /\ \A i \in 1 .. Len(a) : (a \o b)[i] = a[i]
             /\ \A i \in 1 .. Len(b) : (a \o b)[Len(a) + i] = b[i]
      BY Joined
    <3> QED  BY <2>4, <2>5, <3>1, Zenon
  <2> DEFINE both == written \o outbox
  <2>7. both \in Seq(Nat) /\ Len(both) = sent  BY <2>1, <2>4, <2>6
  <2>8. ASSUME NEW i \in 1 .. sent PROVE both[i] = i
    <3>1. CASE i \in 1 .. Len(wire)  BY <2>2, <2>4, <2>6, <3>1
    <3>2. CASE i \notin 1 .. Len(wire)
      <4>1. PICK j \in 1 .. Len(outbox) : i = Len(wire) + j
        <5>1. i - Len(wire) \in 1 .. Len(outbox) /\ i = Len(wire) + (i - Len(wire))
          BY <2>1, <3>2
        <5> QED  BY <5>1
      <4> QED  BY <2>4, <2>5, <2>6, <4>1
    <3> QED  BY <3>1, <3>2
  <2> HIDE DEF both
  <2>9. both = all  BY <2>3, <2>4, <2>7, <2>8, SeqEqual
  <2> QED  BY <2>9 DEF both, written, all, ReplayedInOrder, QueueInv, Counted
<1>2. OneStream
  <2> SUFFICES ASSUME NEW s \in DOMAIN socks
               PROVE  Cardinality({r \in DOMAIN raws : raws[r].of = s /\ raws[r].st # "ended"})
                          <= IF socks[s].closed /\ s \notin late THEN 0 ELSE 1
    BY DEF OneStream
  <2> DEFINE S == {r \in DOMAIN raws : raws[r].of = s /\ raws[r].st # "ended"}
  <2>1. Len(raws) \in Nat /\ DOMAIN raws = 1 .. Len(raws)
    BY StreamShapeGives DEF StreamInv
  <2>2. \A r \in S : r = socks[s].raw  BY DEF StreamInv, OwnStream
  <2>3. S \in SUBSET (1 .. Len(raws)) /\ \A a, b \in S : a = b  BY <2>1, <2>2
  <2>4. socks[s].closed /\ s \notin late => S = {}
    BY <2>2 DEF StreamInv, ClosedIsOver
  <2> HIDE DEF S
  <2>5. Cardinality(S) = 0 \/ Cardinality(S) = 1  BY <2>1, <2>3, AtMostOne
  <2>6. socks[s].closed /\ s \notin late => Cardinality(S) = 0  BY <2>4, FS_EmptySet
  <2>7. Cardinality(S) <= IF socks[s].closed /\ s \notin late THEN 0 ELSE 1  BY <2>5, <2>6
  <2> QED  BY <2>7 DEF S
<1> QED  BY <1>1, <1>2

---------------------------------------------------------------------------
\* Both invariants hold in every behaviour, whichever transport was chosen.
LEMMA Invariance == Spec => [](mode \in {"relay", "p2p"} /\ LinkInv /\ P2pInv)
<1> DEFINE Inv == mode \in {"relay", "p2p"} /\ LinkInv /\ P2pInv
<1>1. Init => Inv
  BY LinkInitially, StreamInitially, QueueInitially DEF Init, ResolveTransport, P2pInv
<1>2. Inv /\ [Next]_vars => Inv'
  <2> SUFFICES ASSUME Inv, [Next]_vars PROVE Inv'
    OBVIOUS
  <2>1. ASSUME UNCHANGED linkVars PROVE LinkInv'
    BY <2>1 DEF linkVars, LinkInv, LinkShape, LastIsLive, TimerAlone, ReadyHasSocket,
                ReportedTruly
  <2>2. ASSUME UNCHANGED p2pVars PROVE P2pInv'
    BY <2>2 DEF p2pVars, P2pInv, StreamInv, QueueInv, StreamShape, QueueShape, OwnStream,
                ClosedIsOver, OpenIsOpened, NoneWaitsForOpen, Counted
  <2>3. CASE mode = "relay" /\ LinkNext /\ UNCHANGED <<mode, p2pVars>>
    BY <2>2, <2>3, LinkStep
  <2>4. CASE mode = "p2p" /\ P2pNext /\ UNCHANGED <<mode, linkVars>>
    BY <2>1, <2>4, StreamStep, QueueStep DEF P2pInv
  <2>5. CASE UNCHANGED vars  BY <2>1, <2>2, <2>5 DEF vars
  <2> QED  BY <2>3, <2>4, <2>5 DEF Next
<1> QED  BY <1>1, <1>2, PTL DEF Spec

\* The types: the backoff in particular, which scheduleReconnect doubles,
\* stays between INITIAL_BACKOFF_MS and MAX_BACKOFF_MS.
THEOREM TransportTypes == Spec => []TypeOK
<1>1. mode \in {"relay", "p2p"} /\ LinkInv /\ P2pInv => TypeOK
  BY LinkShapeIsType, P2pShapeIsType DEF LinkInv, P2pInv, StreamInv, QueueInv, TypeOK
<1> QED  BY <1>1, Invariance, PTL

\* scheduleReconnect's guard and openOnce: whatever closes, fails and is
\* retried, a link has at most one live socket or one pending reconnect.
THEOREM LinkIsSingle == Spec => []OneLiveSocket
<1>1. LinkInv => OneLiveSocket  BY LinkInvGives
<1> QED  BY <1>1, Invariance, PTL

\* The close handler and onReady: a link that is ready, or pings, does so over
\* its last socket, alive and past its ready frame, and the state reported to
\* the application of a link that was never replaced is the link's own.
THEOREM ReadyIsLive == Spec => []ReadyMeansLive
<1>1. LinkInv => ReadyMeansLive  BY LinkInvGives
<1> QED  BY <1>1, Invariance, PTL

\* disconnect() clears the reconnect timer and closedByUser stops the close
\* handler from setting another: no step opens a socket on a link left.
THEOREM DisconnectIsFinal == Spec => QuietAfterDisconnect
<1>1. LinkInv /\ [Next]_vars =>
        [\A k \in DOMAIN sockets' \ DOMAIN sockets :
            sockets'[k].link \in DOMAIN links => ~links[sockets'[k].link].closedByUser]_linkVars
  <2> SUFFICES ASSUME LinkInv, [Next]_vars, ~UNCHANGED linkVars,
                      NEW k \in DOMAIN sockets' \ DOMAIN sockets,
                      sockets'[k].link \in DOMAIN links
               PROVE  ~links[sockets'[k].link].closedByUser
    OBVIOUS
  <2>1. LinkNext  BY DEF Next, vars
  <2> QED  BY <2>1, QuietStep
<1> QED  BY <1>1, Invariance, PTL DEF Spec, QuietAfterDisconnect

\* The replay buffer: across the fallback to the relay and across sockets the
\* frames written and those queued are the frames handed in, in order, and
\* none went to a stream that had not opened.
THEOREM ReplayInOrder == Spec => []ReplayedInOrder
<1>1. P2pInv => ReplayedInOrder  BY P2pInvGives
<1> QED  BY <1>1, Invariance, PTL

\* triggerRelayFallback: a socket has one live stream at a time and none once
\* it was closed, whichever of the timer, the error and the close comes first,
\* unless the error itself comes after the close.
THEOREM StreamIsSingle == Spec => []OneStream
<1>1. P2pInv => OneStream  BY P2pInvGives
<1> QED  BY <1>1, Invariance, PTL
=============================================================================
