------------------------------ MODULE DuplexLink ------------------------------
(***************************************************************************)
(* The client's duplex link to the relay: SignalAiClient.connect and       *)
(* disconnect, the DuplexLink objects they create, and the sockets these   *)
(* open, with the socket's callbacks, the reconnect timer and the promise  *)
(* that connect() returns.                                                 *)
(*                                                                         *)
(* A socket is "dialing", "open", "closing" or "closed"; callbacks run     *)
(* when its events arrive, which is later than what caused them: a socket  *)
(* that was told to close may still deliver the ready frame, or report     *)
(* an error, first.  What is sent over a ready link is left to             *)
(* RelayDelivery and MembershipSync.                                       *)
(***************************************************************************)
EXTENDS Naturals, Sequences, FiniteSets

CONSTANTS
    MaxLinks,           \* bound on calls of connect
    MaxFaults,          \* bound on refused dials, lost sockets and failed auths
    InitialBackoff,     \* INITIAL_BACKOFF_MS
    MaxBackoff          \* MAX_BACKOFF_MS

ASSUME LinkAssumption ==
    /\ MaxLinks \in Nat \ {0} /\ MaxFaults \in Nat
    /\ InitialBackoff \in Nat \ {0} /\ MaxBackoff \in Nat /\ InitialBackoff <= MaxBackoff

VARIABLES
    links,      \* the links created, in order; the last is client.link
    sockets,    \* the sockets opened, in order
    reported,   \* connectionState as last reported to the application
    faults

linkVars == <<links, sockets, reported, faults>>

LinkInit == links = <<>> /\ sockets = <<>> /\ reported = "disconnected" /\ faults = 0

NewLink ==
    [closedByUser |-> FALSE, backoff |-> InitialBackoff, reconnectTimer |-> FALSE,
     keepalive |-> FALSE, ready |-> FALSE, connect |-> "pending"]

\* first: this socket settles connect()'s promise.  mute: the relay will not
\* answer its auth frame.
NewSocket(l, first) ==
    [link |-> l, st |-> "dialing", opened |-> FALSE, readied |-> FALSE, settled |-> ~first,
     mute |-> FALSE]

Live(k) == sockets[k].st # "closed"

LiveSockets(l) == {k \in DOMAIN sockets : sockets[k].link = l /\ Live(k)}

\* The socket of link l: the last it opened.
IsSocketOf(k, l) ==
    sockets[k].link = l /\ \A j \in DOMAIN sockets : sockets[j].link = l => j <= k

---------------------------------------------------------------------------
\* Mutant: the pending reconnect is forgotten about, not cancelled.
DisconnectedTimerRuns(l) == [links[l] EXCEPT !.closedByUser = TRUE, !.keepalive = FALSE]

\* What disconnect leaves of a link.
Disconnected(l) ==
    [links[l] EXCEPT !.closedByUser = TRUE, !.reconnectTimer = FALSE, !.keepalive = FALSE]

\* close() on the link's socket: the close event is still to come.
Closing(l) ==
    [k \in DOMAIN sockets |->
        IF IsSocketOf(k, l) /\ Live(k) THEN [sockets[k] EXCEPT !.st = "closing"] ELSE sockets[k]]

\* SignalAiClient.connect: the old link is disconnected and a new one opened.
Connect ==
    LET l == Len(links) + 1
    IN  /\ l <= MaxLinks
        /\ links' = Append(IF l = 1 THEN links ELSE [links EXCEPT ![l - 1] = Disconnected(l - 1)],
                           NewLink)
        /\ sockets' = Append(IF l = 1 THEN sockets ELSE Closing(l - 1), NewSocket(l, TRUE))
        /\ reported' = "connecting"
        /\ UNCHANGED faults

Disconnect ==
    LET l == Len(links)
    IN  /\ l > 0 /\ ~links[l].closedByUser
        /\ links' = [links EXCEPT ![l] = Disconnected(l)]
        /\ sockets' = Closing(l)
        /\ UNCHANGED <<reported, faults>>

\* The relay is reached; onOpen sends the auth frame.
Open(k) ==
    /\ sockets[k].st = "dialing"
    /\ sockets' = [sockets EXCEPT ![k].st = "open", ![k].opened = TRUE]
    /\ UNCHANGED <<links, reported, faults>>

\* The promise of connect() as this socket settles it.
Settle(k, outcome) == IF sockets[k].settled THEN links[sockets[k].link].connect ELSE outcome

\* The relay's ready frame, on a socket that was opened; one that is closing
\* still delivers what was on its way.
Ready(k) ==
    LET l == sockets[k].link
    IN  /\ Live(k) /\ sockets[k].opened /\ ~sockets[k].readied /\ ~sockets[k].mute
        /\ links' = [links EXCEPT ![l].ready = TRUE, ![l].backoff = InitialBackoff,
                                  ![l].keepalive = TRUE, ![l].connect = Settle(k, "resolved")]
        /\ sockets' = [sockets EXCEPT ![k].readied = TRUE, ![k].settled = TRUE]
        /\ reported' = "connected"
        /\ UNCHANGED faults

\* The relay's lookup of the token fails: the frame handler's rejection is
\* swallowed, so that the socket stays open with neither ready nor close, and
\* the client keeps no timer for it.
AuthRejects(k) ==
    /\ Live(k) /\ sockets[k].opened /\ ~sockets[k].readied /\ ~sockets[k].mute
    /\ faults < MaxFaults /\ faults' = faults + 1
    /\ sockets' = [sockets EXCEPT ![k].mute = TRUE]
    /\ UNCHANGED <<links, reported>>

\* An error event: a refused dial, a broken connection, or a dial that was
\* told to close.  The close event follows.
Error(k) ==
    LET l == sockets[k].link
    IN  /\ Live(k) /\ (~sockets[k].settled \/ sockets[k].st = "dialing")
        /\ sockets[k].st # "closing" => faults < MaxFaults
        /\ faults' = IF sockets[k].st = "closing" THEN faults ELSE faults + 1
        /\ links' = [links EXCEPT ![l].connect = Settle(k, "rejected")]
        /\ sockets' = [sockets EXCEPT ![k].st = "closing", ![k].settled = TRUE]
        /\ UNCHANGED reported

\* An open socket is lost or closed by the relay, which shows as a close event.
Lose(k) ==
    /\ sockets[k].st = "open" /\ faults < MaxFaults
    /\ faults' = faults + 1
    /\ sockets' = [sockets EXCEPT ![k].st = "closing"]
    /\ UNCHANGED <<links, reported>>

\* Mutant: the delay is not capped.
DoubleForEver(backoff) == 2 * backoff

Double(backoff) == IF 2 * backoff < MaxBackoff THEN 2 * backoff ELSE MaxBackoff

\* Mutant: only a connection that had become ready is taken up again.
ReconnectIfReady(link) ==
    IF link.reconnectTimer \/ ~link.ready THEN link
    ELSE [link EXCEPT !.reconnectTimer = TRUE, !.backoff = Double(@)]

\* One reconnect timer at a time.
ScheduleReconnect(link) ==
    IF link.reconnectTimer THEN link
    ELSE [link EXCEPT !.reconnectTimer = TRUE, !.backoff = Double(@)]

\* Mutant: the keepalive goes on.
DownPinging(k) ==
    [links[sockets[k].link] EXCEPT !.ready = FALSE, !.connect = Settle(k, "rejected")]

\* Mutant: a socket that closes before ready leaves connect() waiting.
DownUnsettled(k) == [links[sockets[k].link] EXCEPT !.ready = FALSE, !.keepalive = FALSE]

\* Its link when socket k has closed.
Down(k) ==
    [links[sockets[k].link] EXCEPT !.ready = FALSE, !.keepalive = FALSE,
                                   !.connect = Settle(k, "rejected")]

\* The close event.
Close(k) ==
    /\ sockets[k].st = "closing"
    /\ links' = [links EXCEPT ![sockets[k].link] =
                    IF @.closedByUser THEN Down(k) ELSE ScheduleReconnect(Down(k))]
    /\ sockets' = [sockets EXCEPT ![k].st = "closed", ![k].settled = TRUE]
    /\ reported' = "disconnected"
    /\ UNCHANGED faults

\* Mutant: a second timer may be armed before this one's socket is done.
TimerStaysArmed(l) ==
    /\ links[l].reconnectTimer
    /\ links' = links
    /\ sockets' = Append(sockets, NewSocket(l, FALSE))
    /\ reported' = "connecting"
    /\ UNCHANGED faults

\* The reconnect timer fires and opens another socket.
Reconnect(l) ==
    /\ links[l].reconnectTimer
    /\ links' = [links EXCEPT ![l].reconnectTimer = FALSE]
    /\ sockets' = Append(sockets, NewSocket(l, FALSE))
    /\ reported' = "connecting"
    /\ UNCHANGED faults

SocketStep(k) == Open(k) \/ Ready(k) \/ AuthRejects(k) \/ Error(k) \/ Lose(k) \/ Close(k)

LinkNext ==
    \/ Connect \/ Disconnect
    \/ \E k \in DOMAIN sockets : SocketStep(k)
    \/ \E l \in DOMAIN links : Reconnect(l)

\* The relay can be reached once the faults are over and then answers an auth
\* frame it did not fail on, and the event loop delivers every event and runs
\* every timer.  Nothing is assumed of a socket that is mute.
LinkFairness ==
    /\ \A k \in 1 .. (MaxLinks + MaxFaults) :
          WF_linkVars(k \in DOMAIN sockets /\ (Open(k) \/ Ready(k) \/ Close(k)))
    /\ \A l \in 1 .. MaxLinks : WF_linkVars(l \in DOMAIN links /\ Reconnect(l))

---------------------------------------------------------------------------
LinkTypeOK ==
    /\ links \in Seq([closedByUser : BOOLEAN, backoff : InitialBackoff .. MaxBackoff,
                      reconnectTimer : BOOLEAN, keepalive : BOOLEAN, ready : BOOLEAN,
                      connect : {"pending", "resolved", "rejected"}])
    /\ sockets \in Seq([link : DOMAIN links, st : {"dialing", "open", "closing", "closed"},
                        opened : BOOLEAN, readied : BOOLEAN, settled : BOOLEAN, mute : BOOLEAN])
    /\ reported \in {"connecting", "connected", "disconnected"}
    /\ faults \in 0 .. MaxFaults

\* A link holds one connection: whatever closes, fails and is retried, it
\* never has two sockets alive, nor a reconnect waiting beside a live one
\* (the guard of scheduleReconnect and openOnce's reassignment of socket).
OneLiveSocket ==
    \A l \in DOMAIN links :
        Cardinality(LiveSockets(l)) + (IF links[l].reconnectTimer THEN 1 ELSE 0) <= 1

\* send() and the keepalive act on this.socket while ready or the interval is
\* set: then the link's last socket is alive and had its ready frame; and as
\* long as no link was replaced, the application is told the truth.
ReadyMeansLive ==
    /\ \A l \in DOMAIN links :
          links[l].ready \/ links[l].keepalive =>
              \E k \in LiveSockets(l) : IsSocketOf(k, l) /\ sockets[k].readied
    /\ Len(links) = 1 => (reported = "connected" <=> links[1].ready)

\* disconnect() is final: a link that was disconnected, or replaced, opens no
\* socket again, whatever timers and close events were still under way.
QuietAfterDisconnect ==
    [][\A k \in DOMAIN sockets' \ DOMAIN sockets :
          sockets'[k].link \in DOMAIN links => ~links[sockets'[k].link].closedByUser]_linkVars

\* The link waits on an open socket whose auth frame the relay failed on.
Muted(l) == \E k \in LiveSockets(l) : sockets[k].mute

\* A link that the application keeps comes back to ready after any finite
\* number of failures (the reconnect loop never drops the retry), with the one
\* exception the code leaves open: a relay that fails while authenticating
\* neither answers nor closes, and the handshake has no timeout.
ComesBack ==
    \A l \in 1 .. MaxLinks :
        []<>(l \in DOMAIN links => links[l].ready \/ links[l].closedByUser \/ Muted(l))

\* The promise of connect() is settled, also when the socket fails first or
\* the application disconnects meanwhile; only behind a mute socket, until
\* that is closed, may it be left waiting.
ConnectSettles ==
    \A l \in 1 .. MaxLinks :
        []<>(l \in DOMAIN links => links[l].connect # "pending" \/ Muted(l))
===============================================================================
