----------------------------- MODULE P2pTransport -----------------------------
(***************************************************************************)
(* createP2pTransport: the sockets its openSocket hands to a bare consumer,*)
(* the hyperdht streams beneath them, the outbox they share, and the       *)
(* fallback that dials the peer again through a relay.                     *)
(*                                                                         *)
(* Frames are numbered in the order the consumer hands them in, always on  *)
(* its newest socket.  A stream is "dialing", "open" or "ended"; that it   *)
(* ended reaches the consumer as a callback, which changes nothing here.   *)
(***************************************************************************)
EXTENDS Naturals, Sequences, FiniteSets

CONSTANTS
    MaxSockets,         \* bound on calls of openSocket
    MaxFrames           \* bound on calls of send

ASSUME P2pAssumption == MaxSockets \in Nat \ {0} /\ MaxFrames \in Nat

VARIABLES
    relayThrough,   \* whether options.relayThrough is set
    socks,          \* the sockets handed out; the last is currentSocket
    raws,           \* the hyperdht streams dialed
    outbox,         \* frames waiting for a socket to open
    wire,           \* what was written, and whether its stream had opened
    sent,           \* frames handed in
    spinning,       \* flushInto is in a loop that does not end
    late            \* history: the sockets on which an error came after close()

p2pVars == <<relayThrough, socks, raws, outbox, wire, sent, spinning, late>>

P2pInit ==
    /\ relayThrough \in BOOLEAN
    /\ socks = <<>> /\ raws = <<>> /\ outbox = <<>> /\ wire = <<>> /\ sent = 0 /\ spinning = FALSE
    /\ late = {}

---------------------------------------------------------------------------
\* failed: its error event was emitted, which happens once.
Dialed(s) == [of |-> s, st |-> "dialing", opened |-> FALSE, failed |-> FALSE]

\* raw.destroy; now: the streams as they are when it is called.
Destroyed(now, r) == [now EXCEPT ![r].st = "ended"]

OpenSocket ==
    LET s == Len(socks) + 1
    IN  /\ s <= MaxSockets
        /\ raws' = Append(raws, Dialed(s))
        /\ socks' = Append(socks, [open |-> FALSE, relayAttempted |-> FALSE, raw |-> Len(raws'),
                                   fallbackTimer |-> relayThrough, closed |-> FALSE])
        /\ UNCHANGED <<relayThrough, outbox, wire, sent, spinning, late>>

\* raw.write: a stream that ended swallows it.
Written(frames, raw) == wire \o [i \in DOMAIN frames |-> [frame |-> frames[i], opened |-> raw.opened]]

Send(s) ==
    LET f == sent + 1
    IN  /\ f <= MaxFrames /\ sent' = f
        /\ IF socks[s].open
           THEN wire' = Written(<<f>>, raws[socks[s].raw]) /\ UNCHANGED outbox
           ELSE outbox' = Append(outbox, f) /\ UNCHANGED wire
        /\ UNCHANGED <<relayThrough, socks, raws, spinning, late>>

\* drain.onReady: flushInto(currentSocket), whose send puts a frame back into
\* the outbox as long as that socket is not open.  now: the sockets as they
\* are when it runs.
Flush(now) ==
    LET t == Len(socks)
    IN  IF now[t].open
        THEN /\ wire' = Written(outbox, raws'[now[t].raw])
             /\ outbox' = <<>>
             /\ UNCHANGED spinning
        ELSE /\ spinning' = (outbox # <<>>)
             /\ UNCHANGED <<wire, outbox>>

\* The stream's open event.
Opened(r) ==
    LET s == raws[r].of
    IN  /\ raws[r].st = "dialing"
        /\ raws' = [raws EXCEPT ![r].st = "open", ![r].opened = TRUE]
        /\ socks' = [socks EXCEPT ![s].open = TRUE, ![s].fallbackTimer = FALSE]
        /\ Flush(socks')
        /\ UNCHANGED <<relayThrough, sent, late>>

\* Mutant: the failed stream stays the socket's.
FallbackKeepsRaw(s, now) ==
    /\ raws' = Append(Destroyed(now, socks[s].raw), Dialed(s))
    /\ socks' = [socks EXCEPT ![s].relayAttempted = TRUE, ![s].fallbackTimer = FALSE]

TriggerRelayFallback(s, now) ==
    /\ raws' = Append(Destroyed(now, socks[s].raw), Dialed(s))
    /\ socks' = [socks EXCEPT ![s].relayAttempted = TRUE, ![s].fallbackTimer = FALSE,
                              ![s].raw = Len(raws')]

MayFallBack(s) == ~socks[s].open /\ ~socks[s].relayAttempted

\* The stream's error event: the first one before the open is answered by a
\* dial through the relay, any other goes to the consumer.  The handler knows
\* of no close(): an error already under way when the stream was destroyed
\* comes after it, and is answered in the same way.
Failed(r) ==
    LET s == raws[r].of
        now == [raws EXCEPT ![r].st = "ended", ![r].failed = TRUE]
    IN  /\ ~raws[r].failed
        /\ late' = IF socks[s].closed THEN late \cup {s} ELSE late
        /\ IF MayFallBack(s) /\ relayThrough
           THEN TriggerRelayFallback(s, now)
           ELSE raws' = now /\ UNCHANGED socks
        /\ UNCHANGED <<relayThrough, outbox, wire, sent, spinning>>

\* The timer of fallbackTimeoutMs.
FallbackTimeout(s) ==
    /\ socks[s].fallbackTimer
    /\ IF MayFallBack(s)
       THEN TriggerRelayFallback(s, raws)
       ELSE socks' = [socks EXCEPT ![s].fallbackTimer = FALSE] /\ UNCHANGED raws
    /\ UNCHANGED <<relayThrough, outbox, wire, sent, spinning, late>>

\* Mutant: the fallback timer is left running.
CloseSocketOnly(s) ==
    /\ raws' = Destroyed(raws, socks[s].raw)
    /\ socks' = [socks EXCEPT ![s].closed = TRUE]
    /\ UNCHANGED <<relayThrough, outbox, wire, sent, spinning, late>>

CloseSocket(s) ==
    /\ raws' = Destroyed(raws, socks[s].raw)
    /\ socks' = [socks EXCEPT ![s].closed = TRUE, ![s].fallbackTimer = FALSE]
    /\ UNCHANGED <<relayThrough, outbox, wire, sent, spinning, late>>

P2pNext ==
    /\ ~spinning
    /\ \/ OpenSocket
       \/ \E r \in DOMAIN raws : Opened(r) \/ Failed(r)
       \/ \E s \in DOMAIN socks : FallbackTimeout(s) \/ CloseSocket(s)
       \/ socks # <<>> /\ Send(Len(socks))

---------------------------------------------------------------------------
P2pTypeOK ==
    /\ relayThrough \in BOOLEAN /\ spinning \in BOOLEAN /\ sent \in 0 .. MaxFrames
    /\ raws \in Seq([of : DOMAIN socks, st : {"dialing", "open", "ended"}, opened : BOOLEAN,
                     failed : BOOLEAN])
    /\ socks \in Seq([open : BOOLEAN, relayAttempted : BOOLEAN, raw : DOMAIN raws,
                      fallbackTimer : BOOLEAN, closed : BOOLEAN])
    /\ outbox \in Seq(1 .. MaxFrames)
    /\ wire \in Seq([frame : 1 .. MaxFrames, opened : BOOLEAN])
    /\ late \subseteq DOMAIN socks

\* The replay buffer: the frames written and then those still queued are the
\* frames handed in, once each and in their order, across the swap to the
\* relay and across sockets; and none is written to a stream that never
\* opened, such as the direct one that the fallback gave up.
ReplayedInOrder ==
    /\ [i \in DOMAIN wire |-> wire[i].frame] \o outbox = [i \in 1 .. sent |-> i]
    /\ \A i \in DOMAIN wire : wire[i].opened

\* A socket has one stream at a time, and none once the consumer closed it:
\* neither the fallback timer nor an error from before the close dials on its
\* behalf, and only an error that the stream emits after close() does, since
\* the error handler cannot tell that the socket was closed.
OneStream ==
    \A s \in DOMAIN socks :
        Cardinality({r \in DOMAIN raws : raws[r].of = s /\ raws[r].st # "ended"})
            <= IF socks[s].closed /\ s \notin late THEN 0 ELSE 1
===============================================================================
