--------------------------- MODULE MembershipSync ----------------------------
(***************************************************************************)
(* How one conversation's op-log travels: the founder's membership service *)
(* signs operations (service.ts) after the matching REST call has changed  *)
(* the relay's roster (client.ts, db.ts); the relay stores them in memory  *)
(* and pushes them to live sockets, or drains them to a socket that has    *)
(* just authenticated or subscribed (apps/node/src/index.ts); each client  *)
(* appends what it receives to its own chain if the result still verifies, *)
(* under the invite pin it was seeded with (client.ts).  Links drop with   *)
(* frames in flight, the relay's database calls reject, clients restart    *)
(* from what they last saved, and the relay restarts with an empty store.  *)
(*                                                                         *)
(* Frames carry the operation; its seq field is the frame's seq.           *)
(***************************************************************************)
EXTENDS MembershipChain, FiniteSets

CONSTANTS
    Founder,        \* the user that created the conversation
    Others,         \* the other users
    Conversation,   \* the conversation's id
    MaxOps,         \* bound: operations the founder starts to author
    MaxPending,     \* bound: API calls of the founder under way at once
    MaxPins,        \* bound: clients holding an invite pin at once
    MaxFaults,      \* bound: link losses and failing database calls together
    MaxRestarts     \* bound: client and relay restarts together

ASSUME FounderIsNotAnother == Founder \notin Others
ASSUME BoundsAreNatural ==
    /\ MaxOps \in Nat /\ MaxPending \in Nat /\ MaxPins \in Nat
    /\ MaxFaults \in Nat /\ MaxRestarts \in Nat
\* null is neither a boolean, nor a user, nor a list of users.
ASSUME NullIsNoValue ==
    Null # FALSE /\ Null \notin Others /\ \A S \in SUBSET Others : S # Null

Users == Others \cup {Founder}

VARIABLES
    signed,     \* history: every operation the founder's key has signed
    svc,        \* the founder's in-memory chain (service.ts chains), or Null
                \* while its client has no membership service
    todo,       \* API calls of the founder whose REST half is done
    stored,     \* stored[u]: u's membershipOps
    disk,       \* disk[u]: membershipOps as u's application last saved them
    pins,       \* pins[u]: the seeded InvitePin or Null (joinPins)
    attempted,  \* users whose client used its one catch-up (opCatchupAttempted)
    roster,     \* the relay's active members; {} before the conversation exists
    opStore,    \* the relay's in-memory op store
    conn,       \* users with an authenticated, registered socket
    drain,      \* drain[u]: how far the relay is in drainAndPush for u
    sub,        \* users with a subscribe frame under way
    opq,        \* op-send frames under way on the founder's connection
    lateq,      \* lateq[k]: op-send frames received and not yet handled on the
                \* founder's k-th connection, which has closed since
    fanout,     \* op-send handlers still looping over the live sockets
    down,       \* down[u]: op-deliver frames under way to u
    faults, restarts,  \* how much of the bounds is used up
    steady,     \* history: users active at their last drain and ever since, that
                \* no failing call left out and no exchanged pin made miss a frame
    raced,      \* history: op-sends of two connections were handled at once
    gap         \* history: gap[u]: has u dropped an operation as a gap, and if
                \* so, has it connected again since?

clientVars == <<svc, todo, stored, disk, pins, attempted>>
relayVars == <<roster, opStore, conn, drain, fanout, lateq>>
netVars == <<sub, opq, down>>
bookVars == <<faults, restarts, steady, raced, gap>>
vars == <<signed, clientVars, relayVars, netVars, bookVars>>

---------------------------------------------------------------------------
\* membershipLogFor(...) !== undefined, for a client with this chain and pin.
Usable(ops, pin) ==
    /\ ops # <<>>
    /\ Ingestible(NewLog(IF pin = Null THEN ops[1].conversationId
                                       ELSE pin.conversationId, pin), ops)

\* The operation the service signs for a call, on top of chain.
SignNext(chain, call) ==
    [type |-> call.type, conversationId |-> Conversation, seq |-> Len(chain),
     prevHash |-> IF chain = <<>> THEN GenesisZero ELSE HashOp(chain[Len(chain)]),
     author |-> Founder, subject |-> call.subject,
     aiMode |-> IF call.type = "create" THEN FALSE ELSE Null,
     initialMembers |-> call.initialMembers, key |-> Founder, sig |-> Founder]

Calls ==
    [type : {"create"}, subject : {Null}, initialMembers : SUBSET Others]
      \cup [type : {"invite", "remove"}, subject : Others, initialMembers : {Null}]

Init ==
    /\ signed = <<>> /\ svc = Null /\ todo = {}
    /\ stored = [u \in Users |-> <<>>]
    /\ disk = [u \in Users |-> <<>>]
    /\ pins = [u \in Users |-> Null]
    /\ attempted = {}
    /\ roster = {} /\ opStore = <<>>
    /\ conn = {} /\ drain = [u \in Users |-> "idle"]
    /\ sub = {} /\ opq = <<>> /\ lateq = <<>> /\ fanout = {}
    /\ down = [u \in Users |-> <<>>]
    /\ faults = 0 /\ restarts = 0 /\ steady = {} /\ raced = FALSE
    /\ gap = [u \in Users |-> "none"]

---------------------------------------------------------------------------
(***************************************************************************)
(* The founder's client.  createConversation, invite and removeMember make *)
(* the REST call first and author the operation when it has returned.      *)
(***************************************************************************)
MayStart(call) ==
    /\ call \notin todo
    /\ Cardinality(todo) < MaxPending
    /\ Len(signed) + Cardinality(todo) < MaxOps

CreateRest(initial) ==
    LET call == [type |-> "create", subject |-> Null, initialMembers |-> initial]
    IN  /\ roster = {}
        /\ MayStart(call)
        /\ roster' = initial \cup {Founder}
        /\ todo' = todo \cup {call}
        /\ UNCHANGED <<signed, svc, stored, disk, pins, attempted, opStore, conn, drain,
                       fanout, lateq, netVars, bookVars>>

InviteRest(u) ==
    LET call == [type |-> "invite", subject |-> u, initialMembers |-> Null]
    IN  /\ roster # {}
        /\ MayStart(call)
        /\ roster' = roster \cup {u}
        /\ todo' = todo \cup {call}
        /\ UNCHANGED <<signed, svc, stored, disk, pins, attempted, opStore, conn, drain,
                       fanout, lateq, netVars, bookVars>>

RemoveRest(u) ==
    LET call == [type |-> "remove", subject |-> u, initialMembers |-> Null]
    IN  /\ roster # {}
        /\ MayStart(call)
        /\ roster' = roster \ {u}
        /\ todo' = todo \cup {call}
        /\ steady' = steady \ {u}
        /\ UNCHANGED <<signed, svc, stored, disk, pins, attempted, opStore, conn, drain,
                       fanout, lateq, netVars, faults, restarts, raced, gap>>

\* There is a service and it knows the conversation: only genesis may start a
\* chain.
Knows(call) == svc # Null /\ (call.type = "create" \/ svc # <<>>)

\* Mutant: the whole chain is appended, not what is missing of it.
SyncOwnTwice(mine, chain) == mine \o chain

\* syncOwnMembershipChain: append what the service's chain has beyond mine.
SyncOwn(mine, chain) == mine \o SubSeq(chain, Len(mine) + 1, Len(chain))

\* authorMembershipOp with the link ready: sign, record, broadcast, self-sync.
AuthorOp(call) ==
    LET op == SignNext(svc, call)
    IN  /\ call \in todo
        /\ Knows(call)
        /\ Founder \in conn
        /\ todo' = todo \ {call}
        /\ svc' = Append(svc, op)
        /\ signed' = Append(signed, op)
        /\ opq' = Append(opq, op)
        /\ stored' = [stored EXCEPT ![Founder] = SyncOwn(@, svc')]
        /\ UNCHANGED <<disk, pins, attempted, relayVars, sub, down, bookVars>>

\* Mutant: the broadcast comes before the operation is recorded.
AuthorOfflineUnrecorded(call) ==
    /\ call \in todo
    /\ Knows(call)
    /\ Founder \notin conn
    /\ todo' = todo \ {call}
    /\ signed' = Append(signed, SignNext(svc, call))
    /\ UNCHANGED <<svc, stored, disk, pins, attempted, relayVars, netVars, bookVars>>

\* The link is not ready: append has recorded the operation when the broadcast
\* throws; authorMembershipOp swallows it and skips the self-sync.
AuthorOffline(call) ==
    LET op == SignNext(svc, call)
    IN  /\ call \in todo
        /\ Knows(call)
        /\ Founder \notin conn
        /\ todo' = todo \ {call}
        /\ svc' = Append(svc, op)
        /\ signed' = Append(signed, op)
        /\ UNCHANGED <<stored, disk, pins, attempted, relayVars, netVars, bookVars>>

\* There is no service yet, or its append throws "unknown conversation", which
\* is swallowed: nothing is signed.
AuthorUnknown(call) ==
    /\ call \in todo
    /\ ~Knows(call)
    /\ todo' = todo \ {call}
    /\ UNCHANGED <<signed, svc, stored, disk, pins, attempted, relayVars, netVars, bookVars>>

---------------------------------------------------------------------------
(***************************************************************************)
(* Every client                                                            *)
(***************************************************************************)

\* Mutant: a frame ahead of the chain is appended as if it were dense.
AcceptOpSparse(ops, pin, op) == IF op.seq >= Len(ops) THEN Append(ops, op) ELSE ops

\* appendMembershipOp, then rolled back unless the chain is usable with it.
AcceptOp(ops, pin, op) ==
    IF op.seq = Len(ops) /\ Usable(Append(ops, op), pin) THEN Append(ops, op) ELSE ops

\* handleIncomingOp
RecvOp(u) ==
    /\ down[u] # <<>>
    /\ stored' = [stored EXCEPT ![u] = AcceptOp(@, pins[u], Head(down[u]))]
    /\ down' = [down EXCEPT ![u] = Tail(@)]
    /\ gap' = IF Head(down[u]).seq > Len(stored[u]) THEN [gap EXCEPT ![u] = "open"] ELSE gap
    /\ UNCHANGED <<signed, svc, todo, disk, pins, attempted, relayVars, sub, opq, faults,
                   restarts, steady, raced>>

\* u's chain lacks at most one operation to the head of its invite pin.
PinInReach(u) == pins[u] # Null => pins[u].pinnedHead.seq <= Len(stored[u])

\* acceptInvitePin with a pin invitePinFor issued now or earlier.  It replaces
\* the pin of an earlier invite; what that one has kept out of the chain while
\* it was out of reach is not sent again.  (The same pin again changes nothing.)
AcceptInvitePin(u, n) ==
    /\ pins[u] # Null \/ Cardinality({v \in Users : pins[v] # Null}) < MaxPins
    /\ n \in 1 .. Len(signed)
    /\ pins' = [pins EXCEPT ![u] = InviteFor(SubSeq(signed, 1, n))]
    /\ pins' # pins
    /\ steady' = IF PinInReach(u) THEN steady ELSE steady \ {u}
    /\ UNCHANGED <<signed, svc, todo, stored, disk, attempted, relayVars, netVars, faults,
                   restarts, raced, gap>>

\* awaitChainReady, reached from listMembers or from a delivered envelope, both
\* of which the relay grants to active members only.
AwaitChainReady(u) ==
    /\ u \in conn
    /\ u \in roster
    /\ ~Usable(stored[u], pins[u])
    /\ u \notin attempted
    /\ attempted' = attempted \cup {u}
    /\ sub' = sub \cup {u}
    /\ UNCHANGED <<signed, svc, todo, stored, disk, pins, relayVars, opq, down, bookVars>>

\* The application saves its stores (toJSON).  Bound: no save that no restart
\* can follow.
Persist(u) ==
    /\ restarts < MaxRestarts
    /\ disk[u] # stored[u]
    /\ disk' = [disk EXCEPT ![u] = stored[u]]
    /\ UNCHANGED <<signed, svc, todo, stored, pins, attempted, relayVars, netVars, bookVars>>

---------------------------------------------------------------------------
(***************************************************************************)
(* The relay's socket handler                                              *)
(***************************************************************************)

\* auth frame: ready is sent, the socket registered as live, the drain begun.
\* connect() gives the founder's client its service, once; when that call has
\* failed and the link reconnects by itself, there is none.
Connect(u) ==
    /\ u \notin conn
    /\ svc' \in {svc} \cup (IF u = Founder /\ svc = Null THEN {<<>>} ELSE {})
    /\ conn' = conn \cup {u}
    /\ drain' = [drain EXCEPT ![u] = "reading"]
    /\ gap' = IF gap[u] = "open" THEN [gap EXCEPT ![u] = "redrained"] ELSE gap
    /\ UNCHANGED <<signed, todo, stored, disk, pins, attempted, roster, opStore, fanout,
                   lateq, netVars, faults, restarts, steady, raced>>

\* No frame of u's present connection is being handled.
Free(u) == drain[u] = "idle" /\ (u = Founder => \A f \in fanout : f.via # Len(lateq) + 1)

\* drainAndPush, first half: which conversations is the user active in?
DrainRead(u) ==
    /\ drain[u] = "reading"
    /\ \/ /\ u \in roster
          /\ drain' = [drain EXCEPT ![u] = "pushing"]
          /\ steady' = steady \cup {u}
       \/ /\ u \notin roster
          /\ drain' = [drain EXCEPT ![u] = "idle"]
          /\ UNCHANGED steady
    /\ UNCHANGED <<signed, clientVars, roster, opStore, conn, fanout, lateq, netVars,
                   faults, restarts, raced, gap>>

\* Mutant: only the newest operation is pushed.
DrainPushNewest(u) ==
    /\ drain[u] = "pushing"
    /\ drain' = [drain EXCEPT ![u] = "idle"]
    /\ down' = [down EXCEPT ![u] =
                  @ \o SelectSeq(opStore, LAMBDA op : op.seq = Len(opStore) - 1)]
    /\ UNCHANGED <<signed, clientVars, roster, opStore, conn, fanout, lateq, sub, opq,
                   bookVars>>

\* drainAndPush, second half: every stored operation in seq order.
DrainPush(u) ==
    /\ drain[u] = "pushing"
    /\ drain' = [drain EXCEPT ![u] = "idle"]
    /\ down' = [down EXCEPT ![u] = @ \o opStore]
    /\ UNCHANGED <<signed, clientVars, roster, opStore, conn, fanout, lateq, sub, opq,
                   bookVars>>

\* subscribe of an active member: the drain once more.
HandleSubscribe(u) ==
    /\ u \in sub
    /\ Free(u)
    /\ u \in roster
    /\ sub' = sub \ {u}
    /\ drain' = [drain EXCEPT ![u] = "reading"]
    /\ UNCHANGED <<signed, clientVars, roster, opStore, conn, fanout, lateq, opq, down,
                   bookVars>>

\* storeOp: dense append; a duplicate or a gap is ignored.
StoreOp(ops, op) == IF op.seq = Len(ops) THEN Append(ops, op) ELSE ops

\* An op-send handler of the founder's connection number via.
Handler(op, via) == [op |-> op, visited |-> {}, via |-> via]

\* op-send: frames of one connection are handled one after the other.
HandleOpSend ==
    /\ opq # <<>>
    /\ Free(Founder)
    /\ opq' = Tail(opq)
    /\ opStore' = StoreOp(opStore, Head(opq))
    /\ fanout' = fanout \cup {Handler(Head(opq), Len(lateq) + 1)}
    /\ raced' = (raced \/ fanout # {})
    /\ UNCHANGED <<signed, clientVars, roster, conn, drain, lateq, sub, down, faults,
                   restarts, steady, gap>>

\* The queue of each closed connection is worked off beside the others.
HandleLateOpSend(k) ==
    /\ lateq[k] # <<>>
    /\ \A f \in fanout : f.via # k
    /\ lateq' = [lateq EXCEPT ![k] = Tail(@)]
    /\ opStore' = StoreOp(opStore, Head(lateq[k]))
    /\ fanout' = fanout \cup {Handler(Head(lateq[k]), k)}
    /\ raced' = (raced \/ fanout # {})
    /\ UNCHANGED <<signed, clientVars, roster, conn, drain, netVars, faults, restarts,
                   steady, gap>>

\* One turn of the fan-out loop: u's socket, if u is an active member.
FanoutTo(f, u) ==
    /\ f \in fanout
    /\ u \in conn \ (f.visited \cup {Founder})
    /\ fanout' = (fanout \ {f}) \cup {[f EXCEPT !.visited = @ \cup {u}]}
    /\ down' = IF u \in roster THEN [down EXCEPT ![u] = Append(@, f.op)] ELSE down
    /\ UNCHANGED <<signed, clientVars, roster, opStore, conn, drain, lateq, sub, opq,
                   bookVars>>

\* Mutant: the loop stops before every socket has been visited.
FanoutEndEarly(f) ==
    /\ f \in fanout
    /\ fanout' = fanout \ {f}
    /\ UNCHANGED <<signed, clientVars, roster, opStore, conn, drain, lateq, netVars,
                   bookVars>>

FanoutEnd(f) ==
    /\ f \in fanout
    /\ conn \subseteq f.visited \cup {Founder}
    /\ fanout' = fanout \ {f}
    /\ UNCHANGED <<signed, clientVars, roster, opStore, conn, drain, lateq, netVars,
                   bookVars>>

---------------------------------------------------------------------------
(***************************************************************************)
(* Failures                                                                *)
(***************************************************************************)

\* A database call of a handler rejects; the error ends the handler and is
\* swallowed with the frame (index.ts:576), while the socket stays open.
DatabaseFails ==
    /\ faults < MaxFaults
    /\ faults' = faults + 1
    /\ UNCHANGED <<signed, clientVars, roster, opStore, conn, lateq, opq, down, restarts,
                   raced, gap>>

\* isActiveMember in the fan-out loop: the sockets not yet visited are left out.
FanoutFails(f) ==
    /\ f \in fanout
    /\ ~(conn \subseteq f.visited \cup {Founder})
    /\ fanout' = fanout \ {f}
    /\ steady' = steady \cap (f.visited \cup {Founder})
    /\ DatabaseFails
    /\ UNCHANGED <<drain, sub>>

\* listActiveConversationIds or the mailbox query: no operation is pushed.
DrainFails(u) ==
    /\ drain[u] # "idle"
    /\ drain' = [drain EXCEPT ![u] = "idle"]
    /\ steady' = steady \ {u}
    /\ DatabaseFails
    /\ UNCHANGED <<fanout, sub>>

\* isActiveMember of a subscribe frame: the frame has no effect.
SubscribeFails(u) ==
    /\ u \in sub
    /\ Free(u)
    /\ sub' = sub \ {u}
    /\ DatabaseFails
    /\ UNCHANGED <<drain, fanout, steady>>

\* u's socket closes.  Frames not yet read are lost, except that the relay may
\* have received the first few of the founder's op-sends, which it goes on to
\* handle.  A loop under way revisits u's key once the close has been noticed.
CutLink(u) ==
    /\ conn' = conn \ {u}
    /\ drain' = [drain EXCEPT ![u] = "idle"]
    /\ sub' = sub \ {u}
    /\ down' = [down EXCEPT ![u] = <<>>]
    /\ steady' = steady \ {u}
    /\ \/ /\ u = Founder
          /\ \E n \in 0 .. Len(opq) : lateq' = Append(lateq, SubSeq(opq, 1, n))
          /\ opq' = <<>>
          /\ UNCHANGED fanout
       \/ /\ u # Founder
          /\ \E noticed \in SUBSET {u} :
                fanout' = {[f EXCEPT !.visited = @ \ noticed] : f \in fanout}
          /\ UNCHANGED <<lateq, opq>>
    /\ UNCHANGED <<signed, roster, opStore, raced, gap>>

Disconnect(u) ==
    /\ u \in conn
    /\ faults < MaxFaults
    /\ faults' = faults + 1
    /\ CutLink(u)
    /\ UNCHANGED <<clientVars, restarts>>

\* subscribe of a user that is not an active member: the relay closes.
RefuseSubscribe(u) ==
    /\ u \in sub
    /\ Free(u)
    /\ u \notin roster
    /\ CutLink(u)
    /\ UNCHANGED <<clientVars, faults, restarts>>

\* resume: the service, pins, the catch-up guard and pending calls were in memory.
RestartClient(u) ==
    /\ restarts < MaxRestarts
    /\ restarts' = restarts + 1
    /\ stored' = [stored EXCEPT ![u] = disk[u]]
    /\ pins' = [pins EXCEPT ![u] = Null]
    /\ attempted' = attempted \ {u}
    /\ svc' = IF u = Founder THEN Null ELSE svc
    /\ todo' = IF u = Founder THEN {} ELSE todo
    /\ CutLink(u)
    /\ UNCHANGED <<disk, faults>>

\* The roster is in the database, the op store and the sockets are not.
RestartRelay ==
    /\ restarts < MaxRestarts
    /\ restarts' = restarts + 1
    /\ opStore' = <<>> /\ conn' = {} /\ fanout' = {} /\ lateq' = <<>>
    /\ drain' = [u \in Users |-> "idle"]
    /\ sub' = {} /\ opq' = <<>>
    /\ down' = [u \in Users |-> <<>>]
    /\ steady' = {}
    /\ UNCHANGED <<signed, clientVars, roster, faults, raced, gap>>

---------------------------------------------------------------------------
Author == \E call \in todo : AuthorOp(call) \/ AuthorOffline(call) \/ AuthorUnknown(call)

RelayStep ==
    \/ HandleOpSend
    \/ \E k \in DOMAIN lateq : HandleLateOpSend(k)
    \/ \E f \in fanout : FanoutEnd(f) \/ \E u \in Others : FanoutTo(f, u)
    \/ \E u \in Users : \/ DrainRead(u) \/ DrainPush(u)
                        \/ HandleSubscribe(u) \/ RefuseSubscribe(u)

Next ==
    \/ \E initial \in SUBSET Others : CreateRest(initial)
    \/ \E u \in Others : InviteRest(u) \/ RemoveRest(u)
    \/ Author
    \/ RelayStep
    \/ \E u \in Users : RecvOp(u) \/ Connect(u) \/ AwaitChainReady(u) \/ Persist(u)
    \/ \E u \in Others, n \in 1 .. MaxOps : AcceptInvitePin(u, n)
    \/ \E f \in fanout : FanoutFails(f)
    \/ \E u \in Users : DrainFails(u) \/ SubscribeFails(u)
    \/ \E u \in Users : Disconnect(u) \/ RestartClient(u)
    \/ RestartRelay

Spec == Init /\ [][Next]_vars

\* Node's event loop runs every queued handler, and an open socket delivers:
\* the relay's work and each client's receive path are never put off forever.
\* API calls, connections and failures are owed by nobody.
FairSpec == Spec /\ WF_vars(RelayStep) /\ \A u \in Users : WF_vars(RecvOp(u))

---------------------------------------------------------------------------
(***************************************************************************)
(* Properties                                                              *)
(***************************************************************************)
SignedOps == {signed[i] : i \in DOMAIN signed}
Handlers == [op : SignedOps, visited : SUBSET Others, via : Nat]
IssuedPins == {InviteFor(SubSeq(signed, 1, n)) : n \in 1 .. Len(signed)}

\* The shape of the state; every operation anywhere is one the founder signed.
TypeOK ==
    /\ signed \in Seq(SignedOps) /\ svc \in {Null, <<>>, signed}
    /\ opStore \in Seq(SignedOps) /\ opq \in Seq(SignedOps)
    /\ lateq \in Seq(Seq(SignedOps))
    /\ stored \in [Users -> Seq(SignedOps)] /\ disk \in [Users -> Seq(SignedOps)]
    /\ down \in [Users -> Seq(SignedOps)]
    /\ fanout \subseteq Handlers
    /\ pins \in [Users -> {Null} \cup IssuedPins]
    /\ todo \subseteq Calls
    /\ attempted \subseteq Users /\ roster \subseteq Users
    /\ conn \subseteq Users /\ sub \subseteq conn /\ steady \subseteq conn
    /\ drain \in [Users -> {"idle", "reading", "pushing"}]
    /\ faults \in 0 .. MaxFaults /\ restarts \in 0 .. MaxRestarts /\ raced \in BOOLEAN
    /\ gap \in [Users -> {"none", "open", "redrained"}]

\* Whatever is lost, repeated or overtaken on the way, no client and no relay
\* ever holds an operation out of its place: each chain is a prefix of the one
\* the founder signed, and what a client saved a prefix of what it holds.
\* (appendMembershipOp's dense guard, storeOp's, and the roll-back at
\* client.ts:525-533.)
PrefixAgreement ==
    /\ IsPrefix(opStore, signed)
    /\ \A u \in Users : IsPrefix(stored[u], signed) /\ IsPrefix(disk[u], stored[u])

\* A chain a client holds always verifies, so that membershipLogFor fails
\* closed on it for one reason only, an invite pin whose head the chain has not
\* reached: handleIncomingOp rolls back every append that would leave "a state
\* that would never verify" (client.ts:506-507), and a pin the founder issued
\* never contradicts a chain that contains its head.
HeldChainUsable ==
    \A u \in Users : stored[u] # <<>> =>
        (Usable(stored[u], pins[u]) <=>
            (pins[u] = Null \/ pins[u].pinnedHead.seq < Len(stored[u])))

\* Nothing the relay has accepted for u is still on its way.
Settled(u) == drain[u] = "idle" /\ u \notin sub /\ down[u] = <<>> /\ fanout = {}

\* No operation falls between the drain and the live push: a member that was
\* active when its connection was drained, and has stayed so, holds all the
\* relay has stored as soon as nothing is on its way, although drainAndPush
\* reads the roster and the store at different times and the fan-out loop
\* yields at every socket (index.ts:526-550, 602-618, 679-684).  It takes four
\* conditions: the queue of a closed connection is not worked off beside that
\* of its successor, for then a later operation may overtake an earlier one;
\* neither its drain nor a loop that had yet to visit it was ended by a
\* rejecting database call; a pin, if any, is in reach (a pin at genesis always
\* is); and none that was not has been exchanged for one that is since.
DrainCoversFanout ==
    ~raced => \A u \in steady \ {Founder} :
        Settled(u) /\ PinInReach(u) => IsPrefix(opStore, stored[u])

\* A member that from some point on stays connected and active, under the
\* conditions of DrainCoversFanout, ends up with every operation the relay has
\* stored, without reconnecting and without asking: the connect-time drain and
\* the fan-out between them are enough.
MembersCatchUp ==
    \A u \in Others :
        <>[](u \in steady /\ ~raced /\ PinInReach(u)) => <>[]IsPrefix(opStore, stored[u])

\* The op-log does what the abstract single-writer log promises.
AbstractLog == INSTANCE SignedLog WITH
    Writer <- Founder, log <- signed, view <- stored, durable <- disk
ImplementsSignedLog == AbstractLog!LogSpec

\* "a reconnect re-drain recovers gaps from the relay" (stores.ts:177-178; also
\* client.ts:525): an active member that dropped an operation as a gap, has
\* connected again and has been drained, waiting for nothing and with the
\* founder connected and idle, holds every signed operation.
RedrainRecoversGaps ==
    \A u \in steady \ {Founder} :
        /\ gap[u] = "redrained" /\ Settled(u) /\ pins[u] = Null
        /\ Founder \in conn /\ todo = {} /\ opq = <<>>
        /\ \A k \in DOMAIN lateq : lateq[k] = <<>>
        => stored[u] = signed

\* "a CORRECT out-of-band pin accepts the matching relay-served genesis - the
\* joiner catches up" (membership-gate.test.ts:180): a pinned joiner that has
\* been drained by a relay holding the whole chain holds a chain.
CorrectPinAdmitsServedChain ==
    \A u \in steady \ {Founder} :
        Settled(u) /\ pins[u] # Null /\ opStore # <<>> /\ opStore = signed
            => stored[u] # <<>>
=============================================================================
