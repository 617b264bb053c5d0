# signal-ai in TLA+

A verification project for signal-ai, an end-to-end-encrypted group messenger in
which an AI agent is a member like any other. The modules here model the parts
of the program whose correctness depends on the order in which things happen:
the signed membership op-log and how it is distributed, the relay's mailbox and
live delivery, the device and prekey directory, the client's link and its
peer-to-peer transport, the pairwise sessions under the command-line client and
its trust store, and the AI agent over its durable store. TLC checks them on
small instances; TLAPS proves every one of their safety properties for every number of
users, messages and failures, and delimits the four disagreements with the code's own
documentation (section 5).

Paths below are relative to `src/`; `client.ts`, `stores.ts` and `connection.ts`
are in `packages/client-sdk/src`, `log.ts`, `chain.ts`, `gate.ts`, `service.ts`
in `packages/membership/src`, `db.ts` and `mailbox.ts` in `apps/node/src`, and
`index.ts` is `apps/node/src/index.ts`.

## 1. Inventory

| Part | State | Operations | What makes it correct |
|---|---|---|---|
| Membership op-log (`packages/membership`) | a hash-chained list of signed operations, a watermark, an optional invite pin | `open`, `forJoiner`, `ingestChain`, `fold`, `members`, `head` | adopts only one-writer chains, never rewrites history, honours the pin |
| Inbound gate (`gate.ts`) | none of its own | `enforceInbound`, two catch-up attempts | authorises by the receiver's own head, never by the cited one |
| Founder's service (`service.ts`) | in-memory chain per conversation | `createConversation`, `invite`, `remove`, `inviteFor` | signs one dense chain |
| Op distribution, client (`client.ts`, `stores.ts`) | cached chain, saved chain, pins, one-shot catch-up flag | `handleIncomingOp`, `authorMembershipOp`, `syncOwnMembershipChain`, `acceptInvitePin`, `awaitChainReady` | every chain a prefix of the founder's, and usable |
| Op distribution, relay (`index.ts`) | in-memory op store, live sockets, per-connection frame queue | `storeOp`, fan-out, `drainAndPush`, `subscribe` | nothing falls between drain and fan-out |
| Mailbox and live delivery (`index.ts`, `mailbox.ts`, `db.ts`) | rows by seq, live registry, drain buffer | `send`, `ack`, `subscribe`, drain, close | no envelope lost, stranded or reordered |
| Client receive path (`client.ts`) | serial inbox, ratchets, `seenMsgIds` | `handleIncomingEnvelope`, `safeAck` | each message shown once, acked only when decided |
| Client send path (`client.ts`) | ratchets, link | `send`, `sendRaw` | targets are the fold's members |
| AI agent (`apps/agent`, `stores/sqlite.ts`) | task queue, window, mode bookkeeping, account snapshot | `reconcileConversation`, `onMessage`, `reply`, `degrade`, `handleSelfRemoval`, `boot` | one intro, cadence, window, purge, all over crashes |
| Duplex link (`connection.ts`) | socket, timers, `settled`, `closedByUser` | `connect`, `disconnect`, socket events, reconnect | one live socket; reconnects until told not to; `connect()` settles |
| Devices and prekeys (`db.ts`, `client.ts`, `core/prekeys.ts`) | device rows, one-time prekeys, next prekey id | `registerDevice`, `fetchPreKeyBundles`, `consumeOneTimePreKey`, `signup`, `resume`, `reregisterDevice`, replenish | one active device row; each prekey given out once, with its own identity; a saved prekey opens |
| Sessions (`core/session.ts`, `group.ts`, `stores.ts`) | libsignal sessions, identity keys, change log, `storeTail` | `establish`, `encrypt`, `decrypt` | ratchet steps are not lost, changes of identity are reported |
| P2P transport (`transport-p2p.ts`, `transport-select.ts`, `packages/p2p`) | outbox, relay fallback | `openSocket`, `attach`, `send`, `close` | queued frames are replayed in order, one stream per socket |
| CLI (`apps/cli`) | verified fingerprints, AI member, active conversation, account snapshot | commands, sidebar, event handlers, `persist`, login | a tick stands for a comparison; a removed member gets nothing |
| Schemas, tokens, lockout (`packages/proto`, `auth.ts`) | lockout counter | validation, lookup | sequential, covered by tests |

How they interact. The founder's client makes a REST call (the relay's roster in
the database changes) and then signs an operation, records it, and sends it over
its WebSocket. The relay stores it in memory and pushes it to live sockets of
active members; sockets that authenticate or subscribe later are drained. Every
client appends what it receives to its own chain. A message carries the head of
its sender's chain; the receiver's gate checks head and sender against its own
chain before the application sees it. Messages wait in the mailbox until they
are acknowledged by seq. Before it can encrypt, a client fetches a peer's bundle
from the directory, which uses up a one-time prekey, and opens a session; the
peer's session begins with the first message. The agent is a client whose
application is a serial queue of tasks over an SQLite file; the command-line
client is one whose terminal starts commands side by side, over a trust store
that is written at once and an account snapshot that is written now and then.

What is hard here:

- *Interleaving at awaits.* Node runs one handler at a time but switches at every
  `await`. The `send` handler has four of them, `drainAndPush` two, the fan-out
  one per socket; the two halves of a dual write (REST, then operation) are far
  apart.
- *Ordering.* Frames of one connection are handled in order; frames of a closed
  connection are still handled, beside those of its successor. A close event may
  run after the device has connected again.
- *Failure.* A link drops with frames in flight both ways; a query of the relay that
  rejects ends the handler in the middle, and nobody is told (`index.ts:576`); the
  relay's op store and the founder's service do not survive a restart; a client comes back with what
  its application last saved; the agent may crash between a send and any of the
  writes that follow it.
- *Staleness.* The live target is looked up before an `await` and used after it;
  the roster is read before the rows; the fold lags behind the roster; a bundle
  is used after another command, or a message, has met a newer key.
- *Late events.* A socket reports ready, errors and closes after the link has been
  disconnected or replaced; timers are armed and cleared in between.

`PROJECT.json` lists every part under `components` and every hazard, at its line,
under `hazards`.

## 2. Modules

| Module | Models | Extends |
|---|---|---|
| `MembershipChain` | operations, hashes, signatures, `verifyChain`, `fold`, ingestion, `inviteFor`, the gate: operators only | |
| `MembershipLog` | one `MembershipLog` object and the gate against arbitrary served chains | `MembershipChain` |
| `MCMembershipLog` | its instance: chains two keys can sign, forks, splices, damaged operations | `MembershipLog` |
| `MembershipLogProofs` | its theorems | `MembershipLog`, `SequenceFacts` |
| `SignedLog` | abstract: a single-writer log of which everyone holds a growing prefix | |
| `MembershipSync` | how the op-log is authored, stored, fanned out, drained, adopted, saved | `MembershipChain`, instance of `SignedLog` |
| `MCMembershipSync` | its instance | `MembershipSync` |
| `MembershipSyncProofs` | the theorems | `MembershipSync`, TLAPS |
| `StoreAndForward` | abstract: a mailbox that keeps an envelope until it is decided, once | |
| `RelayDelivery` | envelopes from senders through the relay to one recipient device | instance of `StoreAndForward` |
| `MCRelayDelivery` | its instance, with symmetry of senders and a partial-order reduction | `RelayDelivery` |
| `RelayDeliveryProofs` | its theorems | `RelayDelivery`, `SequenceFacts`, TLAPS |
| `SequenceFacts` | lemmas about sequences, and about ascending lists of a set of numbers | TLAPS |
| `Agent` | the AI member in one conversation over its store | |
| `AgentProofs` | its theorems | `Agent`, `SequenceFacts` |
| `DeviceDirectory` | one account's device: installs, publishing, registration, bundle fetches, crashes | |
| `MCDeviceDirectory` | its instance, with symmetry of peers | `DeviceDirectory` |
| `DeviceDirectoryProofs` | its theorems | `DeviceDirectory`, TLAPS |
| `DuplexLink` | the client's links to the relay and their sockets | |
| `P2pTransport` | the peer-to-peer transport under a bare consumer | |
| `Transport` | the choice between the two, and the specification that is run | `DuplexLink`, `P2pTransport` |
| `TransportProofs` | its theorems | `Transport`, TLAPS |
| `SessionStores` | identity and session store, and the operations queued on them | |
| `CliApp` | the command-line client's commands, inbox, trust store and snapshot | `SessionStores` |
| `MCCliApp` | its instance, with symmetry of command slots | `CliApp` |
| `CliAppProofs` | its theorems | `CliApp`, `SequenceFacts` |

**MembershipChain / MembershipLog.** An operation is a record with the fields of
`ops.ts`. A hash is the operation itself, wrapped (hashing is injective); a
signature is the key that made it. `VerifiesAt` follows `verifyChain`'s loop body
check by check, `Ingestible` the tests of `ingestChain` in order, `EnforceInbound`
the gate with both catch-ups. The actions are the object's public methods; the
chains offered are arbitrary members of `Candidates`. `fold`'s loop is the recursive
function `FoldedTo`, from the number of operations applied to the state reached.
`Created` and `AppendedTo` are the operations that `createConversation` and `append` of the
founder's service sign. `append` is given a type with the other fields; the service's own
methods pass `invite`, `remove` and `setAiMode` only, while `verifyChain` admits a later
`create` as well, and `AppendedTo` is as wide as `append` is. A chain is `WrittenByOne` when each of its operations is the one the
service would have signed on top of the one before it, with the first operation's key.

**MembershipSync.** `CreateRest`, `InviteRest`, `RemoveRest` are the REST half of
an API call; `AuthorOp`, `AuthorOffline` and `AuthorUnknown` the second half: with
the link up, with the link down (recorded, broadcast throws, swallowed), and with
a service that does not know the conversation (after a restart). `RecvOp` is
`handleIncomingOp` with its roll-back. `Connect`, `DrainRead`, `DrainPush`,
`HandleSubscribe`, `RefuseSubscribe` are the relay's connection handling;
`HandleOpSend` stores and starts a handler whose `FanoutTo` steps visit sockets one
by one; `HandleLateOpSend(k)` works off the queue of the `k`th closed connection, each beside
the others. `AcceptInvitePin` may replace the pin of an earlier invite.
`Disconnect`, `RestartClient` and `RestartRelay` are failures, and so are `FanoutFails`,
`DrainFails` and `SubscribeFails`: a query of that handler rejects, the rest of it is left
out, and the socket stays open. `Persist` is the application's save.
`signed` is a history variable; `steady`, `raced` and `gap` are history used only in properties.

**RelayDelivery.** `hand[l]` is the program counter of the `send` handler on a
sender's connection: `AdmitSend`/`RefuseSend` (membership of the sender),
`StoreEnvelope`, `LookUpTarget`, `CheckRecipient`, `LivePush`. `DrainScope`,
`DrainQuery` and `DrainSend` are `drainAndPush`; live pushes meanwhile go to
`buffer`. `NoticeClose` is the close event, `HandleLateAck` an ack handled after its
connection has closed. `SendFails`, `PushFails`, `DrainFails`, `AnswerFails` and `LateAckFails`
are the rejecting queries of these handlers; after a failing drain on authentication the
connection is `stuck`, with `draining` set for good and every live push going to a buffer that
nobody sends. `Receive`, `Decrypt`, `Subscribe`, `Decide` are the client's serial
inbox: a ciphertext decrypts once (libsignal, external), the gate's verdict is
either one, and both verdicts are acknowledged. `DecryptFails` is a first decryption that
fails: no ack, and the row stays for the next drain. `StoreAndForward` is what all this amounts
to for the recipient: `Send` and `Resend` are `Post`, the
insertion of a row is `Store`, `Decide` is `Decide`, an ack is `Discard`; connections, drains,
pushes, look-ups and decryption do not occur in it.

**Agent.** `at` is the program counter of the task under way; every row write is a
step of its own, so that `Crash` may fall between any two. `ListMembers`,
`ListForbidden`, `ListFails` are the three ends of `listMembers`; `PurgeContext`,
`PurgeMeta`, `DropConversation` are `handleSelfRemoval`; `SendIntro`, `SaveGreeted`,
`PersistGreeted` are `maybeSendIntro`; `Take`, `Count`, `LlmAnswers`, `SendReply`,
`RecordReply`, `ResetCounter`, `Persist`, `Degrade` are `onMessage`, `reply` and
`degrade`. Of the account, the model keeps what the agent's logic reads, the messages whose
receipt it remembers (`seenMsgIds`, and the ratchet that has moved past them), and the sending
ratchet of one session: its chain, 0 while there is no session, and the position in it. A
message whose ack was lost stays in `mailbox` and is delivered again; it decrypts again if a
crash has brought back an account that does not remember it. A send without a session opens
a fresh one. The token budget of the window is a choice: it may
trim the window to any length but zero. `turns`, `intros`, `since`, `chains`,
`used`, `reused`, `again` and `torn` are history.

**DeviceDirectory.** `app` is the running process: which boot it is, its identity, the
next prekey id, the private one-time prekeys it holds, how many are still to publish.
`Signup` and `ReregisterDevice` provision; `Publish` is one `POST /devices`, whose
transaction is `RegisterFind` (it reads the active row) and `RegisterCommit` (it closes
that row or refreshes it, and files the prekey); the relay goes on with it when the
client is gone. `PublishFails` is a lost request or a lost answer. A fetch is `PeerFetch`
or the device's own `Peek`, then one `BuildBundle` per row read, in which
`ConsumeOneTimePreKey` pops a prekey. `OpenPreKey` is a peer's first message; one that
cannot be opened leaves no trace. `Persist`, `Crash` and `Resume` are the host's snapshot
and what comes back from it. `ever` and `bundles` are history.

**DuplexLink, P2pTransport, Transport.** `Connect` and `Disconnect` are the client's calls;
a new `connect()` disconnects the old link and builds another. `Open`, `Ready`, `Error` and
`Close` are the callbacks of one `openOnce`, `Lose` the network; a socket that was told
to close still delivers what was under way. `AuthRejects` is a relay whose token look-up
rejects: the socket is then `mute`, open with neither a ready frame nor a close, and the client
has no timer for that. `Reconnect` is the timer. Keepalive and
backoff are fields of the link. In `P2pTransport`, `Opened`, `Failed` and
`FallbackTimeout` are the events of a dial (`Failed` also after `close()`, of which the error
handler knows nothing), `Flush` is `flushInto`, and `wire` records
what was written and whether its stream had opened. The link is not run over the
peer-to-peer transport, because it would wait for a ready frame that never comes
(`transport-p2p.ts:68-76`). When an older socket opens while the newest is still
dialing and frames are queued, `flushInto` moves frames from the outbox to the
outbox for ever; the model stops there (`spinning`).

**SessionStores, CliApp.** An operation of `SessionManager` waits in `storeTail`, reads the
session, saves the identity and saves the session, one step each. A command of the
terminal is a task with a program counter whose steps are the stretches between
awaits: `Fetch`, `Check`, `HasSession` and `Established` are `resolveUser` and
`establishOrRefreshSession`, `List` and
`Listed` are `listMembers` (the relay may list anyone), `Ensure`, `Encrypt`, `Sealed`,
`Transmit` are `sendRaw`, `Rest` and `Author` the dual write of `invite` and
`removeMember`, `Render` the rows of `/members` and of the sidebar. `/verify` ends in two
steps: `SetVerified` writes the trust store and saves the account, which may throw, and `Show`
puts up the fingerprint. The op-log is `authored`, of which the client holds the first `held`
operations and the relay the first `stored`; `fold` is the member set after the last one held, and
`OpArrives` the relay's drain. `Receive`, `Decrypted`, `Deliver` are the inbox. `Drain` is
`drainIdentityChangeLog` together with the application's handler. `Crash` brings back the
snapshot, the op-log included, and the trust store. `made`, `shown`, `unseen`, `gone` and a
task's `avoid` are history or bookkeeping for the properties.

## 3. Runs

| Run | Checks | Shows |
|---|---|---|
| `membership_log` | `HoldsVerifiedChain`, `PinHonoured`, `OnlySingleWriterChains`, `GateAuthorisesAtOwnHead`, `HistoryNeverRewritten` | whatever is served, the log holds a verified chain by one writer that only grows; the gate uses its last word |
| `sync_faults` | `TypeOK`, `PrefixAgreement`, `HeldChainUsable`, `ImplementsSignedLog` | restarts, pins that replace one another, frames lost with a link: still prefixes of the founder's chain, and usable unless a pin is ahead |
| `sync_live` | `DrainCoversFanout`, `MembersCatchUp` | with a lost link or a failing query: no operation falls between drain and fan-out; a member that stays connected catches up |
| `sync_gap` (violation) | `RedrainRecoversGaps` | see finding 1 |
| `sync_pin` (violation) | `CorrectPinAdmitsServedChain` | see finding 2 |
| `delivery` | `TypeOK`, `ShownOnce`, `DeletedOnlyIfHandled`, `LinkOrder`, `NoneStranded`, `ImplementsMailbox` | two senders' handlers racing the drain, acks, a reconnect, late close events, failing queries and decryptions |
| `agent` | `TypeOK`, `IntroOnce`, `WindowIsRecentPast`, `CadenceKept`, `RemovalPurges` | a crash anywhere, failing calls, lost acks, a removal, a re-invite or a change of mode |
| `agent_ratchet` (violation) | `RatchetNeverReused` | see finding 3 |
| `directory` | `TypeOK`, `OtpHandedOutOnce`, `BundleOfOneInstall`, `SavedPreKeyOpens` | overlapping installs, fetches, failing publishes and crashes |
| `device_rows` (violation) | `OneActiveRow` | see finding 4 |
| `transport` | `TypeOK`, `OneLiveSocket`, `ReadyMeansLive`, `ReplayedInOrder`, `OneStream`, `QuietAfterDisconnect`, `ComesBack`, `ConnectSettles` | late events, refused dials, lost sockets, a relay that fails to authenticate; dial, fallback and outbox |
| `trust` | `TypeOK`, `RatchetAdvances`, `QueueMoves`, `TickMeansCompared`, `ChangeIsReported`, `RemovedNotEncryptedTo` | two commands and the inbox side by side, changing keys, a lying roster, failing calls, bundles and saves, a crash that takes back the op-log |

**Bounds, and why they are enough.**

- `membership_log` has no counters: the candidates are all one-writer chains up to
  three operations over four genesis operations (two forks of one founder, a
  foreign key under the founder's name, another conversation), splices that keep
  the head and replace the middle, and each single damage of the last operation.
  Every test in `verifyChain` and `ingestChain` looks at one operation and its
  predecessor, so three operations show each test at the start, the middle and the
  end. The log only grows, so the state graph is finite, and there is no deadlock.
- The `Sync` runs have the founder and one other user: operations travel to each
  client on its own, and clients do not talk to one another. Two operations show
  loss, duplication and overtaking. Two calls of the founder at once change the order of signing
  only, which is arbitrary anyway (`MaxPending`). `MaxFaults` counts lost links and
  failing queries together; `sync_live` has one and no restart, `sync_faults` one
  restart and no other fault, and `sync_gap` two lost links. `sync_faults` has a `VIEW`
  without `steady`, `raced` and `gap`, which no guard and none of its properties reads
  but `TypeOK`, for which they are proved. The proofs carry the
  safety part to every size.
- `delivery` has two senders with a ciphertext each, or two from one, and two events
  (a lost link, a roster change, a resync, a failing query, a failing decryption). Reordering and dropping need two
  envelopes; a live push racing a drain needs two senders; a close event noticed
  late needs a second connection, and a removal with its re-invite both events.
  The action constraint `LocalFirst` takes a step that commutes with all others (the
  client's decryption, a stale close event; once no event is left also a receipt and
  the handler's look-ups) before any other, a partial-order reduction to a quarter of
  the states; the theorems of section 4 are about `Spec` without it.
- `agent`: a window and a cap of two, two messages (a mentioned one and the one that
  would be answered too soon), one change (a removal, a re-invite or a change of mode),
  one failed call or lost ack, one crash, in an active conversation. Each pair of these can
  meet. The sending chain there is only the one the agent opens itself (`MaxChains` 0);
  `agent_ratchet` has one that a peer's message begins, so that a saved session exists.
  The theorems are for every mode and all bounds.
- `directory`: installs, resumes and crashes share the bound on boots; overlapping
  registrations need two boots, and an id generated twice needs a resume. Fetches
  are bounded so that a peer and the peek, or two peers, compete for one prekey.
- `transport`: two links show replacement, four faults a failure before ready, one
  after it and one on the way back, with a failed authentication among them or not;
  backoff 3, 6, 10 shows the first step, a doubling and the cap. Two sockets and three
  frames let a socket be closed, or fail late, and be replaced, with frames in between.
- `trust`: one contact with two keys, two commands at a time, one incoming envelope,
  one crash. The operations of different contacts meet only in `storeTail`, where two
  tasks of one contact queue as well.

`CHECK_DEADLOCK FALSE` is set where users, failures or messages are bounded, or may
simply stop: nobody has to send, invite or reconnect.

**Fairness.** `sync_live`: weak fairness of the relay's steps and of each client's
receive path, because Node runs every queued callback and an open socket delivers
what was written to it. Nothing is assumed of users, of connecting or of failures.
`agent`: weak fairness of the task under way (its calls return or throw), of
the restart (the process is supervised), and of the sweep timer, which is on unless
`reconcileIntervalMs` is 0 or less. `transport`: weak fairness of each socket's open,
ready and close events and of each reconnect timer, since the event loop runs them and a
relay that did not fail on the auth frame answers it. Of a mute socket nothing is assumed:
no ready frame, no close, no error ever. Faults are bounded in number, and users need
not do anything.

**Conditions in the properties.** Each names a case in which the code really does
not keep the promise; the model reaches that case, and the condition is as narrow as TLC
and the proofs allow.

- `DrainCoversFanout` and `MembersCatchUp` exclude two handlers of the founder's connections
  at once (`raced`), where the fan-out order is not kept; a member whose drain, or whose
  turn in a fan-out, a rejecting query cut off (it leaves `steady` until its next drain); a
  pin more than one operation ahead of the chain (`PinInReach`), which is finding 2; and a
  member that has exchanged such a pin for another since its drain, since what the first
  pin kept out is not sent again.
- `NoneStranded` excludes a recipient for whom a push or a drain failed since (`steady`; if it
  was the drain on authentication, until it connects again), and envelopes that failed
  to decrypt, whose rows stay. `LinkOrder` excludes histories in which the recipient was
  inactive when a message came in, or a push, that drain or a decryption failed (`lapsed`):
  such a message waits for the next drain and live pushes do not wait for it.
- `IntroOnce` and `CadenceKept` exclude a crash between a send and the row that records it
  (`torn`), and `RemovalPurges` a crash that leaves rows of a conversation the snapshot has not
  heard of yet (`Orphaned`): the code has no defence there, and finding 3 is about the
  former. `WindowIsRecentPast` lets a message come twice, or late, if a crash undid its
  receipt while the relay had no ack (`again`); no other may.
- `SavedPreKeyOpens` speaks of prekeys that have been on disk: one that is published and lost
  in a crash before the next save cannot be opened any more.
- `ComesBack` and `ConnectSettles` except a link that waits on a mute socket (`Muted`): the
  handshake has no timeout (`connection.ts:94-100`). `ReadyMeansLive` judges the reported
  state while no link was replaced. `OneStream` allows a closed socket one stream if an error
  came after `close()` (`late`), because the handler then dials once more.
- `RatchetAdvances` is about one life of the process. `TickMeansCompared` has two kinds of
  fingerprints: those put up for comparison, and those recorded by a `/verify` that a crash
  or a failing save kept from putting them up (`unseen`).
- `ChangeIsReported` is about a client's first life: a snapshot taken in the middle of an
  operation may bring back a key that the session is not bound to, and then the report
  waits for the next message.
- `RemovedNotEncryptedTo` is about commands that begin after the removal; one that has its
  member list already goes on with it. The removal counts as far as the client holds it: a
  crash takes back an operation that was not saved, and until the relay drains it again a
  relay that still lists the member has it encrypted to.

Every property of a passing run has a mutant in `PROJECT.json`: a plausible slip in
one modelled definition under which TLC finds the property violated.

## 4. Proofs

`MembershipSyncProofs` proves, for every set of other users, every founder not among
them, and every natural bound:

| Theorem | Statement |
|---|---|
| `TypeCorrect` | `Spec => []TypeOK` |
| `Agreement` | `Spec => []PrefixAgreement` |
| `Refinement` | `Spec => ImplementsSignedLog` |
| `HeldUsable` | `Spec => []HeldChainUsable` |
| `DrainCovers` | `Spec => []DrainCoversFanout` |
| `PinAheadStalls` | `Spec => [][\A u \in Others : ~PinInReach(u) /\ pins'[u] # Null => stored'[u] = stored[u]]_vars` |
| `GapIsForGood` | `Spec => [][StoreGap => StoreGap' /\ (opStore' = opStore \/ opStore' = <<>>)]_vars` |

Assumptions: `FounderIsNotAnother`, `BoundsAreNatural` and `NullIsNoValue` (`Null` is no user,
no set of users and no boolean), evaluated by TLC in the `sync` runs.

The argument. `PrefixAgreement` is not inductive. A client or relay appends an
operation when its `seq` equals the length of what it holds; for the result to be a
prefix of the signed chain, the operation must be one the founder signed (`TypeOK`
says this of every frame, queue and store), and its `seq` must be its position
(`Indexed`). For that, the service must sign on top of the whole signed chain or not at
all. `TypeOK` says that its chain is absent, empty or all of `signed`; an empty chain
after a restart is harmless only because genesis is authored once, which is
`GenesisOnce`: a conversation is created while the roster is empty, and a pending
create call means nothing has been signed. `DrainsConnected` keeps the frames of a
drain on an open connection. Their conjunction with `Chained`, which restates
`PrefixAgreement` position by position, is the invariant `IInv`. `InitHolds` and `StepHolds`
show it inductive, with a lemma per group of actions and one step per action in it.
`DenseAppend` is the heart: a dense append of a signed operation keeps a prefix a
prefix.

For `Refinement`, `signed` is the abstract log, a client's chain its view and its save
the durable copy. Authoring is `Write`, adopting is `Learn`, saving is `Save`, a client
restart is `Crash`, and every relay and network step is a stutter (`StepRefines`).

`HeldUsable` adds `Linked` to the invariant: every signed operation is well formed and
names its predecessor's digest, because the service signs on top of the whole chain or
not at all. A nonempty prefix of a linked chain verifies (`PrefixVerifies`), and every
chain held is one. A pin the founder has issued fits such a prefix exactly when the
prefix contains the pinned head (`PinFits`).

`DrainCovers` adds `Covered`. A member need not have the frames it is owed in its queue
exactly; frames arrive twice, or ahead of their turn, and its dense guard drops them.
`Carries(n, q, m)` says what is left of a queue `q` after that: the frames `n` to `m - 1`
occur in it in this order, so that a client holding `n` operations ends up with `m`. For
each member drained while active, either a drain is still to push, or its queue carries
the whole store, or it carries all but the last operation and the loop that fans this
one out has not visited the member (`Reaches`). The six `Carries` lemmas say what a drain,
a visit and a receipt do to this; that the next operation is never rolled back is
`PrefixVerifies` again. The last case needs that one loop runs at a time (`OneLoop`), which
is true until frames of two connections are handled at once: this is the condition
`~raced`, and where it fails the property does. A pin in reach never stands in the way of
the next operation (`NextIsUsable`), and a pin out of reach comes into reach only by a
restart, which ends the connection, or by being exchanged, which ends `steady`; so the
invariant may speak of members whose pin is in reach, without knowing how they came by it. A
query that rejects takes out of `steady` exactly the members it leaves without the operation:
all those the loop had not visited (`FanoutFails`), or the one being drained (`DrainFails`).

`PinAheadStalls` and `GapIsForGood` state findings 2 and 1 for every size. The first rests on
`PinFits`: with one more operation the chain would still be short of the pin, and is rolled
back. For the second, `StoreGap` says that the relay lacks a signed operation and that no
frame left to handle carries it; every operation signed later has a higher number, so that
the dense store drops what comes.

`MembershipLogProofs` proves, for every set of chains that may be offered, whatever is in
them, every set of invite pins and every set of senders:

| Theorem | Statement |
|---|---|
| `HeldVerifies` | `Spec => []HoldsVerifiedChain` |
| `PinIsHonoured` | `Spec => []PinHonoured` |
| `GateAuthorises` | `Spec => []GateAuthorisesAtOwnHead` |
| `HistoryOnlyGrows` | `Spec => HistoryNeverRewritten` |
| `VerifyingIsWriting` | every chain `c`: `VerifyChain(c) <=> WrittenByOne(c)` |
| `HeldIsWritten` | `Spec => []OnlySingleWriterChains` |
| `PinFixesPast` | `Spec => [](`every verified chain that honours the pin agrees with the one held up to the pinned head`)` |
| `GateAdmitsMembers` | a member by the last word that cites a head of the receiver's chain passes the gate |

Assumptions: `ChainsAreArrays` (a chain is a sequence whose operations have natural `seq`s),
`OpsAreRecords` (an operation has the fields of `ops.ts` and no others),
`PinsHaveHeads` (a pin has a head, with a natural `seq`) and `LogsAreObjects` (a log is not
`Null`), evaluated by TLC in the `membership_log` run. They are the types of `ops.ts` and
`log.ts`; nothing is assumed of signatures, links or order.

The invariant `GoodLog`: a log is as it was built, with the pin's head for a watermark, or
it holds a verified chain of its conversation that honours the pin, and then the watermark
is that chain's head. `IngestEffect` is the heart: `ingestChain` decides twice, once about
the chain and once about the watermark, and the lemma shows that a candidate that passes
the tests is always adopted whole. That it extends the chain held follows from
the one digest compared at the watermark (`HeadMeansPrefix`), by an induction down the hash
links (`SharedPast`). For the gate, the log that authorises is the one left behind, since
the second catch-up, against the same provider, adopts nothing new (`GateLogIsLeft`). And the
senders it lets in are members by the last word of the history, a definition that does
not follow `fold`'s loop: `FoldIsLastWord` shows by induction over the positions that the
loop computes it for every verified chain, later `create` operations included.
`GateAdmitsMembers` is the converse for a sender that is up to date.

`VerifyingIsWriting` compares the two ends of the op-log: what `verifyChain` asks of an
operation and its predecessor is what `append` puts there. From the checks to the writer it
is a comparison of fields; the other way, each check that refers to the chain's first
operation (its key, author and conversation) needs an induction along the chain, since
`append` hands these on from one operation to the next (`HandedOn`). `PinFixesPast` says what a
pin is worth: by `SharedPast`, every verified chain that contains the pinned head agrees with
the chain held up to it.

`DeviceDirectoryProofs` proves, for every set of peers, every batch size and all bounds:

| Theorem | Statement |
|---|---|
| `DirectoryTypes` | `Spec => []TypeOK` |
| `OneInstall` | `Spec => []BundleOfOneInstall` |
| `HandedOutOnce` | `Spec => []OtpHandedOutOnce` |
| `SavedOpens` | `Spec => []SavedPreKeyOpens` |
| `SerialRegistrationsOneRow` | `Spec /\ [][OneRegistration]_vars => []OneActiveRow` |

Assumption: `DirectoryAssumption` (the bounds are natural, a batch is not empty and fits
below `MaxId`, `Null` is no peer, no key and no process), evaluated by TLC in the `directory`
run.

The argument goes in layers, whose conjunction `Directory` is inductive; TLC checked
the layers on two instances (batches of one and of two) before they were proved.
`Shape` has the types, and that only a live client looks at its own bundle. `RowKeys`
gives `OneInstall`: a pooled key carries the identity of its row, and a row never
changes identity, so that it does not matter when the row was read or which row a
registration found. `OneHolder` gives `HandedOutOnce`: a key is in one request, one pool
row or one bundle. It needs every published key to be fresh, which is `Numbered` (every
key in use is of an earlier boot, or below the next number of this one), which in turn
needs `Process` (where the counters stand while a request is under way). `Kept` says
that each copy of an identity, running or saved, holds the saved keys or has opened a
bundle with them; the proof that storing a key never displaces another uses the
numbering again. `SavedOpens` is `Kept` together with both theorems before it: the bundle
that was opened with the key can only be this one.

`SerialRegistrationsOneRow` is about behaviours in which a registration reads the active row
only while no other is between its read and its commit (`OneRegistration`); the invariant
added is that the registration under way has found the active row, if there is one
(`Serial`). Crashes, lost answers and reinstalls remain: overlap alone causes finding 4.

`TransportProofs` proves, for any number of links, sockets, frames and faults:

| Theorem | Statement |
|---|---|
| `TransportTypes` | `Spec => []TypeOK` |
| `LinkIsSingle` | `Spec => []OneLiveSocket` |
| `ReadyIsLive` | `Spec => []ReadyMeansLive` |
| `DisconnectIsFinal` | `Spec => QuietAfterDisconnect` |
| `ReplayInOrder` | `Spec => []ReplayedInOrder` |
| `StreamIsSingle` | `Spec => []OneStream` |

Assumptions: those of `DuplexLink` and `P2pTransport` on bounds and backoffs, evaluated by
TLC in the `transport` run. The two transports have an invariant each. For the link it
says that only the last socket of a link may be alive (`LastIsLive`), and that a
reconnect waits only on a link that is kept and whose sockets have all closed
(`TimerAlone`); `LinkIsSingle` and `DisconnectIsFinal` need both. For the peer-to-peer
transport, the stream a socket writes to is its own and the only one that may live
(`OwnStream`), a closed socket waits for no timer, and without a late error its stream
has ended (`ClosedIsOver`), nothing is queued
once the newest socket is open (`NoneWaitsForOpen`, without which a frame could pass
the queued ones), and wire and queue count up the frames handed in (`Counted`).

`RelayDeliveryProofs` proves, for all senders, envelopes, connections and events:

| Theorem | Statement |
|---|---|
| `DeliveryTypes` | `Spec => []TypeOK` |
| `NoneLost` | `Spec => []DeletedOnlyIfHandled` |
| `NoneTwice` | `Spec => []ShownOnce` |
| `DrainMeetsPush` | `Spec => []NoneStranded` |
| `NoneOvertakes` | `Spec => []LinkOrder` |
| `MailboxRefinement` | `Spec => ImplementsMailbox` |

Assumptions: those of `RelayDelivery` (natural bounds, the recipient is no sender, `Null`
is no seq), evaluated by TLC in the `delivery` run. `NoneLost` needs that an ack names a seq
whose envelope was decided, on whichever connection it travels. `NoneTwice` needs that
what is being decided has not been shown, which is what the set of seen ids is for.
`DrainMeetsPush` is the delicate one: while a connection has been steady, each row
that the client has not decided is on its way to it (pushed, buffered, in the drain's
result, in the inbox) or is in the hands of a `send` handler that will yet look up
the live target; the case that matters is a handler that looked up its target before
the drain's query and pushes after it. Three exceptions carry through the argument: a row
whose decryption failed, a recipient that is no longer `steady` because a query failed, and a
`stuck` connection, which is never `steady` again until the device reconnects. `NoneOvertakes` orders all of these places one
behind the other: inbox, frames, drain, buffer, handler. The drain's result is the rows
in ascending order of seq; that a finite set of numbers has exactly one such list is
proved in `SequenceFacts` by induction over the numbers.

For `MailboxRefinement`, an envelope is stored while `seqOf` has a seq for it, is in the box
while its row is, and decided when the client has handled it. Transmitting is `Post`, the
row's insertion `Store`, the verdict `Decide`, an ack `Discard`, and every other step a stutter
(`MailStep`). It needs two facts more: what the client is busy with it has not decided before
(`Undecided`), without which a verdict could repeat, and that an envelope has one seq
(`OneSeq`), without which an ack could discard a row and leave the envelope in the box.

`CliAppProofs` proves, for all contacts, any number of commands side by side, all keys
and all crashes:

| Theorem | Statement |
|---|---|
| `ClientTypes` | `Spec => []TypeOK` |
| `ChainMovesOn` | `Spec => []QueueMoves` |
| `SealedOnce` | `Spec => []RatchetAdvances` |
| `TicksAreCompared` | `Spec => []TickMeansCompared` |
| `ChangesAreReported` | `Spec => []ChangeIsReported` |
| `RemovedIsAvoided` | `Spec => []RemovedNotEncryptedTo` |

Assumptions: `SessionAssumption` and `CliAssumption` (the inbox is no command slot, `Null` no
contact, bounds are natural), evaluated by TLC in the `trust` run. The invariant's parts:
`QueueInv`, each operation to do is in `storeTail` once and only the first has begun, from
which `ChainMovesOn` follows and which gives the others that one operation is at work
at a time; `RatchetInv`, the keys used with a peer on a chain lie at or below the
session's position, and below the one an encryption at work is about to use, and no
chain number is given out twice; `KeyInv`, a session is bound to the key on file except
between the two saves of an operation, so that an operation that opens no session
meets no change (this is what a crash can break, and why `ChangeIsReported` is about
the first life); `AvoidInv`, whom a command avoids is on none of its lists, and in the
roster and the log never both, of which the log is the one held now; `VerifiedShown`, a verified
fingerprint was put up, or was recorded by a `/verify` that was cut off before it could; `LogShape`,
the positions held, stored and saved are positions of the log, so that a crash restores
a fold there once was, for which a step that saves must save what is held (`Saved`).
`TaskFit` ties each task to its operation.

`AgentProofs` proves, for every window, every cadence and all bounds:

| Theorem | Statement |
|---|---|
| `AgentTypes` | `Spec => []TypeOK` |
| `OneIntro` | `Spec => []IntroOnce` |
| `WindowRecent` | `Spec => []WindowIsRecentPast` |
| `RepliesArePaced` | `Spec => CadenceKept` |
| `OnlyUnsavedCrashesReuse` | `Spec /\ [][CrashElsewhere]_vars => [](RatchetNeverReused /\ intros <= 1)` |

Assumptions: `LimitsArePositive` (window and cap are at least one) and `BoundsAreNatural`,
evaluated by TLC in the `agent` run. The invariant's parts: `ProcShape`, `AccountShape` and
`RowShape`, the types, and that a process that is not up has no task and no queue;
`AccountShape` also says that a message the relay holds without ack is remembered by the
account, or is one whose receipt a crash has undone (`again`); `Numbered`, the other messages
that wait are in order, and newer than the one under way and than all recorded turns,
from which the window's order follows;
`Recent`, the window is the end of what was said and ends with the message to answer;
`Introduced`, an intro was sent only if it is recorded or about to be; `Paced`, the
counter in the row never runs ahead of the messages since the last reply, except
between a reply and its reset, and has reached the cap where an unprompted answer is
under way. The last two hold until a crash tears a send from its bookkeeping, which is
what `torn` records. `OnlyUnsavedCrashesReuse` is about behaviours without a crash between a
send and the snapshot after it (`CrashElsewhere`): then all that was sent on a chain is behind
the saved position wherever that chain is the saved one and a crash may fall (`SentIsSaved`),
and finding 3 does not arise, whatever sessions and chains are begun.

TLC checked each of these invariants on the module's runs before it was proved.

Checked by TLC only: liveness under fairness (`MembersCatchUp`, `RemovalPurges`,
`ComesBack`, `ConnectSettles`), which is beyond the proof system. Every other property of a
passing run is also a theorem. The provers cannot use the library's induction theorems,
which take an operator as a parameter; where a proof needs induction over data, it is put
as a set of numbers that has 0 and is closed under successor (`SetInduction` in
`SequenceFacts`).

## 5. Findings

1. *A lost broadcast is a gap for good* (`sync_gap`). `append` records an operation before
   it broadcasts it and never sends it again. `stores.ts:177-178` relies on "a reconnect
   re-drain recovers gaps from the relay", but the relay has the same gap, and its dense
   store drops all that follows. `GapIsForGood` proves this of every such gap.
2. *A correct pin taken after genesis rejects the chain* (`sync_pin`). `handleIncomingOp`
   tests the pin after each append, while the chain is still shorter than the pinned
   head: genesis is rolled back, and all that follows is a gap. The test at
   `membership-gate.test.ts:180` has a pin at genesis only. `PinAheadStalls` proves that a pin
   more than one operation ahead always does this, `DrainCovers` that a pin within reach
   (at genesis, or accepted by a client that is nearly level) never does. Accepting
   another pin in place of one that is ahead brings nothing back on this connection.
3. *The agent's ratchet falls back* (`agent_ratchet`). Messages are sent before the account
   is saved; if the last snapshot holds a session, a crash in between brings it back at an
   older position, which is used again. In the run a peer's message has begun the
   session and a snapshot has saved it. (A snapshot without a session does no harm: the
   restarted agent opens a fresh one, `client.ts:614-646`.) This is against "a restart loses neither the ratchet nor conversational continuity"
   (`agent.ts:94-95`). `OnlyUnsavedCrashesReuse` proves that no other crash does this.
4. *Two active rows for one device* (`device_rows`). `registerDevice` finds the active row
   and writes later, in a transaction that neither locks it nor is serializable
   (`db.ts:46-76`). Registrations that overlap leave two active rows, against "Exactly one
   row per (userId, deviceId) has `replacedAt IS NULL` at a time"
   (`apps/node/prisma/schema.prisma:39-42`). `BundleOfOneInstall` holds all the same: each
   bundle is still consistent, but a peer gets two for one device. `SerialRegistrationsOneRow`
   proves that serialising the registrations of a device is enough to prevent it.

## 6. Not modelled

Failures that are modelled, and where: a rejecting query of the relay (`index.ts:576` swallows
it) in `MembershipSync` for the fan-out, the drain and `subscribe`, in `RelayDelivery` for every
handler, in `DuplexLink` for authentication; a failing decryption in `RelayDelivery` and
`SessionStores`; a rejected bundle in `SessionStores`; a failing save in `CliApp` for `/verify` and
for the save after a send. Left out:

- A save that throws inside an event handler of the command-line client, or at the end of
  `/invite` and `/remove`: there it is taken to succeed. REST handlers of the relay that fail
  half-way are failed requests.
- Reuse of a ratchet position across a crash of the command-line client: `RatchetAdvances` is
  about one life. The save follows the send there as in the agent, and finding 3 states the
  consequence for the agent.
- In `RelayDelivery` the recipient's process does not restart: its seen ids are those of one
  life. What a restart does to them is in `Agent`.
- Canonical encoding, hashing and signing as bytes: taken to be injective and
  unforgeable. libsignal: a message key decrypts once, an operation reads and saves
  in the order `SessionStores` gives.
- Wire schemas, bearer tokens, invite-code lockout: stateless, or one counter per
  address.
- LLM and vault adapters: calls that succeed or fail.
- `service.setAiMode`: nothing calls it. In `CliApp`: `/new` beyond the first
  conversation, `/ai active` and `/ai passive`, names, labels and rendering.
- The P2P node's `listen`, `announce`, `lookup` and mutable records, which hand calls on
  to hyperdht.
- The head stamped on a message together with the receiver's gate across the network:
  what happens there is a loss that the code documents and accepts
  (`client.ts:882-884`, `client.ts:945-949`).
- Several conversations: chains, rows and mailboxes are keyed by conversation or device
  and meet only in the queues, which the models already leave unordered across senders.

## 7. Plan

Built: op-log, distribution, delivery, agent, device directory, link and transports,
sessions and the command-line client, each with its theorems. What could be added next:

1. Concurrent `inviteMember` calls, several admins and several devices per account.
2. The head stamped on a message, composed with the receiver's gate.

## 8. Running

    tlc -workers 2 -config SyncFaults.cfg MCMembershipSync
    tlapm MembershipSyncProofs.tla
    tlapm DeviceDirectoryProofs.tla
    tlapm SequenceFacts.tla
    tlapm TransportProofs.tla
    tlapm RelayDeliveryProofs.tla
    tlapm CliAppProofs.tla
    tlapm MembershipLogProofs.tla
    tlapm AgentProofs.tla

The pairs of module and configuration are the `runs` of `PROJECT.json`.
