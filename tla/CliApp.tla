-------------------------------- MODULE CliApp --------------------------------
(***************************************************************************)
(* The command-line client: the commands of CliApp and what they call of   *)
(* SignalAiClient (resolveUser, establishOrRefreshSession, ensureSession,  *)
(* listMembers, invite, removeMember, sendRaw), the inbox, the trust store *)
(* and the account snapshot, with a crash and login between any two steps. *)
(*                                                                         *)
(* There is one conversation, which this client created.  A command is a   *)
(* task whose steps are the stretches between its awaits; the terminal UI  *)
(* starts one whether or not another is under way, and paints the sidebar  *)
(* as one more ("view", also /members).  The relay serves keys and rosters *)
(* and need not be honest about a roster.  Names, rendering and the AI     *)
(* mode are left out.                                                      *)
(***************************************************************************)
EXTENDS SessionStores

CONSTANTS
    MaxCommands,    \* bounds on commands, on incoming envelopes,
    MaxIncoming,
    MaxKeys,        \* on the identity keys of a peer
    MaxCrashes      \* and on crashes

ASSUME CliAssumption ==
    MaxCommands \in Nat /\ MaxIncoming \in Nat /\ MaxKeys \in Nat \ {0} /\ MaxCrashes \in Nat

VARIABLES
    pub,            \* a peer's identity key as it publishes it: 1, 2, ...
    roster,         \* the relay's active members
    authored,       \* the log of its membership service: the members after each operation
    held,           \* how many of these operations the client's own copy has,
    stored,         \* and how many the relay has
    task,
    active,         \* activeId is set
    dir,            \* contacts resolved by name
    cached,         \* members at the last listMembers
    verified,       \* trust store: the fingerprint verified for a contact
    aiMember,       \* trust store: the AI's account
    disk,           \* the persisted account state
    screen,         \* the members painted with a tick, with their fingerprint
    shown,          \* the fingerprints that /verify put up for comparison
    unseen,         \* those that it recorded and did not put up, or not yet
    gone,           \* removed at the relay and not invited since
    commands, incoming, crashes

logVars == <<authored, held, stored>>

cliVars == <<pub, roster, logVars, task, active, dir, cached, verified, aiMember, disk, screen,
             shown, unseen, gone, commands, incoming, crashes>>

vars == <<storeVars, cliVars>>

NoTask == [cmd |-> "none", pc |-> "idle", peer |-> Null, key |-> Null, members |-> {},
           fps |-> [c \in Contacts |-> Null], todo |-> {}, avoid |-> {}]

\* Members by the operation log that this client holds.
fold == authored[held]

\* Some contacts are members already, each with a session, as /invite left it.
Init ==
    /\ StoreInit
    /\ pub = [c \in Contacts |-> 1]
    /\ roster \in SUBSET Contacts /\ dir = roster /\ cached = roster
    /\ authored = <<roster>> /\ held = 1 /\ stored = 1
    /\ known = [c \in Contacts |-> IF c \in roster THEN 1 ELSE Null]
    /\ sess = [c \in Contacts |-> IF c \in roster THEN [key |-> 1, chain |-> 0, n |-> 0] ELSE Null]
    /\ task = [t \in Tasks |-> NoTask]
    /\ active = TRUE
    /\ verified = [c \in Contacts |-> Null] /\ aiMember = Null
    /\ disk = [known |-> known, sess |-> sess, dir |-> dir, cached |-> cached, held |-> held]
    /\ screen = {} /\ shown = {} /\ unseen = {} /\ gone = {}
    /\ commands = 0 /\ incoming = 0 /\ crashes = 0

---------------------------------------------------------------------------
\* persist: a snapshot of the stores as they are, also in the middle of an
\* operation on them.
Persist ==
    disk' = [known |-> known', sess |-> sess', dir |-> dir', cached |-> cached', held |-> held']

\* The bundle's key is of no further use.
Leaves(t, pc) == task' = [task EXCEPT ![t].pc = pc, ![t].key = Null]

To(t, pc) == task' = [task EXCEPT ![t].pc = pc]

Ends(t) == task' = [task EXCEPT ![t] = NoTask]

At(t, pc) == task[t].pc = pc

Resolving == {"verify", "invite", "aiInvite", "remove"}

Inviting == {"invite", "aiInvite"}

Removing == {"remove", "aiRemove"}

\* handleInput, up to the first await.
Start(t, cmd, c) ==
    /\ At(t, "idle") /\ active /\ commands < MaxCommands
    /\ cmd = "aiRemove" => c = aiMember
    /\ task' = [task EXCEPT ![t] =
                  [NoTask EXCEPT !.cmd = cmd, !.peer = c, !.avoid = gone \cup (Contacts \ fold),
                                 !.pc = CASE cmd \in Resolving -> "fetch"
                                          [] cmd = "aiRemove" -> "rest"
                                          [] OTHER -> "list"]]
    /\ commands' = commands + 1
    /\ UNCHANGED <<storeVars, pub, roster, logVars, active, dir, cached, verified, aiMember, disk,
                   screen, shown, unseen, gone, incoming, crashes>>

\* fetchBundles answers with the key the peer publishes now.
Fetch(t) ==
    /\ At(t, "fetch")
    /\ task' = [task EXCEPT ![t].key = pub[task[t].peer], ![t].pc = "check"]
    /\ dir' = dir \cup {task[t].peer}
    /\ UNCHANGED <<storeVars, pub, roster, logVars, active, cached, verified, aiMember, disk,
                   screen, shown, unseen, gone, commands, incoming, crashes>>

\* Where a command goes on once the peer's session is up to date.
Resolved(t) ==
    CASE task[t].cmd = "send" -> "ensure" [] task[t].cmd = "verify" -> "list" [] OTHER -> "rest"

\* establishOrRefreshSession: is the key on file another one?
Check(t) ==
    /\ At(t, "check")
    /\ To(t, IF known[task[t].peer] \in {Null, task[t].key} THEN "session" ELSE "rekey")
    /\ UNCHANGED <<storeVars, pub, roster, logVars, active, dir, cached, verified, aiMember, disk,
                   screen, shown, unseen, gone, commands, incoming, crashes>>

\* And is there a session?
HasSession(t) ==
    LET c == task[t].peer
    IN  /\ task[t].pc \in {"session", "rekey"}
        /\ IF At(t, "session") /\ sess[c] # Null
           THEN Leaves(t, Resolved(t)) /\ UNCHANGED storeVars
           ELSE Leaves(t, "wait") /\ RunExclusive(t, "establish", c, task[t].key)
        /\ UNCHANGED <<pub, roster, logVars, active, dir, cached, verified, aiMember, disk, screen,
                       shown, unseen, gone, commands, incoming, crashes>>

\* The application's handler of identityKeyChanged events: the verification
\* is forgotten and the account persisted.
OnSystemEvent(changed) ==
    /\ verified' = [c \in Contacts |-> IF c \in changed THEN Null ELSE verified[c]]
    /\ IF changed # {} THEN Persist ELSE UNCHANGED disk

\* drainIdentityChangeLog: one event per peer whose key was replaced.
Drain == changes' = {} /\ OnSystemEvent(changes)

\* A command goes on after establishSession, or ends with its error.
Established(t) ==
    /\ At(t, "wait") /\ t # Inbox /\ op[t].at \in {"done", "failed"}
    /\ op' = [op EXCEPT ![t] = NoOp]
    /\ IF op[t].at = "done" THEN To(t, Resolved(t)) ELSE Ends(t)
    /\ UNCHANGED <<known, sess, storeTail, chains, made, pub, roster, logVars, active, dir, cached,
                   aiMember, screen, shown, unseen, gone, commands, incoming, crashes>>
    /\ IF op[t].at = "done" THEN Drain ELSE UNCHANGED <<changes, verified, disk>>

\* GET members, at the relay: an honest answer or any other.  What a relay
\* that lists a removed member hides, only the operation log can tell.
List(t) ==
    /\ At(t, "list")
    /\ \E raw \in {roster, Contacts} :
          task' = [task EXCEPT ![t].members = raw, ![t].pc = "listed",
                               ![t].avoid = IF raw = roster THEN @ ELSE @ \ fold]
    /\ UNCHANGED <<storeVars, pub, roster, logVars, active, dir, cached, verified, aiMember, disk,
                   screen, shown, unseen, gone, commands, incoming, crashes>>

\* Mutant: the relay's roster as it is.
RelaySays(raw) == raw

\* The members that listMembers returns: the operation log has the last word.
Authoritative(raw) == raw \cap fold

\* The rest of listMembers: the cache is brought up to date, each difference
\* an event that persists; then members and fingerprints are collected, the
\* latter for those who look at them.
Listed(t) ==
    LET members == Authoritative(task[t].members)
    IN  /\ At(t, "listed")
        /\ cached' = task[t].members
        /\ task' = [task EXCEPT ![t].members = members,
                                ![t].fps = IF task[t].cmd \in {"view", "verify"} THEN known ELSE @,
                                ![t].todo = IF task[t].cmd = "send" THEN members ELSE {},
                                ![t].pc = CASE task[t].cmd = "send" -> "ensure"
                                            [] task[t].cmd = "view" -> "render"
                                            [] task[t].cmd = "verify" -> "mark"
                                            [] OTHER -> "finish"]
        /\ UNCHANGED <<storeVars, pub, roster, logVars, active, dir, verified, aiMember, screen,
                       shown, unseen, gone, commands, incoming, crashes>>
        /\ IF cached' # cached THEN Persist ELSE UNCHANGED disk

\* Mutant: verified once is verified.
WasVerified(c, fp) == verified[c] # Null

IsVerified(c, fp) == verified[c] # Null /\ verified[c] = fp

\* The rows of /members and of the sidebar.
Render(t) ==
    /\ At(t, "render")
    /\ screen' = {<<c, task[t].fps[c]>> : c \in {d \in task[t].members : IsVerified(d, task[t].fps[d])}}
    /\ Ends(t)
    /\ UNCHANGED <<storeVars, pub, roster, logVars, active, dir, cached, verified, aiMember, disk,
                   shown, unseen, gone, commands, incoming, crashes>>

\* /verify records what it read, in the trust store, which is durable at once,
\* and saves the account; when that throws, the command ends with an error.
SetVerified(t) ==
    LET c == task[t].peer
        fp == task[t].fps[c]
    IN  /\ At(t, "mark")
        /\ UNCHANGED <<storeVars, pub, roster, logVars, active, dir, cached, aiMember, screen, shown,
                       gone, commands, incoming, crashes>>
        /\ IF c \in task[t].members /\ fp # Null
           THEN /\ verified' = [verified EXCEPT ![c] = fp]
                /\ unseen' = unseen \cup {<<c, fp>>}
                /\ (To(t, "show") /\ Persist) \/ (Ends(t) /\ UNCHANGED disk)
           ELSE Ends(t) /\ UNCHANGED <<verified, unseen, disk>>

\* The lines it returned are put on the screen.
Show(t) ==
    LET pair == <<task[t].peer, task[t].fps[task[t].peer]>>
    IN  /\ At(t, "show")
        /\ shown' = shown \cup {pair} /\ unseen' = unseen \ {pair}
        /\ Ends(t)
        /\ UNCHANGED <<storeVars, pub, roster, logVars, active, dir, cached, verified, aiMember, disk,
                       screen, gone, commands, incoming, crashes>>

---------------------------------------------------------------------------
\* ensureSession for one target after the other; then the fan-out begins.
Ensure(t) ==
    /\ At(t, "ensure")
    /\ \/ task[t].todo = {} /\ task' = [task EXCEPT ![t].todo = task[t].members, ![t].pc = "encrypt"]
       \/ \E c \in task[t].todo :
             IF sess[c] # Null THEN task' = [task EXCEPT ![t].todo = @ \ {c}]
             ELSE IF c \in dir THEN task' = [task EXCEPT ![t].peer = c, ![t].pc = "fetch"]
             ELSE Ends(t)
    /\ UNCHANGED <<storeVars, pub, roster, logVars, active, dir, cached, verified, aiMember, disk,
                   screen, shown, unseen, gone, commands, incoming, crashes>>

\* encryptForMembers.
Encrypt(t) ==
    /\ At(t, "encrypt")
    /\ \E c \in task[t].todo :
          /\ RunExclusive(t, "encrypt", c, Null)
          /\ task' = [task EXCEPT ![t].todo = @ \ {c}, ![t].pc = "sealing"]
    /\ UNCHANGED <<pub, roster, logVars, active, dir, cached, verified, aiMember, disk, screen,
                   shown, unseen, gone, commands, incoming, crashes>>

\* Mutant: the encryption is not awaited.
SealedUnawaited(t) ==
    /\ At(t, "sealing")
    /\ To(t, "encrypt")
    /\ UNCHANGED <<storeVars, pub, roster, logVars, active, dir, cached, verified, aiMember, disk,
                   screen, shown, unseen, gone, commands, incoming, crashes>>

Sealed(t) ==
    /\ At(t, "sealing") /\ op[t].at \in {"done", "failed"}
    /\ op' = [op EXCEPT ![t] = NoOp]
    /\ IF op[t].at = "done" THEN To(t, "encrypt") ELSE Ends(t)
    /\ UNCHANGED <<known, sess, changes, storeTail, chains, made, pub, roster, logVars, active,
                   dir, cached, verified, aiMember, disk, screen, shown, unseen, gone, commands,
                   incoming, crashes>>

\* The envelopes go out and the state is saved, unless the link is not ready.
Transmit(t) ==
    /\ At(t, "encrypt") /\ task[t].todo = {}
    /\ Ends(t)
    /\ UNCHANGED <<storeVars, pub, roster, logVars, active, dir, cached, verified, aiMember,
                   screen, shown, unseen, gone, commands, incoming, crashes>>
    /\ Persist \/ UNCHANGED disk

---------------------------------------------------------------------------
\* The relay's half of invite and removeMember.
Rest(t) ==
    LET c == task[t].peer
        in == task[t].cmd \in Inviting
        forget == IF in THEN {c} ELSE {}
    IN  /\ At(t, "rest")
        /\ roster' = IF in THEN roster \cup {c} ELSE roster \ {c}
        /\ gone' = IF in THEN gone \ {c} ELSE gone \cup {c}
        /\ task' = [s \in Tasks |-> [task[s] EXCEPT !.avoid = @ \ forget,
                                                    !.pc = IF s = t THEN "author" ELSE @]]
        /\ UNCHANGED <<storeVars, pub, logVars, active, dir, cached, verified, aiMember, disk,
                       screen, shown, unseen, commands, incoming, crashes>>

\* What an operation does to the lists of those to avoid: who is back in the
\* log is no longer one of them.
Admits(t, pc) ==
    task' = [s \in Tasks |-> [task[s] EXCEPT !.avoid = @ \ (fold' \ fold),
                                             !.pc = IF s = t THEN pc ELSE @]]

\* authorMembershipOp: the service of a restarted client knows no chain; when
\* the broadcast throws the client's own copy falls behind; both are swallowed.
\* The relay stores an operation unless it lacks the one before.
Author(t) ==
    LET c == task[t].peer
        members == Last(authored)
    IN  /\ At(t, "author")
        /\ IF crashes = 0
           THEN /\ authored' = Append(authored, IF task[t].cmd \in Inviting THEN members \cup {c}
                                                ELSE members \ {c})
                /\ \/ UNCHANGED <<held, stored>>
                   \/ /\ held' = Len(authored')
                      /\ stored' = IF stored = Len(authored) THEN stored + 1 ELSE stored
           ELSE UNCHANGED logVars
        /\ Admits(t, "list")
        /\ UNCHANGED <<storeVars, pub, roster, active, dir, cached, verified, aiMember, disk, screen,
                       shown, unseen, gone, commands, incoming, crashes>>

\* The relay drains to a client that was restarted what its saved log lacks.
OpArrives ==
    /\ held < stored /\ held' = held + 1
    /\ UNCHANGED <<authored, stored>>
    /\ Admits(Inbox, task[Inbox].pc)
    /\ UNCHANGED <<storeVars, pub, roster, active, dir, cached, verified, aiMember, disk, screen,
                   shown, unseen, gone, commands, incoming, crashes>>

\* The end of /invite, /remove and their /ai forms.
Finish(t) ==
    /\ At(t, "finish")
    /\ aiMember' = CASE task[t].cmd = "aiInvite" -> task[t].peer
                     [] task[t].cmd = "aiRemove" -> Null
                     [] OTHER -> aiMember
    /\ Ends(t)
    /\ UNCHANGED <<storeVars, pub, roster, logVars, active, dir, cached, verified, screen, shown,
                   unseen, gone, commands, incoming, crashes>>
    /\ Persist

\* A request to the relay fails: the command ends with an error, except that
\* invite and removeMember ignore a failure of their last listMembers.
RequestFails(t) ==
    /\ task[t].pc \in {"fetch", "list", "rest"}
    /\ IF At(t, "list") /\ task[t].cmd \in Inviting \cup Removing THEN To(t, "finish") ELSE Ends(t)
    /\ UNCHANGED <<storeVars, pub, roster, logVars, active, dir, cached, verified, aiMember, disk,
                   screen, shown, unseen, gone, commands, incoming, crashes>>

---------------------------------------------------------------------------
\* An envelope reaches the inbox: one that opens a session carries the key the
\* peer had when it was sent.
Receive(c) ==
    /\ At(Inbox, "idle") /\ incoming < MaxIncoming
    /\ \/ \E key \in 1 .. pub[c] : RunExclusive(Inbox, "decryptPreKey", c, key)
       \/ RunExclusive(Inbox, "decrypt", c, Null)
    /\ To(Inbox, "wait")
    /\ incoming' = incoming + 1
    /\ UNCHANGED <<pub, roster, logVars, active, dir, cached, verified, aiMember, disk, screen,
                   shown, unseen, gone, commands, crashes>>

\* Mutant: changes that a message brings are not looked at.
DecryptedOnly ==
    /\ At(Inbox, "wait") /\ op[Inbox].at \in {"done", "failed"}
    /\ op' = [op EXCEPT ![Inbox] = NoOp]
    /\ To(Inbox, IF op[Inbox].at = "done" THEN "deliver" ELSE "idle")
    /\ UNCHANGED <<changes, verified, disk, known, sess, storeTail, chains, made, pub, roster,
                   logVars, active, dir, cached, aiMember, screen, shown, unseen, gone, commands,
                   incoming, crashes>>

\* handleIncomingEnvelope goes on after the decryption.
Decrypted ==
    /\ At(Inbox, "wait") /\ op[Inbox].at \in {"done", "failed"}
    /\ op' = [op EXCEPT ![Inbox] = NoOp]
    /\ To(Inbox, IF op[Inbox].at = "done" THEN "deliver" ELSE "idle")
    /\ UNCHANGED <<known, sess, storeTail, chains, made, pub, roster, logVars, active, dir, cached,
                   aiMember, screen, shown, unseen, gone, commands, incoming, crashes>>
    /\ IF op[Inbox].at = "done" THEN Drain ELSE UNCHANGED <<changes, verified, disk>>

\* onMessage, unless the gate drops the message or it was seen before.
Deliver ==
    /\ At(Inbox, "deliver")
    /\ To(Inbox, "idle")
    /\ UNCHANGED <<storeVars, pub, roster, logVars, dir, cached, verified, aiMember, screen, shown,
                   unseen, gone, commands, incoming, crashes>>
    /\ (active' = TRUE /\ Persist) \/ UNCHANGED <<active, disk>>

\* A peer reinstalls and publishes another key.
Rotate(c) ==
    /\ pub[c] < MaxKeys
    /\ pub' = [pub EXCEPT ![c] = @ + 1]
    /\ UNCHANGED <<storeVars, roster, logVars, task, active, dir, cached, verified, aiMember, disk,
                   screen, shown, unseen, gone, commands, incoming, crashes>>

\* The process ends and the user logs in again: the account, with the log of
\* operations, as it was saved, and the trust store as it is.  changeLog is not
\* saved.  A new life has its own list of keys used.
Crash ==
    /\ crashes < MaxCrashes /\ crashes' = crashes + 1
    /\ known' = disk.known /\ sess' = disk.sess /\ dir' = disk.dir /\ cached' = disk.cached
    /\ held' = disk.held
    /\ changes' = {} /\ storeTail' = <<>> /\ op' = [t \in Tasks |-> NoOp] /\ made' = <<>>
    /\ task' = [t \in Tasks |-> NoTask]
    /\ active' = FALSE /\ screen' = {}
    /\ UNCHANGED <<chains, pub, roster, authored, stored, verified, aiMember, disk, shown, unseen,
                   gone, commands, incoming>>

---------------------------------------------------------------------------
Command(t) ==
    \/ \E c \in Contacts, cmd \in Resolving \cup {"aiRemove"} : Start(t, cmd, c)
    \/ \E cmd \in {"send", "view"} : Start(t, cmd, Null)
    \/ Fetch(t) \/ Check(t) \/ HasSession(t) \/ Established(t)
    \/ List(t) \/ Listed(t) \/ Render(t) \/ SetVerified(t) \/ Show(t)
    \/ Ensure(t) \/ Encrypt(t) \/ Sealed(t) \/ Transmit(t)
    \/ Rest(t) \/ Author(t) \/ Finish(t) \/ RequestFails(t)

Next ==
    \/ \E t \in Slots : Command(t)
    \/ \E t \in Tasks : StoreStep(t) /\ UNCHANGED cliVars
    \/ \E c \in Contacts : Receive(c) \/ Rotate(c)
    \/ Decrypted \/ Deliver \/ OpArrives \/ Crash

Spec == Init /\ [][Next]_vars

---------------------------------------------------------------------------
\* The stores, the tasks and what is on file have their types, and a task
\* waits for an operation exactly while it has one (every call into
\* SessionManager is awaited).
TypeOK ==
    /\ StoreTypeOK
    /\ roster \cup dir \cup cached \cup gone \subseteq Contacts
    /\ authored \in Seq(SUBSET Contacts) /\ held \in DOMAIN authored /\ stored \in DOMAIN authored
    /\ verified \in [Contacts -> Nat \cup {Null}] /\ aiMember \in Contacts \cup {Null}
    /\ \A t \in Tasks : task[t].pc \in {"wait", "sealing"} <=> op[t].at # "none"

\* A tick stands beside a fingerprint only if a /verify of that contact read
\* that very fingerprint: whichever keys the relay serves and the peer changes
\* to, and if the program died before it could report a change.  That /verify
\* put the fingerprint up for comparison, too, unless it is about to, or was
\* cut off between recording it and returning its lines, by a crash or by a
\* persist that threw.
TickMeansCompared == screen \subseteq shown \cup unseen

\* Every replaced identity key is reported and its verification forgotten as
\* soon as the operation that met it is over: no change waits unless an
\* operation is under way or its caller is about to drain.  (A snapshot taken
\* within an operation may restart the client with a key on file that its
\* session is not bound to; then an encryption meets a change and nobody
\* drains until the next message.)
ChangeIsReported ==
    changes # {} /\ crashes = 0 =>
        \E t \in Tasks : op[t].kind \in {"establish", "decryptPreKey"} /\ op[t].at \in {"identity", "done"}

\* A command that begins after a member left the operation log that the client
\* holds, or left the relay's roster when the relay reports that honestly, never
\* encrypts to it, unless it is invited again meanwhile: also when only the
\* relay's half of the removal took place, with a crash in between.  The log
\* counts as it is held: a crash takes back a removal that was not saved, and
\* until the relay drains it again a relay that still lists the member gets it
\* encrypted to; a removal that was saved survives.
RemovedNotEncryptedTo ==
    \A t \in Slots : op[t].kind = "encrypt" => op[t].peer \notin task[t].avoid
===============================================================================
