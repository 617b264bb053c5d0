-------------------------------- MODULE Agent --------------------------------
(***************************************************************************)
(* The AI member in one conversation (apps/agent/src/agent.ts) over its    *)
(* SQLite store (client-sdk/src/stores/sqlite.ts): the serial task queue,  *)
(* membership reconciliation with the one-time intro and the purge, the    *)
(* passive/active mode engine, and crashes at every point between a send   *)
(* and the writes that follow it.  Context window, mode bookkeeping and    *)
(* the account snapshot are separate rows, each written at once.           *)
(*                                                                         *)
(* Of the account only what the agent's logic reads is kept: whether the   *)
(* conversation is cached, whether the cached members include the agent,   *)
(* whether it holds a chain and the chain's fold names the agent, the      *)
(* cached mode, the messages whose receipt it remembers, and the sending   *)
(* ratchet of the session with one other member's device: its chain, 0     *)
(* while there is no session, and the position in it.                      *)
(***************************************************************************)
EXTENDS Integers, Sequences, SequencesExt

CONSTANTS
    Window,       \* contextMaxMessages
    CapN,         \* activeCapN
    AiModes,      \* the modes the conversation may have when the agent is invited
    MaxMessages,  \* bound: messages sent to the agent
    MaxChanges,   \* bound: removals, invites and mode changes together
    MaxErrors,    \* bound: failed calls (REST, send, LLM) and lost acks together
    MaxCrashes,   \* bound: crashes
    MaxChains     \* bound: sending chains begun at the other device's prompting

ASSUME LimitsArePositive == Window \in Nat \ {0} /\ CapN \in Nat \ {0}
ASSUME ModesAreModes == AiModes \subseteq BOOLEAN
ASSUME BoundsAreNatural ==
    /\ MaxMessages \in Nat /\ MaxChanges \in Nat /\ MaxErrors \in Nat
    /\ MaxCrashes \in Nat /\ MaxChains \in Nat

VARIABLES
    proc,      \* "down", "booting" (connected, handlers not yet attached) or "up"
    mem,       \* the account in memory
    snap,      \* the account as last persisted
    ctx,       \* the context window: message ids, 0 for the agent's own turns
    meta,      \* the mode bookkeeping row
    queue,     \* tasks enqueued
    task,      \* the task under way
    at,        \* where it is
    member,    \* is the agent an active member at the relay?
    aiMode,    \* the relay's mode
    heard,     \* messages delivered so far, numbered as they first come
    mailbox,   \* those of them whose ack the relay did not get
    changes, errors, crashes,   \* how much of the bounds is used up
    turns,     \* history: every turn recorded since the last purge
    intros,    \* history: intros sent since the last purge
    since,     \* history: messages recorded since the last reply sent
    chains,    \* history: sending chains begun so far, on fresh random keys
    used,      \* history: the chains and positions messages were sent with
    reused,    \* history: a message was sent with a position used before
    again,     \* history: messages without ack whose receipt a crash has undone
    torn       \* history: a crash came between a send and the row that records it

durable == <<snap, ctx, meta>>
env == <<member, aiMode, heard, mailbox, changes>>
ratchets == <<chains, used, reused>>
history == <<turns, intros, since, ratchets>>
vars == <<proc, mem, durable, queue, task, at, env, errors, crashes, history, again, torn>>

NewAccount ==
    [known |-> FALSE, self |-> FALSE, chain |-> "none", mode |-> FALSE,
     seen |-> {}, key |-> 0, out |-> 0]
DefaultMeta == [greeted |-> FALSE, human |-> 0]
Check == [kind |-> "check", id |-> 0, mentioned |-> FALSE]

Init ==
    /\ proc = "up" /\ mem = NewAccount /\ snap = NewAccount
    /\ ctx = <<>> /\ meta = DefaultMeta
    /\ queue = <<>> /\ task = Check /\ at = "idle"
    /\ member = TRUE /\ aiMode \in AiModes /\ heard = 0 /\ mailbox = {}
    /\ changes = 0 /\ errors = 0 /\ crashes = 0
    /\ turns = <<>> /\ intros = 0 /\ since = 0
    /\ chains = 0 /\ used = {} /\ reused = FALSE
    /\ again = {} /\ torn = FALSE

---------------------------------------------------------------------------
(***************************************************************************)
(* The world around the agent                                              *)
(***************************************************************************)

\* Mutant: seenMsgIds is not consulted.
DeliverableTwice ==
    [kind : {"msg"}, id : {heard + 1} \cap 1 .. MaxMessages, mentioned : BOOLEAN] \cup mailbox

Fails == errors < MaxErrors /\ errors' = errors + 1

\* What the relay may deliver: a new message, maybe one under way since before
\* a removal, or again one without ack.  The latter decrypts, and is no
\* duplicate, only if the account does not remember it.
Deliverable ==
    [kind : {"msg"}, id : {heard + 1} \cap 1 .. MaxMessages, mentioned : BOOLEAN]
        \cup {t \in mailbox : t.id \notin mem.seen}

\* The client decrypts a message that passes the gate, and remembers it.  If it
\* comes from the device of the session with a new ratchet key, a new sending
\* chain begins.  The agent gets it only if the handlers are attached; the ack
\* follows at once, but not on a link that is down, and may be lost.
Receive ==
    /\ proc # "down" /\ mem.chain # "none"
    /\ \E msg \in Deliverable :
          /\ heard' = IF msg \in mailbox THEN heard ELSE heard + 1
          /\ \/ mailbox' = mailbox \ {msg} /\ UNCHANGED errors
             \/ mailbox' = mailbox \cup {msg} /\ Fails
          /\ \/ mem' = [mem EXCEPT !.seen = @ \cup {msg.id}] /\ UNCHANGED chains
             \/ /\ chains < MaxChains /\ chains' = chains + 1
                /\ mem' = [mem EXCEPT !.seen = @ \cup {msg.id}, !.key = chains + 1, !.out = 0]
          /\ queue' = IF proc = "up" THEN Append(queue, msg) ELSE queue
    /\ UNCHANGED <<proc, durable, task, at, member, aiMode, changes, crashes, turns, intros,
                   since, used, reused, again, torn>>

\* The relay drains the chain to the client one operation at a time; the client
\* caches the conversation, its members still unknown.
OpsArrive ==
    /\ proc # "down" /\ member /\ mem.chain # "with"
    /\ \E fold \in {"without", "with"} : mem' = [mem EXCEPT !.known = TRUE, !.chain = fold]
    /\ UNCHANGED <<proc, durable, queue, task, at, env, errors, crashes, history, again, torn>>

\* Somebody removes or invites the agent, sets the mode, or has removed and
\* invited it again, of which its fold shows only the removal yet.
ChangeConversation ==
    /\ changes < MaxChanges
    /\ changes' = changes + 1
    /\ \/ member' = ~member /\ UNCHANGED <<aiMode, mem>>
       \/ aiMode' = ~aiMode /\ UNCHANGED <<member, mem>>
       \/ /\ proc # "down" /\ member /\ mem.chain = "with"
          /\ mem' = [mem EXCEPT !.chain = "without"]
          /\ UNCHANGED <<aiMode, member>>
    /\ UNCHANGED <<proc, durable, queue, task, at, heard, mailbox, errors, crashes, history,
                   again, torn>>

---------------------------------------------------------------------------
(***************************************************************************)
(* The task queue                                                          *)
(***************************************************************************)

\* The sweep's timer, or another member's joining or leaving, asks for a
\* reconcile.  Bound: one such request waiting.
Sweep ==
    /\ proc = "up" /\ mem.known
    /\ \A i \in DOMAIN queue : queue[i] # Check
    /\ queue' = Append(queue, Check)
    /\ UNCHANGED <<proc, mem, durable, task, at, env, errors, crashes, history, again, torn>>

\* Every task begins with reconcileConversation.
Start ==
    /\ proc = "up" /\ at = "idle" /\ queue # <<>>
    /\ task' = Head(queue) /\ queue' = Tail(queue)
    /\ at' = "listing"
    /\ UNCHANGED <<proc, mem, durable, env, errors, crashes, history, again, torn>>

\* Where a task goes on once reconcileConversation has returned.
Reconciled == IF task.kind = "msg" THEN "taking" ELSE "idle"
\* What listMembers leaves in the cache: the relay's roster and mode.
Refreshed == [mem EXCEPT !.known = TRUE, !.self = TRUE, !.mode = aiMode]

\* listMembers returns: the cache follows the roster, the list the fold.
ListMembers ==
    /\ at = "listing" /\ member
    /\ mem' = Refreshed
    /\ at' = CASE mem.chain # "with" -> "purging"
               [] mem.chain = "with" /\ meta.greeted -> Reconciled
               [] mem.chain = "with" /\ ~meta.greeted -> "greeting"
    /\ UNCHANGED <<proc, durable, queue, task, env, errors, crashes, history, again, torn>>

\* Mutant: the 403 is not told from other failures.
ListForbiddenLogged ==
    /\ at = "listing" /\ ~member
    /\ at' = Reconciled
    /\ UNCHANGED <<proc, mem, durable, queue, task, env, errors, crashes, history, again, torn>>

\* 403: no longer a member.
ListForbidden ==
    /\ at = "listing" /\ ~member
    /\ at' = "purging"
    /\ UNCHANGED <<proc, mem, durable, queue, task, env, errors, crashes, history, again, torn>>

\* Any other failure is logged and changes nothing.
ListFails ==
    /\ at = "listing"
    /\ Fails
    /\ at' = Reconciled
    /\ UNCHANGED <<proc, mem, durable, queue, task, env, crashes, history, again, torn>>

---------------------------------------------------------------------------
(***************************************************************************)
(* handleSelfRemoval: two deletes, the cache, the snapshot                 *)
(***************************************************************************)
PurgeContext ==
    /\ at = "purging"
    /\ ctx' = <<>> /\ turns' = <<>>
    /\ at' = "purgingMeta"
    /\ UNCHANGED <<proc, mem, snap, meta, queue, task, env, errors, crashes, intros, since,
                   ratchets, again, torn>>

PurgeMeta ==
    /\ at = "purgingMeta"
    /\ meta' = DefaultMeta /\ intros' = 0 /\ since' = 0
    /\ at' = "dropping"
    /\ UNCHANGED <<proc, mem, snap, ctx, queue, task, env, errors, crashes, turns, ratchets,
                   again, torn>>

DropConversation ==
    /\ at = "dropping"
    /\ mem' = [mem EXCEPT !.known = FALSE, !.self = FALSE, !.chain = "none", !.mode = FALSE]
    /\ snap' = mem'
    /\ at' = Reconciled
    /\ UNCHANGED <<proc, ctx, meta, queue, task, env, errors, crashes, history, again, torn>>

---------------------------------------------------------------------------
(***************************************************************************)
(* Sending.  send lists the members again, opens a session with a device   *)
(* that has none, and encrypts with the next position of the ratchet.      *)
(***************************************************************************)

\* ensureSession
Opened == IF mem.key = 0 THEN [Refreshed EXCEPT !.key = chains + 1, !.out = 0] ELSE Refreshed

Encrypted == [Opened EXCEPT !.out = @ + 1]

\* The account becomes new; a session it opens begins a chain.
Becomes(new) == mem' = new /\ chains' = IF new.key > chains THEN new.key ELSE chains

Sends ==
    /\ member
    /\ Becomes(Encrypted)
    /\ used' = used \cup {<<Opened.key, Opened.out>>}
    /\ reused' = (reused \/ <<Opened.key, Opened.out>> \in used)

\* client.send throws: not a member any longer, or the relay out of reach before
\* or after the message is encrypted.  Nothing is sent.
SendThrows ==
    /\ \/ ~member /\ Becomes(mem)
       \/ member /\ \E new \in {mem, Encrypted} : Becomes(new)
    /\ UNCHANGED <<used, reused>>

\* The exception ends the task.
SendFails ==
    /\ at \in {"greeting", "replying"}
    /\ SendThrows
    /\ IF member THEN Fails ELSE UNCHANGED errors
    /\ at' = "idle"
    /\ UNCHANGED <<proc, durable, queue, task, env, crashes, turns, intros, since, again,
                   torn>>

\* maybeSendIntro
SendIntro ==
    /\ at = "greeting"
    /\ Sends
    /\ intros' = intros + 1
    /\ at' = "greeted"
    /\ UNCHANGED <<proc, durable, queue, task, env, errors, crashes, turns, since, again,
                   torn>>

\* Mutant: the flag lives in memory until the next task.
SaveGreetedNot ==
    /\ at = "greeted"
    /\ at' = "greetedSaved"
    /\ UNCHANGED <<proc, mem, durable, queue, task, env, errors, crashes, history, again, torn>>

SaveGreeted ==
    /\ at = "greeted"
    /\ meta' = [meta EXCEPT !.greeted = TRUE]
    /\ at' = "greetedSaved"
    /\ UNCHANGED <<proc, mem, snap, ctx, queue, task, env, errors, crashes, history, again, torn>>

PersistGreeted ==
    /\ at = "greetedSaved"
    /\ snap' = mem
    /\ at' = Reconciled
    /\ UNCHANGED <<proc, mem, ctx, meta, queue, task, env, errors, crashes, history, again, torn>>

---------------------------------------------------------------------------
(***************************************************************************)
(* onMessage, after the reconcile                                          *)
(***************************************************************************)

\* Mutant: the window is trimmed before the turn is added.
PushLate(window, turn) == {Append(s, turn) : s \in {w \in Suffixes(window) : Len(w) <= Window}}

\* appendContext: trimmed to Window turns, and on to the token budget, which may
\* leave any number of the latest turns but never none.
Push(window, turn) ==
    {s \in Suffixes(Append(window, turn)) : s # <<>> /\ Len(s) <= Window}

\* Not a member: the message is ignored.
Ignore ==
    /\ at = "taking" /\ ~(mem.known /\ mem.self)
    /\ at' = "idle"
    /\ UNCHANGED <<proc, mem, durable, queue, task, env, errors, crashes, history, again, torn>>

Take ==
    /\ at = "taking" /\ mem.known /\ mem.self
    /\ ctx' \in Push(ctx, task.id) /\ since' = since + 1
    /\ turns' = Append(turns, task.id)
    /\ at' = "counting"
    /\ UNCHANGED <<proc, mem, snap, meta, queue, task, env, errors, crashes, intros,
                   ratchets, again, torn>>

ShouldReply(human) == task.mentioned \/ (mem.mode /\ human >= CapN)

Count ==
    /\ at = "counting"
    /\ meta' = [meta EXCEPT !.human = @ + 1]
    /\ at' = IF ShouldReply(meta.human + 1) THEN "asking" ELSE "saving"
    /\ UNCHANGED <<proc, mem, snap, ctx, queue, task, env, errors, crashes, history, again, torn>>

LlmAnswers ==
    /\ at = "asking"
    /\ at' = "replying"
    /\ UNCHANGED <<proc, mem, durable, queue, task, env, errors, crashes, history, again, torn>>

\* The LLM fails: a polite message, unless one was sent lately or the send
\* fails as well.
Degrade ==
    /\ at = "asking"
    /\ Fails
    /\ Sends \/ SendThrows \/ UNCHANGED <<mem, ratchets>>
    /\ at' = "saving"
    /\ UNCHANGED <<proc, durable, queue, task, env, crashes, turns, intros, since, again,
                   torn>>

SendReply ==
    /\ at = "replying"
    /\ Sends
    /\ since' = 0
    /\ at' = "replied"
    /\ UNCHANGED <<proc, durable, queue, task, env, errors, crashes, turns, intros, again,
                   torn>>

RecordReply ==
    /\ at = "replied"
    /\ ctx' \in Push(ctx, 0) /\ turns' = Append(turns, 0)
    /\ at' = "resetting"
    /\ UNCHANGED <<proc, mem, snap, meta, queue, task, env, errors, crashes, intros, since,
                   ratchets, again, torn>>

\* Mutant: the counter goes on.
ResetCounterNot ==
    /\ at = "resetting"
    /\ at' = "saving"
    /\ UNCHANGED <<proc, mem, durable, queue, task, env, errors, crashes, history, again, torn>>

ResetCounter ==
    /\ at = "resetting"
    /\ meta' = [meta EXCEPT !.human = 0]
    /\ at' = "saving"
    /\ UNCHANGED <<proc, mem, snap, ctx, queue, task, env, errors, crashes, history, again, torn>>

Persist ==
    /\ at = "saving"
    /\ snap' = mem
    /\ at' = "idle"
    /\ UNCHANGED <<proc, mem, ctx, meta, queue, task, env, errors, crashes, history, again, torn>>

---------------------------------------------------------------------------
(***************************************************************************)
(* Crash and boot                                                          *)
(***************************************************************************)
Crash ==
    /\ proc # "down" /\ crashes < MaxCrashes
    /\ crashes' = crashes + 1
    /\ proc' = "down" /\ mem' = snap /\ queue' = <<>> /\ task' = Check /\ at' = "idle"
    /\ torn' = (torn \/ at \in {"greeted", "replied", "resetting"})
    /\ again' = again \cup {t.id : t \in {u \in mailbox : u.id \notin snap.seen}}
    /\ UNCHANGED <<durable, env, errors, history>>

\* resume connects ...
Boot ==
    /\ proc = "down"
    /\ proc' = "booting"
    /\ UNCHANGED <<mem, durable, queue, task, at, env, errors, crashes, history, again, torn>>

\* ... and only then are the handlers attached, and the conversations
\* reconciled.
Wire ==
    /\ proc = "booting"
    /\ proc' = "up"
    /\ queue' = IF mem.known THEN <<Check>> ELSE <<>>
    /\ UNCHANGED <<mem, durable, task, at, env, errors, crashes, history, again, torn>>

TaskStep ==
    \/ Start \/ ListMembers \/ ListForbidden \/ ListFails
    \/ PurgeContext \/ PurgeMeta \/ DropConversation
    \/ SendIntro \/ SaveGreeted \/ PersistGreeted \/ SendFails
    \/ Ignore \/ Take \/ Count \/ LlmAnswers \/ Degrade
    \/ SendReply \/ RecordReply \/ ResetCounter \/ Persist

Next ==
    \/ Receive \/ OpsArrive \/ ChangeConversation \/ Sweep
    \/ TaskStep
    \/ Crash \/ Boot \/ Wire

Spec == Init /\ [][Next]_vars

\* The process is started again, its queue is worked off, and the sweep's
\* timer keeps firing.
FairSpec == Spec /\ WF_vars(TaskStep) /\ WF_vars(Boot \/ Wire) /\ WF_vars(Sweep)

---------------------------------------------------------------------------
(***************************************************************************)
(* Properties                                                              *)
(***************************************************************************)
Account == [known : BOOLEAN, self : BOOLEAN, chain : {"none", "without", "with"},
            mode : BOOLEAN, seen : SUBSET (1 .. MaxMessages), key : Nat, out : Nat]

\* The shape of the state; the snapshot remembers nothing the memory does not.
TypeOK ==
    /\ proc \in {"down", "booting", "up"}
    /\ mem \in Account /\ snap \in Account /\ snap.seen \subseteq mem.seen
    /\ ctx \in Seq(0 .. MaxMessages) /\ Len(ctx) <= Window
    /\ meta \in [greeted : BOOLEAN, human : Nat]
    /\ at \in {"idle", "listing", "purging", "purgingMeta", "dropping", "greeting", "greeted",
               "greetedSaved", "taking", "counting", "asking", "replying", "replied",
               "resetting", "saving"}
    /\ proc # "up" => at = "idle" /\ queue = <<>>

\* "Sends the intro exactly once per conversation" (agent.ts:281), over crashes
\* and restarts, until a purge ends the stay: unless a crash falls between the
\* intro and its bookkeeping.
IntroOnce == ~torn => intros <= 1

\* The unprompted reply waits for its cap: at least CapN messages recorded since
\* the last reply (agent.ts:308-311), however tasks fail and the process
\* restarts, unless a crash falls between a reply and its bookkeeping.
CadenceKept ==
    [][at = "replying" /\ at' = "replied" /\ ~task.mentioned => since >= CapN \/ torn]_vars

\* What the LLM is shown is the latest turns of this stay, and while it is asked
\* they end with the message to answer.  A message comes after all that came
\* before it, and once, unless a crash has undone its receipt while the relay
\* had no ack: rows and snapshot are written apart, and of the crashes between
\* only these may show.
WindowIsRecentPast ==
    /\ IsSuffix(ctx, turns) /\ (ctx = <<>> => turns = <<>>)
    /\ \A i, j \in DOMAIN turns :
          i < j /\ turns[i] # 0 /\ turns[j] \notin again \cup {0} => turns[i] < turns[j]
    /\ at \in {"asking", "replying"} => Last(ctx) = task.id

\* A crash has left rows of a conversation that the snapshot does not know of:
\* no reconcile will look at them.
Orphaned == proc = "down" /\ ~snap.known /\ (ctx # <<>> \/ meta # DefaultMeta)

\* A removal for good is found out and purged, without a message and without a
\* restart ("Autonomous self-removal detection", agent.ts:195-199), whatever
\* the task under way and wherever a crash falls, unless it orphans the rows.
RemovalPurges ==
    <>[]~member /\ []~Orphaned => <>[](ctx = <<>> /\ meta = DefaultMeta)

\* "all state (identity, ratchet, ...) durably persisted ... after every mutation
\* so a restart loses neither the ratchet nor conversational continuity"
\* (agent.ts:92-95): no position of a sending chain is used twice.
RatchetNeverReused == ~reused
=============================================================================
