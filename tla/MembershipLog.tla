---------------------------- MODULE MembershipLog ----------------------------
(***************************************************************************)
(* One MembershipLog object (log.ts) over its life, and the inbound gate   *)
(* (gate.ts) run against it.  Nothing is assumed of the chains it is       *)
(* offered: Candidates may hold forks, truncations, forged or misplaced    *)
(* operations, so what is shown here holds whatever the relay serves.      *)
(***************************************************************************)
EXTENDS MembershipChain

CONSTANTS
    Candidates,   \* the chains that may be offered to the log
    Pins,         \* the invite pins a joiner may hold
    Senders       \* the users a message may come from

\* What the types of ops.ts and log.ts say of any chain and any pin.
ASSUME ChainsAreArrays ==
    \A c \in Candidates : /\ c # Null /\ c \in Seq(ToSet(c))
                          /\ \A i \in DOMAIN c : c[i].seq \in Nat
                          /\ c # <<>> => HeadOf(c) # Null
ASSUME OpsAreRecords ==
    \A c \in Candidates : \A i \in DOMAIN c :
        c[i] = [type |-> c[i].type, conversationId |-> c[i].conversationId, seq |-> c[i].seq,
                prevHash |-> c[i].prevHash, author |-> c[i].author, subject |-> c[i].subject,
                aiMode |-> c[i].aiMode, initialMembers |-> c[i].initialMembers,
                key |-> c[i].key, sig |-> c[i].sig]
ASSUME PinsHaveHeads ==
    \A p \in Pins : /\ p # Null /\ p.pinnedHead # Null /\ p.pinnedHead.seq \in Nat
                    /\ p.pinnedHead = [seq |-> p.pinnedHead.seq,
                                        headHash |-> p.pinnedHead.headHash]
\* A MembershipLog object is not null.
ASSUME LogsAreObjects ==
    \A c \in Candidates \ {<<>>}, p \in Pins \cup {Null} :
        [conversationId |-> c[1].conversationId, pin |-> p, ops |-> c,
         watermark |-> HeadOf(c)] # Null

VARIABLES
    log,          \* the MembershipLog record, or Null before it is built
    gate          \* the message the step just taken let through, else Null

vars == <<log, gate>>

\* The heads a message may cite: those of any candidate, or none at all.
Cited == {Null} \cup {HeadOf(c) : c \in Candidates \ {<<>>}}

Init == log = Null /\ gate = Null

\* MembershipLog.open(chain); a throw leaves no log.
Open(chain) ==
    /\ log = Null
    /\ chain # <<>>
    /\ LET fresh == NewLog(chain[1].conversationId, Null)
       IN  log' = IF Ingestible(fresh, chain) THEN Ingested(fresh, chain) ELSE Null
    /\ gate' = Null

\* MembershipLog.forJoiner(pin)
ForJoiner(pin) ==
    /\ log = Null
    /\ log' = NewLog(pin.conversationId, pin)
    /\ gate' = Null

\* Mutant: a candidate is adopted without the pin, watermark and chain checks.
IngestUnchecked(candidate) ==
    /\ log # Null
    /\ log' = IF VerifyChain(candidate) THEN Ingested(log, candidate) ELSE log
    /\ gate' = Null

\* ingestChain(candidate); a throw changes nothing.
IngestChain(candidate) ==
    /\ log # Null
    /\ log' = IF Ingestible(log, candidate) THEN Ingested(log, candidate) ELSE log
    /\ gate' = Null

\* enforceInbound: the log keeps whatever its catch-up adopted.  Both catch-up
\* attempts ingest the same provided chain, so the second adopts nothing new.
Enforce(sender, cited, provided) ==
    /\ log # Null
    /\ gate' = IF EnforceInbound(log, sender, cited, provided)
               THEN [sender |-> sender, cited |-> cited]
               ELSE Null
    /\ log' = IF /\ cited # Null
                 /\ log.ops = <<>> \/ cited.seq > Head_(log).seq
                 /\ CatchUp(log, provided) # {}
              THEN Ingested(log, provided)
              ELSE log

Next ==
    \/ \E c \in Candidates : Open(c) \/ IngestChain(c)
    \/ \E p \in Pins : ForJoiner(p)
    \/ \E s \in Senders, h \in Cited, c \in Candidates \cup {Null} : Enforce(s, h, c)

Spec == Init /\ [][Next]_vars

---------------------------------------------------------------------------
(***************************************************************************)
(* service.ts: the operations a writer signs with its name and its one key *)
(* for the calls that op records.                                          *)
(***************************************************************************)

\* createConversation
Created(op) ==
    [type |-> "create", conversationId |-> op.conversationId, seq |-> 0,
     prevHash |-> GenesisZero, author |-> op.author, subject |-> Null, aiMode |-> op.aiMode,
     initialMembers |-> op.initialMembers, key |-> op.key, sig |-> op.key]

\* append, the writer's last operation being prev.  It signs the fields it is
\* given, of whatever type: invite, remove and setAiMode are all that the
\* service's own methods pass, but verifyChain too takes a later create.
AppendedTo(prev, op) ==
    [type |-> op.type, conversationId |-> prev.conversationId, seq |-> prev.seq + 1,
     prevHash |-> HashOp(prev), author |-> prev.author, subject |-> op.subject,
     aiMode |-> op.aiMode, initialMembers |-> op.initialMembers, key |-> prev.key,
     sig |-> prev.key]

---------------------------------------------------------------------------
(***************************************************************************)
(* Properties                                                              *)
(***************************************************************************)

\* The members by a definition that does not follow fold's loop: u is a member
\* when some operation brought it in and none after that one took it out.
MembersByLastWord(ops) ==
    LET Adds(op, u) == \/ op.type = "invite" /\ op.subject = u
                       \/ op.type = "create" /\ u \in {op.author} \cup op.initialMembers
        Drops(op, u) == \/ op.type = "remove" /\ op.subject = u
                        \/ op.type = "create" /\ ~Adds(op, u)
    IN  {u \in Senders :
           \E i \in DOMAIN ops :
              /\ Adds(ops[i], u)
              /\ \A j \in i + 1 .. Len(ops) : ~Drops(ops[j], u)}

Holding == log # Null /\ log.ops # <<>>

\* Whatever was offered, the chain held verifies end to end, belongs to the
\* log's conversation and ends at or beyond the watermark, which lies on it:
\* ingestChain "never adopts a partial/invalid chain" (log.ts:121).
HoldsVerifiedChain ==
    Holding => /\ VerifyChain(log.ops)
               /\ log.ops[1].conversationId = log.conversationId
               /\ log.watermark = HeadOf(log.ops)

\* One writer has built the chain, operation on operation.
WrittenByOne(ops) ==
    /\ ops # <<>> /\ ops[1] = Created(ops[1])
    /\ \A i \in 2 .. Len(ops) : ops[i] = AppendedTo(ops[i - 1], ops[i])
    /\ \A i \in DOMAIN ops : ValidOpShape(ops[i])

\* Of everything offered, the log adopts only chains one writer has built the
\* way service.ts does: verifyChain's checks (chain.ts:61-88), each of one
\* operation and most of them against the first, leave no other chain.
OnlySingleWriterChains == Holding => WrittenByOne(log.ops)

\* A joiner that was given a pin never holds a chain from another genesis or
\* one that lacks the pinned head (log.ts:130-138).
PinHonoured ==
    Holding /\ log.pin # Null => HonoursPin(log.ops, log.pin)

\* Once an operation has been adopted it is never replaced: the new chain
\* extends the old one, although ingestChain compares a single digest (the one
\* at the watermark) and leaves the rest to the hash links (log.ts:141-159).
HistoryNeverRewritten ==
    [][log # Null => log'.ops = log.ops \/ IsPrefix(log.ops, log'.ops)]_vars

\* The gate accepts a sender only if it is a member by the last word of the
\* chain the receiver holds afterwards, and only if the head the message cites
\* lies on that chain: a removed member that cites an old, still valid head is
\* turned away (gate.ts:39-43).
GateAuthorisesAtOwnHead ==
    gate # Null =>
        /\ Holding
        /\ gate.cited # Null /\ HasHead(log.ops, gate.cited)
        /\ gate.sender \in MembersByLastWord(log.ops)
=============================================================================
