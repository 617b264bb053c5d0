--------------------------- MODULE MembershipChain ---------------------------
(***************************************************************************)
(* The pure part of packages/membership: the signed, hash-chained          *)
(* membership operation (ops.ts), what verifyChain accepts and fold        *)
(* computes (chain.ts), when a MembershipLog adopts a candidate chain      *)
(* (log.ts) and what the inbound gate decides (gate.ts).                   *)
(*                                                                         *)
(* Cryptography is symbolic.  A digest is the free term <<op>>, so two     *)
(* digests are equal exactly when the operations are; a signature is the   *)
(* key that made it, so an operation verifies exactly when the key it      *)
(* carries signed these very fields.  TypeScript arrays are indexed from   *)
(* 0 and TLA+ sequences from 1: the operation at seq n is ops[n + 1].      *)
(***************************************************************************)
EXTENDS Integers, Sequences, SequencesExt

CONSTANT Null          \* TypeScript's null and undefined

GenesisZero == <<>>

HashOp(op) == <<op>>

VerifyOpSig(op) == op.sig = op.key

(***************************************************************************)
(* The head of a chain: a position and the digest of the operation there.  *)
(***************************************************************************)
HeadOf(ops) == [seq |-> ops[Len(ops)].seq, headHash |-> HashOp(ops[Len(ops)])]

\* The chain has an operation at the head's position and it is that very one.
HasHead(ops, head) ==
    /\ head.seq + 1 \in DOMAIN ops
    /\ HashOp(ops[head.seq + 1]) = head.headHash

---------------------------------------------------------------------------
(***************************************************************************)
(* chain.ts                                                                *)
(***************************************************************************)
ValidOpShape(op) ==
    \/ /\ op.type = "create"
       /\ op.subject = Null /\ op.aiMode # Null /\ op.initialMembers # Null
    \/ /\ op.type \in {"invite", "remove"}
       /\ op.subject # Null /\ op.aiMode = Null /\ op.initialMembers = Null
    \/ /\ op.type = "setAiMode"
       /\ op.subject = Null /\ op.aiMode # Null /\ op.initialMembers = Null

\* Mutant: the link to the previous operation is not checked.
VerifiesAtUnlinked(ops, i) ==
    LET op == ops[i]
        genesis == ops[1]
    IN  /\ ValidOpShape(op)
        /\ op.conversationId = genesis.conversationId
        /\ op.seq = i - 1
        /\ VerifyOpSig(op)
        /\ i > 1 => op.author = genesis.author /\ op.key = genesis.key

\* Mutant: any key may sign once genesis has been accepted.
VerifiesAtAnyKey(ops, i) ==
    LET op == ops[i]
        genesis == ops[1]
    IN  /\ ValidOpShape(op)
        /\ op.conversationId = genesis.conversationId
        /\ op.seq = i - 1
        /\ op.prevHash = IF i = 1 THEN GenesisZero ELSE HashOp(ops[i - 1])
        /\ VerifyOpSig(op)
        /\ i > 1 => op.author = genesis.author

\* What verifyChain demands of the operation at index i of the chain.
VerifiesAt(ops, i) ==
    LET op == ops[i]
        genesis == ops[1]
    IN  /\ ValidOpShape(op)
        /\ op.conversationId = genesis.conversationId
        /\ op.seq = i - 1
        /\ op.prevHash = IF i = 1 THEN GenesisZero ELSE HashOp(ops[i - 1])
        /\ VerifyOpSig(op)
        /\ i > 1 => op.author = genesis.author /\ op.key = genesis.key

VerifyChain(ops) ==
    /\ ops # <<>>
    /\ ops[1].type = "create"
    /\ \A i \in DOMAIN ops : VerifiesAt(ops, i)

\* One turn of fold's loop.
ApplyOp(state, op) ==
    CASE op.type = "create" ->
           [members |-> {op.author} \cup op.initialMembers, aiMode |-> op.aiMode]
      [] op.type = "invite" -> [state EXCEPT !.members = @ \cup {op.subject}]
      [] op.type = "remove" -> [state EXCEPT !.members = @ \ {op.subject}]
      [] op.type = "setAiMode" -> [state EXCEPT !.aiMode = op.aiMode]

\* The states the loop goes through: before any operation, after the first, ...
FoldedTo(ops) ==
    LET state[n \in 0 .. Len(ops)] ==
          IF n = 0 THEN [members |-> {}, aiMode |-> FALSE] ELSE ApplyOp(state[n - 1], ops[n])
    IN  state

Fold(ops) == FoldedTo(ops)[Len(ops)]

Members(ops) == Fold(ops).members

---------------------------------------------------------------------------
(***************************************************************************)
(* log.ts: a MembershipLog is a record of its conversation, its invite pin *)
(* (or Null), the chain it holds and its watermark (a head, or Null).      *)
(***************************************************************************)
NewLog(conversationId, pin) ==
    [conversationId |-> conversationId, pin |-> pin, ops |-> <<>>,
     watermark |-> IF pin = Null THEN Null ELSE pin.pinnedHead]

HonoursPin(ops, pin) ==
    /\ HashOp(ops[1]) = pin.genesisHash
    /\ HasHead(ops, pin.pinnedHead)

\* Mutant: the watermark is compared by position only, never by hash.
IngestibleByLength(log, candidate) ==
    /\ VerifyChain(candidate)
    /\ candidate[1].conversationId = log.conversationId
    /\ log.pin # Null => HonoursPin(candidate, log.pin)
    /\ log.watermark # Null => HeadOf(candidate).seq >= log.watermark.seq

\* ingestChain does not throw.
Ingestible(log, candidate) ==
    /\ VerifyChain(candidate)
    /\ candidate[1].conversationId = log.conversationId
    /\ log.pin # Null => HonoursPin(candidate, log.pin)
    /\ log.watermark # Null =>
         /\ HeadOf(candidate).seq >= log.watermark.seq
         /\ HasHead(candidate, log.watermark)

\* The log after an ingestChain that did not throw.
Ingested(log, candidate) ==
    LET head == HeadOf(candidate)
    IN  [log EXCEPT
           !.ops = IF @ = <<>> \/ head.seq >= @[Len(@)].seq THEN candidate ELSE @,
           !.watermark = IF @ = Null \/ head.seq > @.seq THEN head ELSE @]

\* head(): the head of the chain held, or the watermark while there is none.
Head_(log) == IF log.ops = <<>> THEN log.watermark ELSE HeadOf(log.ops)

\* inviteFor: the pin a founder issues when its chain is ops.
InviteFor(ops) ==
    [conversationId |-> ops[1].conversationId, genesisHash |-> HashOp(ops[1]),
     pinnedHead |-> HeadOf(ops)]

---------------------------------------------------------------------------
(***************************************************************************)
(* gate.ts.  provided is what the chain provider returns, or Null.  A      *)
(* catch-up that throws rejects the message, so it yields the empty set.   *)
(***************************************************************************)
CatchUp(log, provided) ==
    IF provided # Null /\ Ingestible(log, provided)
    THEN {Ingested(log, provided)}
    ELSE {}

\* The logs (at most one) the gate authorises with, once it has caught up.
GateLogs(log, cited, provided) ==
    LET booted == IF log.ops # <<>> THEN {log} ELSE CatchUp(log, provided)
    IN  UNION {IF cited.seq > Head_(l).seq
               THEN {m \in CatchUp(l, provided) : cited.seq <= Head_(m).seq}
               ELSE {l} : l \in booted}

\* Mutant: authorise with the chain up to the head the sender cites.
EnforceInboundAtCited(log, sender, cited, provided) ==
    /\ cited # Null
    /\ \E l \in GateLogs(log, cited, provided) :
          /\ HasHead(l.ops, cited)
          /\ sender \in Members(SubSeq(l.ops, 1, cited.seq + 1))

EnforceInbound(log, sender, cited, provided) ==
    /\ cited # Null
    /\ \E l \in GateLogs(log, cited, provided) :
          /\ HasHead(l.ops, cited)
          /\ sender \in Members(l.ops)
=============================================================================
