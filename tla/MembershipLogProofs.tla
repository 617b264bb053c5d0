------------------------- MODULE MembershipLogProofs -------------------------
(***************************************************************************)
(* Proofs about MembershipLog: whatever chains are offered, the one held   *)
(* verifies, honours the pin and only grows, and the gate lets in only     *)
(* members by its last word.                                               *)
(***************************************************************************)
EXTENDS MembershipLog, SequenceFacts

---------------------------------------------------------------------------
(***************************************************************************)
(* Chains                                                                  *)
(***************************************************************************)

\* A candidate is a sequence, indexed from 1.
LEMMA CandidateTyped ==
    ASSUME NEW c \in Candidates
    PROVE  /\ c # Null /\ c \in Seq(ToSet(c)) /\ Len(c) \in Nat /\ DOMAIN c = 1 .. Len(c)
           /\ \A i \in DOMAIN c : c[i].seq \in Nat
           /\ c # <<>> => Len(c) \in DOMAIN c /\ 1 \in DOMAIN c /\ HeadOf(c) # Null
<1>1. c # Null /\ c \in Seq(ToSet(c)) /\ (\A i \in DOMAIN c : c[i].seq \in Nat)
      /\ (c # <<>> => HeadOf(c) # Null)
  BY ChainsAreArrays
<1>2. Len(c) \in Nat /\ DOMAIN c = 1 .. Len(c)  BY <1>1, LenProperties
<1>3. c # <<>> => Len(c) # 0  BY <1>1, EmptySeq
<1> QED  BY <1>1, <1>2, <1>3

\* The head of a verified chain is at its last position.
LEMMA VerifiedHead ==
    ASSUME NEW c \in Candidates, VerifyChain(c)
    PROVE  /\ c # <<>> /\ \A i \in DOMAIN c : c[i].seq = i - 1
           /\ HeadOf(c).seq = Len(c) - 1 /\ HeadOf(c).headHash = HashOp(c[Len(c)])
           /\ HasHead(c, HeadOf(c))
<1>1. c # <<>> /\ \A i \in DOMAIN c : c[i].seq = i - 1  BY DEF VerifyChain, VerifiesAt
<1>2. Len(c) \in DOMAIN c /\ Len(c) \in Nat  BY <1>1, CandidateTyped
<1>3. HeadOf(c).seq = Len(c) - 1 /\ HeadOf(c).headHash = HashOp(c[Len(c)])
  BY <1>1, <1>2 DEF HeadOf
<1>4. HeadOf(c).seq + 1 = Len(c)  BY <1>2, <1>3
<1> QED  BY <1>1, <1>2, <1>3, <1>4 DEF HasHead

\* The hash links: verified chains that agree somewhere agree on all before.
LEMMA SharedPast ==
    ASSUME NEW a \in Candidates, NEW b \in Candidates, VerifyChain(a), VerifyChain(b),
           NEW k \in DOMAIN a, k \in DOMAIN b, a[k] = b[k]
    PROVE  \A i \in 1 .. k : a[i] = b[i]
<1>1. /\ DOMAIN a = 1 .. Len(a) /\ DOMAIN b = 1 .. Len(b)
      /\ Len(a) \in Nat /\ Len(b) \in Nat /\ k \in Nat
  BY CandidateTyped
<1> DEFINE S == {n \in Nat : n < k => a[k - n] = b[k - n]}
<1>2. 0 \in S
  <2>1. k - 0 = k  BY <1>1
  <2> QED  BY <2>1
<1>3. ASSUME NEW n \in Nat, n \in S PROVE n + 1 \in S
  <2> SUFFICES ASSUME n + 1 < k PROVE a[k - (n + 1)] = b[k - (n + 1)]  OBVIOUS
  <2> DEFINE i == k - n
  <2>1. i \in DOMAIN a /\ i \in DOMAIN b /\ i # 1 /\ k - (n + 1) = i - 1 /\ n < k  BY <1>1
  <2>2. a[i] = b[i]  BY <1>3, <2>1
  <2> HIDE DEF i
  <2>3. a[i].prevHash = HashOp(a[i - 1])  BY <2>1 DEF VerifyChain, VerifiesAt
  <2>4. b[i].prevHash = HashOp(b[i - 1])  BY <2>1 DEF VerifyChain, VerifiesAt
  <2>5. HashOp(a[i - 1]) = HashOp(b[i - 1])  BY <2>2, <2>3, <2>4
  <2> QED  BY <2>1, <2>5 DEF HashOp
<1> HIDE DEF S
<1>4. Nat \subseteq S  BY <1>2, <1>3, SetInduction
<1>5. ASSUME NEW i \in 1 .. k PROVE a[i] = b[i]
  <2>1. k - i \in Nat /\ k - i < k /\ k - (k - i) = i  BY <1>1
  <2>2. k - i \in S  BY <1>4, <2>1
  <2> QED  BY <2>1, <2>2 DEF S
<1> QED  BY <1>5

\* So a verified chain that has the head of another extends it.
LEMMA HeadMeansPrefix ==
    ASSUME NEW a \in Candidates, NEW b \in Candidates, VerifyChain(a), VerifyChain(b),
           HasHead(b, HeadOf(a))
    PROVE  IsPrefix(a, b)
<1>1. /\ a \in Seq(ToSet(a)) /\ b \in Seq(ToSet(b)) /\ Len(a) \in Nat /\ Len(b) \in Nat
      /\ DOMAIN a = 1 .. Len(a) /\ DOMAIN b = 1 .. Len(b) /\ Len(a) \in DOMAIN a
  BY CandidateTyped DEF VerifyChain
<1>2. HeadOf(a).seq = Len(a) - 1 /\ HeadOf(a).headHash = HashOp(a[Len(a)])  BY VerifiedHead
<1>3. HeadOf(a).seq + 1 = Len(a)  BY <1>1, <1>2
<1>4. Len(a) \in DOMAIN b /\ HashOp(b[Len(a)]) = HashOp(a[Len(a)])  BY <1>2, <1>3 DEF HasHead
<1>5. a[Len(a)] = b[Len(a)]  BY <1>4 DEF HashOp
<1>6. \A i \in 1 .. Len(a) : a[i] = b[i]  BY <1>1, <1>4, <1>5, SharedPast
<1>7. Len(a) <= Len(b)  BY <1>1, <1>4
<1> DEFINE S == ToSet(a) \cup ToSet(b)
<1>8. a \in Seq(S) /\ b \in Seq(S)
  <2>1. ToSet(a) \subseteq S /\ ToSet(b) \subseteq S  OBVIOUS
  <2> HIDE DEF S
  <2> QED  BY <1>1, <2>1, SeqMonotonic
<1> HIDE DEF S
<1> QED  BY <1>1, <1>6, <1>7, <1>8 DEF IsPrefix

---------------------------------------------------------------------------
(***************************************************************************)
(* Writers                                                                 *)
(***************************************************************************)

\* Two operations are the same when their fields are.
LEMMA SameFields ==
    ASSUME NEW c \in Candidates, NEW i \in DOMAIN c, NEW t, NEW conv, NEW n, NEW h, NEW a,
           NEW u, NEW m, NEW init, NEW k, NEW g,
           /\ c[i].type = t /\ c[i].conversationId = conv /\ c[i].seq = n
           /\ c[i].prevHash = h /\ c[i].author = a /\ c[i].subject = u /\ c[i].aiMode = m
           /\ c[i].initialMembers = init /\ c[i].key = k /\ c[i].sig = g
    PROVE  c[i] = [type |-> t, conversationId |-> conv, seq |-> n, prevHash |-> h, author |-> a,
                   subject |-> u, aiMode |-> m, initialMembers |-> init, key |-> k, sig |-> g]
BY OpsAreRecords

\* What append fills in from the operation before.
LEMMA AppendedFields ==
    ASSUME NEW prev, NEW op, NEW e, e = AppendedTo(prev, op)
    PROVE  /\ e.conversationId = prev.conversationId /\ e.author = prev.author
           /\ e.key = prev.key /\ e.sig = prev.key /\ e.seq = prev.seq + 1
           /\ e.prevHash = HashOp(prev)
BY DEF AppendedTo

\* An operation is the one append signs if it agrees with the one before.
LEMMA IsAppended ==
    ASSUME NEW c \in Candidates, NEW i \in DOMAIN c, NEW prev,
           /\ c[i].conversationId = prev.conversationId /\ c[i].author = prev.author
           /\ c[i].key = prev.key /\ c[i].sig = prev.key /\ c[i].seq = prev.seq + 1
           /\ c[i].prevHash = HashOp(prev)
    PROVE  c[i] = AppendedTo(prev, c[i])
<1> DEFINE e == AppendedTo(prev, c[i])
<1>1. e = [type |-> c[i].type, conversationId |-> c[i].conversationId, seq |-> c[i].seq,
           prevHash |-> c[i].prevHash, author |-> c[i].author, subject |-> c[i].subject,
           aiMode |-> c[i].aiMode, initialMembers |-> c[i].initialMembers,
           key |-> c[i].key, sig |-> c[i].sig]
  BY DEF AppendedTo
<1> QED  BY <1>1, OpsAreRecords

\* What verifyChain accepts one writer has built.
LEMMA VerifiedIsWritten ==
    ASSUME NEW c \in Candidates, VerifyChain(c)
    PROVE  WrittenByOne(c)
<1>1. /\ c # <<>> /\ Len(c) \in Nat /\ DOMAIN c = 1 .. Len(c) /\ 1 \in DOMAIN c
      /\ c[1].type = "create" /\ \A i \in DOMAIN c : VerifiesAt(c, i)
  BY CandidateTyped DEF VerifyChain
<1>2. \A i \in DOMAIN c : ValidOpShape(c[i])  BY <1>1 DEF VerifiesAt
<1>3. c[1] = Created(c[1])
  <2>1. /\ c[1].seq = 0 /\ c[1].prevHash = GenesisZero /\ c[1].sig = c[1].key
        /\ c[1].subject = Null
    BY <1>1 DEF VerifiesAt, VerifyOpSig, ValidOpShape
  <2> QED  BY <1>1, <2>1, SameFields DEF Created
<1>4. ASSUME NEW i \in 2 .. Len(c) PROVE c[i] = AppendedTo(c[i - 1], c[i])
  <2>1. i \in DOMAIN c /\ i - 1 \in DOMAIN c /\ i > 1 /\ i # 1  BY <1>1
  <2>2. /\ c[i].conversationId = c[1].conversationId /\ c[i].author = c[1].author
        /\ c[i].key = c[1].key /\ c[i].sig = c[i].key /\ c[i].seq = i - 1
        /\ c[i].prevHash = HashOp(c[i - 1])
    BY <1>1, <2>1 DEF VerifiesAt, VerifyOpSig
  <2>3. c[i - 1].conversationId = c[1].conversationId /\ c[i - 1].seq = (i - 1) - 1
    BY <1>1, <2>1 DEF VerifiesAt
  <2>4. c[i - 1].author = c[1].author /\ c[i - 1].key = c[1].key
    <3>1. CASE i - 1 = 1  BY <3>1
    <3>2. CASE i - 1 # 1
      <4>1. i - 1 > 1  BY <1>1, <2>1, <3>2
      <4> QED  BY <1>1, <2>1, <4>1 DEF VerifiesAt
    <3> QED  BY <3>1, <3>2
  <2>5. c[i].seq = c[i - 1].seq + 1  BY <1>1, <2>1, <2>2, <2>3
  <2> QED  BY <2>1, <2>2, <2>3, <2>4, <2>5, IsAppended
<1> QED  BY <1>1, <1>2, <1>3, <1>4 DEF WrittenByOne

\* The name, the key, the conversation and the count are handed on from one
\* operation of a writer to the next, so that the first one decides them.
LEMMA HandedOn ==
    ASSUME NEW c \in Candidates, WrittenByOne(c)
    PROVE  \A i \in DOMAIN c :
              /\ c[i].conversationId = c[1].conversationId /\ c[i].author = c[1].author
              /\ c[i].key = c[1].key /\ c[i].sig = c[1].key /\ c[i].seq = i - 1
<1>1. /\ c # <<>> /\ Len(c) \in Nat /\ DOMAIN c = 1 .. Len(c) /\ 1 \in DOMAIN c
      /\ c[1] = Created(c[1])
      /\ \A i \in 2 .. Len(c) : c[i] = AppendedTo(c[i - 1], c[i])
  BY CandidateTyped DEF WrittenByOne
<1> DEFINE Same(i) == /\ c[i].conversationId = c[1].conversationId
                      /\ c[i].author = c[1].author /\ c[i].key = c[1].key
                      /\ c[i].sig = c[1].key /\ c[i].seq = i - 1
           S == {n \in Nat : n < Len(c) => Same(n + 1)}
<1>2. 0 \in S
  <2>1. c[1].sig = c[1].key /\ c[1].seq = 0  BY <1>1 DEF Created
  <2> QED  BY <2>1
<1>3. ASSUME NEW n \in Nat, n \in S PROVE n + 1 \in S
  <2> SUFFICES ASSUME n + 1 < Len(c) PROVE Same((n + 1) + 1)  OBVIOUS
  <2>1. Same(n + 1)  BY <1>1, <1>3
  <2>2. PICK i \in 2 .. Len(c) : i = (n + 1) + 1 /\ i - 1 = n + 1  BY <1>1
  <2>3. c[i] = AppendedTo(c[i - 1], c[i])  BY <1>1
  <2>4. /\ c[i].conversationId = c[i - 1].conversationId /\ c[i].author = c[i - 1].author
        /\ c[i].key = c[i - 1].key /\ c[i].sig = c[i - 1].key
        /\ c[i].seq = c[i - 1].seq + 1
    BY <2>3, AppendedFields
  <2> QED  BY <2>1, <2>2, <2>4
<1> HIDE DEF S
<1>4. Nat \subseteq S  BY <1>2, <1>3, SetInduction
<1>5. ASSUME NEW i \in DOMAIN c PROVE Same(i)
  <2>1. i - 1 \in Nat /\ i - 1 < Len(c) /\ (i - 1) + 1 = i  BY <1>1
  <2>2. i - 1 \in S  BY <1>4, <2>1
  <2>3. Same((i - 1) + 1)  BY <2>1, <2>2 DEF S
  <2> QED  BY <2>1, <2>3
<1> QED  BY <1>5

\* What one writer has built verifyChain accepts.
LEMMA WrittenVerifies ==
    ASSUME NEW c \in Candidates, WrittenByOne(c)
    PROVE  VerifyChain(c)
<1>1. /\ c # <<>> /\ Len(c) \in Nat /\ DOMAIN c = 1 .. Len(c) /\ 1 \in DOMAIN c
      /\ c[1] = Created(c[1]) /\ \A i \in DOMAIN c : ValidOpShape(c[i])
      /\ \A i \in 2 .. Len(c) : c[i] = AppendedTo(c[i - 1], c[i])
  BY CandidateTyped DEF WrittenByOne
<1>2. c[1].type = "create" /\ c[1].prevHash = GenesisZero  BY <1>1 DEF Created
<1>3. ASSUME NEW i \in DOMAIN c PROVE VerifiesAt(c, i)
  <2>1. /\ c[i].conversationId = c[1].conversationId /\ c[i].author = c[1].author
        /\ c[i].key = c[1].key /\ c[i].sig = c[1].key /\ c[i].seq = i - 1
    BY HandedOn
  <2>2. i # 1 => c[i].prevHash = HashOp(c[i - 1])
    <3> SUFFICES ASSUME i # 1 PROVE c[i].prevHash = HashOp(c[i - 1])  OBVIOUS
    <3>1. i \in 2 .. Len(c)  BY <1>1
    <3>2. c[i] = AppendedTo(c[i - 1], c[i])  BY <1>1, <3>1
    <3> QED  BY <3>2, AppendedFields
  <2> QED  BY <1>1, <1>2, <2>1, <2>2 DEF VerifiesAt, VerifyOpSig
<1> QED  BY <1>1, <1>2, <1>3 DEF VerifyChain

---------------------------------------------------------------------------
(***************************************************************************)
(* The log                                                                 *)
(***************************************************************************)

\* A log that holds chain.
LogWith(l, chain) ==
    [conversationId |-> l.conversationId, pin |-> l.pin, ops |-> chain,
     watermark |-> HeadOf(chain)]

\* Before it has a chain a log is as it was built, with the pin's head as its
\* watermark; from then on the watermark is the head of the chain it holds.
GoodLog(l) ==
    /\ l.pin \in Pins \cup {Null}
    /\ \/ l = NewLog(l.conversationId, l.pin)
       \/ /\ l.ops \in Candidates /\ l = LogWith(l, l.ops)
          /\ VerifyChain(l.ops)
          /\ l.ops[1].conversationId = l.conversationId
          /\ l.pin # Null => HonoursPin(l.ops, l.pin)

LogShape == log # Null => GoodLog(log)

\* A head is a position and a digest.
LEMMA HeadsAreRecords ==
    ASSUME NEW c \in Candidates, c # <<>>
    PROVE  HeadOf(c).seq \in Nat
           /\ HeadOf(c) = [seq |-> HeadOf(c).seq, headHash |-> HeadOf(c).headHash]
<1>1. Len(c) \in DOMAIN c  BY CandidateTyped
<1>2. c[Len(c)].seq \in Nat  BY <1>1, CandidateTyped
<1> QED  BY <1>2 DEF HeadOf

\* A verified chain that has a head at its very end has it as its own.
LEMMA HeadAtEnd ==
    ASSUME NEW c \in Candidates, VerifyChain(c), NEW h, h.seq \in Nat,
           h = [seq |-> h.seq, headHash |-> h.headHash],
           HasHead(c, h), ~(HeadOf(c).seq > h.seq)
    PROVE  h = HeadOf(c)
<1>1. c # <<>> /\ HeadOf(c).seq = Len(c) - 1 /\ HeadOf(c).headHash = HashOp(c[Len(c)])
  BY VerifiedHead
<1>2. Len(c) \in Nat /\ DOMAIN c = 1 .. Len(c)  BY CandidateTyped
<1>3. h.seq + 1 \in DOMAIN c /\ HashOp(c[h.seq + 1]) = h.headHash  BY DEF HasHead
<1>4. h.seq + 1 = Len(c)  BY <1>1, <1>2, <1>3
<1>5. h.seq = Len(c) - 1  BY <1>2, <1>4
<1>6. h.headHash = HeadOf(c).headHash  BY <1>1, <1>3, <1>4
<1>7. HeadOf(c) = [seq |-> HeadOf(c).seq, headHash |-> HeadOf(c).headHash]
  BY <1>1, HeadsAreRecords
<1>8. h.seq = HeadOf(c).seq  BY <1>1, <1>5
<1> QED  BY <1>6, <1>7, <1>8

\* ingestChain field by field.
LEMMA IngestFields ==
    ASSUME NEW conv, NEW pin, NEW o, NEW w, NEW c, NEW l,
           l = [conversationId |-> conv, pin |-> pin, ops |-> o, watermark |-> w]
    PROVE  Ingested(l, c) =
             [conversationId |-> conv, pin |-> pin,
              ops |-> IF o = <<>> \/ HeadOf(c).seq >= o[Len(o)].seq THEN c ELSE o,
              watermark |-> IF w = Null \/ HeadOf(c).seq > w.seq THEN HeadOf(c) ELSE w]
<1> DEFINE O == IF o = <<>> \/ HeadOf(c).seq >= o[Len(o)].seq THEN c ELSE o
           W == IF w = Null \/ HeadOf(c).seq > w.seq THEN HeadOf(c) ELSE w
<1>1. l.ops = o /\ l.watermark = w  OBVIOUS
<1>2. Ingested(l, c) = [l EXCEPT !.ops = O, !.watermark = W]
  BY <1>1 DEF Ingested
<1> HIDE DEF O, W
<1>3. [l EXCEPT !.ops = O, !.watermark = W]
        = [conversationId |-> conv, pin |-> pin, ops |-> O, watermark |-> W]
  <2> DEFINE m == [l EXCEPT !.ops = O]
  <2>1. m = [conversationId |-> conv, pin |-> pin, ops |-> O, watermark |-> w]  OBVIOUS
  <2>2. [l EXCEPT !.ops = O, !.watermark = W] = [m EXCEPT !.watermark = W]  OBVIOUS
  <2> HIDE DEF m
  <2> QED  BY <2>1, <2>2
<1>4. Ingested(l, c) = [conversationId |-> conv, pin |-> pin, ops |-> O, watermark |-> W]
  BY <1>2, <1>3
<1> QED  BY <1>4 DEF O, W

\* What ingestChain leaves behind: the log with the candidate as its chain,
\* which extends the chain held before.
LEMMA IngestEffect ==
    ASSUME NEW l, GoodLog(l), NEW c \in Candidates, Ingestible(l, c)
    PROVE  /\ Ingested(l, c) = LogWith(l, c)
           /\ l.ops = <<>> \/ IsPrefix(l.ops, c)
<1> DEFINE head == HeadOf(c)
<1>1. VerifyChain(c) /\ c # <<>>  BY VerifiedHead DEF Ingestible
<1>2. head # Null /\ head.seq \in Nat
      /\ head = [seq |-> head.seq, headHash |-> head.headHash]
  BY <1>1, CandidateTyped, HeadsAreRecords
<1>3. l.watermark # Null => head.seq >= l.watermark.seq /\ HasHead(c, l.watermark)
  BY DEF Ingestible
<1> HIDE DEF head
<1>4. CASE l = NewLog(l.conversationId, l.pin)
  <2>1. l.ops = <<>>  BY <1>4 DEF NewLog
  <2>2. l = [conversationId |-> l.conversationId, pin |-> l.pin, ops |-> l.ops,
             watermark |-> l.watermark]
    BY <1>4 DEF NewLog
  <2>3. l.watermark = Null \/ head.seq > l.watermark.seq \/ l.watermark = head
    <3>1. CASE l.pin = Null  BY <1>4, <3>1 DEF NewLog
    <3>2. CASE l.pin # Null
      <4> DEFINE p == l.pin
      <4>1. p \in Pins  BY <3>2 DEF GoodLog
      <4>2. l.watermark = p.pinnedHead  BY <1>4, <3>2 DEF NewLog
      <4> HIDE DEF p
      <4> DEFINE w == p.pinnedHead
      <4>3. w # Null /\ w.seq \in Nat /\ w = [seq |-> w.seq, headHash |-> w.headHash]
        BY <4>1, PinsHaveHeads
      <4>4. HasHead(c, w)  BY <1>3, <4>2, <4>3
      <4> HIDE DEF w
      <4>5. ~(head.seq > w.seq) => w = head  BY <1>1, <4>3, <4>4, HeadAtEnd DEF head
      <4> QED  BY <4>2, <4>5 DEF w
    <3> QED  BY <3>1, <3>2
  <2>4. Ingested(l, c) = [conversationId |-> l.conversationId, pin |-> l.pin, ops |-> c,
                          watermark |-> IF l.watermark = Null \/ head.seq > l.watermark.seq
                                        THEN head ELSE l.watermark]
    <3> DEFINE conv == l.conversationId
               pin == l.pin
               w == l.watermark
    <3>1. l = [conversationId |-> conv, pin |-> pin, ops |-> <<>>, watermark |-> w]
      BY <2>1, <2>2
    <3> HIDE DEF conv, pin, w
    <3>2. Ingested(l, c) =
             [conversationId |-> conv, pin |-> pin,
              ops |-> IF <<>> = <<>> \/ head.seq >= <<>>[Len(<<>>)].seq THEN c ELSE <<>>,
              watermark |-> IF w = Null \/ head.seq > w.seq THEN head ELSE w]
      BY <3>1, IngestFields DEF head
    <3> QED  BY <3>2 DEF conv, pin, w
  <2>5. Ingested(l, c) = [conversationId |-> l.conversationId, pin |-> l.pin, ops |-> c,
                          watermark |-> head]
    BY <2>3, <2>4
  <2> QED  BY <2>1, <2>5 DEF LogWith, head
<1>5. CASE l.ops \in Candidates /\ l = LogWith(l, l.ops) /\ VerifyChain(l.ops)
  <2> DEFINE o == l.ops
             w == HeadOf(o)
  <2>1. o \in Candidates /\ VerifyChain(o) /\ o # <<>>  BY <1>5, VerifiedHead
  <2>2. l.watermark = w /\ l = [conversationId |-> l.conversationId, pin |-> l.pin,
                                ops |-> o, watermark |-> w]
    BY <1>5 DEF LogWith
  <2> HIDE DEF o
  <2>3. w # Null /\ w.seq \in Nat /\ w = [seq |-> w.seq, headHash |-> w.headHash]
    BY <2>1, CandidateTyped, HeadsAreRecords
  <2>4. w.seq = o[Len(o)].seq  BY DEF HeadOf
  <2> HIDE DEF w
  <2>5. head.seq >= w.seq /\ HasHead(c, w)  BY <1>3, <2>2, <2>3
  <2>6. ~(head.seq > w.seq) => w = head  BY <1>1, <2>3, <2>5, HeadAtEnd DEF head
  <2>7. head.seq >= o[Len(o)].seq  BY <2>4, <2>5
  <2>8. Ingested(l, c) =
          [conversationId |-> l.conversationId, pin |-> l.pin,
           ops |-> IF o = <<>> \/ head.seq >= o[Len(o)].seq THEN c ELSE o,
           watermark |-> IF w = Null \/ head.seq > w.seq THEN head ELSE w]
    <3> DEFINE conv == l.conversationId
               pin == l.pin
    <3>1. l = [conversationId |-> conv, pin |-> pin, ops |-> o, watermark |-> w]
      BY <2>2
    <3> HIDE DEF conv, pin
    <3>2. Ingested(l, c) =
             [conversationId |-> conv, pin |-> pin,
              ops |-> IF o = <<>> \/ head.seq >= o[Len(o)].seq THEN c ELSE o,
              watermark |-> IF w = Null \/ head.seq > w.seq THEN head ELSE w]
      BY <3>1, IngestFields DEF head
    <3> QED  BY <3>2 DEF conv, pin
  <2>9. Ingested(l, c) = [conversationId |-> l.conversationId, pin |-> l.pin, ops |-> c,
                          watermark |-> head]
    BY <2>3, <2>6, <2>7, <2>8
  <2>10. IsPrefix(o, c)  BY <1>1, <2>1, <2>5, HeadMeansPrefix DEF w
  <2> QED  BY <2>9, <2>10 DEF LogWith, head, o
<1> QED  BY <1>4, <1>5 DEF GoodLog

\* And that log is a good one, which holds the candidate.
LEMMA IngestGood ==
    ASSUME NEW l, GoodLog(l), NEW c \in Candidates, Ingestible(l, c)
    PROVE  /\ GoodLog(Ingested(l, c)) /\ Ingested(l, c).ops = c
           /\ Ingested(l, c) # Null /\ c # <<>> /\ VerifyChain(c)
<1> DEFINE m == LogWith(l, c)
<1>1. Ingested(l, c) = m  BY IngestEffect
<1>2. VerifyChain(c) /\ c[1].conversationId = l.conversationId
      /\ (l.pin # Null => HonoursPin(c, l.pin))
  BY DEF Ingestible
<1>3. m.conversationId = l.conversationId /\ m.pin = l.pin /\ m.ops = c
      /\ m.watermark = HeadOf(c)
  BY DEF LogWith
<1>4. l.pin \in Pins \cup {Null} /\ c # <<>>  BY <1>2, VerifiedHead DEF GoodLog
<1>5. m # Null
  <2>1. c \in Candidates \ {<<>>}  BY <1>4
  <2>2. [conversationId |-> c[1].conversationId, pin |-> l.pin, ops |-> c,
         watermark |-> HeadOf(c)] # Null
    BY <1>4, <2>1, LogsAreObjects
  <2> QED  BY <1>2, <2>2 DEF LogWith
<1>6. m = LogWith(m, m.ops)  BY DEF LogWith
<1> HIDE DEF m
<1>7. GoodLog(m)  BY <1>2, <1>3, <1>4, <1>6 DEF GoodLog
<1> QED  BY <1>1, <1>2, <1>3, <1>4, <1>5, <1>7

---------------------------------------------------------------------------
(***************************************************************************)
(* fold.  Its loop is a recursive function, so that a set of positions     *)
(* closed under successor gives the induction over the chain.              *)
(***************************************************************************)
NoMembers == [members |-> {}, aiMode |-> FALSE]

\* g is what the loop computes over the first n operations.
FoldsTo(g, ops, n) ==
    g = [i \in 0 .. n |-> IF i = 0 THEN NoMembers ELSE ApplyOp(g[i - 1], ops[i])]

\* One more turn of the loop.
LEMMA FoldExtends ==
    ASSUME NEW ops, NEW n \in Nat, NEW g, FoldsTo(g, ops, n)
    PROVE  \E h : FoldsTo(h, ops, n + 1)
<1> DEFINE last == ApplyOp(g[n], ops[n + 1])
           h == [i \in 0 .. n + 1 |-> IF i = n + 1 THEN last ELSE g[i]]
<1>1. \A i \in 0 .. n : g[i] = IF i = 0 THEN NoMembers ELSE ApplyOp(g[i - 1], ops[i])
  BY DEF FoldsTo
<1>2. \A i \in 0 .. n : h[i] = g[i]  OBVIOUS
<1>3. h[n + 1] = last  OBVIOUS
<1>4. h = [i \in 0 .. n + 1 |-> h[i]]  OBVIOUS
<1> HIDE DEF h
<1>5. ASSUME NEW i \in 0 .. n + 1
      PROVE  h[i] = IF i = 0 THEN NoMembers ELSE ApplyOp(h[i - 1], ops[i])
  <2>1. CASE i = n + 1
    <3>1. i # 0 /\ i - 1 = n /\ n \in 0 .. n  BY <2>1
    <3>2. h[i - 1] = g[n]  BY <1>2, <3>1
    <3> QED  BY <1>3, <2>1, <3>1, <3>2
  <2>2. CASE i # n + 1 /\ i # 0
    <3>1. i \in 0 .. n /\ i - 1 \in 0 .. n  BY <2>2
    <3>2. h[i] = g[i] /\ h[i - 1] = g[i - 1]  BY <1>2, <3>1
    <3> QED  BY <1>1, <2>2, <3>1, <3>2
  <2>3. CASE i = 0
    <3>1. 0 \in 0 .. n  OBVIOUS
    <3>2. h[i] = g[0]  BY <1>2, <2>3, <3>1
    <3> QED  BY <1>1, <2>3, <3>1, <3>2
  <2> QED  BY <2>1, <2>2, <2>3
<1>6. h = [i \in 0 .. n + 1 |-> IF i = 0 THEN NoMembers ELSE ApplyOp(h[i - 1], ops[i])]
  BY <1>4, <1>5
<1> QED  BY <1>6 DEF FoldsTo

\* So the loop computes something over any number of operations.
LEMMA FoldExists ==
    ASSUME NEW ops, NEW n \in Nat
    PROVE  \E g : FoldsTo(g, ops, n)
<1> DEFINE S == {k \in Nat : \E g : FoldsTo(g, ops, k)}
<1>1. 0 \in S
  <2> DEFINE g == [i \in 0 .. 0 |-> NoMembers]
  <2>1. g = [i \in 0 .. 0 |-> IF i = 0 THEN NoMembers ELSE ApplyOp(g[i - 1], ops[i])]
    OBVIOUS
  <2>2. FoldsTo(g, ops, 0)  BY <2>1 DEF FoldsTo
  <2> QED  BY <2>2
<1>2. ASSUME NEW k \in Nat, k \in S PROVE k + 1 \in S
  BY <1>2, FoldExtends
<1> HIDE DEF S
<1>3. Nat \subseteq S  BY <1>1, <1>2, SetInduction
<1> QED  BY <1>3 DEF S

\* And what it computes is FoldedTo, turn by turn.
LEMMA FoldTurns ==
    ASSUME NEW ops, Len(ops) \in Nat
    PROVE  /\ FoldedTo(ops)[0] = NoMembers
           /\ \A n \in 1 .. Len(ops) : FoldedTo(ops)[n] = ApplyOp(FoldedTo(ops)[n - 1], ops[n])
<1>1. PICK g : FoldsTo(g, ops, Len(ops))  BY FoldExists
<1> DEFINE f == FoldedTo(ops)
<1>2. f = [n \in 0 .. Len(ops) |-> IF n = 0 THEN [members |-> {}, aiMode |-> FALSE]
                                   ELSE ApplyOp(f[n - 1], ops[n])]
  BY <1>1 DEF FoldedTo, FoldsTo, NoMembers
<1> HIDE DEF f
<1>3. \A n \in 0 .. Len(ops) : f[n] = IF n = 0 THEN [members |-> {}, aiMode |-> FALSE]
                                      ELSE ApplyOp(f[n - 1], ops[n])
  BY <1>2
<1>4. 0 \in 0 .. Len(ops) /\ \A n \in 1 .. Len(ops) : n \in 0 .. Len(ops) /\ n # 0  OBVIOUS
<1>5. f[0] = NoMembers  BY <1>3, <1>4 DEF NoMembers
<1>6. \A n \in 1 .. Len(ops) : f[n] = ApplyOp(f[n - 1], ops[n])  BY <1>3, <1>4
<1> QED  BY <1>5, <1>6 DEF f

\* The operation brings u in; the operation takes u out.
BringsIn(op, u) == \/ op.type = "invite" /\ op.subject = u
                   \/ op.type = "create" /\ u \in {op.author} \cup op.initialMembers
TakesOut(op, u) == \/ op.type = "remove" /\ op.subject = u
                   \/ op.type = "create" /\ ~BringsIn(op, u)

\* The last word of the first n operations on u is that it is a member.
LastWordIn(ops, n, u) ==
    \E i \in 1 .. n : BringsIn(ops[i], u) /\ \A j \in i + 1 .. n : ~TakesOut(ops[j], u)

\* One turn of the loop changes the members as one more word does.
LEMMA TurnMembers ==
    ASSUME NEW op, op.type \in {"create", "invite", "remove", "setAiMode"},
           NEW M, NEW b, NEW state, state = [members |-> M, aiMode |-> b], NEW u
    PROVE  /\ ApplyOp(state, op) = [members |-> ApplyOp(state, op).members,
                                    aiMode |-> ApplyOp(state, op).aiMode]
           /\ u \in ApplyOp(state, op).members
                <=> BringsIn(op, u) \/ (u \in M /\ ~TakesOut(op, u))
<1>1. CASE op.type = "create"
  <2>1. ApplyOp(state, op) = [members |-> {op.author} \cup op.initialMembers, aiMode |-> op.aiMode]
    BY <1>1 DEF ApplyOp
  <2> QED  BY <1>1, <2>1 DEF BringsIn, TakesOut
<1>2. CASE op.type = "invite"
  <2>1. ApplyOp(state, op) = [members |-> M \cup {op.subject}, aiMode |-> b]
    BY <1>2 DEF ApplyOp
  <2> QED  BY <1>2, <2>1 DEF BringsIn, TakesOut
<1>3. CASE op.type = "remove"
  <2>1. ApplyOp(state, op) = [members |-> M \ {op.subject}, aiMode |-> b]
    BY <1>3 DEF ApplyOp
  <2> QED  BY <1>3, <2>1 DEF BringsIn, TakesOut
<1>4. CASE op.type = "setAiMode"
  <2>1. ApplyOp(state, op) = [members |-> M, aiMode |-> op.aiMode]
    BY <1>4 DEF ApplyOp
  <2> QED  BY <1>4, <2>1 DEF BringsIn, TakesOut
<1> QED  BY <1>1, <1>2, <1>3, <1>4

\* The last word after one more operation.
LEMMA OneMoreWord ==
    ASSUME NEW ops, NEW n \in Nat, NEW u
    PROVE  LastWordIn(ops, n + 1, u)
             <=> BringsIn(ops[n + 1], u) \/ (LastWordIn(ops, n, u) /\ ~TakesOut(ops[n + 1], u))
<1>1. ASSUME LastWordIn(ops, n + 1, u)
      PROVE  BringsIn(ops[n + 1], u) \/ (LastWordIn(ops, n, u) /\ ~TakesOut(ops[n + 1], u))
  <2>1. PICK i \in 1 .. n + 1 : /\ BringsIn(ops[i], u)
                                /\ \A j \in i + 1 .. n + 1 : ~TakesOut(ops[j], u)
    BY <1>1 DEF LastWordIn
  <2>2. CASE i = n + 1  BY <2>1, <2>2
  <2>3. CASE i # n + 1
    <3>1. i \in 1 .. n /\ n + 1 \in i + 1 .. n + 1 /\ \A j \in i + 1 .. n : j \in i + 1 .. n + 1
      BY <2>3
    <3> QED  BY <2>1, <3>1 DEF LastWordIn
  <2> QED  BY <2>2, <2>3
<1>2. ASSUME BringsIn(ops[n + 1], u) PROVE LastWordIn(ops, n + 1, u)
  <2>1. n + 1 \in 1 .. n + 1 /\ ~(\E j \in (n + 1) + 1 .. n + 1 : TRUE)  OBVIOUS
  <2> QED  BY <1>2, <2>1 DEF LastWordIn
<1>3. ASSUME LastWordIn(ops, n, u), ~TakesOut(ops[n + 1], u) PROVE LastWordIn(ops, n + 1, u)
  <2>1. PICK i \in 1 .. n : BringsIn(ops[i], u) /\ \A j \in i + 1 .. n : ~TakesOut(ops[j], u)
    BY <1>3 DEF LastWordIn
  <2>2. i \in 1 .. n + 1 /\ \A j \in i + 1 .. n + 1 : j \in i + 1 .. n \/ j = n + 1  OBVIOUS
  <2> QED  BY <1>3, <2>1, <2>2 DEF LastWordIn
<1> QED  BY <1>1, <1>2, <1>3

\* fold computes the members by the last word: the loop that overwrites one
\* state agrees with a definition that looks at the whole history.
LEMMA FoldIsLastWord ==
    ASSUME NEW c \in Candidates, VerifyChain(c), NEW u
    PROVE  u \in Members(c) <=> LastWordIn(c, Len(c), u)
<1> DEFINE f == FoldedTo(c)
           Agrees(n) == /\ f[n] = [members |-> f[n].members, aiMode |-> f[n].aiMode]
                        /\ u \in f[n].members <=> LastWordIn(c, n, u)
           S == {n \in Nat : n <= Len(c) => Agrees(n)}
<1>1. Len(c) \in Nat /\ DOMAIN c = 1 .. Len(c)  BY CandidateTyped
<1>2. f[0] = NoMembers /\ \A n \in 1 .. Len(c) : f[n] = ApplyOp(f[n - 1], c[n])
  BY <1>1, FoldTurns
<1> HIDE DEF f
<1>3. 0 \in S
  <2>1. f[0] = [members |-> {}, aiMode |-> FALSE]  BY <1>2 DEF NoMembers
  <2>2. ~LastWordIn(c, 0, u)
    <3>1. ~(\E i \in 1 .. 0 : TRUE)  OBVIOUS
    <3> QED  BY <3>1 DEF LastWordIn
  <2> QED  BY <2>1, <2>2
<1>4. ASSUME NEW n \in Nat, n \in S PROVE n + 1 \in S
  <2> SUFFICES ASSUME n + 1 <= Len(c) PROVE Agrees(n + 1)  OBVIOUS
  <2>1. n + 1 \in 1 .. Len(c) /\ n <= Len(c) /\ (n + 1) - 1 = n  BY <1>1
  <2>2. Agrees(n)  BY <1>4, <2>1
  <2>3. f[n + 1] = ApplyOp(f[n], c[n + 1])  BY <1>2, <2>1
  <2>4. c[n + 1].type \in {"create", "invite", "remove", "setAiMode"}
    <3>1. ValidOpShape(c[n + 1])  BY <1>1, <2>1 DEF VerifyChain, VerifiesAt
    <3> QED  BY <3>1 DEF ValidOpShape
  <2>5. /\ f[n + 1] = [members |-> f[n + 1].members, aiMode |-> f[n + 1].aiMode]
        /\ u \in f[n + 1].members
             <=> BringsIn(c[n + 1], u) \/ (u \in f[n].members /\ ~TakesOut(c[n + 1], u))
    BY <2>2, <2>3, <2>4, TurnMembers
  <2> QED  BY <2>2, <2>5, OneMoreWord
<1> HIDE DEF S
<1>5. Nat \subseteq S  BY <1>3, <1>4, SetInduction
<1>6. Agrees(Len(c))  BY <1>1, <1>5 DEF S
<1> QED  BY <1>6 DEF f, Members, Fold

\* The senders fold keeps are the members by the last word.
LEMMA MembersAgree ==
    ASSUME NEW c \in Candidates, VerifyChain(c), NEW u \in Senders, u \in Members(c)
    PROVE  u \in MembersByLastWord(c)
<1>1. LastWordIn(c, Len(c), u) /\ DOMAIN c = 1 .. Len(c)  BY FoldIsLastWord, CandidateTyped
<1>2. PICK i \in DOMAIN c : /\ BringsIn(c[i], u)
                            /\ \A j \in i + 1 .. Len(c) : ~TakesOut(c[j], u)
  BY <1>1 DEF LastWordIn
<1> QED  BY <1>2 DEF MembersByLastWord, BringsIn, TakesOut

---------------------------------------------------------------------------
(***************************************************************************)
(* The gate                                                                *)
(***************************************************************************)

\* A catch-up ingests a candidate, or the gate stops there.
LEMMA CatchUpEffect ==
    ASSUME NEW l, GoodLog(l), NEW p \in Candidates \cup {Null}, NEW m \in CatchUp(l, p)
    PROVE  /\ p \in Candidates /\ Ingestible(l, p) /\ m = Ingested(l, p)
           /\ m # Null /\ GoodLog(m) /\ m.ops = p /\ p # <<>> /\ VerifyChain(p)
           /\ Head_(m) = HeadOf(p) /\ Head_(m).seq \in Nat
<1>1. p # Null /\ Ingestible(l, p) /\ m = Ingested(l, p)  BY DEF CatchUp
<1>2. p \in Candidates  BY <1>1
<1>3. GoodLog(m) /\ m.ops = p /\ m # Null /\ p # <<>> /\ VerifyChain(p)
  BY <1>1, <1>2, IngestGood
<1>4. Head_(m) = HeadOf(p)  BY <1>3 DEF Head_
<1>5. HeadOf(p).seq \in Nat  BY <1>2, <1>3, HeadsAreRecords
<1> QED  BY <1>1, <1>2, <1>3, <1>4, <1>5

\* The log the gate authorises with is the one it leaves behind: a second
\* catch-up against the same provider cannot help where the first did not.
LEMMA GateLogIsLeft ==
    ASSUME NEW l, GoodLog(l), NEW h \in Cited, h # Null, NEW p \in Candidates \cup {Null},
           NEW m \in GateLogs(l, h, p)
    PROVE  \/ m = l /\ l.ops # <<>> /\ ~(h.seq > Head_(l).seq)
           \/ m \in CatchUp(l, p) /\ (l.ops = <<>> \/ h.seq > Head_(l).seq)
<1> DEFINE booted == IF l.ops # <<>> THEN {l} ELSE CatchUp(l, p)
<1>1. PICK k \in booted : m \in IF h.seq > Head_(k).seq
                               THEN {n \in CatchUp(k, p) : h.seq <= Head_(n).seq}
                               ELSE {k}
  BY DEF GateLogs
<1>2. CASE l.ops # <<>>
  <2>1. k = l  BY <1>1, <1>2
  <2> QED  BY <1>1, <1>2, <2>1
<1>3. CASE l.ops = <<>>
  <2>1. k \in CatchUp(l, p)  BY <1>1, <1>3
  <2>2. GoodLog(k) /\ Head_(k) = HeadOf(p) /\ Head_(k).seq \in Nat  BY <2>1, CatchUpEffect
  <2>3. h.seq \in Nat
    <3>1. PICK c \in Candidates \ {<<>>} : h = HeadOf(c)  BY DEF Cited
    <3> QED  BY <3>1, HeadsAreRecords
  <2>4. CASE h.seq > Head_(k).seq
    <3>1. m \in CatchUp(k, p) /\ h.seq <= Head_(m).seq  BY <1>1, <2>4
    <3>2. Head_(m) = HeadOf(p)  BY <2>2, <3>1, CatchUpEffect
    <3> QED  BY <2>2, <2>3, <2>4, <3>1, <3>2
  <2>5. CASE ~(h.seq > Head_(k).seq)
    <3>1. m = k  BY <1>1, <2>5
    <3> QED  BY <1>3, <2>1, <3>1
  <2> QED  BY <2>4, <2>5
<1> QED  BY <1>2, <1>3

---------------------------------------------------------------------------
(***************************************************************************)
(* The invariant: the log is in shape, and what the gate let through was   *)
(* authorised by it.                                                       *)
(***************************************************************************)
IInv == LogShape /\ GateAuthorisesAtOwnHead

\* What a step does to the log: it is built, left alone, or it ingests.
LEMMA LogSteps ==
    ASSUME LogShape, Next
    PROVE  /\ LogShape'
           /\ log # Null => \/ log' = log
                            \/ \E c \in Candidates : Ingestible(log, c) /\ log' = Ingested(log, c)
<1>1. ASSUME NEW c \in Candidates, Open(c)
      PROVE  log = Null /\ LogShape'
  <2> DEFINE fresh == NewLog(c[1].conversationId, Null)
  <2>1. log = Null /\ log' = IF Ingestible(fresh, c) THEN Ingested(fresh, c) ELSE Null
    BY <1>1 DEF Open
  <2>2. GoodLog(fresh)  BY DEF GoodLog, NewLog
  <2> HIDE DEF fresh
  <2>3. Ingestible(fresh, c) => GoodLog(Ingested(fresh, c))  BY <2>2, IngestGood
  <2>4. log' # Null => GoodLog(log')  BY <2>1, <2>3
  <2> QED  BY <2>1, <2>4 DEF LogShape, GoodLog, LogWith, NewLog
<1>2. ASSUME NEW c \in Candidates, IngestChain(c)
      PROVE  /\ log' = log \/ (Ingestible(log, c) /\ log' = Ingested(log, c))
             /\ LogShape'
  <2>1. log # Null /\ log' = IF Ingestible(log, c) THEN Ingested(log, c) ELSE log
    BY <1>2 DEF IngestChain
  <2>2. GoodLog(log)  BY <2>1 DEF LogShape
  <2>3. GoodLog(log')  BY <2>1, <2>2, IngestGood
  <2> QED  BY <2>1, <2>3 DEF LogShape, GoodLog, LogWith, NewLog
<1>3. ASSUME NEW p \in Pins, ForJoiner(p)
      PROVE  log = Null /\ LogShape'
  <2>1. log = Null /\ log' = NewLog(p.conversationId, p)  BY <1>3 DEF ForJoiner
  <2>2. GoodLog(NewLog(p.conversationId, p))  BY DEF GoodLog, NewLog
  <2>3. GoodLog(log')  BY <2>1, <2>2
  <2> QED  BY <2>1, <2>3 DEF LogShape, GoodLog, LogWith, NewLog
<1>4. ASSUME NEW s \in Senders, NEW h \in Cited, NEW p \in Candidates \cup {Null},
             Enforce(s, h, p)
      PROVE  /\ \/ log' = log
                \/ p \in Candidates /\ Ingestible(log, p) /\ log' = Ingested(log, p)
             /\ LogShape'
  <2>1. /\ log # Null
        /\ log' = log \/ (CatchUp(log, p) # {} /\ log' = Ingested(log, p))
    BY <1>4 DEF Enforce
  <2>2. GoodLog(log)  BY <2>1 DEF LogShape
  <2>3. CatchUp(log, p) # {} => p \in Candidates /\ Ingestible(log, p)
    BY <2>2, CatchUpEffect
  <2>4. GoodLog(log')  BY <2>1, <2>2, <2>3, IngestGood
  <2> QED  BY <2>1, <2>3, <2>4 DEF LogShape, GoodLog, LogWith, NewLog
<1> QED  BY <1>1, <1>2, <1>3, <1>4 DEF Next

\* What a step of the gate lets through is authorised by the log it leaves.
LEMMA GateSteps ==
    ASSUME LogShape, Next
    PROVE  GateAuthorisesAtOwnHead'
<1>1. CASE gate' = Null  BY <1>1 DEF GateAuthorisesAtOwnHead
<1>2. ASSUME NEW s \in Senders, NEW h \in Cited, NEW p \in Candidates \cup {Null},
             Enforce(s, h, p), gate' # Null
      PROVE  GateAuthorisesAtOwnHead'
  <2>1. /\ log # Null /\ EnforceInbound(log, s, h, p)
        /\ gate' = [sender |-> s, cited |-> h]
        /\ log' = IF /\ h # Null
                     /\ log.ops = <<>> \/ h.seq > Head_(log).seq
                     /\ CatchUp(log, p) # {}
                  THEN Ingested(log, p)
                  ELSE log
    BY <1>2 DEF Enforce
  <2>2. GoodLog(log)  BY <2>1 DEF LogShape
  <2>3. h # Null /\ \E l \in GateLogs(log, h, p) : HasHead(l.ops, h) /\ s \in Members(l.ops)
    BY <2>1 DEF EnforceInbound
  <2>4. PICK m \in GateLogs(log, h, p) : HasHead(m.ops, h) /\ s \in Members(m.ops)
    BY <2>3
  <2>5. /\ m = log' /\ m # Null /\ GoodLog(m) /\ m.ops # <<>>
    <3>1. CASE m = log /\ log.ops # <<>> /\ ~(h.seq > Head_(log).seq)
      BY <2>1, <2>2, <3>1
    <3>2. CASE m \in CatchUp(log, p) /\ (log.ops = <<>> \/ h.seq > Head_(log).seq)
      <4>1. /\ m = Ingested(log, p) /\ m # Null /\ GoodLog(m) /\ m.ops # <<>>
            /\ CatchUp(log, p) # {}
        BY <2>2, <3>2, CatchUpEffect
      <4> QED  BY <2>1, <2>3, <3>2, <4>1
    <3> QED  BY <2>2, <2>3, <3>1, <3>2, GateLogIsLeft
  <2>6. m.ops \in Candidates /\ VerifyChain(m.ops)  BY <2>5 DEF GoodLog, NewLog
  <2> DEFINE o == m.ops
  <2>7. s \in MembersByLastWord(o)
    <3>1. o \in Candidates /\ VerifyChain(o) /\ s \in Members(o)  BY <2>4, <2>6
    <3> HIDE DEF o
    <3> QED  BY <3>1, MembersAgree
  <2>8. gate'.sender = s /\ gate'.cited = h  BY <2>1
  <2>9. log' # Null /\ log'.ops # <<>> /\ HasHead(log'.ops, h)
        /\ s \in MembersByLastWord(log'.ops)
    BY <2>4, <2>5, <2>7
  <2> QED  BY <2>3, <2>8, <2>9 DEF GateAuthorisesAtOwnHead, Holding, HasHead, HashOp, MembersByLastWord
<1>3. gate' = Null \/ \E s \in Senders, h \in Cited, p \in Candidates \cup {Null} :
                         Enforce(s, h, p)
  BY DEF Next, Open, IngestChain, ForJoiner
<1> QED  BY <1>1, <1>2, <1>3

\* Every reachable state satisfies the invariant.
LEMMA Invariance == Spec => []IInv
<1>1. Init => IInv  BY DEF Init, IInv, LogShape, GateAuthorisesAtOwnHead
<1>2. ASSUME IInv, [Next]_vars PROVE IInv'
  <2>1. CASE Next  BY <1>2, <2>1, LogSteps, GateSteps DEF IInv
  <2>2. CASE UNCHANGED vars
    BY <1>2, <2>2 DEF vars, IInv, LogShape, GoodLog, LogWith, NewLog,
                      GateAuthorisesAtOwnHead, Holding, HasHead, HashOp, MembersByLastWord
  <2> QED  BY <1>2, <2>1, <2>2
<1> QED  BY <1>1, <1>2, PTL DEF Spec

---------------------------------------------------------------------------
(***************************************************************************)
(* Theorems                                                                *)
(***************************************************************************)

\* Whatever chains are offered, the one held verifies end to end, belongs to
\* the log's conversation and ends at the watermark (log.ts ingestChain).
THEOREM HeldVerifies == Spec => []HoldsVerifiedChain
<1>1. IInv => HoldsVerifiedChain
  <2> SUFFICES ASSUME GoodLog(log), log.ops # <<>>
               PROVE  /\ VerifyChain(log.ops)
                      /\ log.ops[1].conversationId = log.conversationId
                      /\ log.watermark = HeadOf(log.ops)
    BY DEF IInv, LogShape, HoldsVerifiedChain, Holding
  <2>1. log # NewLog(log.conversationId, log.pin)  BY DEF NewLog
  <2>2. log = LogWith(log, log.ops) => log.watermark = HeadOf(log.ops)  BY DEF LogWith
  <2> QED  BY <2>1, <2>2 DEF GoodLog
<1> QED  BY <1>1, Invariance, PTL

\* A joiner with an invite pin never holds a chain from another genesis, or one
\* without the pinned head (log.ts:130-138).
THEOREM PinIsHonoured == Spec => []PinHonoured
<1>1. IInv => PinHonoured
  <2> SUFFICES ASSUME GoodLog(log), log.ops # <<>>, log.pin # Null
               PROVE  HonoursPin(log.ops, log.pin)
    BY DEF IInv, LogShape, PinHonoured, Holding
  <2>1. log # NewLog(log.conversationId, log.pin)  BY DEF NewLog
  <2> QED  BY <2>1 DEF GoodLog
<1> QED  BY <1>1, Invariance, PTL

\* The gate lets a message through only if its sender is a member by the last
\* word of the chain held afterwards, on which the cited head lies
\* (gate.ts:39-43): in particular fold computes that last word.
THEOREM GateAuthorises == Spec => []GateAuthorisesAtOwnHead
BY Invariance, PTL DEF IInv

\* No step replaces an adopted operation: the chain held only grows, by the
\* hash links alone, whatever the relay offers (log.ts:141-159).
THEOREM HistoryOnlyGrows == Spec => HistoryNeverRewritten
<1>1. ASSUME IInv, [Next]_vars
      PROVE  [log # Null => log'.ops = log.ops \/ IsPrefix(log.ops, log'.ops)]_vars
  <2>1. CASE UNCHANGED vars  BY <2>1
  <2>2. CASE Next
    <3> SUFFICES ASSUME log # Null
                 PROVE  log'.ops = log.ops \/ IsPrefix(log.ops, log'.ops)
      OBVIOUS
    <3>1. GoodLog(log)  BY <1>1 DEF IInv, LogShape
    <3>2. CASE log' = log  BY <3>2
    <3>3. CASE \E c \in Candidates : Ingestible(log, c) /\ log' = Ingested(log, c)
      <4>1. PICK c \in Candidates : Ingestible(log, c) /\ log' = Ingested(log, c)  BY <3>3
      <4>2. log'.ops = c  BY <3>1, <4>1, IngestGood
      <4>3. log.ops = <<>> \/ IsPrefix(log.ops, c)  BY <3>1, <4>1, IngestEffect
      <4>4. IsPrefix(<<>>, c)
        <5>1. c \in Seq(ToSet(c)) /\ Len(c) \in Nat  BY CandidateTyped
        <5> QED  BY <5>1 DEF IsPrefix
      <4> QED  BY <4>2, <4>3, <4>4
    <3> QED  BY <1>1, <2>2, <3>2, <3>3, LogSteps DEF IInv
  <2> QED  BY <1>1, <2>1, <2>2
<1> QED  BY <1>1, Invariance, PTL DEF Spec, HistoryNeverRewritten

\* verifyChain (chain.ts:61-88) accepts a chain exactly when createConversation
\* and append of one writer's service (service.ts) could have built it, append
\* being given fields of any type.
THEOREM VerifyingIsWriting ==
    \A c \in Candidates : VerifyChain(c) <=> WrittenByOne(c)
BY VerifiedIsWritten, WrittenVerifies

\* So a log adopts nothing but what one writer has built (log.ts:121).
THEOREM HeldIsWritten == Spec => []OnlySingleWriterChains
<1>1. IInv => OnlySingleWriterChains
  <2> SUFFICES ASSUME GoodLog(log), log.ops # <<>> PROVE WrittenByOne(log.ops)
    BY DEF IInv, LogShape, OnlySingleWriterChains, Holding
  <2>1. log # NewLog(log.conversationId, log.pin)  BY DEF NewLog
  <2> QED  BY <2>1, VerifiedIsWritten DEF GoodLog
<1> QED  BY <1>1, Invariance, PTL

\* A pin fixes the past: all that a joiner may ever be served, and adopt, agrees
\* with the chain it holds up to the pinned head (log.ts:130-138).
THEOREM PinFixesPast ==
    Spec => [](Holding /\ log.pin # Null =>
                 \A c \in Candidates :
                    VerifyChain(c) /\ HonoursPin(c, log.pin) =>
                       \A i \in 1 .. log.pin.pinnedHead.seq + 1 : log.ops[i] = c[i])
<1> DEFINE P == Holding /\ log.pin # Null =>
                 \A c \in Candidates :
                    VerifyChain(c) /\ HonoursPin(c, log.pin) =>
                       \A i \in 1 .. log.pin.pinnedHead.seq + 1 : log.ops[i] = c[i]
<1>1. IInv => P
  <2> SUFFICES ASSUME GoodLog(log), log.ops # <<>>, log.pin # Null, NEW c \in Candidates,
                      VerifyChain(c), HonoursPin(c, log.pin),
                      NEW i \in 1 .. log.pin.pinnedHead.seq + 1
               PROVE  log.ops[i] = c[i]
    BY DEF IInv, LogShape, Holding
  <2>1. log # NewLog(log.conversationId, log.pin)  BY DEF NewLog
  <2>2. PICK a \in Candidates : a = log.ops /\ VerifyChain(a) /\ HonoursPin(a, log.pin)
    BY <2>1 DEF GoodLog
  <2>3. PICK k : k = log.pin.pinnedHead.seq + 1  OBVIOUS
  <2>4. k \in DOMAIN a /\ k \in DOMAIN c /\ HashOp(a[k]) = HashOp(c[k])
    BY <2>2, <2>3 DEF HonoursPin, HasHead
  <2>5. a[k] = c[k]  BY <2>4 DEF HashOp
  <2> QED  BY <2>2, <2>3, <2>4, <2>5, SharedPast
<1> QED  BY <1>1, Invariance, PTL

\* The gate turns no member away that is up to date: a message of a member by
\* the last word of the receiver's chain passes if it cites a head on it,
\* whatever the chain provider returns (gate.ts:21-43).
THEOREM GateAdmitsMembers ==
    ASSUME NEW l, GoodLog(l), l.ops # <<>>, NEW h, h # Null, h.seq \in Nat,
           HasHead(l.ops, h), NEW s \in MembersByLastWord(l.ops), NEW p
    PROVE  EnforceInbound(l, s, h, p)
<1>1. l # NewLog(l.conversationId, l.pin)  BY DEF NewLog
<1>2. PICK c \in Candidates : c = l.ops /\ VerifyChain(c)  BY <1>1 DEF GoodLog
<1>3. Head_(l).seq = Len(c) - 1 /\ Len(c) \in Nat /\ DOMAIN c = 1 .. Len(c)
  BY <1>2, VerifiedHead, CandidateTyped DEF Head_
<1>4. h.seq + 1 \in DOMAIN c  BY <1>2 DEF HasHead
<1>5. ~(h.seq > Head_(l).seq)  BY <1>3, <1>4
<1>6. l \in GateLogs(l, h, p)  BY <1>5 DEF GateLogs
<1>7. s \in Members(c)
  <2>1. PICK i \in DOMAIN c : /\ BringsIn(c[i], s)
                              /\ \A j \in i + 1 .. Len(c) : ~TakesOut(c[j], s)
    BY <1>2 DEF MembersByLastWord, BringsIn, TakesOut
  <2>2. LastWordIn(c, Len(c), s)  BY <1>3, <2>1 DEF LastWordIn
  <2> QED  BY <1>2, <2>2, FoldIsLastWord
<1> QED  BY <1>2, <1>6, <1>7 DEF EnforceInbound
=============================================================================
