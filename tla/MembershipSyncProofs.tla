------------------------ MODULE MembershipSyncProofs -------------------------
(***************************************************************************)
(* Proofs about MembershipSync for every set of users and every bound.     *)
(*                                                                         *)
(* PrefixAgreement is not inductive by itself.  That an accepted operation *)
(* is the next one of the founder's chain takes four further facts: every  *)
(* frame anywhere carries an operation the founder signed (TypeOK); an     *)
(* operation's seq is its position (Indexed); the founder's service never  *)
(* signs on top of a chain other than the whole one, although a restart    *)
(* empties it, because genesis is authored once (GenesisOnce); and only a  *)
(* connected socket is being drained (DrainsConnected).                    *)
(***************************************************************************)
EXTENDS MembershipSync, SequenceTheorems, TLAPS

---------------------------------------------------------------------------
(***************************************************************************)
(* Sequences and prefixes                                                  *)
(***************************************************************************)

\* s is a prefix of t, position by position.
Before(s, t) == Len(s) <= Len(t) /\ \A i \in 1 .. Len(s) : s[i] = t[i]

\* The library's IsPrefix says the same.
LEMMA PrefixPointwise ==
  ASSUME NEW S, NEW s \in Seq(S), NEW t \in Seq(S)
  PROVE  IsPrefix(s, t) <=> Before(s, t)
  BY DEF IsPrefix, Before

\* The prefixes of a sequence are prefixes of its extensions.
LEMMA SubSeqOfAppend ==
  ASSUME NEW S, NEW s \in Seq(S), NEW e, NEW n \in 0 .. Len(s)
  PROVE  SubSeq(Append(s, e), 1, n) = SubSeq(s, 1, n)
  OBVIOUS

\* A prefix of a prefix is a prefix.
LEMMA BeforeTransitive ==
  ASSUME NEW S, NEW r \in Seq(S), NEW s \in Seq(S), NEW t \in Seq(S),
         Before(r, s), Before(s, t)
  PROVE  Before(r, t)
  BY DEF Before

\* A prefix of a chain, completed from the chain as syncOwnMembershipChain
\* does, is the chain.
LEMMA SyncOwnCompletes ==
  ASSUME NEW S, NEW mine \in Seq(S), NEW chain \in Seq(S), Before(mine, chain)
  PROVE  SyncOwn(mine, chain) = chain
  <1>1. /\ SubSeq(chain, Len(mine) + 1, Len(chain)) \in Seq(S)
        /\ Len(SubSeq(chain, Len(mine) + 1, Len(chain))) = Len(chain) - Len(mine)
        /\ \A i \in 1 .. Len(chain) - Len(mine) :
              SubSeq(chain, Len(mine) + 1, Len(chain))[i] = chain[Len(mine) + i]
    BY DEF Before
  <1>2. /\ SyncOwn(mine, chain) \in Seq(S)
        /\ Len(SyncOwn(mine, chain)) = Len(chain)
    BY <1>1 DEF SyncOwn, Before
  <1>3. \A i \in 1 .. Len(chain) : SyncOwn(mine, chain)[i] = chain[i]
    BY <1>1 DEF SyncOwn, Before
  <1>. QED
    BY <1>2, <1>3, SeqEqual

---------------------------------------------------------------------------
(***************************************************************************)
(* The inductive invariant                                                 *)
(***************************************************************************)

\* An operation's seq is its place in the chain, counted from 0.
Indexed == \A i \in 1 .. Len(signed) : signed[i].seq = i - 1

\* PrefixAgreement, position by position.
Chained ==
    /\ Before(opStore, signed)
    /\ \A u \in Users : Before(stored[u], signed) /\ Before(disk[u], stored[u])

\* Only a connected socket is being drained.
DrainsConnected == \A u \in Users : drain[u] # "idle" => u \in conn

\* The conversation is created once, before anything of it is signed.
GenesisOnce ==
    /\ roster = {} => todo = {} /\ signed = <<>>
    /\ roster # {} => Founder \in roster
    /\ \A c, d \in todo : c.type = "create" => signed = <<>> /\ (d.type = "create" => d = c)

IInv == TypeOK /\ Indexed /\ Chained /\ DrainsConnected /\ GenesisOnce

\* The operation with the next seq is the next operation: a dense append of a
\* signed operation keeps a chain a prefix of the founder's.
LEMMA DenseAppend ==
  ASSUME IInv, NEW ops \in Seq(SignedOps), Before(ops, signed),
         NEW op \in SignedOps, op.seq = Len(ops)
  PROVE  Append(ops, op) \in Seq(SignedOps) /\ Before(Append(ops, op), signed)
         /\ Before(ops, Append(ops, op))
  <1>1. PICK k \in DOMAIN signed : op = signed[k]
    BY DEF SignedOps
  <1>2. k \in 1 .. Len(signed) /\ k = Len(ops) + 1
    BY <1>1 DEF IInv, TypeOK, Indexed
  <1>. QED
    BY <1>1, <1>2 DEF IInv, TypeOK, Before

---------------------------------------------------------------------------
(***************************************************************************)
(* Invariance                                                              *)
(***************************************************************************)

\* Before the first connection and the first call nothing is held anywhere.
LEMMA InitHolds == Init => IInv
  <1>. SUFFICES ASSUME Init PROVE IInv
    OBVIOUS
  <1>1. TypeOK
    <2>1. <<>> \in Seq(SignedOps) /\ <<>> \in Seq(Seq(SignedOps))
      BY EmptySeq
    <2>2. /\ 0 \in 0 .. MaxFaults /\ 0 \in 0 .. MaxRestarts
      BY BoundsAreNatural
    <2>. QED
      BY <2>1, <2>2 DEF Init, TypeOK
  <1>2. Indexed /\ Chained
    BY DEF Init, Indexed, Chained, Before
  <1>3. DrainsConnected /\ GenesisOnce
    BY DEF Init, DrainsConnected, GenesisOnce
  <1>. QED
    BY <1>1, <1>2, <1>3 DEF IInv

\* What a step leaves as it is when it signs nothing.
LEMMA SameSigned ==
  ASSUME UNCHANGED signed
  PROVE  SignedOps' = SignedOps /\ IssuedPins' = IssuedPins /\ Handlers' = Handlers
  BY DEF SignedOps, IssuedPins, Handlers

\* The REST half of an API call: only the roster and the pending calls change.
LEMMA RestStep ==
  ASSUME IInv,
         \/ \E initial \in SUBSET Others : CreateRest(initial)
         \/ \E u \in Others : InviteRest(u) \/ RemoveRest(u)
  PROVE  IInv'
  <1>1. CASE \E initial \in SUBSET Others : CreateRest(initial)
    <2>. PICK initial \in SUBSET Others : CreateRest(initial)
      BY <1>1
    <2>. DEFINE call == [type |-> "create", subject |-> Null, initialMembers |-> initial]
    <2>1. call \in Calls
      BY DEF Calls
    <2>2. SignedOps' = SignedOps /\ IssuedPins' = IssuedPins /\ Handlers' = Handlers
      BY SameSigned DEF CreateRest
    <2>3. TypeOK'
      BY <2>1, <2>2 DEF CreateRest, IInv, TypeOK, Users, netVars, bookVars
    <2>4. Indexed' /\ Chained' /\ DrainsConnected'
      BY DEF CreateRest, IInv, Indexed, Chained, Before, DrainsConnected, netVars, bookVars
    <2>5. GenesisOnce'
      BY DEF CreateRest, IInv, GenesisOnce, Users
    <2>. QED
      BY <2>3, <2>4, <2>5 DEF IInv
  <1>2. ASSUME NEW u \in Others, InviteRest(u) PROVE IInv'
    <2>. DEFINE call == [type |-> "invite", subject |-> u, initialMembers |-> Null]
    <2>1. call \in Calls
      BY DEF Calls
    <2>2. SignedOps' = SignedOps /\ IssuedPins' = IssuedPins /\ Handlers' = Handlers
      BY <1>2, SameSigned DEF InviteRest
    <2>3. TypeOK'
      BY <1>2, <2>1, <2>2 DEF InviteRest, IInv, TypeOK, Users, netVars, bookVars
    <2>4. Indexed' /\ Chained' /\ DrainsConnected'
      BY <1>2 DEF InviteRest, IInv, Indexed, Chained, Before, DrainsConnected, netVars, bookVars
    <2>5. GenesisOnce'
      BY <1>2 DEF InviteRest, IInv, GenesisOnce, Users
    <2>. QED
      BY <2>3, <2>4, <2>5 DEF IInv
  <1>3. ASSUME NEW u \in Others, RemoveRest(u) PROVE IInv'
    <2>. DEFINE call == [type |-> "remove", subject |-> u, initialMembers |-> Null]
    <2>1. call \in Calls
      BY DEF Calls
    <2>2. SignedOps' = SignedOps /\ IssuedPins' = IssuedPins /\ Handlers' = Handlers
      BY <1>3, SameSigned DEF RemoveRest
    <2>3. TypeOK'
      BY <1>3, <2>1, <2>2 DEF RemoveRest, IInv, TypeOK, Users, netVars, bookVars
    <2>4. Indexed' /\ Chained' /\ DrainsConnected'
      BY <1>3 DEF RemoveRest, IInv, Indexed, Chained, Before, DrainsConnected, netVars, bookVars
    <2>5. GenesisOnce'
      BY <1>3, FounderIsNotAnother DEF RemoveRest, IInv, GenesisOnce, Users
    <2>. QED
      BY <2>3, <2>4, <2>5 DEF IInv
  <1>. QED
    BY <1>1, <1>2, <1>3

\* The operation the service signs takes the next place of the whole chain,
\* and everything signed before stays what and where it was.
LEMMA SignStep ==
  ASSUME IInv, NEW call \in todo, Knows(call),
         signed' = Append(signed, SignNext(svc, call)),
         svc' = Append(svc, SignNext(svc, call)),
         todo' = todo \ {call}, UNCHANGED roster
  PROVE  /\ svc = signed /\ svc' = signed'
         /\ signed' \in Seq(SignedOps') /\ SignedOps \subseteq SignedOps'
         /\ IssuedPins \subseteq IssuedPins'
         /\ Before(signed, signed') /\ Len(signed') = Len(signed) + 1
         /\ signed'[Len(signed')] = SignNext(svc, call)
         /\ SignNext(svc, call) \in SignedOps'
         /\ Indexed' /\ GenesisOnce'
  <1>. DEFINE op == SignNext(svc, call)
  <1>1. svc = signed
    BY DEF Knows, IInv, TypeOK, GenesisOnce
  <1>2. signed \in Seq(SignedOps) /\ signed' = Append(signed, op)
    BY DEF IInv, TypeOK
  <1>3. op.seq = Len(signed)
    BY <1>1 DEF SignNext
  <1>. HIDE DEF op
  <1>4. /\ Len(signed') = Len(signed) + 1
        /\ \A i \in 1 .. Len(signed) : signed'[i] = signed[i]
        /\ signed'[Len(signed) + 1] = op
        /\ signed' \in Seq(SignedOps \cup {op})
        /\ Before(signed, signed')
    <2>. DEFINE longer == Append(signed, op)
    <2>1. /\ Len(longer) = Len(signed) + 1
          /\ \A i \in 1 .. Len(signed) : longer[i] = signed[i]
          /\ longer[Len(signed) + 1] = op
          /\ longer \in Seq(SignedOps \cup {op})
          /\ Before(signed, longer)
      BY <1>2 DEF Before
    <2>2. signed' = longer
      BY <1>2
    <2>. HIDE DEF longer
    <2>. QED
      BY <2>1, <2>2
  <1>5. SignedOps' = SignedOps \cup {op}
    <2>1. DOMAIN signed = 1 .. Len(signed) /\ DOMAIN signed' = 1 .. Len(signed) + 1
      BY <1>2, <1>4, LenProperties
    <2>2. Len(signed) \in Nat
      BY <1>2, LenProperties
    <2>. QED
      BY <1>4, <2>1, <2>2 DEF SignedOps
  <1>6. IssuedPins \subseteq IssuedPins'
    <2>. SUFFICES ASSUME NEW n \in 1 .. Len(signed)
                  PROVE  InviteFor(SubSeq(signed, 1, n)) \in IssuedPins'
      BY DEF IssuedPins
    <2>1. SubSeq(signed', 1, n) = SubSeq(signed, 1, n)
      BY <1>2, SubSeqOfAppend
    <2>2. n \in 1 .. Len(signed')
      BY <1>2, <1>4, LenProperties
    <2>. QED
      BY <2>1, <2>2 DEF IssuedPins
  <1>7. Indexed'
    BY <1>2, <1>3, <1>4, LenProperties DEF IInv, Indexed
  <1>8. GenesisOnce'
    BY <1>1 DEF IInv, GenesisOnce, Knows
  <1>. QED
    BY <1>1, <1>2, <1>4, <1>5, <1>6, <1>7, <1>8 DEF op

\* authorMembershipOp, with or without a link to broadcast on.
LEMMA AuthorStep ==
  ASSUME IInv, NEW call \in todo, AuthorOp(call) \/ AuthorOffline(call)
  PROVE  IInv'
  <1>. DEFINE op == SignNext(svc, call)
  <1>1. /\ svc = signed /\ svc' = signed'
        /\ signed' \in Seq(SignedOps') /\ SignedOps \subseteq SignedOps'
        /\ IssuedPins \subseteq IssuedPins'
        /\ Before(signed, signed') /\ Len(signed') = Len(signed) + 1
        /\ op \in SignedOps'
        /\ Indexed' /\ GenesisOnce'
    BY SignStep DEF AuthorOp, AuthorOffline, relayVars
  <1>2. /\ \A s \in Seq(SignedOps) : s \in Seq(SignedOps')
        /\ \A s \in Seq(SignedOps) : Before(s, signed) => Before(s, signed')
    BY <1>1, SeqMonotonic, BeforeTransitive DEF IInv, TypeOK
  <1>21. lateq \in Seq(Seq(SignedOps'))
    <2>1. Seq(SignedOps) \subseteq Seq(SignedOps')
      BY <1>2
    <2>. QED
      BY <2>1, SeqMonotonic DEF IInv, TypeOK
  <1>3. opq' \in Seq(SignedOps')
    <2>1. opq \in Seq(SignedOps')
      BY <1>2 DEF IInv, TypeOK
    <2>2. opq' = opq \/ opq' = Append(opq, op)
      BY DEF AuthorOp, AuthorOffline, netVars
    <2>. QED
      BY <1>1, <2>1, <2>2, AppendProperties
  <1>4. /\ stored' \in [Users -> Seq(SignedOps')]
        /\ \A u \in Users : Before(stored'[u], signed') /\ Before(stored[u], stored'[u])
    <2>1. CASE AuthorOp(call)
      <3>1. Before(stored[Founder], signed')
        BY <1>2 DEF IInv, TypeOK, Chained, Users
      <3>2. stored' = [stored EXCEPT ![Founder] = signed']
        <4>1. stored' = [stored EXCEPT ![Founder] = SyncOwn(stored[Founder], svc')]
          BY <2>1 DEF AuthorOp
        <4>2. stored[Founder] \in Seq(SignedOps')
          BY <1>2 DEF IInv, TypeOK, Users
        <4>3. SyncOwn(stored[Founder], signed') = signed'
          BY <1>1, <3>1, <4>2, SyncOwnCompletes
        <4>. QED
          BY <1>1, <4>1, <4>3
      <3>3. Before(signed', signed') /\ \A u \in Users : Before(stored[u], stored[u])
        BY <1>1 DEF IInv, TypeOK, Before
      <3>4. \A u \in Users : /\ stored[u] \in Seq(SignedOps')
                             /\ Before(stored[u], signed')
        BY <1>2 DEF IInv, TypeOK, Chained
      <3>5. stored \in [Users -> Seq(SignedOps')]
        BY <3>4 DEF IInv, TypeOK
      <3>. QED
        BY <1>1, <3>1, <3>2, <3>3, <3>4, <3>5
    <2>2. CASE AuthorOffline(call)
      BY <1>2, <2>2 DEF AuthorOffline, IInv, TypeOK, Chained, Before
    <2>. QED
      BY <2>1, <2>2
  <1>5. Chained'
    BY <1>2, <1>4, BeforeTransitive
       DEF AuthorOp, AuthorOffline, relayVars, IInv, TypeOK, Chained
  <1>6. TypeOK'
    BY <1>1, <1>2, <1>21, <1>3, <1>4
       DEF AuthorOp, AuthorOffline, relayVars, netVars, bookVars, IInv, TypeOK, Handlers
  <1>7. DrainsConnected'
    BY DEF AuthorOp, AuthorOffline, relayVars, IInv, DrainsConnected
  <1>. QED
    BY <1>1, <1>5, <1>6, <1>7 DEF IInv

\* A client that receives an operation, saves, is given a pin or asks for a
\* drain.
LEMMA ClientStep ==
  ASSUME IInv, NEW u \in Users,
         RecvOp(u) \/ Persist(u) \/ AwaitChainReady(u)
           \/ \E n \in 1 .. MaxOps : AcceptInvitePin(u, n)
  PROVE  IInv'
  <1>1. signed' = signed /\ SignedOps' = SignedOps /\ IssuedPins' = IssuedPins /\ Handlers' = Handlers
    BY SameSigned DEF RecvOp, Persist, AwaitChainReady, AcceptInvitePin
  <1>2. Indexed' /\ DrainsConnected' /\ GenesisOnce'
    BY <1>1 DEF RecvOp, Persist, AwaitChainReady, AcceptInvitePin, relayVars, IInv, Indexed,
                DrainsConnected, GenesisOnce
  <1>3. CASE RecvOp(u)
    <2>1. /\ down[u] \in Seq(SignedOps) /\ down[u] # <<>>
          /\ Head(down[u]) \in SignedOps /\ Tail(down[u]) \in Seq(SignedOps)
      BY <1>3, HeadTailProperties DEF RecvOp, IInv, TypeOK
    <2>. DEFINE kept == AcceptOp(stored[u], pins[u], Head(down[u]))
    <2>2. /\ kept \in Seq(SignedOps) /\ Before(kept, signed) /\ Before(stored[u], kept)
      <3>1. stored[u] \in Seq(SignedOps) /\ Before(stored[u], signed)
            /\ Before(stored[u], stored[u])
        BY DEF IInv, TypeOK, Chained, Before
      <3>. QED
        BY <2>1, <3>1, DenseAppend DEF AcceptOp
    <2>3. stored' = [stored EXCEPT ![u] = kept]
      BY <1>3 DEF RecvOp
    <2>. HIDE DEF kept
    <2>4. TypeOK'
      BY <1>1, <1>3, <2>1, <2>2, <2>3 DEF RecvOp, IInv, TypeOK, relayVars, bookVars
    <2>5. Chained'
      <3>. SUFFICES ASSUME NEW v \in Users
                    PROVE  Before(stored'[v], signed) /\ Before(disk[v], stored'[v])
        BY <1>1, <1>3 DEF RecvOp, relayVars, IInv, Chained
      <3>1. disk[v] \in Seq(SignedOps) /\ stored[v] \in Seq(SignedOps)
            /\ Before(disk[v], stored[v]) /\ Before(stored[v], signed)
        BY DEF IInv, TypeOK, Chained
      <3>2. CASE v = u
        BY <2>2, <2>3, <3>1, <3>2, BeforeTransitive DEF IInv, TypeOK
      <3>3. CASE v # u
        BY <2>3, <3>1, <3>3 DEF IInv, TypeOK
      <3>. QED
        BY <3>2, <3>3
    <2>. QED
      BY <1>2, <2>4, <2>5 DEF IInv
  <1>4. CASE Persist(u)
    <2>1. TypeOK'
      BY <1>1, <1>4 DEF Persist, IInv, TypeOK, relayVars, netVars, bookVars
    <2>2. Chained'
      BY <1>1, <1>4 DEF Persist, IInv, TypeOK, Chained, Before, relayVars
    <2>. QED
      BY <1>2, <2>1, <2>2 DEF IInv
  <1>5. CASE AwaitChainReady(u)
    <2>1. TypeOK'
      BY <1>1, <1>5 DEF AwaitChainReady, IInv, TypeOK, relayVars, bookVars
    <2>2. Chained'
      BY <1>1, <1>5 DEF AwaitChainReady, IInv, Chained, relayVars
    <2>. QED
      BY <1>2, <2>1, <2>2 DEF IInv
  <1>6. ASSUME NEW n \in 1 .. MaxOps, AcceptInvitePin(u, n) PROVE IInv'
    <2>1. InviteFor(SubSeq(signed, 1, n)) \in IssuedPins
      BY <1>6 DEF AcceptInvitePin, IssuedPins
    <2>2. TypeOK'
      BY <1>1, <1>6, <2>1 DEF AcceptInvitePin, IInv, TypeOK, relayVars, netVars
    <2>3. Chained'
      BY <1>1, <1>6 DEF AcceptInvitePin, IInv, Chained, relayVars
    <2>. QED
      BY <1>2, <2>2, <2>3 DEF IInv
  <1>. QED
    BY <1>3, <1>4, <1>5, <1>6

\* The queues of the closed connections hold signed operations too.
LEMMA LateTyped ==
  ASSUME IInv, NEW k \in DOMAIN lateq
  PROVE  k \in Nat /\ k \in 1 .. Len(lateq) /\ lateq[k] \in Seq(SignedOps)
  <1>1. lateq \in Seq(Seq(SignedOps))
    BY DEF IInv, TypeOK
  <1>2. DOMAIN lateq = 1 .. Len(lateq) /\ Len(lateq) \in Nat
    BY <1>1, LenProperties
  <1>. QED
    BY <1>1, <1>2, ElementOfSeq

\* The relay's handlers: a drain, a subscribe, an op-send, a turn of the
\* fan-out loop.
LEMMA RelayHandlerStep ==
  ASSUME IInv,
         \/ HandleOpSend
         \/ \E k \in DOMAIN lateq : HandleLateOpSend(k)
         \/ \E f \in fanout : FanoutEnd(f) \/ \E u \in Others : FanoutTo(f, u)
         \/ \E u \in Users : \/ Connect(u) \/ DrainRead(u) \/ DrainPush(u)
                             \/ HandleSubscribe(u)
  PROVE  IInv'
  <1>1. /\ signed' = signed /\ SignedOps' = SignedOps /\ IssuedPins' = IssuedPins /\ Handlers' = Handlers
        /\ UNCHANGED <<todo, stored, disk, pins, attempted, roster>>
        /\ svc' \in {svc, <<>>}
    BY SameSigned DEF HandleOpSend, HandleLateOpSend, FanoutEnd, FanoutTo, Connect, DrainRead,
                      DrainPush, HandleSubscribe, clientVars
  <1>2. Indexed' /\ GenesisOnce'
    BY <1>1 DEF IInv, Indexed, GenesisOnce
  <1>3. ASSUME opStore' = opStore PROVE Chained'
    BY <1>1, <1>3 DEF IInv, Chained
  <1>4. ASSUME UNCHANGED <<conn, drain>> PROVE DrainsConnected'
    BY <1>4 DEF IInv, DrainsConnected
  <1>5. ASSUME NEW q \in Seq(SignedOps), q # <<>>, opStore' = StoreOp(opStore, Head(q))
        PROVE  /\ Head(q) \in SignedOps /\ Tail(q) \in Seq(SignedOps)
               /\ opStore' \in Seq(SignedOps) /\ Chained'
    <2>1. Head(q) \in SignedOps /\ Tail(q) \in Seq(SignedOps)
      BY <1>5, HeadTailProperties
    <2>2. opStore \in Seq(SignedOps) /\ Before(opStore, signed)
      BY DEF IInv, TypeOK, Chained
    <2>3. opStore' \in Seq(SignedOps) /\ Before(opStore', signed)
      BY <1>5, <2>1, <2>2, DenseAppend DEF StoreOp
    <2>. QED
      BY <1>1, <2>1, <2>3 DEF IInv, Chained
  <1>6. CASE HandleOpSend
    <2>1. /\ Head(opq) \in SignedOps /\ Tail(opq) \in Seq(SignedOps)
          /\ opStore' \in Seq(SignedOps) /\ Chained'
      BY <1>5, <1>6 DEF HandleOpSend, IInv, TypeOK
    <2>2. fanout' \subseteq Handlers
      <3>1. Len(lateq) + 1 \in Nat
        BY LenProperties DEF IInv, TypeOK
      <3>2. Handler(Head(opq), Len(lateq) + 1) \in Handlers
        BY <2>1, <3>1 DEF Handler, Handlers
      <3>. QED
        BY <1>6, <3>2 DEF HandleOpSend, IInv, TypeOK
    <2>3. raced' \in BOOLEAN /\ opq' = Tail(opq)
      BY <1>6 DEF HandleOpSend
    <2>4. TypeOK'
      BY <1>1, <1>6, <2>1, <2>2, <2>3 DEF HandleOpSend, IInv, TypeOK
    <2>. QED
      BY <1>2, <1>4, <1>6, <2>1, <2>4 DEF HandleOpSend, IInv
  <1>7. ASSUME NEW k \in DOMAIN lateq, HandleLateOpSend(k) PROVE IInv'
    <2>1. k \in Nat /\ lateq[k] \in Seq(SignedOps)
      BY LateTyped
    <2>2. /\ Head(lateq[k]) \in SignedOps /\ Tail(lateq[k]) \in Seq(SignedOps)
          /\ opStore' \in Seq(SignedOps) /\ Chained'
      BY <1>5, <1>7, <2>1 DEF HandleLateOpSend
    <2>3. fanout' \subseteq Handlers
      <3>1. Handler(Head(lateq[k]), k) \in Handlers
        BY <2>1, <2>2 DEF Handler, Handlers
      <3>. QED
        BY <1>7, <3>1 DEF HandleLateOpSend, IInv, TypeOK
    <2>4. lateq' \in Seq(Seq(SignedOps)) /\ raced' \in BOOLEAN
      <3>1. lateq' = [lateq EXCEPT ![k] = Tail(lateq[k])] /\ raced' \in BOOLEAN
        BY <1>7 DEF HandleLateOpSend
      <3>. QED
        BY <2>2, <3>1, ExceptSeq DEF IInv, TypeOK
    <2>5. TypeOK'
      BY <1>1, <1>7, <2>2, <2>3, <2>4 DEF HandleLateOpSend, IInv, TypeOK, netVars
    <2>. QED
      BY <1>2, <1>4, <1>7, <2>2, <2>5 DEF HandleLateOpSend, IInv
  <1>8. ASSUME NEW f \in fanout, FanoutEnd(f) PROVE IInv'
    <2>1. TypeOK'
      BY <1>1, <1>8 DEF FanoutEnd, IInv, TypeOK, netVars, bookVars
    <2>. QED
      BY <1>2, <1>3, <1>4, <1>8, <2>1 DEF FanoutEnd, IInv
  <1>9. ASSUME NEW f \in fanout, NEW u \in Others, FanoutTo(f, u) PROVE IInv'
    <2>1. f \in Handlers /\ u \in Users
      BY DEF IInv, TypeOK, Users
    <2>2. [f EXCEPT !.visited = @ \cup {u}] \in Handlers /\ f.op \in SignedOps
      BY <2>1 DEF Handlers
    <2>3. Append(down[u], f.op) \in Seq(SignedOps)
      BY <2>1, <2>2, AppendProperties DEF IInv, TypeOK
    <2>4. down' \in [Users -> Seq(SignedOps)]
      BY <1>9, <2>1, <2>3 DEF FanoutTo, IInv, TypeOK
    <2>5. TypeOK'
      BY <1>1, <1>9, <2>2, <2>4 DEF FanoutTo, IInv, TypeOK, bookVars
    <2>. QED
      BY <1>2, <1>3, <1>4, <1>9, <2>5 DEF FanoutTo, IInv
  <1>10. ASSUME NEW u \in Users, Connect(u) PROVE IInv'
    <2>1. TypeOK'
      BY <1>1, <1>10 DEF Connect, IInv, TypeOK, netVars
    <2>2. DrainsConnected'
      BY <1>10 DEF Connect, IInv, TypeOK, DrainsConnected
    <2>. QED
      BY <1>2, <1>3, <1>10, <2>1, <2>2 DEF Connect, IInv
  <1>11. ASSUME NEW u \in Users, DrainRead(u) PROVE IInv'
    <2>1. u \in conn
      BY <1>11 DEF DrainRead, IInv, DrainsConnected
    <2>2. /\ drain' \in [Users -> {"idle", "reading", "pushing"}]
          /\ steady' \subseteq conn
      BY <1>11, <2>1 DEF DrainRead, IInv, TypeOK
    <2>3. TypeOK'
      BY <1>1, <1>11, <2>2 DEF DrainRead, IInv, TypeOK, netVars
    <2>4. DrainsConnected'
      BY <1>11 DEF DrainRead, IInv, TypeOK, DrainsConnected
    <2>. QED
      BY <1>2, <1>3, <1>11, <2>3, <2>4 DEF DrainRead, IInv
  <1>12. ASSUME NEW u \in Users, DrainPush(u) PROVE IInv'
    <2>1. down[u] \o opStore \in Seq(SignedOps)
      BY ConcatProperties DEF IInv, TypeOK
    <2>2. TypeOK'
      BY <1>1, <1>12, <2>1 DEF DrainPush, IInv, TypeOK, bookVars
    <2>3. DrainsConnected'
      BY <1>12 DEF DrainPush, IInv, TypeOK, DrainsConnected
    <2>. QED
      BY <1>2, <1>3, <1>12, <2>2, <2>3 DEF DrainPush, IInv
  <1>13. ASSUME NEW u \in Users, HandleSubscribe(u) PROVE IInv'
    <2>1. TypeOK'
      BY <1>1, <1>13 DEF HandleSubscribe, IInv, TypeOK, bookVars
    <2>2. DrainsConnected'
      BY <1>13 DEF HandleSubscribe, IInv, TypeOK, DrainsConnected
    <2>. QED
      BY <1>2, <1>3, <1>13, <2>1, <2>2 DEF HandleSubscribe, IInv
  <1>. QED
    BY <1>6, <1>7, <1>8, <1>9, <1>10, <1>11, <1>12, <1>13

\* A link that closes takes its frames with it; the relay keeps at most the
\* first few of the founder's.
LEMMA CutLinkStep ==
  ASSUME IInv, NEW u \in Users, CutLink(u)
  PROVE  /\ opq' \in Seq(SignedOps) /\ lateq' \in Seq(Seq(SignedOps))
         /\ down' \in [Users -> Seq(SignedOps)]
         /\ fanout' \subseteq Handlers
         /\ conn' \subseteq Users /\ sub' \subseteq conn' /\ steady' \subseteq conn'
         /\ drain' \in [Users -> {"idle", "reading", "pushing"}]
         /\ DrainsConnected'
  <1>1. <<>> \in Seq(SignedOps)
    BY EmptySeq
  <1>2. \A n \in 0 .. Len(opq) : Append(lateq, SubSeq(opq, 1, n)) \in Seq(Seq(SignedOps))
    <2>. TAKE n \in 0 .. Len(opq)
    <2>1. opq \in Seq(SignedOps) /\ lateq \in Seq(Seq(SignedOps))
      BY DEF IInv, TypeOK
    <2>2. SubSeq(opq, 1, n) \in Seq(SignedOps)
      BY <2>1
    <2>. QED
      BY <2>1, <2>2, AppendProperties
  <1>3. opq' \in Seq(SignedOps) /\ lateq' \in Seq(Seq(SignedOps))
    BY <1>1, <1>2 DEF CutLink, IInv, TypeOK
  <1>4. fanout' \subseteq Handlers
    <2>1. fanout \subseteq Handlers
      BY DEF IInv, TypeOK
    <2>3. \A noticed : \A f \in Handlers : [f EXCEPT !.visited = @ \ noticed] \in Handlers
      BY DEF Handlers
    <2>4. CASE u = Founder
      BY <2>1, <2>4 DEF CutLink
    <2>5. CASE u # Founder
      <3>1. PICK noticed : fanout' = {[f EXCEPT !.visited = @ \ noticed] : f \in fanout}
        BY <2>5 DEF CutLink
      <3>. QED
        BY <2>1, <2>3, <3>1
    <2>. QED
      BY <2>4, <2>5
  <1>5. /\ down' \in [Users -> Seq(SignedOps)]
        /\ conn' \subseteq Users /\ sub' \subseteq conn' /\ steady' \subseteq conn'
        /\ drain' \in [Users -> {"idle", "reading", "pushing"}]
    BY <1>1 DEF CutLink, IInv, TypeOK
  <1>6. DrainsConnected'
    BY DEF CutLink, IInv, TypeOK, DrainsConnected
  <1>. QED
    BY <1>3, <1>4, <1>5, <1>6

\* Lost links, refused subscribes, rejecting database calls, and restarts of
\* clients and of the relay.
LEMMA FailureStep ==
  ASSUME IInv,
         \/ \E f \in fanout : FanoutFails(f)
         \/ \E u \in Users : DrainFails(u) \/ SubscribeFails(u)
         \/ \E u \in Users : Disconnect(u) \/ RefuseSubscribe(u) \/ RestartClient(u)
         \/ RestartRelay
  PROVE  IInv'
  <1>1. signed' = signed /\ SignedOps' = SignedOps /\ IssuedPins' = IssuedPins /\ Handlers' = Handlers
    BY SameSigned DEF Disconnect, RefuseSubscribe, RestartClient, RestartRelay, CutLink,
                      FanoutFails, DrainFails, SubscribeFails, DatabaseFails
  <1>2. Indexed'
    BY <1>1 DEF IInv, Indexed
  <1>21. ASSUME DatabaseFails, fanout' \subseteq fanout, steady' \subseteq steady,
                sub' \subseteq sub, drain' \in [Users -> {"idle", "reading", "pushing"}],
                \A u \in Users : drain'[u] # "idle" => drain[u] # "idle"
         PROVE  IInv'
    <2>1. faults' \in 0 .. MaxFaults
      BY <1>21, BoundsAreNatural DEF DatabaseFails, IInv, TypeOK
    <2>2. TypeOK'
      BY <1>1, <1>21, <2>1 DEF DatabaseFails, IInv, TypeOK, clientVars
    <2>3. Chained' /\ GenesisOnce' /\ DrainsConnected'
      BY <1>1, <1>21
         DEF DatabaseFails, IInv, Chained, GenesisOnce, DrainsConnected, clientVars
    <2>. QED
      BY <1>2, <2>2, <2>3 DEF IInv
  <1>22. ASSUME NEW f \in fanout, FanoutFails(f) PROVE IInv'
    BY <1>21, <1>22 DEF FanoutFails, IInv, TypeOK
  <1>23. ASSUME NEW u \in Users, DrainFails(u) \/ SubscribeFails(u) PROVE IInv'
    BY <1>21, <1>23 DEF DrainFails, SubscribeFails, IInv, TypeOK
  <1>3. ASSUME NEW u \in Users, Disconnect(u) \/ RefuseSubscribe(u) PROVE IInv'
    <2>1. CutLink(u) /\ UNCHANGED <<clientVars, restarts>> /\ faults' \in 0 .. MaxFaults
      BY <1>3, BoundsAreNatural DEF Disconnect, RefuseSubscribe, IInv, TypeOK
    <2>2. TypeOK'
      BY <1>1, <2>1, CutLinkStep DEF CutLink, IInv, TypeOK, clientVars
    <2>3. Chained' /\ GenesisOnce'
      BY <1>1, <2>1 DEF CutLink, IInv, Chained, GenesisOnce, clientVars
    <2>. QED
      BY <1>2, <2>1, <2>2, <2>3, CutLinkStep DEF IInv
  <1>4. ASSUME NEW u \in Users, RestartClient(u) PROVE IInv'
    <2>1. CutLink(u) /\ UNCHANGED <<disk, faults, roster, opStore>>
      BY <1>4 DEF RestartClient, CutLink
    <2>2. /\ stored' = [stored EXCEPT ![u] = disk[u]]
          /\ pins' = [pins EXCEPT ![u] = Null]
          /\ attempted' \subseteq attempted /\ todo' \subseteq todo /\ svc' \in {Null, svc}
          /\ restarts' \in 0 .. MaxRestarts
      BY <1>4, BoundsAreNatural DEF RestartClient, IInv, TypeOK
    <2>3. TypeOK'
      BY <1>1, <2>1, <2>2, CutLinkStep DEF CutLink, IInv, TypeOK
    <2>4. Chained'
      <3>. SUFFICES ASSUME NEW v \in Users
                    PROVE  Before(stored'[v], signed) /\ Before(disk[v], stored'[v])
        BY <1>1, <2>1 DEF IInv, Chained
      <3>1. disk[v] \in Seq(SignedOps) /\ stored[v] \in Seq(SignedOps)
            /\ Before(disk[v], stored[v]) /\ Before(stored[v], signed)
        BY DEF IInv, TypeOK, Chained
      <3>2. stored'[v] \in {stored[v], disk[v]}
        BY <2>2 DEF IInv, TypeOK
      <3>3. Before(disk[v], disk[v])
        BY <3>1 DEF Before
      <3>4. Before(disk[v], signed)
        BY <3>1, BeforeTransitive DEF IInv, TypeOK
      <3>. QED
        BY <3>1, <3>2, <3>3, <3>4
    <2>5. GenesisOnce'
      BY <1>1, <2>1, <2>2 DEF IInv, GenesisOnce
    <2>. QED
      BY <1>2, <2>1, <2>3, <2>4, <2>5, CutLinkStep DEF IInv
  <1>5. CASE RestartRelay
    <2>1. <<>> \in Seq(SignedOps) /\ <<>> \in Seq(Seq(SignedOps)) /\ Before(<<>>, signed)
      BY EmptySeq DEF Before, IInv, TypeOK
    <2>2. restarts' \in 0 .. MaxRestarts
      BY <1>5, BoundsAreNatural DEF RestartRelay, IInv, TypeOK
    <2>3. TypeOK'
      BY <1>1, <1>5, <2>1, <2>2 DEF RestartRelay, IInv, TypeOK, clientVars
    <2>4. Chained' /\ DrainsConnected' /\ GenesisOnce'
      BY <1>1, <1>5, <2>1
         DEF RestartRelay, IInv, Chained, DrainsConnected, GenesisOnce, clientVars
    <2>. QED
      BY <1>2, <2>3, <2>4 DEF IInv
  <1>. QED
    BY <1>22, <1>23, <1>3, <1>4, <1>5

\* Every action of the clients, the relay and the environment keeps the
\* inductive invariant.
LEMMA StepHolds == IInv /\ [Next]_vars => IInv'
  <1>. SUFFICES ASSUME IInv, [Next]_vars PROVE IInv'
    OBVIOUS
  <1>1. ASSUME NEW call \in todo, AuthorUnknown(call) PROVE IInv'
    <2>1. signed' = signed /\ SignedOps' = SignedOps /\ IssuedPins' = IssuedPins /\ Handlers' = Handlers
      BY <1>1, SameSigned DEF AuthorUnknown
    <2>2. TypeOK'
      BY <1>1, <2>1 DEF AuthorUnknown, IInv, TypeOK, relayVars, netVars, bookVars
    <2>3. Indexed' /\ Chained' /\ DrainsConnected' /\ GenesisOnce'
      BY <1>1, <2>1 DEF AuthorUnknown, IInv, Indexed, Chained, DrainsConnected, GenesisOnce,
                        relayVars
    <2>. QED
      BY <2>2, <2>3 DEF IInv
  <1>2. CASE UNCHANGED vars
    <2>1. signed' = signed /\ SignedOps' = SignedOps /\ IssuedPins' = IssuedPins /\ Handlers' = Handlers
      BY <1>2, SameSigned DEF vars
    <2>2. TypeOK'
      BY <1>2, <2>1 DEF vars, clientVars, relayVars, netVars, bookVars, IInv, TypeOK
    <2>3. Indexed' /\ Chained' /\ DrainsConnected' /\ GenesisOnce'
      BY <1>2, <2>1 DEF vars, clientVars, relayVars, IInv, Indexed, Chained, DrainsConnected,
                        GenesisOnce
    <2>. QED
      BY <2>2, <2>3 DEF IInv
  <1>3. CASE \E u \in Others, n \in 1 .. MaxOps : AcceptInvitePin(u, n)
    BY <1>3, ClientStep DEF Users
  <1>. QED
    BY <1>1, <1>2, <1>3, RestStep, AuthorStep, ClientStep, RelayHandlerStep, FailureStep
       DEF Next, Author, RelayStep

\* Type correctness, for any users and bounds: among the rest, every operation
\* in the relay's store, on a link, or in a client's chain or save is one that
\* the founder's service signed, and that service never continues a chain
\* other than the whole one (service.ts:98-121).
THEOREM TypeCorrect == Spec => []TypeOK
  <1>1. Init => IInv
    BY InitHolds
  <1>2. IInv /\ [Next]_vars => IInv'
    BY StepHolds
  <1>3. IInv => TypeOK
    BY DEF IInv
  <1>. QED
    BY <1>1, <1>2, <1>3, PTL DEF Spec

\* Agreement, for any users and bounds: through losses, overtaking, restarts
\* and roll-backs, the relay's store and every client's chain stay prefixes of
\* what the founder signed (stores.ts:181-185, index.ts:164-173, client.ts:513-534).
THEOREM Agreement == Spec => []PrefixAgreement
  <1>1. Init => IInv
    BY InitHolds
  <1>2. IInv /\ [Next]_vars => IInv'
    BY StepHolds
  <1>3. IInv => PrefixAgreement
    BY PrefixPointwise DEF IInv, TypeOK, Chained, PrefixAgreement
  <1>. QED
    BY <1>1, <1>2, <1>3, PTL DEF Spec

---------------------------------------------------------------------------
(***************************************************************************)
(* Every chain held verifies.  The founder's chain does, because it is     *)
(* signed link by link; so does each of its prefixes.                      *)
(***************************************************************************)

\* What service.ts puts into an operation, wherever it stands.
WellSigned(op) ==
    /\ ValidOpShape(op) /\ VerifyOpSig(op)
    /\ op.conversationId = Conversation /\ op.author = Founder /\ op.key = Founder

\* The founder's chain starts with genesis and is linked throughout.
Linked ==
    /\ signed # <<>> => signed[1].type = "create"
    /\ \A i \in 1 .. Len(signed) :
          /\ WellSigned(signed[i])
          /\ signed[i].prevHash = IF i = 1 THEN GenesisZero ELSE HashOp(signed[i - 1])

\* An operation signed for a call has the shape verifyChain asks for.
LEMMA SignedShape ==
  ASSUME NEW chain, NEW call \in Calls
  PROVE  WellSigned(SignNext(chain, call))
  <1>. DEFINE op == SignNext(chain, call)
  <1>1. /\ op.type = call.type /\ op.subject = call.subject
        /\ op.initialMembers = call.initialMembers
        /\ op.aiMode = IF call.type = "create" THEN FALSE ELSE Null
        /\ op.conversationId = Conversation /\ op.author = Founder
        /\ op.key = Founder /\ op.sig = Founder
    BY DEF SignNext
  <1>. HIDE DEF op
  <1>2. CASE /\ call.type = "create" /\ call.subject = Null
             /\ call.initialMembers \in SUBSET Others
    <2>1. op.type = "create" /\ op.subject = Null /\ op.aiMode # Null /\ op.initialMembers # Null
      BY <1>1, <1>2, NullIsNoValue
    <2>. QED
      BY <1>1, <2>1 DEF op, WellSigned, ValidOpShape, VerifyOpSig
  <1>3. CASE /\ call.type \in {"invite", "remove"} /\ call.subject \in Others
             /\ call.initialMembers = Null
    <2>1. /\ op.type \in {"invite", "remove"} /\ op.subject # Null /\ op.aiMode = Null
          /\ op.initialMembers = Null
      BY <1>1, <1>3, NullIsNoValue
    <2>. QED
      BY <1>1, <2>1 DEF op, WellSigned, ValidOpShape, VerifyOpSig
  <1>. QED
    BY <1>2, <1>3 DEF Calls

\* Signing links the new operation to the last; no other step signs.
LEMMA LinkStep ==
  ASSUME IInv, Linked, [Next]_vars
  PROVE  Linked'
  <1>1. CASE UNCHANGED signed
    BY <1>1 DEF Linked
  <1>2. ASSUME NEW call \in todo, AuthorOp(call) \/ AuthorOffline(call) PROVE Linked'
    <2>. DEFINE op == SignNext(svc, call)
    <2>1. /\ svc = signed /\ Before(signed, signed') /\ Len(signed') = Len(signed) + 1
          /\ signed'[Len(signed')] = op
      BY <1>2, SignStep DEF AuthorOp, AuthorOffline, relayVars
    <2>2. signed \in Seq(SignedOps) /\ Len(signed) \in Nat /\ (signed = <<>> <=> Len(signed) = 0)
      BY LenProperties, EmptySeq DEF IInv, TypeOK
    <2>3. call \in Calls /\ WellSigned(op)
      BY <1>2, SignedShape DEF AuthorOp, AuthorOffline, IInv, TypeOK
    <2>4. op.prevHash = IF signed = <<>> THEN GenesisZero ELSE HashOp(signed[Len(signed)])
      BY <2>1 DEF SignNext
    <2>5. signed = <<>> => op.type = "create"
      <3>1. Knows(call)
        BY <1>2 DEF AuthorOp, AuthorOffline
      <3>. QED
        BY <2>1, <3>1 DEF Knows, SignNext
    <2>. HIDE DEF op
    <2>6. \A i \in 1 .. Len(signed) : signed'[i] = signed[i]
      BY <2>1 DEF Before
    <2>7. signed'[1].type = "create"
      <3>1. CASE signed = <<>>
        BY <2>1, <2>2, <2>5, <3>1
      <3>2. CASE signed # <<>>
        <4>1. 1 \in 1 .. Len(signed)
          BY <2>2, <3>2
        <4>. QED
          BY <2>6, <3>2, <4>1 DEF Linked
      <3>. QED
        BY <3>1, <3>2
    <2>8. ASSUME NEW i \in 1 .. Len(signed')
          PROVE  /\ WellSigned(signed'[i])
                 /\ signed'[i].prevHash = IF i = 1 THEN GenesisZero ELSE HashOp(signed'[i - 1])
      <3>1. CASE i \in 1 .. Len(signed)
        <4>1. /\ signed'[i] = signed[i] /\ WellSigned(signed[i])
              /\ signed[i].prevHash = IF i = 1 THEN GenesisZero ELSE HashOp(signed[i - 1])
          BY <2>6, <3>1 DEF Linked
        <4>2. i # 1 => signed'[i - 1] = signed[i - 1]
          BY <2>2, <2>6, <3>1
        <4>. QED
          BY <4>1, <4>2
      <3>2. CASE i = Len(signed) + 1
        <4>1. signed'[i] = op
          BY <2>1, <3>2
        <4>2. CASE signed = <<>>
          BY <2>2, <2>3, <2>4, <3>2, <4>1, <4>2
        <4>3. CASE signed # <<>>
          <5>1. i # 1 /\ i - 1 = Len(signed) /\ Len(signed) \in 1 .. Len(signed)
            BY <2>2, <3>2, <4>3
          <5>2. signed'[i - 1] = signed[Len(signed)]
            BY <2>6, <5>1
          <5>. QED
            BY <2>3, <2>4, <4>1, <4>3, <5>1, <5>2
        <4>. QED
          BY <4>2, <4>3
      <3>. QED
        BY <2>1, <2>2, <3>1, <3>2
    <2>. QED
      BY <2>7, <2>8 DEF Linked, WellSigned, ValidOpShape, VerifyOpSig, HashOp, GenesisZero
  <1>3. UNCHANGED signed \/ \E call \in todo : AuthorOp(call) \/ AuthorOffline(call)
    BY DEF Next, Author, RelayStep, CreateRest, InviteRest, RemoveRest, AuthorUnknown,
           HandleOpSend, HandleLateOpSend, FanoutEnd, FanoutTo, DrainRead, DrainPush,
           HandleSubscribe, RefuseSubscribe, RecvOp, Connect, AwaitChainReady, Persist,
           AcceptInvitePin, Disconnect, RestartClient, RestartRelay, CutLink, FanoutFails,
           DrainFails, SubscribeFails, DatabaseFails, vars
  <1>. QED
    BY <1>1, <1>2, <1>3

\* A nonempty prefix of the founder's chain is one that verifyChain accepts.
LEMMA PrefixVerifies ==
  ASSUME IInv, Linked, NEW ops \in Seq(SignedOps), Before(ops, signed), ops # <<>>
  PROVE  VerifyChain(ops)
  <1>1. /\ Len(ops) \in Nat /\ Len(ops) # 0 /\ DOMAIN ops = 1 .. Len(ops) /\ Len(signed) \in Nat
        /\ (Len(signed) # 0 => signed # <<>>)
    BY LenProperties, EmptySeq DEF IInv, TypeOK
  <1>2. /\ Len(ops) <= Len(signed)
        /\ \A i \in 1 .. Len(ops) : i \in 1 .. Len(signed) /\ ops[i] = signed[i]
    BY <1>1 DEF Before
  <1>3. 1 \in 1 .. Len(ops) /\ signed # <<>>
    BY <1>1, <1>2
  <1>4. ops[1].type = "create" /\ WellSigned(ops[1])
    BY <1>2, <1>3 DEF Linked
  <1>5. ASSUME NEW i \in DOMAIN ops PROVE VerifiesAt(ops, i)
    <2>1. /\ i \in 1 .. Len(signed) /\ ops[i] = signed[i] /\ WellSigned(ops[i])
          /\ ops[i].seq = i - 1
      BY <1>1, <1>2 DEF IInv, Indexed, Linked
    <2>2. ops[i].prevHash = IF i = 1 THEN GenesisZero ELSE HashOp(signed[i - 1])
      BY <2>1 DEF Linked
    <2>3. i # 1 => i - 1 \in 1 .. Len(ops)
      BY <1>1
    <2>4. i # 1 => ops[i - 1] = signed[i - 1]
      BY <1>2, <2>3
    <2>5. ops[i].prevHash = IF i = 1 THEN GenesisZero ELSE HashOp(ops[i - 1])
      BY <2>2, <2>4
    <2>. QED
      BY <1>4, <2>1, <2>5 DEF VerifiesAt, WellSigned
  <1>. QED
    BY <1>4, <1>5 DEF VerifyChain

\* An invite pin the founder issued fits every chain long enough to contain its
\* head, and no other: membershipLogFor takes the chain exactly then.
LEMMA PinFits ==
  ASSUME IInv, Linked, NEW ops \in Seq(SignedOps), Before(ops, signed), ops # <<>>,
         NEW pin \in IssuedPins, pin # Null
  PROVE  /\ pin.pinnedHead.seq \in Nat
         /\ Usable(ops, pin) <=> pin.pinnedHead.seq < Len(ops)
  <1>1. /\ Len(ops) \in Nat /\ Len(ops) # 0 /\ DOMAIN ops = 1 .. Len(ops)
        /\ signed \in Seq(SignedOps) /\ Len(signed) \in Nat
    BY LenProperties, EmptySeq DEF IInv, TypeOK
  <1>2. PICK n \in 1 .. Len(signed) : pin = InviteFor(SubSeq(signed, 1, n))
    BY DEF IssuedPins
  <1>3. /\ Len(SubSeq(signed, 1, n)) = n
        /\ SubSeq(signed, 1, n)[1] = signed[1] /\ SubSeq(signed, 1, n)[n] = signed[n]
    BY <1>1
  <1>4. signed[n].seq = n - 1
    BY DEF IInv, Indexed
  <1>5. /\ pin.conversationId = signed[1].conversationId /\ pin.genesisHash = HashOp(signed[1])
        /\ pin.pinnedHead = [seq |-> n - 1, headHash |-> HashOp(signed[n])]
    BY <1>2, <1>3, <1>4 DEF InviteFor, HeadOf
  <1>6. pin.pinnedHead.seq = n - 1 /\ pin.pinnedHead.headHash = HashOp(signed[n])
    BY <1>5
  <1>7. /\ VerifyChain(ops) /\ ops[1] = signed[1]
        /\ \A i \in 1 .. Len(ops) : i \in 1 .. Len(signed) /\ ops[i] = signed[i]
    BY <1>1, PrefixVerifies DEF Before
  <1>8. CASE n <= Len(ops)
    <2>1. n \in DOMAIN ops /\ ops[n] = signed[n] /\ n - 1 + 1 = n /\ n - 1 < Len(ops)
      BY <1>1, <1>7, <1>8
    <2>2. HasHead(ops, pin.pinnedHead)
      BY <1>6, <2>1 DEF HasHead
    <2>3. ops[Len(ops)].seq = Len(ops) - 1
      BY <1>1, <1>7 DEF IInv, Indexed
    <2>4. HeadOf(ops).seq >= pin.pinnedHead.seq
      BY <1>1, <1>6, <1>8, <2>3 DEF HeadOf
    <2>5. HonoursPin(ops, pin)
      BY <1>5, <1>7, <2>2 DEF HonoursPin
    <2>6. Usable(ops, pin)
      BY <1>5, <1>7, <2>2, <2>4, <2>5 DEF Usable, Ingestible, NewLog
    <2>. QED
      BY <1>6, <2>1, <2>6
  <1>9. CASE Len(ops) < n
    <2>1. n \notin DOMAIN ops /\ n - 1 + 1 = n /\ ~(n - 1 < Len(ops)) /\ n - 1 \in Nat
      BY <1>1, <1>9
    <2>2. ~HasHead(ops, pin.pinnedHead)
      BY <1>6, <2>1 DEF HasHead
    <2>3. ~Usable(ops, pin)
      BY <2>2 DEF Usable, Ingestible, NewLog, HonoursPin
    <2>. QED
      BY <1>6, <2>1, <2>3
  <1>. QED
    BY <1>1, <1>8, <1>9

\* A client takes the next operation of the founder's chain if its pin, should
\* it have one, is in reach.
LEMMA NextIsUsable ==
  ASSUME IInv, Linked, NEW ops \in Seq(SignedOps), Before(ops, signed), ops # <<>>,
         NEW pin \in {Null} \cup IssuedPins,
         pin # Null => pin.pinnedHead.seq <= Len(ops) - 1
  PROVE  Usable(ops, pin)
  <1>1. CASE pin = Null
    BY <1>1, PrefixVerifies DEF Usable, Ingestible, NewLog
  <1>2. CASE pin # Null
    <2>1. Len(ops) \in Nat
      BY LenProperties
    <2>2. pin.pinnedHead.seq \in Nat /\ (Usable(ops, pin) <=> pin.pinnedHead.seq < Len(ops))
      BY <1>2, PinFits
    <2>3. pin.pinnedHead.seq < Len(ops)
      BY <1>2, <2>1, <2>2
    <2>. QED
      BY <2>2, <2>3
  <1>. QED
    BY <1>1, <1>2

\* A frame that arrives while the pin is out of reach is dropped: the chain
\* with it would still be short of the pinned head, and is rolled back.
LEMMA PinAheadDrops ==
  ASSUME IInv, Linked, NEW u \in Users, ~PinInReach(u), RecvOp(u)
  PROVE  stored'[u] = stored[u]
  <1>. DEFINE s == stored[u]
              pin == pins[u]
              op == Head(down[u])
              t == Append(s, op)
  <1>1. /\ s \in Seq(SignedOps) /\ Before(s, signed) /\ down[u] \in Seq(SignedOps)
        /\ pin \in IssuedPins /\ pin # Null /\ ~(pin.pinnedHead.seq <= Len(s))
    BY DEF IInv, TypeOK, Chained, PinInReach
  <1>2. stored'[u] = AcceptOp(s, pin, op)
    BY DEF RecvOp, IInv, TypeOK
  <1>3. op \in SignedOps /\ Len(s) \in Nat
    BY <1>1, HeadTailProperties, LenProperties DEF RecvOp
  <1>4. t \in Seq(SignedOps) /\ t # <<>> /\ Len(t) = Len(s) + 1
    BY <1>1, <1>3, AppendProperties
  <1>5. op.seq = Len(s) => Before(t, signed)
    BY <1>1, <1>3, DenseAppend DEF IInv
  <1>. HIDE DEF s, pin, op, t
  <1>6. op.seq = Len(s) => ~Usable(t, pin)
    <2>. SUFFICES ASSUME op.seq = Len(s) PROVE ~Usable(t, pin)
      OBVIOUS
    <2>1. pin.pinnedHead.seq \in Nat /\ (Usable(t, pin) <=> pin.pinnedHead.seq < Len(t))
      BY <1>1, <1>4, <1>5, PinFits
    <2>2. ~(pin.pinnedHead.seq < Len(t))
      BY <1>1, <1>3, <1>4, <2>1
    <2>. QED
      BY <2>1, <2>2
  <1>7. stored'[u] = s
    BY <1>2, <1>6 DEF AcceptOp, t
  <1>. QED
    BY <1>7 DEF s

\* A client can always use the chain it holds unless an invite pin is ahead of
\* it, for any users and bounds: no loss, overtaking, roll-back or restart
\* leaves it with one that membershipLogFor would fail closed on for another
\* reason (client.ts:506-534).
THEOREM HeldUsable == Spec => []HeldChainUsable
  <1>1. Init => IInv /\ Linked
    BY InitHolds DEF Init, Linked
  <1>2. IInv /\ Linked /\ [Next]_vars => IInv' /\ Linked'
    BY StepHolds, LinkStep
  <1>3. IInv /\ Linked => HeldChainUsable
    <2>. SUFFICES ASSUME IInv, Linked, NEW u \in Users, stored[u] # <<>>
                  PROVE  Usable(stored[u], pins[u]) <=>
                           (pins[u] = Null \/ pins[u].pinnedHead.seq < Len(stored[u]))
      BY DEF HeldChainUsable
    <2>. DEFINE ops == stored[u]
                pin == pins[u]
    <2>1. /\ ops \in Seq(SignedOps) /\ Before(ops, signed) /\ ops # <<>>
          /\ pin \in {Null} \cup IssuedPins
      BY DEF IInv, TypeOK, Chained
    <2>. HIDE DEF ops, pin
    <2>2. CASE pin = Null
      <3>1. Usable(ops, pin)
        BY <2>1, <2>2, NextIsUsable
      <3>. QED
        BY <2>2, <3>1 DEF ops, pin
    <2>3. CASE pin # Null
      <3>1. Usable(ops, pin) <=> pin.pinnedHead.seq < Len(ops)
        BY <2>1, <2>3, PinFits
      <3>. QED
        BY <2>3, <3>1 DEF ops, pin
    <2>. QED
      BY <2>2, <2>3
  <1>. QED
    BY <1>1, <1>2, <1>3, PTL DEF Spec

---------------------------------------------------------------------------
(***************************************************************************)
(* The drain and the fan-out between them leave nothing out.  What counts  *)
(* is not the frames under way to a member but what is left of them once   *)
(* its dense guard has dropped those out of place.                         *)
(***************************************************************************)

\* A client that holds n operations, and receives the frames of q one by one,
\* ends up with at least m: the frames n, n + 1, ... m - 1 occur in this order.
Carries(n, q, m) ==
    \E at \in [n + 1 .. m -> 1 .. Len(q)] :
        \A j \in n + 1 .. m : /\ q[at[j]].seq = j - 1
                              /\ \A i \in n + 1 .. j - 1 : at[i] < at[j]

\* Unless two connections' queues were worked off at once, the relay runs one
\* fan-out loop at a time.
OneLoop ==
    ~raced => \A f, g \in fanout : f = g

\* All the relay has stored reaches u: because a drain is still to push it, or
\* with the frames under way, or with those and the loop's visit to come.
Reaches(u) ==
    \/ drain[u] # "idle"
    \/ Carries(Len(stored[u]), down[u], Len(opStore))
    \/ /\ Carries(Len(stored[u]), down[u], Len(opStore) - 1)
       /\ \E f \in fanout : u \notin f.visited /\ f.op.seq = Len(opStore) - 1

Covered ==
    /\ steady \subseteq roster
    /\ OneLoop
    /\ ~raced => \A u \in steady \ {Founder} : PinInReach(u) => Reaches(u)

\* Nothing has to be carried to a client that holds enough.
LEMMA CarriesNone ==
  ASSUME NEW n \in Nat, NEW q, NEW m \in Int, m <= n
  PROVE  Carries(n, q, m)
  <1>. DEFINE at == [j \in n + 1 .. m |-> 1]
  <1>1. ~(\E j \in n + 1 .. m : TRUE)
    OBVIOUS
  <1>2. at \in [n + 1 .. m -> 1 .. Len(q)]
    BY <1>1
  <1>. QED
    BY <1>1, <1>2 DEF Carries

\* No frames carry nothing.
LEMMA CarriesEmpty ==
  ASSUME NEW n \in Nat, NEW m \in Int, Carries(n, <<>>, m)
  PROVE  m <= n
  <1>1. PICK at \in [n + 1 .. m -> 1 .. Len(<<>>)] : TRUE
    BY DEF Carries
  <1>2. n + 1 \in n + 1 .. m => at[n + 1] \in 1 .. 0
    BY <1>1
  <1>. QED
    BY <1>2

\* More frames carry no less.
LEMMA CarriesLonger ==
  ASSUME NEW S, NEW q \in Seq(S), NEW r \in Seq(S), NEW n \in Nat, NEW m \in Int, Carries(n, q, m)
  PROVE  Carries(n, q \o r, m)
  <1>1. PICK at \in [n + 1 .. m -> 1 .. Len(q)] :
           \A j \in n + 1 .. m : q[at[j]].seq = j - 1 /\ \A i \in n + 1 .. j - 1 : at[i] < at[j]
    BY DEF Carries
  <1>. DEFINE w == q \o r
  <1>2. Len(q) \in Nat /\ Len(w) \in Nat /\ Len(q) <= Len(w) /\ \A i \in 1 .. Len(q) : w[i] = q[i]
    BY ConcatProperties, LenProperties
  <1>. HIDE DEF w
  <1>3. at \in [n + 1 .. m -> 1 .. Len(w)]
    BY <1>2
  <1>4. \A j \in n + 1 .. m : w[at[j]].seq = j - 1
    BY <1>1, <1>2
  <1>5. Carries(n, w, m)
    BY <1>1, <1>3, <1>4 DEF Carries
  <1>. QED
    BY <1>5 DEF w

\* The next frame carries one more.
LEMMA CarriesNext ==
  ASSUME NEW S, NEW q \in Seq(S), NEW e \in S, NEW n \in Nat, NEW m \in Int, e.seq = m,
         Carries(n, q, m)
  PROVE  Carries(n, Append(q, e), m + 1)
  <1>1. PICK at \in [n + 1 .. m -> 1 .. Len(q)] :
           \A j \in n + 1 .. m : q[at[j]].seq = j - 1 /\ \A i \in n + 1 .. j - 1 : at[i] < at[j]
    BY DEF Carries
  <1>. DEFINE w == Append(q, e)
              to == [j \in n + 1 .. m + 1 |-> IF j = m + 1 THEN Len(q) + 1 ELSE at[j]]
  <1>2. /\ Len(q) \in Nat /\ Len(w) = Len(q) + 1 /\ w[Len(q) + 1] = e
        /\ \A i \in 1 .. Len(q) : w[i] = q[i]
    BY AppendProperties, LenProperties
  <1>3. /\ \A j \in n + 1 .. m : j # m + 1 /\ j \in n + 1 .. m + 1
        /\ \A j \in n + 1 .. m + 1 : j = m + 1 \/ j \in n + 1 .. m
    OBVIOUS
  <1>4. /\ \A j \in n + 1 .. m : to[j] = at[j] /\ to[j] \in 1 .. Len(q)
        /\ m + 1 \in n + 1 .. m + 1 => to[m + 1] = Len(q) + 1
    BY <1>3
  <1>5. to \in [n + 1 .. m + 1 -> 1 .. Len(w)]
    <2>1. \A j \in n + 1 .. m + 1 : to[j] \in 1 .. Len(w)
      BY <1>2, <1>3, <1>4
    <2>2. to = [j \in n + 1 .. m + 1 |-> to[j]]
      OBVIOUS
    <2>. HIDE DEF to, w
    <2>. QED
      BY <2>1, <2>2
  <1>. HIDE DEF to, w
  <1>6. ASSUME NEW j \in n + 1 .. m + 1
        PROVE  w[to[j]].seq = j - 1 /\ \A i \in n + 1 .. j - 1 : to[i] < to[j]
    <2>1. CASE j = m + 1
      <3>1. to[j] = Len(q) + 1 /\ w[to[j]] = e /\ j - 1 = m
        BY <1>2, <1>4, <2>1
      <3>2. \A i \in n + 1 .. j - 1 : to[i] \in 1 .. Len(q)
        BY <1>4, <3>1
      <3>. QED
        BY <1>2, <3>1, <3>2
    <2>2. CASE j \in n + 1 .. m
      <3>1. to[j] = at[j] /\ w[to[j]] = q[at[j]]
        BY <1>2, <1>4, <2>2
      <3>2. \A i \in n + 1 .. j - 1 : i \in n + 1 .. m
        BY <2>2
      <3>. QED
        BY <1>1, <1>4, <2>2, <3>1, <3>2
    <2>. QED
      BY <1>3, <2>1, <2>2
  <1>7. Carries(n, w, m + 1)
    BY <1>5, <1>6 DEF Carries
  <1>. QED
    BY <1>7 DEF w

\* A drain carries the whole store, whatever is under way before it.
LEMMA CarriesStore ==
  ASSUME NEW S, NEW q \in Seq(S), NEW r \in Seq(S), NEW n \in Nat,
         \A i \in 1 .. Len(r) : r[i].seq = i - 1
  PROVE  Carries(n, q \o r, Len(r))
  <1>. DEFINE w == q \o r
              at == [j \in n + 1 .. Len(r) |-> Len(q) + j]
  <1>1. /\ Len(q) \in Nat /\ Len(r) \in Nat /\ Len(w) = Len(q) + Len(r)
        /\ \A j \in 1 .. Len(r) : w[Len(q) + j] = r[j]
    BY ConcatProperties, LenProperties
  <1>. HIDE DEF w
  <1>2. \A j \in n + 1 .. Len(r) : j \in 1 .. Len(r) /\ Len(q) + j \in 1 .. Len(w)
    BY <1>1
  <1>3. at \in [n + 1 .. Len(r) -> 1 .. Len(w)]
    BY <1>2
  <1>4. \A j \in n + 1 .. Len(r) : at[j] = Len(q) + j
    OBVIOUS
  <1>. HIDE DEF at
  <1>5. ASSUME NEW j \in n + 1 .. Len(r)
        PROVE  w[at[j]].seq = j - 1 /\ \A i \in n + 1 .. j - 1 : at[i] < at[j]
    <2>1. w[at[j]].seq = j - 1
      BY <1>1, <1>2, <1>4
    <2>2. \A i \in n + 1 .. j - 1 : i \in n + 1 .. Len(r) /\ i < j
      BY <1>1
    <2>. QED
      BY <1>1, <1>4, <2>1, <2>2
  <1>6. Carries(n, w, Len(r))
    BY <1>3, <1>5 DEF Carries
  <1>. QED
    BY <1>6 DEF w

\* The first frame is accepted if it is the next one and dropped if not; the
\* rest carry what all of them did.
LEMMA CarriesTail ==
  ASSUME NEW S, NEW q \in Seq(S), q # <<>>, NEW n \in Nat, NEW m \in Int, Carries(n, q, m),
         NEW k \in Nat, k = n \/ (k = n + 1 /\ Head(q).seq = n), Head(q).seq = n => k = n + 1
  PROVE  Carries(k, Tail(q), m)
  <1>1. PICK at \in [n + 1 .. m -> 1 .. Len(q)] :
           \A j \in n + 1 .. m : q[at[j]].seq = j - 1 /\ \A i \in n + 1 .. j - 1 : at[i] < at[j]
    BY DEF Carries
  <1>. DEFINE w == Tail(q)
              to == [j \in k + 1 .. m |-> at[j] - 1]
  <1>2. /\ Len(q) \in Nat /\ Len(q) # 0 /\ Len(w) = Len(q) - 1 /\ Head(q) = q[1]
        /\ \A i \in 1 .. Len(w) : w[i] = q[i + 1]
    BY HeadTailProperties, LenProperties, EmptySeq
  <1>. HIDE DEF w
  <1>3. ASSUME NEW j \in k + 1 .. m
        PROVE  j \in n + 1 .. m /\ at[j] \in 2 .. Len(q)
    <2>1. j \in n + 1 .. m /\ at[j] \in 1 .. Len(q)
      BY <1>1
    <2>2. at[j] # 1
      <3>1. CASE k = n + 1
        <4>1. n + 1 \in n + 1 .. j - 1 /\ n + 1 \in n + 1 .. m
          BY <3>1
        <4>2. at[n + 1] < at[j] /\ at[n + 1] \in 1 .. Len(q)
          BY <1>1, <2>1, <4>1
        <4>. QED
          BY <1>2, <2>1, <4>2
      <3>2. CASE k = n /\ j # n + 1
        <4>1. n + 1 \in n + 1 .. j - 1 /\ n + 1 \in n + 1 .. m
          BY <3>2
        <4>2. at[n + 1] < at[j] /\ at[n + 1] \in 1 .. Len(q)
          BY <1>1, <2>1, <4>1
        <4>. QED
          BY <1>2, <2>1, <4>2
      <3>3. CASE k = n /\ j = n + 1
        <4>1. q[at[j]].seq = n
          BY <1>1, <2>1, <3>3
        <4>2. Head(q).seq # n
          BY <3>3
        <4>. QED
          BY <1>2, <4>1, <4>2
      <3>. QED
        BY <3>1, <3>2, <3>3
    <2>. QED
      BY <1>2, <2>1, <2>2
  <1>4. \A j \in k + 1 .. m : to[j] = at[j] - 1
    OBVIOUS
  <1>5. to \in [k + 1 .. m -> 1 .. Len(w)]
    <2>1. \A j \in k + 1 .. m : at[j] - 1 \in 1 .. Len(w)
      BY <1>2, <1>3
    <2>. QED
      BY <2>1
  <1>. HIDE DEF to
  <1>6. ASSUME NEW j \in k + 1 .. m
        PROVE  w[to[j]].seq = j - 1 /\ \A i \in k + 1 .. j - 1 : to[i] < to[j]
    <2>1. j \in n + 1 .. m /\ at[j] \in 2 .. Len(q) /\ to[j] = at[j] - 1
      BY <1>3, <1>4
    <2>2. to[j] \in 1 .. Len(w) /\ to[j] + 1 = at[j]
      BY <1>2, <2>1
    <2>3. w[to[j]] = q[at[j]]
      BY <1>2, <2>2
    <2>4. ASSUME NEW i \in k + 1 .. j - 1 PROVE to[i] < to[j]
      <3>1. i \in k + 1 .. m /\ i \in n + 1 .. j - 1
        OBVIOUS
      <3>2. at[i] \in 2 .. Len(q) /\ to[i] = at[i] - 1 /\ at[i] < at[j]
        BY <1>1, <1>3, <1>4, <2>1, <3>1
      <3>. QED
        BY <1>2, <2>1, <3>2
    <2>. QED
      BY <1>1, <2>1, <2>3, <2>4
  <1>7. Carries(k, w, m)
    BY <1>5, <1>6 DEF Carries
  <1>. QED
    BY <1>7 DEF w

\* What is needed of the types, for a member that has been drained.
LEMMA MemberTyped ==
  ASSUME IInv, NEW v \in steady \ {Founder}
  PROVE  /\ v \in Users /\ v \in conn
         /\ down[v] \in Seq(SignedOps) /\ stored[v] \in Seq(SignedOps) /\ opStore \in Seq(SignedOps)
         /\ Len(stored[v]) \in Nat /\ Len(opStore) \in Nat /\ Len(opStore) - 1 \in Int
  <1>1. /\ v \in Users /\ v \in conn
        /\ down[v] \in Seq(SignedOps) /\ stored[v] \in Seq(SignedOps) /\ opStore \in Seq(SignedOps)
    BY DEF IInv, TypeOK
  <1>2. Len(stored[v]) \in Nat /\ Len(opStore) \in Nat
    BY <1>1, LenProperties
  <1>. QED
    BY <1>1, <1>2

\* A step that leaves v's frames, chain and drain and the store alone, and the
\* loops at least as far from done with v.
LEMMA ReachesStill ==
  ASSUME NEW v, Reaches(v), stored'[v] = stored[v], down'[v] = down[v],
         drain'[v] = drain[v], opStore' = opStore,
         \A f \in fanout : v \notin f.visited =>
            \E g \in fanout' : v \notin g.visited /\ g.op = f.op
  PROVE  Reaches(v)'
  BY DEF Reaches

\* storeOp and the start of the fan-out loop, while no other loop is running.
LEMMA ReachesStored ==
  ASSUME IInv, NEW v \in steady \ {Founder}, Reaches(v), fanout = {},
         NEW op \in SignedOps, NEW via,
         opStore' = StoreOp(opStore, op), fanout' = fanout \cup {Handler(op, via)},
         UNCHANGED <<stored, down, drain>>
  PROVE  Reaches(v)'
  <1>. DEFINE h == Handler(op, via)
  <1>1. h \in fanout' /\ v \notin h.visited /\ h.op = op
    BY DEF Handler
  <1>. HIDE DEF h
  <1>2. CASE drain[v] # "idle"
    BY <1>2 DEF Reaches
  <1>3. CASE Carries(Len(stored[v]), down[v], Len(opStore))
    <2>1. CASE opStore' = opStore
      BY <1>3, <2>1 DEF Reaches
    <2>2. CASE opStore' = Append(opStore, op) /\ op.seq = Len(opStore)
      <3>1. Len(opStore') = Len(opStore) + 1 /\ Len(opStore) \in Nat
        BY <2>2, MemberTyped, AppendProperties
      <3>2. Len(opStore') - 1 = Len(opStore)
        BY <3>1
      <3>3. Carries(Len(stored'[v]), down'[v], Len(opStore') - 1)
        BY <1>3, <3>2
      <3>4. h.op.seq = Len(opStore') - 1
        BY <1>1, <2>2, <3>2
      <3>. QED
        BY <1>1, <3>3, <3>4 DEF Reaches
    <2>. QED
      BY <2>1, <2>2 DEF StoreOp
  <1>. QED
    BY <1>2, <1>3 DEF Reaches

\* A frame that arrives: the member accepts the next operation, whatever it
\* is, because every prefix of the founder's chain verifies and a pin in reach
\* does not stand in its way.
LEMMA ReachesReceived ==
  ASSUME IInv, Linked, NEW v \in steady \ {Founder}, PinInReach(v), Reaches(v), RecvOp(v)
  PROVE  Reaches(v)'
  <1>. DEFINE q == down[v]
              op == Head(q)
              s == stored[v]
              n == Len(s)
              k == Len(stored'[v])
  <1>1. /\ v \in Users /\ q \in Seq(SignedOps) /\ s \in Seq(SignedOps) /\ q # <<>>
        /\ n \in Nat /\ Len(opStore) \in Nat /\ Len(opStore) - 1 \in Int
    BY MemberTyped DEF RecvOp
  <1>2. op \in SignedOps
    BY <1>1, HeadTailProperties
  <1>3. /\ stored'[v] = AcceptOp(s, pins[v], op) /\ down'[v] = Tail(q)
        /\ UNCHANGED <<drain, opStore, fanout>>
    BY <1>1 DEF RecvOp, relayVars, IInv, TypeOK
  <1>. HIDE DEF q, op
  <1>4. /\ k \in Nat /\ (k = n \/ (k = n + 1 /\ op.seq = n)) /\ (op.seq = n => k = n + 1)
    <2>1. CASE op.seq = Len(s)
      <3>. DEFINE t == Append(s, op)
      <3>1. t \in Seq(SignedOps) /\ Before(t, signed)
        BY <1>1, <1>2, <2>1, DenseAppend DEF IInv, Chained
      <3>2. t # <<>> /\ Len(t) = n + 1
        BY <1>1, <1>2, AppendProperties
      <3>3. /\ pins[v] \in {Null} \cup IssuedPins /\ Len(t) - 1 = n
            /\ pins[v] # Null => pins[v].pinnedHead.seq <= n
        BY <1>1, <3>2 DEF IInv, TypeOK, PinInReach
      <3>. HIDE DEF t
      <3>4. Usable(t, pins[v])
        BY <3>1, <3>2, <3>3, NextIsUsable
      <3>5. stored'[v] = t
        BY <1>3, <2>1, <3>4 DEF AcceptOp, t
      <3>6. k = n + 1 /\ op.seq = n
        BY <2>1, <3>2, <3>5
      <3>. HIDE DEF k, n
      <3>. QED
        BY <1>1, <3>6
    <2>2. CASE op.seq # Len(s)
      BY <1>1, <1>3, <2>2 DEF AcceptOp
    <2>. QED
      BY <2>1, <2>2
  <1>. HIDE DEF n, k, s
  <1>5. \A m \in Int : Carries(n, q, m) => Carries(k, Tail(q), m)
    BY <1>1, <1>4, CarriesTail DEF op
  <1>6. Reaches(v) <=> \/ drain[v] # "idle"
                       \/ Carries(n, q, Len(opStore))
                       \/ /\ Carries(n, q, Len(opStore) - 1)
                          /\ \E f \in fanout : v \notin f.visited /\ f.op.seq = Len(opStore) - 1
    BY DEF Reaches, n, q, s
  <1>7. Reaches(v)' <=> \/ drain[v] # "idle"
                        \/ Carries(k, Tail(q), Len(opStore))
                        \/ /\ Carries(k, Tail(q), Len(opStore) - 1)
                           /\ \E f \in fanout : v \notin f.visited /\ f.op.seq = Len(opStore) - 1
    BY <1>3 DEF Reaches, k
  <1>. QED
    BY <1>1, <1>5, <1>6, <1>7

\* The loop visits v's socket: with this frame v has all the relay has.
LEMMA ReachesVisited ==
  ASSUME IInv, Covered, ~raced, NEW v \in steady \ {Founder}, Reaches(v), NEW f \in fanout,
         FanoutTo(f, v)
  PROVE  Reaches(v)'
  <1>. DEFINE q == down[v]
              n == Len(stored[v])
              m == Len(opStore)
  <1>1. /\ v \in Users /\ q \in Seq(SignedOps) /\ n \in Nat /\ m \in Nat /\ m - 1 \in Int
    BY MemberTyped
  <1>2. f.op \in SignedOps
    BY DEF IInv, TypeOK, Handlers
  <1>3. down'[v] = Append(q, f.op) /\ UNCHANGED <<stored, opStore, drain>>
    BY <1>1 DEF FanoutTo, clientVars, Covered, IInv, TypeOK
  <1>4. Reaches(v) => \/ drain[v] # "idle"
                      \/ Carries(n, q, m)
                      \/ /\ Carries(n, q, m - 1)
                         /\ \E g \in fanout : g.op.seq = m - 1
    BY DEF Reaches
  <1>5. drain[v] # "idle" \/ Carries(n, Append(q, f.op), m) => Reaches(v)'
    BY <1>3 DEF Reaches
  <1>. HIDE DEF q, n, m
  <1>6. ASSUME Carries(n, q, m) PROVE Carries(n, Append(q, f.op), m)
    <2>. DEFINE r == <<f.op>>
    <2>1. Append(q, f.op) = q \o r /\ r \in Seq(SignedOps)
      BY <1>1, <1>2
    <2>. HIDE DEF r
    <2>2. Carries(n, q \o r, m)
      BY <1>1, <1>6, <2>1, CarriesLonger
    <2>. QED
      BY <2>1, <2>2
  <1>7. ASSUME Carries(n, q, m - 1), \E g \in fanout : g.op.seq = m - 1
        PROVE  Carries(n, Append(q, f.op), m)
    <2>1. f.op.seq = m - 1
      BY <1>7 DEF Covered, OneLoop
    <2>2. Carries(n, Append(q, f.op), (m - 1) + 1)
      BY <1>1, <1>2, <1>7, <2>1, CarriesNext
    <2>3. (m - 1) + 1 = m
      BY <1>1
    <2>. QED
      BY <2>2, <2>3
  <1>. QED
    BY <1>4, <1>5, <1>6, <1>7

\* Every step keeps what the relay has stored on its way to every member.
LEMMA ReachStep ==
  ASSUME IInv, Linked, Covered, [Next]_vars, ~raced',
         NEW v \in steady' \ {Founder}, PinInReach(v)'
  PROVE  Reaches(v)'
  <1>1. ~raced
    BY DEF Next, Author, RelayStep, CreateRest, InviteRest, RemoveRest, AuthorOp, AuthorOffline,
           AuthorUnknown, HandleOpSend, HandleLateOpSend, FanoutEnd, FanoutTo, DrainRead,
           DrainPush, HandleSubscribe, RefuseSubscribe, RecvOp, Connect, AwaitChainReady,
           Persist, AcceptInvitePin, Disconnect, RestartClient, RestartRelay, CutLink, FanoutFails,
           DrainFails, SubscribeFails, DatabaseFails, vars,
           bookVars
  <1>2. v \in steady /\ stored'[v] = stored[v] /\ pins'[v] = pins[v] =>
          Reaches(v) /\ v \in Users /\ v \in conn
    BY <1>1, MemberTyped DEF Covered, PinInReach
  <1>3. CASE \/ \E initial \in SUBSET Others : CreateRest(initial)
             \/ \E u \in Others : InviteRest(u) \/ RemoveRest(u)
             \/ \E call \in todo : AuthorOffline(call) \/ AuthorUnknown(call)
             \/ \E u \in Users : AwaitChainReady(u) \/ Persist(u)
             \/ UNCHANGED vars
    <2>1. v \in steady /\ UNCHANGED <<stored, pins, down, drain, opStore, fanout>>
      BY <1>3 DEF CreateRest, InviteRest, RemoveRest, AuthorOffline, AuthorUnknown,
                  AwaitChainReady, Persist, vars, clientVars, relayVars, netVars, bookVars
    <2>. QED
      BY <1>2, <2>1, ReachesStill
  <1>4. ASSUME NEW u \in Others, NEW n \in 1 .. MaxOps, AcceptInvitePin(u, n) PROVE Reaches(v)'
    <2>1. v \in steady /\ UNCHANGED <<stored, down, drain, opStore, fanout>>
      BY <1>4 DEF AcceptInvitePin, relayVars, netVars
    <2>2. CASE u = v
      <3>1. PinInReach(v)
        BY <1>4, <2>2 DEF AcceptInvitePin
      <3>. QED
        BY <1>1, <2>1, <3>1, ReachesStill DEF Covered
    <2>3. CASE u # v
      <3>1. pins'[v] = pins[v]
        BY <1>4, <2>1, <2>3, MemberTyped DEF AcceptInvitePin, IInv, TypeOK
      <3>. QED
        BY <1>2, <2>1, <3>1, ReachesStill
    <2>. QED
      BY <2>2, <2>3
  <1>5. ASSUME NEW call \in todo, AuthorOp(call) PROVE Reaches(v)'
    <2>1. v \in steady /\ UNCHANGED <<pins, down, drain, opStore, fanout>>
      BY <1>5 DEF AuthorOp, relayVars, bookVars
    <2>2. stored'[v] = stored[v]
      BY <1>5, <2>1, MemberTyped DEF AuthorOp, IInv, TypeOK
    <2>. QED
      BY <1>2, <2>1, <2>2, ReachesStill
  <1>6. ASSUME NEW u \in Users, RecvOp(u) PROVE Reaches(v)'
    <2>1. v \in steady /\ UNCHANGED <<pins, drain, opStore, fanout>>
      BY <1>6 DEF RecvOp, relayVars
    <2>2. CASE u = v
      <3>1. PinInReach(v)
        <4>1. ~PinInReach(v) => stored'[v] = stored[v]
          BY <1>6, <2>2, PinAheadDrops
        <4>. QED
          BY <2>1, <4>1 DEF PinInReach
      <3>2. Reaches(v)
        BY <1>1, <2>1, <3>1 DEF Covered
      <3>. QED
        BY <1>6, <2>1, <2>2, <3>1, <3>2, ReachesReceived
    <2>3. CASE u # v
      <3>1. stored'[v] = stored[v] /\ down'[v] = down[v]
        BY <1>6, <2>1, <2>3, MemberTyped DEF RecvOp, IInv, TypeOK
      <3>. QED
        BY <1>2, <2>1, <3>1, ReachesStill
    <2>. QED
      BY <2>2, <2>3
  <1>7. ASSUME NEW u \in Users, Connect(u) PROVE Reaches(v)'
    <2>1. v \in steady /\ UNCHANGED <<stored, pins, down, opStore, fanout>>
      BY <1>7 DEF Connect, netVars
    <2>2. drain'[v] = drain[v]
      BY <1>7, <2>1, MemberTyped DEF Connect, IInv, TypeOK
    <2>. QED
      BY <1>2, <2>1, <2>2, ReachesStill
  <1>8. ASSUME NEW u \in Users, DrainRead(u) PROVE Reaches(v)'
    <2>1. UNCHANGED <<stored, pins, down, opStore, fanout>>
      BY <1>8 DEF DrainRead, clientVars, netVars
    <2>2. CASE u = v
      <3>1. v \in roster
        BY <1>8, <2>2 DEF DrainRead, Covered
      <3>2. drain'[v] = "pushing"
        BY <1>8, <2>2, <3>1 DEF DrainRead, IInv, TypeOK
      <3>. QED
        BY <3>2 DEF Reaches
    <2>3. CASE u # v
      <3>1. v \in steady
        BY <1>8, <2>3 DEF DrainRead
      <3>2. drain'[v] = drain[v]
        BY <1>8, <2>3, <3>1, MemberTyped DEF DrainRead, IInv, TypeOK
      <3>. QED
        BY <1>2, <2>1, <3>1, <3>2, ReachesStill
    <2>. QED
      BY <2>2, <2>3
  <1>9. ASSUME NEW u \in Users, DrainPush(u) PROVE Reaches(v)'
    <2>1. v \in steady /\ UNCHANGED <<stored, pins, opStore, fanout>>
      BY <1>9 DEF DrainPush, clientVars, bookVars
    <2>2. CASE u = v
      <3>1. down'[v] = down[v] \o opStore
        BY <1>9, <2>1, <2>2 DEF DrainPush, IInv, TypeOK
      <3>2. \A i \in 1 .. Len(opStore) : opStore[i].seq = i - 1
        <4>1. Len(opStore) \in Nat /\ Len(signed) \in Nat
          BY LenProperties DEF IInv, TypeOK
        <4>2. \A i \in 1 .. Len(opStore) : i \in 1 .. Len(signed) /\ opStore[i] = signed[i]
          BY <4>1 DEF IInv, Chained, Before
        <4>. QED
          BY <4>2 DEF IInv, Indexed
      <3>3. Carries(Len(stored[v]), down[v] \o opStore, Len(opStore))
        BY <2>1, <3>2, MemberTyped, CarriesStore
      <3>. QED
        BY <2>1, <3>1, <3>3 DEF Reaches
    <2>3. CASE u # v
      <3>1. down'[v] = down[v] /\ drain'[v] = drain[v]
        BY <1>9, <2>1, <2>3, MemberTyped DEF DrainPush, IInv, TypeOK
      <3>. QED
        BY <1>2, <2>1, <3>1, ReachesStill
    <2>. QED
      BY <2>2, <2>3
  <1>10. ASSUME NEW u \in Users, HandleSubscribe(u) PROVE Reaches(v)'
    <2>1. v \in steady /\ UNCHANGED <<stored, pins, down, opStore, fanout>>
      BY <1>10 DEF HandleSubscribe, clientVars, bookVars
    <2>2. drain'[v] = drain[v] \/ drain'[v] = "reading"
      BY <1>10, <2>1, MemberTyped DEF HandleSubscribe, IInv, TypeOK
    <2>3. CASE drain'[v] = "reading"
      BY <2>3 DEF Reaches
    <2>4. CASE drain'[v] = drain[v]
      BY <1>2, <2>1, <2>4, ReachesStill
    <2>. QED
      BY <2>2, <2>3, <2>4
  <1>11. CASE HandleOpSend
    <2>1. /\ v \in steady /\ pins' = pins /\ fanout = {}
          /\ opStore' = StoreOp(opStore, Head(opq))
          /\ fanout' = fanout \cup {Handler(Head(opq), Len(lateq) + 1)}
          /\ UNCHANGED <<stored, down, drain>>
      BY <1>11 DEF HandleOpSend, clientVars
    <2>2. Head(opq) \in SignedOps
      BY <1>11, HeadTailProperties DEF HandleOpSend, IInv, TypeOK
    <2>. QED
      BY <1>2, <2>1, <2>2, ReachesStored
  <1>12. ASSUME NEW k \in DOMAIN lateq, HandleLateOpSend(k) PROVE Reaches(v)'
    <2>1. /\ v \in steady /\ pins' = pins /\ fanout = {}
          /\ opStore' = StoreOp(opStore, Head(lateq[k]))
          /\ fanout' = fanout \cup {Handler(Head(lateq[k]), k)}
          /\ UNCHANGED <<stored, down, drain>>
      BY <1>12 DEF HandleLateOpSend, clientVars, netVars
    <2>2. Head(lateq[k]) \in SignedOps
      BY <1>12, LateTyped, HeadTailProperties DEF HandleLateOpSend
    <2>. QED
      BY <1>2, <2>1, <2>2, ReachesStored
  <1>13. ASSUME NEW f \in fanout, NEW u \in Others, FanoutTo(f, u) PROVE Reaches(v)'
    <2>1. v \in steady /\ pins' = pins /\ UNCHANGED <<stored, drain, opStore>>
      BY <1>13 DEF FanoutTo, clientVars, bookVars
    <2>2. CASE u = v
      BY <1>1, <1>2, <1>13, <2>1, <2>2, ReachesVisited
    <2>3. CASE u # v
      <3>1. down'[v] = down[v]
        BY <1>13, <2>1, <2>3, MemberTyped DEF FanoutTo, IInv, TypeOK
      <3>2. ASSUME NEW g \in fanout, v \notin g.visited
            PROVE  \E h \in fanout' : v \notin h.visited /\ h.op = g.op
        <4>1. CASE g # f
          BY <1>13, <3>2, <4>1 DEF FanoutTo
        <4>2. CASE g = f
          <5>. DEFINE h == [f EXCEPT !.visited = @ \cup {u}]
          <5>1. f \in Handlers
            BY DEF IInv, TypeOK
          <5>2. h.visited = f.visited \cup {u} /\ h.op = f.op
            BY <5>1 DEF Handlers
          <5>3. h \in fanout'
            BY <1>13 DEF FanoutTo
          <5>. HIDE DEF h
          <5>. QED
            BY <2>3, <3>2, <4>2, <5>2, <5>3
        <4>. QED
          BY <4>1, <4>2
      <3>. QED
        BY <1>2, <2>1, <3>1, <3>2, ReachesStill
    <2>. QED
      BY <2>2, <2>3
  <1>14. ASSUME NEW f \in fanout, FanoutEnd(f) PROVE Reaches(v)'
    <2>1. v \in steady /\ pins' = pins /\ UNCHANGED <<stored, down, drain, opStore>>
      BY <1>14 DEF FanoutEnd, clientVars, netVars, bookVars
    <2>2. v \in f.visited
      BY <1>2, <1>14, <2>1 DEF FanoutEnd
    <2>3. \A g \in fanout : v \in g.visited
      BY <1>1, <2>2 DEF Covered, OneLoop
    <2>. QED
      BY <1>2, <2>1, <2>3, ReachesStill
  <1>15. ASSUME NEW u \in Users, CutLink(u), v # u =>
                  stored'[v] = stored[v] /\ pins'[v] = pins[v]
         PROVE  Reaches(v)'
    <2>1. v \in steady /\ v # u /\ UNCHANGED opStore
      BY <1>15 DEF CutLink
    <2>2. down'[v] = down[v] /\ drain'[v] = drain[v]
      BY <1>15, <2>1, MemberTyped DEF CutLink, IInv, TypeOK
    <2>3. ASSUME NEW g \in fanout, v \notin g.visited
          PROVE  \E h \in fanout' : v \notin h.visited /\ h.op = g.op
      <3>1. g \in Handlers
        BY DEF IInv, TypeOK
      <3>2. CASE u = Founder
        BY <1>15, <2>3, <3>2 DEF CutLink
      <3>3. CASE u # Founder
        <4>1. PICK noticed : fanout' = {[f EXCEPT !.visited = @ \ noticed] : f \in fanout}
          BY <1>15, <3>3 DEF CutLink
        <4>. DEFINE h == [g EXCEPT !.visited = @ \ noticed]
        <4>2. h \in fanout'
          BY <4>1
        <4>3. h.visited = g.visited \ noticed /\ h.op = g.op
          BY <3>1 DEF Handlers
        <4>. HIDE DEF h
        <4>. QED
          BY <2>3, <4>2, <4>3
      <3>. QED
        BY <3>2, <3>3
    <2>. QED
      BY <1>2, <1>15, <2>1, <2>2, <2>3, ReachesStill
  <1>16. ASSUME NEW u \in Users, Disconnect(u) \/ RefuseSubscribe(u) PROVE Reaches(v)'
    BY <1>15, <1>16 DEF Disconnect, RefuseSubscribe, clientVars
  <1>17. ASSUME NEW u \in Users, RestartClient(u) PROVE Reaches(v)'
    <2>1. CutLink(u)
      BY <1>17 DEF RestartClient
    <2>2. v # u => v \in Users
      BY <2>1, MemberTyped DEF CutLink
    <2>3. v # u => stored'[v] = stored[v] /\ pins'[v] = pins[v]
      BY <1>17, <2>2 DEF RestartClient, IInv, TypeOK
    <2>. QED
      BY <1>15, <2>1, <2>3
  <1>18. CASE RestartRelay
    BY <1>18 DEF RestartRelay
  <1>19. ASSUME NEW f \in fanout, FanoutFails(f) PROVE Reaches(v)'
    <2>1. v \in steady /\ UNCHANGED <<stored, pins, down, drain, opStore>>
      BY <1>19 DEF FanoutFails, DatabaseFails, clientVars
    <2>2. v \in f.visited
      BY <1>19 DEF FanoutFails
    <2>3. \A g \in fanout : v \in g.visited
      BY <1>1, <2>2 DEF Covered, OneLoop
    <2>. QED
      BY <1>2, <2>1, <2>3, ReachesStill
  <1>20. ASSUME NEW u \in Users, DrainFails(u) \/ SubscribeFails(u) PROVE Reaches(v)'
    <2>1. v \in steady /\ UNCHANGED <<stored, pins, down, opStore, fanout>>
      BY <1>20 DEF DrainFails, SubscribeFails, DatabaseFails, clientVars
    <2>2. drain'[v] = drain[v]
      BY <1>20, <2>1, MemberTyped DEF DrainFails, SubscribeFails, IInv, TypeOK
    <2>. QED
      BY <1>2, <2>1, <2>2, ReachesStill
  <1>. QED
    BY <1>3, <1>4, <1>5, <1>6, <1>7, <1>8, <1>9, <1>10, <1>11, <1>12, <1>13, <1>14, <1>16,
       <1>17, <1>18, <1>19, <1>20
       DEF Next, Author, RelayStep

\* The relay keeps to one loop at a time, and only active members count as
\* drained.
LEMMA LoopStep ==
  ASSUME IInv, Covered, [Next]_vars
  PROVE  steady' \subseteq roster' /\ OneLoop'
  <1>1. ASSUME NEW u \in Users, CutLink(u) PROVE steady' \subseteq roster' /\ OneLoop'
    <2>1. steady' \subseteq roster' /\ raced' = raced
      BY <1>1 DEF CutLink, Covered
    <2>2. CASE u = Founder
      BY <1>1, <2>1, <2>2 DEF CutLink, Covered, OneLoop
    <2>3. CASE u # Founder
      <3>1. PICK noticed : fanout' = {[f EXCEPT !.visited = @ \ noticed] : f \in fanout}
        BY <1>1, <2>3 DEF CutLink
      <3>2. ~raced => \A f, g \in fanout' : f = g
        BY <3>1 DEF Covered, OneLoop
      <3>. QED
        BY <2>1, <3>2 DEF OneLoop
    <2>. QED
      BY <2>2, <2>3
  <1>2. CASE \/ \E initial \in SUBSET Others : CreateRest(initial)
             \/ \E u \in Others : InviteRest(u) \/ RemoveRest(u)
    BY <1>2 DEF CreateRest, InviteRest, RemoveRest, Covered, OneLoop, bookVars
  <1>3. CASE \/ \E call \in todo : AuthorOp(call) \/ AuthorOffline(call) \/ AuthorUnknown(call)
             \/ \E u \in Users : AwaitChainReady(u) \/ Persist(u) \/ RecvOp(u)
             \/ \E u \in Others, n \in 1 .. MaxOps : AcceptInvitePin(u, n)
             \/ UNCHANGED vars
    <2>1. steady' \subseteq steady /\ UNCHANGED <<roster, raced, fanout>>
      BY <1>3 DEF AuthorOp, AuthorOffline, AuthorUnknown, AwaitChainReady, Persist, RecvOp,
                  AcceptInvitePin, vars, relayVars, bookVars
    <2>. QED
      BY <2>1 DEF Covered, OneLoop
  <1>4. CASE \E u \in Users : Connect(u) \/ DrainRead(u) \/ DrainPush(u) \/ HandleSubscribe(u)
    BY <1>4 DEF Connect, DrainRead, DrainPush, HandleSubscribe, Covered, OneLoop, bookVars
  <1>5. CASE HandleOpSend \/ \E k \in DOMAIN lateq : HandleLateOpSend(k)
    <2>1. /\ steady' = steady /\ roster' = roster
          /\ \E h : fanout' = fanout \cup {h}
          /\ raced' = (raced \/ fanout # {})
      BY <1>5 DEF HandleOpSend, HandleLateOpSend
    <2>2. OneLoop'
      BY <2>1 DEF OneLoop
    <2>. QED
      BY <2>1, <2>2 DEF Covered
  <1>6. CASE \/ \E f \in fanout : FanoutFails(f)
             \/ \E u \in Users : DrainFails(u) \/ SubscribeFails(u)
    <2>1. steady' \subseteq steady /\ fanout' \subseteq fanout /\ UNCHANGED <<roster, raced>>
      BY <1>6 DEF FanoutFails, DrainFails, SubscribeFails, DatabaseFails
    <2>. QED
      BY <2>1 DEF Covered, OneLoop
  <1>7. ASSUME NEW f \in fanout, FanoutEnd(f) PROVE steady' \subseteq roster' /\ OneLoop'
    BY <1>7 DEF FanoutEnd, Covered, OneLoop, bookVars
  <1>8. ASSUME NEW f \in fanout, NEW u \in Others, FanoutTo(f, u)
        PROVE  steady' \subseteq roster' /\ OneLoop'
    <2>. DEFINE h == [f EXCEPT !.visited = @ \cup {u}]
    <2>1. UNCHANGED <<steady, roster, raced>> /\ fanout' = (fanout \ {f}) \cup {h}
      BY <1>8 DEF FanoutTo, bookVars
    <2>. HIDE DEF h
    <2>3. ~raced => fanout' = {h}
      BY <2>1 DEF Covered, OneLoop
    <2>4. OneLoop'
      BY <2>1, <2>3 DEF OneLoop
    <2>. QED
      BY <2>1, <2>4 DEF Covered
  <1>9. CASE RestartRelay
    BY <1>9 DEF RestartRelay, Covered, OneLoop
  <1>. QED
    BY <1>1, <1>2, <1>3, <1>4, <1>5, <1>6, <1>7, <1>8, <1>9
       DEF Next, Author, RelayStep, RefuseSubscribe, Disconnect, RestartClient

\* Nothing falls between the drain and the live push, for any users and
\* bounds: a member drained while active, and active ever since, holds all the
\* relay has stored once nothing is on its way (index.ts:526-550, 602-618, 679-684).
THEOREM DrainCovers == Spec => []DrainCoversFanout
  <1>1. Init => IInv /\ Linked /\ Covered
    BY InitHolds DEF Init, Linked, Covered, OneLoop
  <1>2. IInv /\ Linked /\ Covered /\ [Next]_vars => IInv' /\ Linked' /\ Covered'
    BY StepHolds, LinkStep, LoopStep, ReachStep DEF Covered
  <1>3. IInv /\ Covered => DrainCoversFanout
    <2>. SUFFICES ASSUME IInv, Covered, ~raced, NEW u \in steady \ {Founder}, Settled(u),
                         PinInReach(u)
                  PROVE  IsPrefix(opStore, stored[u])
      BY DEF DrainCoversFanout
    <2>1. /\ u \in Users /\ stored[u] \in Seq(SignedOps) /\ opStore \in Seq(SignedOps)
          /\ Len(stored[u]) \in Nat /\ Len(opStore) \in Nat
      BY MemberTyped
    <2>2. Carries(Len(stored[u]), <<>>, Len(opStore))
      BY DEF Covered, Reaches, Settled
    <2>3. Len(opStore) <= Len(stored[u])
      BY <2>1, <2>2, CarriesEmpty
    <2>4. Before(opStore, signed) /\ Before(stored[u], signed)
      BY <2>1 DEF IInv, Chained
    <2>5. Before(opStore, stored[u])
      BY <2>1, <2>3, <2>4 DEF Before
    <2>. QED
      BY <2>1, <2>5, PrefixPointwise
  <1>. QED
    BY <1>1, <1>2, <1>3, PTL DEF Spec

\* No step, while u keeps a pin that is out of reach, changes the chain u holds.
PinAheadBlocks ==
    [][\A u \in Others : ~PinInReach(u) /\ pins'[u] # Null => stored'[u] = stored[u]]_vars

\* A pin more than one operation ahead of the chain stops it for good, for any
\* users and bounds: nothing that is drained, pushed or fetched gets into the
\* chain until a restart has dropped the pin or acceptInvitePin has replaced it
\* by one in reach, although the pin is right, since handleIncomingOp tests it
\* after every single append (client.ts:525-533).
THEOREM PinAheadStalls == Spec => PinAheadBlocks
  <1>1. Init => IInv /\ Linked
    BY InitHolds DEF Init, Linked
  <1>2. IInv /\ Linked /\ [Next]_vars => IInv' /\ Linked'
    BY StepHolds, LinkStep
  <1>3. ASSUME IInv, Linked, [Next]_vars, NEW u \in Others, ~PinInReach(u), pins'[u] # Null
        PROVE  stored'[u] = stored[u]
    <2>1. u \in Users /\ u # Founder
      BY FounderIsNotAnother DEF Users
    <2>2. ASSUME NEW v \in Users, RecvOp(v) PROVE stored'[u] = stored[u]
      <3>1. CASE v = u
        BY <1>3, <2>1, <2>2, <3>1, PinAheadDrops
      <3>2. CASE v # u
        BY <2>1, <2>2, <3>2 DEF RecvOp, IInv, TypeOK
      <3>. QED
        BY <3>1, <3>2
    <2>3. ASSUME NEW v \in Users, RestartClient(v) PROVE stored'[u] = stored[u]
      <3>1. v # u
        BY <1>3, <2>1, <2>3 DEF RestartClient, IInv, TypeOK
      <3>. QED
        BY <2>1, <2>3, <3>1 DEF RestartClient, IInv, TypeOK
    <2>4. ASSUME NEW call \in todo, AuthorOp(call) \/ AuthorOffline(call)
          PROVE  stored'[u] = stored[u]
      <3>1. CASE AuthorOffline(call)
        BY <3>1 DEF AuthorOffline
      <3>2. CASE AuthorOp(call)
        BY <2>1, <3>2 DEF AuthorOp, IInv, TypeOK
      <3>. QED
        BY <2>4, <3>1, <3>2
    <2>5. ASSUME \/ \E initial \in SUBSET Others : CreateRest(initial)
                 \/ \E w \in Others : InviteRest(w) \/ RemoveRest(w)
                 \/ \E call \in todo : AuthorUnknown(call)
                 \/ \E v \in Users : Connect(v) \/ AwaitChainReady(v) \/ Persist(v)
                                      \/ Disconnect(v)
                 \/ \E w \in Others, n \in 1 .. MaxOps : AcceptInvitePin(w, n)
                 \/ \E f \in fanout : FanoutFails(f)
                 \/ \E v \in Users : DrainFails(v) \/ SubscribeFails(v)
                 \/ RelayStep \/ RestartRelay \/ UNCHANGED vars
          PROVE  stored' = stored
      BY <2>5 DEF RelayStep, CreateRest, InviteRest, RemoveRest, AuthorUnknown, HandleOpSend,
                  HandleLateOpSend, FanoutEnd, FanoutTo, DrainRead, DrainPush, HandleSubscribe,
                  RefuseSubscribe, Connect, AwaitChainReady, Persist, AcceptInvitePin,
                  Disconnect, RestartRelay, FanoutFails, DrainFails, SubscribeFails,
                  DatabaseFails, vars, clientVars
    <2>. QED
      BY <1>3, <2>2, <2>3, <2>4, <2>5 DEF Next, Author
  <1>4. IInv /\ Linked /\ [Next]_vars =>
          [\A u \in Others : ~PinInReach(u) /\ pins'[u] # Null => stored'[u] = stored[u]]_vars
    BY <1>3
  <1>. QED
    BY <1>1, <1>2, <1>4, PTL DEF Spec, PinAheadBlocks

---------------------------------------------------------------------------
(***************************************************************************)
(* Refinement of SignedLog                                                 *)
(***************************************************************************)

\* A prefix is one of the abstract log's Prefixes.
LEMMA BeforeIsAbstractPrefix ==
  ASSUME NEW S, NEW s \in Seq(S), NEW t \in Seq(S), Before(s, t)
  PROVE  s \in AbstractLog!Prefixes(t)
  <1>1. Len(s) \in 0 .. Len(t)
    BY DEF Before
  <1>2. SubSeq(t, 1, Len(s)) = s
    BY DEF Before
  <1>. QED
    BY <1>1, <1>2 DEF AbstractLog!Prefixes

\* Authoring is an abstract write.
LEMMA AuthorWrites ==
  ASSUME IInv, NEW call \in todo, AuthorOp(call) \/ AuthorOffline(call)
  PROVE  AbstractLog!Write
  <1>1. /\ svc = signed /\ svc' = signed'
        /\ signed' \in Seq(SignedOps') /\ SignedOps \subseteq SignedOps'
        /\ Before(signed, signed') /\ Len(signed') = Len(signed) + 1
    BY SignStep DEF AuthorOp, AuthorOffline, relayVars
  <1>2. SubSeq(signed', 1, Len(signed)) = signed
    BY <1>1 DEF Before, IInv, TypeOK
  <1>3. UNCHANGED disk
    BY DEF AuthorOp, AuthorOffline
  <1>4. stored' \in {stored, [stored EXCEPT ![Founder] = signed']}
    <2>1. CASE AuthorOp(call)
      <3>1. stored' = [stored EXCEPT ![Founder] = SyncOwn(stored[Founder], svc')]
        BY <2>1 DEF AuthorOp
      <3>2. stored[Founder] \in Seq(SignedOps) /\ signed \in Seq(SignedOps)
            /\ Before(stored[Founder], signed)
        BY DEF IInv, TypeOK, Chained, Users
      <3>3. stored[Founder] \in Seq(SignedOps') /\ signed \in Seq(SignedOps')
        BY <1>1, <3>2, SeqMonotonic
      <3>4. SyncOwn(stored[Founder], signed') = signed'
        BY <1>1, <3>2, <3>3, BeforeTransitive, SyncOwnCompletes
      <3>. QED
        BY <1>1, <3>1, <3>4
    <2>2. CASE AuthorOffline(call)
      BY <2>2 DEF AuthorOffline
    <2>. QED
      BY <2>1, <2>2
  <1>. QED
    BY <1>1, <1>2, <1>3, <1>4 DEF AbstractLog!Write

\* Receiving an operation is learning, or nothing.
LEMMA RecvLearns ==
  ASSUME IInv, NEW u \in Users, RecvOp(u)
  PROVE  AbstractLog!Learn(u)
  <1>. DEFINE kept == AcceptOp(stored[u], pins[u], Head(down[u]))
  <1>1. stored' = [stored EXCEPT ![u] = kept] /\ UNCHANGED <<signed, disk>>
    BY DEF RecvOp
  <1>2. Head(down[u]) \in SignedOps
    BY HeadTailProperties DEF RecvOp, IInv, TypeOK
  <1>3. /\ signed \in Seq(SignedOps) /\ stored[u] \in Seq(SignedOps)
        /\ Before(stored[u], signed)
    BY DEF IInv, TypeOK, Chained
  <1>4. Before(stored[u], stored[u])
    BY <1>3 DEF Before
  <1>5. kept \in Seq(SignedOps) /\ Before(kept, signed) /\ Before(stored[u], kept)
    BY <1>2, <1>3, <1>4, DenseAppend DEF AcceptOp
  <1>. HIDE DEF kept
  <1>6. kept \in AbstractLog!Prefixes(signed) /\ stored[u] \in AbstractLog!Prefixes(kept)
    BY <1>3, <1>5, BeforeIsAbstractPrefix
  <1>. QED
    BY <1>1, <1>6 DEF AbstractLog!Learn

\* Every step is a step of the abstract log or leaves it alone.
LEMMA StepRefines ==
  IInv /\ [Next]_vars => [AbstractLog!LogNext]_(AbstractLog!logVars)
  <1>. SUFFICES ASSUME IInv, [Next]_vars,
                       ~UNCHANGED <<signed, stored, disk>>
                PROVE  AbstractLog!LogNext
    BY DEF AbstractLog!logVars
  <1>1. ASSUME NEW call \in todo, AuthorOp(call) \/ AuthorOffline(call)
        PROVE  AbstractLog!LogNext
    BY <1>1, AuthorWrites DEF AbstractLog!LogNext
  <1>2. ASSUME NEW u \in Users, RecvOp(u) PROVE AbstractLog!LogNext
    BY <1>2, RecvLearns DEF AbstractLog!LogNext
  <1>3. ASSUME NEW u \in Users, Persist(u) PROVE AbstractLog!LogNext
    BY <1>3 DEF Persist, AbstractLog!LogNext, AbstractLog!Save
  <1>4. ASSUME NEW u \in Users, RestartClient(u) PROVE AbstractLog!LogNext
    BY <1>4 DEF RestartClient, CutLink, AbstractLog!LogNext, AbstractLog!Crash
  <1>5. CASE \/ \E initial \in SUBSET Others : CreateRest(initial)
             \/ \E u \in Others : InviteRest(u) \/ RemoveRest(u)
             \/ \E call \in todo : AuthorUnknown(call)
             \/ \E f \in fanout : FanoutFails(f)
             \/ \E u \in Users : DrainFails(u) \/ SubscribeFails(u)
             \/ RestartRelay
    BY <1>5 DEF CreateRest, InviteRest, RemoveRest, AuthorUnknown, RestartRelay, FanoutFails,
                DrainFails, SubscribeFails, DatabaseFails, clientVars
  <1>6. CASE RelayStep
    BY <1>6 DEF RelayStep, HandleOpSend, HandleLateOpSend, FanoutEnd, FanoutTo, DrainRead,
                DrainPush, HandleSubscribe, RefuseSubscribe, CutLink, clientVars
  <1>7. CASE \/ \E u \in Users : Connect(u) \/ AwaitChainReady(u) \/ Disconnect(u)
             \/ \E u \in Others, n \in 1 .. MaxOps : AcceptInvitePin(u, n)
    BY <1>7 DEF Connect, AwaitChainReady, Disconnect, AcceptInvitePin, CutLink, clientVars
  <1>8. CASE UNCHANGED vars
    BY <1>8 DEF vars, clientVars
  <1>. QED
    BY <1>1, <1>2, <1>3, <1>4, <1>5, <1>6, <1>7, <1>8 DEF Next, Author

\* The op-log as the code distributes it implements the abstract single-writer
\* log: nobody's chain is ever rewritten or shortened but by a restart, which
\* falls back to what was saved.
THEOREM Refinement == Spec => ImplementsSignedLog
  <1>1. Init => AbstractLog!LogInit
    BY DEF Init, AbstractLog!LogInit
  <1>2. Init => IInv
    BY InitHolds
  <1>3. IInv /\ [Next]_vars => IInv'
    BY StepHolds
  <1>4. IInv /\ [Next]_vars => [AbstractLog!LogNext]_(AbstractLog!logVars)
    BY StepRefines
  <1>. QED
    BY <1>1, <1>2, <1>3, <1>4, PTL DEF Spec, ImplementsSignedLog, AbstractLog!LogSpec

---------------------------------------------------------------------------
(***************************************************************************)
(* A gap in the relay's store                                              *)
(***************************************************************************)

\* No frame in the queue has this number.
NoneNumbered(q, n) == \A i \in 1 .. Len(q) : q[i].seq # n

\* The relay lacks a signed operation, and no frame that is left to handle
\* brings the next one: a broadcast was lost, or the relay has restarted.
StoreGap ==
    /\ Len(opStore) < Len(signed)
    /\ NoneNumbered(opq, Len(opStore))
    /\ \A k \in DOMAIN lateq : NoneNumbered(lateq[k], Len(opStore))

\* No step closes such a gap, or stores anything beyond it.
GapStays == [][StoreGap => StoreGap' /\ (opStore' = opStore \/ opStore' = <<>>)]_vars

\* A gap in the relay's store is there for good, for any users and bounds:
\* append broadcasts an operation once (service.ts:99-121), later ones have
\* higher numbers, and the dense store drops them.
THEOREM GapIsForGood == Spec => GapStays
  <1>1. Init => IInv
    BY InitHolds
  <1>2. IInv /\ [Next]_vars => IInv'
    BY StepHolds
  <1>3. ASSUME IInv, StoreGap, [Next]_vars
        PROVE  StoreGap' /\ (opStore' = opStore \/ opStore' = <<>>)
    <2>1. /\ opStore \in Seq(SignedOps) /\ signed \in Seq(SignedOps)
          /\ opq \in Seq(SignedOps) /\ lateq \in Seq(Seq(SignedOps))
          /\ Len(opStore) \in Nat /\ Len(signed) \in Nat /\ Len(opq) \in Nat
      BY <1>3, LenProperties DEF IInv, TypeOK
    <2>2. ASSUME NEW call \in todo, AuthorOp(call) \/ AuthorOffline(call)
          PROVE  StoreGap' /\ opStore' = opStore
      <3>. DEFINE op == SignNext(svc, call)
      <3>1. svc = signed /\ Len(signed') = Len(signed) + 1
        BY <1>3, <2>2, SignStep DEF AuthorOp, AuthorOffline, relayVars
      <3>2. op.seq = Len(signed)
        BY <3>1 DEF SignNext
      <3>3. opStore' = opStore /\ lateq' = lateq /\ (opq' = opq \/ opq' = Append(opq, op))
        BY <2>2 DEF AuthorOp, AuthorOffline, relayVars, netVars
      <3>. HIDE DEF op
      <3>4. op.seq # Len(opStore)
        BY <2>1, <3>2, <1>3 DEF StoreGap
      <3>5. NoneNumbered(Append(opq, op), Len(opStore))
        BY <1>3, <2>1, <3>4 DEF StoreGap, NoneNumbered
      <3>6. Len(opStore) < Len(signed')
        BY <1>3, <2>1, <3>1 DEF StoreGap
      <3>. QED
        BY <1>3, <3>3, <3>5, <3>6 DEF StoreGap
    <2>3. ASSUME NEW q \in Seq(SignedOps), q # <<>>, NoneNumbered(q, Len(opStore))
          PROVE  NoneNumbered(Tail(q), Len(opStore)) /\ StoreOp(opStore, Head(q)) = opStore
      <3>1. /\ Len(q) \in Nat /\ Len(q) # 0 /\ Head(q) = q[1] /\ Len(Tail(q)) = Len(q) - 1
            /\ \A i \in 1 .. Len(Tail(q)) : Tail(q)[i] = q[i + 1]
        BY <2>3, HeadTailProperties, LenProperties, EmptySeq
      <3>2. Head(q).seq # Len(opStore)
        BY <2>3, <3>1 DEF NoneNumbered
      <3>3. \A i \in 1 .. Len(Tail(q)) : i + 1 \in 1 .. Len(q)
        BY <3>1
      <3>. QED
        BY <2>3, <3>1, <3>2, <3>3 DEF NoneNumbered, StoreOp
    <2>4. CASE HandleOpSend
      <3>1. /\ opq # <<>> /\ opq' = Tail(opq) /\ opStore' = StoreOp(opStore, Head(opq))
            /\ UNCHANGED <<signed, lateq>>
        BY <2>4 DEF HandleOpSend
      <3>. QED
        BY <1>3, <2>1, <2>3, <3>1 DEF StoreGap
    <2>5. ASSUME NEW k \in DOMAIN lateq, HandleLateOpSend(k)
          PROVE  StoreGap' /\ opStore' = opStore
      <3>1. /\ lateq[k] # <<>> /\ lateq' = [lateq EXCEPT ![k] = Tail(lateq[k])]
            /\ opStore' = StoreOp(opStore, Head(lateq[k])) /\ UNCHANGED <<signed, opq>>
        BY <2>5 DEF HandleLateOpSend, netVars
      <3>2. lateq[k] \in Seq(SignedOps) /\ NoneNumbered(lateq[k], Len(opStore))
        BY <1>3, LateTyped DEF StoreGap
      <3>3. NoneNumbered(Tail(lateq[k]), Len(opStore)) /\ opStore' = opStore
        BY <2>3, <3>1, <3>2
      <3>4. DOMAIN lateq' = DOMAIN lateq
            /\ \A j \in DOMAIN lateq : lateq'[j] = IF j = k THEN Tail(lateq[k]) ELSE lateq[j]
        BY <3>1
      <3>5. \A j \in DOMAIN lateq' : NoneNumbered(lateq'[j], Len(opStore))
        BY <1>3, <3>3, <3>4 DEF StoreGap
      <3>. QED
        BY <1>3, <3>1, <3>3, <3>5 DEF StoreGap
    <2>6. ASSUME NEW u \in Users, CutLink(u) PROVE StoreGap' /\ opStore' = opStore
      <3>1. UNCHANGED <<signed, opStore>>
        BY <2>6 DEF CutLink
      <3>2. CASE u = Founder
        <4>1. PICK n \in 0 .. Len(opq) : lateq' = Append(lateq, SubSeq(opq, 1, n))
          BY <2>6, <3>2 DEF CutLink
        <4>2. opq' = <<>>
          BY <2>6, <3>2 DEF CutLink
        <4>3. \A k \in DOMAIN lateq' : NoneNumbered(lateq'[k], Len(opStore))
          <5>. DEFINE q == SubSeq(opq, 1, n)
          <5>1. q \in Seq(SignedOps) /\ NoneNumbered(q, Len(opStore))
            BY <1>3, <2>1 DEF StoreGap, NoneNumbered
          <5>. HIDE DEF q
          <5>2. /\ Len(lateq) \in Nat /\ DOMAIN lateq = 1 .. Len(lateq)
                /\ DOMAIN lateq' = 1 .. Len(lateq) + 1
                /\ lateq'[Len(lateq) + 1] = q
                /\ \A k \in 1 .. Len(lateq) : lateq'[k] = lateq[k]
            <6>1. lateq' = Append(lateq, q) /\ lateq \in Seq(Seq(SignedOps))
                  /\ q \in Seq(SignedOps)
              BY <2>1, <4>1, <5>1 DEF q
            <6>. QED
              BY <6>1, AppendProperties, LenProperties
          <5>3. \A k \in DOMAIN lateq' : k = Len(lateq) + 1 \/ k \in 1 .. Len(lateq)
            BY <5>2
          <5>. QED
            BY <1>3, <5>1, <5>2, <5>3 DEF StoreGap
        <4>4. NoneNumbered(<<>>, Len(opStore))
          BY DEF NoneNumbered
        <4>. QED
          BY <1>3, <3>1, <4>1, <4>2, <4>3, <4>4 DEF StoreGap
      <3>3. CASE u # Founder
        BY <1>3, <2>6, <3>1, <3>3 DEF CutLink, StoreGap
      <3>. QED
        BY <3>1, <3>2, <3>3
    <2>7. CASE RestartRelay
      <3>1. opStore' = <<>> /\ opq' = <<>> /\ lateq' = <<>> /\ signed' = signed
        BY <2>7 DEF RestartRelay
      <3>2. Len(<<>>) = 0 /\ 0 < Len(signed) /\ NoneNumbered(<<>>, 0) /\ DOMAIN <<>> = {}
        BY <1>3, <2>1 DEF StoreGap, NoneNumbered
      <3>. QED
        BY <3>1, <3>2 DEF StoreGap
    <2>8. ASSUME UNCHANGED <<signed, opStore, opq, lateq>> PROVE StoreGap' /\ opStore' = opStore
      BY <1>3, <2>8 DEF StoreGap
    <2>9. \/ UNCHANGED <<signed, opStore, opq, lateq>>
          \/ \E call \in todo : AuthorOp(call) \/ AuthorOffline(call)
          \/ HandleOpSend \/ \E k \in DOMAIN lateq : HandleLateOpSend(k)
          \/ \E u \in Users : CutLink(u)
          \/ RestartRelay
      BY <1>3 DEF Next, Author, RelayStep, CreateRest, InviteRest, RemoveRest, AuthorUnknown,
             FanoutEnd, FanoutTo, DrainRead, DrainPush, HandleSubscribe, RefuseSubscribe,
             RecvOp, Connect, AwaitChainReady, Persist, AcceptInvitePin, Disconnect,
             RestartClient, FanoutFails, DrainFails, SubscribeFails, DatabaseFails, vars,
             relayVars, netVars
    <2>. QED
      BY <2>2, <2>4, <2>5, <2>6, <2>7, <2>8, <2>9
  <1>4. IInv /\ [Next]_vars =>
          [StoreGap => StoreGap' /\ (opStore' = opStore \/ opStore' = <<>>)]_vars
    BY <1>3
  <1>. QED
    BY <1>1, <1>2, <1>4, PTL DEF Spec, GapStays
=============================================================================
